----------------------------- MODULE MCControl -----------------------------
(***************************************************************************)
(* Four scenarios of the terminal-control authority in one run: each       *)
(* initial state chooses one, and only that instance takes steps. The      *)
(* scenarios share the variables of the module, so its properties are      *)
(* about all of them.                                                      *)
(***************************************************************************)
EXTENDS TerminalControl, Naturals, FiniteSets, Sequences, TLC

CONSTANTS cli, dash, feishu, o1, o2, t1, t2

VARIABLE scenario

\* The kind of each owner of a scenario.
KindOf(S) == [o \in S |-> CASE o = feishu -> "feishu" [] o = dash -> "dashboard"
                            [] o = cli -> "local-cli"]

\* The kinds of the owners of the module itself.
MCkindOf == KindOf(Owner)

\* Two owners hand one target over while probes, captures and pipes fail.
Handoff == INSTANCE TerminalControl WITH Owner <- {feishu, dash},
    kindOf <- KindOf({feishu, dash}), OpId <- {o1}, JournalCap <- 2,
    Target <- {t1, t2}, Kinds <- {"raw"},
    Fault <- {"probe", "capture", "pipe", "lostRecovery", "crash"},
    MaxFaults <- 2, MaxFence <- 3, MaxHandoffs <- 1, MaxSessions <- 1

\* A session is killed and recreated under its name while input is under way.
Recreate == INSTANCE TerminalControl WITH Owner <- {dash},
    kindOf <- KindOf({dash}), OpId <- {o1}, JournalCap <- 1,
    Target <- {t1, t2}, Kinds <- {"raw", "lifecycle-kill"},
    Fault <- {"write", "save", "crash"}, MaxFaults <- 2, MaxFence <- 2,
    MaxHandoffs <- 0, MaxSessions <- 2

\* Two owners make every request, send raw and Agent input and kill the
\* session, and retry it under later leases, while writes go unconfirmed,
\* saves fail and the daemon dies.
Requests == INSTANCE TerminalControl WITH Owner <- {feishu, dash},
    kindOf <- KindOf({feishu, dash}), OpId <- {o1}, JournalCap <- 1,
    Target <- {t1, t2}, Kinds <- {"raw", "agent-message", "lifecycle-kill"},
    Fault <- {"write", "save", "crash"}, MaxFaults <- 2, MaxFence <- 3,
    MaxHandoffs <- 1, MaxSessions <- 1

\* Three owners send more operations than the journal holds, uncertain ones
\* among them.
\* (The module itself, with the constants of the configuration: scenario "input".)


suiteVars == <<scenario, epoch, targets, tmux, producer, up, call, late,
          landed, replayed, faults>>

SuiteInit ==
    \/ /\ scenario = "handoff" /\ Handoff!Init
    \/ /\ scenario = "recreate" /\ Recreate!Init
    \/ /\ scenario = "requests" /\ Requests!Init
    \/ /\ scenario = "input" /\ Init

SuiteNext ==
    \/ /\ scenario = "handoff" /\ Handoff!Next
       /\ UNCHANGED <<scenario>>
    \/ /\ scenario = "recreate" /\ Recreate!Next
       /\ UNCHANGED <<scenario>>
    \/ /\ scenario = "requests" /\ Requests!Next
       /\ UNCHANGED <<scenario>>
    \/ /\ scenario = "input" /\ Next
       /\ UNCHANGED <<scenario>>

SuiteSpec == SuiteInit /\ [][SuiteNext]_suiteVars

-----------------------------------------------------------------------------
\* The ids that target.resolve mints are interchangeable.
Symmetry == Permutations({t1, t2})

=============================================================================
