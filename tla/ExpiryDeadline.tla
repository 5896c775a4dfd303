---------------------------- MODULE ExpiryDeadline ----------------------------
(***************************************************************************)
(* The timers that end a relay v2 host connection when its access token     *)
(* expires and warn the host before                                         *)
(* (src/src/relay/v2/brokerAuthorizationExpiryDeadlineOwner.ts), against the *)
(* broker's answers to them (brokerCore.ts) while the host registers,       *)
(* reauthenticates and disconnects.                                         *)
(*                                                                          *)
(* Credentials are numbered in the order they are issued.  A call of the    *)
(* owner into the broker is queued, answered and applied in separate steps: *)
(* the broker's calls are serialized and their results arrive through a     *)
(* promise, before any timer runs.  Timers may fire early, and the process  *)
(* may be suspended past a timer, a bounded number of times.                *)
(***************************************************************************)
EXTENDS Naturals, FiniteSets

CONSTANTS MaxCred,     \* credentials the host obtains
          Life,        \* distance of the expiries of consecutive credentials
          Lead,        \* how long before the expiry the host is warned
          MaxEarly,    \* timers that fire before their time
          MaxFull,     \* control frames refused for lack of room
          MaxMisses,   \* replayed reauthentications, and instants passed while busy
          None

\* What the broker answers to an attempt to warn the host.
Answers == {"emitted", "deferred", "not_due", "closed", "expired", "stale", "active"}

DeadlineAssumption ==
    /\ MaxCred \in Nat \ {0} /\ Life \in Nat \ {0} /\ Lead \in 1 .. Life
    /\ {MaxEarly, MaxFull, MaxMisses} \subseteq Nat
    /\ None \notin Nat /\ None \notin Answers

VARIABLES core,    \* the broker's record of the connection
          entry,   \* the owner's entry for it
          calls,   \* warning attempts of the owner not yet applied
          sealed,  \* the owner asked the broker to close every connection
          now, budget

vars == <<core, entry, calls, sealed, now, budget>>

Creds == 1 .. MaxCred
expiresAtMs(n) == n * Life
LastInstant == expiresAtMs(MaxCred)
MAX_CONSECUTIVE_EARLY_FIRES == 2

Spend(what) == budget[what] > 0 /\ budget' = [budget EXCEPT ![what] = @ - 1]

-----------------------------------------------------------------------------
(* The owner's entry.                                                      *)

\* What the broker answers to a cut.
Result == [outcome : {"active"}, cred : Creds] \cup [outcome : {"expired", "stale"}]

Entry ==
    [state : {"current", "retired"},
     deadline : Creds \cup {None},       \* armed for this credential's expiry
     cut : {"none", "queued", "answered", "applied"}, answer : Result \cup {None},
     fromDeadline : BOOLEAN, pendingFire : BOOLEAN, pendingRefresh : BOOLEAN,
     early : Nat,
     warningDeadline : BOOLEAN, warning : Creds \cup {None}, warningFired : BOOLEAN,
     warningEarly : Nat, generation : Nat]

cancel(e) == [e EXCEPT !.deadline = None, !.warningDeadline = FALSE, !.warning = None]

retire(e) ==
    [cancel(e) EXCEPT !.state = "retired", !.pendingFire = FALSE, !.pendingRefresh = FALSE,
                      !.generation = e.generation + 1]

isCurrent(e) == e.state = "current" /\ ~sealed

admitCut(e, fromDeadline) ==
    IF e.cut # "none"
    THEN [e EXCEPT !.pendingFire = @ \/ fromDeadline]
    ELSE [e EXCEPT !.cut = "queued", !.fromDeadline = fromDeadline]

refreshEntry_drops(e) ==
    LET bumped == [e EXCEPT !.generation = @ + 1] IN
    IF e.cut # "none" THEN bumped
    ELSE admitCut([cancel(bumped) EXCEPT !.warning = e.warning, !.early = 0], FALSE)

refreshEntry(e) ==
    LET bumped == [e EXCEPT !.generation = @ + 1] IN
    IF e.cut # "none" THEN [bumped EXCEPT !.pendingRefresh = TRUE]
    ELSE admitCut([cancel(bumped) EXCEPT !.warning = e.warning, !.early = 0], FALSE)

\* Arming what is already armed is the owner's own inconsistency: it seals.
MustSealWarning(e, n) ==
    /\ ~(e.warning = n /\ e.warningFired)
    /\ e.warningDeadline

armWarning_keepsFired(e, n) ==
    LET own == [e EXCEPT !.warning = n, !.warningEarly = IF e.warning = n THEN @ ELSE 0]
    IN  [own EXCEPT !.warningDeadline = @ \/ ~own.warningFired]

armWarning(e, n) ==
    LET own == IF e.warning = n THEN e
               ELSE [e EXCEPT !.warning = n, !.warningFired = FALSE, !.warningEarly = 0]
    IN  [own EXCEPT !.warningDeadline = @ \/ ~own.warningFired]

MustSeal(e, n) == e.deadline # None \/ MustSealWarning(e, n)

arm(e, n) == armWarning([e EXCEPT !.deadline = n], n)

-----------------------------------------------------------------------------
(* The broker's side.                                                      *)

isAuthorizationExpired(n) == expiresAtMs(n) <= now

Connected == core.status \in {"pending", "active"}

recheckConnectionAccessExpiry ==
    IF ~Connected THEN [outcome |-> "stale"]
    ELSE IF isAuthorizationExpired(core.cred) THEN [outcome |-> "expired"]
    ELSE [outcome |-> "active", cred |-> core.cred]

\* The registered frame is delivered: a deferred warning is sent now, and a host
\* without room for it is closed.
CommitRegistration ==
    LET deferred == core.marker = "deferred" /\ core.markerCred = core.cred IN
    /\ core.status = "pending" /\ ~isAuthorizationExpired(core.cred)
    /\ \/ /\ core' = IF deferred
                     THEN [core EXCEPT !.status = "active", !.marker = "emitted",
                                       !.sent = @ \cup {core.cred}]
                     ELSE [core EXCEPT !.status = "active"]
          /\ UNCHANGED budget
       \/ /\ deferred /\ Spend("full")
          /\ core' = [core EXCEPT !.status = "closing", !.marker = None]
    /\ UNCHANGED <<entry, calls, sealed, now>>

\* The host is given a newer credential; the refresh of the owner follows
\* when the call's promise resolves.
Reauthenticate ==
    /\ core.status = "active" /\ ~isAuthorizationExpired(core.cred)
    /\ core.cred < MaxCred
    /\ core' = [core EXCEPT !.cred = @ + 1, !.refresh = TRUE]
    /\ UNCHANGED <<entry, calls, sealed, now, budget>>

\* The same request again: the broker answers from its replay table.
ReplayReauthentication ==
    /\ core.status = "active" /\ ~isAuthorizationExpired(core.cred) /\ core.cred > 1
    /\ core' = [core EXCEPT !.refresh = TRUE]
    /\ Spend("misses")
    /\ UNCHANGED <<entry, calls, sealed, now>>

Refresh ==
    /\ core.refresh
    /\ core' = [core EXCEPT !.refresh = FALSE]
    /\ entry' = IF isCurrent(entry) THEN refreshEntry(entry) ELSE entry
    /\ UNCHANGED <<calls, sealed, now, budget>>

\* The connection ends (its transport, or the close the broker asked for);
\* its entry is unregistered.
Disconnect ==
    /\ core.status \in {"pending", "active", "closing"}
    /\ core' = [core EXCEPT !.status = "gone", !.refresh = FALSE]
    /\ entry' = IF entry.state = "current" THEN retire(entry) ELSE entry
    /\ UNCHANGED <<calls, sealed, now, budget>>

-----------------------------------------------------------------------------
(* The expiry deadline.                                                    *)

\* A timer fires once its time has come, or one instant early.
Due(at) == \/ now >= at /\ UNCHANGED budget
           \/ now + 1 = at /\ Spend("early")

\* A timer's callback runs when no promise of the owner is left to settle.
Settled == entry.cut = "none" /\ calls = {} /\ ~core.refresh

WarningIsDue == entry.warningDeadline /\ now >= expiresAtMs(entry.warning) - Lead

deadlineFired ==
    /\ isCurrent(entry) /\ entry.deadline # None /\ Settled
    /\ ~WarningIsDue                       \* timers fire in the order of their times
    /\ Due(expiresAtMs(entry.deadline))
    /\ entry' = admitCut([entry EXCEPT !.deadline = None], TRUE)
    /\ UNCHANGED <<core, calls, sealed, now>>

\* The serialized cut runs in the broker; an expired connection is fenced.
AnswerCut ==
    /\ entry.cut = "queued"
    /\ entry' = [entry EXCEPT !.cut = "answered", !.answer = recheckConnectionAccessExpiry]
    /\ core' = IF recheckConnectionAccessExpiry.outcome = "expired"
               THEN [core EXCEPT !.status = "closing"] ELSE core
    /\ UNCHANGED <<calls, sealed, now, budget>>

applyCutResult(e) ==
    LET counted == [e EXCEPT !.early = IF e.fromDeadline THEN @ + 1 ELSE 0, !.cut = "applied",
                             !.answer = None]
    IN  IF e.answer.outcome # "active" THEN [retire(e) EXCEPT !.cut = "applied", !.answer = None]
        ELSE arm(counted, e.answer.cred)

SealsOnCut(e) ==
    /\ e.answer.outcome = "active"
    /\ \/ e.fromDeadline /\ e.early + 1 >= MAX_CONSECUTIVE_EARLY_FIRES
       \/ MustSeal(e, e.answer.cred)

ApplyCut ==
    /\ entry.cut = "answered"
    /\ IF ~isCurrent(entry)
       THEN entry' = [entry EXCEPT !.cut = "applied", !.answer = None] /\ UNCHANGED sealed
       ELSE IF SealsOnCut(entry)
       THEN entry' = [retire(entry) EXCEPT !.cut = "applied", !.answer = None] /\ sealed' = TRUE
       ELSE entry' = applyCutResult(entry) /\ UNCHANGED sealed
    /\ UNCHANGED <<core, calls, now, budget>>

\* The cut's promise settles: what came in meanwhile is run now.
FinishCut ==
    /\ entry.cut = "applied"
    /\ LET idle == [entry EXCEPT !.cut = "none", !.fromDeadline = FALSE]
           fired == IF isCurrent(idle) /\ idle.pendingFire
                    THEN admitCut([idle EXCEPT !.pendingFire = FALSE], TRUE) ELSE idle
       IN  entry' = IF isCurrent(fired) /\ fired.pendingRefresh
                    THEN refreshEntry([fired EXCEPT !.pendingRefresh = FALSE]) ELSE fired
    /\ UNCHANGED <<core, calls, sealed, now, budget>>

-----------------------------------------------------------------------------
(* The warning.                                                            *)

warningDeadlineFired ==
    /\ isCurrent(entry) /\ entry.warningDeadline /\ Settled
    /\ Due(expiresAtMs(entry.warning) - Lead)
    /\ entry' = [entry EXCEPT !.warningDeadline = FALSE, !.warningFired = TRUE,
                              !.generation = @ + 1]
    /\ calls' = calls \cup {[kind |-> "emit", cred |-> entry.warning,
                             generation |-> entry.generation + 1, answer |-> None]}
    /\ UNCHANGED <<core, sealed, now>>

\* The broker decides on the warning of credential n.
WarningOutcome(n) ==
    IF ~Connected THEN "closed"
    ELSE IF core.cred # n THEN "stale"
    ELSE IF isAuthorizationExpired(n) THEN "expired"
    ELSE IF now < expiresAtMs(n) - Lead THEN "not_due"
    ELSE IF core.marker = "emitted" /\ core.markerCred = n THEN "emitted"
    ELSE IF core.status # "active" THEN "deferred" ELSE "emit"

recheckHostAuthExpiringWarning(call) ==
    /\ call.answer = None /\ call.kind = "emit"
    /\ LET outcome == WarningOutcome(call.cred) IN
       \/ /\ outcome = "emit"
          /\ core' = [core EXCEPT !.marker = "emitted", !.markerCred = call.cred,
                                  !.sent = @ \cup {call.cred}]
          /\ calls' = (calls \ {call}) \cup {[call EXCEPT !.answer = "emitted"]}
          /\ UNCHANGED budget
       \/ /\ outcome = "emit" /\ Spend("full")
          /\ core' = [core EXCEPT !.status = "closing"]
          /\ calls' = (calls \ {call}) \cup {[call EXCEPT !.answer = "closed"]}
       \/ /\ outcome # "emit"
          /\ core' = IF outcome = "deferred"
                     THEN [core EXCEPT !.marker = "deferred", !.markerCred = call.cred] ELSE core
          /\ calls' = (calls \ {call}) \cup {[call EXCEPT !.answer = outcome]}
          /\ UNCHANGED budget
    /\ UNCHANGED <<entry, sealed, now>>

\* A stale warning asks the broker which credential the connection has now.
AnswerStale(call) ==
    /\ call.answer = None /\ call.kind = "recheck"
    /\ calls' = (calls \ {call}) \cup {[call EXCEPT !.answer = recheckConnectionAccessExpiry.outcome]}
    /\ core' = IF recheckConnectionAccessExpiry.outcome = "expired"
               THEN [core EXCEPT !.status = "closing"] ELSE core
    /\ UNCHANGED <<entry, sealed, now, budget>>

\* The attempt is still the entry's own.
Fresh(call) ==
    isCurrent(entry) /\ entry.warning = call.cred /\ entry.generation = call.generation

NotDue(e) == [e EXCEPT !.warningFired = FALSE, !.warningEarly = @ + 1]

ApplyWarning(call) ==
    /\ call.answer # None
    /\ LET again == IF Fresh(call) /\ call.kind = "emit" /\ call.answer = "stale"
                    THEN {[call EXCEPT !.kind = "recheck", !.answer = None]} ELSE {}
       IN  calls' = (calls \ {call}) \cup again
    /\ IF ~Fresh(call) THEN UNCHANGED <<entry, sealed>>
       ELSE IF call.answer = "not_due"
       THEN IF \/ entry.warningEarly + 1 >= MAX_CONSECUTIVE_EARLY_FIRES
               \/ MustSealWarning(NotDue(entry), call.cred)
            THEN entry' = retire(entry) /\ sealed' = TRUE
            ELSE entry' = armWarning(NotDue(entry), call.cred) /\ UNCHANGED sealed
       ELSE IF call.kind = "recheck" /\ call.answer = "active"
       THEN entry' = refreshEntry(entry) /\ UNCHANGED sealed
       ELSE IF call.answer \in {"closed", "expired"} \/ call.kind = "recheck"
       THEN entry' = retire(entry) /\ UNCHANGED sealed
       ELSE UNCHANGED <<entry, sealed>>
    /\ UNCHANGED <<core, now, budget>>

\* Something of the owner's is due at this instant.
OwnerBusy ==
    \/ isCurrent(entry) /\ (WarningIsDue \/ (entry.deadline # None /\ now >= expiresAtMs(entry.deadline)))
    \/ ~Settled

Tick ==
    /\ now < LastInstant /\ now' = now + 1
    /\ IF OwnerBusy THEN Spend("misses") ELSE UNCHANGED budget
    /\ UNCHANGED <<core, entry, calls, sealed>>

-----------------------------------------------------------------------------
\* The connection was just attached and registered with the owner.
Attached == [status |-> "pending", cred |-> 1, marker |-> None, markerCred |-> None,
             sent |-> {}, refresh |-> FALSE]

Registered ==
    [state |-> "current", deadline |-> None, cut |-> "queued", answer |-> None,
     fromDeadline |-> FALSE, pendingFire |-> FALSE, pendingRefresh |-> FALSE, early |-> 0,
     warningDeadline |-> FALSE, warning |-> None, warningFired |-> FALSE,
     warningEarly |-> 0, generation |-> 0]

Allowed == [early |-> MaxEarly, full |-> MaxFull, misses |-> MaxMisses]

Init ==
    /\ core = Attached /\ entry = Registered /\ calls = {} /\ sealed = FALSE /\ now = 0
    /\ budget = Allowed

OwnerStep ==
    \/ deadlineFired \/ AnswerCut \/ ApplyCut \/ FinishCut \/ warningDeadlineFired \/ Refresh
    \/ \E call \in calls :
          recheckHostAuthExpiringWarning(call) \/ AnswerStale(call) \/ ApplyWarning(call)

Next == OwnerStep \/ CommitRegistration \/ Reauthenticate \/ ReplayReauthentication \/ Disconnect \/ Tick

Spec == Init /\ [][Next]_vars

\* Timers fire, calls are served and time passes; a connection the broker
\* decided to close is closed.
CallStep == \E call \in calls : recheckHostAuthExpiringWarning(call) \/ AnswerStale(call)
                                    \/ ApplyWarning(call)

CloseStep == core.status = "closing" /\ Disconnect

FairSpec ==
    /\ Spec
    /\ WF_vars(deadlineFired) /\ WF_vars(AnswerCut) /\ WF_vars(ApplyCut) /\ WF_vars(FinishCut)
    /\ WF_vars(warningDeadlineFired) /\ WF_vars(Refresh) /\ WF_vars(Tick)
    /\ WF_vars(CallStep) /\ WF_vars(CloseStep)

-----------------------------------------------------------------------------
Core == [status : {"pending", "active", "closing", "gone"}, cred : Creds,
         marker : {None, "deferred", "emitted"}, markerCred : Creds \cup {None},
         sent : SUBSET Creds, refresh : BOOLEAN]

Attempt == [kind : {"emit", "recheck"}, cred : Creds, generation : Nat,
            answer : Answers \cup {None}]

(* Type invariant of the owner's entry, its attempts to warn and the         *)
(* broker's record; a retired entry has no timer armed.                      *)
TypeOK ==
    /\ entry \in Entry /\ core \in Core /\ calls \subseteq Attempt
    /\ entry.state = "retired" => (entry.deadline = None /\ ~entry.warningDeadline)
    /\ sealed \in BOOLEAN /\ now \in 0 .. LastInstant
    /\ budget \in [{"early", "full", "misses"} -> Nat]

\* No race of one connection's timers, reauthentications and disconnect makes
\* the owner close every connection of the broker: it seals only after two
\* timers in a row fired early (arm, armWarning, refreshEntry).
SealedOnlyByEarlyTimers == sealed => budget.early + MAX_CONSECUTIVE_EARLY_FIRES <= MaxEarly

\* While the connection is registered the owner has a way to notice the
\* expiry of the credential the connection has now: its deadline is armed for
\* it, or a cut or a refresh that will arm it is under way.
Watched ==
    (Connected /\ ~sealed /\ entry.state = "current") =>
        \/ entry.deadline = core.cred
        \/ entry.cut = "queued"
        \/ entry.cut = "answered" /\ entry.answer = [outcome |-> "active", cred |-> core.cred]
        \/ entry.cut = "applied" /\ entry.pendingFire
        \/ entry.cut # "none" /\ entry.pendingRefresh
        \/ core.refresh

\* The owner let go of the connection: the process was suspended for the whole lead,
\* the warning that ran first then found the credential expired, and retired the entry
\* with the deadline that would have closed the connection (warningDeadlineFired).
LetGo ==
    /\ entry.state = "retired" /\ core.cred \notin core.sent
    /\ budget.misses + Lead <= MaxMisses

\* An expired connection is closed, or gets a newer credential in time
\* (recheckConnectionAccessExpiry); not if its owner let go of it.
Overdue(n) == Connected /\ core.cred = n /\ isAuthorizationExpired(n) /\ ~LetGo

\* No timer was late so far, no reauthentication was answered from the replay
\* table and the owner did not seal.
Undisturbed == budget.misses = MaxMisses /\ ~sealed

\* The owner never loses sight of the expiry of a registered connection,
\* whatever crosses.  Undisturbed it keeps the connection's entry, and it
\* gives up all of them (seal) only because of timers that really fired early
\* (refreshEntry, admitCut, arm, retire).
ExpiryIsWatched ==
    /\ Watched
    /\ Undisturbed /\ Connected => entry.state = "current"
    /\ SealedOnlyByEarlyTimers

\* A registered host is warned before its credential expires: undisturbed, a
\* credential that has expired on a registered connection was announced, however
\* early timers, deferred warnings and reauthentications crossed
\* (warningDeadlineFired, recheckHostAuthExpiringWarning).  A reauthentication
\* answered from the replay table in the microtask in which a warning was not yet
\* due, and a timer late by the lead, would each lose the warning.
WarnedBeforeExpiry ==
    (Undisturbed /\ core.status = "active" /\ isAuthorizationExpired(core.cred))
        => core.cred \in core.sent
=============================================================================
