---------------------------- MODULE CommandLedger ----------------------------
(***************************************************************************)
(* The command plane of the relay host (src/relay/v2/hostCommandPlane.ts)  *)
(* with the resource reservations of resourceState.ts: remote commands are *)
(* admitted into a durable ledger inside a dedupe window, run at most      *)
(* once, and their results are kept, compacted to tombstones and deleted   *)
(* by the clock.  Calls are concurrent and interleave at every await; a    *)
(* store transaction commits, commits and reports an error ("uncertain"),  *)
(* or fails before its commit point ("fault").  The host dies and recovers.*)
(***************************************************************************)
EXTENDS Naturals, FiniteSets

CONSTANTS
    Cmd,            \* command ids
    Win,            \* ids of dedupe windows
    Call,           \* concurrent execute calls
    Create,         \* commands that reserve a resource
    AcceptFor,      \* RELAY_V2_COMMAND_ACCEPT_WINDOW_MS
    ResultFor,      \* RELAY_V2_COMMAND_RESULT_RETENTION_MS
    DedupeFor,      \* RELAY_V2_COMMAND_DEDUPE_RETENTION_MS
    MaxTime,        \* bound on the clock
    MaxFaults,      \* failing store calls and crashes
    ClockSteps      \* TRUE: the wall clock may also be set back

CommandLedgerAssumption ==
    /\ Create \subseteq Cmd /\ ClockSteps \in BOOLEAN
    /\ AcceptFor \in Nat /\ ResultFor \in Nat /\ DedupeFor \in Nat
    /\ MaxTime \in Nat /\ MaxFaults \in Nat
    /\ MaxTime + AcceptFor + ResultFor + DedupeFor + 1 \notin Cmd \cup Win

VARIABLES
    now,
    issued,     \* ids of windows drawn so far (issueOpaqueId)
    window,     \* the issued windows that are still stored
    ledger,     \* the command records
    res,        \* the reservation of each command in each window
    call,       \* execute calls under way
    runner,     \* this.runners
    query,      \* a command.query under way
    sweep,      \* a compaction under way: the time it read, or NoTime
    up,         \* the host process is serving
    faults,
    started,    \* history: invocations of the executor
    applied,    \* history: commands whose side effect took place
    told        \* history: what clients were told

vars == <<now, issued, window, ledger, res, call, runner, query, sweep, up, faults,
          started, applied, told>>

-----------------------------------------------------------------------------
Time == 0..(MaxTime + AcceptFor + ResultFor + DedupeFor)

NoTime == MaxTime + AcceptFor + ResultFor + DedupeFor + 1

Final == {"succeeded", "failed", "in_doubt"}

NoWindow == [accept |-> NoTime, query |-> NoTime]

NewWindow ==
    [accept |-> now + AcceptFor, query |-> now + AcceptFor + DedupeFor]

NoCommand == [state |-> "none", tomb |-> FALSE, win |-> NoTime,
              result |-> NoTime, dedupe |-> NoTime]

createAcceptedRecord(w) ==
    [state |-> "accepted", tomb |-> FALSE, win |-> w,
     result |-> NoTime, dedupe |-> NoTime]

Max2(a, b) == IF a >= b THEN a ELSE b

retentionUntil(w) ==
    Max2(now + DedupeFor, IF window[w] = NoWindow THEN 0 ELSE window[w].query)

finalizedRecord(w, state) ==
    [state |-> state, tomb |-> FALSE, win |-> w,
     result |-> now + ResultFor, dedupe |-> retentionUntil(w)]

Idle == [cmd |-> NoTime, win |-> NoTime, pc |-> "idle"]

NoRunner == [pc |-> "none", outcome |-> "none"]

NoQuery == [pc |-> "none", at |-> NoTime]

Fault == faults < MaxFaults /\ faults' = faults + 1

Tell(c, w, says) == told' = told \cup {[cmd |-> c, win |-> w, says |-> says]}

Expired(w) == window[w] = NoWindow \/ now > window[w].accept

(* commandWindowExpiredFrame asks for a new command.  The frame is the     *)
(* same for a window that no longer accepts and one that is forgotten.     *)
commandWindowExpiredFrame(c, w) ==
    Tell(c, w, IF window[w] = NoWindow THEN "forgotten" ELSE "reissue")

-----------------------------------------------------------------------------
(* Windows and the clock.                                                  *)
issueDedupeWindow(w) ==
    /\ up /\ w \notin issued /\ issued' = issued \cup {w}
    /\ window' = [window EXCEPT ![w] = NewWindow]
    /\ UNCHANGED <<now, ledger, res, call, runner, query, sweep, up, faults,
                   started, applied, told>>

Tick ==
    /\ now' \in (IF ClockSteps THEN 0..MaxTime ELSE {now + 1} \cap 0..MaxTime)
    /\ UNCHANGED <<issued, window, ledger, res, call, runner, query, sweep, up, faults,
                   started, applied, told>>

-----------------------------------------------------------------------------
(* execute.                                                                *)
ensureRunner(c) ==
    runner' = IF runner[c].pc = "none"
              THEN [runner EXCEPT ![c] = [NoRunner EXCEPT !.pc = "claim"]]
              ELSE runner

(* A different fingerprint (here: another window) is a conflict; otherwise *)
(* the answer is the stored state, and an accepted command is run.         *)
responseForExisting(k, c, w) ==
    LET old == ledger[c]
    IN  \/ /\ old.win = w /\ old.state = "accepted"
           /\ ensureRunner(c)
           /\ call' = [call EXCEPT ![k] = [cmd |-> c, win |-> w, pc |-> "await"]]
           /\ UNCHANGED told
        \/ /\ old.win = w /\ old.state \in Final
           /\ Tell(c, w, old.state)
           /\ call' = [call EXCEPT ![k] = Idle]
           /\ UNCHANGED runner
        \/ /\ old.win # w \/ old.state = "running"
           /\ call' = [call EXCEPT ![k] = Idle]
           /\ UNCHANGED <<runner, told>>

(* The first read and the window check.                                    *)
execute(k, c, w) ==
    /\ up /\ call[k] = Idle /\ w \in issued
    /\ \/ /\ ledger[c] # NoCommand
          /\ responseForExisting(k, c, w)
          /\ UNCHANGED faults
       \/ /\ ledger[c] = NoCommand /\ Expired(w)
          /\ commandWindowExpiredFrame(c, w)
          /\ UNCHANGED <<call, runner, faults>>
       \/ /\ ledger[c] = NoCommand /\ ~Expired(w)
          /\ call' = [call EXCEPT ![k] = [cmd |-> c, win |-> w, pc |-> "resolve"]]
          /\ UNCHANGED <<runner, told, faults>>
       \/ /\ Fault /\ Tell(c, w, "storage")
          /\ UNCHANGED <<call, runner>>
    /\ UNCHANGED <<now, issued, window, ledger, res, query, sweep, up, started, applied>>

(* executor.resolve refuses for the moment, or the resource owner or the   *)
(* fence does in the admission: nothing is written.                        *)
preLedgerFailure(k) ==
    /\ call[k].pc = "resolve"
    /\ call' = [call EXCEPT ![k] = Idle]
    /\ UNCHANGED <<now, issued, window, ledger, res, runner, query, sweep, up, faults,
                   started, applied, told>>

reserve(c, w) ==
    res' = IF c \in Create THEN [res EXCEPT ![<<c, w>>] = "active"] ELSE res

(* The admission transaction inserts an accepted record.  After an         *)
(* uncertain commit the record is read back; if that fails too the call    *)
(* ends with an error and the record stays accepted.                       *)
Insert(k, c, w) ==
    /\ ledger' = [ledger EXCEPT ![c] = createAcceptedRecord(w)]
    /\ reserve(c, w)
    /\ \/ /\ ensureRunner(c)
          /\ call' = [call EXCEPT ![k].pc = "await"]
          /\ UNCHANGED faults
       \/ /\ Fault
          /\ call' = [call EXCEPT ![k] = Idle]
          /\ UNCHANGED runner
    /\ UNCHANGED told

(* An immutable business failure is recorded without being run.            *)
createFinalFailureRecord(k, c, w) ==
    /\ ledger' = [ledger EXCEPT ![c] = finalizedRecord(w, "failed")]
    /\ Tell(c, w, "failed")
    /\ call' = [call EXCEPT ![k] = Idle]
    /\ UNCHANGED <<res, runner, faults>>

admit(k) ==
    LET c == call[k].cmd
        w == call[k].win
    IN  /\ call[k].pc = "resolve"
        /\ \/ /\ ledger[c] # NoCommand
              /\ responseForExisting(k, c, w)
              /\ UNCHANGED <<ledger, res, faults>>
           \/ /\ ledger[c] = NoCommand /\ Expired(w)
              /\ commandWindowExpiredFrame(c, w)
              /\ call' = [call EXCEPT ![k] = Idle]
              /\ UNCHANGED <<ledger, res, runner, faults>>
           \/ /\ ledger[c] = NoCommand /\ ~Expired(w)
              /\ Insert(k, c, w) \/ createFinalFailureRecord(k, c, w)
           \/ /\ Fault /\ Tell(c, w, "storage")
              /\ call' = [call EXCEPT ![k] = Idle]
              /\ UNCHANGED <<ledger, res, runner>>
        /\ UNCHANGED <<now, issued, window, query, sweep, up, started, applied>>

-----------------------------------------------------------------------------
(* runAcceptedWorker.                                                      *)
Awaiting(c) == {k \in Call : call[k].pc = "await" /\ call[k].cmd = c}

(* The runner's promise settles: every call that waits for it is answered  *)
(* from the record, or with an error (record = NoCommand).                 *)
Settle(c, record) ==
    /\ runner' = [runner EXCEPT ![c] = NoRunner]
    /\ call' = [k \in Call |-> IF k \in Awaiting(c) THEN Idle ELSE call[k]]
    /\ IF Awaiting(c) # {} /\ record.state \in Final
       THEN Tell(c, record.win, record.state) ELSE UNCHANGED told

(* accepted -> running.  An uncertain commit is read back and counts; a    *)
(* storage fault, or a failing read, ends the runner.                      *)
claimAccepted(c) ==
    /\ runner[c].pc = "claim"
    /\ \/ /\ ledger[c].state = "accepted"
          /\ ledger' = [ledger EXCEPT ![c].state = "running"]
          /\ \/ /\ runner' = [runner EXCEPT ![c].pc = "invoke"]
                /\ UNCHANGED <<call, told, faults>>
             \/ Fault /\ Settle(c, NoCommand)
       \/ /\ ledger[c].state # "accepted"
          /\ Settle(c, ledger[c])
          /\ UNCHANGED <<ledger, faults>>
       \/ /\ Fault /\ Settle(c, NoCommand)
          /\ UNCHANGED ledger
    /\ UNCHANGED <<now, issued, window, res, query, sweep, up, started, applied>>

(* The executor: the side effect takes place, or not, and the answer says  *)
(* so or is lost.  A resource command whose outcome cannot be validated    *)
(* counts as lost.                                                         *)
invoke(c) ==
    LET w == ledger[c].win
    IN  /\ runner[c].pc = "invoke"
        /\ started' = [started EXCEPT ![<<c, w>>] = @ + 1]
        /\ \E outcome \in Final :
            /\ \/ outcome # "failed" /\ applied' = applied \cup {<<c, w>>}
               \/ outcome # "succeeded" /\ UNCHANGED applied
            /\ runner' = [runner EXCEPT ![c] =
                   [pc |-> IF outcome = "in_doubt" THEN "markInDoubt" ELSE "finalize",
                    outcome |-> outcome]]
        /\ UNCHANGED <<now, issued, window, ledger, res, call, query, sweep, up, faults, told>>

(* commitCommandResource, settleCommandResource: a reservation that a scan *)
(* has already turned into a session stays consumed.                       *)
Settled(c, w, state) ==
    IF c \notin Create \/ res[<<c, w>>] = "consumed" THEN res
    ELSE [res EXCEPT ![<<c, w>>] = CASE state = "succeeded" -> "consumed"
                                 [] state = "failed" -> "released"
                                 [] state = "in_doubt" -> "uncertain"]

(* The final state and the reservation change in one transaction.  When    *)
(* it fails the command is marked in doubt.                                *)
finalizeRunning(c) ==
    LET w == ledger[c].win
        record == finalizedRecord(w, runner[c].outcome)
    IN  /\ runner[c].pc = "finalize"
        /\ \/ /\ ledger[c].state = "running"
              /\ ledger' = [ledger EXCEPT ![c] = record]
              /\ res' = Settled(c, w, record.state)
              /\ \/ Settle(c, record) /\ UNCHANGED faults
                 \/ Fault /\ runner' = [runner EXCEPT ![c].pc = "markInDoubt"]
                          /\ UNCHANGED <<call, told>>
           \/ /\ ledger[c].state # "running"
              /\ Settle(c, ledger[c])
              /\ UNCHANGED <<ledger, res, faults>>
           \/ /\ Fault /\ runner' = [runner EXCEPT ![c].pc = "markInDoubt"]
              /\ UNCHANGED <<ledger, res, call, told>>
        /\ UNCHANGED <<now, issued, window, query, sweep, up, started, applied>>

markInDoubt(c) ==
    LET w == ledger[c].win
        record == finalizedRecord(w, "in_doubt")
    IN  /\ runner[c].pc = "markInDoubt"
        /\ \/ /\ ledger[c].state = "running"
              /\ ledger' = [ledger EXCEPT ![c] = record]
              /\ res' = Settled(c, w, "in_doubt")
              /\ \/ Settle(c, record) /\ UNCHANGED faults
                 \/ Fault /\ Settle(c, NoCommand)
           \/ /\ ledger[c].state # "running"
              /\ Settle(c, ledger[c])
              /\ UNCHANGED <<ledger, res, faults>>
           \/ /\ Fault /\ Settle(c, NoCommand)
              /\ UNCHANGED <<ledger, res>>
        /\ UNCHANGED <<now, issued, window, query, sweep, up, started, applied>>

-----------------------------------------------------------------------------
(* compact reads the clock and the ledger first and writes in a later      *)
(* turn.  The tombstone of a create command in doubt stays as long as its  *)
(* reservation is not settled.                                             *)
compact ==
    /\ up /\ sweep = NoTime /\ sweep' = now
    /\ UNCHANGED <<now, issued, window, ledger, res, call, runner, query, up, faults,
                   started, applied, told>>

hasPendingSettlement(c, w) == c \in Create /\ res[<<c, w>>] \in {"active", "uncertain"}

\* Mutant: the tombstone goes though its reservation is not settled.
Deletable_unsettled(c, t) == ledger[c].tomb /\ t > ledger[c].dedupe

Deletable(c, t) ==
    /\ ledger[c].tomb /\ t > ledger[c].dedupe
    /\ ~(ledger[c].state = "in_doubt" /\ hasPendingSettlement(c, ledger[c].win))

compactTombstone(c, t) ==
    IF ledger[c].state \in Final /\ ~ledger[c].tomb /\ t > ledger[c].result
    THEN [ledger[c] EXCEPT !.tomb = TRUE]
    ELSE IF Deletable(c, t) THEN NoCommand ELSE ledger[c]

CompactCommit ==
    /\ sweep # NoTime /\ sweep' = NoTime
    /\ \/ /\ ledger' = [c \in Cmd |-> compactTombstone(c, sweep)]
          /\ window' = [w \in Win |->
                IF window[w] # NoWindow /\ sweep > window[w].query
                THEN NoWindow ELSE window[w]]
          /\ UNCHANGED faults
       \/ Fault /\ UNCHANGED <<ledger, window>>
    /\ UNCHANGED <<now, issued, res, call, runner, query, up, started, applied, told>>

-----------------------------------------------------------------------------
(* query: the clock is read before the turn in which the items are         *)
(* answered.                                                               *)
startQuery ==
    /\ up /\ query = NoQuery /\ query' = [pc |-> "read", at |-> now]
    /\ UNCHANGED <<now, issued, window, ledger, res, call, runner, sweep, up, faults,
                   started, applied, told>>

queryItem(c, w) ==
    IF ledger[c].win = w
    THEN IF ledger[c].state \in Final THEN Tell(c, w, ledger[c].state) ELSE UNCHANGED told
    ELSE IF /\ ledger[c] = NoCommand
            /\ window[w] # NoWindow /\ query.at <= window[w].query
            /\ query.at > window[w].accept
         THEN Tell(c, w, "reissue")
         ELSE UNCHANGED told

finishQuery(c, w) ==
    /\ query.pc = "read" /\ query' = NoQuery
    /\ queryItem(c, w)
    /\ UNCHANGED <<now, issued, window, ledger, res, call, runner, sweep, up, faults,
                   started, applied>>

-----------------------------------------------------------------------------
(* Reconciliation settles a reservation: the resource is found, also while *)
(* its command is still running (materializeReservation), or its absence   *)
(* is proved and the ledger still says in doubt.  (A session that ends     *)
(* again before its command is settled is in ResourceState.)               *)
discoverResource(c, w) ==
    /\ up /\ res[<<c, w>>] \in {"active", "uncertain"} /\ <<c, w>> \in applied
    /\ res' = [res EXCEPT ![<<c, w>>] = "consumed"]
    /\ UNCHANGED <<now, issued, window, ledger, call, runner, query, sweep, up, faults,
                   started, applied, told>>

applyFencedNegativeEvidence(c, w) ==
    /\ up /\ res[<<c, w>>] = "uncertain" /\ <<c, w>> \notin applied
    /\ ledger[c].state = "in_doubt" /\ ledger[c].win = w
    /\ res' = [res EXCEPT ![<<c, w>>] = "released"]
    /\ UNCHANGED <<now, issued, window, ledger, call, runner, query, sweep, up, faults,
                   started, applied, told>>

-----------------------------------------------------------------------------
Crash ==
    /\ up /\ Fault
    /\ up' = FALSE
    /\ call' = [k \in Call |-> Idle] /\ runner' = [c \in Cmd |-> NoRunner]
    /\ query' = NoQuery /\ sweep' = NoTime
    /\ UNCHANGED <<now, issued, window, ledger, res, started, applied, told>>

\* Mutant: an interrupted command is taken up again.
Recovered_reruns(c) ==
    IF ledger[c].state = "running" THEN [ledger[c] EXCEPT !.state = "accepted"]
    ELSE ledger[c]

Recovered(c) ==
    IF ledger[c].state = "running" THEN finalizedRecord(ledger[c].win, "in_doubt")
    ELSE ledger[c]

(* Commands that were running are in doubt; accepted ones are run.  The    *)
(* reservation of an interrupted command is retained, unless a scan has    *)
(* found its session.                                                      *)
recoverInterrupted ==
    /\ ~up /\ up' = TRUE
    /\ ledger' = [c \in Cmd |-> Recovered(c)]
    /\ res' = [cw \in Cmd \X Win |->
          IF /\ cw[1] \in Create /\ ledger[cw[1]].state = "running"
             /\ ledger[cw[1]].win = cw[2] /\ res[cw] # "consumed"
          THEN "uncertain" ELSE res[cw]]
    /\ runner' = [c \in Cmd |-> IF ledger'[c].state = "accepted"
                                THEN [NoRunner EXCEPT !.pc = "claim"] ELSE NoRunner]
    /\ UNCHANGED <<now, issued, window, call, query, sweep, faults, started, applied, told>>

Init ==
    /\ now = 0 /\ issued = {} /\ up = TRUE /\ faults = 0
    /\ window = [w \in Win |-> NoWindow]
    /\ ledger = [c \in Cmd |-> NoCommand]
    /\ res = [cw \in Cmd \X Win |-> "none"]
    /\ call = [k \in Call |-> Idle] /\ runner = [c \in Cmd |-> NoRunner]
    /\ query = NoQuery /\ sweep = NoTime
    /\ started = [cw \in Cmd \X Win |-> 0] /\ applied = {} /\ told = {}

RunnerStep(c) ==
    claimAccepted(c) \/ invoke(c) \/ finalizeRunning(c) \/ markInDoubt(c)

Next ==
    \/ Tick \/ compact \/ CompactCommit \/ startQuery
    \/ Crash \/ recoverInterrupted
    \/ \E w \in Win : issueDedupeWindow(w)
    \/ \E k \in Call : preLedgerFailure(k) \/ admit(k)
    \/ \E c \in Cmd : RunnerStep(c)
    \/ \E c \in Cmd, w \in Win :
        \/ finishQuery(c, w) \/ discoverResource(c, w)
        \/ applyFencedNegativeEvidence(c, w)
        \/ \E k \in Call : execute(k, c, w)

Spec == Init /\ [][Next]_vars

(* A running host finishes what it began and a host that is down comes     *)
(* back; a client that has no answer asks for the state of its command.    *)
(* Nobody has to send a command again.                                     *)
FairSpec ==
    /\ Spec
    /\ \A c \in Cmd : WF_vars(RunnerStep(c))
    /\ \A k \in Call : WF_vars(admit(k))
    /\ WF_vars(startQuery)
    /\ \A c \in Cmd, w \in Win : WF_vars(finishQuery(c, w))
    /\ WF_vars(recoverInterrupted)

-----------------------------------------------------------------------------
(* Properties.                                                             *)
Record ==
    [state : {"none", "accepted", "running"} \cup Final, tomb : BOOLEAN,
     win : Win \cup {NoTime}, result : Time \cup {NoTime},
     dedupe : Time \cup {NoTime}]

(* Types; exactly the final records have retention times, and only they    *)
(* become tombstones.                                                      *)
TypeOK ==
    /\ now \in 0..MaxTime /\ issued \subseteq Win /\ up \in BOOLEAN /\ faults \in 0..MaxFaults
    /\ window \in [Win -> [accept : Time \cup {NoTime}, query : Time \cup {NoTime}]]
    /\ ledger \in [Cmd -> Record]
    /\ \A c \in Cmd :
          /\ ledger[c].state \in Final <=> ledger[c].result # NoTime
          /\ ledger[c].tomb => ledger[c].state \in Final
    /\ res \in [Cmd \X Win -> {"none", "active", "uncertain", "consumed", "released"}]
    /\ call \in [Call -> [cmd : Cmd \cup {NoTime}, win : Win \cup {NoTime},
                          pc : {"idle", "resolve", "await"}]]
    /\ runner \in [Cmd -> [pc : {"none", "claim", "invoke", "finalize", "markInDoubt"},
                           outcome : {"none"} \cup Final]]
    /\ query \in [pc : {"none", "read"}, at : Time \cup {NoTime}]
    /\ sweep \in Time \cup {NoTime}
    /\ started \in [Cmd \X Win -> 0..2] /\ applied \subseteq Cmd \X Win

(* The executor is invoked at most once for a command, whatever calls are  *)
(* repeated, transactions fail, hosts restart, records expire, and even    *)
(* when the wall clock is set back after its record was deleted.           *)
AtMostOnce == \A cw \in Cmd \X Win : started[cw] <= 1

(* A client told, while its window is stored, to issue its command anew is *)
(* told the truth for ever: the old one has not been run and never will be *)
(* (commandWindowExpiredFrame, queryItem with reissueRequired).            *)
ReissueIsSafe ==
    \A r \in told : r.says = "reissue" => started[<<r.cmd, r.win>>] = 0

(* All final answers about one command agree, over retransmissions,        *)
(* queries, restarts and compaction.                                       *)
FinalAnswersAgree ==
    \A r, s \in told :
        (r.cmd = s.cmd /\ r.win = s.win /\ {r.says, s.says} \subseteq Final)
            => r.says = s.says

(* A command has one effect and one answer, whatever is repeated, fails,   *)
(* restarts or expires; while the wall clock does not step back a client   *)
(* told to issue it anew has not lost it either (execute, query,           *)
(* claimAccepted, compact).                                                *)
OneEffectPerCommand ==
    /\ AtMostOnce /\ FinalAnswersAgree
    /\ ~ClockSteps => ReissueIsSafe

(* Every reservation has an owner that can settle it: an active one an     *)
(* accepted or running command, an uncertain one a record or tombstone in  *)
(* doubt.  Without it the capacity it holds would never be given back.     *)
(* And it is given back exactly when no session was made: a running        *)
(* command has its reservation, or a scan has turned it into the session   *)
(* the command made (reserveCommandResource, materializeReservation,       *)
(* settleCommandResource).                                                 *)
ReservationsAccounted ==
    \A c \in Create, w \in Win :
        /\ res[<<c, w>>] = "active" =>
             ledger[c].win = w /\ ledger[c].state \in {"accepted", "running"}
        /\ res[<<c, w>>] = "uncertain" =>
             ledger[c].win = w /\ ledger[c].state = "in_doubt"
        /\ ledger[c].win = w /\ ledger[c].state \in {"accepted", "running"} =>
             res[<<c, w>>] = "active" \/ res[<<c, w>>] = "consumed"
        /\ res[<<c, w>>] = "consumed" => <<c, w>> \in applied
        /\ res[<<c, w>>] = "released" => <<c, w>> \notin applied

(* A command whose record is not final although its host is down or has a  *)
(* runner for it.  (One whose runner ended over a storage fault waits for  *)
(* a restart or for an execute of the client: a query does not start a     *)
(* runner.)                                                                *)
Unfinished(c) ==
    /\ ledger[c].state \in {"accepted", "running"}
    /\ ~up \/ runner[c].pc # "none"

=============================================================================
