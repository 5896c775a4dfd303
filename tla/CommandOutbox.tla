---------------------------- MODULE CommandOutbox ----------------------------
(***************************************************************************)
(* How a command of the phone's user reaches the host exactly once.  The   *)
(* outbox is durable on the phone (RelayV2OutboxAuthorityCore.kt); what is *)
(* under way, its timers and the capabilities to send, dies with the       *)
(* connection or the process (RelayV2BaseRuntimeComposition.kt).  A new    *)
(* connection therefore first asks the host what became of every command   *)
(* that may have been sent, and the answers decide which of them are done, *)
(* sent again, or issued anew under the window of the new connection.      *)
(*                                                                         *)
(* The host is the ledger of hostCommandPlane.ts seen from outside: a      *)
(* record for each command, a window for each connection and requests that *)
(* are under way in any order, those of dead connections included.  Its    *)
(* storage is in CommandLedger.  Time is abstracted: windows close and     *)
(* results lapse when they like, but nothing is forgotten while a frame    *)
(* that needs it is in flight, which is days against seconds.              *)
(*                                                                         *)
(* A command is its place in the outbox, which is its creation order.      *)
(***************************************************************************)
EXTENDS Integers, Sequences, FiniteSets

CONSTANTS
    IntentCount,    \* what the user asks for: one intent is one command and its reissues
    Shared,         \* whether the intents share one lane (a session)
    MaxConns,       \* connections; the last one is spared by faults
    MaxFaults,      \* lost connections, frames and processes, and refused admissions
    MaxCloses,      \* windows that close
    MaxResyncs,     \* state resyncs of an online connection
    MaxAttempts,    \* maxAttemptsPerEntry
    MaxBatch        \* maxCommandQueryIds

OutboxAssumption ==
    /\ {IntentCount, MaxConns, MaxAttempts, MaxBatch} \subseteq Nat \ {0}
    /\ {MaxFaults, MaxCloses, MaxResyncs} \subseteq Nat
    /\ MaxAttempts > 1 /\ Shared \in BOOLEAN

VARIABLES
    box,        \* the durable outbox, in creation order
    outcome,    \* the durable outcomes shown to the user, by intent
    conn,       \* the phone's connection and everything that dies with it
    failed,     \* why the runtime stopped for good, or "none"
    windows,    \* the host's dedupe windows, by connection
    ledger,     \* the host's command records
    ran,        \* how often the host's executor was invoked for a command
    requests,   \* the execute requests that are on their way to or in the host
    faults,     \* the faults that have happened
    resyncs     \* the resyncs that have happened

vars == <<box, outcome, conn, failed, windows, ledger, ran, requests, faults, resyncs>>

Intents == 1..IntentCount
Commands == 1..(IntentCount * (MaxCloses + 1))
Connections == 1..MaxConns
Settled == {"SUCCEEDED", "FAILED_FINAL", "REISSUED"}
Shown == {"SUCCEEDED", "FAILED_FINAL", "AMBIGUOUS"}
QUERYABLE_STATES == {"SENDING", "ACCEPTED", "CONFIRMING", "AMBIGUOUS"}

-----------------------------------------------------------------------------
(* The outbox.                                                             *)

\* A new entry; an entry knows the command it replaces and the one that replaces it.
entryFromDraft(intent, win, from) ==
    [intent |-> intent, win |-> win, st |-> "QUEUED", durable |-> FALSE,
     from |-> from, by |-> 0, atts |-> <<>>]

laneKey(e) == IF Shared THEN 1 ELSE e.intent

LastAttempt(e) == IF e.atts = <<>> THEN 0 ELSE e.atts[Len(e.atts)].id

\* The attempts of an entry are numbered for ever, though old ones are dropped.
NewAttempt(e, kind) == [id |-> LastAttempt(e) + 1, kind |-> kind]

appendAttempt(e) ==
    [e EXCEPT !.atts = Append(@, NewAttempt(e, "EXECUTE")), !.st = "SENDING"]

\* At the limit a query replaces all attempts but the last execute, which it
\* will settle.
appendRecoveryQueryAttempt(e) ==
    LET executes == SelectSeq(e.atts, LAMBDA a : a.kind = "EXECUTE")
        retained == IF Len(e.atts) < MaxAttempts THEN e.atts
                    ELSE SubSeq(executes, Len(executes), Len(executes))
    IN [e EXCEPT !.atts = Append(retained, NewAttempt(e, "QUERY")),
                 !.st = IF @ = "AMBIGUOUS" THEN @ ELSE "CONFIRMING"]

\* At the limit the proof that nothing was accepted settles every earlier attempt.
appendRetryExecuteAttempt(e) ==
    LET retained == IF Len(e.atts) < MaxAttempts THEN e.atts ELSE <<>>
    IN [e EXCEPT !.atts = Append(retained, NewAttempt(e, "EXECUTE")), !.st = "SENDING"]

\* The heads of the lanes that nothing before them occupies.
dispatchEligibleEntries(b) ==
    {i \in DOMAIN b : /\ b[i].st = "QUEUED"
                      /\ \A j \in 1..(i - 1) :
                            laneKey(b[j]) = laneKey(b[i]) => b[j].st \in Settled}

\* What one piece of evidence makes of the outbox: rejected, or applied with
\* its effect (a retry or a reissue).
Rejected(b) == [ok |-> FALSE, box |-> b, effect |-> "none"]
Applied(b, i, e, effect) == [ok |-> TRUE, box |-> [b EXCEPT ![i] = e], effect |-> effect]

hasValidCorrelation(e, ev) == \E k \in DOMAIN e.atts :
    e.atts[k] = [id |-> ev.id, kind |-> ev.source]

reconcileAccepted(b, i) ==
    IF b[i].st = "AMBIGUOUS" THEN Rejected(b)
    ELSE Applied(b, i, [b[i] EXCEPT !.st = IF @ = "SENDING" THEN "ACCEPTED" ELSE @,
                                    !.durable = TRUE], "none")

reconcileRunning(b, i) ==
    IF b[i].st = "AMBIGUOUS" THEN Rejected(b)
    ELSE Applied(b, i, [b[i] EXCEPT !.st = "CONFIRMING", !.durable = TRUE], "none")

reconcileFinal(b, i, st) ==
    Applied(b, i, [b[i] EXCEPT !.st = st, !.durable = TRUE], "none")

reconcileAmbiguous(b, i, state) ==
    Applied(b, i, [b[i] EXCEPT !.st = "AMBIGUOUS", !.durable = @ \/ state # "unknown"], "none")

\* No execute was sent after the one, or the query, that was answered.
ProofIsCurrent(e, ev) == \A k \in DOMAIN e.atts :
    e.atts[k].kind = "EXECUTE" => e.atts[k].id <= ev.id

\* A mutant: a new connection always issues the command anew.
reconcileNotAccepted_anew(b, i, ev, win) ==
    LET e == b[i]
        replacement == entryFromDraft(e.intent, win, i)
        reissued == [e EXCEPT !.st = "REISSUED", !.by = Len(b) + 1]
    IN IF e.st = "AMBIGUOUS" \/ e.durable \/ ~ProofIsCurrent(e, ev) THEN Rejected(b)
       ELSE IF ev.retryable /\ win = e.win THEN Applied(b, i, appendRetryExecuteAttempt(e), "retry")
       ELSE IF win = e.win THEN Rejected(b)
       ELSE [ok |-> TRUE, effect |-> "reissue",
             box |-> Append([b EXCEPT ![i] = reissued], replacement)]

reconcileNotAccepted(b, i, ev, win) ==
    LET e == b[i]
        replacement == entryFromDraft(e.intent, win, i)
        reissued == [e EXCEPT !.st = "REISSUED", !.by = Len(b) + 1]
    IN IF e.st = "AMBIGUOUS" \/ e.durable \/ ~ProofIsCurrent(e, ev) THEN Rejected(b)
       ELSE IF ev.retryable THEN Applied(b, i, appendRetryExecuteAttempt(e), "retry")
       ELSE IF win = e.win THEN Rejected(b)
       ELSE [ok |-> TRUE, effect |-> "reissue",
             box |-> Append([b EXCEPT ![i] = reissued], replacement)]

reconcileStatus(b, ev, win) ==
    LET i == ev.cmd IN
    IF \/ ~hasValidCorrelation(b[i], ev)
       \/ b[i].st \in {"QUEUED"} \cup Settled
    THEN Rejected(b)
    ELSE CASE ev.state = "accepted" -> reconcileAccepted(b, i)
           [] ev.state = "running" -> reconcileRunning(b, i)
           [] ev.state = "succeeded" -> reconcileFinal(b, i, "SUCCEEDED")
           [] ev.state = "failed" -> reconcileFinal(b, i, "FAILED_FINAL")
           [] ev.state = "not_accepted" -> reconcileNotAccepted(b, i, ev, win)
           [] OTHER -> reconcileAmbiguous(b, i, ev.state)

\* A batch of evidence is applied as a whole or not at all.
reduceOutboxBatch(b, evs, win) ==
    LET from[n \in 0..Len(evs)] ==
          IF n = 0 THEN [ok |-> TRUE, box |-> b, retries |-> <<>>]
          ELSE LET before == from[n - 1]
                   now == reconcileStatus(before.box, evs[n], win)
               IN [ok |-> before.ok /\ now.ok, box |-> now.box,
                   retries |-> IF now.effect = "retry" THEN Append(before.retries, evs[n].cmd)
                               ELSE before.retries]
    IN from[Len(evs)]

\* The outcome of an intent is that of the last of its commands, kept under the first.
persistCreateOutcome(b, evs) ==
    [n \in Intents |->
        LET shown == {k \in DOMAIN evs : /\ b[evs[k].cmd].intent = n
                                         /\ b[evs[k].cmd].st \in Shown}
        IN IF shown = {} THEN outcome[n] ELSE b[evs[CHOOSE k \in shown : TRUE].cmd].st]

-----------------------------------------------------------------------------
(* The phone's connection.                                                 *)

Capability(i) == [cmd |-> i, id |-> LastAttempt(box[i])]
NoQuery == [st |-> "none", items |-> <<>>]

\* A connection in a phase, with nothing under way.
Fresh(n, phase) ==
    [n |-> n, phase |-> phase,
     pending |-> <<>>, next |-> 0,      \* the commands to ask about, frozen at the start
     query |-> NoQuery,                 \* the batch that is asked about
     flush |-> FALSE, buffer |-> <<>>,  \* the retries that wait for the last batch
     dispatching |-> FALSE,             \* a dispatchFresh loop is running
     caps |-> {},                       \* the capabilities it has not yet spent
     retries |-> {}, watches |-> {},    \* the timers
     replies |-> {}]                    \* the host's answers to executes

Down == Fresh(conn.n, "down")
Up == conn.phase # "down"
Online == conn.phase = "online"
Spare == conn.n < MaxConns              \* faults spare the last connection

Init ==
    /\ box = <<>>
    /\ outcome = [n \in Intents |-> "none"]
    /\ conn = Fresh(0, "down")
    /\ failed = "none"
    /\ windows = [n \in Connections |-> "none"]
    /\ ledger = [i \in Commands |-> [st |-> "none", final |-> "none"]]
    /\ ran = [i \in Commands |-> 0]
    /\ requests = {}
    /\ faults = 0
    /\ resyncs = 0

durable == <<box, outcome>>
host == <<windows, ledger, ran, requests>>

\* The runtime stops for good and shuts its actor down.
fail(reason) == failed' = reason /\ conn' = Down

\* The commands that may have been sent are asked about; the snapshot is read
\* before the connection is made and never again.
connectOnce ==
    /\ failed = "none" /\ ~Up /\ conn.n < MaxConns
    /\ LET asked == SelectSeq([i \in DOMAIN box |-> i],
                              LAMBDA i : box[i].st \in QUERYABLE_STATES)
       IN conn' = [Fresh(conn.n + 1, "dialing") EXCEPT !.pending = asked]
    /\ UNCHANGED <<durable, failed, host, faults, resyncs>>

\* The welcome brings the window of the connection.  What it starts on the state
\* is in StateSync.
applyHello ==
    /\ conn.phase = "dialing"
    /\ windows' = [windows EXCEPT ![conn.n] = "open"]
    /\ conn' = [conn EXCEPT !.phase = "querying"]
    /\ UNCHANGED <<durable, failed, ledger, ran, requests, faults, resyncs>>

\* The next batch is made durable as attempts of its commands and then sent;
\* with nothing left to ask the connection is online.
sendNextCommandQuery ==
    /\ conn.phase = "querying" /\ conn.query = NoQuery
    /\ LET upto == IF conn.next + MaxBatch < Len(conn.pending) THEN conn.next + MaxBatch
                   ELSE Len(conn.pending)
           batch == SubSeq(conn.pending, conn.next + 1, upto)
           asked == {batch[k] : k \in DOMAIN batch}
       IN \/ /\ asked = {}
             /\ conn' = [conn EXCEPT !.phase = "online", !.dispatching = TRUE]
             /\ UNCHANGED <<box, failed>>
          \/ /\ asked # {} /\ \A i \in asked : box[i].st \in QUERYABLE_STATES
             /\ box' = [i \in DOMAIN box |->
                          IF i \in asked THEN appendRecoveryQueryAttempt(box[i]) ELSE box[i]]
             /\ conn' = [conn EXCEPT !.query =
                           [st |-> "sent",
                            items |-> [k \in DOMAIN batch |->
                              [cmd |-> batch[k], id |-> LastAttempt(box'[batch[k]]),
                               source |-> "QUERY", state |-> "unknown", retryable |-> FALSE]]]]
             /\ UNCHANGED failed
          \/ /\ \E i \in asked : box[i].st \notin QUERYABLE_STATES
             /\ fail("COMMAND_OUTBOX_QUERY_REJECTED")
             /\ UNCHANGED box
    /\ UNCHANGED <<outcome, host, faults, resyncs>>

\* The answers to a batch.  Retries wait for the last batch, and are then spent
\* before anything new is dispatched.
applyRecoveredCommandStatuses ==
    /\ conn.phase = "querying" /\ conn.query.st = "answered"
    /\ LET evs == conn.query.items
           result == reduceOutboxBatch(box, evs, conn.n)
           next == conn.next + Len(evs)
           buffer == conn.buffer \o [k \in DOMAIN result.retries |->
                       [cmd |-> result.retries[k],
                        id |-> LastAttempt(result.box[result.retries[k]])]]
           last == next = Len(conn.pending)
       IN \/ /\ result.ok
             /\ box' = result.box
             /\ outcome' = persistCreateOutcome(box', evs)
             /\ conn' = [conn EXCEPT !.query = NoQuery, !.next = next, !.buffer = buffer,
                                     !.phase = IF last THEN "online" ELSE @,
                                     !.flush = last]
             /\ UNCHANGED failed
          \/ /\ ~result.ok
             /\ fail("COMMAND_OUTBOX_RECOVERY_REJECTED")
             /\ UNCHANGED durable
    /\ UNCHANGED <<host, faults, resyncs>>

\* A frame is handed to the transport, which takes it and may lose it.
Sends(c) ==
    \/ /\ requests' = requests \cup {[conn |-> conn.n, cmd |-> c.cmd, id |-> c.id, st |-> "net"]}
       /\ UNCHANGED faults
    \/ /\ Spare /\ faults < MaxFaults
       /\ faults' = faults + 1
       /\ UNCHANGED requests

\* The transport does not take the frame (ConfirmingRequired): its delivery is to
\* be confirmed, and the loop that sent it ends.
Refuses ==
    /\ Spare /\ faults < MaxFaults
    /\ faults' = faults + 1
    /\ UNCHANGED requests

\* The recovered retries are spent one after the other, until one is refused: the
\* rest is dropped.  dispatchFresh follows.
flushRecoveredDispatch ==
    /\ Online /\ conn.flush
    /\ IF conn.buffer = <<>>
       THEN /\ conn' = [conn EXCEPT !.flush = FALSE, !.dispatching = TRUE]
            /\ UNCHANGED <<requests, faults>>
       ELSE \/ /\ Sends(Head(conn.buffer))
               /\ conn' = [conn EXCEPT !.buffer = Tail(@), !.watches = @ \cup {Head(conn.buffer)}]
            \/ /\ Refuses
               /\ conn' = [conn EXCEPT !.buffer = <<>>, !.watches = @ \cup {Head(conn.buffer)}]
    /\ UNCHANGED <<durable, failed, windows, ledger, ran, resyncs>>

\* The user submits a command: it is durable, with the window of the connection,
\* before anything is sent.
submit ==
    /\ Online
    /\ \E n \in Intents :
         /\ n = Cardinality({i \in DOMAIN box : box[i].from = 0}) + 1
         /\ box' = Append(box, entryFromDraft(n, conn.n, 0))
    /\ conn' = [conn EXCEPT !.dispatching = TRUE]
    /\ UNCHANGED <<outcome, failed, host, faults, resyncs>>

\* The loop makes an attempt of every lane's head durable, or ends.
dispatchFreshUnderApplyLease ==
    /\ Up /\ conn.dispatching
    /\ LET eligible == dispatchEligibleEntries(box)
       IN /\ box' = [i \in DOMAIN box |->
                       IF i \in eligible THEN appendAttempt(box[i]) ELSE box[i]]
          /\ conn' = [conn EXCEPT
                        !.dispatching = eligible # {},
                        !.caps = @ \cup {[cmd |-> i, id |-> LastAttempt(box'[i])] : i \in eligible}]
    /\ UNCHANGED <<outcome, failed, host, faults, resyncs>>

\* A capability is spent.  When the connection is not ready the send is stale:
\* the loop returns and the attempt stays SENDING.  It returns too when the frame
\* is refused.
dispatchFresh(c) ==
    /\ c \in conn.caps
    /\ IF Online
       THEN \/ /\ Sends(c)
               /\ conn' = [conn EXCEPT !.caps = @ \ {c}, !.watches = @ \cup {c}]
            \/ /\ Refuses
               /\ conn' = [conn EXCEPT !.caps = {}, !.dispatching = FALSE, !.watches = @ \cup {c}]
       ELSE /\ conn' = [conn EXCEPT !.caps = {}, !.dispatching = FALSE]
            /\ UNCHANGED <<requests, faults>>
    /\ UNCHANGED <<durable, failed, windows, ledger, ran, resyncs>>

\* The delay of a retry is over.
scheduleCommandRetry(c) ==
    /\ c \in conn.retries
    /\ IF Online
       THEN /\ Sends(c)
            /\ conn' = [conn EXCEPT !.retries = @ \ {c}, !.watches = @ \cup {c}]
       ELSE /\ conn' = [conn EXCEPT !.retries = @ \ {c}]
            /\ UNCHANGED <<requests, faults>>
    /\ UNCHANGED <<durable, failed, windows, ledger, ran, resyncs>>

\* The connection is lost.  Retries that were about to be spent find it stale,
\* which stops the runtime.
LoseConnection ==
    IF conn.flush /\ conn.buffer # <<>>
    THEN fail("COMMAND_OUTBOX_RECOVERED_DISPATCH_FAILED")
    ELSE conn' = Down /\ UNCHANGED failed

\* No answer within 15 s: an attempt that is still SENDING has to be confirmed,
\* which takes a new connection.
recoverUncertainCommandDelivery(c) ==
    /\ c \in conn.watches
    /\ LET unsettled == box[c.cmd].st = "SENDING" /\ LastAttempt(box[c.cmd]) = c.id
       IN \/ /\ unsettled /\ Spare
             /\ box' = [box EXCEPT ![c.cmd].st = "CONFIRMING"]
             /\ IF Online THEN LoseConnection
                ELSE /\ conn' = [conn EXCEPT !.watches = @ \ {c}]
                     /\ UNCHANGED failed
          \/ /\ ~unsettled
             /\ conn' = [conn EXCEPT !.watches = @ \ {c}]
             /\ UNCHANGED <<box, failed>>
    /\ UNCHANGED <<outcome, host, faults, resyncs>>

\* An execute is answered with the state of its command.
applyOnlineCommandEvidence(r) ==
    /\ r \in conn.replies /\ r.state # "not_accepted" /\ r.state # "expired"
    /\ LET result == reconcileStatus(box, r, conn.n)
       IN \/ /\ result.ok
             /\ box' = result.box
             /\ outcome' = persistCreateOutcome(box', <<r>>)
             /\ conn' = [conn EXCEPT !.replies = @ \ {r},
                                     !.dispatching = @ \/ r.state \in {"succeeded", "failed"}]
             /\ UNCHANGED failed
          \/ /\ ~result.ok
             /\ fail("COMMAND_OUTBOX_RECOVERY_REJECTED")
             /\ UNCHANGED durable
    /\ UNCHANGED <<host, faults, resyncs>>

\* An execute is answered with an error: it was not accepted, or its result has
\* expired, which no outbox expects.  While the connection recovers an error must
\* answer the request of the recovery.
applyCorrelatedExecuteError(r) ==
    /\ r \in conn.replies /\ r.state \in {"not_accepted", "expired"}
    /\ LET result == IF r.state = "expired" THEN Rejected(box)
                     ELSE reconcileStatus(box, r, conn.n)
       IN \/ /\ Online /\ result.ok
             /\ box' = result.box
             /\ LET retry == [cmd |-> r.cmd, id |-> LastAttempt(box'[r.cmd])]
                IN conn' = [conn EXCEPT !.replies = @ \ {r},
                              !.dispatching = @ \/ result.effect = "reissue",
                              !.retries = IF result.effect = "retry" THEN @ \cup {retry} ELSE @]
             /\ UNCHANGED failed
          \/ /\ Online /\ ~result.ok
             /\ fail("COMMAND_OUTBOX_RECOVERY_PROTOCOL_VIOLATION")
             /\ UNCHANGED box
          \/ /\ ~Online
             /\ fail("INVALID_ENVELOPE")
             /\ UNCHANGED box
    /\ UNCHANGED <<outcome, host, faults, resyncs>>

\* A gap or the user makes an online connection fetch the state again; the
\* commands it asked about at its start are then asked about once more.
beginOnlineResync ==
    /\ Online /\ ~conn.flush /\ resyncs < MaxResyncs
    /\ conn' = [conn EXCEPT !.phase = "querying", !.next = 0]
    /\ resyncs' = resyncs + 1
    /\ UNCHANGED <<durable, failed, host, faults>>

-----------------------------------------------------------------------------
(* The host.                                                               *)

Known(i) == ledger[i].st \notin {"none", "gone"}

\* The host answers a request, if its connection is still there.
Answered(q, state, retryable) ==
    conn' = IF q.conn = conn.n /\ Up
            THEN [conn EXCEPT !.replies = @ \cup
                    {[cmd |-> q.cmd, id |-> q.id, source |-> "EXECUTE", state |-> state,
                      retryable |-> retryable]}]
            ELSE conn

\* The answer to a command the ledger knows; one that is accepted is awaited.
responseForExisting(q) ==
    LET entry == ledger[q.cmd] IN
    IF entry.st = "accepted"
    THEN /\ requests' = (requests \ {q}) \cup {[q EXCEPT !.st = "wait"]}
         /\ UNCHANGED conn
    ELSE /\ requests' = requests \ {q}
         /\ Answered(q, CASE entry.st = "running" -> "running"
                          [] entry.st = "tombstone" -> "expired"
                          [] OTHER -> entry.final, FALSE)

windowExpired(q) ==
    /\ requests' = requests \ {q}
    /\ Answered(q, "not_accepted", FALSE)

\* The first look at the ledger, before the target is resolved.
execute(q) ==
    /\ q \in requests /\ q.st = "net"
    /\ \/ Known(q.cmd) /\ responseForExisting(q)
       \/ ~Known(q.cmd) /\ windows[box[q.cmd].win] # "open" /\ windowExpired(q)
       \/ /\ ~Known(q.cmd) /\ windows[box[q.cmd].win] = "open"
          /\ requests' = (requests \ {q}) \cup {[q EXCEPT !.st = "resolving"]}
          /\ UNCHANGED conn
    /\ UNCHANGED <<durable, failed, windows, ledger, ran, faults, resyncs>>

\* The target could not be resolved, or not admitted for now.
preLedgerFailure(q) ==
    /\ q \in requests /\ q.st = "resolving" /\ faults < MaxFaults
    /\ requests' = requests \ {q}
    /\ Answered(q, "not_accepted", TRUE)
    /\ faults' = faults + 1
    /\ UNCHANGED <<durable, failed, windows, ledger, ran, resyncs>>

\* Admission looks again, in the transaction that makes the record: accepted, or
\* failed for good when the target does not exist.
admit(q) ==
    /\ q \in requests /\ q.st = "resolving"
    /\ \/ Known(q.cmd) /\ responseForExisting(q) /\ UNCHANGED ledger
       \/ /\ ~Known(q.cmd) /\ windows[box[q.cmd].win] # "open"
          /\ windowExpired(q) /\ UNCHANGED ledger
       \/ /\ ~Known(q.cmd) /\ windows[box[q.cmd].win] = "open"
          /\ \/ /\ ledger' = [ledger EXCEPT ![q.cmd] = [st |-> "accepted", final |-> "none"]]
                /\ requests' = (requests \ {q}) \cup {[q EXCEPT !.st = "wait"]}
                /\ UNCHANGED conn
             \/ /\ ledger' = [ledger EXCEPT ![q.cmd] = [st |-> "final", final |-> "failed"]]
                /\ requests' = requests \ {q}
                /\ Answered(q, "failed", FALSE)
    /\ UNCHANGED <<durable, failed, windows, ran, faults, resyncs>>

\* The runner claims an accepted command and invokes the executor.
claimAccepted(i) ==
    /\ ledger[i].st = "accepted"
    /\ ledger' = [ledger EXCEPT ![i].st = "running"]
    /\ ran' = [ran EXCEPT ![i] = @ + 1]
    /\ UNCHANGED <<durable, conn, failed, windows, requests, faults, resyncs>>

finalizeRunning(i) ==
    /\ ledger[i].st = "running"
    /\ \E final \in {"succeeded", "failed", "in_doubt"} :
         ledger' = [ledger EXCEPT ![i] = [st |-> "final", final |-> final]]
    /\ UNCHANGED <<durable, conn, failed, windows, ran, requests, faults, resyncs>>

\* A request that waited for its command is answered.
settledResponse(q) ==
    /\ q \in requests /\ q.st = "wait" /\ ledger[q.cmd].st = "final"
    /\ requests' = requests \ {q}
    /\ Answered(q, ledger[q.cmd].final, FALSE)
    /\ UNCHANGED <<durable, failed, windows, ledger, ran, faults, resyncs>>

queryItem(item) ==
    LET entry == ledger[item.cmd]
        window == windows[box[item.cmd].win]
    IN CASE entry.st \in {"accepted", "running"} -> [item EXCEPT !.state = entry.st]
         [] entry.st = "final" -> [item EXCEPT !.state = entry.final]
         [] entry.st = "tombstone" -> [item EXCEPT !.state = "expired"]
         [] ~Known(item.cmd) /\ window \in {"open", "closed"} ->
              [item EXCEPT !.state = "not_accepted", !.retryable = window = "open"]
         [] OTHER -> [item EXCEPT !.state = "unknown"]

query ==
    /\ conn.query.st = "sent"
    /\ conn' = [conn EXCEPT !.query = [st |-> "answered",
                  items |-> [k \in DOMAIN conn.query.items |-> queryItem(conn.query.items[k])]]]
    /\ UNCHANGED <<durable, failed, host, faults, resyncs>>

-----------------------------------------------------------------------------
(* Time and faults.                                                        *)

\* Nothing that is in flight, or about to be sent, still needs the record of a
\* command.
Quiet(i) ==
    /\ \A q \in requests : q.cmd # i
    /\ \A c \in conn.caps \cup conn.retries \cup conn.replies : c.cmd # i
    /\ \A k \in DOMAIN conn.buffer : conn.buffer[k].cmd # i
    /\ \A k \in DOMAIN conn.query.items : conn.query.items[k].cmd # i

Closed == Cardinality({n \in Connections : windows[n] \in {"closed", "gone"}})

\* Fifteen minutes after the welcome, whether or not the connection lives.
windowCloses(n) ==
    /\ windows[n] = "open" /\ Closed < MaxCloses
    /\ windows' = [windows EXCEPT ![n] = "closed"]
    /\ UNCHANGED <<durable, conn, failed, ledger, ran, requests, faults, resyncs>>

\* A week later the window is no longer queryable.
windowRetires(n) ==
    /\ windows[n] = "closed" /\ ~(Up /\ conn.n = n)
    /\ \A i \in DOMAIN box : box[i].win = n => Quiet(i)
    /\ windows' = [windows EXCEPT ![n] = "gone"]
    /\ UNCHANGED <<durable, conn, failed, ledger, ran, requests, faults, resyncs>>

\* A final record loses its result after a day and is forgotten after its window.
RecordLapses(i) ==
    \/ /\ ledger[i].st = "final" /\ windows[box[i].win] # "open"
       /\ ledger' = [ledger EXCEPT ![i].st = "tombstone"]
    \/ /\ ledger[i].st = "tombstone" /\ windows[box[i].win] = "gone"
       /\ ledger' = [ledger EXCEPT ![i].st = "gone"]

compact(i) ==
    /\ i \in DOMAIN box /\ Quiet(i) /\ RecordLapses(i)
    /\ UNCHANGED <<durable, conn, failed, windows, ran, requests, faults, resyncs>>

drop ==
    /\ Up /\ Spare /\ faults < MaxFaults
    /\ faults' = faults + 1
    /\ LoseConnection
    /\ UNCHANGED <<durable, host, resyncs>>

\* The phone's process ends, and a new one starts with what is durable.
kill ==
    /\ Spare
    /\ \/ failed # "none" /\ UNCHANGED faults
       \/ failed = "none" /\ Up /\ faults < MaxFaults /\ faults' = faults + 1
    /\ conn' = Down
    /\ failed' = "none"
    /\ UNCHANGED <<durable, host, resyncs>>

\* The host's process ends and starts again: what was running is in doubt, what
\* was accepted is resumed, and its connections are gone.
recoverInterrupted ==
    /\ Spare /\ faults < MaxFaults
    /\ faults' = faults + 1
    /\ ledger' = [i \in Commands |-> IF ledger[i].st = "running"
                                     THEN [st |-> "final", final |-> "in_doubt"] ELSE ledger[i]]
    /\ requests' = {}
    /\ IF Up THEN LoseConnection ELSE UNCHANGED <<conn, failed>>
    /\ UNCHANGED <<durable, windows, ran, resyncs>>

Phone ==
    \/ connectOnce \/ applyHello \/ sendNextCommandQuery \/ applyRecoveredCommandStatuses
    \/ flushRecoveredDispatch \/ dispatchFreshUnderApplyLease
    \/ \E c \in conn.caps : dispatchFresh(c)
    \/ \E c \in conn.retries : scheduleCommandRetry(c)
    \/ \E c \in conn.watches : recoverUncertainCommandDelivery(c)
    \/ \E r \in conn.replies : applyOnlineCommandEvidence(r) \/ applyCorrelatedExecuteError(r)

Host ==
    \/ query
    \/ \E q \in requests : execute(q) \/ admit(q) \/ settledResponse(q)
    \/ \E i \in Commands : claimAccepted(i) \/ finalizeRunning(i)

Next ==
    \/ Phone \/ Host \/ submit \/ beginOnlineResync
    \/ \E q \in requests : preLedgerFailure(q)
    \/ \E n \in Connections : windowCloses(n) \/ windowRetires(n)
    \/ \E i \in Commands : compact(i)
    \/ drop \/ kill \/ recoverInterrupted

\* The pump, the timers and the reconnect run, and so does the host: the user,
\* time and faults owe nothing.
Fairness == WF_vars(Phone) /\ WF_vars(Host)

Spec == Init /\ [][Next]_vars
FairSpec == Spec /\ Fairness

-----------------------------------------------------------------------------
(* Properties.                                                             *)

States == QUERYABLE_STATES \cup Settled \cup {"QUEUED"}

\* The shape of the state.
TypeOK ==
    /\ Len(box) <= Cardinality(Commands)
    /\ \A i \in DOMAIN box :
         /\ box[i].intent \in Intents /\ box[i].win \in Connections
         /\ box[i].st \in States /\ box[i].durable \in BOOLEAN
         /\ {box[i].from, box[i].by} \subseteq Commands \cup {0}
         /\ Len(box[i].atts) <= MaxAttempts
    /\ conn.n \in 0..MaxConns
    /\ conn.phase \in {"down", "dialing", "querying", "online"}
    /\ windows \in [Connections -> {"none", "open", "closed", "gone"}]
    /\ \A q \in requests : q.cmd \in DOMAIN box /\ q.st \in {"net", "resolving", "wait"}
    /\ faults <= MaxFaults /\ resyncs <= MaxResyncs

Of(n) == {i \in DOMAIN box : box[i].intent = n}

\* What the user asked for once runs once at most: retries find the record of
\* their command, and a command is issued anew only when the old one never runs,
\* whatever frames of dead connections still arrive (toRecovery, execute).
IntentRunsOnce == \A n \in Intents :
    /\ \A i \in Of(n) : ran[i] <= 1
    /\ Cardinality({i \in Of(n) : ran[i] > 0}) <= 1

\* The phone believes what happened: a command it shows as done or failed is
\* that on the host, an outcome of an intent is that of its last command, and a
\* command that was issued anew has one successor, which names it.
OutcomeIsTrue ==
    /\ \A i \in DOMAIN box :
         /\ box[i].st = "SUCCEEDED" => ledger[i].final = "succeeded"
         /\ box[i].st = "FAILED_FINAL" => ledger[i].final = "failed"
         /\ box[i].st = "REISSUED" => /\ box[i].by \in DOMAIN box
                                       /\ box[box[i].by].from = i
                                       /\ ~Known(i)
    /\ \A n \in Intents, i \in DOMAIN box : i \in Of(n) /\ box[i].by = 0 =>
         outcome[n] = IF box[i].st \in Shown THEN box[i].st ELSE "none"

\* Commands of a lane run one after the other in the order of the outbox: when one
\* ran, the phone had settled all before it, and at most one is under way on the
\* host (dispatchEligibleEntries).  A command issued anew takes the last place, so
\* what the user asked for later may run before it.
LaneInOrder ==
    /\ \A i, j \in DOMAIN box :
         i < j /\ laneKey(box[i]) = laneKey(box[j]) /\ ran[j] > 0 => box[i].st \in Settled
    /\ \A i, j \in DOMAIN box :
         /\ laneKey(box[i]) = laneKey(box[j])
         /\ {ledger[i].st, ledger[j].st} \subseteq {"accepted", "running"}
         => i = j

\* An answer of the host that contradicts the outbox stops the runtime for good.
\* None does, but for two cases: a resync, which asks about the commands of the
\* connection's start once more and takes no execute error meanwhile; and an execute
\* that is refused on a connection older than its window, which is to be issued anew
\* under that very window.
EvidenceIsAccepted ==
    /\ failed \in {"COMMAND_OUTBOX_QUERY_REJECTED", "COMMAND_OUTBOX_RECOVERY_REJECTED",
                   "INVALID_ENVELOPE"} => resyncs > 0
    /\ failed = "COMMAND_OUTBOX_RECOVERY_PROTOCOL_VIOLATION" =>
         resyncs > 0 \/ windows[conn.n] # "open"

\* The host holds the command, and asks for a later query.
Held(e) == e.durable /\ e.st \in {"ACCEPTED", "CONFIRMING"}

\* A command that needs nobody any more but the user or the host: it is done, it
\* cannot be known, the host has it, or it waits behind one of these in its lane.
Resolved(i) ==
    \/ box[i].st \in Settled \cup {"AMBIGUOUS"} \/ Held(box[i])
    \/ /\ box[i].st = "QUEUED"
       /\ \E j \in 1..(i - 1) : /\ laneKey(box[j]) = laneKey(box[i])
                                /\ box[j].st = "AMBIGUOUS" \/ Held(box[j])

\* No command is left on its way, or the runtime has said that it stopped: what
\* must hold for good once faults end (the delivery watchdog: "instead of leaving
\* the lane's head in SENDING forever and blocking every later command").
AllResolved == failed = "none" => \A i \in DOMAIN box : Resolved(i)

=============================================================================
