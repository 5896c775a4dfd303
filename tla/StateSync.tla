------------------------------ MODULE StateSync ------------------------------
(***************************************************************************)
(* How the mobile client keeps a durable copy of the host's state: the     *)
(* host numbers its events, welcomes a client at one of them and serves    *)
(* pinned cuts in chunks (resourceState.ts, hostWelcomeSerializer.ts); the *)
(* client stages the chunks and buffers the events in its database         *)
(* (RelayV2StateSyncRepositoryCore.kt); and its connection actor decides   *)
(* what to ask next (RelayV2ConnectionActor.kt).                           *)
(*                                                                         *)
(* The actor never touches the database.  It emits effects, which one      *)
(* consumer applies in order (RelayV2BaseRuntimeComposition.kt), and the   *)
(* consumer sends it receipts, which may find it elsewhere: receipts carry *)
(* the step of the request they answer.                                    *)
(*                                                                         *)
(* The state is a revision for each key; an event raises one of them, and  *)
(* a cut travels as one chunk for each key.                                *)
(***************************************************************************)
EXTENDS Integers, Sequences, FiniteSets

CONSTANTS
    KeyCount,       \* the number of keys, which is the number of chunks of a cut
    Requests,       \* snapshot request ids that are in use at one time
    MaxEvents,      \* events of one epoch
    MaxEpochs,      \* epochs of the host
    MaxBuffer,      \* MAX_BUFFERED_STATE_EVENTS
    MaxPinned,      \* stateSnapshotMaxPinnedPerPrincipal
    MaxDrops,       \* connections lost to the network
    MaxExpiries,    \* pinned cuts that expire in a client's hands
    MaxGaps,        \* events that never reach the client
    MaxManual,      \* resyncs the user asks for
    MaxHosts,       \* host lists in flight, which exclude a manual resync
    Uncertain,      \* outcomes of the commits whose disposition is uncertain
    Commands        \* whether commands are pending when a client connects

BoundsAssumption ==
    /\ {KeyCount, MaxEvents, MaxEpochs, MaxBuffer, MaxPinned, MaxDrops,
        MaxExpiries, MaxGaps, MaxManual, MaxHosts} \subseteq Nat
    /\ KeyCount > 0 /\ MaxEpochs > 0 /\ MaxPinned > 0
    /\ Requests \subseteq Nat \ {0} /\ Cardinality(Requests) > MaxPinned
    /\ Uncertain \subseteq BOOLEAN /\ Commands \subseteq BOOLEAN /\ Commands # {}

VARIABLES
    host,       \* the host's epoch, event log, continuity fence and subscriber
    cuts,       \* the pinned cuts, by snapshot request
    up, down,   \* the frames of the route, in order
    repo,       \* the client's database
    actor,      \* the connection actor
    fx,         \* the effects it emitted, in order
    rx,         \* the receipts it has not read
    spent       \* history: the faults that have happened, and whether a buffer overflowed

vars == <<host, cuts, up, down, repo, actor, fx, rx, spent>>

Keys == 1..KeyCount
NoCursor == -1                      \* no durable cursor
Larger(m, n) == IF m >= n THEN m ELSE n

-----------------------------------------------------------------------------
(* The host's events and cuts.                                             *)

\* The revision of key k after the first n events of a log.
RevisionAt(log, n, k) == Cardinality({i \in 1..n : log[i] = k})

\* The state after the first n events of a log.
StateAt(log, n) == [k \in Keys |-> RevisionAt(log, n, k)]

\* The last event of a log, which names its number, key and resulting revision.
LastEvent(log) ==
    [seq |-> Len(log), key |-> log[Len(log)],
     rev |-> RevisionAt(log, Len(log), log[Len(log)])]

NoEvent == [seq |-> 0, key |-> 0, rev |-> 0]

NoCut == [st |-> "none", through |-> 0]

\* The frames of the route.
Frame(type, req) ==
    [type |-> type, id |-> 0, req |-> req, next |-> 0, known |-> FALSE, epoch |-> 0,
     seq |-> 0, caughtUp |-> FALSE, event |-> NoEvent, rev |-> 0]

-----------------------------------------------------------------------------
(* The client's database (RelayV2StateSyncRepositoryCore).                 *)

NoStaged == [req |-> 0, through |-> 0, next |-> 0, cache |-> [k \in Keys |-> 0]]

newAuthority(epoch, seq) ==
    [epoch |-> epoch, cursor |-> NoCursor, cache |-> [k \in Keys |-> 0],
     required |-> seq, phase |-> "RESYNCING", pending |-> 0, pendingCursor |-> NoCursor,
     after |-> "none", staged |-> NoStaged, buffered |-> {}]

NoAuthority == [newAuthority(0, 0) EXCEPT !.phase = "EMPTY"]

\* A receipt of the repository adapter.
Receipt(type, step) ==
    [type |-> type, step |-> step, req |-> 0, restart |-> "none", next |-> 0,
     lineage |-> FALSE, release |-> 0]

\* What a transaction leaves behind and what the adapter tells the actor.
Result(r, receipts) == [repo |-> r, receipts |-> receipts]

Complete(r) == r.staged.next = KeyCount

\* Staged chunks and buffered events are dropped and the cut is owed a release.
abandonStaged(r, after) ==
    [r EXCEPT !.phase = "RESYNCING", !.pending = r.staged.req,
              !.pendingCursor = IF r.staged.req = 0 THEN NoCursor ELSE r.cursor,
              !.after = IF r.staged.req = 0 THEN "none" ELSE after,
              !.staged = NoStaged, !.buffered = {}]

Released(r, type, step) ==
    <<[Receipt(type, step) EXCEPT !.req = r.pending, !.restart = r.after,
                                  !.next = r.pendingCursor]>>

\* The receipt for a restart: with a release first if a cut is owed one.
Abandoned(r, step) ==
    IF r.pending # 0 THEN Released(r, "Abandoned", step)
    ELSE <<Receipt("RestartRequired", step)>>

\* The buffered events between two numbers are all there.
bufferCovers(r, from, through) ==
    \A n \in (from + 1)..through : \E e \in r.buffered : e.seq = n

applySameEpochWelcome(r, step, hello) ==
    LET welcomed == [r EXCEPT !.required = Larger(@, hello.seq)]
        live == [welcomed EXCEPT !.phase = "LIVE", !.buffered = {}]
        owed == abandonStaged(welcomed, "QUERY")
        behind == IF hello.outcome = "FRESH"
                  THEN [newAuthority(r.epoch, welcomed.required) EXCEPT
                          !.staged = r.staged, !.buffered = r.buffered]
                  ELSE [welcomed EXCEPT !.phase = "RESYNCING"]
        restart == abandonStaged(behind, "SNAPSHOT")
        useless == /\ r.staged.req # 0
                   /\ \/ Complete(r)
                      \/ /\ r.staged.through < behind.required
                         /\ ~bufferCovers(r, r.staged.through, behind.required)
    IN IF hello.outcome = "MATCHED"
       THEN IF r.staged.req = 0
            THEN Result(live, <<Receipt("HelloApplied", step)>>)
            ELSE Result(owed, Released(owed, "ReleaseRecovered", step))
       ELSE IF useless
            THEN Result(restart, Released(restart, "ReleaseRecovered", step))
            ELSE Result(behind, <<[Receipt("HelloApplied", step) EXCEPT
                                     !.req = r.staged.req, !.next = r.staged.next]>>)

applyHello(r, step, hello) ==
    LET required == Larger(r.required, hello.seq)
        mayQuery == /\ r.after = "QUERY"
                    /\ hello.outcome \notin {"FRESH", "HOST_EPOCH_CHANGED"}
                    /\ r.pendingCursor # NoCursor /\ r.pendingCursor >= required
        owed == [r EXCEPT !.required = required, !.phase = "RESYNCING",
                          !.after = IF mayQuery THEN "QUERY" ELSE "SNAPSHOT"]
    IN IF r.epoch # hello.epoch
       THEN Result(newAuthority(hello.epoch, hello.seq), <<Receipt("HelloApplied", step)>>)
       ELSE IF r.pending # 0
            THEN Result(owed, Released(owed, "ReleaseRecovered", step))
            ELSE applySameEpochWelcome(r, step, hello)

\* The event is the next one of its key.
RevisionMatches(cache, e) == e.rev = cache[e.key] + 1

applyLiveEvent(r, e) ==
    [r EXCEPT !.cursor = e.seq, !.cache[e.key] = e.rev]

\* The buffered events that follow the staged cut, up to the n-th.
Follow(r, n) == {e \in r.buffered : e.seq > r.staged.through /\ e.seq <= n}

Committed_all(r) ==
    [cursor |-> r.staged.through + Cardinality(r.buffered),
     cache |-> [k \in Keys |->
        r.staged.cache[k] + Cardinality({e \in r.buffered : e.key = k})]]

\* The staged cut with the buffered events that follow it.
Committed(r) ==
    LET events == {e \in r.buffered : e.seq > r.staged.through}
        last == r.staged.through + Cardinality(events)
    IN [cursor |-> last,
        cache |-> [k \in Keys |->
            r.staged.cache[k] + Cardinality({e \in events : e.key = k})]]

\* The buffered events follow the staged cut without a hole, each with the next
\* revision of its key, and reach what the client knows to exist.
validateBufferedEvents(r) ==
    LET events == {e \in r.buffered : e.seq > r.staged.through}
        last == r.staged.through + Cardinality(events)
    IN /\ {e.seq : e \in events} = (r.staged.through + 1)..last
       /\ \A e \in events :
            e.rev = r.staged.cache[e.key]
                      + Cardinality({d \in Follow(r, e.seq) : d.key = e.key})
       /\ last >= r.required

commitSnapshot(r, step) ==
    LET committed == [r EXCEPT !.cursor = Committed(r).cursor,
                               !.cache = Committed(r).cache]
        owed == abandonStaged(committed, "QUERY")
        restart == abandonStaged(r, "SNAPSHOT")
    IN IF validateBufferedEvents(r)
       THEN Result(owed, <<[Receipt("Committed", step) EXCEPT !.req = owed.pending,
                                                              !.next = owed.cursor]>>)
       ELSE Result(restart, Released(restart, "Abandoned", step))

\* The last chunk is staged in a transaction of its own, before the commit.
stageSnapshotChunk(r, step, chunk) ==
    LET base == IF r.staged.req = 0
                THEN [NoStaged EXCEPT !.req = chunk.req, !.through = chunk.seq]
                ELSE r.staged
        fits == /\ base.req = chunk.req /\ base.through = chunk.seq
                /\ base.next = chunk.next
        restart == abandonStaged([r EXCEPT !.staged = base], "SNAPSHOT")
        staged == [r EXCEPT !.staged = [base EXCEPT !.next = @ + 1,
                                                    !.cache[chunk.next + 1] = chunk.rev]]
    IN IF r.pending # 0 THEN Result(r, Released(r, "ReleaseRecovered", step))
       ELSE IF r.phase # "RESYNCING" THEN Result(r, <<Receipt("RestartRequired", step)>>)
       ELSE IF ~fits THEN Result(restart, Released(restart, "Abandoned", step))
       ELSE IF Complete(staged) THEN Result(staged, <<>>)
       ELSE Result(staged, <<[Receipt("Continue", step) EXCEPT
                                !.req = chunk.req, !.next = staged.staged.next]>>)

\* What an event that interrupts a live copy tells the actor: in recovery the query
\* window it was delivered in is superseded, and online a resync is required.
Interrupted(r, effect, wasLive) ==
    IF effect.step = 0
    THEN <<[Receipt("OnlineResync", 0) EXCEPT
              !.req = r.pending,
              !.restart = IF r.pending = 0 THEN "SNAPSHOT" ELSE r.after]>>
    ELSE IF ~wasLive THEN Abandoned(r, effect.step)
    ELSE IF ~effect.lineage THEN <<Receipt("Broken", effect.step)>>
    ELSE <<[Receipt("Superseded", effect.step) EXCEPT
              !.lineage = TRUE, !.release = effect.release]>>

bufferEventWhileReleasePending(r, effect) ==
    LET e == effect.event
        owed == [r EXCEPT !.phase = "RESYNCING", !.after = "SNAPSHOT"]
        full == Cardinality(r.buffered) + 1 > MaxBuffer
        kept == [owed EXCEPT !.buffered = IF full THEN {} ELSE @ \cup {e}]
        online == [Receipt("OnlineResync", 0) EXCEPT
                     !.req = IF full THEN owed.pending ELSE 0, !.restart = "SNAPSHOT"]
    IN IF e \in r.buffered THEN Result(owed, <<>>)
       ELSE Result(kept, IF effect.step = 0 THEN <<online>> ELSE <<>>)

bufferEventOrRestart(r, effect, gap) ==
    LET e == effect.event
        wasLive == r.phase = "LIVE"
        resync == [r EXCEPT !.phase = "RESYNCING"]
        full == Cardinality(r.buffered) + 1 > MaxBuffer
        restart == abandonStaged(r, "SNAPSHOT")
        kept == [resync EXCEPT !.buffered = @ \cup {e}]
    IN IF e \in r.buffered THEN Result(resync, <<>>)
       ELSE IF full THEN Result(restart, Interrupted(restart, effect, wasLive))
       ELSE Result(kept, IF ~gap THEN Interrupted(kept, effect, FALSE)
                         ELSE IF effect.step = 0 \/ wasLive
                              THEN Interrupted(kept, effect, TRUE)
                              ELSE <<>>)

applyStateEvent(r, effect) ==
    LET e == effect.event
        known == [r EXCEPT !.required = Larger(@, e.seq)]
        next == r.phase = "LIVE" /\ r.cursor # NoCursor /\ e.seq = r.cursor + 1
    IN IF r.cursor # NoCursor /\ e.seq <= r.cursor THEN Result(r, <<>>)
       ELSE IF r.pending # 0 THEN bufferEventWhileReleasePending(known, effect)
       ELSE IF next /\ RevisionMatches(r.cache, e)
            THEN Result(applyLiveEvent(known, e), <<>>)
       ELSE bufferEventOrRestart(known, effect, ~next)

beginManualResync(r) ==
    LET restart == IF r.pending # 0 THEN r ELSE abandonStaged(r, "SNAPSHOT")
    IN Result(restart, <<[Receipt("OnlineResync", 0) EXCEPT !.req = restart.pending,
                                                            !.restart = "SNAPSHOT"]>>)

completeSnapshotRelease_neverLive(r, step, req) ==
    IF r.pending # req THEN Result(r, <<Receipt("Broken", step)>>)
    ELSE Result([r EXCEPT !.pending = 0, !.pendingCursor = NoCursor, !.after = "none"],
                <<[Receipt("ReleaseCompleted", step) EXCEPT !.req = req,
                                                            !.restart = r.after]>>)

completeSnapshotRelease(r, step, req) ==
    IF r.pending # req THEN Result(r, <<Receipt("Broken", step)>>)
    ELSE Result([r EXCEPT !.pending = 0, !.pendingCursor = NoCursor, !.after = "none",
                          !.phase = IF r.after = "QUERY" THEN "LIVE" ELSE "RESYNCING"],
                <<[Receipt("ReleaseCompleted", step) EXCEPT !.req = req,
                                                            !.restart = r.after]>>)

expireSnapshotContinuation(r, step, req) ==
    IF r.pending # 0 \/ r.staged.req \notin {0, req}
    THEN Result(r, <<Receipt("Broken", step)>>)
    ELSE Result(IF r.staged.req = 0 THEN r
                ELSE [r EXCEPT !.phase = "RESYNCING", !.staged = NoStaged,
                               !.buffered = {}],
                <<Receipt("RestartRequired", step)>>)

-----------------------------------------------------------------------------
(* The connection actor.  A recovery is a chain of requests; step numbers  *)
(* the current one, and the query window is the steps whose events may     *)
(* still undo it once the copy was declared live.                          *)

NoWindow == [on |-> FALSE, steps |-> {}, release |-> 0]

NoActor ==
    [phase |-> "OFF", epoch |-> 0, seq |-> 0, outcome |-> "none", stage |-> "none",
     step |-> 0, req |-> 0, known |-> FALSE, next |-> 0, follow |-> "none",
     window |-> NoWindow, onlineWindow |-> NoWindow, commands |-> FALSE,
     manual |-> "no", hosts |-> FALSE]

Effect(type, step) ==
    [type |-> type, step |-> step, req |-> 0, event |-> NoEvent, chunk |-> Frame("none", 0),
     lineage |-> FALSE, release |-> 0]

\* What an actor does: its next state, the frames it sends and the effects it emits.
Does(a, frames, effects) == [actor |-> a, frames |-> frames, effects |-> effects]

armQueryWindow(a, origin) ==
    [a EXCEPT !.window.on = TRUE, !.window.steps = @ \cup {origin}]

\* A request id nobody remembers.
Fresh ==
    CHOOSE q \in Requests :
        /\ cuts[q].st # "active"
        /\ q \notin {repo.staged.req, repo.pending, actor.req}
        /\ \A i \in DOMAIN up : up[i].req # q
        /\ \A i \in DOMAIN down : down[i].req # q
        /\ \A i \in DOMAIN fx : fx[i].req # q /\ fx[i].chunk.req # q
        /\ \A i \in DOMAIN rx : rx[i].req # q

sendStateSnapshotRequest(a, req, known, next) ==
    Does([a EXCEPT !.stage = "SNAPSHOT_RESPONSE", !.req = req, !.known = known,
                   !.next = next],
         <<[Frame("get", req) EXCEPT !.id = a.step, !.known = known, !.next = next]>>,
         <<>>)

beginStateSnapshot(a, req, next) ==
    LET begun == [a EXCEPT !.window = NoWindow, !.onlineWindow = NoWindow]
    IN IF req = 0 THEN sendStateSnapshotRequest(begun, Fresh, FALSE, 0)
       ELSE sendStateSnapshotRequest(begun, req, TRUE, next)

sendSnapshotRelease(a, req, follow) ==
    Does([a EXCEPT !.window = NoWindow, !.onlineWindow = NoWindow, !.known = FALSE,
                   !.stage = "RELEASE_RESPONSE", !.req = req, !.follow = follow],
         <<[Frame("release", req) EXCEPT !.id = a.step]>>, <<>>)

enterOnline(a) ==
    [a EXCEPT !.phase = "ONLINE", !.stage = "none", !.req = 0, !.known = FALSE,
              !.next = 0, !.follow = "none",
              !.onlineWindow = a.window, !.window = NoWindow]

sendNextCommandQuery(a) ==
    LET asked == armQueryWindow([a EXCEPT !.stage = "QUERY_COMMIT"], a.step)
    IN IF a.commands THEN Does(asked, <<>>, <<Effect("register", a.step)>>)
       ELSE Does(enterOnline(a), <<>>, <<>>)

beginCommandQueries(a, origin) ==
    sendNextCommandQuery(
        armQueryWindow([a EXCEPT !.req = 0, !.known = FALSE, !.follow = "none"], origin))

\* What follows a release, or a recovery that is begun again.
continueAfterAbandon(a, restart, origin) ==
    IF restart = "QUERY" THEN beginCommandQueries(a, origin)
    ELSE beginStateSnapshot(a, 0, 0)

restartReceiptCanAdvance_strict(a, receipt) ==
    receipt.restart # "QUERY" \/ receipt.next > a.seq

restartReceiptCanAdvance(a, receipt) ==
    \/ receipt.restart # "QUERY"
    \/ /\ a.outcome \notin {"FRESH", "HOST_EPOCH_CHANGED"}
       /\ receipt.next >= a.seq


\* A receipt for the current step; an older one changes nothing.
applyHelloReceipt(a, receipt) ==
    LET stepped == [a EXCEPT !.step = @ + 1]
    IN IF a.stage # "HELLO_RECEIPT" THEN Does(a, <<>>, <<>>)
       ELSE IF a.outcome = "MATCHED" THEN beginCommandQueries(stepped, a.step)
       ELSE beginStateSnapshot(stepped, receipt.req, receipt.next)

applySnapshotChunkReceipt(a, receipt) ==
    LET stepped == [a EXCEPT !.step = @ + 1]
    IN IF a.stage # "SNAPSHOT_RECEIPT" THEN Does(a, <<>>, <<>>)
       ELSE IF receipt.type = "Continue"
            THEN sendStateSnapshotRequest(stepped, receipt.req, TRUE, receipt.next)
       ELSE IF receipt.next < a.seq THEN Does(a, <<>>, <<>>)
       ELSE sendSnapshotRelease(stepped, receipt.req, "QUERY")

applyRecoveryAbandonedReceipt(a, receipt) ==
    IF a.stage = "RELEASE_RESPONSE" /\ a.req = receipt.req
    THEN Does([a EXCEPT !.follow = receipt.restart], <<>>, <<>>)
    ELSE sendSnapshotRelease([a EXCEPT !.step = @ + 1], receipt.req, receipt.restart)

applyRecoveredReleaseReceipt(a, receipt) ==
    IF ~restartReceiptCanAdvance(a, receipt) THEN Does(a, <<>>, <<>>)
    ELSE sendSnapshotRelease([a EXCEPT !.step = @ + 1], receipt.req, receipt.restart)

applySnapshotReleaseCompletedReceipt(a, receipt) ==
    LET stepped == [a EXCEPT !.step = @ + 1]
        released == [stepped EXCEPT !.window.release = a.step]
    IN IF a.stage # "RELEASE_RECEIPT" THEN Does(a, <<>>, <<>>)
       ELSE continueAfterAbandon(IF receipt.restart = "QUERY" THEN released ELSE stepped,
                                 receipt.restart, a.step)

applyCommandQueryAttemptRegistered(a) ==
    IF a.stage # "QUERY_COMMIT" THEN Does(a, <<>>, <<>>)
    ELSE Does([a EXCEPT !.stage = "QUERY_RESPONSE"], 
              <<[Frame("query", 0) EXCEPT !.id = a.step]>>, <<>>)

applyCommandStatusesReceipt(a) ==
    IF a.stage # "QUERY_RECEIPT" THEN Does(a, <<>>, <<>>)
    ELSE Does(enterOnline([a EXCEPT !.step = @ + 1]), <<>>, <<>>)

\* The window of the event: the recovery's, or the one it left when it went online.
completedReleaseBinding(a) ==
    IF a.window.release # 0 THEN a.window.release
    ELSE IF a.stage = "RELEASE_RECEIPT" THEN a.step ELSE 0

windowMatches(a, receipt) ==
    \/ /\ a.phase = "RECOVERING" /\ a.window.on
       /\ receipt.step \in a.window.steps
       /\ completedReleaseBinding(a) = receipt.release
    \/ /\ a.phase = "ONLINE" /\ a.onlineWindow.on
       /\ receipt.step \in a.onlineWindow.steps
       /\ a.onlineWindow.release = receipt.release

applyQueryRecoverySuperseded(a, receipt) ==
    IF ~windowMatches(a, receipt) THEN Does(a, <<>>, <<>>)
    ELSE beginStateSnapshot(
            [a EXCEPT !.phase = "RECOVERING", !.step = @ + 1,
                      !.outcome = IF a.phase = "ONLINE" THEN "CURSOR_BEHIND" ELSE @],
            0, 0)

handleOnlineResyncRequired(a, receipt) ==
    LET begun == [a EXCEPT !.phase = "RECOVERING", !.outcome = "CURSOR_BEHIND",
                           !.step = @ + 1, !.manual = "no", !.onlineWindow = NoWindow]
    IN IF a.phase # "ONLINE" THEN Does(a, <<>>, <<>>)
       ELSE IF receipt.req = 0 THEN beginStateSnapshot(begun, 0, 0)
       ELSE sendSnapshotRelease(begun, receipt.req, receipt.restart)

handleRecoveryReceipt(a, receipt) ==
    LET t == receipt.type
    IN CASE t = "OnlineResync" -> handleOnlineResyncRequired(a, receipt)
         [] t = "Superseded" -> applyQueryRecoverySuperseded(a, receipt)
         [] t = "Broken" -> Does([a EXCEPT !.phase = "BROKEN"], <<>>, <<>>)
         [] t \notin {"OnlineResync", "Superseded", "Broken"}
              /\ (a.phase # "RECOVERING" \/ receipt.step # a.step) -> Does(a, <<>>, <<>>)
         [] OTHER ->
              CASE t = "HelloApplied" -> applyHelloReceipt(a, receipt)
                [] t \in {"Continue", "Committed"} -> applySnapshotChunkReceipt(a, receipt)
                [] t = "Abandoned" -> applyRecoveryAbandonedReceipt(a, receipt)
                [] t = "RestartRequired" ->
                     beginStateSnapshot([a EXCEPT !.step = @ + 1], 0, 0)
                [] t = "ReleaseRecovered" -> applyRecoveredReleaseReceipt(a, receipt)
                [] t = "ReleaseCompleted" -> applySnapshotReleaseCompletedReceipt(a, receipt)
                [] t = "Registered" -> applyCommandQueryAttemptRegistered(a)
                [] t = "StatusesApplied" -> applyCommandStatusesReceipt(a)

\* A response nobody waits for is a protocol error, and the profile is not retried.
Refuse(a) == Does([a EXCEPT !.phase = "FAILED"], <<>>, <<>>)

\* A refusal of the host, or its loss, is retried.
Retry == Does(NoActor, <<>>, <<>>)

expectedHelloOutcome(epoch, cursor, frame) ==
    CASE cursor = NoCursor -> "FRESH"
      [] cursor # NoCursor /\ epoch # frame.epoch -> "HOST_EPOCH_CHANGED"
      [] cursor # NoCursor /\ epoch = frame.epoch /\ cursor < frame.seq -> "CURSOR_BEHIND"
      [] OTHER -> "MATCHED"

acceptHostWelcome(a, frame) ==
    LET outcome == expectedHelloOutcome(repo.epoch, repo.cursor, frame)
        greeted == [a EXCEPT !.phase = "RECOVERING", !.epoch = frame.epoch,
                             !.seq = frame.seq, !.outcome = outcome,
                             !.stage = "HELLO_RECEIPT", !.step = 1]
    IN IF (outcome = "MATCHED") # frame.caughtUp THEN Refuse(a)
       ELSE Does(IF outcome = "MATCHED" THEN armQueryWindow(greeted, 1) ELSE greeted,
                 <<>>, <<Effect("hello", 1)>>)

deliverPostHandshakeFrame(a, frame) ==
    LET recovering == a.phase = "RECOVERING"
    IN Does(a, <<>>,
            <<[Effect("event", IF recovering THEN a.step ELSE 0) EXCEPT
                 !.event = frame.event, !.lineage = recovering /\ a.window.on,
                 !.release = IF recovering THEN completedReleaseBinding(a) ELSE 0]>>)

handleStateSnapshotChunk(a, frame) ==
    IF a.phase # "RECOVERING" \/ a.stage # "SNAPSHOT_RESPONSE" \/ frame.id # a.step
    THEN Refuse(a)
    ELSE Does([a EXCEPT !.stage = "SNAPSHOT_RECEIPT"], <<>>,
              <<[Effect("chunk", a.step) EXCEPT !.chunk = frame]>>)

\* The host's word for a release, a late one or one of an expired cut included.
handleStateSnapshotReleased(a, frame) ==
    IF a.phase # "RECOVERING" \/ a.stage # "RELEASE_RESPONSE" \/ frame.id # a.step
    THEN Refuse(a)
    ELSE Does(IF a.follow = "QUERY"
              THEN armQueryWindow([a EXCEPT !.stage = "RELEASE_RECEIPT"], a.step)
              ELSE [a EXCEPT !.stage = "RELEASE_RECEIPT"],
              <<>>, <<[Effect("complete", a.step) EXCEPT !.req = a.req]>>)

handleSnapshotExpired(a, frame) ==
    IF a.phase # "RECOVERING" \/ frame.id # a.step THEN Refuse(a)
    ELSE IF a.stage = "SNAPSHOT_RESPONSE" /\ a.known
         THEN Does([a EXCEPT !.stage = "SNAPSHOT_RECEIPT"], <<>>,
                   <<[Effect("expire", a.step) EXCEPT !.req = a.req]>>)
    ELSE IF a.stage = "RELEASE_RESPONSE" THEN handleStateSnapshotReleased(a, frame)
    ELSE Refuse(a)

handleCommandStatuses(a, frame) ==
    IF a.phase # "RECOVERING" \/ a.stage # "QUERY_RESPONSE" \/ frame.id # a.step
    THEN Refuse(a)
    ELSE Does([a EXCEPT !.stage = "QUERY_RECEIPT"], <<>>, <<Effect("statuses", a.step)>>)

handleFrame(a, frame) ==
    CASE frame.type = "welcome" -> acceptHostWelcome(a, frame)
      [] frame.type = "event" -> deliverPostHandshakeFrame(a, frame)
      [] frame.type = "chunk" -> handleStateSnapshotChunk(a, frame)
      [] frame.type = "released" -> handleStateSnapshotReleased(a, frame)
      [] frame.type = "expired" -> handleSnapshotExpired(a, frame)
      [] frame.type = "statuses" -> handleCommandStatuses(a, frame)
      [] frame.type \in {"busy", "close"} -> Retry


-----------------------------------------------------------------------------
Init ==
    /\ host = [epoch |-> 1, log |-> <<>>, fence |-> FALSE, sub |-> FALSE]
    /\ cuts = [q \in Requests |-> NoCut]
    /\ up = <<>> /\ down = <<>>
    /\ repo = NoAuthority
    /\ actor = NoActor
    /\ fx = <<>> /\ rx = <<>>
    /\ spent = [drops |-> 0, expiries |-> 0, gaps |-> 0, manual |-> 0, hosts |-> 0,
                uncertain |-> "none", overflow |-> FALSE]

\* The host: an event is committed and then published to its subscriber.
Commit(k, published) ==
    /\ Len(host.log) < MaxEvents
    /\ ~published => host.sub /\ spent.gaps < MaxGaps
    /\ spent' = IF published THEN spent ELSE [spent EXCEPT !.gaps = @ + 1]
    /\ LET log == Append(host.log, k)
       IN /\ host' = [host EXCEPT !.log = log]
          /\ down' = IF host.sub /\ published
                     THEN Append(down, [Frame("event", 0) EXCEPT !.event = LastEvent(log)])
                     ELSE down
    /\ UNCHANGED <<cuts, up, repo, actor, fx, rx>>

\* The subscriber is closed, and the client reads so behind the frames sent before.
closeAllSubscribers ==
    down' = IF host.sub THEN Append(down, Frame("close", 0)) ELSE down

fenceCommitUncertain(k, kept) ==
    /\ Len(host.log) < MaxEvents /\ spent.uncertain = "none"
    /\ host' = [host EXCEPT !.log = IF kept THEN Append(@, k) ELSE @,
                            !.fence = TRUE, !.sub = FALSE]
    /\ closeAllSubscribers
    /\ spent' = [spent EXCEPT !.uncertain = IF kept THEN "kept" ELSE "lost"]
    /\ UNCHANGED <<cuts, up, repo, actor, fx, rx>>

\* The host loses its history: the next epoch starts from nothing.
observeLineage ==
    /\ host.epoch < MaxEpochs
    /\ host' = [epoch |-> host.epoch + 1, log |-> <<>>, fence |-> TRUE, sub |-> FALSE]
    /\ cuts' = [q \in Requests |-> NoCut]
    /\ closeAllSubscribers
    /\ UNCHANGED <<up, repo, actor, fx, rx, spent>>

\* The host reads the next frame of a client it still serves.
Reads(type) == up # <<>> /\ Head(up).type = type

\* The cursor of a hello needs no snapshot (resumeDisposition).
CaughtUp(hello) ==
    /\ hello.known /\ hello.epoch = host.epoch
    /\ hello.seq = Len(host.log) /\ ~host.fence

linearizeWelcome ==
    /\ Reads("hello")
    /\ down' = Append(down, [Frame("welcome", 0) EXCEPT
                               !.epoch = host.epoch, !.seq = Len(host.log),
                               !.caughtUp = CaughtUp(Head(up))])
    /\ up' = Tail(up)
    /\ host' = [host EXCEPT !.sub = TRUE, !.fence = FALSE]
    /\ UNCHANGED <<cuts, repo, actor, fx, rx, spent>>

Pinned == Cardinality({q \in Requests : cuts[q].st = "active"})

\* A first request pins a cut, if there is room for one.
captureCut ==
    /\ host.sub /\ Reads("get")
    /\ LET get == Head(up)
       IN /\ ~get.known /\ cuts[get.req].st # "active"
          /\ IF Pinned < MaxPinned
             THEN /\ cuts' = [cuts EXCEPT ![get.req] =
                                [st |-> "active", through |-> Len(host.log)]]
                  /\ UNCHANGED <<up, down>>
             ELSE /\ down' = Append(down, [Frame("busy", 0) EXCEPT !.id = get.id])
                  /\ up' = Tail(up)
                  /\ UNCHANGED cuts
    /\ UNCHANGED <<host, repo, actor, fx, rx, spent>>

serveExisting ==
    /\ host.sub /\ Reads("get")
    /\ LET get == Head(up)
           cut == cuts[get.req]
       IN /\ cut.st = "active" \/ get.known
          /\ down' = Append(down,
                IF cut.st = "active"
                THEN [Frame("chunk", get.req) EXCEPT
                        !.id = get.id, !.next = get.next, !.seq = cut.through,
                        !.rev = RevisionAt(host.log, cut.through, get.next + 1)]
                ELSE [Frame("expired", get.req) EXCEPT !.id = get.id])
    /\ up' = Tail(up)
    /\ UNCHANGED <<host, cuts, repo, actor, fx, rx, spent>>

releaseCut ==
    /\ host.sub /\ Reads("release")
    /\ LET release == Head(up)
           type == IF cuts[release.req].st = "expired" THEN "expired" ELSE "released"
       IN /\ cuts' = [cuts EXCEPT ![release.req].st =
                        IF @ = "active" THEN "released" ELSE @]
          /\ down' = Append(down, [Frame(type, release.req) EXCEPT !.id = release.id])
    /\ up' = Tail(up)
    /\ UNCHANGED <<host, repo, actor, fx, rx, spent>>

queryCommands ==
    /\ host.sub /\ Reads("query")
    /\ down' = Append(down, [Frame("statuses", 0) EXCEPT !.id = Head(up).id])
    /\ up' = Tail(up)
    /\ UNCHANGED <<host, cuts, repo, actor, fx, rx, spent>>

\* The client still knows of the request.
Remembered(q) ==
    \/ q \in {repo.staged.req, repo.pending, actor.req}
    \/ \E i \in DOMAIN fx : fx[i].req = q \/ fx[i].chunk.req = q
    \/ \E i \in DOMAIN rx : rx[i].req = q

\* The lease of a pinned cut runs out; it was renewed by the last chunk served.
expireCut(q) ==
    /\ cuts[q].st = "active"
    /\ \A i \in DOMAIN up : up[i].req = q => up[i].known \/ up[i].type = "release"
    /\ Remembered(q) => spent.expiries < MaxExpiries
    /\ spent' = IF Remembered(q) THEN [spent EXCEPT !.expiries = @ + 1] ELSE spent
    /\ cuts' = [cuts EXCEPT ![q].st = "expired"]
    /\ UNCHANGED <<host, up, down, repo, actor, fx, rx>>

-----------------------------------------------------------------------------
\* The client connects with the cursor its database holds.
Connect(commands) ==
    /\ actor.phase = "OFF"
    /\ actor' = [NoActor EXCEPT !.phase = "CONNECTING", !.commands = commands]
    /\ up' = <<[Frame("hello", 0) EXCEPT !.known = repo.cursor # NoCursor,
                                          !.epoch = repo.epoch, !.seq = repo.cursor]>>
    /\ down' = <<>>
    /\ host' = [host EXCEPT !.sub = FALSE]
    /\ UNCHANGED <<cuts, repo, fx, rx, spent>>

\* The actor acts: outside a connection its effects, receipts and frames are fenced.
Act(does) ==
    LET connected == does.actor.phase \in {"CONNECTING", "RECOVERING", "ONLINE"}
    IN /\ actor' = does.actor
       /\ up' = IF connected THEN up \o does.frames ELSE <<>>
       /\ fx' = IF connected THEN fx \o does.effects ELSE <<>>
       /\ host' = IF connected THEN host ELSE [host EXCEPT !.sub = FALSE]

receiveFrame ==
    /\ down # <<>> /\ actor.phase \in {"CONNECTING", "RECOVERING", "ONLINE"}
    /\ LET does == handleFrame(actor, Head(down))
           lost == does.actor.phase \in {"OFF", "FAILED"}
       IN /\ Act(does)
          /\ down' = IF lost THEN <<>> ELSE Tail(down)
          /\ rx' = IF lost THEN <<>> ELSE rx
    /\ UNCHANGED <<cuts, repo, spent>>

processRecoveryReceipt ==
    /\ rx # <<>>
    /\ LET does == handleRecoveryReceipt(actor, Head(rx))
           lost == does.actor.phase = "BROKEN"
       IN /\ Act(does)
          /\ rx' = IF lost THEN <<>> ELSE Tail(rx)
          /\ down' = IF lost THEN <<>> ELSE down
    /\ UNCHANGED <<cuts, repo, spent>>

\* What the consumer does with an effect: one transaction and its receipts.
applyEffect(effect) ==
    LET t == effect.type
    IN CASE t = "hello" ->
              applyHello(repo, effect.step,
                         [epoch |-> actor.epoch, seq |-> actor.seq,
                          outcome |-> actor.outcome])
         [] t = "event" -> applyStateEvent(repo, effect)
         [] t = "chunk" -> stageSnapshotChunk(repo, effect.step, effect.chunk)
         [] t = "commit" -> commitSnapshot(repo, effect.step)
         [] t = "complete" -> completeSnapshotRelease(repo, effect.step, effect.req)
         [] t = "expire" -> expireSnapshotContinuation(repo, effect.step, effect.req)
         [] t = "manual" -> beginManualResync(repo)
         [] t = "register" -> Result(repo, <<Receipt("Registered", effect.step)>>)
         [] t = "statuses" -> Result(repo, <<Receipt("StatusesApplied", effect.step)>>)

\* The consumer waits for the actor to have read a recovery receipt.  It commits a
\* complete snapshot before it goes on to the next effect.
consume ==
    /\ fx # <<>>
    /\ \A i \in DOMAIN rx : rx[i].type = "OnlineResync"
    /\ LET effect == Head(fx)
           result == applyEffect(effect)
           staged == effect.type = "chunk" /\ Complete(result.repo)
           overflow == effect.type = "event" /\ repo.buffered # {} /\ result.repo.buffered = {}
       IN /\ repo' = result.repo /\ rx' = rx \o result.receipts
          /\ fx' = IF staged THEN <<[effect EXCEPT !.type = "commit"]>> \o Tail(fx) ELSE Tail(fx)
          /\ spent' = [spent EXCEPT !.overflow = @ \/ overflow]
    /\ UNCHANGED <<host, cuts, up, down, actor>>

\* The user asks for a resync; the actor reads the request behind its other work.
requestManualResync ==
    /\ actor.phase = "ONLINE" /\ actor.manual = "no" /\ spent.manual < MaxManual
    /\ actor' = [actor EXCEPT !.manual = "queued"]
    /\ spent' = [spent EXCEPT !.manual = @ + 1]
    /\ UNCHANGED <<host, cuts, up, down, repo, fx, rx>>

handleManualResync ==
    /\ actor.manual = "queued"
    /\ IF actor.phase = "ONLINE" /\ ~actor.hosts
       THEN /\ actor' = [actor EXCEPT !.manual = "asked", !.hosts = TRUE]
            /\ fx' = Append(fx, Effect("manual", 0))
       ELSE actor' = [actor EXCEPT !.manual = "reserved"] /\ UNCHANGED fx
    /\ UNCHANGED <<host, cuts, up, down, repo, rx, spent>>

\* A change of the hosts is announced and their list asked for, and the list comes.
requestHostsSnapshot ==
    /\ actor.phase \in {"RECOVERING", "ONLINE"} /\ ~actor.hosts
    /\ spent.hosts < MaxHosts
    /\ actor' = [actor EXCEPT !.hosts = TRUE]
    /\ spent' = [spent EXCEPT !.hosts = @ + 1]
    /\ UNCHANGED <<host, cuts, up, down, repo, fx, rx>>

handleHostsSnapshot ==
    /\ actor.hosts
    /\ actor' = [actor EXCEPT !.hosts = FALSE]
    /\ UNCHANGED <<host, cuts, up, down, repo, fx, rx, spent>>

\* A recovery waits for nothing that is under way.
Stalled ==
    actor.phase = "RECOVERING" /\ up = <<>> /\ down = <<>> /\ fx = <<>> /\ rx = <<>>

\* The watchdog of a step.  One that is merely late is a lost connection.
handleRecoveryTimeout ==
    /\ Stalled
    /\ Act(Retry)
    /\ UNCHANGED <<cuts, down, repo, rx, spent>>

\* The connection is lost, or the client's process: only the database is left.
Drop ==
    /\ actor.phase \in {"CONNECTING", "RECOVERING", "ONLINE"}
    /\ spent.drops < MaxDrops
    /\ spent' = [spent EXCEPT !.drops = @ + 1]
    /\ actor' = NoActor
    /\ host' = [host EXCEPT !.sub = FALSE]
    /\ up' = <<>> /\ down' = <<>> /\ fx' = <<>> /\ rx' = <<>>
    /\ UNCHANGED <<cuts, repo>>

Next ==
    \/ \E k \in Keys : \E published \in BOOLEAN : Commit(k, published)
    \/ \E k \in Keys : \E kept \in Uncertain : fenceCommitUncertain(k, kept)
    \/ observeLineage
    \/ linearizeWelcome \/ captureCut \/ serveExisting \/ releaseCut \/ queryCommands
    \/ \E q \in Requests : expireCut(q)
    \/ \E commands \in Commands : Connect(commands)
    \/ receiveFrame \/ processRecoveryReceipt \/ consume
    \/ requestManualResync \/ handleManualResync
    \/ requestHostsSnapshot \/ handleHostsSnapshot
    \/ handleRecoveryTimeout \/ Drop

Spec == Init /\ [][Next]_vars

\* The host answers, the consumer and the actor work off their queues, a client whose
\* connection was lost connects again, and a cut nobody remembers runs out.  Events,
\* faults and the user's wishes are not owed.
ForgottenCut == \E q \in Requests : expireCut(q) /\ ~Remembered(q)

Reconnect == \E commands \in Commands : Connect(commands)

FairSpec ==
    /\ Spec
    /\ WF_vars(linearizeWelcome) /\ WF_vars(captureCut) /\ WF_vars(serveExisting)
    /\ WF_vars(releaseCut) /\ WF_vars(queryCommands)
    /\ WF_vars(ForgottenCut)
    /\ WF_vars(Reconnect)
    /\ WF_vars(receiveFrame) /\ WF_vars(processRecoveryReceipt) /\ WF_vars(consume)
    /\ WF_vars(handleRecoveryTimeout)

-----------------------------------------------------------------------------
TypeOK ==
    /\ host.epoch \in 1..MaxEpochs /\ host.log \in Seq(Keys)
    /\ host.fence \in BOOLEAN /\ host.sub \in BOOLEAN
    /\ \A q \in Requests : cuts[q].st \in {"none", "active", "released", "expired"}
    /\ repo.phase \in {"EMPTY", "RESYNCING", "LIVE"}
    /\ repo.after \in {"none", "QUERY", "SNAPSHOT"}
    /\ repo.pending \in Requests \cup {0} /\ repo.staged.req \in Requests \cup {0}
    /\ repo.cursor \in Nat \cup {NoCursor} /\ repo.staged.next \in 0..KeyCount
    /\ actor.phase \in {"OFF", "CONNECTING", "RECOVERING", "ONLINE", "FAILED", "BROKEN"}

\* The database holds one state the host really had: the cache is exactly the host's
\* state at the durable cursor, whatever chunks, buffered events and restarts it was
\* put together from.
CacheIsACut ==
    (repo.epoch = host.epoch /\ repo.cursor # NoCursor)
        => /\ repo.cursor <= Len(host.log)
           /\ repo.cache = StateAt(host.log, repo.cursor)

\* A copy is never declared live while the client has heard of a later event.
LiveIsCurrent == repo.phase = "LIVE" => repo.cursor >= repo.required

\* An actor that is online over an idle consumer works on a live database: the phases
\* of the two never part for longer than an effect or a receipt is under way.
OnlineIsLive ==
    (actor.phase = "ONLINE" /\ fx = <<>> /\ rx = <<>>)
        => repo.phase = "LIVE" /\ repo.pending = 0 /\ repo.staged.req = 0

\* A recovery always waits for something that is under way, and the watchdog is not what
\* makes it go on: except that the events overflowed while the only chunk of a snapshot
\* was on its way, and the actor does not follow the release its database then owes,
\* because its hello had no cursor.
NeverStalls ==
    Stalled => /\ spent.overflow /\ repo.pending # 0
               /\ actor.outcome \in {"FRESH", "HOST_EPOCH_CHANGED"}

\* The client takes an answer of its host for a protocol error, and gives the profile
\* up, in two cases only: a welcome that still fences a commit of uncertain disposition
\* after the commit proved lost, and an answer to a request for chunks that was given
\* up when the buffer of events overflowed.
FailsStep ==
    actor.phase # "FAILED" /\ actor'.phase = "FAILED"
        => \/ Head(down).type = "welcome" /\ spent.uncertain = "lost"
           \/ /\ Head(down).type \in {"chunk", "expired"} /\ Head(down).id < actor.step
              /\ spent.overflow

\* An effect contradicts the database, which ends the runtime, in one case only: the cut
\* expires under the client after an overflow has abandoned it.
BreaksStep ==
    LET broken(r) == {i \in DOMAIN r : r[i].type = "Broken"}
    IN broken(rx) = {} /\ broken(rx') # {}
        => /\ Head(fx).type = "expire" /\ spent.overflow
           /\ repo.pending = Head(fx).req

\* The client's copy has caught up with the host, or the client knows no better: what
\* it lacks was lost on the way (as is what follows a lost uncertain commit, until an
\* event or a welcome tells), or its connection failed (FailsStep).
InStep ==
    \/ actor.phase = "FAILED"
    \/ /\ actor.phase = "ONLINE" /\ repo.phase = "LIVE" /\ repo.epoch = host.epoch
       /\ \/ repo.cursor = Len(host.log)
          \/ spent.gaps > 0 /\ repo.cursor = repo.required

====
