---------------------------- MODULE TerminalOutput ----------------------------
(***************************************************************************)
(* The bytes of one terminal on their way to the phone's screen: the host  *)
(* keeps them in a ring and sends them to the route a client opened        *)
(* (terminalManager.ts), makes every open durable (terminalDurableLineage. *)
(* ts), and the client keeps a durable checkpoint of what it received and  *)
(* what its renderer has parsed (RelayV2TerminalCheckpointReducer.kt,      *)
(* RelayV2TerminalProductionComposition.kt).                               *)
(*                                                                         *)
(* A terminal has generations: an open RESUMEs one at an offset or RESETs  *)
(* it, which starts the next.  Byte i of generation g is <<g, i>>.  The    *)
(* host takes its operations one by one, so that each is one step here.    *)
(***************************************************************************)
EXTENDS Integers, Sequences, FiniteSets

CONSTANTS
    RingBytes,      \* streamRingBytes
    MaxUnacked,     \* maxUnackedBytes
    MaxFrame,       \* maxFrameBytes
    MaxBytes,       \* bytes of one generation
    MaxGens,        \* generations the host issues
    MaxOpens,       \* open ids that are in use at one time
    MaxRoutes,      \* connections the host knows of at one time
    MaxDrops,       \* connections lost to the network
    MaxRestarts,    \* restarts of the host
    MaxLosses,      \* streams the backend or a full ring loses
    MaxViews,       \* parser failures and renderer crashes
    MaxExpiries,    \* leases and retained records that expire
    MaxRefusals     \* opens the backend fails or is too busy for

BoundsAssumption ==
    /\ {RingBytes, MaxUnacked, MaxFrame, MaxBytes, MaxGens, MaxOpens, MaxRoutes,
        MaxDrops, MaxRestarts, MaxLosses, MaxViews, MaxExpiries,
        MaxRefusals} \subseteq Nat
    /\ RingBytes > 0 /\ MaxUnacked > 0 /\ MaxFrame > 0
    /\ MaxGens > 0 /\ MaxOpens > 0 /\ MaxRoutes > 0

VARIABLES
    host,       \* the durable lineage and the terminal manager
    up, down,   \* the frames of each route to the host, and those to the client
    route,      \* the client's connection, 0 when it has none
    cp,         \* the client's durable checkpoint
    view,       \* its attachment, the write the renderer has, and the screen
    failed,     \* the client's runtime stopped on a frame nobody owns
    spent       \* the faults that have happened

vars == <<host, up, down, route, cp, view, failed, spent>>

Routes == 1..MaxRoutes
OpenIds == 1..MaxOpens
Requests == 1..(MaxOpens + 2)
NoOffset == -1
Least(m, n) == IF m <= n THEN m ELSE n
Most(m, n) == IF m >= n THEN m ELSE n
First(S) == CHOOSE n \in S : \A m \in S : n <= m

-----------------------------------------------------------------------------
(* Frames, records and streams.                                            *)

Frame(type) ==
    [type |-> type, id |-> 0, req |-> 0, gen |-> 0, from |-> 0, tail |-> 0,
     dedup |-> FALSE, data |-> <<>>]

Ask(type) == [type |-> type, id |-> 0, req |-> 0, mode |-> "none", gen |-> 0, from |-> 0]

NoRecord == [kind |-> "none", gen |-> 0, from |-> 0]
ResetRecord == [NoRecord EXCEPT !.kind = "reset"]
ErrorRecord == [NoRecord EXCEPT !.kind = "error"]
AbsentRow == [st |-> "absent", gen |-> 0]

NoBind == [route |-> 0, acked |-> 0, sent |-> 0, boundary |-> 0, notified |-> FALSE]

NoStream ==
    [st |-> "none", gen |-> 0, start |-> 0, tail |-> 0, retained |-> FALSE, bind |-> NoBind]

newStream(gen) == [NoStream EXCEPT !.st = "live", !.gen = gen, !.retained = TRUE]

\* A frame leaves for a route.
Sent(h, r, frame) == [h EXCEPT !.out = Append(@, [route |-> r, frame |-> frame])]

-----------------------------------------------------------------------------
(* The ring and what is sent from it.                                      *)

\* What the ring yields for the bytes after a through b: nothing for one it lost.
Slice(s, a, b) ==
    [i \in 1..(b - a) |-> IF a + i > s.start THEN <<s.gen, a + i>> ELSE <<s.gen, 0>>]

\* The bytes after a through b as frames.
Chunks(s, a, b) ==
    [i \in 1..((b - a + MaxFrame - 1) \div MaxFrame) |->
        LET from == a + (i - 1) * MaxFrame
        IN [Frame("output") EXCEPT !.gen = s.gen, !.from = from,
                                   !.data = Slice(s, from, Least(from + MaxFrame, b))]]

\* No frame straddles the boundary between replay and live output.
Outputs(s, to) ==
    LET cut == Most(s.bind.sent, Least(s.bind.boundary, to))
    IN Chunks(s, s.bind.sent, cut) \o Chunks(s, cut, Most(cut, to))

Unbound(h) == [h EXCEPT !.s.bind = NoBind]

sendAsyncReset(h) ==
    IF h.s.bind.route = 0 THEN h
    ELSE Unbound(Sent(h, h.s.bind.route, [Frame("async_reset") EXCEPT !.gen = h.s.gen]))

pump(h) ==
    LET s == h.s
        b == s.bind
        to == Most(b.sent, Least(b.acked + MaxUnacked, s.tail))
        frames == Outputs(s, to)
        ends == s.st = "closed" /\ to = s.tail /\ ~b.notified
        closed == [Frame("closed") EXCEPT !.gen = s.gen, !.tail = s.tail]
        all == IF ends THEN Append(frames, closed) ELSE frames
    IN IF b.route = 0 THEN h
       ELSE IF b.sent < s.tail /\ (b.sent < s.start \/ ~s.retained)
            THEN sendAsyncReset(h)
            ELSE [h EXCEPT !.s.bind.sent = to, !.s.bind.notified = @ \/ ends,
                           !.out = @ \o [i \in DOMAIN all |->
                                            [route |-> b.route, frame |-> all[i]]]]

loseStream(h, notify) ==
    LET told == IF notify THEN sendAsyncReset(h) ELSE Unbound(h)
    IN [told EXCEPT !.s.st = "lost", !.s.start = h.s.tail, !.s.retained = FALSE]

removeRing(s, retain) == [s EXCEPT !.start = s.tail, !.retained = retain]

canReplay(s, from) == s.retained /\ s.start <= from /\ from <= s.tail

-----------------------------------------------------------------------------
(* Opening a terminal.                                                     *)

bindOpened(h, r, q, from, dedup) ==
    LET bound == [h EXCEPT
            !.s.st = IF @ = "closed" THEN "closed" ELSE "live",
            !.s.bind = [NoBind EXCEPT !.route = r, !.acked = from, !.sent = from,
                                      !.boundary = h.s.tail]]
    IN pump(Sent(bound, r, [Frame("opened") EXCEPT
                !.id = q.id, !.req = q.req, !.gen = h.s.gen, !.from = from,
                !.tail = h.s.tail, !.dedup = dedup]))

sendResetResponse(h, r, q) ==
    Sent(h, r, [Frame("reset") EXCEPT !.id = q.id, !.req = q.req])

\* The open is answered by a reset from now on.
refuseOpen(h, r, q) ==
    sendResetResponse([h EXCEPT !.rec[q.id] = ResetRecord, !.refused = @ \cup {q.id}], r, q)

\* The open fails without a record, so that the client may try it again.
rejectOpen(h, r, q) == Sent(h, r, [Frame("error") EXCEPT !.id = q.id, !.req = q.req])

\* The open is answered by an error from now on: the host has no room for it, or the
\* backend took too long.
refuseBusy(h, r, q) == rejectOpen([h EXCEPT !.rec[q.id] = ErrorRecord], r, q)

\* The open was settled before: bind the stream it opened again, at the offset it
\* was opened at, or tell the client to reset.
replayDurableOpen(h, r, q) ==
    LET k == h.rec[q.id]
        s == h.s
        exact == /\ s.st \in {"live", "detached", "closed"} /\ s.gen = k.gen
                 /\ q.id \notin h.refused
        refused == [h EXCEPT !.refused = @ \cup {q.id}]
    IN IF k.kind = "error" THEN rejectOpen(h, r, q)
       ELSE IF k.kind = "reset" \/ s.st = "none"
       THEN sendResetResponse(refused, r, q)
       ELSE IF ~exact
            THEN sendResetResponse([refused EXCEPT
                    !.s = IF s.gen = k.gen THEN NoStream ELSE @], r, q)
            ELSE IF canReplay(s, k.from)
                 THEN bindOpened(h, r, q, k.from, TRUE)
                 ELSE sendResetResponse(refused, r, q)

\* The local stream is the one the durable row names.
localRecordMatchesDurable(h) ==
    /\ h.row.st # "absent" /\ h.s.gen = h.row.gen /\ h.s.st # "lost"
    /\ h.row.st = "closed" <=> h.s.st = "closed"

\* A local stream that is not is dropped; the row stays as it is.
fenceDivergentLocalStream(h) ==
    [h EXCEPT !.s = NoStream,
              !.refused = IF h.row.st = "absent" \/ h.s.gen # h.row.gen THEN {} ELSE @]

resumeGeneration(h, r, q) ==
    IF h.row.st = "absent" \/ h.s.st = "none" \/ h.row.gen # q.gen
    THEN refuseOpen(h, r, q)
    ELSE IF q.from > h.s.tail THEN rejectOpen(h, r, q)
    ELSE IF ~canReplay(h.s, q.from) THEN refuseOpen(h, r, q)
    ELSE bindOpened([h EXCEPT !.rec[q.id] = [kind |-> "opened", gen |-> q.gen, from |-> q.from]],
                    r, q, q.from, FALSE)

\* A new generation, if the backend can start one in time.  The stream it replaces is
\* given up first, unless the release of its producer is not confirmed.
createGeneration(h, r, q, outcome) ==
    LET created == [h EXCEPT
            !.row = [st |-> "live", gen |-> h.gens], !.lost = @ \ {q.gen},
            !.rec[q.id] = [kind |-> "opened", gen |-> h.gens, from |-> 0],
            !.s = newStream(h.gens)]
        retired == [h EXCEPT !.s = [removeRing(h.s, FALSE) EXCEPT !.st = "lost", !.bind = NoBind],
                             !.row = AbsentRow]
        without == IF h.s.st \in {"live", "detached"} THEN retired ELSE h
    IN CASE outcome = "ok" -> bindOpened(created, r, q, 0, FALSE)
         [] outcome = "failed" -> refuseOpen(without, r, q)
         [] outcome = "late" -> refuseBusy(without, r, q)
         [] outcome = "busy" -> rejectOpen(h, r, q)

\* A lost stream whose durable row still names it may be replaced by a reset.
exactLostReset(h, q) ==
    /\ q.mode = "reset" /\ h.s.st = "lost" /\ h.row.st = "live"
    /\ h.s.gen = h.row.gen /\ q.gen = h.row.gen

resetGeneration(h, r, q, outcome) ==
    IF \/ h.row.st = "absent" /\ h.s.st = "none"
       \/ h.row.st = "live" /\ h.s.st \in {"live", "detached"}
       \/ exactLostReset(h, q)
    THEN createGeneration(h, r, q, outcome)
    ELSE refuseOpen(h, r, q)

\* The reset names a generation the lineage knows to be another.  (The records of
\* close requests, which conflict too, are left out with these.)
resetConflicts(h, q) ==
    /\ q.mode = "reset"
    /\ \/ h.row.st # "absent" /\ q.gen # h.row.gen
       \/ h.row.st = "absent" /\ h.lost # {} /\ q.gen \notin h.lost

\* An open id the lineage has not seen.
claimOpen(h, r, q, outcome) ==
    LET claimed == IF q.mode = "reset" THEN [h EXCEPT !.gens = @ + 1] ELSE h
    IN IF resetConflicts(h, q) THEN rejectOpen(h, r, q)
       ELSE IF q.mode = "resume" /\ h.row.st = "absent" /\ q.gen \in h.lost
            THEN refuseOpen(h, r, q)
       ELSE IF h.s.st # "none" /\ ~localRecordMatchesDurable(h) /\ ~exactLostReset(h, q)
            THEN refuseOpen(fenceDivergentLocalStream(claimed), r, q)
       ELSE IF outcome = "full" THEN refuseBusy(claimed, r, q)
       ELSE IF q.mode = "resume" THEN resumeGeneration(claimed, r, q)
       ELSE resetGeneration(claimed, r, q, outcome)

openInternal(h, r, q, outcome) ==
    IF h.rec[q.id].kind # "none" THEN replayDurableOpen(h, r, q)
    ELSE claimOpen(h, r, q, outcome)

-----------------------------------------------------------------------------
(* Acknowledgements and the end of a route.                                *)

unbind(h, r) ==
    IF h.s.bind.route # r THEN h
    ELSE [Unbound(h) EXCEPT !.s.st = IF @ = "live" THEN "detached" ELSE @]

\* An acknowledgement for a stream that is not bound to its route, or of bytes it
\* was not sent, is an error without a request to answer: the route is closed.
ackRefused(h, r, q) ==
    \/ h.s.st \in {"none", "lost"} \/ h.s.bind.route # r \/ h.s.gen # q.gen
    \/ q.from > h.s.bind.sent

\* Mutant: an acknowledgement gives credit but nothing is sent for it.
outputAckInternal_silent(h, q) ==
    IF q.from <= h.s.bind.acked THEN h
    ELSE [h EXCEPT !.s.bind.acked = q.from, !.s.start = Most(@, q.from)]

outputAckInternal(h, q) ==
    IF q.from <= h.s.bind.acked THEN h
    ELSE pump([h EXCEPT !.s.bind.acked = q.from, !.s.start = Most(@, q.from)])

-----------------------------------------------------------------------------
(* The client's checkpoint (RelayV2TerminalCheckpointReducer).             *)

NoPend == [id |-> 0, req |-> 0, mode |-> "none", gen |-> 0, from |-> 0, retry |-> FALSE]

newGenerationCheckpoint(gen, tail) ==
    [phase |-> IF tail > 0 THEN "REPLAYING" ELSE "RESETTING_PARSER", gen |-> gen,
     applied |-> 0, recv |-> 0, target |-> IF tail > 0 THEN tail ELSE NoOffset, out |-> <<>>,
     closed |-> NoOffset, pend |-> NoPend, clearing |-> TRUE, hand |-> "none"]

markResetRequired(c) ==
    [c EXCEPT !.phase = "RESET_REQUIRED", !.pend = NoPend, !.target = NoOffset, !.hand = "none"]

\* What a step does to the client: its checkpoint, its view, the frames it sends,
\* and whether the frame belonged to anybody.
Outcome(c, v) == [cp |-> c, view |-> v, send |-> <<>>, owned |-> TRUE]

\* observer.reset: the attachment is told to start again.
Resetting(v) == [v EXCEPT !.att = "resetting", !.wr = "idle"]
ResetOutcome(c, v) == Outcome(markResetRequired(c), Resetting(v))
NotOwned(c, v) == [Outcome(c, v) EXCEPT !.owned = FALSE]

ackOf(c) == <<[Ask("ack") EXCEPT !.gen = c.gen, !.from = c.applied]>>

\* The next write goes to the renderer when it has none and no effect of an earlier
\* one is still to be executed.
Dispatched(c, v) ==
    [v EXCEPT !.wr = IF /\ @ = "idle" /\ c.out # <<>> /\ ~c.clearing /\ c.hand = "none"
                        /\ c.phase \notin {"FINALIZED", "RESET_REQUIRED"}
                     THEN "write" ELSE @]

\* What the end of the stream, once known, means for a checkpoint.
recoverClosed(c) ==
    IF c.closed = NoOffset THEN c
    ELSE IF c.applied > c.closed \/ c.recv > c.closed THEN markResetRequired(c)
    ELSE IF c.applied = c.closed /\ c.out = <<>>
         THEN [c EXCEPT !.phase = "FINALIZED", !.target = NoOffset]
    ELSE IF c.out # <<>> \/ c.phase = "REPLAYING" THEN c
    ELSE [c EXCEPT !.phase = "REPLAY_REQUESTED"]

\* A recovered checkpoint with its view, told if it has to be reset.
Recovered(c, v) ==
    LET r == recoverClosed(c)
    IN IF r.phase = "RESET_REQUIRED" THEN Outcome(r, Resetting(v))
       ELSE Outcome(r, Dispatched(r, v))

opened(c, v, f) ==
    LET fresh == newGenerationCheckpoint(f.gen, f.tail)
        resumed == [c EXCEPT !.pend = NoPend,
                      !.phase = IF f.tail = f.from /\ c.out = <<>> THEN "LIVE" ELSE "REPLAYING",
                      !.target = IF f.tail = f.from /\ c.out = <<>> THEN NoOffset ELSE f.tail]
    IN IF v.wr # "idle" \/ c.hand # "none" THEN ResetOutcome(c, v)
       ELSE IF f.req # c.pend.req THEN Outcome(c, v)
       ELSE IF c.pend.mode = "reset"
            THEN IF /\ f.gen # c.gen /\ f.from = 0
                    /\ f.tail # 0 => c.pend.retry /\ f.dedup
                 THEN Outcome(fresh, [v EXCEPT !.wr = "clear"])
                 ELSE ResetOutcome(c, v)
            ELSE IF /\ f.gen = c.gen /\ f.from = c.pend.from /\ f.tail >= c.recv
                    /\ c.pend.retry => f.dedup
                 THEN Recovered(resumed, v)
                 ELSE ResetOutcome(c, v)

output(c, v, f) ==
    LET end == f.from + Len(f.data)
        taken == [c EXCEPT !.recv = end,
                    !.out = Append(@, [to |-> end,
                        data |-> SubSeq(f.data, c.recv - f.from + 1, Len(f.data))])]
    IN IF f.gen # c.gen \/ c.phase = "FINALIZED" THEN NotOwned(c, v)
       ELSE IF end <= c.recv THEN NotOwned(c, v)
       ELSE IF f.from > c.recv \/ c.phase = "REPLAY_REQUESTED"
            THEN Outcome([c EXCEPT !.phase = "REPLAY_REQUESTED"], v)
       ELSE IF c.closed # NoOffset /\ end > c.closed THEN ResetOutcome(c, v)
       ELSE Outcome(taken, Dispatched(taken, v))

closed(c, v, f) ==
    LET known == [c EXCEPT !.closed = f.tail]
        all == /\ c.applied = f.tail /\ c.out = <<>> /\ ~c.clearing
    IN IF f.gen # c.gen \/ c.phase = "FINALIZED" \/ c.closed = f.tail THEN Outcome(c, v)
       ELSE IF c.closed # NoOffset \/ f.tail < c.recv THEN ResetOutcome(c, v)
       ELSE IF f.tail > c.recv THEN Outcome([known EXCEPT !.phase = "REPLAY_REQUESTED"], v)
       ELSE Outcome([known EXCEPT !.target = NoOffset,
                        !.phase = IF all THEN "FINALIZED" ELSE "CLOSED_WAITING_PARSER"], v)

\* An error for the pending open ends the attachment; one for an earlier request of
\* the same open changes nothing.
correlatedError(c, v, f) ==
    IF f.req = c.pend.req THEN Outcome(c, Resetting(v))
    ELSE IF f.id = c.pend.id THEN Outcome(c, v) ELSE NotOwned(c, v)

\* While a reset is required a stream's frames only say so again; the open that is
\* pending stays pending.
reduceResetRequired(c, v, f) ==
    IF f.type # "reset" /\ f.gen # c.gen THEN NotOwned(c, v)
    ELSE Outcome([c EXCEPT !.closed = IF f.type = "closed" THEN f.tail ELSE @], Resetting(v))

correlatedResetRequired(c, v, f) ==
    IF c.phase = "FINALIZED" \/ f.req # c.pend.req THEN NotOwned(c, v) ELSE ResetOutcome(c, v)

asyncResetRequired(c, v, f) ==
    IF c.phase = "FINALIZED" \/ f.gen # c.gen THEN NotOwned(c, v) ELSE ResetOutcome(c, v)

\* A frame for an attached view.
reduce(c, v, f) ==
    CASE f.type = "opened" -> opened(c, v, f)
      [] f.type = "error" -> correlatedError(c, v, f)
      [] f.type \notin {"opened", "error"} /\ c.phase = "RESET_REQUIRED" ->
            reduceResetRequired(c, v, f)
      [] f.type = "output" /\ c.phase # "RESET_REQUIRED" -> output(c, v, f)
      [] f.type = "closed" /\ c.phase # "RESET_REQUIRED" -> closed(c, v, f)
      [] f.type = "reset" /\ c.phase # "RESET_REQUIRED" -> correlatedResetRequired(c, v, f)
      [] f.type = "async_reset" /\ c.phase # "RESET_REQUIRED" -> asyncResetRequired(c, v, f)

\* A frame while no view is attached: only the answer to the open is understood, and
\* its stream is kept without a renderer.
handleDetached(c, v, f) ==
    LET reduced == opened(c, v, f).cp
        adopted == [newGenerationCheckpoint(f.gen, 0) EXCEPT
                        !.phase = "RESET_REQUIRED", !.clearing = FALSE,
                        !.closed = reduced.closed]
    IN IF f.type = "opened" /\ f.req = c.pend.req
       THEN IF reduced.phase = "RESET_REQUIRED" THEN NotOwned(c, v)
            ELSE Outcome(adopted, [v EXCEPT !.att = "suspended"])
       ELSE IF f.type \in {"output", "reset", "async_reset"} THEN NotOwned(c, v)
       ELSE Outcome(c, v)

\* A frame for a stream without a renderer: its bytes are acknowledged unseen.
discardRendererFreeOutput(c, v, f) ==
    LET end == f.from + Len(f.data)
        seen == [c EXCEPT !.applied = Most(@, end), !.recv = Most(@, end)]
    IN IF f.gen # c.gen \/ f.from > c.recv THEN NotOwned(c, v)
       ELSE [Outcome(seen, v) EXCEPT !.send = ackOf(seen)]

handleRendererFreeFrame(c, v, f) ==
    CASE f.type = "output" -> discardRendererFreeOutput(c, v, f)
      [] f.type = "closed" ->
            Outcome(IF f.gen # c.gen \/ c.phase = "FINALIZED" THEN c
                    ELSE [c EXCEPT !.phase = "FINALIZED", !.closed = f.tail,
                                   !.applied = f.tail, !.recv = f.tail], v)
      [] f.type \notin {"output", "closed"} -> Outcome(c, v)

\* The parser of an attachment that is being reset takes no more writes, and an
\* effect that nobody takes stops the runtime like a frame that nobody owns.
dispatchFrameReduction(o) ==
    [o EXCEPT !.owned = @ /\ (o.view.att = "resetting" => o.view.wr = "idle")]

handlePublicFrame(c, v, f) ==
    IF v.att \in {"open", "resetting"} THEN dispatchFrameReduction(reduce(c, v, f))
    ELSE IF v.att = "suspended" THEN handleRendererFreeFrame(c, v, f)
    ELSE handleDetached(c, v, f)

\* The attachment is fenced with its route: an effect that was still to be executed
\* fails, and the handle is reopened on the next route unless it was retired.
Disconnected(c, v) ==
    Outcome(IF c.hand # "none" THEN markResetRequired(c) ELSE c,
            [v EXCEPT !.att = IF @ \in {"open", "idle"} THEN "idle" ELSE "gone",
                      !.wr = "idle"])

Unparsed(c) == c.out # <<>> \/ c.hand # "none" \/ c.clearing

\* Mutant: writes the renderer may have had already are kept for a resume.
claimResumable_keepsUnparsed(c, fresh, id, req) ==
    LET verified == IF c.phase # "RESET_REQUIRED" /\ fresh THEN markResetRequired(c) ELSE c
        pend == [NoPend EXCEPT !.id = id, !.req = req, !.gen = c.gen]
    IN [verified EXCEPT !.pend =
            IF verified.phase # "RESET_REQUIRED"
            THEN [pend EXCEPT !.mode = "resume", !.from = c.applied]
            ELSE IF verified.pend.mode = "reset" THEN [verified.pend EXCEPT !.req = req, !.retry = TRUE]
                 ELSE [pend EXCEPT !.mode = "reset"]]

\* The open a claim issues under a request and, if it needs one, a new open id.
claimResumable(c, fresh, id, req) ==
    LET settled == IF c.phase # "RESET_REQUIRED" /\ Unparsed(c) THEN markResetRequired(c) ELSE c
        verified == IF settled.phase # "RESET_REQUIRED" /\ fresh THEN markResetRequired(settled) ELSE settled
        pend == [NoPend EXCEPT !.id = id, !.req = req, !.gen = c.gen]
    IN [verified EXCEPT !.pend =
            IF verified.phase # "RESET_REQUIRED"
            THEN [pend EXCEPT !.mode = "resume", !.from = c.applied]
            ELSE IF verified.pend.mode = "reset" THEN [verified.pend EXCEPT !.req = req, !.retry = TRUE]
                 ELSE [pend EXCEPT !.mode = "reset"]]

-----------------------------------------------------------------------------
(* The steps of the host.                                                  *)

NoFaults == [drops |-> 0, restarts |-> 0, losses |-> 0, views |-> 0,
             expiries |-> 0, refusals |-> 0]

\* A client that left its terminal while it was live: the host keeps the stream.
Init ==
    /\ host = [row |-> [st |-> "live", gen |-> 1], lost |-> {},
               rec |-> [id \in OpenIds |-> NoRecord], refused |-> {},
               s |-> [newStream(1) EXCEPT !.st = "detached"], gens |-> 1, out |-> <<>>]
    /\ up = [r \in Routes |-> <<>>] /\ down = <<>> /\ route = 0
    /\ cp = [newGenerationCheckpoint(1, 0) EXCEPT !.phase = "LIVE", !.clearing = FALSE]
    /\ view = [att |-> "idle", wr |-> "idle", screen |-> <<>>]
    /\ failed = FALSE /\ spent = NoFaults

\* The host's new state, and the frames that reach the client's connection.
HostDoes(h) ==
    LET mine == SelectSeq(h.out, LAMBDA e : e.route = route)
    IN /\ host' = [h EXCEPT !.out = <<>>]
       /\ down' = down \o [i \in DOMAIN mine |-> mine[i].frame]

\* The client's side of a step.
ClientIs(o) == cp' = o.cp /\ view' = o.view

\* The client loses its connection: what it sent arrives in part, and then the host
\* learns of it.
Hangup(h) ==
    /\ route' = 0 /\ down' = <<>> /\ host' = [h EXCEPT !.out = <<>>]
    /\ \E n \in 0..Len(up[route]) :
        up' = [up EXCEPT ![route] = SubSeq(@, 1, n) \o <<Ask("unbind")>>]

ReceiveOpen(r) ==
    /\ up[r] # <<>> /\ Head(up[r]).type = "open"
    /\ LET q == Head(up[r])
       IN \E outcome \in {"ok", "full", "failed", "late", "busy"} :
            /\ q.mode = "reset" /\ host.rec[q.id].kind = "none" => host.gens < MaxGens
            /\ outcome # "ok" =>
                /\ spent.refusals < MaxRefusals
                /\ q.mode = "reset" \/ outcome = "full"
                /\ host.rec[q.id].kind = "none"
            /\ spent' = [spent EXCEPT !.refusals = @ + IF outcome = "ok" THEN 0 ELSE 1]
            /\ HostDoes(openInternal(host, r, q, outcome))
    /\ up' = [up EXCEPT ![r] = Tail(@)]
    /\ UNCHANGED <<route, cp, view, failed>>

ReceiveAck(r) ==
    /\ up[r] # <<>> /\ Head(up[r]).type = "ack"
    /\ ~ackRefused(host, r, Head(up[r]))
    /\ HostDoes(outputAckInternal(host, Head(up[r])))
    /\ up' = [up EXCEPT ![r] = Tail(@)]
    /\ UNCHANGED <<route, cp, view, failed, spent>>

\* The whole route ends with an acknowledgement that came too late for its stream.
CloseRoute(r) ==
    /\ up[r] # <<>> /\ Head(up[r]).type = "ack"
    /\ ackRefused(host, r, Head(up[r]))
    /\ host' = unbind(host, r)
    /\ up' = [up EXCEPT ![r] = <<>>]
    /\ IF r = route
       THEN route' = 0 /\ down' = <<>> /\ ClientIs(Disconnected(cp, view))
       ELSE UNCHANGED <<route, down, cp, view>>
    /\ UNCHANGED <<failed, spent>>

ReceiveUnbind(r) ==
    /\ up[r] # <<>> /\ Head(up[r]).type = "unbind"
    /\ host' = unbind(host, r)
    /\ up' = [up EXCEPT ![r] = Tail(@)]
    /\ UNCHANGED <<down, route, cp, view, failed, spent>>

\* A byte for a bound client that would push out one it has not acknowledged ends
\* the stream instead.
appendOutput(h) ==
    LET start == Most(h.s.start, h.s.tail + 1 - RingBytes)
    IN IF h.s.bind.route # 0 /\ start > h.s.bind.acked THEN loseStream(h, TRUE)
       ELSE pump([h EXCEPT !.s.tail = @ + 1, !.s.start = start, !.s.retained = TRUE])

BackendOutput ==
    /\ host.s.st \in {"live", "detached"} /\ host.s.tail < MaxBytes
    /\ HostDoes(appendOutput(host))
    /\ UNCHANGED <<up, route, cp, view, failed, spent>>

\* The program of the terminal ends; a stream the lineage no longer names is evicted.
backendClosed(h) ==
    IF h.row.st = "absent" \/ h.row.gen # h.s.gen
    THEN [loseStream(h, FALSE) EXCEPT !.s = NoStream]
    ELSE pump([h EXCEPT !.row.st = "closed", !.s.st = "closed"])

BackendExit ==
    /\ host.s.st \in {"live", "detached"}
    /\ HostDoes(backendClosed(host))
    /\ UNCHANGED <<up, route, cp, view, failed, spent>>

\* The backend lost output, or a ring of the host had to make room.
BackendLoss ==
    /\ spent.losses < MaxLosses
    /\ \/ /\ host.s.st \in {"live", "detached"}
          /\ HostDoes(loseStream(host, TRUE))
       \/ /\ host.s.st \in {"closed", "detached"} /\ host.s.start < host.s.tail
          /\ HostDoes([host EXCEPT !.s = removeRing(@, host.s.st = "detached")])
    /\ spent' = [spent EXCEPT !.losses = @ + 1]
    /\ UNCHANGED <<up, route, cp, view, failed>>

\* A record answers for its generation as long as that lives.
heldByLiveGeneration(id) ==
    host.rec[id].kind = "opened" /\ host.row.st = "live" /\ host.row.gen = host.rec[id].gen

\* The streams and rows whose time has come.
Sweep ==
    /\ spent.expiries < MaxExpiries
    /\ \/ /\ host.s.st = "detached"
          /\ host' = [host EXCEPT !.s = [removeRing(@, FALSE) EXCEPT !.st = "lost"]]
       \/ /\ host.s.st = "closed" /\ host.s.retained
          /\ host' = [host EXCEPT !.s = removeRing(@, FALSE)]
       \/ \E id \in OpenIds :
            /\ host.rec[id].kind # "none" /\ ~heldByLiveGeneration(id)
            /\ host' = [host EXCEPT !.rec[id] = NoRecord, !.refused = @ \ {id}]
       \/ /\ host.s.st \in {"closed", "lost"}
          /\ \A id \in OpenIds : host.rec[id].kind = "none"
          /\ host' = [host EXCEPT !.s = NoStream,
                        !.row = IF @.gen = host.s.gen THEN AbsentRow ELSE @]
       \/ \E g \in host.lost : host' = [host EXCEPT !.lost = @ \ {g}]
    /\ spent' = [spent EXCEPT !.expiries = @ + 1]
    /\ UNCHANGED <<up, down, route, cp, view, failed>>

\* The host starts again: no stream survives, the generation the row named is lost,
\* and an open that was being claimed is settled as one.
replaceOwner(h, unsettled) ==
    [h EXCEPT !.s = NoStream, !.row = AbsentRow, !.refused = {},
              !.lost = IF h.row.st = "absent" THEN @ ELSE @ \cup {h.row.gen},
              !.rec = [id \in OpenIds |-> IF id \in unsettled THEN ResetRecord ELSE @[id]]]

Claimable ==
    {q \in {Head(up[r]) : r \in {x \in Routes : up[x] # <<>>}} :
        q.type = "open" /\ host.rec[q.id].kind = "none" /\ ~resetConflicts(host, q)}

HostRestart ==
    /\ spent.restarts < MaxRestarts
    /\ \E unsettled \in {{}} \cup {{q.id} : q \in Claimable} :
        host' = replaceOwner(host, unsettled)
    /\ up' = [r \in Routes |-> <<>>] /\ down' = <<>> /\ route' = 0
    /\ ClientIs(Disconnected(cp, view))
    /\ spent' = [spent EXCEPT !.restarts = @ + 1]
    /\ UNCHANGED failed

-----------------------------------------------------------------------------
(* The steps of the client.                                                *)

Connect ==
    /\ route = 0 /\ ~failed
    /\ LET free == {r \in Routes : up[r] = <<>> /\ host.s.bind.route # r}
       IN free # {} /\ route' = First(free)
    /\ UNCHANGED <<host, up, down, cp, view, failed, spent>>

Disconnect ==
    /\ route # 0 /\ spent.drops < MaxDrops
    /\ Hangup(host) /\ ClientIs(Disconnected(cp, view))
    /\ spent' = [spent EXCEPT !.drops = @ + 1]
    /\ UNCHANGED failed

\* The requests and open ids that a frame under way or the checkpoint still names.
UsedRequests ==
    {cp.pend.req} \cup {down[i].req : i \in DOMAIN down}
        \cup UNION {{up[r][i].req : i \in DOMAIN up[r]} : r \in Routes}
UsedIds ==
    {cp.pend.id} \cup {down[i].id : i \in DOMAIN down}
        \cup UNION {{up[r][i].id : i \in DOMAIN up[r]} : r \in Routes}
        \cup {id \in OpenIds : host.rec[id].kind # "none"}

\* A view opens the terminal: with the handle it had, if the connection was all it
\* lost, or with a new one.
Attach ==
    /\ route # 0 /\ ~failed /\ view.att \in {"gone", "idle", "suspended"}
    /\ cp.phase # "FINALIZED"
    /\ Requests \ UsedRequests # {}
    /\ LET retries == cp.phase = "RESET_REQUIRED" /\ cp.pend.mode = "reset"
           ids == OpenIds \ UsedIds
           fresh == view.att # "idle"
           claimed == claimResumable(cp, fresh, IF retries THEN 0 ELSE First(ids),
                                     First(Requests \ UsedRequests))
           stale == cp.phase # "RESET_REQUIRED" /\ ~Unparsed(cp) /\ cp.pend # NoPend
       IN /\ stale \/ retries \/ ids # {}
          /\ IF stale
             THEN /\ ClientIs(ResetOutcome(cp, view))
                  /\ UNCHANGED up
             ELSE /\ cp' = claimed
                  /\ view' = [view EXCEPT !.att = "open"]
                  /\ up' = [up EXCEPT ![route] = Append(@,
                        [Ask("open") EXCEPT !.id = claimed.pend.id, !.req = claimed.pend.req,
                            !.mode = claimed.pend.mode, !.gen = claimed.pend.gen,
                            !.from = claimed.pend.from])]
    /\ UNCHANGED <<host, down, route, failed, spent>>

\* The view that was told to reset goes away; another will attach.
Detach ==
    /\ view.att = "resetting"
    /\ view' = [view EXCEPT !.att = "gone", !.screen = <<>>]
    /\ UNCHANGED <<host, up, down, route, cp, failed, spent>>

applyPostHandshakeFrame ==
    /\ route # 0 /\ down # <<>>
    /\ LET o == handlePublicFrame(cp, view, Head(down))
       IN IF o.owned
          THEN /\ ClientIs(o)
               /\ down' = Tail(down)
               /\ up' = [up EXCEPT ![route] = @ \o o.send]
               /\ UNCHANGED <<host, route, failed>>
          ELSE /\ ClientIs(Disconnected(o.cp, o.view))
               /\ Hangup(host) /\ failed' = TRUE
    /\ UNCHANGED spent

\* The renderer puts the head of the queue on the screen, or clears it.
Render ==
    /\ view.wr \in {"write", "clear"}
    /\ view' = IF view.wr = "write"
               THEN [view EXCEPT !.wr = "written", !.screen = @ \o Head(cp.out).data]
               ELSE [view EXCEPT !.wr = "cleared", !.screen = <<>>]
    /\ UNCHANGED <<host, up, down, route, cp, failed, spent>>

parserApplied(c, v) ==
    LET next == Head(c.out).to
        parsed == [c EXCEPT !.applied = next, !.out = Tail(@), !.hand = "ack",
                     !.phase = IF c.phase = "REPLAYING" /\ next = c.target
                               THEN IF c.closed = NoOffset THEN "LIVE" ELSE "CLOSED_WAITING_PARSER"
                               ELSE @,
                     !.target = IF next = @ THEN NoOffset ELSE @]
    IN IF c.phase = "REPLAYING" /\ next > c.target THEN ResetOutcome(c, v)
       ELSE Recovered(parsed, [v EXCEPT !.wr = "idle"])

parserResetApplied(c, v) ==
    LET cleared == [c EXCEPT !.clearing = FALSE,
                      !.phase = IF @ # "RESETTING_PARSER" THEN @
                                ELSE IF c.closed = NoOffset THEN "LIVE" ELSE "CLOSED_WAITING_PARSER"]
        r == recoverClosed(cleared)
        effects == r.phase # cleared.phase \/ cleared.out # <<>>
    IN Recovered([cleared EXCEPT !.hand = IF effects THEN "write" ELSE "none"],
                 [v EXCEPT !.wr = "idle"])

ParserCallback ==
    /\ view.wr \in {"written", "cleared"}
    /\ ClientIs(IF view.wr = "written" THEN parserApplied(cp, view)
                ELSE parserResetApplied(cp, view))
    /\ UNCHANGED <<host, up, down, route, failed, spent>>

\* The effects of a callback are executed: the acknowledgement leaves, and the next
\* write goes to the renderer.
parserEffectsActivated ==
    /\ cp.hand # "none" /\ route # 0 /\ view.att = "open"
    /\ LET done == [cp EXCEPT !.hand = "none"]
       IN /\ cp' = done
          /\ view' = Dispatched(done, view)
          /\ up' = [up EXCEPT ![route] = @ \o IF cp.hand = "ack" THEN ackOf(cp) ELSE <<>>]
    /\ UNCHANGED <<host, down, route, failed, spent>>

parserFailed ==
    /\ view.wr # "idle" /\ spent.views < MaxViews
    /\ ClientIs(ResetOutcome(cp, view))
    /\ spent' = [spent EXCEPT !.views = @ + 1]
    /\ UNCHANGED <<host, up, down, route, failed>>

\* A renderer that crashed is detached, and the checkpoint is left as it is.
RendererCrash ==
    /\ view.att = "open" /\ cp.hand = "none" /\ spent.views < MaxViews
    /\ view' = [att |-> "gone", wr |-> "idle", screen |-> <<>>]
    /\ spent' = [spent EXCEPT !.views = @ + 1]
    /\ UNCHANGED <<host, up, down, route, cp, failed>>

Next ==
    \/ \E r \in Routes :
        ReceiveOpen(r) \/ ReceiveAck(r) \/ CloseRoute(r) \/ ReceiveUnbind(r)
    \/ BackendOutput \/ BackendExit \/ BackendLoss \/ Sweep \/ HostRestart
    \/ Connect \/ Disconnect \/ Attach \/ Detach \/ applyPostHandshakeFrame
    \/ Render \/ ParserCallback \/ parserEffectsActivated \/ parserFailed
    \/ RendererCrash

Spec == Init /\ [][Next]_vars

-----------------------------------------------------------------------------
(* Properties.                                                             *)

Phases ==
    {"LIVE", "REPLAYING", "RESETTING_PARSER", "RESET_REQUIRED", "REPLAY_REQUESTED",
     "CLOSED_WAITING_PARSER", "FINALIZED"}
Gens == 0..MaxGens
Offsets == 0..MaxBytes

TypeOK ==
    /\ host.row \in [st : {"absent", "live", "closed"}, gen : Gens]
    /\ host.lost \subseteq Gens /\ host.refused \subseteq OpenIds /\ host.gens \in Gens
    /\ host.rec \in [OpenIds -> [kind : {"none", "opened", "reset", "error"}, gen : Gens, from : Offsets]]
    /\ host.s.st \in {"none", "live", "detached", "closed", "lost"}
    /\ {host.s.start, host.s.tail, host.s.bind.acked, host.s.bind.sent} \subseteq Offsets
    /\ host.s.bind.route \in {0} \cup Routes /\ host.out = <<>>
    /\ DOMAIN up = Routes /\ route \in {0} \cup Routes
    /\ cp.phase \in Phases /\ cp.gen \in Gens /\ {cp.applied, cp.recv} \subseteq Offsets
    /\ {cp.target, cp.closed} \subseteq Offsets \cup {NoOffset}
    /\ cp.hand \in {"none", "ack", "write"} /\ cp.clearing \in BOOLEAN
    /\ view.att \in {"open", "idle", "resetting", "gone", "suspended"}
    /\ view.wr \in {"idle", "write", "written", "clear", "cleared"}
    /\ failed \in BOOLEAN

\* The client shows all there is of a terminal whose program runs, and a terminal
\* that was lost is replaced, unless its program had ended before.
Shown ==
    \/ host.row.st = "closed"
    \/ host.row.st = "absent" /\ cp.phase = "FINALIZED"
    \/ /\ host.row.st = "live" /\ view.att = "open" /\ cp.gen = host.row.gen
       /\ view.screen = [i \in 1..host.s.tail |-> <<host.row.gen, i>>]

\* The host repeats the refusal of an open it has settled: it refused it before, or the
\* stream that was opened is gone.
Repeats(id) ==
    \/ host.rec[id].kind \in {"reset", "error"}
    \/ host.rec[id].kind = "opened" /\ host.rec[id].gen # host.s.gen

\* The cases in which it cannot: the durable row names a stream the host has dropped,
\* which refuses every reset; and the host repeats the refusal of the reset the client
\* repeats, as long as it has the record.
Denied ==
    \/ host.row.st = "live" /\ host.s.st = "none"
    \/ cp.pend.mode = "reset" /\ Repeats(cp.pend.id)

\* The first n bytes of a generation.
Bytes(gen, n) == [i \in 1..n |-> <<gen, i>>]

(* While no reset is due the screen shows exactly the bytes the checkpoint *)
(* says are parsed, and at most the write that is under way besides: no    *)
(* reconnect, replay, duplicate open or ring overrun puts a byte there     *)
(* twice, leaves one out or mixes generations (output, parserApplied,      *)
(* claimResumable).                                                        *)
ScreenIsTheStream ==
    /\ view.att \in {"open", "idle"} /\ ~cp.clearing
    /\ cp.phase # "RESET_REQUIRED"
    => \E n \in {cp.applied} \cup (IF cp.out = <<>> THEN {} ELSE {Head(cp.out).to}) :
            view.screen = Bytes(cp.gen, n)

(* A terminal is declared ended on the screen only when every byte its     *)
(* program wrote is there (recoverClosed, closed).                         *)
EndedIsComplete ==
    view.att = "open" /\ cp.phase = "FINALIZED" => view.screen = Bytes(cp.gen, cp.closed)

(* A bound client is sent what its credit allows: bytes are held back only *)
(* when that many are unacknowledged, the ring still has every byte it has *)
(* not acknowledged, and the end is announced once all are sent (pump,     *)
(* appendOutput).                                                          *)
BoundIsServed ==
    LET s == host.s
        b == s.bind
    IN b.route # 0 =>
        /\ s.st \in {"live", "closed"}
        /\ b.acked <= b.sent /\ b.sent <= s.tail /\ b.sent - b.acked <= MaxUnacked
        /\ s.st = "live" => s.retained /\ s.start <= b.acked
        /\ b.sent < s.tail => b.sent - b.acked = MaxUnacked
        /\ s.st = "closed" /\ b.sent = s.tail => b.notified

(* The client never finds a hole in what it receives, so that it never has *)
(* to ask for a replay (requestReplay).                                    *)
NoGap == cp.phase # "REPLAY_REQUESTED"

(* A terminal frame never stops the client's whole runtime                 *)
(* (applyPostHandshakeFrame).                                              *)
NeverUnowned == ~failed

=============================================================================
