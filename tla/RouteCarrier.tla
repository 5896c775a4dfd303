----------------------------- MODULE RouteCarrier -----------------------------
(***************************************************************************)
(* The routes of one host carrier, end to end: the broker's route table    *)
(* and queues (brokerCore.ts), its socket pump for a host                  *)
(* (brokerHostWssRuntimeComposition.ts), the two directions of the socket, *)
(* and the route table of the host (hostCarrier.ts).  A client opens a     *)
(* route, both ends send on it, and either end closes it while frames of   *)
(* the other are still under way.  Every frame counts one unit of the      *)
(* carrier's budget; data for a client has a size.  Authorization, the     *)
(* contents of frames and the request ids of answers are left out.         *)
(***************************************************************************)
EXTENDS Integers, FiniteSets, Sequences, SequencesExt

CONSTANTS
    Route,          \* route ids, each used once
    Sizes,          \* sizes of the frames for a client
    FromClient,     \* bound: frames a client sends on a route
    FromHost,       \* bound: frames the host sends on a route
    RouteLimit,     \* routeBufferedBytesPerDirection, maxQueuedRouteFrames
    RouteLow,       \* routeLowWater...PerDirection
    CarrierLimit,   \* carrierBufferedBytes
    CarrierLow,     \* carrierLowWaterBytes
    Reserve,        \* CARRIER_CONTROL_RESERVE_BYTES
    IngressLimit,   \* MAX_ROUTE_FRAMES
    SocketLimit,    \* frames the socket buffers in each direction
    HostControl,    \* maxQueuedControlFrames
    Asks,           \* bound: directory requests of a client on a route
    HostCloses,     \* TRUE: the host closes routes (closeRoute, slow consumer)
    Loses           \* TRUE: the connection may be lost

RouteCarrierAssumption ==
    /\ Sizes \subseteq Nat \ {0} /\ HostCloses \in BOOLEAN /\ Loses \in BOOLEAN
    /\ {FromClient, FromHost, RouteLimit, RouteLow, CarrierLimit, CarrierLow,
        Reserve, IngressLimit, SocketLimit, HostControl, Asks} \subseteq Nat

VARIABLES
    broker,     \* the broker's carrier, its routes and their clients
    outbound,   \* HostWssConnection.outbound: the write under way
    toHost,     \* the socket, broker to host
    toBroker,   \* the socket, host to broker
    ingress,    \* HostWssConnection.ingressEntries
    blocked,    \* HostWssConnection.blockedRoutes
    host,       \* the host's routes and its outbound queues
    closed,     \* why the carrier was closed, or "open"
    seen        \* history: what each client's socket was handed

vars == <<broker, outbound, toHost, toBroker, ingress, blocked, host, closed, seen>>

-----------------------------------------------------------------------------
(* State.  A welcome is a frame of seq 0: it is charged to its route but   *)
(* not to the carrier (carrierAccounted).  An answer of the broker itself  *)
(* has no number of the host's (OwnAnswer).  refused is a history: the     *)
(* host's frames the broker had no room for; so is dropped: the routes of  *)
(* which the host lost a control frame at its full queue.                  *)
RouteState ==
    [status |-> "none", first |-> "pending", next |-> 1, dispatched |-> 0, expected |-> 1,
     c2h |-> 0, h2c |-> 0, clientPaused |-> FALSE, hostPaused |-> FALSE,
     queue |-> <<>>, inFlight |-> <<>>, data |-> <<>>, asked |-> 0, refused |-> 0]

CarrierState ==
    [route |-> [r \in Route |-> RouteState], control |-> <<>>,
     queued |-> 0, inFlight |-> 0, h2c |-> 0]

HostRoute == [phase |-> "none", c2h |-> 0, emitted |-> 0, queue |-> <<>>]

HostState ==
    [route |-> [r \in Route |-> HostRoute], control |-> <<>>, pressed |-> FALSE, dropped |-> {}]

NoSend == [type |-> "none"]

Live(b, r) == b.route[r].status \in {"opening", "opened", "closing"}

Size(frames) == FoldLeft(LAMBDA n, f : n + f.size, 0, frames)

Accounted(frames) == Size(SelectSeq(frames, LAMBDA f : f.seq # 0))

Max0(n) == IF n < 0 THEN 0 ELSE n

carrierBufferedBytes(b) == b.queued + b.inFlight + b.h2c

-----------------------------------------------------------------------------
(* The broker's helpers, as functions of its state.                        *)
enqueueCarrierControl(b, f) ==
    [b EXCEPT !.control = Append(@, f), !.queued = @ + 1]

ControlFits(b) == carrierBufferedBytes(b) + 1 <= CarrierLimit

DataFits(b, r) ==
    /\ b.route[r].c2h + 1 <= RouteLimit
    /\ carrierBufferedBytes(b) + 1 <= CarrierLimit - Reserve

AnswerFits(b, r, n) ==
    /\ b.route[r].h2c + n <= RouteLimit
    /\ carrierBufferedBytes(b) + n <= CarrierLimit - Reserve

enqueueCarrierData(b, r) ==
    [b EXCEPT !.route[r].data = Append(@, b.route[r].next), !.queued = @ + 1,
              !.route[r].c2h = @ + 1, !.route[r].next = @ + 1]

discardQueuedRouteData(b, r) ==
    LET n == Len(b.route[r].data)
    IN [b EXCEPT !.route[r].data = <<>>, !.queued = @ - n, !.route[r].c2h = @ - n]

discardQueuedRouteControl(b, r) ==
    LET kept == SelectSeq(b.control, LAMBDA f : f.route # r)
    IN [b EXCEPT !.control = kept, !.queued = @ - (Len(b.control) - Len(kept))]

\* Mutant: the carrier's share is not given back.
releaseHostToClientBytes_routeOnly(b, r, frames) ==
    [b EXCEPT !.route[r].h2c = Max0(@ - Size(frames))]

releaseHostToClientBytes(b, r, frames) ==
    [b EXCEPT !.route[r].h2c = Max0(@ - Size(frames)),
              !.h2c = Max0(@ - Accounted(frames))]

discardQueuedClientData(b, r) ==
    [releaseHostToClientBytes(b, r, b.route[r].queue) EXCEPT !.route[r].queue = <<>>]

dropRoute(b, r) ==
    LET freed == releaseHostToClientBytes(
                     discardQueuedRouteControl(discardQueuedRouteData(b, r), r),
                     r, b.route[r].queue \o b.route[r].inFlight)
    IN IF ~Live(b, r) THEN b
       ELSE [freed EXCEPT !.route[r].queue = <<>>, !.route[r].inFlight = <<>>,
                          !.route[r].status = "closed"]

clientToHostAtHighWater(b, r) ==
    \/ b.route[r].c2h >= RouteLimit
    \/ carrierBufferedBytes(b) >= CarrierLimit - Reserve

hostToClientAtHighWater(b, r) ==
    \/ b.route[r].h2c >= RouteLimit
    \/ carrierBufferedBytes(b) >= CarrierLimit - Reserve

maybeResume(b, r) ==
    LET below(n) == n < RouteLow /\ carrierBufferedBytes(b) < CarrierLow
        opened == b.route[r].status = "opened"
    IN [b EXCEPT !.route[r].clientPaused = @ /\ ~(opened /\ below(b.route[r].c2h)),
                 !.route[r].hostPaused = @ /\ ~(opened /\ below(b.route[r].h2c))]

collectCarrierResumes(b) ==
    FoldLeft(maybeResume, b, SetToSeq({r \in Route : Live(b, r)}))

UnbindFrame(b, r) ==
    [type |-> "route.unbind", route |-> r, seq |-> b.route[r].dispatched]

\* Mutant: an opening route that is unbound still waits for its answer.
Fenced_pending(b, r) ==
    [discardQueuedClientData(discardQueuedRouteData(b, r), r) EXCEPT
        !.route[r].clientPaused = FALSE, !.route[r].status = "closing"]

(* The unbind: what is queued is dropped, a client that waits for its      *)
(* welcome will not get one.                                               *)
Fenced(b, r) ==
    [discardQueuedClientData(discardQueuedRouteData(b, r), r) EXCEPT
        !.route[r].clientPaused = FALSE, !.route[r].status = "closing",
        !.route[r].first = IF b.route[r].status = "opening" THEN "unavailable" ELSE @]

beginRouteUnbind(b, r) ==
    CASE b.route[r].status \notin {"opening", "opened"} -> b
      [] ControlFits(Fenced(b, r)) ->
            enqueueCarrierControl(Fenced(b, r), UnbindFrame(b, r))
      [] OTHER -> Fenced(b, r)

UnbindRefused(b, r) ==
    b.route[r].status \in {"opening", "opened"} /\ ~ControlFits(Fenced(b, r))

invalidateConnectorRoutes(b) ==
    FoldLeft(dropRoute, b, SetToSeq({r \in Route : Live(b, r)}))

discardCarrier(b) ==
    [invalidateConnectorRoutes(b) EXCEPT !.control = <<>>, !.queued = 0, !.inFlight = 0, !.h2c = 0]

-----------------------------------------------------------------------------
(* The end of the carrier: a protocol violation, a lost connection or a    *)
(* decision of the host.  Its routes end with it.                          *)
CloseCarrier(b, reason) ==
    /\ broker' = discardCarrier(b) /\ closed' = reason
    /\ outbound' = NoSend /\ ingress' = <<>> /\ blocked' = {}
    /\ toHost' = <<>> /\ toBroker' = <<>> /\ host' = HostState
    /\ UNCHANGED seen

protocolViolation(reason) == CloseCarrier(broker, reason)

(* Actions of the pump on what a broker call returns.                      *)
Paused(b) == {r \in Route : b.route[r].hostPaused}

(* pause_host_route and resume_host_route reach the pump as the broker     *)
(* changes its mind; a route that is closing is not resumed.               *)
Settle(b) ==
    /\ broker' = b
    /\ blocked' = (blocked \cup Paused(b))
                      \ {r \in Route : broker.route[r].hostPaused /\ ~b.route[r].hostPaused}

-----------------------------------------------------------------------------
(* Clients.                                                                *)
openClientRoute(r) ==
    /\ closed = "open" /\ broker.route[r].status = "none"
    /\ carrierBufferedBytes(broker) < CarrierLimit - Reserve /\ ControlFits(broker)
    /\ broker' = enqueueCarrierControl([broker EXCEPT !.route[r].status = "opening"],
                     [type |-> "route.open", route |-> r, seq |-> 0])
    /\ UNCHANGED <<outbound, toHost, toBroker, ingress, blocked, host, closed, seen>>

(* A frame of a client is queued for the host, or refused and the client   *)
(* paused.                                                                 *)
forwardClientFrame(r) ==
    /\ closed = "open" /\ broker.route[r].status = "opened"
    /\ ~broker.route[r].clientPaused /\ broker.route[r].next <= FromClient
    /\ broker' = IF DataFits(broker, r)
                 THEN LET b == enqueueCarrierData(broker, r)
                      IN [b EXCEPT !.route[r].clientPaused = clientToHostAtHighWater(b, r)]
                 ELSE [broker EXCEPT !.route[r].clientPaused = TRUE]
    /\ UNCHANGED <<outbound, toHost, toBroker, ingress, blocked, host, closed, seen>>

Unbind(r) ==
    IF UnbindRefused(broker, r)
    THEN CloseCarrier(beginRouteUnbind(broker, r), "carrier_control_backpressure")
    ELSE /\ broker' = beginRouteUnbind(broker, r)
         /\ UNCHANGED <<outbound, toHost, toBroker, ingress, blocked, host, closed, seen>>

(* A request for the directory of hosts never reaches the host: the broker *)
(* answers it on the client's queue, or ends the route if that is full.    *)
OwnAnswer == [seq |-> -1, size |-> 1]

answerDirectory(r) ==
    /\ closed = "open" /\ broker.route[r].status = "opened"
    /\ ~broker.route[r].clientPaused /\ broker.route[r].asked < Asks
    /\ IF AnswerFits(broker, r, OwnAnswer.size)
       THEN /\ broker' = [broker EXCEPT !.route[r].h2c = @ + OwnAnswer.size, !.h2c = @ + OwnAnswer.size,
                                        !.route[r].queue = Append(@, OwnAnswer),
                                        !.route[r].asked = @ + 1]
            /\ UNCHANGED <<outbound, toHost, toBroker, ingress, blocked, host, closed, seen>>
       ELSE Unbind(r)

unbindClient(r) ==
    /\ closed = "open" /\ broker.route[r].status \in {"opening", "opened"} /\ Unbind(r)

drainClient(r) ==
    /\ closed = "open" /\ broker.route[r].status = "opened" /\ broker.route[r].queue # <<>>
    /\ LET f == Head(broker.route[r].queue)
       IN /\ broker' = [broker EXCEPT !.route[r].queue = Tail(@),
                                      !.route[r].inFlight = Append(@, f)]
          /\ seen' = [seen EXCEPT ![r] = Append(@, f.seq)]
    /\ UNCHANGED <<outbound, toHost, toBroker, ingress, blocked, host, closed>>

acknowledgeClientDelivery(r) ==
    /\ closed = "open" /\ Live(broker, r) /\ broker.route[r].inFlight # <<>>
    /\ LET f == Head(broker.route[r].inFlight)
           b == [releaseHostToClientBytes(broker, r, <<f>>) EXCEPT
                    !.route[r].inFlight = Tail(@)]
       IN Settle(collectCarrierResumes(b))
    /\ UNCHANGED <<outbound, toHost, toBroker, ingress, host, closed, seen>>

-----------------------------------------------------------------------------
(* The broker's pump for the host: one write at a time, control first.     *)
Deliver(b, f) == [b EXCEPT !.queued = @ - 1, !.inFlight = @ + 1]

drainHostCarrier ==
    /\ closed = "open" /\ outbound = NoSend /\ Len(toHost) < SocketLimit
    /\ \/ /\ broker.control # <<>>
          /\ outbound' = Head(broker.control)
          /\ broker' = [Deliver(broker, outbound') EXCEPT !.control = Tail(@)]
       \/ \E r \in Route :
            /\ broker.control = <<>> /\ broker.route[r].data # <<>>
            /\ outbound' = [type |-> "route.data", route |-> r, seq |-> Head(broker.route[r].data)]
            /\ broker' = [Deliver(broker, outbound') EXCEPT
                              !.route[r].data = Tail(@), !.route[r].dispatched = outbound'.seq]
    /\ toHost' = Append(toHost, outbound')
    /\ UNCHANGED <<toBroker, ingress, blocked, host, closed, seen>>

acknowledgeHostDelivery ==
    /\ closed = "open" /\ outbound # NoSend /\ outbound' = NoSend
    /\ LET r == outbound.route
           freed == [broker EXCEPT !.inFlight = @ - 1]
           b == IF outbound.type = "route.data" THEN [freed EXCEPT !.route[r].c2h = @ - 1] ELSE freed
       IN Settle(collectCarrierResumes(b))
    /\ UNCHANGED <<toHost, toBroker, ingress, host, closed, seen>>

acceptFrame ==
    /\ closed = "open" /\ toBroker # <<>>
    /\ LET f == Head(toBroker)
           held == SelectSeq(ingress, LAMBDA e : e.route = f.route /\ e.type = "route.data")
       IN IF f.type = "route.data" /\ Len(held) >= IngressLimit
          THEN CloseCarrier(broker, "host_ingress_saturated")
          ELSE /\ ingress' = Append(ingress, f) /\ toBroker' = Tail(toBroker)
               /\ UNCHANGED <<broker, outbound, toHost, blocked, host, closed, seen>>

(* selectIngress: control goes first, but never past its own route's data; *)
(* a paused route is passed over.                                          *)
Selectable(i) ==
    /\ \A j \in 1..(i - 1) : ingress[j].route # ingress[i].route
    /\ ingress[i].type = "route.data" => ingress[i].route \notin blocked

selectIngress(i) ==
    /\ Selectable(i)
    /\ \A j \in DOMAIN ingress :
          (Selectable(j) /\ ingress[j].type # "route.data")
              => (ingress[i].type # "route.data" /\ i <= j)

-----------------------------------------------------------------------------
(* What the broker does with a frame of the host.                          *)
Welcome == [seq |-> 0, size |-> 1]

routeOpened(f) ==
    LET route == broker.route[f.route]
        opened == [broker EXCEPT !.route[f.route].status = "opened",
                                 !.route[f.route].first = "welcome",
                                 !.route[f.route].h2c = 1,
                                 !.route[f.route].queue = <<Welcome>>]
    IN CASE route.status = "closing" /\ route.first = "unavailable" -> Settle(broker)
         [] route.status = "opening" /\ route.first = "pending" -> Settle(opened)
         [] OTHER -> FALSE

StaleOpened(f) ==
    LET route == broker.route[f.route]
    IN ~\/ route.status = "closing" /\ route.first = "unavailable"
        \/ route.status = "opening" /\ route.first = "pending"

routeRejected(f) == Settle(dropRoute(broker, f.route))

(* Data for a closing route is counted and dropped.  Data that does not    *)
(* fit is refused and its number stays expected.                           *)
routeDataFromHost(f) ==
    LET r == f.route
        next == [broker EXCEPT !.route[r].expected = @ + 1]
        taken == [next EXCEPT !.route[r].h2c = @ + f.size, !.h2c = @ + f.size,
                              !.route[r].queue = Append(@, [seq |-> f.seq, size |-> f.size])]
    IN CASE broker.route[r].status = "closing" -> Settle(next)
         [] ~AnswerFits(broker, r, f.size) ->
              Settle([broker EXCEPT !.route[r].hostPaused = TRUE, !.route[r].refused = @ + 1])
         [] OTHER -> Settle([taken EXCEPT !.route[r].hostPaused =
                                            @ \/ hostToClientAtHighWater(taken, r)])

routeUnbound(f) == Settle(dropRoute(broker, f.route))

WatermarksAgree(f) ==
    /\ f.last = broker.route[f.route].dispatched
    /\ f.seq = broker.route[f.route].expected - 1

routeClosedByHost(f) == Settle(beginRouteUnbind(broker, f.route))

(* The frames the broker does not forgive.                                 *)
Violation(f) ==
    LET route == broker.route[f.route]
    IN CASE f.type = "route.opened" /\ StaleOpened(f) -> "stale_route_opened"
         [] f.type = "route.rejected" /\ StaleOpened(f) -> "stale_route_rejected"
         [] f.type = "route.data" /\ route.status \notin {"opened", "closing"} -> "stale_route_data"
         [] f.type = "route.data" /\ f.seq # route.expected -> "non_contiguous_route_sequence"
         [] f.type = "route.unbound" /\ route.status # "closing" -> "stale_route_unbound"
         [] f.type = "route.unbound" /\ ~WatermarksAgree(f) -> "route_unbound_watermark_mismatch"
         [] f.type = "route.close" /\ route.status # "opened" -> "stale_route_close"
         [] f.type = "route.close" /\ UnbindRefused(broker, f.route) -> "carrier_control_backpressure"
         [] OTHER -> "none"

Handle(f) ==
    CASE f.type = "route.opened" -> routeOpened(f)
      [] f.type = "route.rejected" -> routeRejected(f)
      [] f.type = "route.data" -> routeDataFromHost(f)
      [] f.type = "route.unbound" -> routeUnbound(f)
      [] f.type = "route.close" -> routeClosedByHost(f)

receiveHostFrame ==
    /\ closed = "open"
    /\ \E i \in DOMAIN ingress :
          /\ selectIngress(i)
          /\ IF Violation(ingress[i]) # "none"
             THEN protocolViolation(Violation(ingress[i]))
             ELSE /\ Handle(ingress[i]) /\ ingress' = RemoveAt(ingress, i)
                  /\ UNCHANGED <<outbound, toHost, toBroker, host, closed, seen>>

-----------------------------------------------------------------------------
(* The host.                                                               *)
(* A control frame that finds the queue full is lost: no caller looks at   *)
(* what enqueueControl returns.                                            *)
enqueueControl(h, f) ==
    IF Len(h.control) >= HostControl
    THEN [h EXCEPT !.dropped = @ \cup {f.route}, !.pressed = TRUE]
    ELSE [h EXCEPT !.control = Append(@, f), !.pressed = @ \/ Len(h.control) + 1 = HostControl]

Reply(type, r) == [type |-> type, route |-> r, seq |-> 0, last |-> 0, size |-> 1]

handleRouteOpen(r) ==
    \/ host' = enqueueControl([host EXCEPT !.route[r].phase = "opening"], Reply("route.opened", r))
    \/ host' = enqueueControl([host EXCEPT !.route[r].phase = "gone"], Reply("route.rejected", r))

handleRouteData(r) == host' = [host EXCEPT !.route[r].c2h = @ + 1]

\* Mutant: the route's control is dropped after the answer was queued.
handleRouteUnbind_silent(r) ==
    host' = [host EXCEPT !.route[r].phase = "gone", !.route[r].queue = <<>>,
                         !.control = SelectSeq(@, LAMBDA f : f.route # r)]

(* The queues of the route are dropped; the answer says how far both       *)
(* directions went.                                                        *)
handleRouteUnbind(r) ==
    host' = enqueueControl(
                [host EXCEPT !.route[r].phase = "gone", !.route[r].queue = <<>>,
                             !.control = SelectSeq(@, LAMBDA f : f.route # r)],
                [type |-> "route.unbound", route |-> r, size |-> 1, last |-> host.route[r].c2h,
                 seq |-> host.route[r].emitted])

HostFailure(f) ==
    LET route == host.route[f.route]
    IN CASE f.type = "route.open" -> "none"
         [] route.phase \in {"none", "gone"} -> "stale_route_source"
         [] f.type = "route.data" /\ route.phase = "closing" -> "closed_route_source"
         [] f.type = "route.data" /\ route.phase = "opening" -> "route_opened_barrier_violation"
         [] f.type = "route.data" /\ f.seq # route.c2h + 1 -> "carrier_sequence_violation"
         [] f.type = "route.unbind" /\ f.seq # route.c2h -> "carrier_sequence_violation"
         [] OTHER -> "none"

hostReceive ==
    /\ closed = "open" /\ toHost # <<>>
    /\ LET f == Head(toHost)
       IN IF HostFailure(f) # "none"
          THEN CloseCarrier(broker, HostFailure(f))
          ELSE /\ CASE f.type = "route.open" -> handleRouteOpen(f.route)
                    [] f.type = "route.data" -> handleRouteData(f.route)
                    [] f.type = "route.unbind" -> handleRouteUnbind(f.route)
               /\ toHost' = Tail(toHost)
               /\ UNCHANGED <<broker, outbound, toBroker, ingress, blocked, closed, seen>>

enqueueData(r) ==
    /\ closed = "open" /\ host.route[r].phase = "open"
    /\ host.route[r].emitted + Len(host.route[r].queue) < FromHost
    /\ \E n \in Sizes : host' = [host EXCEPT !.route[r].queue = Append(@, n)]
    /\ UNCHANGED <<broker, outbound, toHost, toBroker, ingress, blocked, closed, seen>>

(* The open route to which most of what waits belongs, more than to no     *)
(* route.                                                                  *)
carrierPressureOwner(h) ==
    LET waits(r) == FoldLeft(LAMBDA n, size : n + size, 0, h.route[r].queue)
    IN {r \in Route : waits(r) > Len(h.control) /\ \A q \in Route : waits(r) >= waits(q)}

Failed(h, r) ==
    enqueueControl([h EXCEPT !.route[r].phase = "closing", !.route[r].queue = <<>>,
                             !.pressed = @ /\ r \notin carrierPressureOwner(h)],
                   Reply("route.close", r))

(* closeRoute, or an open route that stays above its limit for five        *)
(* seconds.                                                                *)
failRoute(r) ==
    /\ HostCloses /\ closed = "open" /\ host.route[r].phase \in {"opening", "open"}
    /\ host' = Failed(host, r)
    /\ UNCHANGED <<broker, outbound, toHost, toBroker, ingress, blocked, closed, seen>>

(* The timer that a full queue starts: half empty it is forgotten, after   *)
(* five seconds it ends the route that fills the queues, or the carrier.   *)
evaluatePressure ==
    /\ closed = "open" /\ host.pressed
    /\ CASE 2 * Len(host.control) < HostControl ->
              /\ host' = [host EXCEPT !.pressed = FALSE]
              /\ UNCHANGED <<broker, outbound, toHost, toBroker, ingress, blocked, closed, seen>>
         [] 2 * Len(host.control) >= HostControl /\ carrierPressureOwner(host) # {} ->
              /\ \E r \in carrierPressureOwner(host) : host' = Failed(host, r)
              /\ UNCHANGED <<broker, outbound, toHost, toBroker, ingress, blocked, closed, seen>>
         [] OTHER -> CloseCarrier(broker, "carrier_pressure_timeout")

(* flush: control first, then data of any route, while the socket takes    *)
(* frames.  route.opened leaving the host opens the route there.           *)
flush ==
    /\ closed = "open" /\ Len(toBroker) < SocketLimit
    /\ \/ /\ host.control # <<>>
          /\ LET f == Head(host.control)
                 opens == f.type = "route.opened" /\ host.route[f.route].phase = "opening"
             IN /\ toBroker' = Append(toBroker, f)
                /\ host' = [host EXCEPT !.control = Tail(@),
                                        !.route[f.route].phase = IF opens THEN "open" ELSE @]
       \/ \E r \in Route :
            /\ host.control = <<>> /\ host.route[r].queue # <<>>
            /\ toBroker' = Append(toBroker,
                    [type |-> "route.data", route |-> r, seq |-> host.route[r].emitted + 1,
                     last |-> 0, size |-> Head(host.route[r].queue)])
            /\ host' = [host EXCEPT !.route[r].queue = Tail(@), !.route[r].emitted = @ + 1]
    /\ UNCHANGED <<broker, outbound, toHost, ingress, blocked, closed, seen>>

disconnectHost ==
    /\ Loses /\ closed = "open" /\ CloseCarrier(broker, "host_offline")

-----------------------------------------------------------------------------
Init ==
    /\ broker = CarrierState /\ outbound = NoSend
    /\ toHost = <<>> /\ toBroker = <<>> /\ ingress = <<>> /\ blocked = {}
    /\ host = HostState /\ closed = "open" /\ seen = [r \in Route |-> <<>>]

Pump ==
    \/ drainHostCarrier \/ acknowledgeHostDelivery \/ acceptFrame \/ receiveHostFrame
    \/ hostReceive \/ flush

Next ==
    \/ Pump \/ evaluatePressure \/ disconnectHost
    \/ \E r \in Route :
          \/ openClientRoute(r) \/ forwardClientFrame(r) \/ answerDirectory(r) \/ unbindClient(r)
          \/ drainClient(r) \/ acknowledgeClientDelivery(r)
          \/ enqueueData(r) \/ failRoute(r)

Spec == Init /\ [][Next]_vars

(* Sockets deliver, pumps run, clients read what they are sent.            *)
Fairness ==
    /\ WF_vars(drainHostCarrier) /\ WF_vars(acknowledgeHostDelivery) /\ WF_vars(acceptFrame)
    /\ WF_vars(receiveHostFrame) /\ WF_vars(hostReceive) /\ WF_vars(flush)
    /\ \A r \in Route : WF_vars(drainClient(r)) /\ WF_vars(acknowledgeClientDelivery(r))

FairSpec == Spec /\ Fairness

-----------------------------------------------------------------------------
(* Types.                                                                  *)
TypeOK ==
    /\ \A r \in Route :
          /\ broker.route[r].status \in {"none", "opening", "opened", "closing", "closed"}
          /\ broker.route[r].first \in {"pending", "welcome", "unavailable"}
          /\ {broker.route[r].c2h, broker.route[r].h2c} \subseteq Nat
          /\ host.route[r].phase \in {"none", "opening", "open", "closing", "gone"}
    /\ {broker.queued, broker.inFlight, broker.h2c} \subseteq Nat
    /\ blocked \subseteq Route

(* Why a carrier ends over a frame.  What was under way when a route was   *)
(* opened, unbound or rejected is taken for what it is: no late answer, no *)
(* data of a closing route and no number ends it, and the host never sees  *)
(* a gap, a repetition or an early frame.  Five crossings are not          *)
(* forgiven, and each ends every route of the carrier: the client left     *)
(* while the host closed (stale_route_close) or rejected the route         *)
(* (stale_route_source); its data crossed the host's close                 *)
(* (closed_route_source); the broker had refused a frame for want of room, *)
(* which leaves a gap in the numbers of that route; or the host lost a     *)
(* control frame of the route at its full queue.                           *)
EndsStep ==
    LET ended(reason) == closed = "open" /\ closed' = reason
        arrived(type) == {f.route : f \in {x \in Range(ingress) : x.type = type}}
        gap == {r \in Route : broker.route[r].refused > 0}
    IN /\ \A reason \in {"stale_route_opened", "stale_route_rejected", "stale_route_data",
                          "stale_route_unbound", "carrier_sequence_violation",
                          "route_opened_barrier_violation"} : ~ended(reason)
       /\ ended("stale_route_close") =>
             \E r \in arrived("route.close") :
                 broker.route[r].status = "closing" \/ r \in host.dropped
       /\ ended("stale_route_source") =>
             LET f == Head(toHost)
             IN f.type = "route.unbind" /\ broker.route[f.route].first = "unavailable"
       /\ ended("closed_route_source") => Head(toHost).type = "route.data"
       /\ ended("non_contiguous_route_sequence") => arrived("route.data") \cap gap # {}
       /\ ended("route_unbound_watermark_mismatch") => arrived("route.unbound") \cap gap # {}

(* A client's socket is handed the welcome and then the host's frames in   *)
(* order and without a gap, however the route is paused and resumed, the   *)
(* broker's own answers among them; and a client whose route ended before  *)
(* it was opened is handed nothing.                                        *)
ClientSeesWholeStream ==
    \A r \in Route :
        /\ LET frames == SelectSeq(seen[r], LAMBDA n : n >= 0)
           IN /\ \A i \in DOMAIN frames : frames[i] = i - 1
              /\ seen[r] # <<>> => Head(seen[r]) = 0
        /\ broker.route[r].first = "unavailable" => seen[r] = <<>>

(* The budget is exact: what is charged to a route and to the carrier is   *)
(* what is queued or under way, so nothing is lost to later routes.        *)
BudgetIsExact ==
    LET kept(r) == broker.route[r].queue \o broker.route[r].inFlight
        writing(r) == IF outbound.type = "route.data" THEN outbound.route = r ELSE FALSE
        queued == FoldLeft(LAMBDA n, r : n + Len(broker.route[r].data), Len(broker.control),
                           SetToSeq(Route))
    IN /\ broker.queued = queued
       /\ broker.inFlight = IF outbound = NoSend THEN 0 ELSE 1
       /\ broker.h2c = FoldLeft(LAMBDA n, r : n + Accounted(kept(r)), 0, SetToSeq(Route))
       /\ \A r \in Route :
             Live(broker, r) =>
                /\ broker.route[r].h2c = Size(kept(r))
                /\ broker.route[r].c2h = Len(broker.route[r].data) + (IF writing(r) THEN 1 ELSE 0)

(* An unbound route is released: the broker's table forgets it once the    *)
(* host has answered.  It is not if the host lost its answer at a full     *)
(* control queue, or if the route was paused when it was unbound: the pump *)
(* then keeps the answer behind data it never takes.                       *)
UnboundRoute(r) ==
    broker.route[r].status = "closing" /\ r \notin host.dropped /\ r \notin blocked

(* A paused route does not stay paused: the client reads and the route is  *)
(* resumed, or it ends.                                                    *)
PausedRoute(r) == broker.route[r].hostPaused /\ broker.route[r].status = "opened"

=============================================================================
