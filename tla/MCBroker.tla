----------------------------- MODULE MCBroker -----------------------------
(***************************************************************************)
(* Scenarios of the broker (routes, registration) and of the commands a    *)
(* phone sends through it: each initial state chooses one, and only that   *)
(* instance takes steps.                                                   *)
(***************************************************************************)
EXTENDS BrokerRegistry, Naturals, FiniteSets, Sequences, TLC

CONSTANTS c1, g1, hg, i1, k1, k2, r1, r2, t1

VARIABLES scenario,
          broker, outbound, toHost, toBroker, ingress, blocked, host, closed,
          seen, core, keys, moving, instant, allowance, outbox, outcome, conn,
          failed, windows, ledger, ran, requests, faults, resyncs

\* One route, closed by the client at any moment.
Crossing == INSTANCE RouteCarrier WITH Route <- {r1}, Sizes <- {1, 2},
    FromClient <- 2, FromHost <- 2, RouteLimit <- 2, RouteLow <- 2,
    CarrierLimit <- 8, CarrierLow <- 6, Reserve <- 2, IngressLimit <- 1,
    SocketLimit <- 2, HostControl <- 1, Asks <- 1, HostCloses <- TRUE,
    Loses <- TRUE

\* Two routes share the carrier's budget for the frames of the host.
TwoRoutes == INSTANCE RouteCarrier WITH Route <- {r1, r2}, Sizes <- {2},
    FromClient <- 0, FromHost <- 1, RouteLimit <- 2, RouteLow <- 2,
    CarrierLimit <- 4, CarrierLow <- 2, Reserve <- 1, IngressLimit <- 3,
    SocketLimit <- 1, HostControl <- 2, Asks <- 0, HostCloses <- FALSE,
    Loses <- FALSE

\* Two routes share it for the frames of their clients.
TwoClients == INSTANCE RouteCarrier WITH Route <- {r1, r2}, Sizes <- {1},
    FromClient <- 1, FromHost <- 0, RouteLimit <- 2, RouteLow <- 2,
    CarrierLimit <- 4, CarrierLow <- 2, Reserve <- 1, IngressLimit <- 3,
    SocketLimit <- 1, HostControl <- 2, Asks <- 0, HostCloses <- FALSE,
    Loses <- FALSE

\* Two connectors and a client come and go while a grant is revoked or a key
\* removed and credentials expire.
\* (The module itself, with the constants of the configuration: scenario "registry".)

\* A connector reauthenticates across expiry, a key removal, a protocol
\* violation and a broker restart.
Expiry == INSTANCE BrokerRegistry WITH Carriers <- {t1}, Clients <- {c1},
    Instances <- {i1}, Kids <- {k1, k2}, Grants <- {g1}, HostGrant <- hg,
    MaxTime <- 2, MaxRevocations <- 1, MaxWithdrawals <- 0, MaxRestarts <- 1,
    MaxViolations <- 1, b <- core, authority <- keys, transit <- moving,
    now <- instant, budget <- allowance

\* Two commands of one session over a lost connection.
OutboxLane == INSTANCE CommandOutbox WITH IntentCount <- 2, Shared <- TRUE,
    MaxConns <- 2, MaxFaults <- 1, MaxCloses <- 0, MaxResyncs <- 0,
    MaxAttempts <- 2, MaxBatch <- 1, box <- outbox

\* Two commands of one session while a window closes.
OutboxReissue == INSTANCE CommandOutbox WITH IntentCount <- 2, Shared <- TRUE,
    MaxConns <- 2, MaxFaults <- 0, MaxCloses <- 1, MaxResyncs <- 0,
    MaxAttempts <- 2, MaxBatch <- 1, box <- outbox

\* One command over a lost connection while a window closes.
OutboxWindow == INSTANCE CommandOutbox WITH IntentCount <- 1, Shared <- TRUE,
    MaxConns <- 2, MaxFaults <- 1, MaxCloses <- 1, MaxResyncs <- 0,
    MaxAttempts <- 2, MaxBatch <- 1, box <- outbox

\* Commands of two sessions over a lost connection.
OutboxLanes == INSTANCE CommandOutbox WITH IntentCount <- 2, Shared <- FALSE,
    MaxConns <- 2, MaxFaults <- 1, MaxCloses <- 0, MaxResyncs <- 0,
    MaxAttempts <- 2, MaxBatch <- 2, box <- outbox

\* One command and a resync of its connection.
OutboxResync == INSTANCE CommandOutbox WITH IntentCount <- 1, Shared <- TRUE,
    MaxConns <- 2, MaxFaults <- 1, MaxCloses <- 0, MaxResyncs <- 1,
    MaxAttempts <- 2, MaxBatch <- 1, box <- outbox

ASSUME CrossingBounds == Crossing!RouteCarrierAssumption
ASSUME TwoRoutesBounds == TwoRoutes!RouteCarrierAssumption
ASSUME TwoClientsBounds == TwoClients!RouteCarrierAssumption
ASSUME RegistryBounds == BrokerAssumption
ASSUME ExpiryBounds == Expiry!BrokerAssumption
ASSUME OutboxLaneBounds == OutboxLane!OutboxAssumption
ASSUME OutboxReissueBounds == OutboxReissue!OutboxAssumption
ASSUME OutboxWindowBounds == OutboxWindow!OutboxAssumption
ASSUME OutboxLanesBounds == OutboxLanes!OutboxAssumption
ASSUME OutboxResyncBounds == OutboxResync!OutboxAssumption

suiteVars == <<scenario, broker, outbound, toHost, toBroker, ingress, blocked,
          host, closed, seen, b, authority, transit, now, budget, core, keys,
          moving, instant, allowance, outbox, outcome, conn, failed, windows,
          ledger, ran, requests, faults, resyncs>>

\* The variables of no component of the scenario are off, those of BrokerRegistry initial.
SuiteInit ==
    \/ /\ scenario = "crossing" /\ Crossing!Init
       /\ b = FreshBroker /\
          authority = [revoked |-> {}, removed |-> {}, mutation |-> None, published |-> FALSE, withdrawn |-> FALSE] /\
          transit = [x \in Carriers \cup Clients |-> NoTransit] /\ now = 0 /\
          budget = [revocations |-> 0, withdrawals |-> 0, restarts |-> 0, violations |-> 0] /\
          core = "off" /\ keys = "off" /\ moving = "off" /\ instant = "off" /\
          allowance = "off" /\ outbox = "off" /\ outcome = "off" /\
          conn = "off" /\ failed = "off" /\ windows = "off" /\
          ledger = "off" /\ ran = "off" /\ requests = "off" /\
          faults = "off" /\ resyncs = "off"
    \/ /\ scenario = "twoRoutes" /\ TwoRoutes!Init
       /\ b = FreshBroker /\
          authority = [revoked |-> {}, removed |-> {}, mutation |-> None, published |-> FALSE, withdrawn |-> FALSE] /\
          transit = [x \in Carriers \cup Clients |-> NoTransit] /\ now = 0 /\
          budget = [revocations |-> 0, withdrawals |-> 0, restarts |-> 0, violations |-> 0] /\
          core = "off" /\ keys = "off" /\ moving = "off" /\ instant = "off" /\
          allowance = "off" /\ outbox = "off" /\ outcome = "off" /\
          conn = "off" /\ failed = "off" /\ windows = "off" /\
          ledger = "off" /\ ran = "off" /\ requests = "off" /\
          faults = "off" /\ resyncs = "off"
    \/ /\ scenario = "twoClients" /\ TwoClients!Init
       /\ b = FreshBroker /\
          authority = [revoked |-> {}, removed |-> {}, mutation |-> None, published |-> FALSE, withdrawn |-> FALSE] /\
          transit = [x \in Carriers \cup Clients |-> NoTransit] /\ now = 0 /\
          budget = [revocations |-> 0, withdrawals |-> 0, restarts |-> 0, violations |-> 0] /\
          core = "off" /\ keys = "off" /\ moving = "off" /\ instant = "off" /\
          allowance = "off" /\ outbox = "off" /\ outcome = "off" /\
          conn = "off" /\ failed = "off" /\ windows = "off" /\
          ledger = "off" /\ ran = "off" /\ requests = "off" /\
          faults = "off" /\ resyncs = "off"
    \/ /\ scenario = "registry" /\ Init
       /\ broker = "off" /\ outbound = "off" /\ toHost = "off" /\
          toBroker = "off" /\ ingress = "off" /\ blocked = "off" /\
          host = "off" /\ closed = "off" /\ seen = "off" /\ core = "off" /\
          keys = "off" /\ moving = "off" /\ instant = "off" /\
          allowance = "off" /\ outbox = "off" /\ outcome = "off" /\
          conn = "off" /\ failed = "off" /\ windows = "off" /\
          ledger = "off" /\ ran = "off" /\ requests = "off" /\
          faults = "off" /\ resyncs = "off"
    \/ /\ scenario = "expiry" /\ Expiry!Init
       /\ broker = "off" /\ outbound = "off" /\ toHost = "off" /\
          toBroker = "off" /\ ingress = "off" /\ blocked = "off" /\
          host = "off" /\ closed = "off" /\ seen = "off" /\ b = FreshBroker /\
          authority = [revoked |-> {}, removed |-> {}, mutation |-> None, published |-> FALSE, withdrawn |-> FALSE] /\
          transit = [x \in Carriers \cup Clients |-> NoTransit] /\ now = 0 /\
          budget = [revocations |-> 0, withdrawals |-> 0, restarts |-> 0, violations |-> 0] /\
          outbox = "off" /\ outcome = "off" /\ conn = "off" /\
          failed = "off" /\ windows = "off" /\ ledger = "off" /\
          ran = "off" /\ requests = "off" /\ faults = "off" /\ resyncs = "off"
    \/ /\ scenario = "lane" /\ OutboxLane!Init
       /\ broker = "off" /\ outbound = "off" /\ toHost = "off" /\
          toBroker = "off" /\ ingress = "off" /\ blocked = "off" /\
          host = "off" /\ closed = "off" /\ seen = "off" /\ b = FreshBroker /\
          authority = [revoked |-> {}, removed |-> {}, mutation |-> None, published |-> FALSE, withdrawn |-> FALSE] /\
          transit = [x \in Carriers \cup Clients |-> NoTransit] /\ now = 0 /\
          budget = [revocations |-> 0, withdrawals |-> 0, restarts |-> 0, violations |-> 0] /\
          core = "off" /\ keys = "off" /\ moving = "off" /\ instant = "off" /\
          allowance = "off"
    \/ /\ scenario = "reissue" /\ OutboxReissue!Init
       /\ broker = "off" /\ outbound = "off" /\ toHost = "off" /\
          toBroker = "off" /\ ingress = "off" /\ blocked = "off" /\
          host = "off" /\ closed = "off" /\ seen = "off" /\ b = FreshBroker /\
          authority = [revoked |-> {}, removed |-> {}, mutation |-> None, published |-> FALSE, withdrawn |-> FALSE] /\
          transit = [x \in Carriers \cup Clients |-> NoTransit] /\ now = 0 /\
          budget = [revocations |-> 0, withdrawals |-> 0, restarts |-> 0, violations |-> 0] /\
          core = "off" /\ keys = "off" /\ moving = "off" /\ instant = "off" /\
          allowance = "off"
    \/ /\ scenario = "window" /\ OutboxWindow!Init
       /\ broker = "off" /\ outbound = "off" /\ toHost = "off" /\
          toBroker = "off" /\ ingress = "off" /\ blocked = "off" /\
          host = "off" /\ closed = "off" /\ seen = "off" /\ b = FreshBroker /\
          authority = [revoked |-> {}, removed |-> {}, mutation |-> None, published |-> FALSE, withdrawn |-> FALSE] /\
          transit = [x \in Carriers \cup Clients |-> NoTransit] /\ now = 0 /\
          budget = [revocations |-> 0, withdrawals |-> 0, restarts |-> 0, violations |-> 0] /\
          core = "off" /\ keys = "off" /\ moving = "off" /\ instant = "off" /\
          allowance = "off"
    \/ /\ scenario = "lanes" /\ OutboxLanes!Init
       /\ broker = "off" /\ outbound = "off" /\ toHost = "off" /\
          toBroker = "off" /\ ingress = "off" /\ blocked = "off" /\
          host = "off" /\ closed = "off" /\ seen = "off" /\ b = FreshBroker /\
          authority = [revoked |-> {}, removed |-> {}, mutation |-> None, published |-> FALSE, withdrawn |-> FALSE] /\
          transit = [x \in Carriers \cup Clients |-> NoTransit] /\ now = 0 /\
          budget = [revocations |-> 0, withdrawals |-> 0, restarts |-> 0, violations |-> 0] /\
          core = "off" /\ keys = "off" /\ moving = "off" /\ instant = "off" /\
          allowance = "off"
    \/ /\ scenario = "again" /\ OutboxResync!Init
       /\ broker = "off" /\ outbound = "off" /\ toHost = "off" /\
          toBroker = "off" /\ ingress = "off" /\ blocked = "off" /\
          host = "off" /\ closed = "off" /\ seen = "off" /\ b = FreshBroker /\
          authority = [revoked |-> {}, removed |-> {}, mutation |-> None, published |-> FALSE, withdrawn |-> FALSE] /\
          transit = [x \in Carriers \cup Clients |-> NoTransit] /\ now = 0 /\
          budget = [revocations |-> 0, withdrawals |-> 0, restarts |-> 0, violations |-> 0] /\
          core = "off" /\ keys = "off" /\ moving = "off" /\ instant = "off" /\
          allowance = "off"

SuiteNext ==
    \/ /\ scenario = "crossing" /\ Crossing!Next
       /\ UNCHANGED <<scenario, b, authority, transit, now, budget, core,
          keys, moving, instant, allowance, outbox, outcome, conn, failed,
          windows, ledger, ran, requests, faults, resyncs>>
    \/ /\ scenario = "twoRoutes" /\ TwoRoutes!Next
       /\ UNCHANGED <<scenario, b, authority, transit, now, budget, core,
          keys, moving, instant, allowance, outbox, outcome, conn, failed,
          windows, ledger, ran, requests, faults, resyncs>>
    \/ /\ scenario = "twoClients" /\ TwoClients!Next
       /\ UNCHANGED <<scenario, b, authority, transit, now, budget, core,
          keys, moving, instant, allowance, outbox, outcome, conn, failed,
          windows, ledger, ran, requests, faults, resyncs>>
    \/ /\ scenario = "registry" /\ Next
       /\ UNCHANGED <<scenario, broker, outbound, toHost, toBroker, ingress,
          blocked, host, closed, seen, core, keys, moving, instant, allowance,
          outbox, outcome, conn, failed, windows, ledger, ran, requests,
          faults, resyncs>>
    \/ /\ scenario = "expiry" /\ Expiry!Next
       /\ UNCHANGED <<scenario, broker, outbound, toHost, toBroker, ingress,
          blocked, host, closed, seen, b, authority, transit, now, budget,
          outbox, outcome, conn, failed, windows, ledger, ran, requests,
          faults, resyncs>>
    \/ /\ scenario = "lane" /\ OutboxLane!Next
       /\ UNCHANGED <<scenario, broker, outbound, toHost, toBroker, ingress,
          blocked, host, closed, seen, b, authority, transit, now, budget,
          core, keys, moving, instant, allowance>>
    \/ /\ scenario = "reissue" /\ OutboxReissue!Next
       /\ UNCHANGED <<scenario, broker, outbound, toHost, toBroker, ingress,
          blocked, host, closed, seen, b, authority, transit, now, budget,
          core, keys, moving, instant, allowance>>
    \/ /\ scenario = "window" /\ OutboxWindow!Next
       /\ UNCHANGED <<scenario, broker, outbound, toHost, toBroker, ingress,
          blocked, host, closed, seen, b, authority, transit, now, budget,
          core, keys, moving, instant, allowance>>
    \/ /\ scenario = "lanes" /\ OutboxLanes!Next
       /\ UNCHANGED <<scenario, broker, outbound, toHost, toBroker, ingress,
          blocked, host, closed, seen, b, authority, transit, now, budget,
          core, keys, moving, instant, allowance>>
    \/ /\ scenario = "again" /\ OutboxResync!Next
       /\ UNCHANGED <<scenario, broker, outbound, toHost, toBroker, ingress,
          blocked, host, closed, seen, b, authority, transit, now, budget,
          core, keys, moving, instant, allowance>>

SuiteSpec == SuiteInit /\ [][SuiteNext]_suiteVars

-----------------------------------------------------------------------------
(* A client sees the welcome and then the host's frames of its route in    *)
(* order, without a gap or repetition, and nothing if its route ended      *)
(* before it opened. The connector that serves the routes is the one the   *)
(* directory names, and none with a dead credential, also when it          *)
(* reauthenticates across an expiry, a key removal, a violation or a       *)
(* restart of the broker (routeDataFromHost, beginRouteUnbind,             *)
(* drainClient, reauthenticateHost).                                       *)
Streams ==
    /\ scenario = "crossing" => Crossing!TypeOK
    /\ scenario = "crossing" => Crossing!ClientSeesWholeStream
    /\ scenario = "twoRoutes" => TwoRoutes!ClientSeesWholeStream
    /\ scenario = "twoClients" => TwoClients!ClientSeesWholeStream
    /\ scenario = "expiry" => Expiry!TypeOK
    /\ scenario = "expiry" => Expiry!OneConnectorServes
    /\ scenario = "expiry" => Expiry!RevocationHolds

(* Streams are whole (Streams), at the host's end as well, which is never  *)
(* sent a gap, a repetition or an early frame; and no frame that crossed   *)
(* the opening, the unbinding or the rejection of a route ends the carrier *)
(* with all its routes. Five crossings are not forgiven, and all five      *)
(* happen in this run: the client left while the host closed or rejected   *)
(* the route, its data crossed the host's close, the broker had refused a  *)
(* frame of the route for want of room, or the host had lost a control     *)
(* frame of it at its full queue (protocolViolation, failConnector).       *)
WholeStreams ==
    /\ []Streams
    /\ [][/\ scenario = "crossing" => Crossing!EndsStep
          /\ scenario = "twoRoutes" => TwoRoutes!EndsStep
          /\ scenario = "twoClients" => TwoClients!EndsStep]_suiteVars

(* What is charged to a route and to the carrier is what is queued or      *)
(* under way, so that no ended route keeps room from later ones            *)
(* (brokerCore.ts queue accounting).                                       *)
BudgetIsExact ==
    /\ scenario = "crossing" => Crossing!BudgetIsExact
    /\ scenario = "twoRoutes" => TwoRoutes!BudgetIsExact
    /\ scenario = "twoClients" => TwoClients!BudgetIsExact

(* What the user asked for once runs once at most, one after the other in  *)
(* the order of the outbox (where a command issued anew takes the last     *)
(* place), and the phone shows of it what really happened, whatever frames *)
(* of dead connections still arrive: a command is issued anew only when    *)
(* the old one never runs. The runtime stops over an answer of the host    *)
(* only after a resync, or on a connection that has outlived its window,   *)
(* both of which happen in this run (RelayV2OutboxAuthorityCore,           *)
(* hostCommandPlane.ts).                                                   *)
CommandsRunOnce ==
    /\ scenario = "lane" => OutboxLane!TypeOK
    /\ scenario = "lane" => OutboxLane!IntentRunsOnce
    /\ scenario = "lane" => OutboxLane!OutcomeIsTrue
    /\ scenario = "lane" => OutboxLane!LaneInOrder
    /\ scenario = "lane" => OutboxLane!EvidenceIsAccepted
    /\ scenario = "lanes" => OutboxLanes!TypeOK
    /\ scenario = "lanes" => OutboxLanes!IntentRunsOnce
    /\ scenario = "lanes" => OutboxLanes!OutcomeIsTrue
    /\ scenario = "lanes" => OutboxLanes!LaneInOrder
    /\ scenario = "lanes" => OutboxLanes!EvidenceIsAccepted
    /\ scenario = "reissue" => OutboxReissue!TypeOK
    /\ scenario = "reissue" => OutboxReissue!IntentRunsOnce
    /\ scenario = "reissue" => OutboxReissue!OutcomeIsTrue
    /\ scenario = "reissue" => OutboxReissue!LaneInOrder
    /\ scenario = "reissue" => OutboxReissue!EvidenceIsAccepted
    /\ scenario = "window" => OutboxWindow!TypeOK
    /\ scenario = "window" => OutboxWindow!IntentRunsOnce
    /\ scenario = "window" => OutboxWindow!OutcomeIsTrue
    /\ scenario = "window" => OutboxWindow!LaneInOrder
    /\ scenario = "window" => OutboxWindow!EvidenceIsAccepted
    /\ scenario = "again" => OutboxResync!TypeOK
    /\ scenario = "again" => OutboxResync!IntentRunsOnce
    /\ scenario = "again" => OutboxResync!OutcomeIsTrue
    /\ scenario = "again" => OutboxResync!LaneInOrder
    /\ scenario = "again" => OutboxResync!EvidenceIsAccepted

\* Processes of a host are interchangeable, and so are routes.
Symmetry == Permutations(Instances) \cup Permutations({r1, r2})

=============================================================================
