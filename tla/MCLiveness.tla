---------------------------- MODULE MCLiveness ----------------------------
(***************************************************************************)
(* What must eventually happen, component by component: each initial state *)
(* chooses one scenario, and only that instance takes steps.               *)
(***************************************************************************)
EXTENDS ExpiryDeadline, Naturals, FiniteSets, Sequences, TLC

CONSTANTS Dashboard, Owner, c1, cmd, dash, feishu, k1, o1, r1, t1, w1

VARIABLES scenario,
          epoch, targets, tmux, producer, up, call, late, landed, replayed,
          faults, clock, issued, window, ledger, res, runner, query, sweep,
          started, applied, told, broker, outbound, toHost, toBroker, ingress,
          blocked, host, closed, seen, disk, proc, conn, net, ids, warned,
          mat, kill, rec, resolver, config, world, flight, made, named, keys,
          configs, deaths, cuts, down, repo, actor, fx, rx, spent, build,
          builds, fence, served, lease, released, route, cp, view, failed,
          box, outcome, windows, ran, requests, resyncs

\* The kind of each owner.
KindOf(S) == [o \in S |-> IF o = feishu THEN "feishu" ELSE "dashboard"]

\* P holds in the scenario k.
In(k, P) == scenario = k /\ P

\* A target of terminal control.
Control == INSTANCE TerminalControl WITH Owner <- {feishu, dash},
    kindOf <- KindOf({feishu, dash}), OpId <- {o1}, JournalCap <- 1,
    Target <- {t1}, Kinds <- {"raw"},
    Fault <- {"probe", "write", "save", "lostReset", "emptyTail"},
    MaxFaults <- 2, MaxFence <- 3, MaxHandoffs <- 1, MaxSessions <- 1

\* A command under storage faults and crashes.
Retry == INSTANCE CommandLedger WITH Cmd <- {cmd}, Win <- {w1}, Call <- {k1},
    Create <- {cmd}, AcceptFor <- 1, ResultFor <- 1, DedupeFor <- 2,
    MaxTime <- 1, MaxFaults <- 2, ClockSteps <- FALSE, now <- clock

\* A route that is paused and closed.
Resume == INSTANCE RouteCarrier WITH Route <- {r1}, Sizes <- {1},
    FromClient <- 0, FromHost <- 3, RouteLimit <- 2, RouteLow <- 2,
    CarrierLimit <- 8, CarrierLow <- 6, Reserve <- 2, IngressLimit <- 3,
    SocketLimit <- 1, HostControl <- 1, Asks <- 0, HostCloses <- TRUE,
    Loses <- TRUE

\* A connection that expires.
\* (The module itself, with the constants of the configuration: scenario "deadline".)

\* A credential that expires.
Renew == INSTANCE CredentialRotation WITH Exchangers <- {Owner},
    Enrolled <- TRUE, MaxInst <- 1, MaxTok <- 3, MaxIds <- 4, MaxConn <- 2,
    Faults <- {"loss", "late"}, MaxFaults <- 3, Prompt <- TRUE, Rounds <- 4,
    Resends <- 3

\* The list of sessions after the last change.
Converge == INSTANCE ResourceState WITH Scope <- {1}, Cmd <- {c1},
    ScopeOf <- [c \in {c1} |-> 1], TargetOf <- [c \in {c1} |-> 1],
    Attempts <- 2, MaxRecords <- 6, MaxKeys <- 2, MaxFaults <- 1,
    MaxConfig <- 0, MaxDeaths <- 0

\* The list of sessions after a session was killed.
Killed == INSTANCE ResourceState WITH Scope <- {1}, Cmd <- {c1},
    ScopeOf <- [c \in {c1} |-> 1], TargetOf <- [c \in {c1} |-> 1],
    Attempts <- 2, MaxRecords <- 6, MaxKeys <- 1, MaxFaults <- 1,
    MaxConfig <- 0, MaxDeaths <- 1

\* The client's copy after the last fault.
Sync == INSTANCE StateSync WITH KeyCount <- 1, Requests <- {1, 2, 3},
    MaxEvents <- 1, MaxEpochs <- 1, MaxBuffer <- 3, MaxPinned <- 2,
    MaxDrops <- 1, MaxExpiries <- 0, MaxGaps <- 1, MaxManual <- 0,
    MaxHosts <- 0, Uncertain <- {TRUE, FALSE}, Commands <- {TRUE}

\* Events beyond the client's buffer.
Burst == INSTANCE StateSync WITH KeyCount <- 1, Requests <- {1, 2, 3, 4},
    MaxEvents <- 2, MaxEpochs <- 1, MaxBuffer <- 1, MaxPinned <- 2,
    MaxDrops <- 0, MaxExpiries <- 1, MaxGaps <- 1, MaxManual <- 0,
    MaxHosts <- 0, Uncertain <- {}, Commands <- {TRUE}

\* Recoveries the user asks for.
Manual == INSTANCE StateSync WITH KeyCount <- 1, Requests <- {1, 2, 3},
    MaxEvents <- 1, MaxEpochs <- 1, MaxBuffer <- 3, MaxPinned <- 2,
    MaxDrops <- 0, MaxExpiries <- 0, MaxGaps <- 1, MaxManual <- 1,
    MaxHosts <- 1, Uncertain <- {}, Commands <- {TRUE}

\* Calls for a snapshot.
Spool == INSTANCE SnapshotSpool WITH Keys <- {1}, Callers <- {1,2},
    MaxSnapshots <- 2, MaxCuts <- 2, MaxTombstones <- 2, IdleLease <- 1,
    AbsoluteLease <- 1, TombstoneLife <- 2, MaxTime <- 1, MaxEpochs <- 1,
    MaxCrashes <- 0, MaxFailures <- 1, MaxRevokes <- 0, MaxBusy <- 1,
    Torn <- {}, now <- clock

\* A terminal on the client's screen.
Terminal == INSTANCE TerminalOutput WITH RingBytes <- 2, MaxUnacked <- 1,
    MaxFrame <- 1, MaxBytes <- 2, MaxGens <- 4, MaxOpens <- 6, MaxRoutes <- 1,
    MaxDrops <- 1, MaxRestarts <- 1, MaxLosses <- 0, MaxViews <- 0,
    MaxExpiries <- 0, MaxRefusals <- 0

\* Streams and opens the host loses.
Stream == INSTANCE TerminalOutput WITH RingBytes <- 2, MaxUnacked <- 1,
    MaxFrame <- 1, MaxBytes <- 1, MaxGens <- 4, MaxOpens <- 6, MaxRoutes <- 1,
    MaxDrops <- 0, MaxRestarts <- 0, MaxLosses <- 1, MaxViews <- 0,
    MaxExpiries <- 1, MaxRefusals <- 1

\* A command in the phone's outbox.
Outbox == INSTANCE CommandOutbox WITH IntentCount <- 1, Shared <- TRUE,
    MaxConns <- 2, MaxFaults <- 1, MaxCloses <- 1, MaxResyncs <- 0,
    MaxAttempts <- 2, MaxBatch <- 1

ASSUME RetryBounds == Retry!CommandLedgerAssumption
ASSUME ResumeBounds == Resume!RouteCarrierAssumption
ASSUME DeadlineBounds == DeadlineAssumption
ASSUME RenewBounds == Renew!BoundsAssumption
ASSUME ConvergeBounds == Converge!ResourceStateAssumption
ASSUME KilledBounds == Killed!ResourceStateAssumption
ASSUME SyncBounds == Sync!BoundsAssumption
ASSUME BurstBounds == Burst!BoundsAssumption
ASSUME ManualBounds == Manual!BoundsAssumption
ASSUME SpoolBounds == Spool!SpoolAssumption
ASSUME TerminalBounds == Terminal!BoundsAssumption
ASSUME StreamBounds == Stream!BoundsAssumption
ASSUME OutboxBounds == Outbox!OutboxAssumption

suiteVars == <<scenario, epoch, targets, tmux, producer, up, call, late,
          landed, replayed, faults, clock, issued, window, ledger, res,
          runner, query, sweep, started, applied, told, broker, outbound,
          toHost, toBroker, ingress, blocked, host, closed, seen, core, entry,
          calls, sealed, now, budget, disk, proc, conn, net, ids, warned, mat,
          kill, rec, resolver, config, world, flight, made, named, keys,
          configs, deaths, cuts, down, repo, actor, fx, rx, spent, build,
          builds, fence, served, lease, released, route, cp, view, failed,
          box, outcome, windows, ran, requests, resyncs>>

\* The variables of no component of the scenario are off, those of ExpiryDeadline initial.
SuiteInit ==
    \/ /\ scenario = "control" /\ Control!Init
       /\ clock = "off" /\ issued = "off" /\ window = "off" /\
          ledger = "off" /\ res = "off" /\ runner = "off" /\ query = "off" /\
          sweep = "off" /\ started = "off" /\ applied = "off" /\
          told = "off" /\ broker = "off" /\ outbound = "off" /\
          toHost = "off" /\ toBroker = "off" /\ ingress = "off" /\
          blocked = "off" /\ host = "off" /\ closed = "off" /\ seen = "off" /\
          core = Attached /\ entry = Registered /\ calls = {} /\
          sealed = FALSE /\ now = 0 /\ budget = Allowed /\ disk = "off" /\
          proc = "off" /\ conn = "off" /\ net = "off" /\ ids = "off" /\
          warned = "off" /\ mat = "off" /\ kill = "off" /\ rec = "off" /\
          resolver = "off" /\ config = "off" /\ world = "off" /\
          flight = "off" /\ made = "off" /\ named = "off" /\ keys = "off" /\
          configs = "off" /\ deaths = "off" /\ cuts = "off" /\ down = "off" /\
          repo = "off" /\ actor = "off" /\ fx = "off" /\ rx = "off" /\
          spent = "off" /\ build = "off" /\ builds = "off" /\ fence = "off" /\
          served = "off" /\ lease = "off" /\ released = "off" /\
          route = "off" /\ cp = "off" /\ view = "off" /\ failed = "off" /\
          box = "off" /\ outcome = "off" /\ windows = "off" /\ ran = "off" /\
          requests = "off" /\ resyncs = "off"
    \/ /\ scenario = "retry" /\ Retry!Init
       /\ epoch = "off" /\ targets = "off" /\ tmux = "off" /\
          producer = "off" /\ late = "off" /\ landed = "off" /\
          replayed = "off" /\ broker = "off" /\ outbound = "off" /\
          toHost = "off" /\ toBroker = "off" /\ ingress = "off" /\
          blocked = "off" /\ host = "off" /\ closed = "off" /\ seen = "off" /\
          core = Attached /\ entry = Registered /\ calls = {} /\
          sealed = FALSE /\ now = 0 /\ budget = Allowed /\ disk = "off" /\
          proc = "off" /\ conn = "off" /\ net = "off" /\ ids = "off" /\
          warned = "off" /\ mat = "off" /\ kill = "off" /\ rec = "off" /\
          resolver = "off" /\ config = "off" /\ world = "off" /\
          flight = "off" /\ made = "off" /\ named = "off" /\ keys = "off" /\
          configs = "off" /\ deaths = "off" /\ cuts = "off" /\ down = "off" /\
          repo = "off" /\ actor = "off" /\ fx = "off" /\ rx = "off" /\
          spent = "off" /\ build = "off" /\ builds = "off" /\ fence = "off" /\
          served = "off" /\ lease = "off" /\ released = "off" /\
          route = "off" /\ cp = "off" /\ view = "off" /\ failed = "off" /\
          box = "off" /\ outcome = "off" /\ windows = "off" /\ ran = "off" /\
          requests = "off" /\ resyncs = "off"
    \/ /\ scenario = "resume" /\ Resume!Init
       /\ epoch = "off" /\ targets = "off" /\ tmux = "off" /\
          producer = "off" /\ up = "off" /\ call = "off" /\ late = "off" /\
          landed = "off" /\ replayed = "off" /\ faults = "off" /\
          clock = "off" /\ issued = "off" /\ window = "off" /\
          ledger = "off" /\ res = "off" /\ runner = "off" /\ query = "off" /\
          sweep = "off" /\ started = "off" /\ applied = "off" /\
          told = "off" /\ core = Attached /\ entry = Registered /\
          calls = {} /\ sealed = FALSE /\ now = 0 /\ budget = Allowed /\
          disk = "off" /\ proc = "off" /\ conn = "off" /\ net = "off" /\
          ids = "off" /\ warned = "off" /\ mat = "off" /\ kill = "off" /\
          rec = "off" /\ resolver = "off" /\ config = "off" /\
          world = "off" /\ flight = "off" /\ made = "off" /\ named = "off" /\
          keys = "off" /\ configs = "off" /\ deaths = "off" /\ cuts = "off" /\
          down = "off" /\ repo = "off" /\ actor = "off" /\ fx = "off" /\
          rx = "off" /\ spent = "off" /\ build = "off" /\ builds = "off" /\
          fence = "off" /\ served = "off" /\ lease = "off" /\
          released = "off" /\ route = "off" /\ cp = "off" /\ view = "off" /\
          failed = "off" /\ box = "off" /\ outcome = "off" /\
          windows = "off" /\ ran = "off" /\ requests = "off" /\
          resyncs = "off"
    \/ /\ scenario = "deadline" /\ Init
       /\ epoch = "off" /\ targets = "off" /\ tmux = "off" /\
          producer = "off" /\ up = "off" /\ call = "off" /\ late = "off" /\
          landed = "off" /\ replayed = "off" /\ faults = "off" /\
          clock = "off" /\ issued = "off" /\ window = "off" /\
          ledger = "off" /\ res = "off" /\ runner = "off" /\ query = "off" /\
          sweep = "off" /\ started = "off" /\ applied = "off" /\
          told = "off" /\ broker = "off" /\ outbound = "off" /\
          toHost = "off" /\ toBroker = "off" /\ ingress = "off" /\
          blocked = "off" /\ host = "off" /\ closed = "off" /\ seen = "off" /\
          disk = "off" /\ proc = "off" /\ conn = "off" /\ net = "off" /\
          ids = "off" /\ warned = "off" /\ mat = "off" /\ kill = "off" /\
          rec = "off" /\ resolver = "off" /\ config = "off" /\
          world = "off" /\ flight = "off" /\ made = "off" /\ named = "off" /\
          keys = "off" /\ configs = "off" /\ deaths = "off" /\ cuts = "off" /\
          down = "off" /\ repo = "off" /\ actor = "off" /\ fx = "off" /\
          rx = "off" /\ spent = "off" /\ build = "off" /\ builds = "off" /\
          fence = "off" /\ served = "off" /\ lease = "off" /\
          released = "off" /\ route = "off" /\ cp = "off" /\ view = "off" /\
          failed = "off" /\ box = "off" /\ outcome = "off" /\
          windows = "off" /\ ran = "off" /\ requests = "off" /\
          resyncs = "off"
    \/ /\ scenario = "renew" /\ Renew!Init
       /\ epoch = "off" /\ targets = "off" /\ tmux = "off" /\
          producer = "off" /\ up = "off" /\ call = "off" /\ late = "off" /\
          landed = "off" /\ replayed = "off" /\ clock = "off" /\
          issued = "off" /\ window = "off" /\ ledger = "off" /\ res = "off" /\
          runner = "off" /\ query = "off" /\ sweep = "off" /\
          started = "off" /\ applied = "off" /\ told = "off" /\
          outbound = "off" /\ toHost = "off" /\ toBroker = "off" /\
          ingress = "off" /\ blocked = "off" /\ host = "off" /\
          closed = "off" /\ seen = "off" /\ core = Attached /\
          entry = Registered /\ calls = {} /\ sealed = FALSE /\ now = 0 /\
          budget = Allowed /\ mat = "off" /\ kill = "off" /\ rec = "off" /\
          resolver = "off" /\ config = "off" /\ world = "off" /\
          flight = "off" /\ made = "off" /\ named = "off" /\ keys = "off" /\
          configs = "off" /\ deaths = "off" /\ cuts = "off" /\ down = "off" /\
          repo = "off" /\ actor = "off" /\ fx = "off" /\ rx = "off" /\
          spent = "off" /\ build = "off" /\ builds = "off" /\ fence = "off" /\
          served = "off" /\ lease = "off" /\ released = "off" /\
          route = "off" /\ cp = "off" /\ view = "off" /\ failed = "off" /\
          box = "off" /\ outcome = "off" /\ windows = "off" /\ ran = "off" /\
          requests = "off" /\ resyncs = "off"
    \/ /\ scenario = "converge" /\ Converge!Init
       /\ epoch = "off" /\ targets = "off" /\ tmux = "off" /\
          producer = "off" /\ call = "off" /\ late = "off" /\
          landed = "off" /\ replayed = "off" /\ clock = "off" /\
          issued = "off" /\ window = "off" /\ res = "off" /\ query = "off" /\
          sweep = "off" /\ started = "off" /\ applied = "off" /\
          told = "off" /\ broker = "off" /\ outbound = "off" /\
          toHost = "off" /\ toBroker = "off" /\ ingress = "off" /\
          blocked = "off" /\ host = "off" /\ closed = "off" /\ seen = "off" /\
          core = Attached /\ entry = Registered /\ calls = {} /\
          sealed = FALSE /\ now = 0 /\ budget = Allowed /\ disk = "off" /\
          proc = "off" /\ conn = "off" /\ net = "off" /\ ids = "off" /\
          warned = "off" /\ cuts = "off" /\ down = "off" /\ repo = "off" /\
          actor = "off" /\ fx = "off" /\ rx = "off" /\ spent = "off" /\
          build = "off" /\ builds = "off" /\ fence = "off" /\
          served = "off" /\ lease = "off" /\ released = "off" /\
          route = "off" /\ cp = "off" /\ view = "off" /\ failed = "off" /\
          box = "off" /\ outcome = "off" /\ windows = "off" /\ ran = "off" /\
          requests = "off" /\ resyncs = "off"
    \/ /\ scenario = "killed" /\ Killed!Init
       /\ epoch = "off" /\ targets = "off" /\ tmux = "off" /\
          producer = "off" /\ call = "off" /\ late = "off" /\
          landed = "off" /\ replayed = "off" /\ clock = "off" /\
          issued = "off" /\ window = "off" /\ res = "off" /\ query = "off" /\
          sweep = "off" /\ started = "off" /\ applied = "off" /\
          told = "off" /\ broker = "off" /\ outbound = "off" /\
          toHost = "off" /\ toBroker = "off" /\ ingress = "off" /\
          blocked = "off" /\ host = "off" /\ closed = "off" /\ seen = "off" /\
          core = Attached /\ entry = Registered /\ calls = {} /\
          sealed = FALSE /\ now = 0 /\ budget = Allowed /\ disk = "off" /\
          proc = "off" /\ conn = "off" /\ net = "off" /\ ids = "off" /\
          warned = "off" /\ cuts = "off" /\ down = "off" /\ repo = "off" /\
          actor = "off" /\ fx = "off" /\ rx = "off" /\ spent = "off" /\
          build = "off" /\ builds = "off" /\ fence = "off" /\
          served = "off" /\ lease = "off" /\ released = "off" /\
          route = "off" /\ cp = "off" /\ view = "off" /\ failed = "off" /\
          box = "off" /\ outcome = "off" /\ windows = "off" /\ ran = "off" /\
          requests = "off" /\ resyncs = "off"
    \/ /\ scenario = "sync" /\ Sync!Init
       /\ epoch = "off" /\ targets = "off" /\ tmux = "off" /\
          producer = "off" /\ call = "off" /\ late = "off" /\
          landed = "off" /\ replayed = "off" /\ faults = "off" /\
          clock = "off" /\ issued = "off" /\ window = "off" /\
          ledger = "off" /\ res = "off" /\ runner = "off" /\ query = "off" /\
          sweep = "off" /\ started = "off" /\ applied = "off" /\
          told = "off" /\ broker = "off" /\ outbound = "off" /\
          toHost = "off" /\ toBroker = "off" /\ ingress = "off" /\
          blocked = "off" /\ closed = "off" /\ seen = "off" /\
          core = Attached /\ entry = Registered /\ calls = {} /\
          sealed = FALSE /\ now = 0 /\ budget = Allowed /\ disk = "off" /\
          proc = "off" /\ conn = "off" /\ net = "off" /\ ids = "off" /\
          warned = "off" /\ mat = "off" /\ kill = "off" /\ rec = "off" /\
          resolver = "off" /\ config = "off" /\ world = "off" /\
          flight = "off" /\ made = "off" /\ named = "off" /\ keys = "off" /\
          configs = "off" /\ deaths = "off" /\ build = "off" /\
          builds = "off" /\ fence = "off" /\ served = "off" /\
          lease = "off" /\ released = "off" /\ route = "off" /\ cp = "off" /\
          view = "off" /\ failed = "off" /\ box = "off" /\ outcome = "off" /\
          windows = "off" /\ ran = "off" /\ requests = "off" /\
          resyncs = "off"
    \/ /\ scenario = "burst" /\ Burst!Init
       /\ epoch = "off" /\ targets = "off" /\ tmux = "off" /\
          producer = "off" /\ call = "off" /\ late = "off" /\
          landed = "off" /\ replayed = "off" /\ faults = "off" /\
          clock = "off" /\ issued = "off" /\ window = "off" /\
          ledger = "off" /\ res = "off" /\ runner = "off" /\ query = "off" /\
          sweep = "off" /\ started = "off" /\ applied = "off" /\
          told = "off" /\ broker = "off" /\ outbound = "off" /\
          toHost = "off" /\ toBroker = "off" /\ ingress = "off" /\
          blocked = "off" /\ closed = "off" /\ seen = "off" /\
          core = Attached /\ entry = Registered /\ calls = {} /\
          sealed = FALSE /\ now = 0 /\ budget = Allowed /\ disk = "off" /\
          proc = "off" /\ conn = "off" /\ net = "off" /\ ids = "off" /\
          warned = "off" /\ mat = "off" /\ kill = "off" /\ rec = "off" /\
          resolver = "off" /\ config = "off" /\ world = "off" /\
          flight = "off" /\ made = "off" /\ named = "off" /\ keys = "off" /\
          configs = "off" /\ deaths = "off" /\ build = "off" /\
          builds = "off" /\ fence = "off" /\ served = "off" /\
          lease = "off" /\ released = "off" /\ route = "off" /\ cp = "off" /\
          view = "off" /\ failed = "off" /\ box = "off" /\ outcome = "off" /\
          windows = "off" /\ ran = "off" /\ requests = "off" /\
          resyncs = "off"
    \/ /\ scenario = "manual" /\ Manual!Init
       /\ epoch = "off" /\ targets = "off" /\ tmux = "off" /\
          producer = "off" /\ call = "off" /\ late = "off" /\
          landed = "off" /\ replayed = "off" /\ faults = "off" /\
          clock = "off" /\ issued = "off" /\ window = "off" /\
          ledger = "off" /\ res = "off" /\ runner = "off" /\ query = "off" /\
          sweep = "off" /\ started = "off" /\ applied = "off" /\
          told = "off" /\ broker = "off" /\ outbound = "off" /\
          toHost = "off" /\ toBroker = "off" /\ ingress = "off" /\
          blocked = "off" /\ closed = "off" /\ seen = "off" /\
          core = Attached /\ entry = Registered /\ calls = {} /\
          sealed = FALSE /\ now = 0 /\ budget = Allowed /\ disk = "off" /\
          proc = "off" /\ conn = "off" /\ net = "off" /\ ids = "off" /\
          warned = "off" /\ mat = "off" /\ kill = "off" /\ rec = "off" /\
          resolver = "off" /\ config = "off" /\ world = "off" /\
          flight = "off" /\ made = "off" /\ named = "off" /\ keys = "off" /\
          configs = "off" /\ deaths = "off" /\ build = "off" /\
          builds = "off" /\ fence = "off" /\ served = "off" /\
          lease = "off" /\ released = "off" /\ route = "off" /\ cp = "off" /\
          view = "off" /\ failed = "off" /\ box = "off" /\ outcome = "off" /\
          windows = "off" /\ ran = "off" /\ requests = "off" /\
          resyncs = "off"
    \/ /\ scenario = "spool" /\ Spool!Init
       /\ targets = "off" /\ tmux = "off" /\ producer = "off" /\ up = "off" /\
          late = "off" /\ landed = "off" /\ replayed = "off" /\
          faults = "off" /\ window = "off" /\ ledger = "off" /\ res = "off" /\
          runner = "off" /\ query = "off" /\ sweep = "off" /\
          started = "off" /\ applied = "off" /\ told = "off" /\
          broker = "off" /\ outbound = "off" /\ toHost = "off" /\
          toBroker = "off" /\ ingress = "off" /\ blocked = "off" /\
          host = "off" /\ closed = "off" /\ seen = "off" /\ core = Attached /\
          entry = Registered /\ calls = {} /\ sealed = FALSE /\ now = 0 /\
          budget = Allowed /\ conn = "off" /\ net = "off" /\ ids = "off" /\
          warned = "off" /\ mat = "off" /\ kill = "off" /\ rec = "off" /\
          resolver = "off" /\ config = "off" /\ world = "off" /\
          flight = "off" /\ made = "off" /\ named = "off" /\ keys = "off" /\
          configs = "off" /\ deaths = "off" /\ cuts = "off" /\ down = "off" /\
          repo = "off" /\ actor = "off" /\ fx = "off" /\ rx = "off" /\
          route = "off" /\ cp = "off" /\ view = "off" /\ failed = "off" /\
          box = "off" /\ outcome = "off" /\ windows = "off" /\ ran = "off" /\
          requests = "off" /\ resyncs = "off"
    \/ /\ scenario = "terminal" /\ Terminal!Init
       /\ epoch = "off" /\ targets = "off" /\ tmux = "off" /\
          producer = "off" /\ call = "off" /\ late = "off" /\
          landed = "off" /\ replayed = "off" /\ faults = "off" /\
          clock = "off" /\ issued = "off" /\ window = "off" /\
          ledger = "off" /\ res = "off" /\ runner = "off" /\ query = "off" /\
          sweep = "off" /\ started = "off" /\ applied = "off" /\
          told = "off" /\ broker = "off" /\ outbound = "off" /\
          toHost = "off" /\ toBroker = "off" /\ ingress = "off" /\
          blocked = "off" /\ closed = "off" /\ seen = "off" /\
          core = Attached /\ entry = Registered /\ calls = {} /\
          sealed = FALSE /\ now = 0 /\ budget = Allowed /\ disk = "off" /\
          proc = "off" /\ conn = "off" /\ net = "off" /\ ids = "off" /\
          warned = "off" /\ mat = "off" /\ kill = "off" /\ rec = "off" /\
          resolver = "off" /\ config = "off" /\ world = "off" /\
          flight = "off" /\ made = "off" /\ named = "off" /\ keys = "off" /\
          configs = "off" /\ deaths = "off" /\ cuts = "off" /\ repo = "off" /\
          actor = "off" /\ fx = "off" /\ rx = "off" /\ build = "off" /\
          builds = "off" /\ fence = "off" /\ served = "off" /\
          lease = "off" /\ released = "off" /\ box = "off" /\
          outcome = "off" /\ windows = "off" /\ ran = "off" /\
          requests = "off" /\ resyncs = "off"
    \/ /\ scenario = "stream" /\ Stream!Init
       /\ epoch = "off" /\ targets = "off" /\ tmux = "off" /\
          producer = "off" /\ call = "off" /\ late = "off" /\
          landed = "off" /\ replayed = "off" /\ faults = "off" /\
          clock = "off" /\ issued = "off" /\ window = "off" /\
          ledger = "off" /\ res = "off" /\ runner = "off" /\ query = "off" /\
          sweep = "off" /\ started = "off" /\ applied = "off" /\
          told = "off" /\ broker = "off" /\ outbound = "off" /\
          toHost = "off" /\ toBroker = "off" /\ ingress = "off" /\
          blocked = "off" /\ closed = "off" /\ seen = "off" /\
          core = Attached /\ entry = Registered /\ calls = {} /\
          sealed = FALSE /\ now = 0 /\ budget = Allowed /\ disk = "off" /\
          proc = "off" /\ conn = "off" /\ net = "off" /\ ids = "off" /\
          warned = "off" /\ mat = "off" /\ kill = "off" /\ rec = "off" /\
          resolver = "off" /\ config = "off" /\ world = "off" /\
          flight = "off" /\ made = "off" /\ named = "off" /\ keys = "off" /\
          configs = "off" /\ deaths = "off" /\ cuts = "off" /\ repo = "off" /\
          actor = "off" /\ fx = "off" /\ rx = "off" /\ build = "off" /\
          builds = "off" /\ fence = "off" /\ served = "off" /\
          lease = "off" /\ released = "off" /\ box = "off" /\
          outcome = "off" /\ windows = "off" /\ ran = "off" /\
          requests = "off" /\ resyncs = "off"
    \/ /\ scenario = "outbox" /\ Outbox!Init
       /\ epoch = "off" /\ targets = "off" /\ tmux = "off" /\
          producer = "off" /\ up = "off" /\ call = "off" /\ late = "off" /\
          landed = "off" /\ replayed = "off" /\ clock = "off" /\
          issued = "off" /\ window = "off" /\ res = "off" /\ runner = "off" /\
          query = "off" /\ sweep = "off" /\ started = "off" /\
          applied = "off" /\ told = "off" /\ broker = "off" /\
          outbound = "off" /\ toHost = "off" /\ toBroker = "off" /\
          ingress = "off" /\ blocked = "off" /\ host = "off" /\
          closed = "off" /\ seen = "off" /\ core = Attached /\
          entry = Registered /\ calls = {} /\ sealed = FALSE /\ now = 0 /\
          budget = Allowed /\ disk = "off" /\ proc = "off" /\ net = "off" /\
          ids = "off" /\ warned = "off" /\ mat = "off" /\ kill = "off" /\
          rec = "off" /\ resolver = "off" /\ config = "off" /\
          world = "off" /\ flight = "off" /\ made = "off" /\ named = "off" /\
          keys = "off" /\ configs = "off" /\ deaths = "off" /\ cuts = "off" /\
          down = "off" /\ repo = "off" /\ actor = "off" /\ fx = "off" /\
          rx = "off" /\ spent = "off" /\ build = "off" /\ builds = "off" /\
          fence = "off" /\ served = "off" /\ lease = "off" /\
          released = "off" /\ route = "off" /\ cp = "off" /\ view = "off"

SuiteNext ==
    \/ /\ scenario = "control" /\ Control!Next
       /\ UNCHANGED <<scenario, clock, issued, window, ledger, res, runner,
          query, sweep, started, applied, told, broker, outbound, toHost,
          toBroker, ingress, blocked, host, closed, seen, core, entry, calls,
          sealed, now, budget, disk, proc, conn, net, ids, warned, mat, kill,
          rec, resolver, config, world, flight, made, named, keys, configs,
          deaths, cuts, down, repo, actor, fx, rx, spent, build, builds,
          fence, served, lease, released, route, cp, view, failed, box,
          outcome, windows, ran, requests, resyncs>>
    \/ /\ scenario = "retry" /\ Retry!Next
       /\ UNCHANGED <<scenario, epoch, targets, tmux, producer, late, landed,
          replayed, broker, outbound, toHost, toBroker, ingress, blocked,
          host, closed, seen, core, entry, calls, sealed, now, budget, disk,
          proc, conn, net, ids, warned, mat, kill, rec, resolver, config,
          world, flight, made, named, keys, configs, deaths, cuts, down, repo,
          actor, fx, rx, spent, build, builds, fence, served, lease, released,
          route, cp, view, failed, box, outcome, windows, ran, requests,
          resyncs>>
    \/ /\ scenario = "resume" /\ Resume!Next
       /\ UNCHANGED <<scenario, epoch, targets, tmux, producer, up, call,
          late, landed, replayed, faults, clock, issued, window, ledger, res,
          runner, query, sweep, started, applied, told, core, entry, calls,
          sealed, now, budget, disk, proc, conn, net, ids, warned, mat, kill,
          rec, resolver, config, world, flight, made, named, keys, configs,
          deaths, cuts, down, repo, actor, fx, rx, spent, build, builds,
          fence, served, lease, released, route, cp, view, failed, box,
          outcome, windows, ran, requests, resyncs>>
    \/ /\ scenario = "deadline" /\ Next
       /\ UNCHANGED <<scenario, epoch, targets, tmux, producer, up, call,
          late, landed, replayed, faults, clock, issued, window, ledger, res,
          runner, query, sweep, started, applied, told, broker, outbound,
          toHost, toBroker, ingress, blocked, host, closed, seen, disk, proc,
          conn, net, ids, warned, mat, kill, rec, resolver, config, world,
          flight, made, named, keys, configs, deaths, cuts, down, repo, actor,
          fx, rx, spent, build, builds, fence, served, lease, released, route,
          cp, view, failed, box, outcome, windows, ran, requests, resyncs>>
    \/ /\ scenario = "renew" /\ Renew!Next
       /\ UNCHANGED <<scenario, epoch, targets, tmux, producer, up, call,
          late, landed, replayed, clock, issued, window, ledger, res, runner,
          query, sweep, started, applied, told, outbound, toHost, toBroker,
          ingress, blocked, host, closed, seen, core, entry, calls, sealed,
          now, budget, mat, kill, rec, resolver, config, world, flight, made,
          named, keys, configs, deaths, cuts, down, repo, actor, fx, rx,
          spent, build, builds, fence, served, lease, released, route, cp,
          view, failed, box, outcome, windows, ran, requests, resyncs>>
    \/ /\ scenario = "converge" /\ Converge!Next
       /\ UNCHANGED <<scenario, epoch, targets, tmux, producer, call, late,
          landed, replayed, clock, issued, window, res, query, sweep, started,
          applied, told, broker, outbound, toHost, toBroker, ingress, blocked,
          host, closed, seen, core, entry, calls, sealed, now, budget, disk,
          proc, conn, net, ids, warned, cuts, down, repo, actor, fx, rx,
          spent, build, builds, fence, served, lease, released, route, cp,
          view, failed, box, outcome, windows, ran, requests, resyncs>>
    \/ /\ scenario = "killed" /\ Killed!Next
       /\ UNCHANGED <<scenario, epoch, targets, tmux, producer, call, late,
          landed, replayed, clock, issued, window, res, query, sweep, started,
          applied, told, broker, outbound, toHost, toBroker, ingress, blocked,
          host, closed, seen, core, entry, calls, sealed, now, budget, disk,
          proc, conn, net, ids, warned, cuts, down, repo, actor, fx, rx,
          spent, build, builds, fence, served, lease, released, route, cp,
          view, failed, box, outcome, windows, ran, requests, resyncs>>
    \/ /\ scenario = "sync" /\ Sync!Next
       /\ UNCHANGED <<scenario, epoch, targets, tmux, producer, call, late,
          landed, replayed, faults, clock, issued, window, ledger, res,
          runner, query, sweep, started, applied, told, broker, outbound,
          toHost, toBroker, ingress, blocked, closed, seen, core, entry,
          calls, sealed, now, budget, disk, proc, conn, net, ids, warned, mat,
          kill, rec, resolver, config, world, flight, made, named, keys,
          configs, deaths, build, builds, fence, served, lease, released,
          route, cp, view, failed, box, outcome, windows, ran, requests,
          resyncs>>
    \/ /\ scenario = "burst" /\ Burst!Next
       /\ UNCHANGED <<scenario, epoch, targets, tmux, producer, call, late,
          landed, replayed, faults, clock, issued, window, ledger, res,
          runner, query, sweep, started, applied, told, broker, outbound,
          toHost, toBroker, ingress, blocked, closed, seen, core, entry,
          calls, sealed, now, budget, disk, proc, conn, net, ids, warned, mat,
          kill, rec, resolver, config, world, flight, made, named, keys,
          configs, deaths, build, builds, fence, served, lease, released,
          route, cp, view, failed, box, outcome, windows, ran, requests,
          resyncs>>
    \/ /\ scenario = "manual" /\ Manual!Next
       /\ UNCHANGED <<scenario, epoch, targets, tmux, producer, call, late,
          landed, replayed, faults, clock, issued, window, ledger, res,
          runner, query, sweep, started, applied, told, broker, outbound,
          toHost, toBroker, ingress, blocked, closed, seen, core, entry,
          calls, sealed, now, budget, disk, proc, conn, net, ids, warned, mat,
          kill, rec, resolver, config, world, flight, made, named, keys,
          configs, deaths, build, builds, fence, served, lease, released,
          route, cp, view, failed, box, outcome, windows, ran, requests,
          resyncs>>
    \/ /\ scenario = "spool" /\ Spool!Next
       /\ UNCHANGED <<scenario, targets, tmux, producer, up, late, landed,
          replayed, faults, window, ledger, res, runner, query, sweep,
          started, applied, told, broker, outbound, toHost, toBroker, ingress,
          blocked, host, closed, seen, core, entry, calls, sealed, now,
          budget, conn, net, ids, warned, mat, kill, rec, resolver, config,
          world, flight, made, named, keys, configs, deaths, cuts, down, repo,
          actor, fx, rx, route, cp, view, failed, box, outcome, windows, ran,
          requests, resyncs>>
    \/ /\ scenario = "terminal" /\ Terminal!Next
       /\ UNCHANGED <<scenario, epoch, targets, tmux, producer, call, late,
          landed, replayed, faults, clock, issued, window, ledger, res,
          runner, query, sweep, started, applied, told, broker, outbound,
          toHost, toBroker, ingress, blocked, closed, seen, core, entry,
          calls, sealed, now, budget, disk, proc, conn, net, ids, warned, mat,
          kill, rec, resolver, config, world, flight, made, named, keys,
          configs, deaths, cuts, repo, actor, fx, rx, build, builds, fence,
          served, lease, released, box, outcome, windows, ran, requests,
          resyncs>>
    \/ /\ scenario = "stream" /\ Stream!Next
       /\ UNCHANGED <<scenario, epoch, targets, tmux, producer, call, late,
          landed, replayed, faults, clock, issued, window, ledger, res,
          runner, query, sweep, started, applied, told, broker, outbound,
          toHost, toBroker, ingress, blocked, closed, seen, core, entry,
          calls, sealed, now, budget, disk, proc, conn, net, ids, warned, mat,
          kill, rec, resolver, config, world, flight, made, named, keys,
          configs, deaths, cuts, repo, actor, fx, rx, build, builds, fence,
          served, lease, released, box, outcome, windows, ran, requests,
          resyncs>>
    \/ /\ scenario = "outbox" /\ Outbox!Next
       /\ UNCHANGED <<scenario, epoch, targets, tmux, producer, up, call,
          late, landed, replayed, clock, issued, window, res, runner, query,
          sweep, started, applied, told, broker, outbound, toHost, toBroker,
          ingress, blocked, host, closed, seen, core, entry, calls, sealed,
          now, budget, disk, proc, net, ids, warned, mat, kill, rec, resolver,
          config, world, flight, made, named, keys, configs, deaths, cuts,
          down, repo, actor, fx, rx, spent, build, builds, fence, served,
          lease, released, route, cp, view>>

SuiteSpec == SuiteInit /\ [][SuiteNext]_suiteVars

\* The other variables of a scenario do not change.
ControlOff ==
    UNCHANGED <<scenario, clock, issued, window, ledger, res,
        runner, query, sweep, started, applied, told, broker, outbound,
        toHost, toBroker, ingress, blocked, host, closed, seen, core, entry,
        calls, sealed, now, budget, disk, proc, conn, net, ids, warned, mat,
        kill, rec, resolver, config, world, flight, made, named, keys,
        configs, deaths, cuts, down, repo, actor, fx, rx, spent, build,
        builds, fence, served, lease, released, route, cp, view, failed, box,
        outcome, windows, ran, requests, resyncs>>
RetryOff ==
    UNCHANGED <<scenario, epoch, targets, tmux, producer, late,
        landed, replayed, broker, outbound, toHost, toBroker, ingress,
        blocked, host, closed, seen, core, entry, calls, sealed, now, budget,
        disk, proc, conn, net, ids, warned, mat, kill, rec, resolver, config,
        world, flight, made, named, keys, configs, deaths, cuts, down, repo,
        actor, fx, rx, spent, build, builds, fence, served, lease, released,
        route, cp, view, failed, box, outcome, windows, ran, requests, resyncs>>
ResumeOff ==
    UNCHANGED <<scenario, epoch, targets, tmux, producer, up,
        call, late, landed, replayed, faults, clock, issued, window, ledger,
        res, runner, query, sweep, started, applied, told, core, entry, calls,
        sealed, now, budget, disk, proc, conn, net, ids, warned, mat, kill,
        rec, resolver, config, world, flight, made, named, keys, configs,
        deaths, cuts, down, repo, actor, fx, rx, spent, build, builds, fence,
        served, lease, released, route, cp, view, failed, box, outcome,
        windows, ran, requests, resyncs>>
DeadlineOff ==
    UNCHANGED <<scenario, epoch, targets, tmux, producer, up,
        call, late, landed, replayed, faults, clock, issued, window, ledger,
        res, runner, query, sweep, started, applied, told, broker, outbound,
        toHost, toBroker, ingress, blocked, host, closed, seen, disk, proc,
        conn, net, ids, warned, mat, kill, rec, resolver, config, world,
        flight, made, named, keys, configs, deaths, cuts, down, repo, actor,
        fx, rx, spent, build, builds, fence, served, lease, released, route,
        cp, view, failed, box, outcome, windows, ran, requests, resyncs>>
RenewOff ==
    UNCHANGED <<scenario, epoch, targets, tmux, producer, up,
        call, late, landed, replayed, clock, issued, window, ledger, res,
        runner, query, sweep, started, applied, told, outbound, toHost,
        toBroker, ingress, blocked, host, closed, seen, core, entry, calls,
        sealed, now, budget, mat, kill, rec, resolver, config, world, flight,
        made, named, keys, configs, deaths, cuts, down, repo, actor, fx, rx,
        spent, build, builds, fence, served, lease, released, route, cp, view,
        failed, box, outcome, windows, ran, requests, resyncs>>
ConvergeOff ==
    UNCHANGED <<scenario, epoch, targets, tmux, producer, call,
        late, landed, replayed, clock, issued, window, res, query, sweep,
        started, applied, told, broker, outbound, toHost, toBroker, ingress,
        blocked, host, closed, seen, core, entry, calls, sealed, now, budget,
        disk, proc, conn, net, ids, warned, cuts, down, repo, actor, fx, rx,
        spent, build, builds, fence, served, lease, released, route, cp, view,
        failed, box, outcome, windows, ran, requests, resyncs>>
KilledOff ==
    UNCHANGED <<scenario, epoch, targets, tmux, producer, call,
        late, landed, replayed, clock, issued, window, res, query, sweep,
        started, applied, told, broker, outbound, toHost, toBroker, ingress,
        blocked, host, closed, seen, core, entry, calls, sealed, now, budget,
        disk, proc, conn, net, ids, warned, cuts, down, repo, actor, fx, rx,
        spent, build, builds, fence, served, lease, released, route, cp, view,
        failed, box, outcome, windows, ran, requests, resyncs>>
SyncOff ==
    UNCHANGED <<scenario, epoch, targets, tmux, producer, call,
        late, landed, replayed, faults, clock, issued, window, ledger, res,
        runner, query, sweep, started, applied, told, broker, outbound,
        toHost, toBroker, ingress, blocked, closed, seen, core, entry, calls,
        sealed, now, budget, disk, proc, conn, net, ids, warned, mat, kill,
        rec, resolver, config, world, flight, made, named, keys, configs,
        deaths, build, builds, fence, served, lease, released, route, cp,
        view, failed, box, outcome, windows, ran, requests, resyncs>>
BurstOff ==
    UNCHANGED <<scenario, epoch, targets, tmux, producer, call,
        late, landed, replayed, faults, clock, issued, window, ledger, res,
        runner, query, sweep, started, applied, told, broker, outbound,
        toHost, toBroker, ingress, blocked, closed, seen, core, entry, calls,
        sealed, now, budget, disk, proc, conn, net, ids, warned, mat, kill,
        rec, resolver, config, world, flight, made, named, keys, configs,
        deaths, build, builds, fence, served, lease, released, route, cp,
        view, failed, box, outcome, windows, ran, requests, resyncs>>
ManualOff ==
    UNCHANGED <<scenario, epoch, targets, tmux, producer, call,
        late, landed, replayed, faults, clock, issued, window, ledger, res,
        runner, query, sweep, started, applied, told, broker, outbound,
        toHost, toBroker, ingress, blocked, closed, seen, core, entry, calls,
        sealed, now, budget, disk, proc, conn, net, ids, warned, mat, kill,
        rec, resolver, config, world, flight, made, named, keys, configs,
        deaths, build, builds, fence, served, lease, released, route, cp,
        view, failed, box, outcome, windows, ran, requests, resyncs>>
SpoolOff ==
    UNCHANGED <<scenario, targets, tmux, producer, up, late,
        landed, replayed, faults, window, ledger, res, runner, query, sweep,
        started, applied, told, broker, outbound, toHost, toBroker, ingress,
        blocked, host, closed, seen, core, entry, calls, sealed, now, budget,
        conn, net, ids, warned, mat, kill, rec, resolver, config, world,
        flight, made, named, keys, configs, deaths, cuts, down, repo, actor,
        fx, rx, route, cp, view, failed, box, outcome, windows, ran, requests,
        resyncs>>
TerminalOff ==
    UNCHANGED <<scenario, epoch, targets, tmux, producer, call,
        late, landed, replayed, faults, clock, issued, window, ledger, res,
        runner, query, sweep, started, applied, told, broker, outbound,
        toHost, toBroker, ingress, blocked, closed, seen, core, entry, calls,
        sealed, now, budget, disk, proc, conn, net, ids, warned, mat, kill,
        rec, resolver, config, world, flight, made, named, keys, configs,
        deaths, cuts, repo, actor, fx, rx, build, builds, fence, served,
        lease, released, box, outcome, windows, ran, requests, resyncs>>
StreamOff ==
    UNCHANGED <<scenario, epoch, targets, tmux, producer, call,
        late, landed, replayed, faults, clock, issued, window, ledger, res,
        runner, query, sweep, started, applied, told, broker, outbound,
        toHost, toBroker, ingress, blocked, closed, seen, core, entry, calls,
        sealed, now, budget, disk, proc, conn, net, ids, warned, mat, kill,
        rec, resolver, config, world, flight, made, named, keys, configs,
        deaths, cuts, repo, actor, fx, rx, build, builds, fence, served,
        lease, released, box, outcome, windows, ran, requests, resyncs>>
OutboxOff ==
    UNCHANGED <<scenario, epoch, targets, tmux, producer, up,
        call, late, landed, replayed, clock, issued, window, res, runner,
        query, sweep, started, applied, told, broker, outbound, toHost,
        toBroker, ingress, blocked, host, closed, seen, core, entry, calls,
        sealed, now, budget, disk, proc, net, ids, warned, mat, kill, rec,
        resolver, config, world, flight, made, named, keys, configs, deaths,
        cuts, down, repo, actor, fx, rx, spent, build, builds, fence, served,
        lease, released, route, cp, view>>

(* The steps each component takes of its own accord: the x-th operator     *)
(* holds the x-th such step of every scenario. A behaviour stays in one    *)
(* scenario, so fairness of the disjunction is fairness of that scenario's *)
(* step.                                                                   *)

Due1 ==
    \/ scenario = "control" /\ Control!Start /\ ControlOff
    \/ scenario = "retry" /\ Retry!RunnerStep(cmd) /\ RetryOff
    \/ scenario = "resume" /\ Resume!drainHostCarrier /\ ResumeOff
    \/ scenario = "deadline" /\ deadlineFired /\ DeadlineOff
    \/ scenario = "renew" /\ Renew!ServeStep /\ RenewOff
    \/ scenario = "converge" /\ Converge!Reconcile /\ ConvergeOff
    \/ scenario = "killed" /\ Killed!Reconcile /\ KilledOff
    \/ scenario = "sync" /\ Sync!linearizeWelcome /\ SyncOff
    \/ scenario = "burst" /\ Burst!linearizeWelcome /\ BurstOff
    \/ scenario = "manual" /\ Manual!linearizeWelcome /\ ManualOff
    \/ scenario = "spool" /\ Spool!open /\ SpoolOff
    \/ scenario = "terminal" /\ Terminal!ReceiveOpen(1) /\ TerminalOff
    \/ scenario = "stream" /\ Stream!ReceiveOpen(1) /\ StreamOff
    \/ scenario = "outbox" /\ Outbox!Phone /\ OutboxOff

Due2 ==
    \/ scenario = "control" /\ Control!BackendWrite /\ ControlOff
    \/ scenario = "retry" /\ Retry!admit(k1) /\ RetryOff
    \/ scenario = "resume" /\ Resume!acknowledgeHostDelivery /\ ResumeOff
    \/ scenario = "deadline" /\ AnswerCut /\ DeadlineOff
    \/ scenario = "renew" /\ Renew!RetryFired /\ RenewOff
    \/ scenario = "converge" /\ Converge!KillBackend /\ ConvergeOff
    \/ scenario = "killed" /\ Killed!KillBackend /\ KilledOff
    \/ scenario = "sync" /\ Sync!captureCut /\ SyncOff
    \/ scenario = "burst" /\ Burst!captureCut /\ BurstOff
    \/ scenario = "manual" /\ Manual!captureCut /\ ManualOff
    \/ scenario = "terminal" /\ Terminal!ReceiveAck(1) /\ TerminalOff
    \/ scenario = "stream" /\ Stream!ReceiveAck(1) /\ StreamOff
    \/ scenario = "outbox" /\ Outbox!Host /\ OutboxOff

Due3 ==
    \/ scenario = "control" /\ Control!FinishCall /\ ControlOff
    \/ scenario = "retry" /\ Retry!startQuery /\ RetryOff
    \/ scenario = "resume" /\ Resume!acceptFrame /\ ResumeOff
    \/ scenario = "deadline" /\ ApplyCut /\ DeadlineOff
    \/ scenario = "renew" /\ Renew!ReplayFired /\ RenewOff
    \/ scenario = "converge" /\ Converge!KillCommit /\ ConvergeOff
    \/ scenario = "killed" /\ Killed!KillCommit /\ KilledOff
    \/ scenario = "sync" /\ Sync!serveExisting /\ SyncOff
    \/ scenario = "burst" /\ Burst!serveExisting /\ BurstOff
    \/ scenario = "manual" /\ Manual!serveExisting /\ ManualOff
    \/ scenario = "terminal" /\ Terminal!CloseRoute(1) /\ TerminalOff
    \/ scenario = "stream" /\ Stream!CloseRoute(1) /\ StreamOff

Due4 ==
    \/ scenario = "control" /\ Control!Status(t1) /\ ControlOff
    \/ scenario = "retry" /\ Retry!finishQuery(cmd, w1) /\ RetryOff
    \/ scenario = "resume" /\ Resume!receiveHostFrame /\ ResumeOff
    \/ scenario = "deadline" /\ FinishCut /\ DeadlineOff
    \/ scenario = "renew" /\ Renew!AfterExchange /\ RenewOff
    \/ scenario = "converge" /\ Converge!recoverInterrupted /\ ConvergeOff
    \/ scenario = "killed" /\ Killed!recoverInterrupted /\ KilledOff
    \/ scenario = "sync" /\ Sync!releaseCut /\ SyncOff
    \/ scenario = "burst" /\ Burst!releaseCut /\ BurstOff
    \/ scenario = "manual" /\ Manual!releaseCut /\ ManualOff
    \/ scenario = "terminal" /\ Terminal!ReceiveUnbind(1) /\ TerminalOff
    \/ scenario = "stream" /\ Stream!ReceiveUnbind(1) /\ StreamOff

Due5 ==
    \/ scenario = "retry" /\ Retry!recoverInterrupted /\ RetryOff
    \/ scenario = "resume" /\ Resume!hostReceive /\ ResumeOff
    \/ scenario = "deadline" /\ warningDeadlineFired /\ DeadlineOff
    \/ scenario = "renew" /\ Renew!BrokerReauthenticates /\ RenewOff
    \/ scenario = "converge" /\ Converge!claimAccepted(c1) /\ ConvergeOff
    \/ scenario = "killed" /\ Killed!claimAccepted(c1) /\ KilledOff
    \/ scenario = "sync" /\ Sync!queryCommands /\ SyncOff
    \/ scenario = "burst" /\ Burst!queryCommands /\ BurstOff
    \/ scenario = "manual" /\ Manual!queryCommands /\ ManualOff
    \/ scenario = "terminal" /\ Terminal!Connect /\ TerminalOff
    \/ scenario = "stream" /\ Stream!Connect /\ StreamOff

Due6 ==
    \/ scenario = "resume" /\ Resume!flush /\ ResumeOff
    \/ scenario = "deadline" /\ Refresh /\ DeadlineOff
    \/ scenario = "renew" /\ Renew!Acknowledged /\ RenewOff
    \/ scenario = "converge" /\ Converge!Backend(c1) /\ ConvergeOff
    \/ scenario = "killed" /\ Killed!Backend(c1) /\ KilledOff
    \/ scenario = "sync" /\ Sync!ForgottenCut /\ SyncOff
    \/ scenario = "burst" /\ Burst!ForgottenCut /\ BurstOff
    \/ scenario = "manual" /\ Manual!ForgottenCut /\ ManualOff
    \/ scenario = "terminal" /\ Terminal!Attach /\ TerminalOff
    \/ scenario = "stream" /\ Stream!Attach /\ StreamOff

Due7 ==
    \/ scenario = "resume" /\ Resume!drainClient(r1) /\ ResumeOff
    \/ scenario = "deadline" /\ Tick /\ DeadlineOff
    \/ scenario = "renew" /\ Renew!Answer(Owner) /\ RenewOff
    \/ scenario = "converge" /\ Converge!executeTwRpc(c1) /\ ConvergeOff
    \/ scenario = "killed" /\ Killed!executeTwRpc(c1) /\ KilledOff
    \/ scenario = "sync" /\ Sync!Reconnect /\ SyncOff
    \/ scenario = "burst" /\ Burst!Reconnect /\ BurstOff
    \/ scenario = "manual" /\ Manual!Reconnect /\ ManualOff
    \/ scenario = "terminal" /\ Terminal!Detach /\ TerminalOff
    \/ scenario = "stream" /\ Stream!Detach /\ StreamOff

Due8 ==
    \/ scenario = "resume" /\ Resume!acknowledgeClientDelivery(r1) /\ ResumeOff
    \/ scenario = "deadline" /\ CallStep /\ DeadlineOff
    \/ scenario = "renew" /\ Renew!Timeout(Owner) /\ RenewOff
    \/ scenario = "converge" /\ Converge!finalizeRunning(c1) /\ ConvergeOff
    \/ scenario = "killed" /\ Killed!finalizeRunning(c1) /\ KilledOff
    \/ scenario = "sync" /\ Sync!receiveFrame /\ SyncOff
    \/ scenario = "burst" /\ Burst!receiveFrame /\ BurstOff
    \/ scenario = "manual" /\ Manual!receiveFrame /\ ManualOff
    \/ scenario = "terminal" /\ Terminal!applyPostHandshakeFrame /\ TerminalOff
    \/ scenario = "stream" /\ Stream!applyPostHandshakeFrame /\ StreamOff

Due9 ==
    \/ scenario = "deadline" /\ CloseStep /\ DeadlineOff
    \/ scenario = "converge" /\ Converge!finalizeRefused(c1) /\ ConvergeOff
    \/ scenario = "killed" /\ Killed!finalizeRefused(c1) /\ KilledOff
    \/ scenario = "sync" /\ Sync!processRecoveryReceipt /\ SyncOff
    \/ scenario = "burst" /\ Burst!processRecoveryReceipt /\ BurstOff
    \/ scenario = "manual" /\ Manual!processRecoveryReceipt /\ ManualOff
    \/ scenario = "terminal" /\ Terminal!Render /\ TerminalOff
    \/ scenario = "stream" /\ Stream!Render /\ StreamOff

Due10 ==
    \/ scenario = "converge" /\ Converge!markInDoubt(c1) /\ ConvergeOff
    \/ scenario = "killed" /\ Killed!markInDoubt(c1) /\ KilledOff
    \/ scenario = "sync" /\ Sync!consume /\ SyncOff
    \/ scenario = "burst" /\ Burst!consume /\ BurstOff
    \/ scenario = "manual" /\ Manual!consume /\ ManualOff
    \/ scenario = "terminal" /\ Terminal!ParserCallback /\ TerminalOff
    \/ scenario = "stream" /\ Stream!ParserCallback /\ StreamOff

Due11 ==
    \/ scenario = "sync" /\ Sync!handleRecoveryTimeout /\ SyncOff
    \/ scenario = "burst" /\ Burst!handleRecoveryTimeout /\ BurstOff
    \/ scenario = "manual" /\ Manual!handleRecoveryTimeout /\ ManualOff
    \/ scenario = "terminal" /\ Terminal!parserEffectsActivated /\ TerminalOff
    \/ scenario = "stream" /\ Stream!parserEffectsActivated /\ StreamOff

(* Steps that must happen if they are possible again and again: the        *)
(* spool's operations, whose lock is given in turn.                        *)

Recurring1 ==
    \/ scenario = "spool" /\ Spool!CallStep(1) /\ SpoolOff

Recurring2 ==
    \/ scenario = "spool" /\ Spool!CallStep(2) /\ SpoolOff

Recurring3 ==
    \/ scenario = "spool" /\ Spool!BuildStep(1) /\ SpoolOff

Recurring4 ==
    \/ scenario = "spool" /\ Spool!BuildStep(2) /\ SpoolOff

SuiteFairSpec ==
    /\ SuiteSpec
    /\ WF_suiteVars(Due1) /\ WF_suiteVars(Due2) /\ WF_suiteVars(Due3)
    /\ WF_suiteVars(Due4) /\ WF_suiteVars(Due5) /\ WF_suiteVars(Due6)
    /\ WF_suiteVars(Due7) /\ WF_suiteVars(Due8) /\ WF_suiteVars(Due9)
    /\ WF_suiteVars(Due10) /\ WF_suiteVars(Due11)
    /\ SF_suiteVars(Recurring1) /\ SF_suiteVars(Recurring2) /\ SF_suiteVars(Recurring3)
    /\ SF_suiteVars(Recurring4)

-----------------------------------------------------------------------------
(* An operation of terminal control that was begun is settled; so is a     *)
(* command its host has a runner for or is down with, though not one whose *)
(* runner a storage fault ended; a paused route is resumed and an unbound  *)
(* one released, unless it was paused when it was unbound or the host lost *)
(* its answer at a full queue; an expired connection is closed, unless its *)
(* owner let go of it after a suspension as long as the lead; a warned one *)
(* is renewed past the expiring token or replaced; each of two calls for a *)
(* snapshot ends. Polling and timers alone see to it, and each of the      *)
(* exceptions occurs in this run.                                          *)
NothingStaysPending ==
    /\ []<>~ (\/ In("control", Control!Pending(targets[t1]))
             \/ In("retry", Retry!Unfinished(cmd))
             \/ In("resume", Resume!PausedRoute(r1))
             \/ In("deadline", Overdue(core.cred) /\ ~sealed)
             \/ In("renew", Renew!StillWarned)
             \/ In("spool", call[1].pc # "idle"))
    /\ []<>~ (\/ In("resume", Resume!UnboundRoute(r1))
             \/ In("spool", call[2].pc # "idle"))

(* An expired lease is taken back by polling alone, nobody has to acquire  *)
(* the target first; and a target that an interactive owner abandoned does *)
(* not stay fenced while its session lives and tmux carries the recorded   *)
(* generation: polling reopens it (reconcileAbandonedOwnership).           *)
AbandonedTargetReopens ==
    /\ []<>~ (In("control", Control!leaseExpired(targets[t1])))
    /\ []<>~ (In("control", Control!Abandoned(t1)))

(* Once the world and the faults end, the host's list of sessions becomes  *)
(* the world for good, unless the session of a running command was killed  *)
(* and its reservation with it, which ends the recovery of the host; the   *)
(* client's copy catches up with the host for good, unless its connection  *)
(* failed or what it lacks was lost on the way (InStep); the screen of a   *)
(* renderer that works shows all a running terminal wrote, also one that   *)
(* was lost, unless the host answers each further open as it did one       *)
(* before (Denied); and while its runtime works no command of the outbox   *)
(* is left on its way. Each exception occurs in this run (runReconcile,    *)
(* RelayV2ConnectionActor, RelayV2TerminalCheckpointReducer,               *)
(* scheduleCommandDeliveryWatchdog).                                       *)
CopiesConverge ==
    [](scenario = "killed" => Killed!ReservationNeverDisappears)
      => <>[](/\ scenario = "converge" => Converge!Listed
              /\ scenario = "killed" => Killed!Listed
              /\ scenario = "sync" => Sync!InStep
              /\ scenario = "burst" => Burst!InStep
              /\ scenario = "manual" => Manual!InStep
              /\ scenario = "terminal" => Terminal!Shown \/ Terminal!Denied
              /\ scenario = "stream" => Stream!Shown \/ Stream!Denied
              /\ scenario = "outbox" => Outbox!AllResolved)

=============================================================================
