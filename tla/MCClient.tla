----------------------------- MODULE MCClient -----------------------------
(***************************************************************************)
(* Scenarios of the Android client, of its host and of the host's          *)
(* credential: each initial state chooses one, and only that instance      *)
(* takes steps.                                                            *)
(***************************************************************************)
EXTENDS CredentialRotation, Naturals, FiniteSets, Sequences, TLC

VARIABLES scenario,
          host, cuts, up, down, repo, actor, fx, rx, spent, route, cp, view,
          failed

\* Reconnects, host restarts and manual resyncs.
Connecting == INSTANCE StateSync WITH KeyCount <- 2, Requests <- {1, 2, 3},
    MaxEvents <- 2, MaxEpochs <- 2, MaxBuffer <- 3, MaxPinned <- 2,
    MaxDrops <- 1, MaxExpiries <- 0, MaxGaps <- 0, MaxManual <- 0,
    MaxHosts <- 0, Uncertain <- {TRUE}, Commands <- {TRUE}

\* Pinned cuts expire while their chunks are read.
LeaseEnds == INSTANCE StateSync WITH KeyCount <- 2, Requests <- {1, 2, 3},
    MaxEvents <- 2, MaxEpochs <- 1, MaxBuffer <- 3, MaxPinned <- 2,
    MaxDrops <- 1, MaxExpiries <- 1, MaxGaps <- 0, MaxManual <- 0,
    MaxHosts <- 0, Uncertain <- {}, Commands <- {TRUE, FALSE}

\* Events are lost on the way.
Gaps == INSTANCE StateSync WITH KeyCount <- 2, Requests <- {1, 2, 3},
    MaxEvents <- 2, MaxEpochs <- 1, MaxBuffer <- 4, MaxPinned <- 2,
    MaxDrops <- 0, MaxExpiries <- 0, MaxGaps <- 1, MaxManual <- 1,
    MaxHosts <- 1, Uncertain <- {}, Commands <- {FALSE}

\* More events than the client buffers.
Overflow == INSTANCE StateSync WITH KeyCount <- 2, Requests <- {1, 2, 3},
    MaxEvents <- 3, MaxEpochs <- 1, MaxBuffer <- 1, MaxPinned <- 2,
    MaxDrops <- 0, MaxExpiries <- 1, MaxGaps <- 0, MaxManual <- 0,
    MaxHosts <- 0, Uncertain <- {}, Commands <- {FALSE}

\* The same with snapshots of one chunk.
Single == INSTANCE StateSync WITH KeyCount <- 1, Requests <- {1, 2, 3},
    MaxEvents <- 3, MaxEpochs <- 1, MaxBuffer <- 1, MaxPinned <- 2,
    MaxDrops <- 0, MaxExpiries <- 0, MaxGaps <- 1, MaxManual <- 0,
    MaxHosts <- 0, Uncertain <- {}, Commands <- {FALSE}

\* A commit of uncertain disposition that is lost.
UncertainCommit == INSTANCE StateSync WITH KeyCount <- 1,
    Requests <- {1, 2, 3}, MaxEvents <- 2, MaxEpochs <- 1, MaxBuffer <- 3,
    MaxPinned <- 2, MaxDrops <- 1, MaxExpiries <- 0, MaxGaps <- 0,
    MaxManual <- 0, MaxHosts <- 0, Uncertain <- {TRUE, FALSE},
    Commands <- {TRUE}

\* A terminal's output over a lost connection and a lost stream.
Screen == INSTANCE TerminalOutput WITH RingBytes <- 2, MaxUnacked <- 1,
    MaxFrame <- 1, MaxBytes <- 3, MaxGens <- 3, MaxOpens <- 3, MaxRoutes <- 2,
    MaxDrops <- 1, MaxRestarts <- 0, MaxLosses <- 1, MaxViews <- 0,
    MaxExpiries <- 0, MaxRefusals <- 0

\* The same over a restart of the host.
ScreenRestart == INSTANCE TerminalOutput WITH RingBytes <- 2, MaxUnacked <- 1,
    MaxFrame <- 1, MaxBytes <- 3, MaxGens <- 3, MaxOpens <- 3, MaxRoutes <- 2,
    MaxDrops <- 1, MaxRestarts <- 1, MaxLosses <- 0, MaxViews <- 0,
    MaxExpiries <- 0, MaxRefusals <- 0

\* Leases and records expire, and an open is refused.
ScreenForget == INSTANCE TerminalOutput WITH RingBytes <- 2, MaxUnacked <- 2,
    MaxFrame <- 1, MaxBytes <- 1, MaxGens <- 3, MaxOpens <- 3, MaxRoutes <- 2,
    MaxDrops <- 1, MaxRestarts <- 0, MaxLosses <- 0, MaxViews <- 0,
    MaxExpiries <- 2, MaxRefusals <- 1

\* Frames of two bytes.
ScreenFrames == INSTANCE TerminalOutput WITH RingBytes <- 4, MaxUnacked <- 3,
    MaxFrame <- 2, MaxBytes <- 4, MaxGens <- 3, MaxOpens <- 3, MaxRoutes <- 2,
    MaxDrops <- 1, MaxRestarts <- 0, MaxLosses <- 0, MaxViews <- 0,
    MaxExpiries <- 0, MaxRefusals <- 0

\* The renderer fails.
ScreenViews == INSTANCE TerminalOutput WITH RingBytes <- 2, MaxUnacked <- 1,
    MaxFrame <- 1, MaxBytes <- 2, MaxGens <- 3, MaxOpens <- 3, MaxRoutes <- 2,
    MaxDrops <- 1, MaxRestarts <- 0, MaxLosses <- 0, MaxViews <- 1,
    MaxExpiries <- 0, MaxRefusals <- 0

\* A host fetches its first credential and rotates it over two connections,
\* with one fault of any kind and a restart.
\* (The module itself, with the constants of the configuration: scenario "rotation".)

ASSUME ConnectingBounds == Connecting!BoundsAssumption
ASSUME LeaseEndsBounds == LeaseEnds!BoundsAssumption
ASSUME GapsBounds == Gaps!BoundsAssumption
ASSUME OverflowBounds == Overflow!BoundsAssumption
ASSUME SingleBounds == Single!BoundsAssumption
ASSUME UncertainCommitBounds == UncertainCommit!BoundsAssumption
ASSUME ScreenBounds == Screen!BoundsAssumption
ASSUME ScreenRestartBounds == ScreenRestart!BoundsAssumption
ASSUME ScreenForgetBounds == ScreenForget!BoundsAssumption
ASSUME ScreenFramesBounds == ScreenFrames!BoundsAssumption
ASSUME ScreenViewsBounds == ScreenViews!BoundsAssumption
ASSUME RotationBounds == BoundsAssumption

suiteVars == <<scenario, host, cuts, up, down, repo, actor, fx, rx, spent,
          route, cp, view, failed, disk, proc, conn, broker, net, ids, faults,
          warned>>

\* The variables of no component of the scenario are off, those of CredentialRotation initial.
SuiteInit ==
    \/ /\ scenario = "connect" /\ Connecting!Init
       /\ route = "off" /\ cp = "off" /\ view = "off" /\ failed = "off" /\
          disk = None /\ proc = NewProcess(1) /\ conn = Closed /\
          broker = [boot |-> "open", tok |-> 0, revoked |-> FALSE, conn |-> 0, jti |-> 0, replays |-> {}, lapsed |-> {}] /\
          net = [reqs |-> {}, resps |-> {}, frames |-> {}, acks |-> {}] /\
          ids = 0 /\ faults = 0 /\ warned = [conn |-> 0, sig |-> 0]
    \/ /\ scenario = "lease" /\ LeaseEnds!Init
       /\ route = "off" /\ cp = "off" /\ view = "off" /\ failed = "off" /\
          disk = None /\ proc = NewProcess(1) /\ conn = Closed /\
          broker = [boot |-> "open", tok |-> 0, revoked |-> FALSE, conn |-> 0, jti |-> 0, replays |-> {}, lapsed |-> {}] /\
          net = [reqs |-> {}, resps |-> {}, frames |-> {}, acks |-> {}] /\
          ids = 0 /\ faults = 0 /\ warned = [conn |-> 0, sig |-> 0]
    \/ /\ scenario = "gaps" /\ Gaps!Init
       /\ route = "off" /\ cp = "off" /\ view = "off" /\ failed = "off" /\
          disk = None /\ proc = NewProcess(1) /\ conn = Closed /\
          broker = [boot |-> "open", tok |-> 0, revoked |-> FALSE, conn |-> 0, jti |-> 0, replays |-> {}, lapsed |-> {}] /\
          net = [reqs |-> {}, resps |-> {}, frames |-> {}, acks |-> {}] /\
          ids = 0 /\ faults = 0 /\ warned = [conn |-> 0, sig |-> 0]
    \/ /\ scenario = "overflow" /\ Overflow!Init
       /\ route = "off" /\ cp = "off" /\ view = "off" /\ failed = "off" /\
          disk = None /\ proc = NewProcess(1) /\ conn = Closed /\
          broker = [boot |-> "open", tok |-> 0, revoked |-> FALSE, conn |-> 0, jti |-> 0, replays |-> {}, lapsed |-> {}] /\
          net = [reqs |-> {}, resps |-> {}, frames |-> {}, acks |-> {}] /\
          ids = 0 /\ faults = 0 /\ warned = [conn |-> 0, sig |-> 0]
    \/ /\ scenario = "single" /\ Single!Init
       /\ route = "off" /\ cp = "off" /\ view = "off" /\ failed = "off" /\
          disk = None /\ proc = NewProcess(1) /\ conn = Closed /\
          broker = [boot |-> "open", tok |-> 0, revoked |-> FALSE, conn |-> 0, jti |-> 0, replays |-> {}, lapsed |-> {}] /\
          net = [reqs |-> {}, resps |-> {}, frames |-> {}, acks |-> {}] /\
          ids = 0 /\ faults = 0 /\ warned = [conn |-> 0, sig |-> 0]
    \/ /\ scenario = "uncertain" /\ UncertainCommit!Init
       /\ route = "off" /\ cp = "off" /\ view = "off" /\ failed = "off" /\
          disk = None /\ proc = NewProcess(1) /\ conn = Closed /\
          broker = [boot |-> "open", tok |-> 0, revoked |-> FALSE, conn |-> 0, jti |-> 0, replays |-> {}, lapsed |-> {}] /\
          net = [reqs |-> {}, resps |-> {}, frames |-> {}, acks |-> {}] /\
          ids = 0 /\ faults = 0 /\ warned = [conn |-> 0, sig |-> 0]
    \/ /\ scenario = "screen" /\ Screen!Init
       /\ cuts = "off" /\ repo = "off" /\ actor = "off" /\ fx = "off" /\
          rx = "off" /\ disk = None /\ proc = NewProcess(1) /\
          conn = Closed /\
          broker = [boot |-> "open", tok |-> 0, revoked |-> FALSE, conn |-> 0, jti |-> 0, replays |-> {}, lapsed |-> {}] /\
          net = [reqs |-> {}, resps |-> {}, frames |-> {}, acks |-> {}] /\
          ids = 0 /\ faults = 0 /\ warned = [conn |-> 0, sig |-> 0]
    \/ /\ scenario = "restart" /\ ScreenRestart!Init
       /\ cuts = "off" /\ repo = "off" /\ actor = "off" /\ fx = "off" /\
          rx = "off" /\ disk = None /\ proc = NewProcess(1) /\
          conn = Closed /\
          broker = [boot |-> "open", tok |-> 0, revoked |-> FALSE, conn |-> 0, jti |-> 0, replays |-> {}, lapsed |-> {}] /\
          net = [reqs |-> {}, resps |-> {}, frames |-> {}, acks |-> {}] /\
          ids = 0 /\ faults = 0 /\ warned = [conn |-> 0, sig |-> 0]
    \/ /\ scenario = "forget" /\ ScreenForget!Init
       /\ cuts = "off" /\ repo = "off" /\ actor = "off" /\ fx = "off" /\
          rx = "off" /\ disk = None /\ proc = NewProcess(1) /\
          conn = Closed /\
          broker = [boot |-> "open", tok |-> 0, revoked |-> FALSE, conn |-> 0, jti |-> 0, replays |-> {}, lapsed |-> {}] /\
          net = [reqs |-> {}, resps |-> {}, frames |-> {}, acks |-> {}] /\
          ids = 0 /\ faults = 0 /\ warned = [conn |-> 0, sig |-> 0]
    \/ /\ scenario = "frames" /\ ScreenFrames!Init
       /\ cuts = "off" /\ repo = "off" /\ actor = "off" /\ fx = "off" /\
          rx = "off" /\ disk = None /\ proc = NewProcess(1) /\
          conn = Closed /\
          broker = [boot |-> "open", tok |-> 0, revoked |-> FALSE, conn |-> 0, jti |-> 0, replays |-> {}, lapsed |-> {}] /\
          net = [reqs |-> {}, resps |-> {}, frames |-> {}, acks |-> {}] /\
          ids = 0 /\ faults = 0 /\ warned = [conn |-> 0, sig |-> 0]
    \/ /\ scenario = "views" /\ ScreenViews!Init
       /\ cuts = "off" /\ repo = "off" /\ actor = "off" /\ fx = "off" /\
          rx = "off" /\ disk = None /\ proc = NewProcess(1) /\
          conn = Closed /\
          broker = [boot |-> "open", tok |-> 0, revoked |-> FALSE, conn |-> 0, jti |-> 0, replays |-> {}, lapsed |-> {}] /\
          net = [reqs |-> {}, resps |-> {}, frames |-> {}, acks |-> {}] /\
          ids = 0 /\ faults = 0 /\ warned = [conn |-> 0, sig |-> 0]
    \/ /\ scenario = "rotation" /\ Init
       /\ host = "off" /\ cuts = "off" /\ up = "off" /\ down = "off" /\
          repo = "off" /\ actor = "off" /\ fx = "off" /\ rx = "off" /\
          spent = "off" /\ route = "off" /\ cp = "off" /\ view = "off" /\
          failed = "off"

SuiteNext ==
    \/ /\ scenario = "connect" /\ Connecting!Next
       /\ UNCHANGED <<scenario, route, cp, view, failed, disk, proc, conn,
          broker, net, ids, faults, warned>>
    \/ /\ scenario = "lease" /\ LeaseEnds!Next
       /\ UNCHANGED <<scenario, route, cp, view, failed, disk, proc, conn,
          broker, net, ids, faults, warned>>
    \/ /\ scenario = "gaps" /\ Gaps!Next
       /\ UNCHANGED <<scenario, route, cp, view, failed, disk, proc, conn,
          broker, net, ids, faults, warned>>
    \/ /\ scenario = "overflow" /\ Overflow!Next
       /\ UNCHANGED <<scenario, route, cp, view, failed, disk, proc, conn,
          broker, net, ids, faults, warned>>
    \/ /\ scenario = "single" /\ Single!Next
       /\ UNCHANGED <<scenario, route, cp, view, failed, disk, proc, conn,
          broker, net, ids, faults, warned>>
    \/ /\ scenario = "uncertain" /\ UncertainCommit!Next
       /\ UNCHANGED <<scenario, route, cp, view, failed, disk, proc, conn,
          broker, net, ids, faults, warned>>
    \/ /\ scenario = "screen" /\ Screen!Next
       /\ UNCHANGED <<scenario, cuts, repo, actor, fx, rx, disk, proc, conn,
          broker, net, ids, faults, warned>>
    \/ /\ scenario = "restart" /\ ScreenRestart!Next
       /\ UNCHANGED <<scenario, cuts, repo, actor, fx, rx, disk, proc, conn,
          broker, net, ids, faults, warned>>
    \/ /\ scenario = "forget" /\ ScreenForget!Next
       /\ UNCHANGED <<scenario, cuts, repo, actor, fx, rx, disk, proc, conn,
          broker, net, ids, faults, warned>>
    \/ /\ scenario = "frames" /\ ScreenFrames!Next
       /\ UNCHANGED <<scenario, cuts, repo, actor, fx, rx, disk, proc, conn,
          broker, net, ids, faults, warned>>
    \/ /\ scenario = "views" /\ ScreenViews!Next
       /\ UNCHANGED <<scenario, cuts, repo, actor, fx, rx, disk, proc, conn,
          broker, net, ids, faults, warned>>
    \/ /\ scenario = "rotation" /\ Next
       /\ UNCHANGED <<scenario, host, cuts, up, down, repo, actor, fx, rx,
          spent, route, cp, view, failed>>

SuiteSpec == SuiteInit /\ [][SuiteNext]_suiteVars

-----------------------------------------------------------------------------
(* The client's database holds one state the host really had, whatever     *)
(* chunks, buffered events and restarts it was put together from, and is   *)
(* not declared live while a later event is known                          *)
(* (RelayV2StateSyncRepositoryCore, stateSnapshotSpool.ts).                *)
CacheIsACut ==
    /\ scenario = "connect" => Connecting!TypeOK
    /\ scenario = "lease" => LeaseEnds!TypeOK
    /\ scenario = "gaps" => Gaps!TypeOK
    /\ scenario = "connect" => Connecting!CacheIsACut
    /\ scenario = "connect" => Connecting!LiveIsCurrent
    /\ scenario = "lease" => LeaseEnds!CacheIsACut
    /\ scenario = "lease" => LeaseEnds!LiveIsCurrent
    /\ scenario = "gaps" => Gaps!CacheIsACut
    /\ scenario = "gaps" => Gaps!LiveIsCurrent
    /\ scenario = "overflow" => Overflow!CacheIsACut
    /\ scenario = "overflow" => Overflow!LiveIsCurrent
    /\ scenario = "single" => Single!CacheIsACut
    /\ scenario = "single" => Single!LiveIsCurrent
    /\ scenario = "uncertain" => UncertainCommit!CacheIsACut
    /\ scenario = "uncertain" => UncertainCommit!LiveIsCurrent

(* An online actor works on a live database, and a recovery always waits   *)
(* for something that is under way, but for one case in which its watchdog *)
(* must end it: an overflow of the event buffer while the only chunk of a  *)
(* first snapshot is on its way. The client gives its profile up over an   *)
(* answer of the host only when an uncertain commit proved lost or a       *)
(* request was given up at an overflow of the event buffer, and an effect  *)
(* contradicts the database only when a cut expires after such an overflow *)
(* has abandoned it; all of these happen in this run                       *)
(* (RelayV2ConnectionActor, RelayV2BaseRuntimeComposition).                *)
SyncNeverWedges ==
    /\ [](scenario = "connect" => Connecting!NeverStalls)
    /\ [](scenario = "connect" => Connecting!OnlineIsLive)
    /\ [](scenario = "lease" => LeaseEnds!NeverStalls)
    /\ [](scenario = "lease" => LeaseEnds!OnlineIsLive)
    /\ [](scenario = "gaps" => Gaps!NeverStalls)
    /\ [](scenario = "gaps" => Gaps!OnlineIsLive)
    /\ [](scenario = "overflow" => Overflow!NeverStalls)
    /\ [](scenario = "overflow" => Overflow!OnlineIsLive)
    /\ [](scenario = "single" => Single!NeverStalls)
    /\ [](scenario = "single" => Single!OnlineIsLive)
    /\ [](scenario = "uncertain" => UncertainCommit!NeverStalls)
    /\ [](scenario = "uncertain" => UncertainCommit!OnlineIsLive)
    /\ [][/\ scenario = "connect" => Connecting!FailsStep
          /\ scenario = "connect" => Connecting!BreaksStep
          /\ scenario = "lease" => LeaseEnds!FailsStep
          /\ scenario = "lease" => LeaseEnds!BreaksStep
          /\ scenario = "gaps" => Gaps!FailsStep
          /\ scenario = "gaps" => Gaps!BreaksStep
          /\ scenario = "overflow" => Overflow!FailsStep
          /\ scenario = "overflow" => Overflow!BreaksStep
          /\ scenario = "single" => Single!FailsStep
          /\ scenario = "single" => Single!BreaksStep
          /\ scenario = "uncertain" => UncertainCommit!FailsStep
          /\ scenario = "uncertain" => UncertainCommit!BreaksStep]_suiteVars

(* What the phone shows of a terminal is what its program wrote: while no  *)
(* reset is due the screen holds the bytes the checkpoint counts as        *)
(* parsed, in order, once and of one generation, and a terminal that is    *)
(* shown as ended is shown whole, whatever is lost, replayed, restarted or *)
(* expires (terminalManager.ts, RelayV2TerminalCheckpointReducer).         *)
ScreenIsTheStream ==
    /\ scenario = "screen" => Screen!TypeOK
    /\ scenario = "restart" => ScreenRestart!TypeOK
    /\ scenario = "forget" => ScreenForget!TypeOK
    /\ scenario = "screen" => Screen!ScreenIsTheStream
    /\ scenario = "screen" => Screen!EndedIsComplete
    /\ scenario = "screen" => Screen!NoGap
    /\ scenario = "restart" => ScreenRestart!ScreenIsTheStream
    /\ scenario = "restart" => ScreenRestart!EndedIsComplete
    /\ scenario = "restart" => ScreenRestart!NoGap
    /\ scenario = "forget" => ScreenForget!ScreenIsTheStream
    /\ scenario = "forget" => ScreenForget!EndedIsComplete
    /\ scenario = "forget" => ScreenForget!NoGap
    /\ scenario = "frames" => ScreenFrames!ScreenIsTheStream
    /\ scenario = "frames" => ScreenFrames!EndedIsComplete
    /\ scenario = "frames" => ScreenFrames!NoGap
    /\ scenario = "views" => ScreenViews!ScreenIsTheStream
    /\ scenario = "views" => ScreenViews!EndedIsComplete
    /\ scenario = "views" => ScreenViews!NoGap

(* A bound client is sent all that its credit allows from a ring that      *)
(* still holds what it has not acknowledged, and while its renderer works  *)
(* no terminal frame stops the client's runtime (pump, appendOutput,       *)
(* applyPostHandshakeFrame).                                               *)
OutputIsServed ==
    /\ scenario = "screen" => Screen!BoundIsServed
    /\ scenario = "restart" => ScreenRestart!BoundIsServed
    /\ scenario = "forget" => ScreenForget!BoundIsServed
    /\ scenario = "frames" => ScreenFrames!BoundIsServed
    /\ scenario = "views" => ScreenViews!BoundIsServed
    /\ scenario = "screen" => Screen!NeverUnowned
    /\ scenario = "restart" => ScreenRestart!NeverUnowned
    /\ scenario = "forget" => ScreenForget!NeverUnowned
    /\ scenario = "frames" => ScreenFrames!NeverUnowned

=============================================================================
