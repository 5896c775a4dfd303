----------------------------- MODULE MCStores -----------------------------
(***************************************************************************)
(* Scenarios of the host's durable stores (command ledger, resource state, *)
(* snapshot spool): each initial state chooses one, and only that instance *)
(* takes steps.                                                            *)
(***************************************************************************)
EXTENDS CommandLedger, Naturals, FiniteSets, Sequences, TLC

CONSTANTS None, c1, c2, c3, cmd, k1, w1, w2

VARIABLES scenario,
          mat, commands, kill, rec, resolver, config, world, flight, made,
          named, keys, configs, deaths, disk, build, builds, proc, epoch,
          fence, served, lease, released, spent

\* One create command sent twice until its record is a tombstone and gone.
\* (The module itself, with the constants of the configuration: scenario "retention".)

\* One command sent under two windows.
Windows == INSTANCE CommandLedger WITH Cmd <- {cmd}, Win <- {w2, w1},
    Call <- {k1}, Create <- {cmd}, AcceptFor <- 1, ResultFor <- 1,
    DedupeFor <- 1, MaxTime <- 3, MaxFaults <- 1, ClockSteps <- FALSE

\* Two commands for one name while scans, kills and restarts fail.
Writers == INSTANCE ResourceState WITH Scope <- {1}, Cmd <- {c1, c2},
    ScopeOf <- [c \in {c1, c2} |-> 1], TargetOf <- [c \in {c1, c2} |-> 1],
    Attempts <- 2, MaxRecords <- 6, MaxKeys <- 2, MaxFaults <- 1,
    MaxConfig <- 0, MaxDeaths <- 1, ledger <- commands

\* Two scopes, one of which is taken out of the configuration.
Scopes == INSTANCE ResourceState WITH Scope <- {1, 2}, Cmd <- {c3},
    ScopeOf <- [c \in {c3} |-> 1], TargetOf <- [c \in {c3} |-> 1],
    Attempts <- 2, MaxRecords <- 7, MaxKeys <- 2, MaxFaults <- 0,
    MaxConfig <- 2, MaxDeaths <- 0, ledger <- commands

\* Two callers of one request and two crashes.
SpoolCrash == INSTANCE SnapshotSpool WITH Keys <- {1}, Callers <- {1,2},
    MaxSnapshots <- 3, MaxCuts <- 2, MaxTombstones <- 2, IdleLease <- 2,
    AbsoluteLease <- 3, TombstoneLife <- 2, MaxTime <- 3, MaxEpochs <- 1,
    MaxCrashes <- 2, MaxFailures <- 0, MaxRevokes <- 0, MaxBusy <- 1,
    Torn <- {"partial","bare"}

\* Two requests compete for one quota.
SpoolTwo == INSTANCE SnapshotSpool WITH Keys <- {1,2}, Callers <- {1,2},
    MaxSnapshots <- 2, MaxCuts <- 1, MaxTombstones <- 1, IdleLease <- 2,
    AbsoluteLease <- 3, TombstoneLife <- 2, MaxTime <- 3, MaxEpochs <- 1,
    MaxCrashes <- 1, MaxFailures <- 0, MaxRevokes <- 0, MaxBusy <- 0,
    Torn <- {"bare"}

\* The host withdraws the port while cuts are built.
SpoolRevoke == INSTANCE SnapshotSpool WITH Keys <- {1}, Callers <- {1,2},
    MaxSnapshots <- 3, MaxCuts <- 2, MaxTombstones <- 2, IdleLease <- 2,
    AbsoluteLease <- 3, TombstoneLife <- 2, MaxTime <- 2, MaxEpochs <- 1,
    MaxCrashes <- 1, MaxFailures <- 1, MaxRevokes <- 1, MaxBusy <- 0,
    Torn <- {"bare"}

\* The epoch of the host changes under a pinned cut.
SpoolLineage == INSTANCE SnapshotSpool WITH Keys <- {1}, Callers <- {1,2},
    MaxSnapshots <- 2, MaxCuts <- 2, MaxTombstones <- 2, IdleLease <- 2,
    AbsoluteLease <- 3, TombstoneLife <- 2, MaxTime <- 2, MaxEpochs <- 2,
    MaxCrashes <- 1, MaxFailures <- 0, MaxRevokes <- 0, MaxBusy <- 0,
    Torn <- {"bare"}

ASSUME RetentionBounds == CommandLedgerAssumption
ASSUME WindowsBounds == Windows!CommandLedgerAssumption
ASSUME WritersBounds == Writers!ResourceStateAssumption
ASSUME ScopesBounds == Scopes!ResourceStateAssumption
ASSUME SpoolCrashBounds == SpoolCrash!SpoolAssumption
ASSUME SpoolTwoBounds == SpoolTwo!SpoolAssumption
ASSUME SpoolRevokeBounds == SpoolRevoke!SpoolAssumption
ASSUME SpoolLineageBounds == SpoolLineage!SpoolAssumption

suiteVars == <<scenario, now, issued, window, ledger, res, call, runner,
          query, sweep, up, faults, started, applied, told, mat, commands,
          kill, rec, resolver, config, world, flight, made, named, keys,
          configs, deaths, disk, build, builds, proc, epoch, fence, served,
          lease, released, spent>>

\* The variables of no component of the scenario are off, those of CommandLedger initial.
SuiteInit ==
    \/ /\ scenario = "retention" /\ Init
       /\ mat = "off" /\ commands = "off" /\ kill = "off" /\ rec = "off" /\
          resolver = "off" /\ config = "off" /\ world = "off" /\
          flight = "off" /\ made = "off" /\ named = "off" /\ keys = "off" /\
          configs = "off" /\ deaths = "off" /\ disk = "off" /\
          build = "off" /\ builds = "off" /\ proc = "off" /\ epoch = "off" /\
          fence = "off" /\ served = "off" /\ lease = "off" /\
          released = "off" /\ spent = "off"
    \/ /\ scenario = "windows" /\ Windows!Init
       /\ mat = "off" /\ commands = "off" /\ kill = "off" /\ rec = "off" /\
          resolver = "off" /\ config = "off" /\ world = "off" /\
          flight = "off" /\ made = "off" /\ named = "off" /\ keys = "off" /\
          configs = "off" /\ deaths = "off" /\ disk = "off" /\
          build = "off" /\ builds = "off" /\ proc = "off" /\ epoch = "off" /\
          fence = "off" /\ served = "off" /\ lease = "off" /\
          released = "off" /\ spent = "off"
    \/ /\ scenario = "writers" /\ Writers!Init
       /\ now = 0 /\ issued = {} /\ window = [w \in Win |-> NoWindow] /\
          ledger = [c \in Cmd |-> NoCommand] /\
          res = [cw \in Cmd \X Win |-> "none"] /\
          call = [k \in Call |-> Idle] /\ query = NoQuery /\ sweep = NoTime /\
          started = [cw \in Cmd \X Win |-> 0] /\ applied = {} /\ told = {} /\
          disk = "off" /\ build = "off" /\ builds = "off" /\ proc = "off" /\
          epoch = "off" /\ fence = "off" /\ served = "off" /\ lease = "off" /\
          released = "off" /\ spent = "off"
    \/ /\ scenario = "scopes" /\ Scopes!Init
       /\ now = 0 /\ issued = {} /\ window = [w \in Win |-> NoWindow] /\
          ledger = [c \in Cmd |-> NoCommand] /\
          res = [cw \in Cmd \X Win |-> "none"] /\
          call = [k \in Call |-> Idle] /\ query = NoQuery /\ sweep = NoTime /\
          started = [cw \in Cmd \X Win |-> 0] /\ applied = {} /\ told = {} /\
          disk = "off" /\ build = "off" /\ builds = "off" /\ proc = "off" /\
          epoch = "off" /\ fence = "off" /\ served = "off" /\ lease = "off" /\
          released = "off" /\ spent = "off"
    \/ /\ scenario = "spoolCrash" /\ SpoolCrash!Init
       /\ window = [w \in Win |-> NoWindow] /\
          ledger = [c \in Cmd |-> NoCommand] /\
          res = [cw \in Cmd \X Win |-> "none"] /\
          runner = [c \in Cmd |-> NoRunner] /\ query = NoQuery /\
          sweep = NoTime /\ up = TRUE /\ faults = 0 /\
          started = [cw \in Cmd \X Win |-> 0] /\ applied = {} /\ told = {} /\
          mat = "off" /\ commands = "off" /\ kill = "off" /\ rec = "off" /\
          resolver = "off" /\ config = "off" /\ world = "off" /\
          flight = "off" /\ made = "off" /\ named = "off" /\ keys = "off" /\
          configs = "off" /\ deaths = "off"
    \/ /\ scenario = "spoolTwo" /\ SpoolTwo!Init
       /\ window = [w \in Win |-> NoWindow] /\
          ledger = [c \in Cmd |-> NoCommand] /\
          res = [cw \in Cmd \X Win |-> "none"] /\
          runner = [c \in Cmd |-> NoRunner] /\ query = NoQuery /\
          sweep = NoTime /\ up = TRUE /\ faults = 0 /\
          started = [cw \in Cmd \X Win |-> 0] /\ applied = {} /\ told = {} /\
          mat = "off" /\ commands = "off" /\ kill = "off" /\ rec = "off" /\
          resolver = "off" /\ config = "off" /\ world = "off" /\
          flight = "off" /\ made = "off" /\ named = "off" /\ keys = "off" /\
          configs = "off" /\ deaths = "off"
    \/ /\ scenario = "spoolRevoke" /\ SpoolRevoke!Init
       /\ window = [w \in Win |-> NoWindow] /\
          ledger = [c \in Cmd |-> NoCommand] /\
          res = [cw \in Cmd \X Win |-> "none"] /\
          runner = [c \in Cmd |-> NoRunner] /\ query = NoQuery /\
          sweep = NoTime /\ up = TRUE /\ faults = 0 /\
          started = [cw \in Cmd \X Win |-> 0] /\ applied = {} /\ told = {} /\
          mat = "off" /\ commands = "off" /\ kill = "off" /\ rec = "off" /\
          resolver = "off" /\ config = "off" /\ world = "off" /\
          flight = "off" /\ made = "off" /\ named = "off" /\ keys = "off" /\
          configs = "off" /\ deaths = "off"
    \/ /\ scenario = "spoolLineage" /\ SpoolLineage!Init
       /\ window = [w \in Win |-> NoWindow] /\
          ledger = [c \in Cmd |-> NoCommand] /\
          res = [cw \in Cmd \X Win |-> "none"] /\
          runner = [c \in Cmd |-> NoRunner] /\ query = NoQuery /\
          sweep = NoTime /\ up = TRUE /\ faults = 0 /\
          started = [cw \in Cmd \X Win |-> 0] /\ applied = {} /\ told = {} /\
          mat = "off" /\ commands = "off" /\ kill = "off" /\ rec = "off" /\
          resolver = "off" /\ config = "off" /\ world = "off" /\
          flight = "off" /\ made = "off" /\ named = "off" /\ keys = "off" /\
          configs = "off" /\ deaths = "off"

SuiteNext ==
    \/ /\ scenario = "retention" /\ Next
       /\ UNCHANGED <<scenario, mat, commands, kill, rec, resolver, config,
          world, flight, made, named, keys, configs, deaths, disk, build,
          builds, proc, epoch, fence, served, lease, released, spent>>
    \/ /\ scenario = "windows" /\ Windows!Next
       /\ UNCHANGED <<scenario, mat, commands, kill, rec, resolver, config,
          world, flight, made, named, keys, configs, deaths, disk, build,
          builds, proc, epoch, fence, served, lease, released, spent>>
    \/ /\ scenario = "writers" /\ Writers!Next
       /\ UNCHANGED <<scenario, now, issued, window, ledger, res, call, query,
          sweep, started, applied, told, disk, build, builds, proc, epoch,
          fence, served, lease, released, spent>>
    \/ /\ scenario = "scopes" /\ Scopes!Next
       /\ UNCHANGED <<scenario, now, issued, window, ledger, res, call, query,
          sweep, started, applied, told, disk, build, builds, proc, epoch,
          fence, served, lease, released, spent>>
    \/ /\ scenario = "spoolCrash" /\ SpoolCrash!Next
       /\ UNCHANGED <<scenario, window, ledger, res, runner, query, sweep, up,
          faults, started, applied, told, mat, commands, kill, rec, resolver,
          config, world, flight, made, named, keys, configs, deaths>>
    \/ /\ scenario = "spoolTwo" /\ SpoolTwo!Next
       /\ UNCHANGED <<scenario, window, ledger, res, runner, query, sweep, up,
          faults, started, applied, told, mat, commands, kill, rec, resolver,
          config, world, flight, made, named, keys, configs, deaths>>
    \/ /\ scenario = "spoolRevoke" /\ SpoolRevoke!Next
       /\ UNCHANGED <<scenario, window, ledger, res, runner, query, sweep, up,
          faults, started, applied, told, mat, commands, kill, rec, resolver,
          config, world, flight, made, named, keys, configs, deaths>>
    \/ /\ scenario = "spoolLineage" /\ SpoolLineage!Next
       /\ UNCHANGED <<scenario, window, ledger, res, runner, query, sweep, up,
          faults, started, applied, told, mat, commands, kill, rec, resolver,
          config, world, flight, made, named, keys, configs, deaths>>

SuiteSpec == SuiteInit /\ [][SuiteNext]_suiteVars

-----------------------------------------------------------------------------
(* A session id names one backend session for life, a backend session is   *)
(* listed once though scan and command both report it, a negative          *)
(* settlement is the truth, and a live session a command made can be       *)
(* traced to it (resourceState.ts applyDiscovery, settleCommandResource).  *)
RecordsFollowBackends ==
    /\ scenario = "writers" => Writers!TypeOK
    /\ scenario = "writers" => Writers!RecordsFollowBackends
    /\ scenario = "scopes" => Scopes!RecordsFollowBackends

(* The list loses a session only when it is dead or its scope was taken    *)
(* out of the configuration: no scan taken before the session was          *)
(* committed, and none that failed, deletes it (applyDiscovery).           *)
DeletedIsDead ==
    [][/\ scenario = "writers" => Writers!DeletedStep
       /\ scenario = "scopes" => Scopes!DeletedStep]_suiteVars

(* Two answers to one snapshot request come from one cut unless the        *)
(* earlier one was released, a cut promised until a time is there until    *)
(* then, a released cut never comes back, whatever crashes in between, and *)
(* cuts and builds stay within the quota that has room for their           *)
(* tombstones (stateSnapshotSpool.ts get, release, recover).               *)
SnapshotIsOneCut ==
    /\ scenario = "spoolCrash" => SpoolCrash!TypeOK
    /\ scenario = "spoolLineage" => SpoolLineage!TypeOK
    /\ scenario = "spoolCrash" => SpoolCrash!OneCutPerRequest
    /\ scenario = "spoolCrash" => SpoolCrash!PinnedUntilLease
    /\ scenario = "spoolTwo" => SpoolTwo!OneCutPerRequest
    /\ scenario = "spoolTwo" => SpoolTwo!PinnedUntilLease
    /\ scenario = "spoolRevoke" => SpoolRevoke!OneCutPerRequest
    /\ scenario = "spoolRevoke" => SpoolRevoke!PinnedUntilLease
    /\ scenario = "spoolLineage" => SpoolLineage!OneCutPerRequest
    /\ scenario = "spoolLineage" => SpoolLineage!PinnedUntilLease
    /\ scenario = "spoolCrash" => SpoolCrash!ReleasedStaysReleased
    /\ scenario = "spoolTwo" => SpoolTwo!WithinQuota

(* No operation meets evidence that contradicts itself, which would close  *)
(* the spool, and a restart understands whatever a crash has left. There   *)
(* are two exceptions, both of which happen in this run: a reservation     *)
(* that a build left behind at a busy lock contradicts the request's next  *)
(* snapshot, and a crash inside the removal of a directory may leave it    *)
(* without an identity (recover, failClosed, lockBusy).                    *)
SpoolRecovers ==
    /\ scenario = "spoolCrash" => SpoolCrash!ClosedOnlyByContradiction
    /\ scenario = "spoolCrash" => SpoolCrash!WedgedOnlyBy
    /\ scenario = "spoolTwo" => SpoolTwo!ClosedOnlyByContradiction
    /\ scenario = "spoolTwo" => SpoolTwo!WedgedOnlyBy
    /\ scenario = "spoolRevoke" => SpoolRevoke!ClosedOnlyByContradiction
    /\ scenario = "spoolRevoke" => SpoolRevoke!WedgedOnlyBy
    /\ scenario = "spoolLineage" => SpoolLineage!ClosedOnlyByContradiction
    /\ scenario = "spoolLineage" => SpoolLineage!WedgedOnlyBy

\* The execute calls of a ledger scenario are interchangeable, and so are the
\* two commands of the resource scenario.
Symmetry == Permutations(Call) \cup Permutations({c1, c2})

=============================================================================
