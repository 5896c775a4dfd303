# A TLA+ verification of tmux-worktree

tmux-worktree runs coding agents and shells in managed tmux sessions and lets
several programs type into them: a desktop dashboard, a command line, a local
web server, a Feishu (Lark) bridge and, over a relay, a phone. This directory
holds TLA+ specifications of the code that decides who may type and what
happens to input whose fate is unknown, of the stores behind the relay host,
of the relay's broker, of the phone's copy of the host and of its terminals;
TLC configurations that check them; and TLAPS proofs. `PROJECT.json` maps every
definition to the source lines it models and lists runs, mutants, hazards,
findings and theorems. Paths below are relative to the repository.

## Inventory of the system

| Component | State | Operations | Interacts with | Hard behaviour |
|---|---|---|---|---|
| Terminal-control authority (`src/terminalControl/authority.ts`) | controller epoch, one record per target, in-memory producer registry, exact-target claims | resolve, status, acquire, renew, release, handoff begin/commit/cancel/withdraw/force, raw/message/scroll/resize/kill input, tail, snapshots, restart | store, tmux backend, all clients over a Unix socket | crashes around a write, lost answers, expired leases, stale leases, recreated sessions |
| Store (`store.ts`) | one JSON file, a directory lock | load, validate, save, lock | authority, other daemons | torn or refused records, lock taken from a live holder |
| tmux backend (`backend.ts`, `outputCapture.ts`) | tmux options for instance and output generation, a pipe per pane, segment files | identity probes, fenced writes, capture rotation and recovery | tmux server | commands that outlive their client, names that change owner |
| Managed session registry (`src/state.ts`) | a JSON file, a directory lock | record, remove, lock takeover | every CLI, daemon and Rust process | kills, stalls and mixed versions between any two system calls |
| Sessions and worktrees (`session.ts`, `rpcV2.ts`, `tmux.ts`, ...) | git worktrees, tmux sessions, registry records | create, kill, reconcile | git, tmux, registry | crash between three stores |
| Feishu bridge (`feishuBridge*.ts`, `larkCliBridge.ts`) | bindings, turns, cursors in durable storage | inbound message, turn, reply card, cancel | authority, Lark CLI | duplicate events, handoff while a turn runs |
| Relay v2 host stores (`src/relay/v2/hostState.ts`, `hostCommandPlane.ts`, `resourceState.ts`, `stateSnapshotSpool.ts`) | state file and witness, command ledger, list of scopes and sessions, snapshots on disk | commit, execute, query, compact, scan, reserve, settle, get, release, recover | each other, `tw` RPC, the carrier | commits whose fate is uncertain, retransmissions, concurrent scans, crashes inside a removal |
| Relay v2 carrier (`hostCarrier.ts`, `carrierPump.ts`, `brokerCore.ts`, `broker*WssRuntimeComposition.ts`) | routes, queues and budgets at both ends | open, data, close, unbind, pause, resume | host runtime, phone | crossings of close and data, backpressure, lost connections |
| Relay v2 broker registry (`brokerCore.ts`, `brokerCredentialAuthority.ts`, `brokerAuthorizationExpiryDeadlineOwner.ts`) | carriers, clients, directory, fences, deadlines, durable credentials | register, replace, revoke, expire, warn, reauthenticate | hosts, phones | takeover, expiry racing renewal, fences around a commit, early and late timers |
| Relay v2 host credentials (`hostCredentialAuthority.ts`, `hostReauthenticationLifecycleOwner.ts`) | vault, pending attempt, live connection | bootstrap, refresh, reauthenticate | broker, dashboard | lost answers, restarts between exchange and commit |
| Relay v2 host terminals (`terminalManager.ts`, `terminalDurableLineage.ts`, ...) | streams, rings, durable lineage | open, resume, input, ack, close | authority (exact targets), phone | replay after reconnect, ring limits, leases in doubt |
| Android client (`mobile/android`) | database of the host's state, outbox, terminal checkpoints, transcripts, profiles | recover, apply events, dispatch commands, resume terminals | relay | reconnects, uncertain commits, events out of order |
| Automations (`automation.ts`), local web server (`serve.ts`), CLI, updates | schedules, PTYs | run, attach, install | sessions, authority | mostly I/O |
| Dashboard (`app/`) | views, relay management, deployment | user input | RPC, relay | a client of the above |

What makes each modelled part correct:

- authority: an operation reaches a pane at most once; bytes never reach a pane
  under somebody else's lease; what is uncertain is shown to an operator, never
  resumed silently; whatever is open or expired is settled eventually; a fenced
  target can be recovered; the state file can always be read again;
- registry: one writer at a time, no update lost, no lock left to a live
  process that is not inside;
- host stores: an acknowledged commit survives; a command takes effect at most
  once and clients are told the same final answer; a session keeps its id for
  life and a deleted one stays deleted; every page of a snapshot request comes
  from one cut; the spool recovers from a crash, but for the cases named below;
- carrier and broker: each end sees whole streams, a crossing of frames ends no
  carrier (but for the five named below), budgets add up, one connector serves a
  host and routes follow it, a revoked credential never passes, every connection
  is watched for its expiry;
- credentials: the host holds its credential or, as long as it runs and the broker
  remembers, can replay the exchange that gives it back; one exchange wins the
  network;
- client: its database is always a cut of the host, and recovery does not wait for
  something nobody does (one case named below excepted); its screen shows what the
  terminal's program wrote, once, in order and whole; a command its user gave once
  runs once at most and is shown as what it came to.

## Modules

| Module | Contents |
|---|---|
| `ManagedRegistry` | what the registry promises: each call updates it atomically |
| `ManagedStateLock` | the directory lock and the load-modify-save of `state.ts`, one system call per step; implements `ManagedRegistry` |
| `ControlRecord` | the durable record of a target, its validation (`isTarget`) and the pure functions of `authority.ts` on it |
| `TerminalControl` | the authority, the tmux backend as far as the authority can tell its answers apart, and their environment |
| `TerminalControlProofs`, `ManagedStateLockProofs`, `HostStateProofs`, `CommandLedgerProofs`, `ResourceStateProofs`, `BrokerRegistryProofs`, `CredentialRotationProofs`, `ExpiryDeadlineProofs` | theorems and proofs |
| `CommitLog` | what the relay host's state file promises: an atomic log, or a new epoch |
| `HostState` | state file, witness, lock and proofs in memory of `hostState.ts`; implements `CommitLog` |
| `CommandLedger` | the command plane: windows, admission, execution, queries, recovery, compaction |
| `ResourceState` | the list of scopes and sessions, written by commands and by scans |
| `SnapshotSpool` | snapshots on disk: builds, leases, tombstones, crash recovery |
| `StateSync` | the phone's copy of the host: host welcome and cuts, client database, connection actor |
| `TerminalOutput` | a terminal's output from the host's ring to the phone's screen, over opens, replays and resets |
| `CommandOutbox` | the phone's commands from its durable outbox to the host's ledger, over lost connections, retries and reissues |
| `RouteCarrier` | the routes of one carrier, from the client's socket to the host's route table and back |
| `BrokerRegistry` | registration and replacement of connectors, the directory, authorization fences |
| `ExpiryDeadline` | expiry and warning timers against the broker's answers |
| `CredentialRotation` | bootstrap, refresh and live reauthentication of the host's credential |
| `MCTerminalControl`, `MCManagedStateLock`, `MCHostState`, `MCSnapshotSpool`, `MCCredentialRotation`, `MCTerminalOutput` | instances for one question each |
| `MCControl`, `MCStores`, `MCBroker`, `MCClient`, `MCLiveness` | suites of scenarios |

A suite holds several instances of one or more components. Its variable
`scenario` is chosen in the initial state and never changes; only that instance
takes steps and the variables of the others are `"off"` (the scenarios of
`MCControl` are of one component and share its variables). A property of a suite
says of each scenario what it claims (`scenario = "takeover" => Takeover!...`),
so a suite shows exactly what its scenarios would show one by one. Some suites
extend a component with theorems, with the constants of its cfg, for one scenario;
its variables keep their initial values in the others. Where a theorem names a
property of a run, the run checks the definition the theorem names, of each of its
instances.

### TerminalControl

The variables are the durable state (`epoch`, `targets`), the daemon's memory
(`producer`, `up`, `call`), the session in tmux (`tmux`: alive, incarnation,
output generation, pipe), writes that outlive their caller (`late`), the
history of what reached a pane (`landed`, `replayed`) and a count of faults.

A request handler holds the store lock from load to last save, so it is one
step, with two exceptions where the code is really interrupted:

- an input operation is three steps: the in-flight mark is saved
  (`ExecuteInput`, `ExecuteLifecycleKill`), tmux is written to
  (`BackendWrite`), the disposition is saved (`FinishCall`). A crash, an expiry
  or a recreated session may come between, and a write without answer may land
  later (`LateLand`);
- when tmux rotates the output generation, the daemon may die or lose the
  answer before its save (`LostRotation`).

A handler is written as an operator from a *world* (record in memory, record on
disk, tmux, producer, faults) to a set of *outcomes*: the world it may end with
and how (`ok`, `error`, `crash`, `accepted`). Handlers compose the way the code
does: `assertTargetCurrent` calls `reconcileAbandonedOwnership`, `acquire` calls
both and then `prepareOutput` or `resetOutput`. An error outcome keeps exactly
what the code had saved before it threw. The actions only choose a request and
install one outcome (`Conclude`).

Requests carry any current or outdated lease (`Presentable`): an epoch, a fence
and an owner of the present or the one before.

### Abstractions

- A lease id is minted exactly when the fence advances, so the fence stands for
  it. The clock is a flag `expired` that may be set at any time.
- An output generation is a pair: `<<0, n>>` for the n-th random one, `<<i, f>>`
  for the one a recovery of incarnation i at fence f derives by hashing.
- Payloads are not modelled; an operation is its id, kind, owner and fence.
  Journal entries keep exactly what deduplication compares.
- Drain proofs "drained" and "cancelled" take the same path and are merged.
- Two fields of a record are history of the model: `pinned` is why the last
  recovery may not be left without an operator, `dropped` the operation ids that
  a full journal has forgotten. No guard reads them.
- `status` saves its mark at once where the code saves at the end of the
  handler; every path in between saves the same record or throws it away after
  having saved it.
- A save that fails after a write goes on failing until the handler ends.
- The pane, its window and the registry entry of a live session keep their
  shape; losing them is covered by the identity probe's answers.
- The registry is a set of names; removing a lock directory is one step; a pid
  is not reused.
- Not in the module: exact-target claims and observations of the Relay (an open
  observation shows only as the choice `observed` of `release`), and the reopen
  that path performs over its own Agent message in doubt.

### The relay host's stores

`HostState` has one step per rename: `transaction` writes the state, then the
witness; each may be refused, may be done and reported as failed, or be the last
thing the process does. Two processes share the files (an old host and its
replacement), files may be lost or damaged. It implements `CommitLog`: the file
pair is an atomic log of commits or begins a new epoch. Taking the lock
(`hostState.ts` 1045-1107: `mkdir`, owner record, removal of a dead owner's
directory) is one step here, and the theorems about any number of processes are
about that step; what can happen inside such a lock is the subject of
`ManagedStateLock`. Left out: the takeover of a lock by its age alone (60 s), more
than one transaction per turn of the lock.

`CommandLedger` models `execute`, `query`, the runner of a command, recovery and
compaction with a step per store transaction, since calls interleave at every
await. A transaction commits, commits and reports an error, or fails. A command
is its id; an argument fingerprint is the window it was sent in. A scan may find
the session of a command at any time after it was made, also while the command is
still running, and consumes its reservation (`discoverResource`); a settlement or a
recovery that comes later leaves it consumed. Left out: the store epoch reset.

`ResourceState` composes the two writers of the list: a scan (cut, scan, evidence,
application, up to `Attempts` rounds) and the commands that reserve, create and
settle a session. A generation is the flag that the list moved under a scan; a
backend identity is an incarnation number. Left out: scope ids, subscribers,
snapshot candidates, the change of host epoch, byte capacity, the fence after an
uncertain commit (it is in `StateSync`). `fencedNegativeEvidence` is modelled as
the honest answer its interface asks for; no composition passes one in.

`SnapshotSpool` keeps only the disk and the builds: the maps in memory mirror the
disk. An operation is a sequence of disk writes of which a crash leaves a prefix.
The FIFO of the metadata lock is `Turn`. That a released request stays released
needs `releaseTombstoneMs` (600 s) to be at least `idleLeaseMs` (300 s): so they
are set, and `validateLimits` does not check it. A build may find the lock on the
metadata busy (`MaxBusy`) and then leaves its reservation behind; a removal may be
cut short between any two of its files. Left out: I/O failures inside a
write, byte quotas, digests, the distinction of per-host and per-principal limits,
the activation of readiness candidates, the disk mutex between processes.

### The carrier and the broker

`RouteCarrier` is end to end: the broker's route table and queues, its socket
pump, both directions of the socket, the host's route table. A frame counts one
unit of budget; data for a client has a size. The broker answers a request for the
directory of hosts itself, on the client's queue (`answerDirectory`). The host's
queue of control frames is bounded: a frame that finds it full is lost
(`enqueueControl`, whose result no caller looks at), and one that stays full ends
the route that fills the queues or the carrier (`evaluatePressure`). Left out:
authorization, frame contents, request ids, the round-robin cursor, byte aggregates
over carriers, pausing of sockets.

`BrokerRegistry` has one host (every table is keyed by host id) and shows a route
as a client and its carrier. A revocation installs its fence, commits, and sweeps
the fenced connections; registrations, expiries and violations happen in between.
Left out: the authorization high-water mark (`observeAuthorizationHighWater`) and
the latch `outputReadyCompositionLatched`, which only decide whether a carrier is
taken on at all; the `cancelled` outcome of the barrier, which no caller can reach.

`ExpiryDeadline` separates queueing, answering and applying a call of the timer
owner into the broker. Timers may fire early `MaxEarly` times. `MaxMisses` counts
reauthentications answered from the replay table and instants that pass although
something of the owner is due. The second half of `ExpiryIsWatched` and
`WarnedBeforeExpiry` speak of an owner without either (`Undisturbed`), since two
cases of the code break them: a warning answered "not due" together with a replayed
reauthentication in the same microtask is never given; and a suspension as long as
the lead makes the late warning find the connection expired, which retires the entry
while the connection stays (`brokerAuthorizationExpiryDeadlineOwner.ts:535`). The
second case is the exception `LetGo` of the liveness property, and the scenario
`deadline` (a lead of one, one miss) reaches it.

`CredentialRotation` numbers the credentials in the order of their issue. A host
process has a new `hostInstanceId`; requests on the network survive it. Left out:
`close` of the lifecycle owner, the clamp on access expiry, enrollment redemption,
rate limits, rotation of replay keys, the count of wrong bootstrap tokens. A send
refused before it was made durable ends as `already_current`. The broker's end of a
reauthentication (`Authorizes`) refuses a revoked grant and an older token; that it
also refuses an expired one, and the current one without a replay record, is left
out, so the model allows more than the code.

### The phone's copy of the host

`StateSync` is the composition of three programs: the host's welcome and pinned
cuts, the client's database core, the connection actor. The actor emits effects,
one consumer applies them in order and answers with receipts that may find the
actor elsewhere. The state is a revision per key and a cut travels as one chunk
per key. A lost event is a fault the client must notice. Left out: digests and
capacities, `EVENT_CURSOR_AHEAD` and rotation, which these hosts cannot cause, the
memory of duplicate responses. The last chunk of a cut and its commit are two
transactions. The recovery watchdog (`handleRecoveryTimeout`) acts on a recovery for
which nothing is under way; one that is merely late is a lost connection. Request ids
are recycled.

### The phone's terminals

`TerminalOutput` follows the bytes of one terminal from the backend to the phone's
screen: ring, credit, route binding, opens and their durable lineage at the host;
the durable checkpoint, the renderer and its callbacks at the client. A byte is its
generation and its offset, so that the screen itself is part of the state and a
byte shown twice, left out or mixed with another generation's is visible. The host
takes its operations one at a time (`terminalManager.ts` serialises them), so each
is one step; a client step is one durable reduction with the effects that follow
it, except that writes, callbacks and the execution of a callback's effects are
steps of their own, because connections end between them. An open id or request id
is recycled when nothing names it any more. A new generation is started, refused,
started too late, or refused for want of room with a durable record that repeats the
refusal (`refuseBusy`). Left out: input, resize and close requests, with their durable
records (`retainedCloseForStream`), which can make a reset conflict; the disposal of
a generation that was started for nobody (`discardProvisionalGeneration`), which the
client does not see; the checkpoint before the first `opened` (whose resets name no
generation); the client's own limits on pending output, which the host's credit
keeps it below; several terminals, whose rings share a budget.

### The phone's outbox

`CommandOutbox` composes the phone's durable outbox with the part of the
connection that dies with it, the network and the host's ledger seen from outside
(its storage is in `CommandLedger`). A command is its place in the outbox; an
intent is what the user asked for once, that is a command and its reissues.
Requests of dead connections stay under way and arrive at any time. A window
closes and a record lapses when it likes, but no record is forgotten while a frame
that needs it is in flight (days against seconds). The transport takes a frame and
may lose it, or does not take it (`Refuses`), which ends the loop that sends and
drops what it had left. A phase of the connection stands for the recovery of the
state, which is in `StateSync`. Left out: capacities, the removal of settled
entries, cancellation by the user, the change of host epoch.

## Runs

| Run | Question | Result |
|---|---|---|
| `control` | handoffs and recoveries under failing probes; a session killed and recreated; every request, and input retried under later leases, under lost answers, failed saves and crashes; three owners with more operations than the journal holds | the state stays typed, the store readable, calls durable; an operation lands once at most, one producer per fence, no raw write under a foreign lease; a fence names one owner, interrupted forced recoveries can be repeated, nothing uncertain is resumed or forgotten, one record per name |
| `registry` | the registry lock over two calls of each process, with a stalled writer, a killed one and an old lock | mutual exclusion and refinement of `ManagedRegistry`, until a stalled writer has evicted a live one |
| `hoststate` | two host processes on one state file with crashes, refused writes and damaged files | acknowledged commits survive, a lease held is the truth on disk, only damage breaks the lineage, refinement of `CommitLog` |
| `stores` | ledger over retransmissions, two windows, expiry and compaction; list with concurrent commands, scans and reconfiguration; spool over crashes, torn removals, a busy lock, revocation, two requests and a change of epoch | one effect per command, no reservation leaks, records follow their backends, one cut per request; the spool closes and fails to open only over what a busy lock or a torn removal left |
| `broker` | crossings of open, data, rejection, close and unbind, refused frames, a full control queue, two routes on one budget; takeover, fences, expiry; a phone's commands over a lost connection, a refused frame, a closed window and a resync | whole streams, a carrier ends only over five named crossings, exact budgets, one connector, no revoked credential passes; commands run once and in order, the runtime stops only over a resync or an outlived window |
| `client` | reconnects, host restarts, expiring leases, uncertain commits, lost events, a full buffer; a terminal over lost connections, lost streams, restarts, expiries, refused opens, frames of two bytes and a failing renderer; a host's credential under loss, delay, failing storage and a restart | the database is a cut of the host, recovery waits for nothing, fails and breaks in the named cases only; the screen is the stream, a bound client is served; the current token is held or can be fetched by the process that asked for it, one network winner, every rotation owned |
| `liveness` | what must eventually happen, in fourteen scenarios; timers of a connection that fire early or late while it registers, renews and disconnects | every expiry is watched, the host warned in time; operations settle, commands end, routes resume and end, connections expire or are renewed, copies and screens converge, commands are resolved, calls end, each but for exceptions that its comment names and the run reaches |
| `lostreset`, `lock_three`, `spool_torn`, `credential_restart`, `terminal_orphan` | statements of a document, a comment or a test the code does not keep | counterexamples, below |

Bounds. Every bound is a guard of a module and a constant of a cfg or a suite's
`INSTANCE`. They are the smallest that let the interesting case happen and one
fault hit the recovery from another. Terminal control: `MaxFaults = 2`; `MaxFence`
allows two changes of ownership after a recovery; interactive owners share a class
and compete for its producer slot, so three owners where that matters (`input`,
with one fault); the journal holds one entry (the code's holds 128), so that two
operations of `input` overflow it and one operation of the others does not; two
sessions under one name. Ledger: time reaches past window, result and tombstone;
two calls race. Resource list: two commands for one name, or two scopes with
reconfiguration. Spool: two callers, one or two requests, two crashes so that one
hits recovery, one busy lock, removals cut short with and without an identity
left. Registry: two calls of each process, so that a writer that evicted another
comes back. Carrier: three units overrun a route limit of two; one control frame
fills the host's queue. Broker: two carriers of two host processes, one client, a
revocation and a key removed; in `expiry` one carrier over a restart and a
violation. Credentials: from no credential over two rotations, both exchangers,
two host processes, two connections and one fault. Timers: two credentials, two
early timers (so the owner seals), one full queue, one miss, which is the whole
lead (so the owner lets go). (For these three and for ledger, state file and
registry lock the theorems need no bounds.) Client: three request ids over two
pinned cuts, two or three events, one fault of each kind. Terminals: a ring of two
bytes under a credit of one, so that output waits for credit and overruns the
ring; two routes, so that frames of an old connection arrive late. Outbox: two
commands of one session over a fault or over a window that closes, one over both
or over a resync, two connections, so that a command is retried and issued anew.

Deadlock is checked in `control`; in the other runs the bounded system stops when
its budgets are used up.

Fairness (`FairSpec` of each module, gathered in `MCLiveness`): a daemon is
restarted after it dies (`client.ts` starts it on demand), a tmux command returns
because `tmuxExec.ts` bounds it, some client polls `ownership.status`; a running
host finishes what it began, and one that is down comes back; a client that has no
answer asks for the state of its command, but nothing makes it send the command
again (its watchdog only queries), so a command whose runner a storage fault ended
is the exception `Unfinished` leaves out; sockets deliver while they are open;
timers fire; the spool's metadata queue is FIFO, so a waiting operation runs
(strong fairness of each caller's step). Faults are finite; nothing is assumed
about owners, users or the order of events, except that a terminal whose view was
told to reset is attached again (three times by itself, `V2ViewModel.kt:3028`,
then by a tap). A renderer that keeps failing is outside `CopiesConverge`: each
failure begins another generation. `CredentialRotation` assumes `Prompt` messages
(faster than the owner's timers) for liveness only.

`AtMostOnce` is about one operation id on one target until a full journal drops
its entry: then, and only then, a client that sends it again is taken for a new
one. `SingleProducer` leaves out `lifecycle-kill`, which the code does not
register as a producer.

Each property has a mutant: a changed definition, next to the original, under
which TLC finds the property violated.

## Findings

Checked by a run that shows the counterexample:

1. `lostreset` - `docs/security.md:37` says a controlled owner resolves a recovery.
   A rotation to a random generation whose answer (or following save) is lost
   leaves tmux with a live generation the record neither names nor plans;
   `recoverOutput` then refuses each `handoff.force`. Forced recoveries themselves
   survive this, because they plan their generation (`control` checks it).
2. `lock_three` - the comment at `src/state.ts:505`. When three processes discard
   an old lock at the same time, one may rename away the lock of a live holder,
   and a third may enter before it is renamed back. The proof of `LockExcludes` showed
   a second way that needs two processes only: a writer that stalls for 60 s between
   `mkdir` and its owner record finds another's record there, removes that live lock
   (`state.ts:543`) and enters with its next call. Run `registry` reaches this;
   `MutualExclusion` and `AtomicUpdates` name it as their exception (`evicted`), and
   show that nothing else breaks them.
3. `spool_torn` - a crash inside the recursive removal of a snapshot's directory,
   after both of its identity files are gone, leaves a directory that every later
   open of the spool refuses (`stateSnapshotSpool.ts:4346`).
4. `credential_restart` - a host that restarts after the broker rotated its refresh
   token and before it stored the answer cannot replay the exchange, because the
   replay fingerprint contains the new process's `hostInstanceId`
   (`brokerCredentialAuthority.ts:3870`).

5. `terminal_orphan` - the comment at `terminalManager.ts:5664`: a stream the backend
   lost while its client was away is to be reset by a later open. That open is a
   resume, which drops the lost stream but keeps its durable row; the resets that
   follow name a live row without a stream and are refused each time.

Other disagreements between code and comments met while modelling; the modules
contain the behaviour, and the properties are stated so as to allow it:

- a failed identity probe while a handoff drains is recorded so that the next poll
  reopens the target (`authority.ts:1930`, against `docs/security.md:37`);
- scroll, resize and kill follow a reused session name (`authority.ts:2778`,
  against `docs/security.md:25`);
- a replacement epoch whose witness is refused keeps the lease of the epoch it
  replaced (`hostState.ts:1479`);
- `query` never restarts the runner of an accepted command
  (`hostCommandPlane.ts:2513`, against the comment at 2898), and a storage fault
  answers a retransmitted command as "not accepted" (2234, against 656);
- five crossings end the carrier with all its routes, although the comments at
  `brokerCore.ts:2987` and 4073 want an ordinary client disconnect to end none: the
  client leaves while the host closes the route (`brokerCore.ts:3098`) or rejects it
  (`hostCarrier.ts:2387`); its data crosses the host's close (2333); a frame was
  refused for lack of room, which makes the next one a sequence error
  (`brokerHostWssRuntimeComposition.ts:630`); the host lost a control frame at its
  full queue (`hostCarrier.ts:2520`). `WholeStreams` says that no other
  crossing does. A paused route that is unbound is never resumed and stays closing
  (591), as does one whose answer was lost at the full queue;
- a protocol violation of the active connector does not rebase the registration
  that waits to replace it (`brokerCore.ts:4731`, against 2377);
- a warning timer that runs after the expiry retires the entry with its expiry
  deadline, and the connection stays
  (`brokerAuthorizationExpiryDeadlineOwner.ts:535`, exception `LetGo`);
- a connection replaced during a refresh keeps the old token until it expires
  (`hostReauthenticationLifecycleOwner.ts:815`);
- a session that a scan materializes and deletes while its command runs makes
  `settleCommandResource` throw, also in every recovery
  (`resourceState.ts:3826`); a scope that is removed and added again with a live
  session latches an authority conflict (2482);
- on the phone: an uncertain commit that was lost makes the welcome a protocol
  error (`RelayV2ConnectionActor.kt:5748`); a chunk that arrives after its
  recovery was abandoned is a schema error (4344); both give the profile up
  (`FailsStep`). An expiry emitted before the abandon of its cut is read throws
  (`RelayV2BaseRuntimeComposition.kt:1813`, `BreaksStep`). When the buffer of events
  overflows during a recovery without cursor, the release the database owes is not
  sent and only the watchdog ends the recovery (`NeverStalls`). A manual resync
  refused by a running host list stays reserved (4984). `SyncNeverWedges` says that
  nothing else stalls, fails or breaks, and run `client` reaches each case;
- a build that finds the spool's lock busy leaves a reservation whose tombstone
  later conflicts and closes the spool (`stateSnapshotSpool.ts:4995`,
  `ClosedOnlyByContradiction`);
- terminals: the client repeats a reset that was refused under the same open id, and
  the host repeats its refusal until the record expires
  (`RelayV2TerminalCheckpointReducer.kt:332`, the exception `Denied` of
  `CopiesConverge` with finding 5); output for a view that was just
  detached stops the whole runtime (`RelayV2BaseRuntimeComposition.kt:1842`); an
  effect that fails after the end of a terminal makes the ended terminal ask for a
  reset, which is refused (`RelayV2TerminalCheckpointReducer.kt:2671`); an open
  delayed on an old connection takes the stream away from the new one
  (`terminalManager.ts:4683`); a late acknowledgement closes the whole route
  (`hostRuntime.ts:2335`);
- the outbox: a command refused on a connection older than its window (15 minutes) is
  issued anew under the same window, which is rejected and stops the runtime
  (`RelayV2OutboxRecoveryAdapter.kt:549`, against the test at
  `RelayV2OutboxAuthorityCoreTest.kt:423`); a resync asks about the commands of the
  connection's start once more, settled ones included, which stops it too, as does an
  execute error during a resync and a connection lost between the last query and the
  retries it owes. `EvidenceIsAccepted` names these and says that no other answer
  stops it. A command the query found accepted or running is not asked about
  again before the next connection; a command issued anew goes to the end of its lane.

## Proofs

Eight modules hold theorems; each theorem is about every value of the constants
that meets the named assumption, which TLC evaluates in the runs.

### Terminal control

`TerminalControlProofs` proves, for every set of owners, operations and targets
and every bound:

- `TypeCorrect`: `Spec => []TypeOK`;
- `StoreStaysReadable`: `Spec => []StoreReadable`;
- `WritesAreDurable`: `Spec => []CallIsDurable`;
- `NothingResumesSilently`: `Spec => []NoSilentResume`;
- `OneLiveRecord`: `Spec => []OneTargetPerName`;
- `FencesNameOneOwner`: `Spec => FenceNamesOneOwner`;
- `DoubtIsKept`: `Spec => InDoubtKept`;
- `NothingIsReplayed`: `Spec => []AtMostOnce`;
- `OneProducerPerFence`: `Spec => []SingleProducer`.

The assumptions are `RecordAssumption` (each owner has a kind, `None` is no
value of the sets) and `ControlAssumption` (bounds are naturals, kinds and
faults are known ones). TLC evaluates both in the runs.

None of them is inductive alone. A record the store accepts stays one only
if every handler preserves the whole of `isTarget`; in particular an in-flight
operation must not be in the journal, which holds because it is accepted after
the lookup and completed under the same lock, and a lease that is not free has
an owner. A committed write must find the operation it belongs to, which is
`CallIsDurable`; and `CallIsDurable` survives only because nobody else changes
the record during a call. That nothing pinned is reopened does not follow from the
record being active, because polling reopens fenced records: `Honesty` adds that the
recovery record of a fenced target still shows what pins it (the previous owner's
kind, the operation in doubt), which is all `isAutoRecoverableNonFeishuState` looks
at, and that an unused record is empty. So the inductive invariant is the conjunction
`Inv == TypeOK /\ StoreReadable /\ CallIsDurable /\ OneTargetPerName /\ Honesty /\ Dated`
(`Dated`: no record is of an incarnation that has not been).

The two action theorems come from `Succession(r, q)`: the record `q` may replace `r`
because its fence is not lower, is higher when the owner changed or a lease began or
ended, what was in doubt in the journal is still there or the target is gone, every
id that was known (in the journal or dropped) still is, and a retired target stays
retired. `Follows` adds that the operation `r` has in flight is still in flight or
known. Both are transitive, so a handler that changes a record several times and saves
it on some path preserves them; `Advances` says that every step does so on every record.

`NothingIsReplayed` and `OneProducerPerFence` are about what the panes have seen, and
need a second invariant over the first, `History`, about the traces of operations:
what has landed and what is on its way without its caller. `Remembered`: the record of
every trace is retired, knows the id, or still has it in flight, so that
`existingOperation` finds it. `LandsOnce`: what is on its way has not landed yet.
`AnswersAreTrue`: the operation under way has left no trace before it is sent, and an
answer after which `FinishCall` clears the mark without a journal entry (`declined`,
`refused`, or `failed` with the session provably there) means that it still has none;
this is where `Dated` is needed, since a session that a kill ended does not come back
under its incarnation. `Attributed`: a trace is of an earlier fence, or its owner
shares the lease in force and, while the daemon lives, is its registered producer.
`Entitled` says the same of the operation under way, and `OneWriter` that two traces
under one fence have one owner. That the registry survives as long as the lease comes
from `Tended`, which every handler keeps: a producer is dropped only together with its
fence, and after a crash the restart ends every lease. An id that a full journal has
dropped (`dropped`) is exempt throughout.

The argument follows the code. Its first part shows that each pure
function maps readable records to readable records (`appendOperation` without
duplicates, `markRecovery`, `invalidateTarget`). The rest
has one lemma per shared step and per handler: from a `GoodWorld(b)` (both records
readable and fit to follow the loaded one, the producer tended) it ends in an
`Outcome(b)` (a good world; an accepted one carries a durable mark of an authorised
owner under the lease in force). `Kept` says what a rotation leaves alone. One lemma
per action lifts this to `Inv` and to `Serves`, what a request promises; `NextInv`
combines them, and a second round of lemmas, one per action, gives `NextHistory`.

### The registry lock

`ManagedStateLockProofs` states when the lock of `state.ts` keeps its promise.
`Bearable` says: no writer stalls for 60 s before its owner record is written, and
there are no kills and no old lock (any number of processes), or no old lock (three
processes, any kills), or two processes (any kills, an old lock). Then:

- `LockExcludes`: `Spec => []MutualExclusion`;
- `UpdatesAreAtomic`: `Spec => AtomicUpdates`, the refinement of `ManagedRegistry`;
- `NobodyWaitsForNobody`: without any fault, `Spec => []NoOrphanedLock`.

None of the three conditions can be dropped: `lock_three` and finding 2 are the
counterexamples. Under them the exception of the two properties does not happen
either: `evicted = FALSE` is part of the invariant (`StepEvicts`: a writer that
comes to its owner record finds its own directory, or nothing). Exclusion is not
inductive, because a process may rename away the lock of a live one (it decided
that the lock was stale, and the lock changed before its rename). The invariant
has two modes. `Calm`: nothing is stale, the lock is the record of whoever is
inside. `Pair`: two processes are alive at most, and for them `Duel` holds: the
lock of the one inside is at its place or in the quarantine of the other, who will
put it back (`Held`, `Made`); whoever discards a lock has no record anywhere
(`Stranger`), so it cannot take away its own; what it took is stale or the other's
(`Taken`); and a stale lock is the first one (`First`). A kill among three leads
from `Calm` to `Pair`. The refinement follows from `Current`: what a process
loaded is what the file holds until it saves.

### The host's state file

`HostStateProofs` proves, for every number of processes, crashes, refused writes and
damaged files:

- `TypeCorrect`; `CommitsSurvive`: `Spec => []AckedSurvive`;
- `LeasesAreTrue`: `Spec => []LeaseProves`;
- `OnlyDamageBreaks`: `Spec => NoSpuriousBreak`;
- `FilesAreALog`: `Spec => ImplementsCommitLog`, the refinement of `CommitLog`.

`HostStateAssumption` says that bounds are naturals and that `None` is no process.
That acknowledged commits survive depends on what every other process may do between
any two renames, so the invariant `Inv` says what the process in its turn knows of
the files (`InTurn`, under `Mutex`): what it loaded is still the state, the witness
is for it before a commit, and one commit behind after it. `Fresh`: ids and epochs
drawn later are new, so a new state is never taken for an old one. `AckedInState` is
`AckedSurvive` without its condition that the files are a lineage, since a damaged
witness may be replaced. `Undamaged` and `Issued` carry the leases: until a file is
damaged one epoch exists, and proofs are issued for acknowledged commits only.
For the last two theorems `FileSteps` reduces every step to one of five effects on
the files (none, a commit, a witness, a replacement, damage); each is a step of the
log or leaves it alone.

### The command ledger

`CommandLedgerProofs` proves, for every set of commands, windows and calls, every
length of window, result and tombstone, and a clock that may be set back:

- `TypeCorrect`; `OneEffect`: `Spec => []OneEffectPerCommand`;
- `NothingLeaks`: `Spec => []ReservationsAccounted`.

`CommandLedgerAssumption` says that lengths and bounds are naturals and that the value
that stands for "no time" names no command or window. That a command has one effect is
a matter of retention: a retransmission after the record was compacted must find its
window gone. So the invariant `Inv` relates records, windows and effects: `Windowed`
(what names a window names one that was issued), `Outlives` (a final record is kept as
long as the window that could admit its command again), `NotYetRun` (between admission
and invocation there is no effect), `RunIsRemembered` (a command that ran is on record,
or nothing admits it again) and `Answered` (the same for final answers given; a window
whose client was told to issue its command anew stays shut, unless the clock is set
back). `Follows` says how a step may change records and windows and `Truth` when an
answer is true; every action does the one and gives the other. For the
reservations, which a scan may consume while the command still runs, `Effects` adds that
only a command that was run has an effect and that its runner records what happened.

### The broker's registry

`BrokerRegistryProofs` proves, for every set of carriers, clients, processes, keys and
grants, and any number of restarts, revocations and violations:

- `TypeCorrect`; `ConnectorServes`: `Spec => []OneConnectorServes`;
- `RevokedForGood`: `Spec => []RevocationHolds`.

`BrokerAssumption` says that bounds are naturals and `None` is no value. The
invariant is `Good(b)` for the broker's memory and `Fenced`, `Announced` for its
relation to the authority. In `Good`, `Tables` ties directory, connector and carriers
together and `Routes` the routes to the connector. `Waits` is what makes them
inductive: a registration whose base is still the directory's revision waits for the
connector there is, so its commit replaces that one and leaves no second. `Swept` says
that a committed fence left no connection behind. A revoked credential must not pass
between its publication and the commit of its fence either, where only the pending
fence stops it: `Fenced` says that every dead credential the broker has, or has on its
way from a verification, is stopped by a fence, and `Announced` that the fence of a
mutation is installed before and until it is committed. One lemma per helper says which
fields of the memory it changes; `Keeps` lifts that to the actions.

### The rotation of credentials

`CredentialRotationProofs` proves, for any numbers of host processes, credentials,
identifiers, connections and faults, started with a credential or without:

- `TypeCorrect`; `TokenIsHeld`: `Spec => []HeldOrReplayable`;
- `OneWins`: `Spec => []OneNetworkWinner`;
- `EveryRotationIsOwned`: `Spec => RotationIsOwned`.

`BoundsAssumption` says that bounds are naturals, positive where the code's are, and
that `None` is no value. `HeldOrReplayable` alone is not inductive: an answer that was
under way when the host died, or a request that waited in the network over several
rotations, must not undo it. The invariant says of every message what it can still do.
`Rotated`: the broker is at the host's token or exactly one ahead, under the pending
attempt. `Requests`: a request is of the pending attempt (`Current`) or refused for
ever (`Spent`: its token is older than the host's, or the bootstrap is closed); this is
also why every rotation is owned. `Answers` and `Remembered`: whatever names the
pending attempt carries the next token. `Taken`: an exchange under way is of the
pending attempt and holds the one-shot cut, so nobody else finds the cut free. `Wire`
and `Line` bound every token of a frame, of the broker's context and of the
connection by the durable one. That the repetition has the fingerprint the broker
remembers, unless a later process makes it, needs a second invariant (`Asked`): no
request and no replay record is of a process that has not been. The theorems do not
claim that repeating the attempt succeeds after a restart: finding 4 is the
counterexample.

### The resource list

`ResourceStateProofs` proves, for any scopes and commands and any number of sessions,
faults, kills, restarts and reconfigurations:

- `TypeCorrect`: `Spec => []TypeOK`;
- `ListFollowsBackends`: `Spec => []RecordsFollowBackends` (`IdForLife`,
  `OneRecordPerBackend`, `NegativeIsTrue` and, until the first reconfiguration,
  `LiveIsAttributed`);
- `OnlyTheDeadAreDeleted`: `Spec => DeletedIsDead`.

`ResourceStateAssumption` says that scopes are numbered (they are scanned in order),
that `None` is no command, that every command has a scope and a target and that the
bounds are naturals. None of the properties is inductive, because a reconciliation
applies a picture of the past. `StillTrue` is what makes this safe: while nobody has
moved the generation, a listed session of a scanned scope that is alive now is in the
picture. `SightsAgree` and `ListAgrees` say that the picture, the backends, the list and
what each command made never contradict each other about a backend key, so a session
that both a command and a scan report becomes one record. `IdsAreKept` and
`ReservedApart` keep the ids of reservations from every id that ever named a session;
`FreshIds` counts the unlisted sessions of a scan, so the ids it issues are new and
distinct. `Reserved` and `Executed` say how far a command has come, and `Proven` that
evidence is kept only of commands that made nothing and are not in flight any more.
`KilledIsDead` carries a kill's report to its commit. Three operations touch the list,
and `ListShrinks` has one case for each. Attribution is claimed only until the first
reconfiguration: a scope that is removed and added again breaks it (see above,
`resourceState.ts:2482`).

### The expiry timers

`ExpiryDeadlineProofs` proves, for every number of credentials, every lifetime and
lead, and any number of early timers, misses and full queues:

- `TypeCorrect`; `ExpiryStaysWatched`: `Spec => []ExpiryIsWatched`;
- `HostIsWarned`: `Spec => []WarnedBeforeExpiry`.

`DeadlineAssumption` says that the numbers are naturals, that the lead is positive and
not longer than the distance of two expiries, and that `None` is no value. Neither
property is inductive. That the owner can arm what a cut answered, without sealing,
needs `Tidy`: nothing is armed while a cut runs. `OneAttempt` says that at most one
warning attempt is under way and that it is out of date once a cut began or the warning
was armed again, so its answer cannot retire a newer entry. `Counted` pays for every
early timer the owner has counted, or is about to, from `budget.early`: a timer that
fired in time finds the connection expired or its warning due. `Behind` says that
nothing of the owner's is ahead of the broker and that answers which end an entry are
given for connections that have ended. `OnTime`, while the owner is undisturbed, is the
argument for the warning: time passes only when nothing of the owner is due, so an
armed warning has not reached its expiry; and a credential that was not announced has
its warning armed, an attempt under way that will announce it or be repeated, or a cut
or refresh that will arm it. There is one lemma per helper of the entry, saying which
fields it leaves, and one per action.

### Only model-checked

The liveness properties (fairness and ENABLED are outside the prover); of terminal
control `NoForeignRawWrite` and `ExplicitRecoveryPossible`, which are about the output
generation that tmux carries; the registry lock with a stalled writer; and the modules
of the spool, the carrier's routes and the phone.

## Not modelled yet

In the order in which they would be taken up:

1. Exact targets of the Relay (`authority.ts` 724-1682, 1797-1844) and the store
   lock with its socket probe (`store.ts` 595-743) as a second lock.
2. Relay host: connectors and readiness (`hostRuntime*.ts`, `hostConnector*.ts`),
   the continuity anchor, the close coordinator and the producer registry.
3. The phone's transcripts and profiles; input, resize and close of its
   terminals, and streams that share the host's ring.
4. Feishu bridge: inbound deduplication, turns and cancellation.
5. Sessions and worktrees: create and kill across git, tmux and the registry.
6. More proofs: `NoForeignRawWrite`, the phone's outbox, the snapshot spool.

Left out for good: codecs, parsing and rendering (data without control), the user
interfaces of dashboard and phone, installation and updates.
