------------------------------ MODULE HostState ------------------------------
(***************************************************************************)
(* The state store of the relay host (src/relay/v2/hostState.ts): a state  *)
(* file and a continuity witness, replaced one after the other by rename   *)
(* under a directory lock, and the H0 readiness proofs the process keeps   *)
(* about them in memory.  Every rename is a step of its own: the process   *)
(* may die, the file system may refuse it, or accept it and then report an *)
(* error.  Several host processes share the files (an old host and its     *)
(* replacement).                                                           *)
(***************************************************************************)
EXTENDS Naturals, FiniteSets

CONSTANTS
    Proc,           \* host processes
    None,
    MaxIds,         \* commit ids drawn
    MaxEpochs,      \* epochs drawn
    MaxFaults,      \* failing file operations and crashes
    MaxDamage       \* files lost or damaged by others

HostStateAssumption ==
    /\ None \notin Proc
    /\ MaxIds \in Nat /\ MaxEpochs \in Nat /\ MaxFaults \in Nat
    /\ MaxDamage \in Nat

VARIABLES
    state,      \* state-v1.json
    witness,    \* the continuity witness
    lock,       \* the process the lock directory names, or None
    pc,         \* where each process is in its turn
    turn,       \* the operation of that turn
    mem,        \* section.current of each process
    h0,         \* H0ReadinessOwnerState of each process
    drawn,      \* ids and epochs drawn so far (randomUUID)
    faults,     \* what went wrong so far
    acked,      \* history: commits reported to their callers
    begun       \* history: epochs whose witness was written

vars == <<state, witness, lock, pc, turn, mem, h0, drawn, faults, acked, begun>>

files == <<state, witness, begun>>

-----------------------------------------------------------------------------
(* A missing or damaged file is seq 0 of epoch 0.  The commits a state     *)
(* contains stand for its contents.                                        *)
NoFile == [epoch |-> 0, seq |-> 0, id |-> 0]

NoState == [epoch |-> 0, seq |-> 0, id |-> 0, parent |-> 0, log |-> {}]

valid(file) == file.epoch # 0

witnessFor(s) == [epoch |-> s.epoch, seq |-> s.seq, id |-> s.id]

witnessMatchesState(w, s) == w = witnessFor(s)

\* Mutant: a witness one commit behind is not recognised.
stateImmediatelyFollowsWitness_never(s, w) == FALSE

stateImmediatelyFollowsWitness(s, w) ==
    s.epoch = w.epoch /\ s.seq = w.seq + 1 /\ s.parent = w.id

(* What the next loadOrCreateState will take the files for.                *)
Lineage ==
    /\ valid(state) /\ valid(witness)
    /\ \/ witnessMatchesState(witness, state)
       \/ stateImmediatelyFollowsWitness(state, witness)

NewDrawn == [ids |-> drawn.ids + 1, epochs |-> drawn.epochs + 1]

\* Mutant: the replacement keeps the epoch of the files it replaces.
freshState_sameEpoch ==
    [epoch |-> IF valid(witness) THEN witness.epoch ELSE drawn.epochs + 1,
     seq |-> 1, id |-> drawn.ids + 1, parent |-> 0, log |-> {}]

(* The first commit of an epoch has sequence number 1 here, 0 in the code. *)
freshState ==
    [epoch |-> drawn.epochs + 1, seq |-> 1, id |-> drawn.ids + 1,
     parent |-> 0, log |-> {}]

(* HostStateCriticalSection.commit: a commit is the successor of the state *)
(* that was loaded at the beginning of the turn.                           *)
successor(s) ==
    [epoch |-> s.epoch, seq |-> s.seq + 1, id |-> drawn.ids + 1,
     parent |-> s.id, log |-> s.log \cup {drawn.ids + 1}]

-----------------------------------------------------------------------------
(* H0 readiness proofs: at most one receipt or lease, since issuing one    *)
(* invalidates the others.  A proof is the commit it was issued for.       *)
NoProof == [epoch |-> 0, id |-> 0, gen |-> 0]

NewStore ==
    [receipt |-> NoProof, lease |-> NoProof, gen |-> 0, observed |-> 0,
     closed |-> FALSE]

invalidateH0ProofsFor(o) == [o EXCEPT !.receipt = NoProof, !.lease = NoProof]

\* Mutant: a change of epoch is noted and nothing else.
observeH0LineageFor_only(o, e) == [o EXCEPT !.observed = e]

observeH0LineageFor(o, e) ==
    [(IF o.observed \notin {0, e} THEN invalidateH0ProofsFor(o) ELSE o)
        EXCEPT !.observed = e]

-----------------------------------------------------------------------------
(* Turns.                                                                  *)
At(p, l) == pc[p] = l

Goto(p, l) == pc' = [pc EXCEPT ![p] = l]

Fault == faults.io < MaxFaults /\ faults' = [faults EXCEPT !.io = @ + 1]

(* The end of a turn by an exception: unless it is a storage fault from    *)
(* before the rename, the proofs are invalidated (serialize, catch).       *)
Throw(p, storageFault) ==
    /\ Goto(p, "release")
    /\ h0' = IF storageFault THEN h0
             ELSE [h0 EXCEPT ![p] = invalidateH0ProofsFor(@)]

open(p) ==
    /\ At(p, "down")
    /\ Goto(p, "idle")
    /\ h0' = [h0 EXCEPT ![p] = NewStore]
    /\ UNCHANGED <<files, lock, turn, mem, drawn, faults, acked>>

(* The lock of a dead process, or of an earlier turn of this process whose *)
(* release failed, is reclaimed at once; the one that a live process left  *)
(* behind, after LOCK_STALE_MS.  A turn itself is shorter than that.       *)
lockIsStale(p) == lock = p \/ At(lock, "down") \/ At(lock, "idle")

acquireStoreLock(p, op) ==
    /\ At(p, "idle") /\ ~h0[p].closed
    /\ lock = None \/ (lock # None /\ lockIsStale(p))
    /\ lock' = p
    /\ turn' = [turn EXCEPT ![p] = op]
    /\ Goto(p, "load")
    /\ UNCHANGED <<files, mem, h0, drawn, faults, acked>>

\* Mutant: the state of the last turn is not read again.
Loaded_cached(p) == IF mem[p].epoch = state.epoch THEN mem[p] ELSE state

Loaded(p) == state

(* The section begins with the state that was loaded or created.           *)
Enter(p, s) ==
    /\ mem' = [mem EXCEPT ![p] = s]
    /\ h0' = [h0 EXCEPT ![p] = observeH0LineageFor(@, s.epoch)]
    /\ Goto(p, IF turn[p] = "read" THEN "release" ELSE "publish")

loadOrCreateState(p) ==
    /\ At(p, "load")
    /\ \/ /\ Lineage /\ witnessMatchesState(witness, state)
          /\ Enter(p, Loaded(p))
          /\ UNCHANGED <<files, drawn, faults>>
       \/ /\ Lineage /\ ~witnessMatchesState(witness, state)
          /\ mem' = [mem EXCEPT ![p] = Loaded(p)]
          /\ Goto(p, "repair")
          /\ UNCHANGED <<files, h0, drawn, faults>>
       \/ /\ ~Lineage /\ drawn.ids < MaxIds /\ drawn.epochs < MaxEpochs
          /\ state' = freshState /\ drawn' = NewDrawn
          /\ mem' = [mem EXCEPT ![p] = freshState]
          /\ \/ Goto(p, "freshWitness") /\ UNCHANGED <<h0, faults>>
             \/ Fault /\ Throw(p, FALSE)
          /\ UNCHANGED <<witness, begun>>
       \/ /\ \E storageFault \in BOOLEAN : Fault /\ Throw(p, storageFault)
          /\ UNCHANGED <<files, mem, drawn>>
    /\ UNCHANGED <<lock, turn, acked>>

(* The witness is written for the state this turn found or wrote.          *)
WriteWitness(s) == witness' = witnessFor(s) /\ begun' = begun \cup {s.epoch}

repairWitness(p) ==
    /\ At(p, "repair") \/ At(p, "freshWitness")
    /\ \/ WriteWitness(mem[p]) /\ Enter(p, mem[p]) /\ UNCHANGED faults
       \/ WriteWitness(mem[p]) /\ Fault /\ Throw(p, FALSE) /\ UNCHANGED mem
       \/ Fault /\ Throw(p, TRUE) /\ UNCHANGED <<witness, begun, mem>>
    /\ UNCHANGED <<state, lock, turn, drawn, acked>>

(* publishState, first half: the rename of the state file is the commit    *)
(* point.  A refused rename is a storage fault, an error after it or an    *)
(* exceeded budget is not.                                                 *)
publishState(p) ==
    /\ At(p, "publish")
    /\ \/ /\ drawn.ids < MaxIds
          /\ state' = successor(mem[p])
          /\ drawn' = [drawn EXCEPT !.ids = @ + 1]
          /\ mem' = [mem EXCEPT ![p] = successor(@)]
          /\ \/ Goto(p, "witness") /\ UNCHANGED <<h0, faults>>
             \/ Fault /\ Throw(p, FALSE)
       \/ /\ \E kind \in BOOLEAN : Fault /\ Throw(p, kind)
          /\ UNCHANGED <<state, mem, drawn>>
    /\ UNCHANGED <<witness, begun, lock, turn, acked>>

issueH0Readiness(o, s) ==
    [invalidateH0ProofsFor(o) EXCEPT
        !.gen = o.gen + 1, !.observed = s.epoch,
        !.receipt = [epoch |-> s.epoch, id |-> s.id, gen |-> o.gen + 1]]

(* publishState, second half: the witness.  Only now the commit is         *)
(* reported and, in a receipt turn, the receipt issued.                    *)
publishWitness(p) ==
    /\ At(p, "witness")
    /\ \/ /\ WriteWitness(mem[p])
          /\ acked' = acked \cup {[epoch |-> mem[p].epoch, id |-> mem[p].id]}
          /\ h0' = IF turn[p] = "receipt"
                   THEN [h0 EXCEPT ![p] = issueH0Readiness(@, mem[p])] ELSE h0
          /\ Goto(p, "release")
          /\ UNCHANGED faults
       \/ /\ WriteWitness(mem[p]) \/ UNCHANGED <<witness, begun>>
          /\ Fault /\ Throw(p, FALSE)
          /\ UNCHANGED acked
    /\ UNCHANGED <<state, lock, turn, mem, drawn>>

(* releaseStoreLock removes only its own lock, and may fail to.            *)
releaseStoreLock(p) ==
    /\ At(p, "release")
    /\ \/ lock' = (IF lock = p THEN None ELSE lock) /\ UNCHANGED faults
       \/ Fault /\ UNCHANGED lock
    /\ Goto(p, "idle")
    /\ UNCHANGED <<files, turn, mem, h0, drawn, acked>>

-----------------------------------------------------------------------------
(* Between turns: the proofs.                                              *)
Proofs(p, next) ==
    /\ At(p, "idle")
    /\ h0' = [h0 EXCEPT ![p] = next]
    /\ UNCHANGED <<files, lock, pc, turn, mem, drawn, faults, acked>>

consumeH0ReadinessReceiptFor(p) ==
    LET o == h0[p]
    IN  /\ ~o.closed /\ o.receipt # NoProof
        /\ o.receipt.epoch = o.observed /\ o.receipt.gen = o.gen
        /\ Proofs(p, [o EXCEPT !.lease = o.receipt, !.receipt = NoProof])

discardH0ReadinessReceiptFor(p) ==
    h0[p].receipt # NoProof /\ Proofs(p, [h0[p] EXCEPT !.receipt = NoProof])

releaseH0ReadinessLeaseFor(p) ==
    h0[p].lease # NoProof /\ Proofs(p, [h0[p] EXCEPT !.lease = NoProof])

close(p) ==
    /\ ~h0[p].closed
    /\ Proofs(p, [invalidateH0ProofsFor(h0[p]) EXCEPT !.closed = TRUE])

-----------------------------------------------------------------------------
(* The environment.                                                        *)
Crash(p) ==
    /\ ~At(p, "down") /\ Fault
    /\ Goto(p, "down")
    /\ h0' = [h0 EXCEPT ![p] = NewStore]
    /\ UNCHANGED <<files, lock, turn, mem, drawn, acked>>

(* Load and publication are synchronous: files are lost between turns.     *)
Damage ==
    /\ \A p \in Proc : pc[p] \in {"down", "idle", "release"}
    /\ faults.damage < MaxDamage
    /\ faults' = [faults EXCEPT !.damage = @ + 1]
    /\ \/ state' = NoState /\ UNCHANGED witness
       \/ witness' = NoFile /\ UNCHANGED state
    /\ UNCHANGED <<lock, pc, turn, mem, h0, drawn, acked, begun>>

Init ==
    /\ state = NoState /\ witness = NoFile /\ begun = {}
    /\ lock = None
    /\ pc = [p \in Proc |-> "down"] /\ turn = [p \in Proc |-> "read"]
    /\ mem = [p \in Proc |-> NoState]
    /\ h0 = [p \in Proc |-> NewStore]
    /\ drawn = [ids |-> 0, epochs |-> 0]
    /\ faults = [io |-> 0, damage |-> 0]
    /\ acked = {}

Next ==
    \/ Damage
    \/ \E p \in Proc :
        \/ open(p) \/ close(p) \/ Crash(p)
        \/ \E op \in {"read", "commit", "receipt"} :
              acquireStoreLock(p, op)
        \/ loadOrCreateState(p) \/ repairWitness(p)
        \/ publishState(p) \/ publishWitness(p) \/ releaseStoreLock(p)
        \/ consumeH0ReadinessReceiptFor(p)
        \/ discardH0ReadinessReceiptFor(p) \/ releaseH0ReadinessLeaseFor(p)

Spec == Init /\ [][Next]_vars

-----------------------------------------------------------------------------
(* Properties.                                                             *)
Stamp == [epoch : 0..MaxEpochs, id : 0..MaxIds]

FileType == [epoch : 0..MaxEpochs, seq : 0..MaxIds, id : 0..MaxIds]

StateType ==
    [epoch : 0..MaxEpochs, seq : 0..MaxIds, id : 0..MaxIds,
     parent : 0..MaxIds, log : SUBSET (1..MaxIds)]

ProofType == [epoch : 0..MaxEpochs, id : 0..MaxIds, gen : 0..MaxIds]

(* Types; the sequence number of a state never passes the ids drawn.       *)
TypeOK ==
    /\ state \in StateType /\ witness \in FileType
    /\ lock \in Proc \cup {None}
    /\ pc \in [Proc -> {"down", "idle", "load", "repair", "freshWitness",
                        "publish", "witness", "release"}]
    /\ turn \in [Proc -> {"read", "commit", "receipt"}]
    /\ mem \in [Proc -> StateType]
    /\ h0 \in [Proc -> [receipt : ProofType, lease : ProofType, gen : 0..MaxIds,
                        observed : 0..MaxEpochs, closed : BOOLEAN]]
    /\ drawn \in [ids : 0..MaxIds, epochs : 0..MaxEpochs]
    /\ faults \in [io : 0..MaxFaults, damage : 0..MaxDamage]
    /\ acked \subseteq Stamp /\ begun \subseteq 1..MaxEpochs

(* A commit whose caller was told of its success is in the state the next  *)
(* turn of any process loads, as long as its epoch is in force: no crash   *)
(* or I/O error between the two renames, no turn of another process and    *)
(* no repair of the witness drops it (publishState, loadOrCreateState).    *)
AckedSurvive ==
    \A a \in acked : Lineage /\ state.epoch = a.epoch => a.id \in state.log

(* Only damage from outside ends an epoch.  In particular the window       *)
(* between the two renames, left open by a crash, never makes the next     *)
(* host start over with an empty state (stateImmediatelyFollowsWitness).   *)
BreakStep ==
    Lineage /\ faults'.damage = faults.damage => Lineage' /\ state'.epoch = state.epoch

NoSpuriousBreak == [][BreakStep]_vars

(* A live H0 lease speaks of a commit that is durable in the epoch in      *)
(* force: an uncertain commit or a change of epoch that this process saw   *)
(* has closed it (invalidateH0ProofsFor, observeH0LineageFor).             *)
LeaseProves ==
    \A p \in Proc : h0[p].lease # NoProof =>
        /\ h0[p].lease.epoch = h0[p].observed
        /\ faults.damage = 0 => /\ Lineage /\ state.epoch = h0[p].lease.epoch
                                /\ h0[p].lease.id \in state.log

\* What the two files, their repair and the lock implement: an atomic log.
Log == INSTANCE CommitLog WITH
    epoch <- IF Lineage THEN state.epoch ELSE 0,
    log   <- IF Lineage THEN state.log ELSE {},
    past  <- begun \ (IF Lineage THEN {state.epoch} ELSE {})

ImplementsCommitLog == Log!Spec
=============================================================================
