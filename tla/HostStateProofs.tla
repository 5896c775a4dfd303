--------------------------- MODULE HostStateProofs ---------------------------
(***************************************************************************)
(* Proofs about the relay host's state file (HostState), for every number  *)
(* of processes and every bound: acknowledged commits survive, leases tell *)
(* the truth, only damage ends an epoch, and the two files implement the   *)
(* atomic log of CommitLog.                                                *)
(***************************************************************************)
EXTENDS HostState, TLAPS

-----------------------------------------------------------------------------
(* The inductive invariant.                                                *)

Section == {"load", "repair", "freshWitness", "publish", "witness", "release"}

\* The lock names whoever is in a turn, so there is one at most.
Mutex == \A p \in Proc : pc[p] \in Section => lock = p

\* What a process keeps about its proofs.
Store == [receipt : ProofType, lease : ProofType, gen : 0..MaxIds,
          observed : 0..MaxEpochs, closed : BOOLEAN]

\* Numbers that are drawn later are new.
Fresh ==
    /\ state.epoch <= drawn.epochs
    /\ state.seq <= drawn.ids
    /\ \A c \in state.log : c <= drawn.ids
    /\ \A e \in begun : e <= drawn.epochs
    /\ \A p \in Proc : h0[p].gen <= drawn.ids

\* What the process in a turn knows of the files.
InTurn == \A p \in Proc :
    /\ pc[p] \in {"repair", "freshWitness", "publish", "witness"} =>
         mem[p] = state /\ valid(state)
    /\ pc[p] = "repair" => Lineage
    /\ pc[p] = "freshWitness" => state.epoch \notin begun /\ state.log = {}
    /\ pc[p] = "publish" => witness = witnessFor(state)
    /\ pc[p] = "witness" => /\ Lineage /\ state.id \in state.log
                            /\ h0[p].gen < drawn.ids

Witnessed == valid(witness) => witness.epoch \in begun

\* A commit that was acknowledged is in every later state of its epoch, whether
\* or not a witness says so.
AckedInState == \A a \in acked :
    a.epoch \in begun /\ (state.epoch = a.epoch => a.id \in state.log)

\* As long as nobody else damages the files, one epoch is begun and stays.
Undamaged == faults.damage = 0 =>
    begun = {} \/ (Lineage /\ begun = {state.epoch})

\* A receipt or lease was issued for an acknowledged commit.
Issued == \A p \in Proc :
    /\ h0[p].receipt # NoProof =>
         [epoch |-> h0[p].receipt.epoch, id |-> h0[p].receipt.id] \in acked
    /\ h0[p].lease # NoProof =>
         /\ [epoch |-> h0[p].lease.epoch, id |-> h0[p].lease.id] \in acked
         /\ h0[p].lease.epoch = h0[p].observed

Inv ==
    /\ TypeOK /\ Mutex /\ Fresh /\ InTurn
    /\ Witnessed /\ AckedInState /\ Undamaged /\ Issued

-----------------------------------------------------------------------------
(* What the invariant says of the properties.                              *)

LEMMA LineageBegun ==
    ASSUME Inv, Lineage
    PROVE  state.epoch = witness.epoch /\ state.epoch \in begun
BY DEF Inv, Witnessed, Lineage, witnessMatchesState, witnessFor,
       stateImmediatelyFollowsWitness

LEMMA InvAcked == Inv => AckedSurvive
BY DEF Inv, AckedInState, AckedSurvive

LEMMA InvLease == Inv => LeaseProves
<1> SUFFICES ASSUME Inv, NEW p \in Proc, h0[p].lease # NoProof
             PROVE  /\ h0[p].lease.epoch = h0[p].observed
                    /\ faults.damage = 0 =>
                         /\ Lineage /\ state.epoch = h0[p].lease.epoch
                         /\ h0[p].lease.id \in state.log
  BY DEF LeaseProves
<1> DEFINE a == [epoch |-> h0[p].lease.epoch, id |-> h0[p].lease.id]
<1>1. a \in acked /\ h0[p].lease.epoch = h0[p].observed
  BY DEF Inv, Issued
<1>2. a.epoch \in begun /\ (state.epoch = a.epoch => a.id \in state.log)
  BY <1>1 DEF Inv, AckedInState
<1>3. faults.damage = 0 => Lineage /\ begun = {state.epoch}
  BY <1>2 DEF Inv, Undamaged
<1> QED BY <1>1, <1>2, <1>3

-----------------------------------------------------------------------------
(* Types of the proofs a process keeps.                                    *)

LEMMA NoProofType == ASSUME HostStateAssumption PROVE NoProof \in ProofType
BY DEF HostStateAssumption, NoProof, ProofType

LEMMA NewStoreType == ASSUME HostStateAssumption PROVE NewStore \in Store
<1>1. 0 \in 0..MaxIds /\ 0 \in 0..MaxEpochs
  BY DEF HostStateAssumption
<1> QED BY <1>1, NoProofType, Zenon DEF NewStore, Store

LEMMA StoreType == TypeOK => \A p \in Proc : h0[p] \in Store
BY DEF TypeOK, Store

LEMMA InvalidateType ==
    ASSUME HostStateAssumption, NEW o \in Store
    PROVE  LET n == invalidateH0ProofsFor(o)
           IN  /\ n \in Store /\ n.receipt = NoProof /\ n.lease = NoProof
               /\ n.gen = o.gen /\ n.observed = o.observed
BY NoProofType DEF invalidateH0ProofsFor, Store

-----------------------------------------------------------------------------
(* The invariant holds initially.                                          *)

LEMMA InitInv ==
    ASSUME HostStateAssumption, Init
    PROVE  Inv
<1> USE DEF Init, NoState, NoFile, NoProof, NewStore
<1>1. TypeOK
  BY DEF TypeOK, StateType, FileType, ProofType, HostStateAssumption
<1>2. Mutex /\ Fresh
  BY DEF Mutex, Section, Fresh
<1>3. InTurn /\ Witnessed
  BY DEF InTurn, Witnessed, valid
<1>4. AckedInState /\ Undamaged /\ Issued
  BY DEF AckedInState, Undamaged, Issued
<1> QED BY <1>1, <1>2, <1>3, <1>4 DEF Inv

-----------------------------------------------------------------------------
(* Every step preserves it: first the steps that leave the files alone.    *)

LEMMA OpenInv ==
    ASSUME HostStateAssumption, Inv, NEW p \in Proc, open(p)
    PROVE  Inv'
<1>1. TypeOK'
  BY NewStoreType DEF Inv, open, files, At, Goto, TypeOK, Store
<1> USE DEF Inv, open, files, At, Goto, NewStore, NoProof
<1>2. Mutex' /\ Fresh'
  BY DEF Mutex, Section, Fresh, TypeOK
<1>3. InTurn'
  BY DEF InTurn, Lineage, TypeOK
<1>4. Witnessed' /\ AckedInState' /\ Undamaged'
  BY DEF Witnessed, AckedInState, Undamaged, Lineage
<1>5. Issued'
  BY DEF Issued, TypeOK
<1> QED BY <1>1, <1>2, <1>3, <1>4, <1>5

LEMMA AcquireInv ==
    ASSUME HostStateAssumption, Inv, NEW p \in Proc,
           NEW op \in {"read", "commit", "receipt"}, acquireStoreLock(p, op)
    PROVE  Inv'
<1> USE DEF Inv, acquireStoreLock, files, At, Goto
<1>1. TypeOK'
  BY DEF TypeOK
<1>2. Mutex'
  BY DEF Mutex, Section, lockIsStale, TypeOK, HostStateAssumption
<1>3. Fresh' /\ InTurn'
  BY DEF Fresh, InTurn, Lineage, TypeOK
<1>4. Witnessed' /\ AckedInState' /\ Undamaged' /\ Issued'
  BY DEF Witnessed, AckedInState, Undamaged, Issued, Lineage
<1> QED BY <1>1, <1>2, <1>3, <1>4

LEMMA ReleaseInv ==
    ASSUME HostStateAssumption, Inv, NEW p \in Proc, releaseStoreLock(p)
    PROVE  Inv'
<1> USE DEF Inv, releaseStoreLock, files, At, Goto, Fault
<1>1. TypeOK'
  BY DEF TypeOK, HostStateAssumption
<1>2. Mutex'
  BY DEF Mutex, Section, TypeOK
<1>3. Fresh' /\ InTurn'
  BY DEF Fresh, InTurn, Lineage, TypeOK
<1>4. Witnessed' /\ AckedInState' /\ Issued'
  BY DEF Witnessed, AckedInState, Issued
<1>5. Undamaged'
  BY DEF Undamaged, Lineage, TypeOK
<1> QED BY <1>1, <1>2, <1>3, <1>4, <1>5

LEMMA CrashInv ==
    ASSUME HostStateAssumption, Inv, NEW p \in Proc, Crash(p)
    PROVE  Inv'
<1>1. TypeOK'
  <2>1. h0' \in [Proc -> Store]
    BY NewStoreType, StoreType DEF Inv, Crash, TypeOK, Store
  <2>2. faults' \in [io : 0..MaxFaults, damage : 0..MaxDamage]
    BY DEF Inv, Crash, TypeOK, Fault, HostStateAssumption
  <2> QED BY <2>1, <2>2 DEF Inv, Crash, files, Goto, TypeOK, Store
<1> USE DEF Inv, Crash, files, At, Goto, Fault, NewStore, NoProof
<1>2. Mutex' /\ Fresh'
  BY DEF Mutex, Section, Fresh, TypeOK
<1>3. InTurn'
  BY DEF InTurn, Lineage, TypeOK
<1>4. Witnessed' /\ AckedInState'
  BY DEF Witnessed, AckedInState
<1>5. Undamaged'
  BY DEF Undamaged, Lineage, TypeOK
<1>6. Issued'
  BY DEF Issued, TypeOK
<1> QED BY <1>1, <1>2, <1>3, <1>4, <1>5, <1>6

\* Between turns a process may only drop proofs, or take a receipt that is
\* still current for a lease.
LEMMA ProofsInv ==
    ASSUME HostStateAssumption, Inv, NEW p \in Proc, NEW next, Proofs(p, next),
           next \in Store,
           next.gen = h0[p].gen, next.observed = h0[p].observed,
           next.receipt \in {NoProof, h0[p].receipt},
           \/ next.lease \in {NoProof, h0[p].lease}
           \/ next.lease = h0[p].receipt /\ h0[p].receipt.epoch = h0[p].observed
    PROVE  Inv'
<1> USE DEF Inv, Proofs, files, At
<1>1. TypeOK'
  BY DEF TypeOK, Store
<1>2. Mutex' /\ Fresh'
  BY DEF Mutex, Fresh, TypeOK
<1>3. InTurn'
  BY DEF InTurn, Lineage, TypeOK
<1>4. Witnessed' /\ AckedInState' /\ Undamaged'
  BY DEF Witnessed, AckedInState, Undamaged, Lineage
<1>5. Issued'
  BY DEF Issued, TypeOK
<1> QED BY <1>1, <1>2, <1>3, <1>4, <1>5

LEMMA ConsumeInv ==
    ASSUME HostStateAssumption, Inv, NEW p \in Proc, consumeH0ReadinessReceiptFor(p)
    PROVE  Inv'
<1> DEFINE next == [h0[p] EXCEPT !.lease = h0[p].receipt, !.receipt = NoProof]
<1>1. Proofs(p, next) /\ h0[p].receipt.epoch = h0[p].observed
  BY DEF consumeH0ReadinessReceiptFor
<1>2. next.gen = h0[p].gen /\ next.observed = h0[p].observed
      /\ next.receipt = NoProof /\ next.lease = h0[p].receipt
      /\ next \in Store
  BY NoProofType, StoreType DEF Inv, Store
<1> QED BY <1>1, <1>2, ProofsInv

LEMMA DiscardInv ==
    ASSUME HostStateAssumption, Inv, NEW p \in Proc, discardH0ReadinessReceiptFor(p)
    PROVE  Inv'
<1> DEFINE next == [h0[p] EXCEPT !.receipt = NoProof]
<1>1. Proofs(p, next)
  BY DEF discardH0ReadinessReceiptFor
<1>2. next.gen = h0[p].gen /\ next.observed = h0[p].observed
      /\ next.receipt = NoProof /\ next.lease = h0[p].lease
      /\ next \in Store
  BY NoProofType, StoreType DEF Inv, Store
<1> QED BY <1>1, <1>2, ProofsInv

LEMMA ReleaseLeaseInv ==
    ASSUME HostStateAssumption, Inv, NEW p \in Proc, releaseH0ReadinessLeaseFor(p)
    PROVE  Inv'
<1> DEFINE next == [h0[p] EXCEPT !.lease = NoProof]
<1>1. Proofs(p, next)
  BY DEF releaseH0ReadinessLeaseFor
<1>2. next.gen = h0[p].gen /\ next.observed = h0[p].observed
      /\ next.receipt = h0[p].receipt /\ next.lease = NoProof
      /\ next \in Store
  BY NoProofType, StoreType DEF Inv, Store
<1> QED BY <1>1, <1>2, ProofsInv

LEMMA CloseInv ==
    ASSUME HostStateAssumption, Inv, NEW p \in Proc, close(p)
    PROVE  Inv'
<1> DEFINE dropped == invalidateH0ProofsFor(h0[p])
           next == [dropped EXCEPT !.closed = TRUE]
<1>1. Proofs(p, next)
  BY DEF close
<1>3. dropped \in Store /\ dropped.receipt = NoProof /\ dropped.lease = NoProof
      /\ dropped.gen = h0[p].gen /\ dropped.observed = h0[p].observed
  BY InvalidateType, StoreType DEF Inv
<1> HIDE DEF dropped
<1>2. next.gen = h0[p].gen /\ next.observed = h0[p].observed
      /\ next.receipt = NoProof /\ next.lease = NoProof
      /\ next \in Store
  BY <1>3 DEF Store
<1> QED BY <1>1, <1>2, ProofsInv

LEMMA DamageInv ==
    ASSUME HostStateAssumption, Inv, Damage
    PROVE  Inv'
<1> USE DEF Inv, Damage
<1>1. TypeOK'
  BY DEF TypeOK, HostStateAssumption, NoState, NoFile, StateType, FileType
<1>2. Mutex' /\ Fresh'
  BY DEF Mutex, Fresh, NoState, TypeOK
<1>3. InTurn'
  BY DEF InTurn, TypeOK
<1>4. Witnessed' /\ Issued'
  BY DEF Witnessed, Issued, NoFile, valid
<1>5. AckedInState'
  <2> SUFFICES ASSUME NEW a \in acked, state'.epoch = a.epoch
               PROVE  a.id \in state'.log
    BY DEF AckedInState
  <2>1. a.epoch \in begun /\ a.epoch # 0
    BY DEF AckedInState, TypeOK
  <2> QED BY <2>1 DEF AckedInState, NoState
<1>6. Undamaged'
  BY DEF Undamaged, TypeOK
<1> QED BY <1>1, <1>2, <1>3, <1>4, <1>5, <1>6

-----------------------------------------------------------------------------
(* The steps that write the files.                                         *)

\* A turn that ends by an exception gives up proofs at most.
LEMMA ThrowStore ==
    ASSUME HostStateAssumption, TypeOK, NEW p \in Proc, NEW kind \in BOOLEAN,
           Throw(p, kind)
    PROVE  /\ h0' \in [Proc -> Store]
           /\ pc' = [pc EXCEPT ![p] = "release"]
           /\ \A q \in Proc : /\ h0'[q].gen = h0[q].gen
                              /\ h0'[q].observed = h0[q].observed
                              /\ h0'[q].receipt \in {NoProof, h0[q].receipt}
                              /\ h0'[q].lease \in {NoProof, h0[q].lease}
<1>1. CASE kind
  BY <1>1, StoreType DEF Throw, Goto, TypeOK, Store
<1>2. CASE ~kind
  <2>1. h0' = [h0 EXCEPT ![p] = invalidateH0ProofsFor(h0[p])]
    BY <1>2 DEF Throw
  <2> QED BY <2>1, InvalidateType, StoreType DEF Throw, Goto, TypeOK
<1> QED BY <1>1, <1>2

\* A turn that enters its section drops the proofs of another epoch.
LEMMA ObserveStore ==
    ASSUME HostStateAssumption, NEW o \in Store, NEW e \in 1..MaxEpochs,
           o.lease # NoProof => o.lease.epoch = o.observed /\ o.lease.epoch # 0
    PROVE  LET n == observeH0LineageFor(o, e)
           IN  /\ n \in Store /\ n.gen = o.gen
               /\ n.receipt \in {NoProof, o.receipt}
               /\ n.lease \in {NoProof, o.lease}
               /\ n.lease # NoProof => n.lease.epoch = n.observed
<1>1. CASE o.observed \notin {0, e}
  <2> DEFINE d == invalidateH0ProofsFor(o)
  <2>1. d \in Store /\ d.receipt = NoProof /\ d.lease = NoProof /\ d.gen = o.gen
    BY InvalidateType
  <2>2. observeH0LineageFor(o, e) = [d EXCEPT !.observed = e]
    BY <1>1 DEF observeH0LineageFor
  <2> HIDE DEF d
  <2> QED BY <2>1, <2>2 DEF Store
<1>2. CASE o.observed \in {0, e}
  <2>1. observeH0LineageFor(o, e) = [o EXCEPT !.observed = e]
    BY <1>2 DEF observeH0LineageFor
  <2> QED BY <1>2, <2>1 DEF Store
<1> QED BY <1>1, <1>2

\* Issued commits stay acknowledged while proofs are kept or dropped.
Kept ==
    /\ h0' \in [Proc -> Store]
    /\ \A q \in Proc : /\ h0'[q].gen = h0[q].gen
                       /\ h0'[q].receipt \in {NoProof, h0[q].receipt}
                       /\ h0'[q].lease \in {NoProof, h0[q].lease}
                       /\ h0'[q].lease # NoProof => h0'[q].lease.epoch = h0'[q].observed

LEMMA KeptIssued ==
    ASSUME Inv, Kept, acked \subseteq acked'
    PROVE  Issued'
BY DEF Inv, Issued, Kept

LEMMA ThrowKept ==
    ASSUME HostStateAssumption, Inv, NEW p \in Proc, NEW kind \in BOOLEAN,
           Throw(p, kind)
    PROVE  Kept /\ pc' = [pc EXCEPT ![p] = "release"]
BY ThrowStore DEF Inv, Issued, Kept

LEMMA UnchangedKept == ASSUME Inv, UNCHANGED h0 PROVE Kept
BY StoreType DEF Inv, Issued, Kept, TypeOK, Store

LEMMA EnterKept ==
    ASSUME HostStateAssumption, Inv, NEW p \in Proc, NEW s,
           s.epoch \in 1..MaxEpochs, Enter(p, s)
    PROVE  /\ Kept
           /\ mem' = [mem EXCEPT ![p] = s]
           /\ pc' = [pc EXCEPT ![p] = IF turn[p] = "read" THEN "release" ELSE "publish"]
<1> DEFINE n == observeH0LineageFor(h0[p], s.epoch)
<1>1. h0[p] \in Store
  BY StoreType DEF Inv
<1>2. h0[p].lease # NoProof => h0[p].lease.epoch = h0[p].observed /\ h0[p].lease.epoch # 0
  <2> SUFFICES ASSUME h0[p].lease # NoProof
               PROVE  h0[p].lease.epoch = h0[p].observed /\ h0[p].lease.epoch # 0
    OBVIOUS
  <2>1. [epoch |-> h0[p].lease.epoch, id |-> h0[p].lease.id] \in acked
        /\ h0[p].lease.epoch = h0[p].observed
    BY DEF Inv, Issued
  <2>2. h0[p].lease.epoch \in begun
    BY <2>1 DEF Inv, AckedInState
  <2> QED BY <2>1, <2>2 DEF Inv, TypeOK
<1>3. /\ n \in Store /\ n.gen = h0[p].gen
      /\ n.receipt \in {NoProof, h0[p].receipt}
      /\ n.lease \in {NoProof, h0[p].lease}
      /\ n.lease # NoProof => n.lease.epoch = n.observed
  BY <1>1, <1>2, ObserveStore
<1>4. h0' = [h0 EXCEPT ![p] = n]
  BY DEF Enter
<1>5. h0 \in [Proc -> Store]
  BY DEF Inv, TypeOK, Store
<1> HIDE DEF n
<1>6. Kept
  BY <1>3, <1>4, <1>5 DEF Kept, Inv, Issued
<1> QED BY <1>6 DEF Enter, Goto

\* Nobody else is in a turn.
LEMMA Alone ==
    ASSUME Inv, NEW p \in Proc, NEW q \in Proc, pc[p] \in Section, pc[q] \in Section
    PROVE  p = q
BY DEF Inv, Mutex

LEMMA LoadInv ==
    ASSUME HostStateAssumption, Inv, NEW p \in Proc, loadOrCreateState(p)
    PROVE  Inv'
<1>0. /\ pc[p] = "load" /\ UNCHANGED <<lock, turn, acked>>
      /\ \A q \in Proc \ {p} : pc[q] \in {"down", "idle"}
  BY Alone DEF loadOrCreateState, At, Section, Inv, TypeOK
<1>1. CASE Lineage /\ witnessMatchesState(witness, state) /\ Enter(p, Loaded(p))
           /\ UNCHANGED <<files, drawn, faults>>
  <2>1. state.epoch \in 1..MaxEpochs
    BY <1>1 DEF Inv, TypeOK, StateType, Lineage, valid
  <2>2. /\ Kept /\ mem' = [mem EXCEPT ![p] = state]
        /\ pc' = [pc EXCEPT ![p] = IF turn[p] = "read" THEN "release" ELSE "publish"]
    BY <1>1, <2>1, EnterKept DEF Loaded
  <2> USE <1>0, <1>1, <2>2 DEF files, Inv
  <2>3. TypeOK'
    BY DEF TypeOK, Kept, Store
  <2>4. Mutex' /\ Fresh'
    BY DEF Mutex, Section, Fresh, Kept, TypeOK
  <2>5. InTurn'
    BY DEF InTurn, Lineage, witnessMatchesState, TypeOK
  <2>6. Witnessed' /\ AckedInState' /\ Undamaged'
    BY DEF Witnessed, AckedInState, Undamaged, Lineage
  <2>7. Issued'
    BY KeptIssued
  <2> QED BY <2>3, <2>4, <2>5, <2>6, <2>7
<1>2. CASE /\ Lineage /\ mem' = [mem EXCEPT ![p] = Loaded(p)]
           /\ Goto(p, "repair") /\ UNCHANGED <<files, h0, drawn, faults>>
  <2> USE <1>0, <1>2 DEF files, Inv, Goto, Loaded
  <2>3. TypeOK'
    BY DEF TypeOK
  <2>4. Mutex' /\ Fresh'
    BY DEF Mutex, Section, Fresh, TypeOK
  <2>5. InTurn'
    BY DEF InTurn, Lineage, TypeOK
  <2>6. Witnessed' /\ AckedInState' /\ Undamaged' /\ Issued'
    BY DEF Witnessed, AckedInState, Undamaged, Issued, Lineage
  <2> QED BY <2>3, <2>4, <2>5, <2>6
<1>3. CASE /\ ~Lineage /\ drawn.ids < MaxIds /\ drawn.epochs < MaxEpochs
           /\ state' = freshState /\ drawn' = NewDrawn
           /\ mem' = [mem EXCEPT ![p] = freshState]
           /\ \/ Goto(p, "freshWitness") /\ UNCHANGED <<h0, faults>>
              \/ Fault /\ Throw(p, FALSE)
           /\ UNCHANGED <<witness, begun>>
  <2>1. /\ Kept /\ faults' \in [io : 0..MaxFaults, damage : 0..MaxDamage]
        /\ faults'.damage = faults.damage
        /\ pc' = [pc EXCEPT ![p] = "freshWitness"] \/ pc' = [pc EXCEPT ![p] = "release"]
    <3>1. CASE Goto(p, "freshWitness") /\ UNCHANGED <<h0, faults>>
      BY <3>1, UnchangedKept DEF Goto, Inv, TypeOK
    <3>2. CASE Fault /\ Throw(p, FALSE)
      <4>1. \E kind \in BOOLEAN : Throw(p, kind)
        BY <3>2, Zenon
      <4>2. Kept /\ pc' = [pc EXCEPT ![p] = "release"]
        BY <4>1, ThrowKept
      <4> QED BY <3>2, <4>2 DEF Fault, Inv, TypeOK, HostStateAssumption
    <3> QED BY <1>3, <3>1, <3>2
  <2>2. /\ state' = [epoch |-> drawn.epochs + 1, seq |-> 1, id |-> drawn.ids + 1,
                     parent |-> 0, log |-> {}]
        /\ drawn' = [ids |-> drawn.ids + 1, epochs |-> drawn.epochs + 1]
        /\ mem' = [mem EXCEPT ![p] = state']
    BY <1>3 DEF freshState, NewDrawn
  <2>3. state' \in StateType /\ drawn' \in [ids : 0..MaxIds, epochs : 0..MaxEpochs]
    BY <1>3, <2>2 DEF Inv, TypeOK, StateType, HostStateAssumption
  <2>4. TypeOK'
    <3>1. mem' \in [Proc -> StateType] /\ UNCHANGED <<lock, turn, witness, acked, begun>>
      BY <1>0, <1>3, <2>2, <2>3 DEF Inv, TypeOK
    <3> QED BY <3>1, <2>1, <2>3 DEF Inv, TypeOK, Kept, Store
  <2> USE <1>0, <1>3, <2>1, <2>2, <2>3 DEF Inv
  <2>5. Mutex'
    BY DEF Mutex, Section, TypeOK
  <2>6. Fresh'
    BY DEF Fresh, Kept, TypeOK
  <2>7. state'.epoch \notin begun /\ state'.epoch # 0
    BY DEF Fresh, TypeOK
  <2>8. InTurn'
    BY <2>7 DEF InTurn, valid, TypeOK
  <2>9. Witnessed' /\ AckedInState'
    BY <2>7 DEF Witnessed, AckedInState
  <2>10. Undamaged'
    BY DEF Undamaged
  <2>11. Issued'
    BY KeptIssued
  <2> QED BY <2>4, <2>5, <2>6, <2>8, <2>9, <2>10, <2>11
<1>4. CASE /\ \E storageFault \in BOOLEAN : Fault /\ Throw(p, storageFault)
           /\ UNCHANGED <<files, mem, drawn>>
  <2>1. /\ Kept /\ faults' \in [io : 0..MaxFaults, damage : 0..MaxDamage]
        /\ faults'.damage = faults.damage
        /\ pc' = [pc EXCEPT ![p] = "release"]
    BY <1>4, ThrowKept DEF Fault, Inv, TypeOK, HostStateAssumption
  <2> USE <1>0, <1>4, <2>1 DEF files, Inv
  <2>2. TypeOK'
    BY DEF TypeOK, Kept, Store
  <2>3. Mutex' /\ Fresh'
    BY DEF Mutex, Section, Fresh, Kept, TypeOK
  <2>4. InTurn'
    BY DEF InTurn, Lineage, TypeOK
  <2>5. Witnessed' /\ AckedInState' /\ Undamaged'
    BY DEF Witnessed, AckedInState, Undamaged, Lineage
  <2>6. Issued'
    BY KeptIssued
  <2> QED BY <2>2, <2>3, <2>4, <2>5, <2>6
<1> QED BY <1>1, <1>2, <1>3, <1>4 DEF loadOrCreateState

\* What a fault and the exception that follows it do.
LEMMA FaultKept ==
    ASSUME HostStateAssumption, Inv, NEW p \in Proc,
           \E kind \in BOOLEAN : Fault /\ Throw(p, kind)
    PROVE  /\ Kept /\ faults' \in [io : 0..MaxFaults, damage : 0..MaxDamage]
           /\ faults'.damage = faults.damage
           /\ pc' = [pc EXCEPT ![p] = "release"]
BY ThrowKept DEF Fault, Inv, TypeOK, HostStateAssumption

\* The process that writes the witness is alone and holds the state; what it
\* leaves of the proofs depends on how its turn goes on.
WitnessStep(p, next) ==
    /\ pc[p] \in {"repair", "freshWitness", "witness"}
    /\ WriteWitness(mem[p]) \/ (next = "release" /\ UNCHANGED <<witness, begun>>)
    /\ UNCHANGED <<state, lock, turn, drawn>>
    /\ mem' = [mem EXCEPT ![p] = mem[p]]
    /\ faults' \in [io : 0..MaxFaults, damage : 0..MaxDamage]
    /\ faults'.damage = faults.damage
    /\ pc' = [pc EXCEPT ![p] = next]
    /\ h0' \in [Proc -> Store]
    /\ \A q \in Proc : h0'[q].gen <= drawn.ids
    /\ acked' \subseteq Stamp
    /\ Issued'
    /\ \A a \in acked' : a \in acked \/ /\ WriteWitness(mem[p]) /\ pc[p] = "witness"
                                        /\ a = [epoch |-> mem[p].epoch, id |-> mem[p].id]

LEMMA WitnessInv ==
    ASSUME HostStateAssumption, Inv, NEW p \in Proc,
           NEW next \in {"release", "publish"}, WitnessStep(p, next)
    PROVE  Inv'
<1> USE DEF WitnessStep
<1>1. mem[p] = state /\ valid(state)
  BY DEF Inv, InTurn
<1>2. /\ witness' = witness \/ witness' = witnessFor(state)
      /\ WriteWitness(mem[p]) => /\ witness' = witnessFor(state)
                                 /\ begun' = begun \cup {state.epoch}
      /\ begun' \subseteq begun \cup {state.epoch} /\ begun \subseteq begun'
      /\ state.epoch \in 1..MaxEpochs
  BY <1>1 DEF WriteWitness, Inv, TypeOK, StateType, valid
<1>3. \A q \in Proc \ {p} : pc[q] \in {"down", "idle"}
  BY Alone DEF Section, Inv, TypeOK
<1>4. Lineage => Lineage'
  BY <1>1, <1>2 DEF Lineage, witnessMatchesState, valid, witnessFor
<1>5. WriteWitness(mem[p]) => Lineage'
  BY <1>1, <1>2 DEF Lineage, witnessMatchesState, valid, witnessFor
<1>6. TypeOK'
  <2>1. mem' \in [Proc -> StateType] /\ witness' \in FileType /\ begun' \subseteq 1..MaxEpochs
    BY <1>1, <1>2 DEF Inv, TypeOK, StateType, FileType, witnessFor
  <2> QED BY <2>1 DEF Inv, TypeOK, Store
<1>7. Mutex'
  BY <1>3 DEF Inv, Mutex, Section, TypeOK
<1>8. Fresh'
  BY <1>2 DEF Inv, Fresh, TypeOK
<1>9. InTurn'
  BY <1>1, <1>2, <1>3 DEF InTurn, Inv, TypeOK
<1>10. Witnessed'
  BY <1>1, <1>2 DEF Inv, Witnessed, witnessFor, valid, WriteWitness
<1>11. AckedInState'
  <2> SUFFICES ASSUME NEW a \in acked'
               PROVE  a.epoch \in begun' /\ (state.epoch = a.epoch => a.id \in state.log)
    BY DEF AckedInState
  <2>1. CASE a \in acked
    BY <2>1, <1>2 DEF Inv, AckedInState
  <2>2. CASE /\ WriteWitness(mem[p]) /\ pc[p] = "witness"
             /\ a = [epoch |-> mem[p].epoch, id |-> mem[p].id]
    BY <2>2, <1>1, <1>2 DEF Inv, InTurn
  <2> QED BY <2>1, <2>2
<1>12. Undamaged'
  <2> SUFFICES ASSUME faults.damage = 0, begun' # {}
               PROVE  Lineage' /\ begun' = {state.epoch}
    BY DEF Undamaged
  <2>1. CASE begun = {}
    BY <2>1, <1>2, <1>5
  <2>2. CASE Lineage /\ begun = {state.epoch}
    BY <2>2, <1>2, <1>4
  <2> QED BY <2>1, <2>2 DEF Inv, Undamaged
<1> QED BY <1>6, <1>7, <1>8, <1>9, <1>10, <1>11, <1>12 DEF Inv

LEMMA RepairInv ==
    ASSUME HostStateAssumption, Inv, NEW p \in Proc, repairWitness(p)
    PROVE  Inv'
<1>0. /\ pc[p] \in {"repair", "freshWitness"} /\ UNCHANGED <<state, lock, turn, drawn, acked>>
      /\ mem[p] = state /\ mem = [mem EXCEPT ![p] = mem[p]]
      /\ state.epoch \in 1..MaxEpochs
  BY DEF repairWitness, At, Inv, InTurn, TypeOK, StateType, valid
<1>1. Kept => /\ h0' \in [Proc -> Store] /\ \A q \in Proc : h0'[q].gen <= drawn.ids
              /\ acked' \subseteq Stamp /\ Issued' /\ acked' = acked
  BY <1>0, KeptIssued DEF Kept, Inv, Fresh, TypeOK
<1>2. CASE WriteWitness(mem[p]) /\ Enter(p, mem[p]) /\ UNCHANGED faults
  <2>1. /\ Kept /\ mem' = [mem EXCEPT ![p] = mem[p]]
        /\ pc' = [pc EXCEPT ![p] = IF turn[p] = "read" THEN "release" ELSE "publish"]
    BY <1>0, <1>2, EnterKept
  <2> DEFINE next == IF turn[p] = "read" THEN "release" ELSE "publish"
  <2>2. next \in {"release", "publish"} /\ pc' = [pc EXCEPT ![p] = next]
    BY <2>1
  <2>3. faults' \in [io : 0..MaxFaults, damage : 0..MaxDamage]
        /\ faults'.damage = faults.damage
    BY <1>2 DEF Inv, TypeOK
  <2> HIDE DEF next
  <2>4. WitnessStep(p, next)
    BY <1>0, <1>1, <1>2, <2>1, <2>2, <2>3 DEF WitnessStep
  <2> QED BY <2>2, <2>4, WitnessInv
<1>3. CASE /\ WriteWitness(mem[p]) \/ UNCHANGED <<witness, begun>>
           /\ \E kind \in BOOLEAN : Fault /\ Throw(p, kind)
           /\ UNCHANGED mem
  <2>1. /\ Kept /\ pc' = [pc EXCEPT ![p] = "release"]
        /\ faults' \in [io : 0..MaxFaults, damage : 0..MaxDamage]
        /\ faults'.damage = faults.damage
    BY <1>3, FaultKept
  <2>2. WitnessStep(p, "release")
    BY <1>0, <1>1, <1>3, <2>1 DEF WitnessStep
  <2> QED BY <2>2, WitnessInv
<1>4. \/ WriteWitness(mem[p]) /\ Enter(p, mem[p]) /\ UNCHANGED faults
      \/ WriteWitness(mem[p]) /\ Fault /\ Throw(p, FALSE) /\ UNCHANGED mem
      \/ Fault /\ Throw(p, TRUE) /\ UNCHANGED <<witness, begun, mem>>
  BY DEF repairWitness
<1>5. \/ WriteWitness(mem[p]) /\ Enter(p, mem[p]) /\ UNCHANGED faults
      \/ /\ WriteWitness(mem[p]) \/ UNCHANGED <<witness, begun>>
         /\ \E kind \in BOOLEAN : Fault /\ Throw(p, kind)
         /\ UNCHANGED mem
  BY <1>4, Zenon
<1> QED BY <1>2, <1>3, <1>5

LEMMA PublishInv ==
    ASSUME HostStateAssumption, Inv, NEW p \in Proc, publishState(p)
    PROVE  Inv'
<1>0. /\ pc[p] = "publish" /\ UNCHANGED <<witness, begun, lock, turn, acked>>
      /\ mem[p] = state /\ valid(state) /\ witness = witnessFor(state)
      /\ \A q \in Proc \ {p} : pc[q] \in {"down", "idle"}
  BY Alone DEF publishState, At, Inv, InTurn, TypeOK, Section
<1>1. CASE /\ drawn.ids < MaxIds
           /\ state' = successor(mem[p])
           /\ drawn' = [drawn EXCEPT !.ids = @ + 1]
           /\ mem' = [mem EXCEPT ![p] = successor(@)]
           /\ \/ Goto(p, "witness") /\ UNCHANGED <<h0, faults>>
              \/ Fault /\ Throw(p, FALSE)
  <2>1. /\ Kept /\ faults' \in [io : 0..MaxFaults, damage : 0..MaxDamage]
        /\ faults'.damage = faults.damage
        /\ pc' = [pc EXCEPT ![p] = "witness"] \/ pc' = [pc EXCEPT ![p] = "release"]
    <3>1. CASE Goto(p, "witness") /\ UNCHANGED <<h0, faults>>
      BY <3>1, UnchangedKept DEF Goto, Inv, TypeOK
    <3>2. CASE Fault /\ Throw(p, FALSE)
      <4>1. \E kind \in BOOLEAN : Fault /\ Throw(p, kind)
        BY <3>2, Zenon
      <4> QED BY <4>1, FaultKept
    <3> QED BY <1>1, <3>1, <3>2
  <2>2. /\ state' = [epoch |-> state.epoch, seq |-> state.seq + 1, id |-> drawn.ids + 1,
                     parent |-> state.id, log |-> state.log \cup {drawn.ids + 1}]
        /\ drawn' = [ids |-> drawn.ids + 1, epochs |-> drawn.epochs]
        /\ mem' = [mem EXCEPT ![p] = state']
    BY <1>0, <1>1 DEF successor, Inv, TypeOK
  <2>3. state' \in StateType /\ drawn' \in [ids : 0..MaxIds, epochs : 0..MaxEpochs]
    BY <1>1, <2>2 DEF Inv, TypeOK, StateType, HostStateAssumption, Fresh
  <2>4. TypeOK'
    <3>1. mem' \in [Proc -> StateType] /\ UNCHANGED <<lock, turn, witness, acked, begun>>
      BY <1>0, <2>2, <2>3 DEF Inv, TypeOK
    <3> QED BY <3>1, <2>1, <2>3 DEF Inv, TypeOK, Kept, Store
  <2>5. Lineage'
    BY <1>0, <2>2 DEF Lineage, stateImmediatelyFollowsWitness, valid, witnessFor
  <2> USE <1>0, <2>1, <2>2 DEF Inv
  <2>6. Mutex'
    BY DEF Mutex, Section, TypeOK
  <2>7. Fresh'
    BY DEF Fresh, Kept, TypeOK, StateType
  <2>8. InTurn'
    BY <2>5 DEF InTurn, valid, TypeOK, Kept, Fresh
  <2>9. Witnessed' /\ AckedInState' /\ Undamaged'
    BY <2>5 DEF Witnessed, AckedInState, Undamaged
  <2>10. Issued'
    BY KeptIssued
  <2> QED BY <2>4, <2>6, <2>7, <2>8, <2>9, <2>10
<1>2. CASE /\ \E kind \in BOOLEAN : Fault /\ Throw(p, kind)
           /\ UNCHANGED <<state, mem, drawn>>
  <2>1. /\ Kept /\ faults' \in [io : 0..MaxFaults, damage : 0..MaxDamage]
        /\ faults'.damage = faults.damage
        /\ pc' = [pc EXCEPT ![p] = "release"]
    BY <1>2, FaultKept
  <2> USE <1>0, <1>2, <2>1 DEF Inv
  <2>2. TypeOK'
    BY DEF TypeOK, Kept, Store
  <2>3. Mutex' /\ Fresh'
    BY DEF Mutex, Section, Fresh, Kept, TypeOK
  <2>4. InTurn'
    BY DEF InTurn, Lineage, TypeOK
  <2>5. Witnessed' /\ AckedInState' /\ Undamaged'
    BY DEF Witnessed, AckedInState, Undamaged, Lineage
  <2>6. Issued'
    BY KeptIssued
  <2> QED BY <2>2, <2>3, <2>4, <2>5, <2>6
<1> QED BY <1>1, <1>2 DEF publishState

\* A receipt is issued for the commit that is acknowledged with it.
LEMMA IssueStore ==
    ASSUME HostStateAssumption, NEW o \in Store, NEW s \in StateType, o.gen < MaxIds
    PROVE  LET n == issueH0Readiness(o, s)
           IN  /\ n \in Store /\ n.lease = NoProof /\ n.gen = o.gen + 1
               /\ n.receipt = [epoch |-> s.epoch, id |-> s.id, gen |-> o.gen + 1]
<1> DEFINE d == invalidateH0ProofsFor(o)
           r == [epoch |-> s.epoch, id |-> s.id, gen |-> o.gen + 1]
<1>1. d \in Store /\ d.lease = NoProof /\ d.gen = o.gen
  BY InvalidateType
<1>2. r \in ProofType /\ o.gen + 1 \in 0..MaxIds /\ s.epoch \in 0..MaxEpochs
  BY DEF ProofType, StateType, Store, HostStateAssumption
<1>3. issueH0Readiness(o, s) =
        [d EXCEPT !.gen = o.gen + 1, !.observed = s.epoch, !.receipt = r]
  BY DEF issueH0Readiness
<1> HIDE DEF d, r
<1>4. /\ issueH0Readiness(o, s) \in Store
      /\ issueH0Readiness(o, s).lease = NoProof
      /\ issueH0Readiness(o, s).gen = o.gen + 1
      /\ issueH0Readiness(o, s).receipt = r
  BY <1>1, <1>2, <1>3 DEF Store
<1> QED BY <1>4 DEF r

LEMMA PublishWitnessInv ==
    ASSUME HostStateAssumption, Inv, NEW p \in Proc, publishWitness(p)
    PROVE  Inv'
<1>0. /\ pc[p] = "witness" /\ UNCHANGED <<state, lock, turn, mem, drawn>>
      /\ mem[p] = state /\ h0[p].gen < drawn.ids /\ drawn.ids <= MaxIds
      /\ mem' = [mem EXCEPT ![p] = mem[p]] /\ state \in StateType
      /\ h0 \in [Proc -> Store]
  BY DEF publishWitness, At, Inv, InTurn, TypeOK, Store
<1>1. CASE /\ WriteWitness(mem[p])
           /\ acked' = acked \cup {[epoch |-> mem[p].epoch, id |-> mem[p].id]}
           /\ h0' = IF turn[p] = "receipt"
                    THEN [h0 EXCEPT ![p] = issueH0Readiness(@, mem[p])] ELSE h0
           /\ Goto(p, "release")
           /\ UNCHANGED faults
  <2> DEFINE n == issueH0Readiness(h0[p], state)
             a == [epoch |-> state.epoch, id |-> state.id]
  <2>1. /\ n \in Store /\ n.lease = NoProof /\ n.gen = h0[p].gen + 1
        /\ n.receipt = [epoch |-> state.epoch, id |-> state.id, gen |-> h0[p].gen + 1]
    <3>1. h0[p] \in Store /\ h0[p].gen < MaxIds
      BY <1>0 DEF Store, HostStateAssumption, Inv, TypeOK
    <3> QED BY <1>0, <3>1, IssueStore
  <2>2. /\ h0' = h0 \/ h0' = [h0 EXCEPT ![p] = n]
        /\ acked' = acked \cup {a} /\ a \in Stamp
    BY <1>0, <1>1 DEF Stamp, StateType
  <2> HIDE DEF n
  <2>3. h0' \in [Proc -> Store] /\ \A q \in Proc : h0'[q].gen <= drawn.ids
    <3>1. h0' \in [Proc -> Store]
      BY <1>0, <2>1, <2>2
    <3>2. h0[p].gen \in Nat /\ drawn.ids \in Nat /\ n.gen <= drawn.ids
      BY <1>0, <2>1 DEF Inv, TypeOK, Store
    <3> QED BY <1>0, <2>2, <3>1, <3>2 DEF Inv, Fresh
  <2>4. Issued'
    BY <1>0, <2>1, <2>2 DEF Inv, Issued
  <2>5. acked' \subseteq Stamp /\ \A b \in acked' : b \in acked \/ b = a
    BY <2>2 DEF Inv, TypeOK
  <2>6. faults' \in [io : 0..MaxFaults, damage : 0..MaxDamage]
        /\ faults'.damage = faults.damage
    BY <1>1 DEF Inv, TypeOK
  <2>7. WitnessStep(p, "release")
    BY <1>0, <1>1, <2>3, <2>4, <2>5, <2>6 DEF WitnessStep, Goto
  <2> QED BY <2>7, WitnessInv
<1>2. CASE /\ WriteWitness(mem[p]) \/ UNCHANGED <<witness, begun>>
           /\ \E kind \in BOOLEAN : Fault /\ Throw(p, kind)
           /\ UNCHANGED acked
  <2>1. /\ Kept /\ pc' = [pc EXCEPT ![p] = "release"]
        /\ faults' \in [io : 0..MaxFaults, damage : 0..MaxDamage]
        /\ faults'.damage = faults.damage
    BY <1>2, FaultKept
  <2>2. /\ h0' \in [Proc -> Store] /\ \A q \in Proc : h0'[q].gen <= drawn.ids
        /\ acked' \subseteq Stamp /\ Issued'
    BY <1>0, <1>2, <2>1, KeptIssued DEF Kept, Inv, Fresh, TypeOK
  <2>3. WitnessStep(p, "release")
    BY <1>0, <1>2, <2>1, <2>2 DEF WitnessStep
  <2> QED BY <2>3, WitnessInv
<1>3. \/ /\ WriteWitness(mem[p])
         /\ acked' = acked \cup {[epoch |-> mem[p].epoch, id |-> mem[p].id]}
         /\ h0' = IF turn[p] = "receipt"
                  THEN [h0 EXCEPT ![p] = issueH0Readiness(@, mem[p])] ELSE h0
         /\ Goto(p, "release")
         /\ UNCHANGED faults
      \/ /\ WriteWitness(mem[p]) \/ UNCHANGED <<witness, begun>>
         /\ \E kind \in BOOLEAN : Fault /\ Throw(p, kind)
         /\ UNCHANGED acked
  BY Zenon DEF publishWitness
<1> QED BY <1>1, <1>2, <1>3

-----------------------------------------------------------------------------
(* The theorems.                                                           *)

LEMMA NextInv ==
    ASSUME HostStateAssumption, Inv, [Next]_vars
    PROVE  Inv'
<1>1. CASE UNCHANGED vars
  <2> USE <1>1 DEF vars, Inv
  <2>1. TypeOK' /\ Mutex' /\ Fresh'
    BY DEF TypeOK, Mutex, Fresh
  <2>2. InTurn' /\ Undamaged'
    BY DEF InTurn, Undamaged, Lineage
  <2>3. Witnessed' /\ AckedInState' /\ Issued'
    BY DEF Witnessed, AckedInState, Issued
  <2> QED BY <2>1, <2>2, <2>3
<1>2. CASE Damage
  BY <1>2, DamageInv
<1>3. ASSUME NEW p \in Proc,
             \/ open(p) \/ close(p) \/ Crash(p)
             \/ \E op \in {"read", "commit", "receipt"} : acquireStoreLock(p, op)
             \/ loadOrCreateState(p) \/ repairWitness(p)
             \/ publishState(p) \/ publishWitness(p) \/ releaseStoreLock(p)
             \/ consumeH0ReadinessReceiptFor(p)
             \/ discardH0ReadinessReceiptFor(p) \/ releaseH0ReadinessLeaseFor(p)
      PROVE  Inv'
  BY <1>3, OpenInv, CloseInv, CrashInv, AcquireInv, LoadInv, RepairInv, PublishInv,
     PublishWitnessInv, ReleaseInv, ConsumeInv, DiscardInv, ReleaseLeaseInv
<1> QED BY <1>1, <1>2, <1>3 DEF Next

\* The invariant holds in every reachable state.
THEOREM Invariance == ASSUME HostStateAssumption PROVE Spec => []Inv
<1>1. Init => Inv
  BY InitInv
<1>2. Inv /\ [Next]_vars => Inv'
  BY NextInv
<1> QED BY <1>1, <1>2, PTL DEF Spec

\* The state of the store is always of its type: in particular no sequence number
\* and no generation of proofs passes the ids that were drawn.
THEOREM TypeCorrect == ASSUME HostStateAssumption PROVE Spec => []TypeOK
<1>1. Inv => TypeOK
  BY DEF Inv
<1> QED BY <1>1, Invariance, PTL

\* A commit whose caller was told of its success is never lost by the code
\* (publishState, loadOrCreateState).
THEOREM CommitsSurvive == ASSUME HostStateAssumption PROVE Spec => []AckedSurvive
BY InvAcked, Invariance, PTL

\* A live lease speaks of a durable commit of the epoch in force
\* (invalidateH0ProofsFor, observeH0LineageFor).
THEOREM LeasesAreTrue == ASSUME HostStateAssumption PROVE Spec => []LeaseProves
BY InvLease, Invariance, PTL

-----------------------------------------------------------------------------
(* What a step does to the files, and so to the log they stand for.        *)

\* A new state is written over the witnessed one.
Commits ==
    /\ witness = witnessFor(state) /\ valid(state)
    /\ state' = [epoch |-> state.epoch, seq |-> state.seq + 1, id |-> drawn.ids + 1,
                 parent |-> state.id, log |-> state.log \cup {drawn.ids + 1}]
    /\ UNCHANGED <<witness, begun>>

\* The witness is written for the state: of the epoch in force, or of a new one.
Witnesses ==
    /\ valid(state)
    /\ Lineage \/ (state.epoch \notin begun /\ state.log = {})
    /\ witness' = witnessFor(state) /\ begun' = begun \cup {state.epoch}
    /\ UNCHANGED state

\* The empty state of a new epoch replaces files that make no lineage.
Replaces ==
    /\ ~Lineage
    /\ state'.epoch = drawn.epochs + 1
    /\ UNCHANGED <<witness, begun>>

LEMMA FileSteps ==
    ASSUME HostStateAssumption, Inv, [Next]_vars
    PROVE  UNCHANGED files \/ Commits \/ Witnesses \/ Replaces \/ Damage
<1>1. CASE UNCHANGED vars
  BY <1>1 DEF vars, files
<1>2. ASSUME NEW p \in Proc, repairWitness(p) \/ publishWitness(p)
      PROVE  UNCHANGED files \/ Witnesses
  <2>1. mem[p] = state /\ valid(state)
    BY <1>2 DEF Inv, InTurn, repairWitness, publishWitness, At
  <2>2. Lineage \/ (state.epoch \notin begun /\ state.log = {})
    BY <1>2 DEF Inv, InTurn, repairWitness, publishWitness, At
  <2> QED BY <1>2, <2>1, <2>2
          DEF repairWitness, publishWitness, WriteWitness, Witnesses, files
<1>3. ASSUME NEW p \in Proc, publishState(p)
      PROVE  UNCHANGED files \/ Commits
  <2>1. mem[p] = state /\ valid(state) /\ witness = witnessFor(state)
    BY <1>3 DEF Inv, InTurn, publishState, At
  <2> QED BY <1>3, <2>1 DEF publishState, successor, Commits, files
<1>4. ASSUME NEW p \in Proc, loadOrCreateState(p)
      PROVE  UNCHANGED files \/ Replaces
  <2>1. CASE Lineage
    <3> HIDE DEF Lineage
    <3> QED BY <1>4, <2>1 DEF loadOrCreateState
  <2>2. CASE ~Lineage
    <3>1. state' = freshState => state'.epoch = drawn.epochs + 1
      BY DEF freshState
    <3>2. UNCHANGED files \/ (state' = freshState /\ UNCHANGED <<witness, begun>>)
      BY <1>4, <2>2, Zenon DEF loadOrCreateState
    <3> QED BY <2>2, <3>1, <3>2 DEF Replaces, files
  <2> QED BY <2>1, <2>2
<1>5. ASSUME NEW p \in Proc,
             \/ open(p) \/ close(p) \/ Crash(p)
             \/ \E op \in {"read", "commit", "receipt"} : acquireStoreLock(p, op)
             \/ releaseStoreLock(p) \/ consumeH0ReadinessReceiptFor(p)
             \/ discardH0ReadinessReceiptFor(p) \/ releaseH0ReadinessLeaseFor(p)
      PROVE  UNCHANGED files
  BY <1>5 DEF open, close, Crash, acquireStoreLock, releaseStoreLock, Proofs,
     consumeH0ReadinessReceiptFor, discardH0ReadinessReceiptFor,
     releaseH0ReadinessLeaseFor
<1> QED BY <1>1, <1>2, <1>3, <1>4, <1>5 DEF Next

LEMMA CommitLineage == ASSUME Inv, Commits PROVE Lineage /\ Lineage'
BY DEF Commits, Lineage, valid, witnessFor, witnessMatchesState,
       stateImmediatelyFollowsWitness

LEMMA WitnessLineage == ASSUME Witnesses PROVE Lineage'
BY DEF Witnesses, Lineage, valid, witnessFor, witnessMatchesState

LEMMA ReplacedLineage == ASSUME Inv, Replaces PROVE ~Lineage'
<1>1. Lineage' => state'.epoch = witness.epoch /\ valid(witness)
  BY DEF Replaces, Lineage, valid, witnessFor, witnessMatchesState,
         stateImmediatelyFollowsWitness
<1>2. valid(witness) => witness.epoch # drawn.epochs + 1
  BY DEF Inv, Witnessed, Fresh, TypeOK
<1> QED BY <1>1, <1>2 DEF Replaces

LEMMA DamagedLineage == ASSUME Damage PROVE ~Lineage'
BY DEF Damage, Lineage, valid, NoState, NoFile

LEMMA BreakSteps ==
    ASSUME HostStateAssumption, Inv, [Next]_vars
    PROVE  BreakStep
<1>1. CASE UNCHANGED files
  BY <1>1 DEF files, BreakStep, Lineage
<1>2. CASE Commits
  BY <1>2, CommitLineage DEF BreakStep, Commits
<1>3. CASE Witnesses
  BY <1>3, WitnessLineage DEF BreakStep, Witnesses
<1>4. CASE Replaces
  BY <1>4 DEF BreakStep, Replaces
<1>5. CASE Damage
  BY <1>5 DEF BreakStep, Damage, Inv, TypeOK
<1> QED BY <1>1, <1>2, <1>3, <1>4, <1>5, FileSteps

\* Only damage from outside ends an epoch: no crash or error between the two
\* renames does (stateImmediatelyFollowsWitness).
THEOREM OnlyDamageBreaks == ASSUME HostStateAssumption PROVE Spec => NoSpuriousBreak
<1>1. Inv /\ [Next]_vars => [BreakStep]_vars
  BY BreakSteps
<1> QED BY <1>1, Invariance, PTL DEF Spec, NoSpuriousBreak

-----------------------------------------------------------------------------
(* The refinement of CommitLog.                                            *)

LEMMA LogInit == ASSUME Init PROVE Log!Init
BY DEF Init, Log!Init, Lineage, valid, NoState

LEMMA LogStep ==
    ASSUME HostStateAssumption, Inv, [Next]_vars
    PROVE  [Log!Next]_(Log!vars)
<1>1. CASE UNCHANGED files
  BY <1>1 DEF files, Log!vars, Lineage
<1>2. CASE Commits
  <2>1. Lineage /\ Lineage'
    BY <1>2, CommitLineage
  <2>2. drawn.ids + 1 \notin state.log /\ state.epoch # 0
    BY <1>2 DEF Inv, Fresh, TypeOK, Commits, valid
  <2>3. Log!Append(drawn.ids + 1)
    BY <1>2, <2>1, <2>2 DEF Commits, Log!Append
  <2> QED BY <1>2, <2>1, <2>3 DEF Log!Next, Commits
<1>3. CASE Witnesses /\ Lineage
  <2>1. Lineage'
    BY <1>3, WitnessLineage
  <2> QED BY <1>3, <2>1 DEF Witnesses, Log!vars
<1>4. CASE Witnesses /\ ~Lineage
  <2>1. Lineage'
    BY <1>4, WitnessLineage
  <2>2. Log!Begin(state.epoch)
    BY <1>4, <2>1 DEF Witnesses, Log!Begin, valid
  <2> QED BY <1>4, <2>1, <2>2 DEF Log!Next, Witnesses
<1>5. CASE Replaces
  BY <1>5, ReplacedLineage DEF Replaces, Log!vars
<1>6. CASE Damage /\ Lineage
  <2>1. ~Lineage' /\ begun' = begun /\ state.epoch \in begun /\ state.epoch # 0
    BY <1>6, DamagedLineage, LineageBegun DEF Damage, Lineage, valid
  <2> QED BY <1>6, <2>1 DEF Log!Next, Log!Break
<1>7. CASE Damage /\ ~Lineage
  BY <1>7, DamagedLineage DEF Damage, Log!vars
<1> QED BY <1>1, <1>2, <1>3, <1>4, <1>5, <1>6, <1>7, FileSteps

\* The state file, its witness, their repair and the lock implement an atomic
\* log of commits (CommitLog): initial states map to initial states, and every
\* step to a step of the log or to none.
THEOREM FilesAreALog == ASSUME HostStateAssumption PROVE Spec => ImplementsCommitLog
<1>1. Init => Log!Init
  BY LogInit
<1>2. Inv /\ [Next]_vars => [Log!Next]_(Log!vars)
  BY LogStep
<1> QED BY <1>1, <1>2, Invariance, PTL DEF Spec, ImplementsCommitLog, Log!Spec
=============================================================================
