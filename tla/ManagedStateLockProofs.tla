----------------------- MODULE ManagedStateLockProofs -----------------------
(***************************************************************************)
(* Proofs about the registry lock (ManagedStateLock), for every number of  *)
(* processes, names and calls: as long as no process stalls for a minute   *)
(* between making the lock and writing its owner record, the lock excludes *)
(* and the registry is updated atomically, without faults among any number *)
(* of processes, with any kills among three, and with a lock left by an    *)
(* older release among two.  TLC shows what happens beyond that.           *)
(***************************************************************************)
EXTENDS ManagedStateLock, FiniteSetTheorems, TLAPS

\* At most two, at most three processes.
Two == \A p, q, r \in Proc : p = q \/ p = r \/ q = r

Three == \A p, q, r, s \in Proc :
    p = q \/ p = r \/ p = s \/ q = r \/ q = s \/ r = s

\* What the lock withstands.
Bearable ==
    /\ MaxStalls = 0
    /\ \/ ~Leftover /\ (MaxKills = 0 \/ Three)
       \/ Two

-----------------------------------------------------------------------------
(* The inductive invariant.                                                *)

Inside == {"load", "save", "readOwner", "removeLock"}

\* The directory carries an owner record of the process.
Names(d, p) == d # Absent /\ d.record = "pid" /\ d.pid = p

\* What a lock directory can look like.
Sound(d) ==
    d # Absent => /\ d.record = "none" => d = Unwritten
                  /\ d.record = "legacy" => d.aged
                  /\ d.record = "pid" => d.pid \in Proc

Sane ==
    /\ Sound(lock) /\ \A p \in Proc : Sound(quarantine[p])
    /\ \A p \in Proc : pc[p] \notin {"idle", "failed"} => call[p].todo \in Operation

\* Nothing is stale and nobody has a reason to take a lock away.
Calm ==
    /\ \A p \in Proc : /\ alive[p] /\ quarantine[p] = Absent
                       /\ pc[p] \notin {"discard", "confirm"}
    /\ lock # Absent => lock.record # "legacy"
    /\ \A p \in Proc :
         /\ pc[p] \in Inside => lock = MyRecord(p)
         /\ Names(lock, p) => pc[p] \in Inside
         /\ pc[p] = "writeOwner" => lock = Unwritten
    /\ \A p, q \in Proc : pc[p] = "writeOwner" /\ pc[q] = "writeOwner" => p = q

\* The lock of a process that is inside is at its place, or the other process
\* has taken it away and is about to put it back.
Held(p, q) ==
    pc[p] \in Inside =>
        \/ lock = MyRecord(p)
        \/ lock = Absent /\ pc[q] = "confirm" /\ quarantine[q] = MyRecord(p)

\* The same for a directory without a record yet; what is put back in its
\* place may be a record of an earlier call.
Made(p, q) ==
    pc[p] = "writeOwner" =>
        /\ pc[q] # "writeOwner"
        /\ \/ lock = Unwritten \/ Names(lock, p)
           \/ /\ lock = Absent /\ pc[q] = "confirm"
              /\ quarantine[q] = Unwritten \/ Names(quarantine[q], p)

\* A process that discards a stale lock has never had the lock since it became
\* stale, so it cannot take away a lock of its own.
Stranger(p, q) ==
    pc[p] \in {"discard", "confirm"} =>
        ~Names(lock, p) /\ ~Names(quarantine[p], p) /\ ~Names(quarantine[q], p)

\* What was taken away is stale, or belongs to the other process.
Taken(p, q) ==
    pc[p] = "confirm" =>
        /\ quarantine[p] # Absent
        /\ \/ quarantine[p] = Unwritten \/ Names(quarantine[p], q)
           \/ managedStateLockIsStale(quarantine[p])

\* A stale lock is the first one: nothing was taken away before it.
First(p) == managedStateLockIsStale(lock) => quarantine[p] = Absent

Duel(p, q) == Held(p, q) /\ Made(p, q) /\ Stranger(p, q) /\ Taken(p, q) /\ First(p)

\* Two processes are alive at most.
Pair ==
    /\ \A p, q, r \in Proc :
         alive[p] /\ alive[q] /\ alive[r] => p = q \/ p = r \/ q = r
    /\ \A p, q \in Proc : p # q /\ alive[p] /\ alive[q] => Duel(p, q)

\* What a process has loaded is still in the file when it saves.
Current == \A p \in Proc : At(p, "save") => loaded[p] = sessions

Inv == TypeOK /\ Sane /\ (Calm \/ Pair) /\ Current /\ evicted = FALSE

-----------------------------------------------------------------------------
(* Lock directories.                                                       *)

\* The shape of the state, as far as steps update it by EXCEPT.
Shape ==
    /\ DOMAIN pc = Proc /\ DOMAIN quarantine = Proc /\ DOMAIN call = Proc
    /\ DOMAIN alive = Proc /\ DOMAIN loaded = Proc

LEMMA ShapeOK == TypeOK => Shape
BY DEF TypeOK, Shape

LEMMA AbsentIsNoDir == ASSUME LockAssumption PROVE Absent # Unwritten /\ Absent # Legacy
<1>1. Unwritten \in Dir /\ Legacy \in Dir
  BY DEF LockAssumption, Dir, Unwritten, Legacy
<1> QED BY <1>1 DEF LockAssumption

LEMMA RecordIsDir ==
    ASSUME LockAssumption, TypeOK, NEW p \in Proc
    PROVE  MyRecord(p) \in Dir
<1>1. call[p].nr \in 0..MaxCalls
  BY DEF TypeOK
<1> QED BY <1>1 DEF Dir, MyRecord

LEMMA RecordNames ==
    ASSUME LockAssumption, TypeOK, NEW p \in Proc
    PROVE  /\ MyRecord(p) # Absent /\ MyRecord(p) # Unwritten
           /\ MyRecord(p).record = "pid" /\ MyRecord(p).pid = p
           /\ Names(MyRecord(p), p) /\ Sound(MyRecord(p))
           /\ \A q \in Proc : Names(MyRecord(p), q) => q = p
           /\ alive[p] => ~managedStateLockIsStale(MyRecord(p))
<1>1. MyRecord(p) # Absent
  BY RecordIsDir DEF LockAssumption
<1>2. MyRecord(p).record = "pid" /\ MyRecord(p).pid = p
  BY DEF MyRecord
<1>3. MyRecord(p) # Unwritten
  BY <1>2 DEF Unwritten
<1> QED BY <1>1, <1>2, <1>3 DEF Names, Sound, managedStateLockIsStale

\* An unwritten directory is recent, so it is not stale.
LEMMA UnwrittenIsFresh ==
    ASSUME LockAssumption
    PROVE  /\ Unwritten # Absent /\ Unwritten.record = "none"
           /\ ~managedStateLockIsStale(Unwritten) /\ Sound(Unwritten)
           /\ \A p : ~Names(Unwritten, p)
BY AbsentIsNoDir DEF Unwritten, managedStateLockIsStale, Sound, Names

-----------------------------------------------------------------------------
(* Steps of two live processes.                                            *)

Ring(p, q) ==
    /\ p # q /\ alive[p] /\ alive[q]
    /\ Shape /\ Sane /\ Duel(p, q) /\ Duel(q, p)

\* Names and staleness of a directory depend on the directory alone as long as
\* nobody dies.
LEMMA SameStale ==
    ASSUME alive' = alive, NEW d
    PROVE  managedStateLockIsStale(d)' = managedStateLockIsStale(d')
BY DEF managedStateLockIsStale

LEMMA StartDuel ==
    ASSUME NEW p \in Proc, NEW q \in Proc, Ring(p, q), StartCall(p)
    PROVE  Duel(p, q)' /\ Duel(q, p)'
BY DEF Ring, Shape, StartCall, Goto, At, Duel, Held, Made, Stranger, Taken, First,
       Names, managedStateLockIsStale, MyRecord, Inside

LEMMA MakeDuel ==
    ASSUME LockAssumption, TypeOK, NEW p \in Proc, NEW q \in Proc, Ring(p, q), MakeLock(p)
    PROVE  Duel(p, q)' /\ Duel(q, p)'
BY UnwrittenIsFresh, RecordNames
   DEF Ring, Shape, MakeLock, Goto, At, Duel, Held, Made, Stranger, Taken, First,
       Names, managedStateLockIsStale, MyRecord, Inside

LEMMA WriteDuel ==
    ASSUME LockAssumption, TypeOK, NEW p \in Proc, NEW q \in Proc, Ring(p, q), WriteOwner(p)
    PROVE  Duel(p, q)' /\ Duel(q, p)'
BY UnwrittenIsFresh, RecordNames
   DEF Ring, Shape, WriteOwner, Goto, At, Duel, Held, Made, Stranger, Taken, First,
       Names, managedStateLockIsStale, MyRecord, Inside

LEMMA ContendDuel ==
    ASSUME LockAssumption, TypeOK, NEW p \in Proc, NEW q \in Proc, Ring(p, q), Contend(p)
    PROVE  Duel(p, q)' /\ Duel(q, p)'
BY UnwrittenIsFresh, RecordNames
   DEF Ring, Shape, Contend, Goto, At, Duel, Held, Made, Stranger, Taken, First,
       Names, managedStateLockIsStale, MyRecord, Inside

LEMMA InsideDuel ==
    ASSUME NEW p \in Proc, NEW q \in Proc, Ring(p, q), Load(p) \/ Save(p) \/ Refuse(p)
    PROVE  Duel(p, q)' /\ Duel(q, p)'
<1>1. /\ pc[p] \in Inside /\ pc'[p] \in Inside /\ pc'[q] = pc[q]
      /\ UNCHANGED <<lock, quarantine, call, alive>>
  BY DEF Ring, Shape, Load, Save, Refuse, Goto, At, Inside
<1> QED BY <1>1 DEF Ring, Duel, Held, Made, Stranger, Taken, First, Names,
                    managedStateLockIsStale, MyRecord, Inside

LEMMA ReadDuel ==
    ASSUME NEW p \in Proc, NEW q \in Proc, Ring(p, q), ReadOwner(p)
    PROVE  Duel(p, q)' /\ Duel(q, p)'
<1>1. /\ pc'[p] = "removeLock" \/ pc'[p] = "idle"
      /\ pc[p] \in Inside /\ pc'[q] = pc[q]
      /\ UNCHANGED <<lock, quarantine, call, alive>>
  BY DEF Ring, Shape, ReadOwner, Goto, At, Inside
<1> QED BY <1>1 DEF Ring, Duel, Held, Made, Stranger, Taken, First, Names,
                    managedStateLockIsStale, MyRecord, Inside

LEMMA RemoveDuel ==
    ASSUME LockAssumption, TypeOK, NEW p \in Proc, NEW q \in Proc, Ring(p, q), RemoveLock(p)
    PROVE  Duel(p, q)' /\ Duel(q, p)'
BY UnwrittenIsFresh, RecordNames
   DEF Ring, Shape, RemoveLock, Goto, At, Duel, Held, Made, Stranger, Taken, First,
       Names, managedStateLockIsStale, MyRecord, Inside

LEMMA QuarantineDuel ==
    ASSUME LockAssumption, TypeOK, Pair,
           NEW p \in Proc, NEW q \in Proc, Ring(p, q), Quarantine(p)
    PROVE  Duel(p, q)' /\ Duel(q, p)'
<1>1. CASE lock = Absent
  BY <1>1 DEF Ring, Shape, Quarantine, Goto, At, Duel, Held, Made, Stranger, Taken,
     First, Names, managedStateLockIsStale, MyRecord, Inside
<1>2. CASE lock # Absent
  <2>1. /\ pc[p] = "discard" /\ pc'[p] = "confirm" /\ pc'[q] = pc[q]
        /\ lock' = Absent /\ quarantine'[p] = lock /\ quarantine'[q] = quarantine[q]
        /\ UNCHANGED <<call, alive>>
    BY <1>2 DEF Ring, Shape, Quarantine, Goto, At
  <2>2. Held(p, q)' /\ Made(p, q)' /\ First(p)' /\ First(q)'
    BY <2>1 DEF Held, Made, First, managedStateLockIsStale, Inside
  <2>3. Stranger(p, q)' /\ Stranger(q, p)'
    BY <2>1 DEF Ring, Duel, Stranger, Names
  <2>4. Held(q, p)'
    BY <2>1 DEF Ring, Duel, Held, MyRecord
  <2>5. Made(q, p)'
    BY <2>1, <1>2 DEF Ring, Duel, Made, Names
  <2>6. Taken(q, p)'
    BY <2>1 DEF Ring, Duel, Taken, Names, managedStateLockIsStale
  <2>7. lock.record \in {"none", "legacy", "pid"}
    BY <1>2 DEF TypeOK, Dir
  <2>8. CASE lock.record = "pid"
    <3>1. lock.pid \in Proc /\ lock.pid # p
      BY <1>2, <2>1, <2>8 DEF Ring, Sane, Sound, Duel, Stranger, Names
    <3>2. alive[lock.pid] => lock.pid = q
      BY <3>1 DEF Pair, Ring
    <3>3. Taken(p, q)'
      BY <1>2, <2>1, <2>8, <3>2 DEF Taken, Names, managedStateLockIsStale
    <3> QED BY <2>2, <2>3, <2>4, <2>5, <2>6, <3>3 DEF Duel
  <2>9. CASE lock.record # "pid"
    <3>1. lock = Unwritten \/ managedStateLockIsStale(lock)
      BY <1>2, <2>7, <2>9 DEF Ring, Sane, Sound, managedStateLockIsStale
    <3>2. Taken(p, q)'
      BY <1>2, <2>1, <3>1 DEF Taken, managedStateLockIsStale
    <3> QED BY <2>2, <2>3, <2>4, <2>5, <2>6, <3>2 DEF Duel
  <2> QED BY <2>8, <2>9
<1> QED BY <1>1, <1>2

LEMMA ConfirmDuel ==
    ASSUME LockAssumption, TypeOK, NEW p \in Proc, NEW q \in Proc, Ring(p, q), Confirm(p)
    PROVE  Duel(p, q)' /\ Duel(q, p)'
BY UnwrittenIsFresh, RecordNames
   DEF Ring, Shape, Sane, Sound, Confirm, Goto, At, Duel, Held, Made, Stranger, Taken, First,
       Names, managedStateLockIsStale, MyRecord, Inside

\* A step of a call.
CallStep(p) ==
    \/ StartCall(p) \/ MakeLock(p) \/ WriteOwner(p) \/ Contend(p)
    \/ Quarantine(p) \/ Confirm(p)
    \/ Load(p) \/ Save(p) \/ Refuse(p) \/ ReadOwner(p) \/ RemoveLock(p)

LEMMA StepAlive ==
    ASSUME NEW p \in Proc, CallStep(p)
    PROVE  alive[p] /\ alive' = alive /\ stalls' = stalls
BY DEF CallStep, StartCall, MakeLock, WriteOwner, Contend, Quarantine, Confirm, Load,
       Save, Refuse, ReadOwner, RemoveLock, At

LEMMA PairStep ==
    ASSUME LockAssumption, TypeOK, Sane, Pair, NEW a \in Proc, CallStep(a)
    PROVE  Pair'
<1>1. alive[a] /\ alive' = alive
  BY StepAlive
<1>2. ASSUME NEW q \in Proc, q # a, alive[q]
      PROVE  Duel(a, q)' /\ Duel(q, a)'
  <2>1. Ring(a, q)
    BY <1>1, <1>2, ShapeOK DEF Ring, Pair
  <2> QED BY <2>1, StartDuel, MakeDuel, WriteDuel, ContendDuel, QuarantineDuel,
             ConfirmDuel, InsideDuel, ReadDuel, RemoveDuel DEF CallStep
<1>3. ASSUME NEW p \in Proc, NEW q \in Proc, p # q, alive[p], alive[q]
      PROVE  Duel(p, q)'
  <2>1. p = a \/ q = a
    BY <1>1, <1>3 DEF Pair
  <2> QED BY <1>2, <1>3, <2>1
<1> QED BY <1>1, <1>3 DEF Pair

-----------------------------------------------------------------------------
(* Steps while nothing is stale.                                           *)

LEMMA CalmStep ==
    ASSUME LockAssumption, TypeOK, Sane, Calm, NEW a \in Proc, CallStep(a)
    PROVE  Calm'
<1> USE UnwrittenIsFresh, RecordNames, ShapeOK
<1>1. CASE StartCall(a)
  BY <1>1 DEF Calm, Shape, StartCall, Goto, At, Names, MyRecord, Inside
<1>2. CASE MakeLock(a)
  BY <1>2 DEF Calm, Shape, MakeLock, Goto, At, Names, MyRecord, Inside
<1>3. CASE WriteOwner(a)
  BY <1>3 DEF Calm, Shape, WriteOwner, Goto, At, Names, MyRecord, Inside
<1>4. CASE Contend(a)
  <2>1. ~managedStateLockIsStale(lock)
    <3> SUFFICES ASSUME lock # Absent PROVE ~managedStateLockIsStale(lock)
      BY DEF managedStateLockIsStale
    <3>1. lock = Unwritten \/ lock.record = "pid"
      BY DEF TypeOK, Dir, Calm, Sane, Sound
    <3>2. lock.record = "pid" => lock.pid \in Proc /\ alive[lock.pid]
      BY DEF Calm, Sane, Sound
    <3> QED BY <3>1, <3>2 DEF managedStateLockIsStale
  <2>2. /\ pc' = [pc EXCEPT ![a] = "failed"] \/ pc' = [pc EXCEPT ![a] = "mkdir"]
        /\ pc[a] = "contend" /\ UNCHANGED <<lock, quarantine, call, alive>>
    BY <1>4, <2>1 DEF Contend, Goto, At
  <2> QED BY <2>2 DEF Calm, Shape, Names, MyRecord, Inside
<1>5. CASE Load(a) \/ Save(a) \/ Refuse(a)
  BY <1>5 DEF Calm, Shape, Load, Save, Refuse, Goto, At, Names, MyRecord, Inside
<1>6. CASE ReadOwner(a)
  BY <1>6 DEF Calm, Shape, ReadOwner, Goto, At, Names, MyRecord, Inside
<1>7. CASE RemoveLock(a)
  BY <1>7 DEF Calm, Shape, RemoveLock, Goto, At, Names, MyRecord, Inside
<1>8. ~Quarantine(a) /\ ~Confirm(a)
  BY DEF Calm, Quarantine, Confirm, At
<1> QED BY <1>1, <1>2, <1>3, <1>4, <1>5, <1>6, <1>7, <1>8 DEF CallStep

-----------------------------------------------------------------------------
(* Deaths.                                                                 *)

LEMMA NoKills ==
    ASSUME LockAssumption, MaxKills = 0, NEW p \in Proc
    PROVE  ~Kill(p)
<1> DEFINE Dead == {q \in Proc : ~alive[q]}
<1>1. IsFiniteSet(Dead)
  BY FS_Subset DEF LockAssumption
<1>2. Cardinality(Dead) \in Nat
  BY <1>1, FS_CardinalityType
<1> QED BY <1>2 DEF Kill

LEMMA KillPair ==
    ASSUME LockAssumption, TypeOK, Pair, NEW a \in Proc, Kill(a)
    PROVE  Pair'
<1>1. alive[a] /\ \A p \in Proc : alive'[p] <=> alive[p] /\ p # a
  BY DEF Kill, TypeOK
<1>2. \A p, q \in Proc : alive'[p] /\ alive'[q] => p = q
  BY <1>1 DEF Pair
<1> QED BY <1>2 DEF Pair

LEMMA KillCalm ==
    ASSUME LockAssumption, TypeOK, Calm, Two \/ Three, NEW a \in Proc, Kill(a)
    PROVE  Pair'
<1>1. alive[a] /\ \A p \in Proc : alive'[p] <=> alive[p] /\ p # a
  BY DEF Kill, TypeOK
<1>2. UNCHANGED <<lock, quarantine, pc, call>>
  BY DEF Kill
<1>3. \A p, q, r \in Proc :
        alive'[p] /\ alive'[q] /\ alive'[r] => p = q \/ p = r \/ q = r
  BY <1>1 DEF Two, Three
<1>4. ASSUME NEW p \in Proc, NEW q \in Proc, p # q
      PROVE  Duel(p, q)'
  BY <1>2, <1>4 DEF Calm, Duel, Held, Made, Stranger, Taken, First, MyRecord, Names,
     managedStateLockIsStale, Inside
<1> QED BY <1>3, <1>4 DEF Pair

-----------------------------------------------------------------------------
(* Types and lock directories.                                             *)

LEMMA UnwrittenType == ASSUME LockAssumption PROVE Unwritten \in Dir /\ Legacy \in Dir
BY DEF LockAssumption, Dir, Unwritten, Legacy

LEMMA StepType ==
    ASSUME LockAssumption, TypeOK, Sane, NEW a \in Proc, CallStep(a)
    PROVE  TypeOK'
<1> USE RecordIsDir, UnwrittenType
<1> HIDE DEF Dir
<1>1. CASE StartCall(a)
  <2>1. call' \in [Proc -> [nr : 0..MaxCalls, todo : Operation \cup {NoOperation}]]
    BY <1>1 DEF StartCall, TypeOK, LockAssumption
  <2> QED BY <1>1, <2>1 DEF StartCall, TypeOK, Goto, Pc
<1>2. CASE MakeLock(a)
  BY <1>2 DEF MakeLock, TypeOK, Goto, Pc
<1>3. CASE WriteOwner(a)
  BY <1>3 DEF WriteOwner, TypeOK, Goto, Pc
<1>4. CASE Contend(a)
  BY <1>4 DEF Contend, TypeOK, Goto, Pc
<1>5. CASE Quarantine(a)
  BY <1>5 DEF Quarantine, TypeOK, Goto, Pc
<1>6. CASE Confirm(a)
  BY <1>6 DEF Confirm, TypeOK, Goto, Pc
<1>7. CASE Load(a)
  BY <1>7 DEF Load, TypeOK, Goto, Pc
<1>8. CASE Save(a)
  <2>1. call[a].todo \in Operation
    BY <1>8 DEF Sane, Save, At
  <2>2. Update(loaded[a], call[a].todo) \in SUBSET Name
    BY <2>1 DEF Update, TypeOK, Operation
  <2> QED BY <1>8, <2>2 DEF Save, TypeOK, Goto, Pc
<1>9. CASE Refuse(a)
  BY <1>9 DEF Refuse, TypeOK, Goto, Pc
<1>10. CASE ReadOwner(a)
  BY <1>10 DEF ReadOwner, TypeOK, Goto, Pc
<1>11. CASE RemoveLock(a)
  BY <1>11 DEF RemoveLock, TypeOK, Goto, Pc
<1> QED BY <1>1, <1>2, <1>3, <1>4, <1>5, <1>6, <1>7, <1>8, <1>9, <1>10, <1>11
        DEF CallStep

LEMMA StepSane ==
    ASSUME LockAssumption, TypeOK, Sane, NEW a \in Proc, CallStep(a)
    PROVE  Sane'
<1> USE UnwrittenIsFresh, RecordNames, ShapeOK
<1>0. Sound(Absent)
  BY DEF Sound
<1>1. Sound(lock') /\ \A p \in Proc : Sound(quarantine'[p])
  <2> HIDE DEF Sound
  <2>1. CASE Quarantine(a)
    BY <1>0, <2>1 DEF Sane, Shape, Quarantine
  <2>2. CASE Confirm(a)
    BY <1>0, <2>2 DEF Sane, Shape, Confirm
  <2>3. CASE WriteOwner(a)
    BY <1>0, <2>3 DEF Sane, WriteOwner
  <2>4. CASE MakeLock(a)
    BY <2>4 DEF Sane, MakeLock
  <2>5. CASE RemoveLock(a)
    BY <1>0, <2>5 DEF Sane, RemoveLock
  <2>6. CASE StartCall(a) \/ Contend(a) \/ Load(a) \/ Save(a) \/ Refuse(a) \/ ReadOwner(a)
    BY <2>6 DEF Sane, StartCall, Contend, Load, Save, Refuse, ReadOwner
  <2> QED BY <2>1, <2>2, <2>3, <2>4, <2>5, <2>6 DEF CallStep
<1>2. CASE StartCall(a)
  <2>1. call'[a].todo \in Operation /\ \A p \in Proc \ {a} : call'[p] = call[p]
    BY <1>2 DEF StartCall, TypeOK
  <2>2. \A p \in Proc \ {a} : pc'[p] = pc[p]
    BY <1>2 DEF StartCall, Goto, Shape
  <2> QED BY <1>1, <2>1, <2>2 DEF Sane, Sound
<1>3. CASE ~StartCall(a)
  <2>1. call' = call /\ pc[a] \notin {"idle", "failed"} /\ \A p \in Proc \ {a} : pc'[p] = pc[p]
    BY <1>3 DEF CallStep, MakeLock, WriteOwner, Contend, Quarantine, Confirm, Load,
       Save, Refuse, ReadOwner, RemoveLock, Goto, At, Shape
  <2> QED BY <1>1, <2>1 DEF Sane, Sound
<1> QED BY <1>2, <1>3

-----------------------------------------------------------------------------
(* What the invariant says.                                                *)

\* Two processes that are inside are one.
LEMMA OneInside ==
    ASSUME LockAssumption, TypeOK, Calm \/ Pair,
           NEW p \in Proc, NEW q \in Proc, alive[p], alive[q],
           pc[p] \in Inside, pc[q] \in Inside
    PROVE  p = q
<1>1. CASE Calm
  BY <1>1, RecordNames DEF Calm
<1>2. CASE Pair
  BY <1>2, RecordNames DEF Pair, Duel, Held, Inside
<1> QED BY <1>1, <1>2

LEMMA InvExcludes == ASSUME LockAssumption, Inv PROVE MutualExclusion
BY OneInside DEF Inv, MutualExclusion, At, Inside

LEMMA StepCurrent ==
    ASSUME LockAssumption, Inv, NEW a \in Proc, CallStep(a)
    PROVE  Current'
<1> SUFFICES ASSUME NEW p \in Proc, At(p, "save")' PROVE loaded'[p] = sessions'
  BY DEF Current
<1>1. CASE p = a
  <2>1. Load(a)
    BY <1>1, ShapeOK DEF Inv, CallStep, StartCall, MakeLock, WriteOwner, Contend,
       Quarantine, Confirm, Save, Refuse, ReadOwner, RemoveLock, Goto, At, Shape
  <2> QED BY <1>1, <2>1, ShapeOK DEF Inv, Load, Shape
<1>2. CASE p # a
  <2>1. At(p, "save") /\ loaded'[p] = loaded[p]
    BY <1>2, ShapeOK DEF Inv, CallStep, StartCall, MakeLock, WriteOwner, Contend, Load,
       Quarantine, Confirm, Save, Refuse, ReadOwner, RemoveLock, Goto, At, Shape
  <2>2. ~Save(a)
    BY <1>2, <2>1, OneInside DEF Inv, Save, At, Inside
  <2>3. sessions' = sessions
    BY <2>2 DEF CallStep, StartCall, MakeLock, WriteOwner, Contend, Load, Quarantine,
       Confirm, Refuse, ReadOwner, RemoveLock
  <2> QED BY <2>1, <2>3 DEF Inv, Current
<1> QED BY <1>1, <1>2

\* A writer that comes to its owner record finds its own directory, or nothing.
LEMMA StepEvicts ==
    ASSUME LockAssumption, Inv, NEW a \in Proc, CallStep(a)
    PROVE  evicted' = FALSE
<1>1. CASE WriteOwner(a)
  <2>1. lock # Absent /\ lock.record # "none" => Names(lock, a) \/ ~alive[lock.pid] \/ lock.record # "pid"
    <3>1. CASE Calm
      BY <1>1, <3>1, UnwrittenIsFresh DEF Calm, WriteOwner, At
    <3>2. CASE Pair
      <4> SUFFICES ASSUME lock # Absent, lock.record = "pid", alive[lock.pid], lock.pid # a
                   PROVE  FALSE
        BY DEF Names
      <4>1. lock.pid \in Proc
        BY DEF Inv, Sane, Sound
      <4>2. Made(a, lock.pid)
        BY <1>1, <3>2, <4>1 DEF Pair, Duel, WriteOwner, At
      <4> QED BY <1>1, <4>2, UnwrittenIsFresh DEF Made, WriteOwner, At, Names
    <3> QED BY <3>1, <3>2 DEF Inv
  <2>2. ~HeldByAnother(lock, a) \/ lock.record = "none"
    BY <2>1 DEF HeldByAnother, Names
  <2> QED BY <1>1, <2>2 DEF WriteOwner, Inv, HeldByAnother
<1>2. CASE ~WriteOwner(a)
  BY <1>2 DEF Inv, CallStep, StartCall, MakeLock, Contend, Quarantine, Confirm, Load, Save,
     Refuse, ReadOwner, RemoveLock
<1> QED BY <1>1, <1>2

-----------------------------------------------------------------------------
(* The invariant is inductive.                                             *)

LEMMA InitInv ==
    ASSUME LockAssumption, Bearable, Init
    PROVE  Inv /\ (~Leftover => Calm)
<1>1. TypeOK
  <2>1. evicted \in BOOLEAN
    BY Zenon DEF Init
  <2> QED BY <2>1, UnwrittenType DEF Init, TypeOK, LockAssumption, Pc
<1>2. lock = Absent \/ (Leftover /\ lock = Legacy)
  BY DEF Init, LockAssumption
<1>3. Sound(lock) /\ Sound(Absent)
  BY <1>2 DEF Sound, Legacy
<1>4. Sane
  BY <1>3 DEF Sane, Init
<1>5. \A p \in Proc : pc[p] = "idle" /\ quarantine[p] = Absent /\ alive[p]
  BY Zenon DEF Init
<1>6. ~Leftover => Calm
  BY <1>2, <1>5 DEF Calm, Names, Inside
<1>7. Two => Pair
  <2>1. \A p, q \in Proc : Duel(p, q)
    BY <1>5 DEF Duel, Held, Made, Stranger, Taken, First, Inside
  <2> QED BY <2>1 DEF Pair, Two
<1>8. Current
  BY DEF Current, Init, At
<1>9. evicted = FALSE
  BY Zenon DEF Init
<1> QED BY <1>1, <1>4, <1>6, <1>7, <1>8, <1>9 DEF Inv, Bearable

LEMMA NextInv ==
    ASSUME LockAssumption, Bearable, Inv, [Next]_vars
    PROVE  Inv'
<1>1. CASE UNCHANGED vars
  BY <1>1 DEF vars, Inv, TypeOK, Sane, Calm, Pair, Duel, Held, Made, Stranger, Taken,
     First, Current, At, MyRecord, managedStateLockIsStale
<1>2. ASSUME NEW a \in Proc, CallStep(a) PROVE Inv'
  BY <1>2, StepType, StepSane, CalmStep, PairStep, StepCurrent, StepEvicts DEF Inv
<1>3. ASSUME NEW a \in Proc, Kill(a) PROVE Inv'
  <2>1. TypeOK'
    BY <1>3 DEF Kill, TypeOK, Inv
  <2>2. Sane'
    BY <1>3 DEF Kill, Sane, Sound, Inv
  <2>3. Current'
    <3>1. \A p \in Proc : alive'[p] => alive[p]
      BY <1>3 DEF Kill, Inv, TypeOK
    <3> QED BY <1>3, <3>1 DEF Kill, Current, At, Inv
  <2>4. Two \/ Three
    BY <1>3, NoKills DEF Bearable
  <2>5. Calm' \/ Pair'
    BY <1>3, <2>4, KillCalm, KillPair DEF Inv
  <2>6. evicted' = FALSE
    BY <1>3 DEF Kill, Inv
  <2> QED BY <2>1, <2>2, <2>3, <2>5, <2>6 DEF Inv
<1>4. ~Stall
  BY DEF Stall, Inv, TypeOK, Bearable
<1> QED BY <1>1, <1>2, <1>3, <1>4 DEF Next, CallStep

THEOREM Invariance == ASSUME LockAssumption, Bearable PROVE Spec => []Inv
<1>1. Init => Inv
  BY InitInv
<1>2. Inv /\ [Next]_vars => Inv'
  BY NextInv
<1> QED BY <1>1, <1>2, PTL DEF Spec

\* No two processes are between loading the registry and saving it
\* (acquireManagedStateLock, discardStaleManagedStateLock): among any number of
\* processes without faults, among three with any kills, and among two with any
\* kills and a lock left behind by an older release.  There nobody removes the
\* lock of a live process either.
THEOREM LockExcludes ==
    ASSUME LockAssumption, Bearable PROVE Spec => [](MutualExclusion /\ evicted = FALSE)
<1>1. Inv => MutualExclusion /\ evicted = FALSE
  BY InvExcludes DEF Inv
<1> QED BY <1>1, Invariance, PTL

-----------------------------------------------------------------------------
(* The refinement of ManagedRegistry.                                      *)

LEMMA RegistryStep ==
    ASSUME LockAssumption, Bearable, Inv, [Next]_vars
    PROVE  [Registry!Next]_sessions
<1>1. ASSUME NEW a \in Proc, Save(a) PROVE Registry!Next
  <2>1. loaded[a] = sessions /\ call[a].todo \in Operation
    BY <1>1 DEF Inv, Current, Sane, Save, At
  <2>2. call[a].todo.name \in Name /\ call[a].todo.op \in {"record", "remove"}
    BY <2>1 DEF Operation
  <2>3. sessions' = Update(sessions, call[a].todo)
    BY <1>1, <2>1 DEF Save
  <2> QED BY <2>2, <2>3 DEF Update, Registry!Next, Registry!Record, Registry!Remove
<1>2. CASE \A a \in Proc : ~Save(a)
  BY <1>2 DEF Next, vars, StartCall, MakeLock, WriteOwner, Contend, Quarantine, Confirm,
     Load, Refuse, ReadOwner, RemoveLock, Kill, Stall
<1> QED BY <1>1, <1>2

\* The lock and the load-modify-save implement ManagedRegistry: every save
\* applies its operation to the registry as it is (recordManagedSession,
\* removeManagedSession), wherever the lock excludes.
THEOREM UpdatesAreAtomic ==
    ASSUME LockAssumption, Bearable PROVE Spec => AtomicUpdates /\ Registry!Spec
<1>1. Init => Registry!Init
  BY DEF Init, Registry!Init
<1>2. Inv /\ [Next]_vars => [Registry!Next]_sessions
  BY RegistryStep
<1> QED BY <1>1, <1>2, Invariance, PTL DEF Spec, AtomicUpdates, Registry!Spec

-----------------------------------------------------------------------------
(* Without faults no lock is left to a process that is not inside.         *)

Quiet == MaxStalls = 0 /\ MaxKills = 0 /\ ~Leftover

LEMMA CalmInvariance == ASSUME LockAssumption, Quiet PROVE Spec => [](TypeOK /\ Sane /\ Calm)
<1> DEFINE I == TypeOK /\ Sane /\ Calm
<1>1. Init => I
  BY InitInv DEF Quiet, Bearable, Inv
<1>2. ASSUME I, [Next]_vars PROVE I'
  <2>1. CASE UNCHANGED vars
    BY <1>2, <2>1 DEF vars, TypeOK, Sane, Calm, MyRecord
  <2>2. ASSUME NEW a \in Proc, CallStep(a) PROVE I'
    BY <1>2, <2>2, StepType, StepSane, CalmStep
  <2>3. ~Stall /\ \A a \in Proc : ~Kill(a)
    BY <1>2, NoKills DEF Quiet, Stall, TypeOK
  <2> QED BY <1>2, <2>1, <2>2, <2>3 DEF Next, CallStep
<1> QED BY <1>1, <1>2, PTL DEF Spec

\* A lock that names a live process is the lock of its current call
\* (releaseManagedStateLock), as long as nothing fails.
THEOREM NobodyWaitsForNobody == ASSUME LockAssumption, Quiet PROVE Spec => []NoOrphanedLock
<1>1. TypeOK /\ Sane /\ Calm => NoOrphanedLock
  BY DEF Sane, Sound, Calm, NoOrphanedLock, Names, Inside, MyRecord
<1> QED BY <1>1, CalmInvariance, PTL
=============================================================================
