-------------------------- MODULE ManagedStateLock --------------------------
(***************************************************************************)
(* The directory lock around the managed-session registry and the          *)
(* load-modify-save it protects: acquireManagedStateLock,                  *)
(* discardStaleManagedStateLock, releaseManagedStateLock,                  *)
(* recordManagedSession and removeManagedSession of src/state.ts.          *)
(*                                                                         *)
(* Every process runs synchronous code, so a step of the model is one file *)
(* system call (or a run of calls no other process can tell apart).  A     *)
(* process may be killed between any two of them.                          *)
(***************************************************************************)
EXTENDS Naturals, FiniteSets

CONSTANTS
    Proc,           \* processes; a process is its pid
    Name,           \* session names
    MaxCalls,       \* registry calls one process makes
    MaxKills,       \* how many processes may be killed
    MaxStalls,      \* how often 60 s pass before an owner record is written
    Leftover,       \* may an older release have left its lock behind
    Absent          \* no directory at a path, nobody

VARIABLES
    sessions,       \* the names in the registry file
    lock,           \* the directory at lockPath, or Absent
    quarantine,     \* p's renamed lock, or Absent
    pc,             \* where p is in its registry call
    call,           \* p's current call: its number, its operation, its name
    loaded,         \* the registry p has loaded
    alive,          \* does the operating system know the pid
    stalls,         \* 60 s stalls so far
    evicted         \* has a writer removed the lock of another live process

vars == <<sessions, lock, quarantine, pc, call, loaded, alive, stalls, evicted>>

(* A lock directory: its owner record (none yet, one of an older release,  *)
(* which carries no pid, or one with the holder's pid and the number of    *)
(* its call, which stands for the random owner token), and whether its age *)
(* is past MANAGED_STATE_LOCK_STALE_MS.                                    *)
Dir == [record : {"none", "legacy", "pid"}, pid : Proc \cup {Absent},
        nr : 0..MaxCalls, aged : BOOLEAN]

LockAssumption ==
    /\ IsFiniteSet(Proc) /\ Absent \notin Proc /\ Absent \notin Dir
    /\ MaxCalls \in Nat /\ MaxKills \in Nat /\ MaxStalls \in Nat
    /\ Leftover \in BOOLEAN

Unwritten == [record |-> "none", pid |-> Absent, nr |-> 0, aged |-> FALSE]

Legacy == [record |-> "legacy", pid |-> Absent, nr |-> 0, aged |-> TRUE]

Operation == [op : {"record", "remove"}, name : Name]

NoOperation == [op |-> "none", name |-> Absent]

Pc == {"idle", "mkdir", "writeOwner", "contend", "discard", "confirm",
       "load", "save", "readOwner", "removeLock", "failed"}

TypeOK ==
    /\ sessions \in SUBSET Name
    /\ lock \in Dir \cup {Absent}
    /\ quarantine \in [Proc -> Dir \cup {Absent}]
    /\ pc \in [Proc -> Pc]
    /\ call \in [Proc -> [nr : 0..MaxCalls, todo : Operation \cup {NoOperation}]]
    /\ loaded \in [Proc -> SUBSET Name]
    /\ alive \in [Proc -> BOOLEAN]
    /\ stalls \in 0..MaxStalls
    /\ evicted \in BOOLEAN

Init ==
    /\ sessions = {}
    /\ lock \in {Absent} \cup
                (IF Leftover THEN {Legacy} ELSE {})
    /\ quarantine = [p \in Proc |-> Absent]
    /\ pc = [p \in Proc |-> "idle"]
    /\ call = [p \in Proc |-> [nr |-> 0, todo |-> NoOperation]]
    /\ loaded = [p \in Proc |-> {}]
    /\ alive = [p \in Proc |-> TRUE]
    /\ stalls = 0
    /\ evicted = FALSE

Goto(p, l) == pc' = [pc EXCEPT ![p] = l]

At(p, l) == alive[p] /\ pc[p] = l

MyRecord(p) ==
    [record |-> "pid", pid |-> p, nr |-> call[p].nr, aged |-> FALSE]

(* Mutant: any record is reclaimed, the holder's pid is not looked up. *)
managedStateLockIsStale_ignoresPid(d) ==
    d # Absent /\ (d.record = "pid" \/ d.aged)

(* managedStateLockIsStale: a record of a dead pid is stale at once, one   *)
(* of a live pid never; a record without pid, and a directory without a    *)
(* record, are stale once they are old.                                    *)
managedStateLockIsStale(d) ==
    /\ d # Absent
    /\ IF d.record = "pid" THEN ~alive[d.pid] ELSE d.aged

-----------------------------------------------------------------------------
(* acquireManagedStateLock *)

StartCall(p) ==
    /\ At(p, "idle") \/ At(p, "failed")
    /\ call[p].nr < MaxCalls
    /\ \E todo \in Operation :
         call' = [call EXCEPT ![p] = [nr |-> @.nr + 1, todo |-> todo]]
    /\ Goto(p, "mkdir")
    /\ UNCHANGED <<sessions, lock, quarantine, loaded, alive, stalls, evicted>>

(* Mutant: the lock directory is made with { recursive: true }. *)
MakeLock_recursive(p) ==
    /\ At(p, "mkdir")
    /\ lock' = (IF lock = Absent THEN Unwritten ELSE [lock EXCEPT !.record = "none"])
    /\ Goto(p, "writeOwner")
    /\ UNCHANGED <<sessions, quarantine, call, loaded, alive, stalls, evicted>>

MakeLock(p) ==
    /\ At(p, "mkdir")
    /\ IF lock = Absent
         THEN lock' = Unwritten /\ Goto(p, "writeOwner")
         ELSE lock' = lock /\ Goto(p, "contend")
    /\ UNCHANGED <<sessions, quarantine, call, loaded, alive, stalls, evicted>>

(* The directory carries the record of another process, which lives. *)
HeldByAnother(d, p) ==
    d # Absent /\ d.record = "pid" /\ d.pid # p /\ alive[d.pid]

(* The owner file is created with flag "wx" in whatever directory is at    *)
(* lockPath by then.  A failure removes the directory at lockPath, whoever *)
(* made it, and falls into the contention path.                            *)
WriteOwner(p) ==
    /\ At(p, "writeOwner")
    /\ IF lock # Absent /\ lock.record = "none"
         THEN lock' = MyRecord(p) /\ evicted' = evicted /\ Goto(p, "load")
         ELSE /\ lock' = Absent
              /\ evicted' = (evicted \/ HeldByAnother(lock, p))
              /\ Goto(p, "contend")
    /\ UNCHANGED <<sessions, quarantine, call, loaded, alive, stalls>>

(* A vanished lock rethrows the mkdir error; a stale one is discarded; a   *)
(* current one is waited for until the deadline.                           *)
Contend(p) ==
    /\ At(p, "contend")
    /\ \/ lock = Absent /\ Goto(p, "failed")
       \/ managedStateLockIsStale(lock) /\ Goto(p, "discard")
       \/ /\ lock # Absent /\ ~managedStateLockIsStale(lock)
          /\ Goto(p, "mkdir") \/ Goto(p, "failed")
    /\ UNCHANGED <<sessions, lock, quarantine, call, loaded, alive, stalls, evicted>>

-----------------------------------------------------------------------------
(* discardStaleManagedStateLock *)

Quarantine(p) ==
    /\ At(p, "discard")
    /\ IF lock = Absent
         THEN UNCHANGED <<lock, quarantine>> /\ Goto(p, "mkdir")
         ELSE /\ quarantine' = [quarantine EXCEPT ![p] = lock]
              /\ lock' = Absent
              /\ Goto(p, "confirm")
    /\ UNCHANGED <<sessions, call, loaded, alive, stalls, evicted>>

(* A directory renames over an empty directory, not over one with an owner *)
(* record in it: then the caller fails and the quarantine stays behind.    *)
Confirm(p) ==
    /\ At(p, "confirm")
    /\ \/ /\ managedStateLockIsStale(quarantine[p])
          /\ quarantine' = [quarantine EXCEPT ![p] = Absent]
          /\ lock' = lock
          /\ Goto(p, "mkdir")
       \/ /\ ~managedStateLockIsStale(quarantine[p])
          /\ IF lock = Absent \/ lock.record = "none"
               THEN /\ lock' = quarantine[p]
                    /\ quarantine' = [quarantine EXCEPT ![p] = Absent]
                    /\ Goto(p, "mkdir")
               ELSE UNCHANGED <<lock, quarantine>> /\ Goto(p, "failed")
    /\ UNCHANGED <<sessions, call, loaded, alive, stalls, evicted>>

-----------------------------------------------------------------------------
(* recordManagedSession, removeManagedSession under withManagedStateLock *)

Load(p) ==
    /\ At(p, "load")
    /\ loaded' = [loaded EXCEPT ![p] = sessions]
    /\ Goto(p, "save")
    /\ UNCHANGED <<sessions, lock, quarantine, call, alive, stalls, evicted>>

Update(s, todo) ==
    IF todo.op = "record" THEN s \cup {todo.name} ELSE s \ {todo.name}

Save(p) ==
    /\ At(p, "save")
    /\ sessions' = Update(loaded[p], call[p].todo)
    /\ loaded' = [loaded EXCEPT ![p] = {}]
    /\ Goto(p, "readOwner")
    /\ UNCHANGED <<lock, quarantine, call, alive, stalls, evicted>>

(* The operation throws: the registry is not what a mutation may start     *)
(* from, the record is not a lifecycle authority, or the write fails.  The *)
(* lock is released all the same.                                          *)
Refuse(p) ==
    /\ At(p, "load") \/ At(p, "save")
    /\ loaded' = [loaded EXCEPT ![p] = {}]
    /\ Goto(p, "readOwner")
    /\ UNCHANGED <<sessions, lock, quarantine, call, alive, stalls, evicted>>

(* releaseManagedStateLock removes the directory only if its owner record  *)
(* is still this acquisition's.                                            *)
ReadOwner(p) ==
    /\ At(p, "readOwner")
    /\ IF lock = MyRecord(p)
         THEN Goto(p, "removeLock") ELSE Goto(p, "idle")
    /\ UNCHANGED <<sessions, lock, quarantine, call, loaded, alive, stalls, evicted>>

RemoveLock(p) ==
    /\ At(p, "removeLock")
    /\ lock' = Absent
    /\ Goto(p, "idle")
    /\ UNCHANGED <<sessions, quarantine, call, loaded, alive, stalls, evicted>>

-----------------------------------------------------------------------------
(* The environment. *)

Kill(p) ==
    /\ alive[p] /\ pc[p] # "idle"
    /\ Cardinality({q \in Proc : ~alive[q]}) < MaxKills
    /\ alive' = [alive EXCEPT ![p] = FALSE]
    /\ UNCHANGED <<sessions, lock, quarantine, pc, call, loaded, stalls, evicted>>

(* MANAGED_STATE_LOCK_STALE_MS passes while a lock has no owner record.    *)
Stall ==
    /\ stalls < MaxStalls
    /\ lock # Absent /\ lock.record = "none" /\ ~lock.aged
    /\ lock' = [lock EXCEPT !.aged = TRUE]
    /\ stalls' = stalls + 1
    /\ UNCHANGED <<sessions, quarantine, pc, call, loaded, alive, evicted>>

Next ==
    \/ \E p \in Proc :
          \/ StartCall(p) \/ MakeLock(p) \/ WriteOwner(p) \/ Contend(p)
          \/ Quarantine(p) \/ Confirm(p)
          \/ Load(p) \/ Save(p) \/ Refuse(p) \/ ReadOwner(p) \/ RemoveLock(p)
          \/ Kill(p)
    \/ Stall

Spec == Init /\ [][Next]_vars

-----------------------------------------------------------------------------
(* No two processes are between loading the registry and saving it.        *)
(* discardStaleManagedStateLock and recordManagedSession both promise it:  *)
(* "instead of two writers sharing the lock", "without losing concurrent   *)
(* RPC writes".  The one exception that two processes can reach is named:  *)
(* a writer that stalled for 60 s before its owner record found a live     *)
(* process's record in its place and removed that lock (state.ts:543).     *)
MutualExclusion ==
    \A p, q \in Proc :
        At(p, "save") /\ At(q, "save") => p = q \/ evicted

(* A save applies its operation to the registry as it is, never to a       *)
(* registry loaded before somebody else's save (recordManagedSession:      *)
(* "Atomically merge one session record"), with the same exception.        *)
Registry == INSTANCE ManagedRegistry WITH Name <- Name, sessions <- sessions
AtomicUpdates == Registry!Init /\ [][Registry!Next \/ evicted]_sessions

(* A lock that names a live process is the lock of that process's current  *)
(* call: nobody is left waiting for a holder that is no longer inside, and *)
(* can only be waited out (releaseManagedStateLock).                       *)
NoOrphanedLock ==
    lock # Absent /\ lock.record = "pid" /\ alive[lock.pid]
      => /\ call[lock.pid].nr = lock.nr
         /\ pc[lock.pid] \in {"load", "save", "readOwner", "removeLock"}
=============================================================================
