--------------------------- MODULE TerminalControl ---------------------------
(***************************************************************************)
(* The terminal-control authority: one daemon that serializes every writer *)
(* of a managed tmux session (Feishu bridge, dashboard, CLI, relay) behind *)
(* leases and fences kept in a durable state file                          *)
(* (src/terminalControl/authority.ts, store.ts, backend.ts).               *)
(*                                                                         *)
(* A handler runs under the store lock from its load to its last save, so  *)
(* it is one step here, except for the two places where something else     *)
(* can happen inside it: an input operation is accepted durably, then      *)
(* written to tmux, then its disposition is made durable; and the daemon   *)
(* may die, or lose the answer, right after tmux has rotated the output    *)
(* generation.                                                             *)
(*                                                                         *)
(* One session name is modelled.  A handler is a set of outcomes, each a   *)
(* possible end of the handler with the world it leaves behind.            *)
(***************************************************************************)
EXTENDS ControlRecord, FiniteSets

CONSTANTS
    Target,         \* ids that target.resolve may mint
    Kinds,          \* the operation kinds clients use
    Fault,          \* what may go wrong, see FaultKind
    MaxFaults,      \* how often something goes wrong
    MaxFence,       \* the fence up to which ownership is granted, output tailed
    MaxHandoffs,    \* handoffs begun per target
    MaxSessions     \* tmux sessions created under the name

FaultKind ==
    {"probe",       \* a tmux identity probe fails without an answer
     "capture",     \* the output capture is lost, full or cannot be set up
     "pipe",        \* the pane's output pipe stops
     "lostReset",   \* tmux rotates the generation, the daemon never learns
     "lostRecovery",\* the same, for the generation an explicit recovery plans
     "emptyTail",   \* a generation is tailed before it holds any byte
     "write",       \* tmux does not confirm a write
     "save",        \* the state file cannot be written after a write
     "crash"}       \* the daemon dies

ASSUME ControlAssumption ==
    /\ Kinds \subseteq OpKind
    /\ Fault \subseteq FaultKind
    /\ MaxFaults \in Nat /\ MaxFence \in Nat /\ MaxHandoffs \in Nat
    /\ MaxSessions \in Nat

VARIABLES
    epoch,          \* controlEpoch
    targets,        \* the durable records
    tmux,           \* the session: up, incarnation, gen, pipe, made
    producer,       \* interactiveOwners of the running daemon
    up,             \* is the daemon running
    call,           \* the input operation the daemon is inside of
    late,           \* writes sent to tmux whose daemon does not wait for them
    landed,         \* history: operations that reached a pane
    replayed,       \* history: operations that reached a pane twice
    faults

vars == <<epoch, targets, tmux, producer, up, call, late, landed, replayed,
          faults>>

NoGen == <<0, 0>>

Tmux == [up : BOOLEAN, incarnation : Nat, gen : Generation, pipe : BOOLEAN,
         made : Nat]

Result == {"committed", "declined", "gone", "refused", "unknown", "failed"}

IdleCall == [stage |-> "idle", target |-> None, result |-> "none"]

Call == {IdleCall}
        \cup [stage : {"accepted"}, target : Target, result : {"none"}]
        \cup [stage : {"answered"}, target : Target, result : Result]

Write == [target : Target, id : OpId, kind : OpKind, owner : Owner,
          fence : Nat, gen : Generation, incarnation : Nat]

Hit == [target : Target, id : OpId, kind : OpKind, owner : Owner,
        fence : Nat, incarnation : Nat, into : Nat]

TypeOK ==
    /\ epoch \in Nat
    /\ targets \in [Target -> TargetRecord]
    /\ tmux \in Tmux
    /\ producer \in [Target -> Owner \cup {None}]
    /\ up \in BOOLEAN
    /\ call \in Call
    /\ late \subseteq Write
    /\ landed \subseteq Hit
    /\ replayed \subseteq Target \X OpId
    /\ faults \in Nat

Init ==
    /\ epoch = 1
    /\ targets = [t \in Target |-> Unused]
    /\ tmux = [up |-> TRUE, incarnation |-> 1, gen |-> NoGen, pipe |-> FALSE,
               made |-> 0]
    /\ producer = [t \in Target |-> None]
    /\ up = TRUE
    /\ call = IdleCall
    /\ late = {} /\ landed = {} /\ replayed = {}
    /\ faults = 0

-----------------------------------------------------------------------------
(* Outcomes.  A world is what a handler working on one target can change:  *)
(* the record in memory, the record on disk, tmux, the producer entry and  *)
(* the faults met.  "error" ends the handler with an exception.            *)

World(t) == [rec |-> targets[t], disk |-> targets[t], tmux |-> tmux,
             prod |-> producer[t], faults |-> faults]

Ok(w) == [w |-> w, end |-> "ok"]

Error(w) == [w |-> w, end |-> "error"]

Crashed(w) == [w |-> w, end |-> "crash"]

Save(w) == [w EXCEPT !.disk = w.rec]

Ended(S) == {o \in S : o.end # "ok"}

Worlds(S) == {o.w : o \in {x \in S : x.end = "ok"}}

CanFail(w, f) == f \in Fault /\ w.faults < MaxFaults

Spend(w) == [w EXCEPT !.faults = @ + 1]

-----------------------------------------------------------------------------
(* The tmux backend, as far as the authority can tell its answers apart. *)

SameSession(w) == w.tmux.up /\ w.tmux.incarnation = w.rec.incarnation

(* assertCurrent *)
Probes(w) ==
    {[w |-> w, answer |-> IF SameSession(w) THEN "current" ELSE "gone"]}
    \cup (IF CanFail(w, "probe")
            THEN {[w |-> Spend(w), answer |-> "uncertain"]} ELSE {})

(* A capture under generation g replaces the pane's pipe; "made" is the    *)
(* number of the last random generation.                                   *)
Captured(m, g) ==
    [m EXCEPT !.gen = g, !.pipe = TRUE,
              !.made = IF g[1] = 0 /\ g[2] > @ THEN g[2] ELSE @]

FreshGeneration(w) == <<0, w.tmux.made + 1>>

(* The rotation took effect and the record never says so: the confirmation *)
(* failed, or the daemon died before its save.                             *)
LostRotation(w, g) == Spend([w EXCEPT !.tmux = Captured(@, g)])

(* The outcomes of installing generation g; "failed" is what tmux is left  *)
(* with when the capture cannot be set up.                                 *)
Rotations(w, failed, g, lossy) ==
    {Ok([w EXCEPT !.tmux = Captured(@, g), !.rec.gen = g])}
    \cup (IF CanFail(w, "capture") THEN {Error(Spend(failed))} ELSE {})
    \cup (IF CanFail(w, lossy)
            THEN {Error(LostRotation(w, g)), Crashed(LostRotation(w, g))}
            ELSE {})

(* backend resetOutput: a random generation, only over the one the record  *)
(* names.                                                                  *)
backendResetOutput(w) ==
    IF SameSession(w) /\ w.tmux.gen \in {NoGen, w.rec.gen}
      THEN Rotations(w, w, FreshGeneration(w), "lostReset")
      ELSE {Error(w)}

\* Mutant: a recovery draws a random generation, like a reset.
backendRecoverOutput_random(w) ==
    IF SameSession(w) /\ (w.tmux.gen \in {NoGen, w.rec.gen} \/ ~w.tmux.pipe)
      THEN Rotations(w, [w EXCEPT !.tmux.pipe = FALSE], FreshGeneration(w),
                     "lostRecovery")
      ELSE {Error(w)}

(* backend recoverOutput: the planned generation, over the recorded one or *)
(* over a pane that already carries the planned one.  A foreign generation *)
(* is replaced only when its pipe has stopped.  The old pipe is stopped    *)
(* before the new capture is set up.                                       *)
backendRecoverOutput(w) ==
    LET planned == plannedOutputRecoveryGeneration(w.rec)
    IN  IF /\ SameSession(w)
           /\ w.tmux.gen \in {NoGen, w.rec.gen, planned} \/ ~w.tmux.pipe
          THEN Rotations(w, [w EXCEPT !.tmux.pipe = FALSE], planned,
                         "lostRecovery")
          ELSE {Error(w)}

(* backend prepareOutput: "ok", a capture that asks for rotation ("full"), *)
(* or a capture that is not the recorded one any more ("lost").            *)
backendPrepareOutput(w) ==
    CASE SameSession(w) /\ w.tmux.gen = w.rec.gen /\ w.tmux.pipe ->
            {Ok(w)} \cup
            (IF CanFail(w, "capture")
               THEN {[w |-> Spend(w), end |-> e] : e \in {"full", "lost"}}
               ELSE {})
      [] SameSession(w) /\ w.tmux.gen = NoGen /\ ~w.tmux.pipe ->
            {Ok([w EXCEPT !.tmux = Captured(@, w.rec.gen)])} \cup
            (IF CanFail(w, "capture")
               THEN {[w |-> Spend(w), end |-> "lost"]} ELSE {}) \cup
            (IF CanFail(w, "lostReset")
               THEN {[w |-> LostRotation(w, w.rec.gen), end |-> e] : e \in {"crash", "lost"}}
               ELSE {})
      [] OTHER -> {[w |-> w, end |-> "lost"]}

-----------------------------------------------------------------------------
(* The steps handlers share. *)

MarkAndSave(w, reason) == Save([w EXCEPT !.rec = markRecovery(@, reason)])

InvalidateAndSave(w) == Save([w EXCEPT !.rec = invalidateTarget(@)])

OutputUncertain(w) == Error(MarkAndSave(w, "OUTPUT_CONTINUITY_UNCERTAIN"))

resetOutput(w) ==
    LET s == backendResetOutput(w)
    IN  {o \in s : o.end # "error"}
        \cup {OutputUncertain(o.w) : o \in {x \in s : x.end = "error"}}

(* An interactive or ownerless capture is rebuilt once before the target   *)
(* is fenced; a Feishu turn, a drain or an open operation never is.        *)
Repairable(o) ==
    LET r == o.w.rec
    IN  /\ r.lifecycle = "ACTIVE" /\ ~Pending(r)
        /\ \/ r.own.state = "FREE" /\ o.end = "full"
           \/ r.own.state = "HELD" /\ isInteractiveOwner(r.own.owner)

Repair(w) ==
    UNION {IF p.answer # "current" THEN {OutputUncertain(p.w)}
           ELSE {IF o.end = "ok" THEN Ok(Save(o.w))
                 ELSE IF o.end = "crash" THEN o ELSE OutputUncertain(o.w) :
                   o \in backendResetOutput(p.w)} : p \in Probes(w)}

prepareOutput(w) ==
    UNION {IF o.end \in {"ok", "crash"} THEN {o}
           ELSE IF Repairable(o) THEN Repair(o.w)
           ELSE {OutputUncertain(o.w)} : o \in backendPrepareOutput(w)}

(* reconcileAbandonedOwnership: an expired lease is fenced durably; what   *)
(* is left of an interactive owner is then made free again over a fresh    *)
(* generation.  A failure leaves the recovery as it is.                    *)
Reopened(w) ==
    Save([w EXCEPT !.rec.lifecycle = "ACTIVE", !.rec.recovery = NoRecovery,
                   !.prod = None])

\* Mutant: only what is fenced already is looked at.
reconcileAbandonedOwnership_ignoresExpiry(w) == {Ok(w)}

\* Mutant: an expired lease is fenced and then left alone.
reconcileAbandonedOwnership_fencesOnly(w) ==
    {Ok(IF w.rec.lifecycle = "ACTIVE" /\ leaseExpired(w.rec)
          THEN MarkAndSave(w, "LEASE_EXPIRED") ELSE w)}

reconcileAbandonedOwnership(w) ==
    LET expired == w.rec.lifecycle = "ACTIVE" /\ leaseExpired(w.rec)
        fenced  == IF expired
                     THEN MarkAndSave(w, IF w.rec.own.state = "DRAINING"
                                           THEN "DRAIN_UNCERTAIN"
                                           ELSE "LEASE_EXPIRED")
                     ELSE w
    IN  IF \/ expired /\ ~isAbandonableNonFeishuLease(w.rec)
           \/ ~isAutoRecoverableNonFeishuState(fenced.rec)
          THEN {Ok(fenced)}
          ELSE UNION {CASE p.answer = "gone" -> {Error(InvalidateAndSave(p.w))}
                        [] p.answer = "uncertain" -> {Ok(p.w)}
                        [] OTHER ->
                             {CASE o.end = "ok" -> Ok(Reopened(o.w))
                                [] o.end = "error" -> Ok(o.w)
                                [] OTHER -> o : o \in backendResetOutput(p.w)} :
                          p \in Probes(fenced)}

ProveCurrent(w) ==
    {CASE p.answer = "current" -> Ok(p.w)
       [] p.answer = "gone" -> Error(InvalidateAndSave(p.w))
       [] OTHER -> Error(MarkAndSave(p.w, "BACKEND_IDENTITY_UNCERTAIN")) :
         p \in Probes(w)}

assertTargetCurrent(w) ==
    LET s == reconcileAbandonedOwnership(w)
    IN  Ended(s) \cup
        UNION {IF Operable(x.rec) THEN ProveCurrent(x) ELSE {Error(x)} :
                 x \in Worlds(s)}

\* Mutant: the fence of the lease is not compared.
validLease_ignoresFence(r, l, states) ==
    /\ Operable(r)
    /\ l.epoch = epoch
    /\ r.own.state \in states
    /\ sameInputOwnerClass(r.own.owner, l.owner)

validLease(r, l, states) ==
    /\ Operable(r)
    /\ l.epoch = epoch
    /\ r.own.state \in states
    /\ l.fence = r.own.fence
    /\ sameInputOwnerClass(r.own.owner, l.owner)

\* Mutant: every interactive owner of the lease may write.
MayProduce_anyone(w, o) == TRUE

(* registerInteractiveOwner *)
MayProduce(w, o) == isInteractiveOwner(o) => w.prod \in {None, o}

Register(w, o) == IF isInteractiveOwner(o) THEN [w EXCEPT !.prod = o] ELSE w

\* Mutant: the fence does not advance.
Grant_sameFence(w, o) ==
    Register([w EXCEPT !.rec.own = Held(@.fence, o), !.prod = None], o)

(* A new ownership: the fence advances and the producer registry is reset. *)
Grant(w, o) ==
    Register([w EXCEPT !.rec.own = Held(@.fence + 1, o), !.prod = None], o)

-----------------------------------------------------------------------------
(* The handlers.  Each is the set of outcomes of one request.              *)

resolved(w) ==
    LET marked == IF Pending(w.rec) /\ w.rec.lifecycle = "ACTIVE"
                    THEN [w EXCEPT !.rec = markRecovery(@, "OPERATION_IN_DOUBT")]
                    ELSE w
        s == reconcileAbandonedOwnership(marked)
    IN  Ended(s) \cup
        UNION {IF x.rec.lifecycle = "ACTIVE" THEN prepareOutput(x) ELSE {Ok(x)} :
                 x \in Worlds(s)}

(* resolveTarget saves at the end when it minted, marked or invalidated.   *)
resolveTarget(w) ==
    {IF o.end = "ok" THEN Ok(Save(o.w)) ELSE o : o \in resolved(w)}

status(w) ==
    LET marked == IF Pending(w.rec) /\ w.rec.lifecycle = "ACTIVE"
                    THEN Save([w EXCEPT !.rec =
                                 markRecovery(@, "OPERATION_IN_DOUBT")])
                    ELSE w
        s == reconcileAbandonedOwnership(marked)
        c == UNION {IF x.rec.lifecycle = "ACTIVE" THEN assertTargetCurrent(x)
                    ELSE {Ok(x)} : x \in Worlds(s)}
    IN  Ended(s) \cup Ended(c) \cup
        UNION {IF x.rec.lifecycle = "ACTIVE" THEN prepareOutput(x) ELSE {Ok(x)} :
                 x \in Worlds(c)}

Extended(w) == [w EXCEPT !.rec.own.expired = FALSE]

Join(w, o) ==
    IF ~isInteractiveOwner(o) THEN Ok(w)
    ELSE IF MayProduce(w, o) THEN Ok(Save(Register(Extended(w), o)))
    ELSE Error(w)

(* A free target is granted, an owner of the same class joins the lease if *)
(* nobody else produces, Feishu preempts an interactive owner over a fresh *)
(* generation; everybody else is refused.                                  *)
acquireFrom(w, o) ==
    LET own == w.rec.own
        prepared == prepareOutput(w)
        reset == resetOutput(w)
    IN  CASE own.state = "FREE" ->
               Ended(prepared) \cup {Ok(Save(Grant(x, o))) : x \in Worlds(prepared)}
          [] own.state = "HELD" /\ sameInputOwnerClass(own.owner, o) ->
               Ended(prepared) \cup
               {Join(x, o) : x \in Worlds(prepared)}
          [] /\ own.state = "HELD" /\ isInteractiveOwner(own.owner)
             /\ ~isInteractiveOwner(o) ->
               Ended(reset) \cup {Ok(Save(Grant(x, o))) : x \in Worlds(reset)}
          [] OTHER -> {Error(w)}

acquire(w, o) ==
    LET s == assertTargetCurrent(w)
    IN  Ended(s) \cup UNION {acquireFrom(x, o) : x \in Worlds(s)}

AnyOwned == {"HELD", "DRAINING"}

renewFrom(w, l) ==
    IF ~validLease(w.rec, l, AnyOwned) \/ ~MayProduce(w, l.owner) THEN {Error(w)}
    ELSE LET s == prepareOutput(Register(Extended(w), l.owner))
         IN  Ended(s) \cup {Ok(Save(x)) : x \in Worlds(s)}

renew(w, l) ==
    LET s == assertTargetCurrent(w)
    IN  Ended(s) \cup UNION {renewFrom(x, l) : x \in Worlds(s)}

Freed(w) == [w EXCEPT !.rec.own = Free(@.fence + 1)]

(* Only the registered producer of an interactive lease frees it.  An open *)
(* exact observation ("observed") keeps its output generation.             *)
releaseFrom(w, l, observed) ==
    CASE ~validLease(w.rec, l, {"HELD"}) -> {Error(w)}
      [] isInteractiveOwner(l.owner) /\ w.prod # l.owner -> prepareOutput(w)
      [] OTHER ->
           LET x == [w EXCEPT !.prod = None]
               s == IF observed THEN prepareOutput(x) ELSE resetOutput(x)
           IN  Ended(s) \cup
               {Ok(Save(Freed(y))) : y \in Worlds(s)}

release(w, l, observed) ==
    LET s == assertTargetCurrent(w)
    IN  Ended(s) \cup UNION {releaseFrom(x, l, observed) : x \in Worlds(s)}

(* handoff.begin with the current lease, or without one (NoLease) from a   *)
(* controlled local owner to Feishu.                                       *)
NoLease == [epoch |-> 0, fence |-> 0, owner |-> None]

LocalKind == {"dashboard", "local-cli"}

MayBegin(r, next, l) ==
    IF l # NoLease THEN validLease(r, l, {"HELD"})
    ELSE ~isInteractiveOwner(r.own.owner) /\ kindOf[next] \in LocalKind

Draining(r, next) ==
    [r EXCEPT !.own.state = "DRAINING", !.own.next = next, !.handoffs = @ + 1]

beginFrom(w, next, l) ==
    LET own == w.rec.own
        prepared == prepareOutput(w)
        draining == prepareOutput([w EXCEPT !.rec = Draining(@, next)])
    IN  CASE own.state = "FREE" ->
               Ended(prepared) \cup
               {Ok(Save(Grant(x, next))) : x \in Worlds(prepared)}
          [] own.state = "DRAINING" ->
               IF own.next = next THEN prepared ELSE {Error(w)}
          [] own.state = "HELD" /\ ~MayBegin(w.rec, next, l) -> {Error(w)}
          [] own.state = "HELD" /\ MayBegin(w.rec, next, l) /\ own.owner = next ->
               Ended(prepared) \cup
               {IF MayProduce(x, next) THEN Ok(Register(x, next)) ELSE Error(x) :
                  x \in Worlds(prepared)}
          [] OTHER -> Ended(draining) \cup {Ok(Save(x)) : x \in Worlds(draining)}

beginHandoff(w, next, l) ==
    LET s == assertTargetCurrent(w)
    IN  Ended(s) \cup UNION {beginFrom(x, next, l) : x \in Worlds(s)}

CurrentHandoff(r, h) == r.own.state = "DRAINING" /\ r.handoffs = h

commitFrom(w, h, l, drain) ==
    LET s == resetOutput(w)
    IN  CASE ~validLease(w.rec, l, AnyOwned) \/ ~CurrentHandoff(w.rec, h) ->
               {Error(w)}
          [] drain = "uncertain" -> {Error(MarkAndSave(w, "DRAIN_UNCERTAIN"))}
          [] OTHER -> Ended(s) \cup
                      {Ok(Save(Grant(x, w.rec.own.next))) : x \in Worlds(s)}

commitHandoff(w, h, l, drain) ==
    LET s == assertTargetCurrent(w)
    IN  Ended(s) \cup UNION {commitFrom(x, h, l, drain) : x \in Worlds(s)}

(* cancelHandoff by the holder and withdrawHandoff by the next owner both  *)
(* return to the old lease under the old fence.                            *)
backToHeld(w) ==
    LET s == prepareOutput([w EXCEPT !.rec.own.state = "HELD",
                                     !.rec.own.next = None])
    IN  Ended(s) \cup {Ok(Save(x)) : x \in Worlds(s)}

cancelHandoff(w, h, l) ==
    LET s == assertTargetCurrent(w)
    IN  Ended(s) \cup
        UNION {IF validLease(x.rec, l, AnyOwned) /\ CurrentHandoff(x.rec, h)
                 THEN backToHeld(x) ELSE {Error(x)} : x \in Worlds(s)}

withdrawHandoff(w, h, next) ==
    LET s == assertTargetCurrent(w)
    IN  Ended(s) \cup
        UNION {IF CurrentHandoff(x.rec, h) /\ x.rec.own.next = next
                 THEN backToHeld(x) ELSE {Error(x)} : x \in Worlds(s)}

(* handoff.force: the explicit recovery of a fenced target by a controlled *)
(* local owner that acknowledges what is uncertain.                        *)
Recovered(w, next) ==
    Save(Grant([w EXCEPT !.rec.lifecycle = "ACTIVE",
                         !.rec.recovery = NoRecovery, !.rec.pinned = {}], next))

ForceProof ==
    {"feishu-turn-cancelled", "operator-acknowledged-in-doubt",
     "owner-unreachable"}

MayForce(r, proof) ==
    /\ r.lifecycle = "RECOVERY_REQUIRED"
    /\ r.recovery.previousOwnerKind = "feishu" => proof # "owner-unreachable"

Taken(w, next) ==
    {IF o.end = "ok" THEN Ok(Recovered(o.w, next)) ELSE o :
       o \in backendRecoverOutput(
               [w EXCEPT !.rec = completeInFlightAsInDoubt(@)])}

forceHandoff(w, e, next, proof) ==
    LET x == IF w.rec.lifecycle = "ACTIVE" /\ leaseExpired(w.rec)
               THEN MarkAndSave(w, "LEASE_EXPIRED") ELSE w
    IN  IF e # epoch \/ w.rec.lifecycle = "TARGET_GONE" THEN {Error(w)}
        ELSE IF ~MayForce(x.rec, proof) THEN {Error(x)}
        ELSE UNION {CASE p.answer = "gone" -> {Error(InvalidateAndSave(p.w))}
                      [] p.answer = "uncertain" -> {Error(p.w)}
                      [] p.answer = "current" -> Taken(p.w, next) : p \in Probes(x)}

-----------------------------------------------------------------------------
(* output.tail of generation g.  The backend prepares the capture again,   *)
(* and rotates a generation that holds nothing yet: tmux then carries a    *)
(* generation the record does not name, and what is read is the old one.   *)
backendTailOutput(w, g) ==
    IF SameSession(w) /\ w.tmux.gen = g /\ w.tmux.pipe
      THEN {Ok(w)}
           \cup (IF CanFail(w, "capture") THEN {Error(Spend(w))} ELSE {})
           \cup (IF CanFail(w, "emptyTail")
                   THEN {Ok(LostRotation(w, FreshGeneration(w))),
                         Error(LostRotation(w, FreshGeneration(w)))}
                   ELSE {})
      ELSE {Error(w)}

tailGoneErrorWithReprobe(w) ==
    LET s == assertTargetCurrent(w)
    IN  Ended(s) \cup {OutputUncertain(x) : x \in Worlds(s)}

tailOutput(w, e, g) ==
    LET s == assertTargetCurrent(w)
    IN  IF e # epoch \/ g # w.rec.gen THEN {Error(w)}
        ELSE Ended(s) \cup
             UNION {UNION {IF o.end = "ok" THEN {o}
                           ELSE tailGoneErrorWithReprobe(o.w) :
                             o \in backendTailOutput(x, g)} : x \in Worlds(s)}

-----------------------------------------------------------------------------
(* executeInput and executeLifecycleKill up to the durable in-flight mark. *)

Accepted(w, l, id, kind) ==
    [w |-> Save([w EXCEPT !.rec.inFlight =
                   [id |-> id, kind |-> kind, owner |-> l.owner,
                    fence |-> l.fence, gen |-> w.rec.gen]]),
     end |-> "accepted"]

(* A completed operation is answered from the journal if it is the same    *)
(* one and committed, and refused otherwise; it is never written again.    *)
Deduplicated(r, l, id, kind) ==
    \E i \in DOMAIN r.journal :
        r.journal[i] = [id |-> id, kind |-> kind, owner |-> l.owner,
                        fence |-> l.fence, disposition |-> "committed"]

(* The raw path only looks the capture up before the write.                *)
rawInputPosition(w, l) ==
    {Ok(w)} \cup
    (IF ~CanFail(w, "capture") THEN {}
     ELSE IF isInteractiveOwner(l.owner) THEN Repair(Spend(w))
     ELSE {OutputUncertain(Spend(w))})

acceptFrom(w, l, id, kind) ==
    LET x == Register(w, l.owner)
        s == IF kind = "raw" THEN rawInputPosition(x, l) ELSE prepareOutput(x)
    IN  IF ~validLease(w.rec, l, {"HELD"}) \/ ~MayProduce(w, l.owner)
          THEN {Error(w)}
        ELSE IF id \in JournalIds(w.rec)
          THEN IF kind = "raw" /\ Deduplicated(w.rec, l, id, kind)
                 THEN assertTargetCurrent(x) ELSE {Error(x)}
        ELSE Ended(s) \cup {Accepted(y, l, id, kind) : y \in Worlds(s)}

executeInput(w, l, id, kind) ==
    LET s == IF kind = "raw" THEN reconcileAbandonedOwnership(w)
             ELSE assertTargetCurrent(w)
    IN  Ended(s) \cup UNION {acceptFrom(x, l, id, kind) : x \in Worlds(s)}

killFrom(w, l, id) ==
    LET s == prepareOutput(w)
    IN  IF ~validLease(w.rec, l, {"HELD"}) THEN {Error(w)}
        ELSE Ended(s) \cup
             {Accepted(x, l, id, "lifecycle-kill") : x \in Worlds(s)}

executeLifecycleKill(w, l, id) ==
    LET s == assertTargetCurrent(w)
    IN  IF id \in JournalIds(w.rec) THEN {Error(w)}
        ELSE Ended(s) \cup UNION {killFrom(x, l, id) : x \in Worlds(s)}

-----------------------------------------------------------------------------
(* The actions.  A handler holds the store lock, so a request is served    *)
(* while no input operation is under way.                                  *)

Conclude(t, o) ==
    /\ targets' = [targets EXCEPT ![t] = o.w.disk]
    /\ tmux' = o.w.tmux
    /\ faults' = o.w.faults
    /\ up' = (o.end # "crash")
    /\ producer' = IF o.end = "crash" THEN [x \in Target |-> None]
                   ELSE [producer EXCEPT ![t] = o.w.prod]
    /\ call' = IF o.end = "accepted"
                 THEN [stage |-> "accepted", target |-> t, result |-> "none"]
                 ELSE IdleCall
    /\ UNCHANGED <<epoch, late, landed, replayed>>

Ready(t) == up /\ call.stage = "idle" /\ targets[t].lifecycle # "UNUSED"

MayGrant(t) == targets[t].own.fence < MaxFence

(* The leases a client may hold: the current one and outdated ones.        *)
Presentable(t) ==
    {[epoch |-> e, fence |-> f, owner |-> o] :
        e \in {epoch, epoch - 1},
        f \in {targets[t].own.fence, targets[t].own.fence - 1} \cap Nat,
        o \in Owner}

Handoffs(t) == {targets[t].handoffs, targets[t].handoffs - 1} \cap Nat

(* target.resolve finds the record of the live incarnation or mints one;   *)
(* records of earlier incarnations of the name are invalidated with it.    *)
Current(t) ==
    /\ targets[t].lifecycle \notin {"UNUSED", "TARGET_GONE"}
    /\ targets[t].incarnation = tmux.incarnation

\* Mutant: a fenced record of an earlier incarnation is left alone.
Outdated_activeOnly(t) ==
    targets[t].lifecycle = "ACTIVE" /\ targets[t].incarnation # tmux.incarnation

Outdated(t) ==
    /\ targets[t].lifecycle \notin {"UNUSED", "TARGET_GONE"}
    /\ targets[t].incarnation # tmux.incarnation

Minted(t) ==
    LET m == [tmux EXCEPT !.made = @ + 1]
    IN  [World(t) EXCEPT !.rec = NewRecord(tmux.incarnation, <<0, m.made>>),
                         !.tmux = m]

ResolveTarget(t) ==
    /\ up /\ call.stage = "idle" /\ tmux.up
    /\ \/ Current(t)
       \/ targets[t].lifecycle = "UNUSED" /\ \A x \in Target : ~Current(x)
    /\ \E o \in resolveTarget(IF Current(t) THEN World(t) ELSE Minted(t)) :
         LET saved == o.end = "ok" \/ o.w.disk # targets[t]
             swept == [x \in Target |->
                         IF saved /\ Outdated(x) THEN invalidateTarget(targets[x])
                         ELSE targets[x]]
         IN  /\ targets' = [swept EXCEPT ![t] = o.w.disk]
             /\ tmux' = o.w.tmux /\ faults' = o.w.faults
             /\ up' = (o.end # "crash")
             /\ producer' = IF o.end = "crash" THEN [x \in Target |-> None]
                            ELSE [producer EXCEPT ![t] = o.w.prod]
             /\ UNCHANGED <<epoch, call, late, landed, replayed>>

Status(t) == Ready(t) /\ \E o \in status(World(t)) : Conclude(t, o)

Acquire(t) ==
    /\ Ready(t) /\ MayGrant(t)
    /\ \E owner \in Owner : \E o \in acquire(World(t), owner) : Conclude(t, o)

Renew(t) ==
    /\ Ready(t)
    /\ \E l \in Presentable(t) : \E o \in renew(World(t), l) : Conclude(t, o)

Release(t) ==
    /\ Ready(t)
    /\ \E l \in Presentable(t), observed \in BOOLEAN :
         \E o \in release(World(t), l, observed) : Conclude(t, o)

BeginHandoff(t) ==
    /\ Ready(t) /\ MayGrant(t) /\ targets[t].handoffs < MaxHandoffs
    /\ \E next \in Owner, l \in Presentable(t) \cup {NoLease} :
         \E o \in beginHandoff(World(t), next, l) : Conclude(t, o)

CommitHandoff(t) ==
    /\ Ready(t) /\ MayGrant(t)
    /\ \E h \in Handoffs(t), l \in Presentable(t),
          drain \in {"drained", "uncertain"} :
         \E o \in commitHandoff(World(t), h, l, drain) : Conclude(t, o)

CancelHandoff(t) ==
    /\ Ready(t)
    /\ \E h \in Handoffs(t), l \in Presentable(t) :
         \E o \in cancelHandoff(World(t), h, l) : Conclude(t, o)

WithdrawHandoff(t) ==
    /\ Ready(t)
    /\ \E h \in Handoffs(t), next \in Owner :
         \E o \in withdrawHandoff(World(t), h, next) : Conclude(t, o)

ForceHandoff(t) ==
    /\ Ready(t) /\ MayGrant(t)
    /\ \E e \in {epoch, epoch - 1}, proof \in ForceProof,
          next \in {o \in Owner : kindOf[o] \in LocalKind} :
         \E o \in forceHandoff(World(t), e, next, proof) : Conclude(t, o)

(* A tail that reopens an abandoned target then reads the generation it    *)
(* just replaced, and fences the target again.                             *)
TailOutput(t) ==
    /\ Ready(t) /\ targets[t].own.fence <= MaxFence
    /\ \E o \in tailOutput(World(t), epoch, targets[t].gen) : Conclude(t, o)

ExecuteInput(t) ==
    /\ Ready(t)
    /\ \E l \in Presentable(t), id \in OpId, kind \in Kinds \ {"lifecycle-kill"} :
         \E o \in executeInput(World(t), l, id, kind) : Conclude(t, o)

ExecuteLifecycleKill(t) ==
    /\ Ready(t) /\ "lifecycle-kill" \in Kinds
    /\ \E l \in Presentable(t), id \in OpId :
         \E o \in executeLifecycleKill(World(t), l, id) : Conclude(t, o)

(* renderedSnapshot, agentStatus and agentResult change nothing after      *)
(* their proof that the target is current.                                 *)
ReadWithLease(t) ==
    /\ Ready(t) /\ \E o \in Owner : kindOf[o] \in {"feishu", "relay-v2"}
    /\ \E o \in assertTargetCurrent(World(t)) : Conclude(t, o)

-----------------------------------------------------------------------------
(* The backend write.  Raw bytes carry the generation into the tmux        *)
(* command itself, an Agent message is checked first and then pasted into  *)
(* the pane it was checked for, and scroll, resize and kill go to whatever *)
(* session has the name.                                                   *)

Sent(t) ==
    LET op == targets[t].inFlight
    IN  [target |-> t, id |-> op.id, kind |-> op.kind, owner |-> op.owner,
         fence |-> op.fence, gen |-> op.gen,
         incarnation |-> targets[t].incarnation]

\* Mutant: the generation is not part of the condition.
Fenced_byIncarnation(x) == tmux.up /\ tmux.incarnation = x.incarnation

Fenced(x) ==
    /\ tmux.up /\ tmux.incarnation = x.incarnation
    /\ tmux.gen = x.gen /\ tmux.pipe

Reaches(x) ==
    IF x.kind \in {"raw", "agent-message"} THEN Fenced(x) ELSE tmux.up

Land(x) ==
    /\ landed' = landed \cup
         {[target |-> x.target, id |-> x.id, kind |-> x.kind,
           owner |-> x.owner, fence |-> x.fence,
           incarnation |-> x.incarnation, into |-> tmux.incarnation]}
    /\ replayed' = replayed \cup
         {p \in {<<x.target, x.id>>} :
            \E h \in landed : h.target = x.target /\ h.id = x.id}
    /\ tmux' = [tmux EXCEPT !.up = @ /\ x.kind # "lifecycle-kill"]

NothingLands == UNCHANGED <<landed, replayed, tmux>>

(* How the backend reports a write that did not reach the pane.            *)
Missed(kind) ==
    CASE kind = "raw" -> {"gone", "refused"}
      [] kind = "agent-message" -> {"gone", "refused", "unknown"}
      [] kind \in {"scroll", "resize"} -> {"unknown"}
      [] kind = "lifecycle-kill" -> {"failed"}

Answer(result) == call' = [call EXCEPT !.stage = "answered", !.result = result]

WriteLands(x) ==
    Reaches(x) /\ Land(x) /\ Answer("committed") /\ UNCHANGED <<late, faults>>

WriteMisses(x) ==
    /\ ~Reaches(x) /\ NothingLands
    /\ \E result \in Missed(x.kind) : Answer(result)
    /\ UNCHANGED <<late, faults>>

(* An Agent that is busy, not supported, displaced by another process or   *)
(* not started in time.                                                    *)
WriteDeclined(x) ==
    /\ x.kind = "agent-message" /\ NothingLands
    /\ \E result \in {"declined", "refused", "unknown"} : Answer(result)
    /\ UNCHANGED <<late, faults>>

(* The pane cannot be looked up before the write.                          *)
WriteUnprobed(x) ==
    /\ "probe" \in Fault /\ faults < MaxFaults /\ faults' = faults + 1
    /\ x.kind \in {"raw", "agent-message"} /\ NothingLands
    /\ \E result \in Missed(x.kind) \ {"gone"} : Answer(result)
    /\ UNCHANGED late

(* No answer: the write landed, did not, or is still on its way.           *)
WriteUnconfirmed(x) ==
    /\ "write" \in Fault /\ faults < MaxFaults /\ faults' = faults + 1
    /\ Answer(IF x.kind = "lifecycle-kill" THEN "failed" ELSE "unknown")
    /\ \/ Reaches(x) /\ Land(x) /\ UNCHANGED late
       \/ NothingLands /\ UNCHANGED late
       \/ /\ x.kind \in {"raw", "agent-message"} /\ Reaches(x)
          /\ NothingLands /\ late' = late \cup {x}

BackendWrite ==
    /\ call.stage = "accepted"
    /\ LET x == Sent(call.target)
       IN  \/ WriteLands(x) \/ WriteMisses(x) \/ WriteDeclined(x)
           \/ WriteUnprobed(x) \/ WriteUnconfirmed(x)
    /\ UNCHANGED <<epoch, targets, producer, up>>

(* A write that outlived its caller: raw bytes still pass the fence inside *)
(* tmux, an Agent message only needs its pane.                             *)
LateLand(x) ==
    /\ late' = late \ {x}
    /\ IF /\ tmux.up /\ tmux.incarnation = x.incarnation
          /\ x.kind = "raw" => Fenced(x)
         THEN Land(x) ELSE NothingLands
    /\ UNCHANGED <<epoch, targets, producer, up, call, faults>>

-----------------------------------------------------------------------------
(* The disposition of the operation is made durable.                       *)

Cleared(r) == [r EXCEPT !.inFlight = NoOperation]

(* A failed kill is cleared if the target is provably still there.         *)
Disposed(w, result) ==
    CASE result = "committed" ->
           {[w EXCEPT !.rec = IF @.inFlight.kind = "lifecycle-kill"
                                THEN invalidateTarget(Settled(@, "committed"))
                                ELSE Settled(@, "committed")]}
      [] result = "declined" -> {[w EXCEPT !.rec = Cleared(@)]}
      [] result = "gone" -> {[w EXCEPT !.rec = invalidateTarget(@)]}
      [] result = "refused" ->
           {[w EXCEPT !.rec = markRecovery(Cleared(@),
                                           "BACKEND_IDENTITY_UNCERTAIN")]}
      [] result = "unknown" ->
           {[w EXCEPT !.rec = markRecovery(@, "OPERATION_IN_DOUBT")]}
      [] result = "failed" ->
           {[p.w EXCEPT !.rec = IF p.answer = "current" THEN Cleared(@)
                                ELSE markRecovery(@, "OPERATION_IN_DOUBT")] :
              p \in Probes(w)}

FinishCall ==
    LET t == call.target
    IN  /\ call.stage = "answered" /\ call' = IdleCall
        /\ \E w \in Disposed(World(t), call.result) :
             \/ /\ targets' = [targets EXCEPT ![t] = w.rec]
                /\ faults' = w.faults
             \/ /\ CanFail(w, "save") /\ faults' = w.faults + 1
                /\ UNCHANGED targets
        /\ UNCHANGED <<epoch, tmux, producer, up, late, landed, replayed>>

-----------------------------------------------------------------------------
(* The daemon and its surroundings.                                        *)

Crash ==
    /\ up /\ "crash" \in Fault /\ faults < MaxFaults /\ faults' = faults + 1
    /\ up' = FALSE /\ call' = IdleCall
    /\ producer' = [t \in Target |-> None]
    /\ late' \in {late} \cup
         {late \cup {x} : x \in {Sent(t) : t \in {call.target} \ {None}}}
    /\ call.stage # "accepted" => late' = late
    /\ UNCHANGED <<epoch, targets, tmux, landed, replayed>>

\* Mutant: the open operation is dropped with its lease.
Continued_forgets(r) ==
    IF r.lifecycle # "ACTIVE" \/ r.own.state = "FREE" THEN r
    ELSE markRecovery(Cleared(r), "CONTROLLER_RESTARTED")

(* initializeContinuity of one record *)
Continued(r) ==
    IF r.lifecycle # "ACTIVE" THEN r
    ELSE IF Pending(r) THEN markRecovery(r, "OPERATION_IN_DOUBT")
    ELSE IF r.own.state = "DRAINING" THEN markRecovery(r, "DRAIN_UNCERTAIN")
    ELSE IF r.own.state = "HELD" THEN markRecovery(r, "CONTROLLER_RESTARTED")
    ELSE r

Start ==
    /\ ~up /\ up' = TRUE
    /\ epoch' = epoch + 1
    /\ targets' = [t \in Target |-> Continued(targets[t])]
    /\ UNCHANGED <<tmux, producer, call, late, landed, replayed, faults>>

LeaseExpires(t) ==
    /\ targets[t].own.state # "FREE" /\ ~targets[t].own.expired
    /\ targets' = [targets EXCEPT ![t].own.expired = TRUE]
    /\ UNCHANGED <<epoch, tmux, producer, up, call, late, landed, replayed,
                   faults>>

Surroundings(m) ==
    /\ tmux' = m
    /\ UNCHANGED <<epoch, targets, producer, up, call, late, landed, replayed>>

SessionEnds ==
    /\ tmux.up /\ tmux.incarnation < MaxSessions
    /\ Surroundings([tmux EXCEPT !.up = FALSE]) /\ UNCHANGED faults

SessionRecreated ==
    /\ ~tmux.up /\ tmux.incarnation < MaxSessions
    /\ Surroundings([up |-> TRUE, incarnation |-> tmux.incarnation + 1,
                     gen |-> NoGen, pipe |-> FALSE, made |-> tmux.made])
    /\ UNCHANGED faults

PipeStops ==
    /\ "pipe" \in Fault /\ faults < MaxFaults /\ faults' = faults + 1
    /\ tmux.pipe /\ Surroundings([tmux EXCEPT !.pipe = FALSE])

Request(t) ==
    \/ ResolveTarget(t) \/ Status(t) \/ Acquire(t) \/ Renew(t) \/ Release(t)
    \/ BeginHandoff(t) \/ CommitHandoff(t) \/ CancelHandoff(t)
    \/ WithdrawHandoff(t) \/ ForceHandoff(t) \/ TailOutput(t)
    \/ ReadWithLease(t) \/ ExecuteInput(t) \/ ExecuteLifecycleKill(t)

Next ==
    \/ \E t \in Target : Request(t) \/ LeaseExpires(t)
    \/ BackendWrite \/ FinishCall
    \/ \E x \in late : LateLand(x)
    \/ Crash \/ Start
    \/ SessionEnds \/ SessionRecreated \/ PipeStops

Spec == Init /\ [][Next]_vars

(* The daemon is restarted after it dies, a tmux command and a save return *)
(* eventually, and some client keeps polling each target.                  *)
FairSpec ==
    /\ Spec
    /\ WF_vars(Start) /\ WF_vars(BackendWrite) /\ WF_vars(FinishCall)
    /\ \A t \in Target : WF_vars(Status(t))

-----------------------------------------------------------------------------
(* Properties. *)

(* Every record the authority saves passes the validation of the store, so *)
(* no handler can write a state file that the next load refuses (isTarget, *)
(* store.ts).                                                              *)
StoreReadable == \A t \in Target : isTarget(targets[t])

(* The write under way belongs to the lease that is current: it was made   *)
(* durable first, and the lease cannot change hands before its end         *)
(* (executeInput and executeLifecycleKill under the store lock).           *)
CallIsDurable ==
    call.stage # "idle" =>
        LET r == targets[call.target]
        IN  /\ up /\ r.lifecycle = "ACTIVE" /\ Pending(r)
            /\ r.own.state = "HELD" /\ r.own.fence = r.inFlight.fence

(* No operation reaches a pane twice, whatever crashes, is retried, is     *)
(* answered too late or not saved (existingOperation and the durable       *)
(* in-flight mark), unless a full journal has forgotten it.                *)
AtMostOnce == \A p \in replayed : p[2] \in targets[p[1]].dropped

(* Under one fence all input comes from one owner instance: the registry   *)
(* of interactive producers lives in memory, and no restart, handoff or    *)
(* failed release lets a second producer write under the same fence        *)
(* (registerInteractiveOwner).                                             *)
SingleProducer ==
    \A g, h \in landed :
        (/\ g.target = h.target /\ g.fence = h.fence
         /\ "lifecycle-kill" \notin {g.kind, h.kind}) => g.owner = h.owner

(* A target that lost a Feishu owner or has an operation in doubt is never *)
(* operable again without an operator's handoff.force; neither polling nor *)
(* restarts resume it (isAutoRecoverableNonFeishuState,                    *)
(* initializeContinuity).  The exact-target path of the Relay, which       *)
(* reopens over its own Agent message in doubt, is outside this module.    *)
NoSilentResume ==
    \A t \in Target :
        targets[t].lifecycle = "ACTIVE" =>
            targets[t].pinned \cap {"feishu", "in-doubt"} = {}

(* A session name has one live record: resolving a recreated session       *)
(* retires every record of its earlier incarnations, the fenced ones too,  *)
(* in the save that mints the new one (resolveTarget).                     *)
OneTargetPerName ==
    \A t, u \in Target :
        {targets[t].lifecycle, targets[u].lifecycle}
            \subseteq {"ACTIVE", "RECOVERY_REQUIRED"} => t = u

(* Raw bytes never reach a pane while a later lease holds it, even when    *)
(* they arrive after their daemon has died: every regrant rotates the      *)
(* generation the bytes are fenced by (writeRawFenced, resetOutput,        *)
(* recoverOutput).                                                         *)
ForeignRawStep ==
    \A h \in landed' \ landed :
       h.kind = "raw" =>
           \/ targets[h.target].own.state = "FREE"
           \/ targets[h.target].own.fence = h.fence

NoForeignRawWrite == [][ForeignRawStep]_vars

(* An operation recorded as in doubt stays recorded until its target is    *)
(* gone, however full the journal is (appendOperation).                    *)
InDoubtStep ==
    \A t \in Target : \A i \in DOMAIN targets[t].journal :
       targets[t].journal[i].disposition = "in-doubt" =>
           \/ targets'[t].lifecycle = "TARGET_GONE"
           \/ \E k \in DOMAIN targets'[t].journal :
                  targets'[t].journal[k] = targets[t].journal[i]

InDoubtKept == [][InDoubtStep]_vars

(* A fence names one ownership: it never decreases, an ownership that ends *)
(* never comes back under its fence, and a retired target stays retired    *)
(* (nextDecimal at every grant, release, recovery and invalidation).       *)
FenceStep ==
    \A t \in Target :
       LET o == targets[t].own
           n == targets'[t].own
       IN  /\ n.fence >= o.fence
           /\ n.fence = o.fence => (n.owner = o.owner)
           /\ targets[t].lifecycle = "TARGET_GONE" =>
                  targets'[t].lifecycle = "TARGET_GONE"

FenceNamesOneOwner == [][FenceStep]_vars

(* A fenced target whose session lives can be recovered explicitly: tmux   *)
(* carries the generation the record names, or the one its recovery plans  *)
(* (forceHandoff, recoverOutput).                                          *)
ExplicitRecoveryPossible ==
    \A t \in Target :
        (targets[t].lifecycle = "RECOVERY_REQUIRED" /\ Current(t) /\ tmux.pipe)
        => tmux.gen \in {NoGen, targets[t].gen,
                         plannedOutputRecoveryGeneration(targets[t])}

(* An expired lease is taken back by polling alone; nobody has to acquire  *)
(* the target first (reconcileAbandonedOwnership).                         *)
ExpiredLeaseEnds ==
    \A t \in Target :
        leaseExpired(targets[t]) ~> ~leaseExpired(targets[t])

(* A target that an interactive owner abandoned does not stay fenced while *)
(* its session lives and tmux carries the recorded generation: polling     *)
(* reopens it (reconcileAbandonedOwnership).                               *)
Abandoned(t) == /\ isAutoRecoverableNonFeishuState(targets[t])
                /\ tmux.gen \in {NoGen, targets[t].gen}

AbandonedTargetReopens == \A t \in Target : Abandoned(t) ~> ~Abandoned(t)
=============================================================================
