---------------------------- MODULE ControlRecord ----------------------------
(***************************************************************************)
(* The durable record of one terminal-control target and the pure          *)
(* functions terminalControl/authority.ts and terminalControl/store.ts     *)
(* apply to it.                                                            *)
(*                                                                         *)
(* A leaseId is minted exactly when the ownership fence advances, so the   *)
(* fence stands for it.  The clock is the flag "expired" of an ownership.  *)
(* An optional field of the JSON record is present when its id, reason or  *)
(* owner is not None.                                                      *)
(***************************************************************************)
EXTENDS Naturals, Sequences, SequencesExt

CONSTANTS
    Owner,          \* owner instances: Feishu daemons, dashboards, CLIs, relays
    kindOf,         \* their kinds
    OpId,           \* operation ids chosen by clients
    JournalCap,     \* MAX_COMPLETED_OPERATIONS
    None

OwnerKind == {"feishu", "dashboard", "local-cli", "relay-v2", "tw-serve"}

OpKind == {"raw", "agent-message", "resize", "scroll", "lifecycle-kill"}

RecoveryReason ==
    {"CONTROLLER_RESTARTED", "LEASE_EXPIRED", "OPERATION_IN_DOUBT",
     "DRAIN_UNCERTAIN", "BACKEND_IDENTITY_UNCERTAIN",
     "OUTPUT_CONTINUITY_UNCERTAIN"}

ASSUME RecordAssumption ==
    /\ kindOf \in [Owner -> OwnerKind]
    /\ None \notin Owner \cup OpId \cup OwnerKind \cup RecoveryReason
    /\ JournalCap \in Nat

(* An output generation: <<0, n>> is the n-th random one, <<i, f>> the one *)
(* derived from the recovery record of incarnation i at fence f.           *)
Generation == Nat \X Nat

NoOperation == [id |-> None, kind |-> "raw", owner |-> None, fence |-> 0,
                gen |-> <<0, 0>>]

InFlight == [id : OpId, kind : OpKind, owner : Owner, fence : Nat,
             gen : Generation]

Completed == [id : OpId, kind : OpKind, owner : Owner, fence : Nat,
              disposition : {"committed", "in-doubt"}]

Ownership == [state : {"FREE", "HELD", "DRAINING"}, fence : Nat,
              owner : Owner \cup {None}, expired : BOOLEAN,
              next : Owner \cup {None}]

Recovery == [reason : RecoveryReason \cup {None},
             previousOwnerKind : OwnerKind \cup {None},
             operationId : OpId \cup {None}]

NoRecovery ==
    [reason |-> None, previousOwnerKind |-> None, operationId |-> None]

(* "UNUSED" is an id that has not been minted yet.  "handoffs" counts the  *)
(* handoffs begun, the last one is the current handoffId.  Two fields are  *)
(* history of the model: "pinned" is why the last recovery may not be left *)
(* without an operator, "dropped" the ids a full journal has forgotten.    *)
TargetRecord ==
    [lifecycle : {"UNUSED", "ACTIVE", "RECOVERY_REQUIRED", "TARGET_GONE"},
     incarnation : Nat, gen : Generation, own : Ownership,
     inFlight : InFlight \cup {NoOperation}, journal : Seq(Completed),
     recovery : Recovery, handoffs : Nat,
     pinned : SUBSET {"feishu", "in-doubt", "drain"},
     dropped : SUBSET OpId]

Free(f) == [state |-> "FREE", fence |-> f, owner |-> None,
            expired |-> FALSE, next |-> None]

Held(f, o) == [state |-> "HELD", fence |-> f, owner |-> o,
               expired |-> FALSE, next |-> None]

NewRecord(i, g) ==
    [lifecycle |-> "ACTIVE", incarnation |-> i, gen |-> g, own |-> Free(0),
     inFlight |-> NoOperation, journal |-> <<>>, recovery |-> NoRecovery,
     handoffs |-> 0, pinned |-> {}, dropped |-> {}]

Unused == [NewRecord(0, <<0, 0>>) EXCEPT !.lifecycle = "UNUSED"]

-----------------------------------------------------------------------------
isInteractiveOwner(o) == kindOf[o] # "feishu"

sameInputOwnerClass(a, b) ==
    (isInteractiveOwner(a) /\ isInteractiveOwner(b)) \/ a = b

Pending(r) == r.inFlight.id # None

leaseExpired(r) == r.own.state # "FREE" /\ r.own.expired

Operable(r) == r.lifecycle = "ACTIVE" /\ ~Pending(r)

isAbandonableNonFeishuLease(r) ==
    /\ r.lifecycle = "ACTIVE" /\ r.own.state = "HELD"
    /\ isInteractiveOwner(r.own.owner)
    /\ ~Pending(r)

\* Mutant: the previous owner is not looked at.
isAutoRecoverableNonFeishuState_anyOwner(r) ==
    /\ r.lifecycle = "RECOVERY_REQUIRED" /\ ~Pending(r)
    /\ r.recovery.operationId = None
    /\ r.recovery.reason \notin {"OPERATION_IN_DOUBT", "DRAIN_UNCERTAIN"}

isAutoRecoverableNonFeishuState(r) ==
    /\ r.lifecycle = "RECOVERY_REQUIRED" /\ ~Pending(r)
    /\ r.recovery.previousOwnerKind # "feishu"
    /\ r.recovery.operationId = None
    /\ r.recovery.reason \notin {"OPERATION_IN_DOUBT", "DRAIN_UNCERTAIN"}

(* The generation a recovery installs is a hash of the durable record, so  *)
(* every retry of one recovery computes the same one.                      *)
plannedOutputRecoveryGeneration(r) == <<r.incarnation, r.own.fence>>

JournalIds(r) == {r.journal[i].id : i \in DOMAIN r.journal}

\* Mutant: the oldest entry makes room, whatever its disposition.
appendOperation_dropsOldest(journal, entry) ==
    LET full == Append(journal, entry)
    IN  IF Len(full) <= JournalCap THEN full ELSE Tail(full)

(* The journal keeps JournalCap operations: the oldest committed one makes *)
(* room, uncertain ones never do.                                          *)
appendOperation(journal, entry) ==
    LET full == Append(journal, entry)
        removable == {i \in DOMAIN full : full[i].disposition = "committed"}
    IN  IF Len(full) <= JournalCap \/ removable = {} THEN full
        ELSE RemoveAt(full, CHOOSE i \in removable :
                                \A k \in removable : i <= k)

\* Mutant: the in-flight record is journaled as it stands.
Entry_asInFlight(op, disposition) == op

Entry(op, disposition) ==
    [id |-> op.id, kind |-> op.kind, owner |-> op.owner, fence |-> op.fence,
     disposition |-> disposition]

(* The operation in flight becomes the newest entry of the journal, with   *)
(* disposition d.                                                          *)
Settled(r, d) ==
    LET full == appendOperation(r.journal, Entry(r.inFlight, d))
        kept == {full[i].id : i \in DOMAIN full}
    IN  [r EXCEPT !.journal = full, !.inFlight = NoOperation,
                  !.dropped = @ \cup ((JournalIds(r) \cup {r.inFlight.id}) \ kept)]

\* Mutant: the in-flight mark is not cleared.
completeInFlightAsInDoubt_keepsMark(r) ==
    IF ~Pending(r) THEN r
    ELSE [Settled(r, "in-doubt") EXCEPT !.inFlight = r.inFlight]

completeInFlightAsInDoubt(r) ==
    IF ~Pending(r) THEN r ELSE Settled(r, "in-doubt")

(* The operation id passed in the options is always the one in flight.     *)
markRecovery(r, reason) ==
    LET kind == IF r.own.state = "FREE" THEN r.recovery.previousOwnerKind
                ELSE kindOf[r.own.owner]
    IN  [completeInFlightAsInDoubt(r) EXCEPT
            !.lifecycle = "RECOVERY_REQUIRED",
            !.own = Free(r.own.fence + 1),
            !.recovery = [reason |-> reason, previousOwnerKind |-> kind,
                          operationId |-> r.inFlight.id],
            !.pinned = (IF kind = "feishu" THEN {"feishu"} ELSE {})
                  \cup (IF Pending(r) THEN {"in-doubt"} ELSE {})
                  \cup (IF r.own.state = "DRAINING" THEN {"drain"} ELSE {})]

invalidateTarget(r) ==
    [r EXCEPT !.lifecycle = "TARGET_GONE", !.own = Free(r.own.fence + 1),
              !.inFlight = NoOperation, !.recovery = NoRecovery,
              !.journal = <<>>, !.pinned = {}]

(* What isTarget of store.ts demands of a record before it is written and  *)
(* after it is read: a record that fails it makes the whole state file     *)
(* unusable.                                                               *)
isTarget(r) ==
    /\ \A i, k \in DOMAIN r.journal : r.journal[i].id = r.journal[k].id => i = k
    /\ Pending(r) => r.inFlight.id \notin JournalIds(r)
    /\ (r.lifecycle = "RECOVERY_REQUIRED") <=> (r.recovery.reason # None)
    /\ r.lifecycle # "ACTIVE" => r.own.state = "FREE"
    /\ r.own.state # "FREE" => r.own.owner # None
    /\ r.own.state = "DRAINING" => r.own.next # None
=============================================================================
