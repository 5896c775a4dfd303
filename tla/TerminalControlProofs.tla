------------------------ MODULE TerminalControlProofs ------------------------
(***************************************************************************)
(* Every request, whatever its faults, leaves a well-typed record that the *)
(* store accepts and that may follow the record it loaded: the fence       *)
(* advances with the owner, a retired target stays retired, what is in     *)
(* doubt is kept, no operation is forgotten but by a full journal, and     *)
(* nothing pinned is reopened.  A write under way always belongs to a      *)
(* durable in-flight mark of the current lease, and a session name has one *)
(* live record.                                                            *)
(*                                                                         *)
(* The proof follows the handlers: each shared step maps a good world, one *)
(* whose records may follow the loaded record and whose producer may       *)
(* follow the registered one, to good outcomes, each handler is a          *)
(* composition of such steps, and each action installs one of its          *)
(* handler's outcomes.  From what the actions install follows what the     *)
(* panes may have seen: no operation twice, and under one fence one owner. *)
(***************************************************************************)
EXTENDS TerminalControl, SequenceTheorems, WellFoundedInduction, TLAPS

-----------------------------------------------------------------------------
(* What the record functions of ControlRecord preserve: a record of the    *)
(* right type that passes the store's validation becomes one again, and    *)
(* one that may follow it: its fence advances with its owner, it stays     *)
(* retired, it keeps what is in doubt, and it knows every operation the    *)
(* earlier one knew or had in flight.                                      *)

(* An unminted record is empty, an active one has nothing pinned, and a    *)
(* pin of a fenced one is visible to isAutoRecoverableNonFeishuState.      *)
Honest(r) ==
    /\ r.lifecycle = "UNUSED" =>
         /\ r.own = Free(0) /\ r.journal = <<>> /\ r.dropped = {}
         /\ ~Pending(r)
    /\ r.lifecycle = "ACTIVE" => r.pinned \cap {"feishu", "in-doubt"} = {}
    /\ r.lifecycle = "RECOVERY_REQUIRED" =>
         /\ "feishu" \in r.pinned => r.recovery.previousOwnerKind = "feishu"
         /\ "in-doubt" \in r.pinned => r.recovery.operationId # None

Record == {r \in TargetRecord : isTarget(r) /\ Honest(r)}

(* Journal k still holds what is in doubt in journal j.                    *)
Keeps(j, k) ==
    \A i \in DOMAIN j :
        j[i].disposition = "in-doubt" => \E m \in DOMAIN k : k[m] = j[i]

(* An ownership that may come after another one.                           *)
Succeeds(o, n) ==
    /\ n.fence >= o.fence
    /\ n.fence = o.fence => n.owner = o.owner /\ (n.state = "FREE" <=> o.state = "FREE")

(* The operations a record can tell were completed, or has forgotten.      *)
Known(r) == JournalIds(r) \cup r.dropped

(* Record q may come after record r.                                       *)
Succession(r, q) ==
    /\ Succeeds(r.own, q.own)
    /\ r.lifecycle = "TARGET_GONE" => q.lifecycle = "TARGET_GONE"
    /\ q.lifecycle # "TARGET_GONE" => Keeps(r.journal, q.journal)
    /\ q.lifecycle # "TARGET_GONE" => Known(r) \subseteq Known(q)
    /\ r.dropped \subseteq q.dropped
    /\ r.lifecycle # "UNUSED" => q.incarnation = r.incarnation

(* And what r has in flight is still there, or known.                      *)
Minds(r, q) ==
    Pending(r) /\ q.lifecycle # "TARGET_GONE" =>
        q.inFlight = r.inFlight \/ r.inFlight.id \in Known(q)

Follows(r, q) == Succession(r, q) /\ Minds(r, q)

(* The fences of two readable records are numbers.                         *)
LEMMA Fences ==
    ASSUME NEW r \in TargetRecord
    PROVE  r.own.fence \in Nat /\ r.own \in Ownership
  BY DEF TargetRecord, Ownership

(* A record that keeps its owner, its journal and what is in flight.       *)
LEMMA FollowsAlike ==
    ASSUME NEW r \in TargetRecord, NEW q \in TargetRecord, Succeeds(r.own, q.own),
           q.journal = r.journal, q.dropped = r.dropped,
           q.incarnation = r.incarnation,
           r.lifecycle = "TARGET_GONE" => q.lifecycle = "TARGET_GONE"
    PROVE  /\ Succession(r, q)
           /\ q.inFlight = r.inFlight \/ ~Pending(r) => Follows(r, q)
<1>1. Keeps(r.journal, q.journal)
  BY DEF Keeps
<1>2. Known(q) = Known(r)
  BY DEF Known, JournalIds
<1>3. QED
  BY <1>1, <1>2 DEF Follows, Succession, Minds

(* A record follows itself.                                                *)
LEMMA FollowsItself ==
    ASSUME NEW r \in TargetRecord
    PROVE  Follows(r, r)
<1>1. Succeeds(r.own, r.own)
  BY Fences DEF Succeeds
<1>2. QED
  BY <1>1, FollowsAlike

(* What succeeds a later record succeeds the earlier one.                  *)
LEMMA SuccessionOn ==
    ASSUME NEW r \in TargetRecord, NEW q \in TargetRecord, NEW s \in TargetRecord,
           Succession(r, q), Succession(q, s), q.lifecycle # "UNUSED"
    PROVE  Succession(r, s)
<1>1. Succeeds(r.own, s.own)
  BY Fences DEF Succession, Succeeds
<1>2. ASSUME s.lifecycle # "TARGET_GONE"
      PROVE  Keeps(r.journal, s.journal) /\ Known(r) \subseteq Known(s)
  <2>1. /\ Keeps(r.journal, q.journal) /\ Keeps(q.journal, s.journal)
        /\ Known(r) \subseteq Known(q) /\ Known(q) \subseteq Known(s)
    BY <1>2 DEF Succession
  <2>2. Keeps(r.journal, s.journal)
    BY <2>1 DEF Keeps
  <2>3. QED
    BY <2>1, <2>2
<1>3. QED
  BY <1>1, <1>2 DEF Succession

(* What follows a later record follows the earlier one.                    *)
LEMMA FollowsOn ==
    ASSUME NEW r \in TargetRecord, NEW q \in TargetRecord, NEW s \in TargetRecord,
           Follows(r, q), Follows(q, s), q.lifecycle # "UNUSED"
    PROVE  Follows(r, s)
<1>1. Succession(r, s)
  BY SuccessionOn DEF Follows
<1>2. Minds(r, s)
  <2>1. SUFFICES ASSUME Pending(r), s.lifecycle # "TARGET_GONE"
                 PROVE  s.inFlight = r.inFlight \/ r.inFlight.id \in Known(s)
    BY DEF Minds
  <2>2. q.lifecycle # "TARGET_GONE" /\ Known(q) \subseteq Known(s)
    BY <2>1 DEF Follows, Succession
  <2>3. CASE q.inFlight = r.inFlight
    BY <2>1, <2>3 DEF Follows, Minds, Pending
  <2>4. CASE r.inFlight.id \in Known(q)
    BY <2>2, <2>4
  <2>5. QED
    BY <2>1, <2>2, <2>3, <2>4 DEF Follows, Minds
<1>3. QED
  BY <1>1, <1>2 DEF Follows

UniqueIds(s) == \A i, k \in DOMAIN s : s[i].id = s[k].id => i = k

Ids(s) == {s[i].id : i \in DOMAIN s}

(* Every nonempty set of naturals has a least element.                     *)
LEMMA SmallestExists ==
    ASSUME NEW S \in SUBSET Nat, S # {}
    PROVE  \E m \in S : \A k \in S : m <= k
<1>1. PICK m \in S : \A k \in S : ~(<<k, m>> \in OpToRel(<, Nat))
  BY NatLessThanWellFounded, WFMin
<1>2. ASSUME NEW k \in S PROVE m <= k
  <2>1. m \in Nat /\ k \in Nat
    OBVIOUS
  <2>2. ~(k < m)
    BY <1>1, <2>1 DEF OpToRel
  <2>3. QED
    BY <2>1, <2>2
<1>3. QED
  BY <1>2

(* Removing an entry of the journal keeps its type, its uniqueness and     *)
(* adds no id (RemoveAt as appendOperation uses it).                       *)
LEMMA RemoveAtJournal ==
    ASSUME NEW s \in Seq(Completed), NEW n \in DOMAIN s, UniqueIds(s)
    PROVE  /\ RemoveAt(s, n) \in Seq(Completed)
           /\ UniqueIds(RemoveAt(s, n))
           /\ Ids(RemoveAt(s, n)) \subseteq Ids(s)
           /\ \A i \in DOMAIN s \ {n} :
                 \E k \in DOMAIN RemoveAt(s, n) : RemoveAt(s, n)[k] = s[i]
<1> DEFINE a == SubSeq(s, 1, n - 1)
           b == SubSeq(s, n + 1, Len(s))
           q == a \o b
           pos(i) == IF i <= n - 1 THEN i ELSE i + 1
<1>1. n \in 1..Len(s) /\ Len(s) \in Nat
  OBVIOUS
<1>2. a \in Seq(Completed) /\ Len(a) = n - 1
      /\ \A i \in 1..(n - 1) : a[i] = s[i]
  BY <1>1
<1>3. b \in Seq(Completed) /\ Len(b) = Len(s) - n
      /\ \A i \in 1..(Len(s) - n) : b[i] = s[i + n]
  BY <1>1
<1>4. /\ q \in Seq(Completed) /\ Len(q) = Len(s) - 1 /\ DOMAIN q = 1..(Len(s) - 1)
      /\ \A i \in 1..(Len(s) - 1) :
            q[i] = IF i <= n - 1 THEN a[i] ELSE b[i - (n - 1)]
  <2> HIDE DEF a, b
  <2>1. /\ q \in Seq(Completed) /\ Len(q) = Len(a) + Len(b)
        /\ \A i \in 1..(Len(a) + Len(b)) :
              q[i] = IF i <= Len(a) THEN a[i] ELSE b[i - Len(a)]
    BY <1>2, <1>3, ConcatProperties
  <2> HIDE DEF q
  <2>2. Len(a) + Len(b) = Len(s) - 1 /\ Len(a) = n - 1
    BY <1>1, <1>2, <1>3
  <2>3. DOMAIN q = 1..Len(q)
    BY <2>1
  <2>4. QED
    BY <2>1, <2>2, <2>3
<1>5. ASSUME NEW i \in DOMAIN q
      PROVE  pos(i) \in DOMAIN s /\ q[i] = s[pos(i)]
  <2> HIDE DEF a, b, q
  <2>1. i \in 1..(Len(s) - 1) /\ i \in Nat /\ n \in Nat /\ DOMAIN s = 1..Len(s)
    BY <1>1, <1>4
  <2>2. CASE i <= n - 1
    BY <1>1, <1>2, <1>4, <2>1, <2>2
  <2>3. CASE ~(i <= n - 1)
    <3>1. i - (n - 1) \in 1..(Len(s) - n) /\ (i - (n - 1)) + n = i + 1
      BY <1>1, <2>1, <2>3
    <3>2. q[i] = b[i - (n - 1)] /\ b[i - (n - 1)] = s[(i - (n - 1)) + n]
      BY <1>3, <1>4, <2>1, <2>3, <3>1
    <3>3. QED
      BY <1>1, <2>1, <2>3, <3>1, <3>2
  <2>4. QED
    BY <2>2, <2>3
<1>6. \A i, k \in DOMAIN q : pos(i) = pos(k) => i = k
  BY <1>1, <1>4
<1>7. UniqueIds(q)
  <2> HIDE DEF pos, q
  <2>1. ASSUME NEW i \in DOMAIN q, NEW k \in DOMAIN q, q[i].id = q[k].id
        PROVE  i = k
    <3>1. s[pos(i)].id = s[pos(k)].id /\ pos(i) \in DOMAIN s /\ pos(k) \in DOMAIN s
      BY <1>5, <2>1
    <3>2. pos(i) = pos(k)
      BY <3>1 DEF UniqueIds
    <3>3. QED
      BY <1>6, <3>2
  <2>2. QED
    BY <2>1 DEF UniqueIds
<1>8. Ids(q) \subseteq Ids(s)
  BY <1>5 DEF Ids
<1>9. RemoveAt(s, n) = q
  BY DEF RemoveAt
<1>10. ASSUME NEW i \in DOMAIN s \ {n}
       PROVE  \E k \in DOMAIN q : q[k] = s[i]
  <2> HIDE DEF a, b, q
  <2>1. i \in 1..Len(s) /\ i # n /\ i \in Nat /\ n \in Nat
    BY <1>1
  <2>2. CASE i < n
    <3>1. i \in DOMAIN q /\ pos(i) = i
      BY <1>1, <1>4, <2>1, <2>2
    <3>2. QED
      BY <1>5, <3>1
  <2>3. CASE i > n
    <3>1. i - 1 \in DOMAIN q /\ pos(i - 1) = i
      BY <1>1, <1>4, <2>1, <2>3
    <3>2. QED
      BY <1>5, <3>1
  <2>4. QED
    BY <2>1, <2>2, <2>3
<1>11. QED
  <2> HIDE DEF a, b, q, pos
  <2>1. QED
    BY <1>4, <1>7, <1>8, <1>9, <1>10

(* A new entry leaves the journal well formed, and what is in doubt in it  *)
(* (appendOperation).                                                      *)
LEMMA AppendOperationJournal ==
    ASSUME NEW s \in Seq(Completed), NEW e \in Completed,
           UniqueIds(s), e.id \notin Ids(s)
    PROVE  /\ appendOperation(s, e) \in Seq(Completed)
           /\ UniqueIds(appendOperation(s, e))
           /\ Ids(appendOperation(s, e)) \subseteq Ids(s) \cup {e.id}
           /\ Keeps(s, appendOperation(s, e))
<1> DEFINE full == Append(s, e)
           removable == {i \in DOMAIN full : full[i].disposition = "committed"}
           first == CHOOSE i \in removable : \A k \in removable : i <= k
<1>1. full \in Seq(Completed) /\ Len(full) = Len(s) + 1
      /\ DOMAIN full = 1..(Len(s) + 1) /\ DOMAIN s = 1..Len(s) /\ Len(s) \in Nat
      /\ full[Len(s) + 1] = e /\ \A i \in DOMAIN s : full[i] = s[i]
  OBVIOUS
<1>2. UniqueIds(full)
  BY <1>1 DEF UniqueIds, Ids
<1>3. Ids(full) \subseteq Ids(s) \cup {e.id}
  BY <1>1 DEF Ids
<1>4. CASE Len(full) <= JournalCap \/ removable = {}
  <2>1. appendOperation(s, e) = full
    BY <1>4 DEF appendOperation
  <2> HIDE DEF full, removable
  <2>2. Keeps(s, full)
    BY <1>1 DEF Keeps
  <2>3. QED
    BY <1>1, <1>2, <1>3, <2>1, <2>2
<1>5. CASE ~(Len(full) <= JournalCap \/ removable = {})
  <2>1. appendOperation(s, e) = RemoveAt(full, first)
    BY <1>5 DEF appendOperation
  <2>2. first \in removable
    <3>1. PICK m \in removable : \A k \in removable : m <= k
      <4>1. removable \subseteq Nat /\ removable # {}
        BY <1>1, <1>5
      <4>2. QED
        BY <4>1, SmallestExists
    <3>2. QED
      BY <3>1
  <2>3. first \in DOMAIN full /\ full[first].disposition = "committed"
    BY <2>2
  <2> HIDE DEF full, first
  <2>4. Keeps(s, RemoveAt(full, first))
    <3>1. ASSUME NEW i \in DOMAIN s, s[i].disposition = "in-doubt"
          PROVE  \E k \in DOMAIN RemoveAt(full, first) :
                    RemoveAt(full, first)[k] = s[i]
      <4>1. i \in DOMAIN full /\ full[i] = s[i]
        BY <1>1
      <4>2. i \in DOMAIN full \ {first}
        BY <2>3, <3>1, <4>1
      <4>3. \A k \in DOMAIN full \ {first} :
               \E m \in DOMAIN RemoveAt(full, first) :
                  RemoveAt(full, first)[m] = full[k]
        BY <1>1, <1>2, <2>3, RemoveAtJournal
      <4>4. QED
        BY <4>1, <4>2, <4>3
    <3>2. QED
      BY <3>1 DEF Keeps
  <2>5. QED
    BY <1>1, <1>2, <1>3, <2>1, <2>3, <2>4, RemoveAtJournal
<1>6. QED
  BY <1>4, <1>5

-----------------------------------------------------------------------------
(* An operation in flight is a complete one.                               *)
LEMMA PendingIsInFlight ==
    ASSUME NEW r \in TargetRecord, Pending(r)
    PROVE  r.inFlight \in InFlight /\ r.inFlight.id \in OpId
  BY DEF TargetRecord, Pending, NoOperation, InFlight

(* The journal entry an operation in flight becomes (completeInFlight and  *)
(* the committed record of executeInput) keeps the record well formed.     *)
LEMMA SettledRecord ==
    ASSUME NEW r \in Record, r.lifecycle # "UNUSED", Pending(r),
           NEW d \in {"committed", "in-doubt"}
    PROVE  /\ Settled(r, d) \in Record /\ Follows(r, Settled(r, d))
           /\ Settled(r, d).lifecycle = r.lifecycle
           /\ Settled(r, d).own = r.own
           /\ ~Pending(Settled(r, d)) /\ r.inFlight.id \in Known(Settled(r, d))
<1> DEFINE e == Entry(r.inFlight, d)
           j == appendOperation(r.journal, e)
           n == r.dropped \cup ((JournalIds(r) \cup {r.inFlight.id})
                                  \ {j[i].id : i \in DOMAIN j})
           q == Settled(r, d)
<1>1. r \in TargetRecord /\ isTarget(r) /\ Honest(r)
  BY DEF Record
<1>2. r.journal \in Seq(Completed) /\ UniqueIds(r.journal)
  BY <1>1 DEF TargetRecord, isTarget, UniqueIds
<1>3. e \in Completed /\ e.id = r.inFlight.id
  BY <1>1, PendingIsInFlight DEF Entry, InFlight, Completed
<1>4. e.id \notin Ids(r.journal)
  BY <1>1, <1>3 DEF isTarget, JournalIds, Ids
<1>5. j \in Seq(Completed) /\ UniqueIds(j) /\ Keeps(r.journal, j)
  <2> HIDE DEF e
  <2>1. QED
    BY <1>2, <1>3, <1>4, AppendOperationJournal
<1>6. n \in SUBSET OpId
  <2>1. JournalIds(r) \subseteq OpId
    <3>1. \A i \in DOMAIN r.journal : r.journal[i] \in Completed
      BY <1>2
    <3>2. QED
      BY <3>1 DEF JournalIds, Completed
  <2>2. r.dropped \subseteq OpId /\ r.inFlight.id \in OpId
    BY <1>1, PendingIsInFlight DEF TargetRecord
  <2>3. QED
    BY <2>1, <2>2
<1>7. q = [r EXCEPT !.journal = j, !.inFlight = NoOperation, !.dropped = n]
  BY <1>1 DEF Settled, TargetRecord
<1> HIDE DEF j, e, n, q
<1>8. q \in TargetRecord
  BY <1>1, <1>5, <1>6, <1>7 DEF TargetRecord
<1>9. /\ q.journal = j /\ q.inFlight = NoOperation /\ q.dropped = n
      /\ q.lifecycle = r.lifecycle /\ q.own = r.own /\ q.recovery = r.recovery
      /\ q.pinned = r.pinned /\ q.incarnation = r.incarnation
  BY <1>1, <1>7 DEF TargetRecord
<1>10. ~Pending(q)
  BY <1>9 DEF Pending, NoOperation
<1>11. isTarget(q)
  BY <1>1, <1>5, <1>9, <1>10 DEF isTarget, UniqueIds
<1>12. Honest(q)
  BY <1>1, <1>9 DEF Honest
<1>13. /\ Known(r) \subseteq Known(q) /\ r.inFlight.id \in Known(q)
       /\ r.dropped \subseteq q.dropped
  BY <1>9 DEF Known, JournalIds, n
<1>14. Follows(r, q)
  <2>1. Succeeds(r.own, q.own)
    BY <1>1, <1>9, Fences DEF Succeeds
  <2>2. QED
    BY <1>5, <1>9, <1>13, <2>1 DEF Follows, Succession, Minds
<1>15. QED
  BY <1>8, <1>9, <1>10, <1>11, <1>12, <1>13, <1>14 DEF Record, q

(* completeInFlightAsInDoubt on any record.                                *)
LEMMA CompleteInFlight ==
    ASSUME NEW r \in Record, r.lifecycle # "UNUSED"
    PROVE  /\ completeInFlightAsInDoubt(r) \in Record
           /\ Follows(r, completeInFlightAsInDoubt(r))
           /\ completeInFlightAsInDoubt(r).lifecycle = r.lifecycle
           /\ completeInFlightAsInDoubt(r).own = r.own
           /\ ~Pending(completeInFlightAsInDoubt(r))
<1>1. CASE Pending(r)
  BY <1>1, SettledRecord DEF completeInFlightAsInDoubt
<1>2. CASE ~Pending(r)
  BY <1>2, FollowsItself DEF completeInFlightAsInDoubt, Record
<1>3. QED
  BY <1>1, <1>2

(* markRecovery fences whatever record it is given and leaves one that the *)
(* store accepts; over one that is not retired it is a successor.          *)
LEMMA MarkRecoveryRecord ==
    ASSUME NEW r \in Record, r.lifecycle # "UNUSED", NEW reason \in RecoveryReason
    PROVE  /\ markRecovery(r, reason) \in Record
           /\ r.lifecycle # "TARGET_GONE" => Follows(r, markRecovery(r, reason))
           /\ markRecovery(r, reason).lifecycle = "RECOVERY_REQUIRED"
           /\ markRecovery(r, reason).own.state = "FREE"
           /\ ~Pending(markRecovery(r, reason))
<1> DEFINE c == completeInFlightAsInDoubt(r)
           m == markRecovery(r, reason)
           kind == IF r.own.state = "FREE" THEN r.recovery.previousOwnerKind
                   ELSE kindOf[r.own.owner]
           why == [reason |-> reason, previousOwnerKind |-> kind,
                   operationId |-> r.inFlight.id]
           pins == (IF kind = "feishu" THEN {"feishu"} ELSE {})
                     \cup (IF Pending(r) THEN {"in-doubt"} ELSE {})
                     \cup (IF r.own.state = "DRAINING" THEN {"drain"} ELSE {})
<1>1. r \in TargetRecord /\ isTarget(r) /\ Honest(r)
  BY DEF Record
<1>2. /\ c \in TargetRecord /\ isTarget(c) /\ ~Pending(c)
      /\ Follows(r, c) /\ c.lifecycle = r.lifecycle
  BY CompleteInFlight DEF Record
<1>3. kind \in OwnerKind \cup {None}
  <2>1. r.own \in Ownership /\ r.recovery \in Recovery
    BY <1>1 DEF TargetRecord
  <2>2. r.own.state # "FREE" => r.own.owner \in Owner
    BY <1>1, <2>1 DEF isTarget, Ownership
  <2>3. QED
    BY <2>1, <2>2, RecordAssumption DEF Recovery
<1>4. why \in Recovery /\ why.reason # None
  <2>1. r.inFlight.id \in OpId \cup {None}
    BY <1>1 DEF TargetRecord, InFlight, NoOperation
  <2> HIDE DEF kind
  <2>2. QED
    BY <1>3, <2>1, RecordAssumption DEF Recovery
<1>5. /\ pins \in SUBSET {"feishu", "in-doubt", "drain"}
      /\ "feishu" \in pins => why.previousOwnerKind = "feishu"
      /\ "in-doubt" \in pins => why.operationId # None
  <2> HIDE DEF kind
  <2>1. QED
    BY DEF Pending
<1>6. /\ Free(r.own.fence + 1) \in Ownership /\ Free(r.own.fence + 1).state = "FREE"
      /\ Free(r.own.fence + 1).fence > r.own.fence /\ r.own.fence \in Nat
      /\ Free(r.own.fence + 1).fence # r.own.fence
      /\ Free(r.own.fence + 1).fence >= r.own.fence
  BY <1>1, Fences DEF Free, Ownership
<1>7. m = [c EXCEPT !.lifecycle = "RECOVERY_REQUIRED",
                    !.own = Free(r.own.fence + 1),
                    !.recovery = why, !.pinned = pins]
  BY DEF markRecovery
<1> HIDE DEF c, m, why, pins, kind
<1>8. m \in TargetRecord
  BY <1>2, <1>4, <1>5, <1>6, <1>7 DEF TargetRecord
<1>9. /\ m.lifecycle = "RECOVERY_REQUIRED" /\ m.own = Free(r.own.fence + 1)
      /\ m.recovery = why /\ m.journal = c.journal /\ m.inFlight = c.inFlight
      /\ m.pinned = pins /\ m.dropped = c.dropped /\ m.incarnation = c.incarnation
  BY <1>2, <1>7 DEF TargetRecord
<1>10. isTarget(m) /\ ~Pending(m)
  BY <1>2, <1>4, <1>6, <1>9 DEF isTarget, Pending, JournalIds
<1>11. Honest(m)
  BY <1>5, <1>9 DEF Honest
<1>12. ASSUME r.lifecycle # "TARGET_GONE" PROVE Follows(r, m)
  <2>1. Succeeds(c.own, m.own)
    BY <1>2, <1>6, <1>9, CompleteInFlight DEF Succeeds, c
  <2>2. Follows(c, m)
    BY <1>2, <1>8, <1>9, <1>12, <2>1, FollowsAlike
  <2>3. QED
    BY <1>1, <1>2, <1>8, <2>2, FollowsOn
<1>13. QED
  BY <1>6, <1>8, <1>9, <1>10, <1>11, <1>12 DEF Record, m

(* invalidateTarget retires whatever record it is given.                   *)
LEMMA InvalidateRecord ==
    ASSUME NEW r \in Record
    PROVE  /\ invalidateTarget(r) \in Record /\ Follows(r, invalidateTarget(r))
           /\ invalidateTarget(r).lifecycle = "TARGET_GONE"
<1> DEFINE m == invalidateTarget(r)
<1>1. r \in TargetRecord
  BY DEF Record
<1>2. /\ Free(r.own.fence + 1) \in Ownership /\ Free(r.own.fence + 1).state = "FREE"
      /\ Free(r.own.fence + 1).fence # r.own.fence
      /\ Free(r.own.fence + 1).fence >= r.own.fence
  BY <1>1, Fences DEF Free, Ownership
<1>3. NoRecovery \in Recovery /\ NoRecovery.reason = None
  BY DEF NoRecovery, Recovery
<1>4. <<>> \in Seq(Completed) /\ DOMAIN <<>> = {}
  OBVIOUS
<1>5. m \in TargetRecord
  BY <1>1, <1>2, <1>3, <1>4 DEF invalidateTarget, TargetRecord
<1>6. /\ m.lifecycle = "TARGET_GONE" /\ m.own = Free(r.own.fence + 1)
      /\ m.inFlight = NoOperation /\ m.recovery = NoRecovery /\ m.journal = <<>>
      /\ m.dropped = r.dropped /\ m.incarnation = r.incarnation
  BY <1>1 DEF invalidateTarget, TargetRecord
<1> HIDE DEF m
<1>7. isTarget(m)
  BY <1>2, <1>3, <1>4, <1>6 DEF isTarget, Pending, NoOperation
<1>8. Honest(m) /\ Follows(r, m)
  BY <1>2, <1>6 DEF Honest, Follows, Succession, Minds, Succeeds
<1>9. QED
  BY <1>5, <1>6, <1>7, <1>8 DEF Record, m

-----------------------------------------------------------------------------
(* The handlers.                                                           *)

Ends == {"ok", "error", "crash", "accepted", "full", "lost"}

(* What a handler starts from: the record it has loaded, the registered    *)
(* producer and the incarnation of the session.                            *)
Base == [rec : Record, prod : Owner \cup {None}, inc : Nat]

(* The records that may follow the loaded one.                             *)
Live(b) == {r \in Record : /\ r.lifecycle # "UNUSED" /\ Follows(b.rec, r)
                           /\ r.incarnation <= b.inc}

(* A producer stays registered as long as the lease it produces under.     *)
Tended(b, r, p) ==
    (r.own.state # "FREE" /\ r.own.fence = b.rec.own.fence) => b.prod \in {None, p}

PlainWorld(b) == [rec : Live(b), disk : Live(b) \cup {b.rec},
                  tmux : {m \in Tmux : m.incarnation = b.inc},
                  prod : Owner \cup {None}, faults : Nat]

GoodWorld(b) == {w \in PlainWorld(b) : /\ Tended(b, w.rec, w.prod)
                                       /\ Tended(b, w.disk, w.prod)}

InCall(r) == /\ r.lifecycle = "ACTIVE" /\ Pending(r)
             /\ r.own.state = "HELD" /\ r.own.fence = r.inFlight.fence

(* The owner of the operation in flight shares the lease, and no other     *)
(* interactive owner than the registered one writes.                       *)
Authorised(r, p) ==
    r.inFlight.kind # "lifecycle-kill" =>
        /\ sameInputOwnerClass(r.own.owner, r.inFlight.owner)
        /\ isInteractiveOwner(r.inFlight.owner) => p = r.inFlight.owner

(* What was in flight before is known to the record that takes a new one.  *)
Recalls(r, q) == Pending(r) => r.inFlight.id \in Known(q)

(* A crash forgets the producer, so only a handler that ends answers for   *)
(* it.                                                                     *)
Outcome(b) == {o \in [w : PlainWorld(b), end : Ends] :
                 /\ o.end # "crash" => o.w \in GoodWorld(b)
                 /\ o.end = "accepted" =>
                      /\ InCall(o.w.disk) /\ Authorised(o.w.disk, o.w.prod)
                      /\ Recalls(b.rec, o.w.disk)}

(* What a step that only moves the output generation leaves alone. *)
Kept(r, q) == /\ r.lifecycle = q.lifecycle /\ r.own = q.own
              /\ r.inFlight = q.inFlight /\ r.journal = q.journal
              /\ r.recovery = q.recovery /\ r.pinned = q.pinned
              /\ r.dropped = q.dropped /\ r.incarnation = q.incarnation

OnlyOutput(x, w) == Kept(x.rec, w.rec) /\ x.prod = w.prod

(* A world that was fenced durably.                                        *)
FencedOff(w) == w.rec.own.state = "FREE" /\ w.disk = w.rec

(* The same start without a producer.                                      *)
Unattended(b) == [b EXCEPT !.prod = None]

(* What follows a record that follows the loaded one.                      *)
LEMMA Onward ==
    ASSUME NEW b \in Base, NEW r \in Live(b), NEW q \in Record,
           q.lifecycle # "UNUSED", Follows(r, q)
    PROVE  q \in Live(b)
<1>1. b.rec \in Record /\ r \in Record
  BY DEF Base, Live
<1>2. Follows(b.rec, q)
  BY <1>1, FollowsOn DEF Live, Record
<1>3. q.incarnation = r.incarnation
  BY DEF Live, Follows, Succession
<1>4. QED
  BY <1>2, <1>3 DEF Live

-----------------------------------------------------------------------------
(* The fields of a world, whatever its producer.                           *)
LEMMA PlainFields ==
    ASSUME NEW b \in Base, NEW w \in PlainWorld(b)
    PROVE  /\ w.rec \in Live(b) /\ w.rec \in Record /\ w.rec.lifecycle # "UNUSED"
           /\ w.disk \in Live(b) \cup {b.rec} /\ w.disk \in Record /\ w.tmux \in Tmux
           /\ w.tmux.incarnation = b.inc
           /\ w.prod \in Owner \cup {None} /\ w.faults \in Nat
           /\ w.rec \in TargetRecord /\ isTarget(w.rec)
           /\ w.rec.gen \in Generation /\ w.rec.own \in Ownership
           /\ w.rec.own.fence \in Nat /\ w.rec.incarnation \in Nat
           /\ w.rec.handoffs \in Nat /\ Honest(w.rec)
           /\ b.rec \in Record /\ b.rec.own.fence \in Nat
           /\ w.rec.own.fence >= b.rec.own.fence
<1>1. /\ w.rec \in Live(b) /\ w.disk \in Live(b) \cup {b.rec} /\ w.tmux \in Tmux
      /\ w.prod \in Owner \cup {None} /\ w.faults \in Nat /\ b.rec \in Record
      /\ w.tmux.incarnation = b.inc
  BY DEF PlainWorld, Base
<1>2. /\ w.rec \in Record /\ w.rec.lifecycle # "UNUSED" /\ w.disk \in Record
      /\ w.rec.own.fence >= b.rec.own.fence
  BY <1>1 DEF Live, Follows, Succession, Succeeds
<1>3. QED
  BY <1>1, <1>2 DEF Record, TargetRecord, Ownership

(* The fields of a good world.                                             *)
LEMMA WorldFields ==
    ASSUME NEW b \in Base, NEW w \in GoodWorld(b)
    PROVE  /\ w.rec \in Live(b) /\ w.rec \in Record /\ w.rec.lifecycle # "UNUSED"
           /\ w.disk \in Live(b) \cup {b.rec} /\ w.disk \in Record /\ w.tmux \in Tmux
           /\ w.tmux.incarnation = b.inc
           /\ w.prod \in Owner \cup {None} /\ w.faults \in Nat
           /\ w.rec \in TargetRecord /\ isTarget(w.rec)
           /\ w.rec.gen \in Generation /\ w.rec.own \in Ownership
           /\ w.rec.own.fence \in Nat /\ w.rec.incarnation \in Nat
           /\ w.rec.handoffs \in Nat /\ Honest(w.rec)
           /\ b.rec \in Record /\ b.rec.own.fence \in Nat
           /\ w.rec.own.fence >= b.rec.own.fence
           /\ w \in PlainWorld(b)
           /\ Tended(b, w.rec, w.prod) /\ Tended(b, w.disk, w.prod)
<1>1. /\ w \in PlainWorld(b)
      /\ Tended(b, w.rec, w.prod) /\ Tended(b, w.disk, w.prod)
  BY DEF GoodWorld
<1>2. QED
  BY <1>1, PlainFields

(* Plain ends of a handler.                                                *)
LEMMA Ending ==
    ASSUME NEW b \in Base, NEW w \in GoodWorld(b)
    PROVE  /\ Ok(w) \in Outcome(b) /\ Error(w) \in Outcome(b)
           /\ Crashed(w) \in Outcome(b)
           /\ Ok(w).w = w /\ Error(w).w = w /\ Crashed(w).w = w
           /\ Ok(w).end = "ok" /\ Error(w).end = "error"
           /\ Crashed(w).end = "crash"
<1>1. w \in PlainWorld(b)
  BY DEF GoodWorld
<1>2. QED
  BY <1>1 DEF Ok, Error, Crashed, Outcome, Ends

(* A save makes the record in memory the one on disk.                      *)
LEMMA SaveGood ==
    ASSUME NEW b \in Base, NEW w \in GoodWorld(b)
    PROVE  /\ Save(w) \in GoodWorld(b) /\ Save(w).rec = w.rec
           /\ Save(w).disk = w.rec /\ Save(w).prod = w.prod
<1> DEFINE x == [w EXCEPT !.disk = w.rec]
<1>1. w \in PlainWorld(b) /\ Tended(b, w.rec, w.prod)
  BY DEF GoodWorld
<1>2. x \in PlainWorld(b) /\ x.rec = w.rec /\ x.disk = w.rec /\ x.prod = w.prod
  BY <1>1 DEF PlainWorld
<1>3. Save(w) = x
  BY DEF Save
<1> HIDE DEF x
<1>4. QED
  BY <1>1, <1>2, <1>3 DEF GoodWorld

(* A fault met leaves record, disk and tmux as they are (CanFail).         *)
LEMMA SpendGood ==
    ASSUME NEW b \in Base, NEW w \in GoodWorld(b)
    PROVE  /\ Spend(w) \in GoodWorld(b) /\ Spend(w).rec = w.rec
           /\ Spend(w).tmux = w.tmux /\ Spend(w).disk = w.disk
           /\ Spend(w).prod = w.prod
<1> DEFINE x == [w EXCEPT !.faults = @ + 1]
<1>1. /\ w \in PlainWorld(b) /\ Tended(b, w.rec, w.prod)
      /\ Tended(b, w.disk, w.prod)
  BY DEF GoodWorld
<1>2. /\ x \in PlainWorld(b) /\ x.rec = w.rec /\ x.disk = w.disk
      /\ x.prod = w.prod /\ x.tmux = w.tmux
  BY <1>1 DEF PlainWorld
<1>3. Spend(w) = x
  BY DEF Spend
<1> HIDE DEF x
<1>4. QED
  BY <1>1, <1>2, <1>3 DEF GoodWorld

(* What follows a tended record is tended.                                 *)
LEMMA TendedOn ==
    ASSUME NEW b \in Base, NEW r \in Live(b), NEW q \in Live(b), Follows(r, q),
           NEW p, Tended(b, r, p)
    PROVE  Tended(b, q, p)
<1>1. /\ b.rec.own.fence \in Nat /\ r.own.fence \in Nat /\ q.own.fence \in Nat
  BY DEF Base, Live, Record, TargetRecord, Ownership
<1>2. Succeeds(b.rec.own, r.own) /\ Succeeds(r.own, q.own)
  BY DEF Live, Follows, Succession
<1>3. QED
  BY <1>1, <1>2 DEF Tended, Succeeds

(* Replacing the record of a world by one that follows it.                 *)
LEMMA SetRec ==
    ASSUME NEW b \in Base, NEW w \in GoodWorld(b), NEW r \in Live(b),
           Follows(w.rec, r)
    PROVE  /\ [w EXCEPT !.rec = r] \in GoodWorld(b) /\ [w EXCEPT !.rec = r].rec = r
           /\ [w EXCEPT !.rec = r].prod = w.prod
<1> DEFINE x == [w EXCEPT !.rec = r]
<1>1. /\ w \in PlainWorld(b) /\ Tended(b, w.rec, w.prod)
      /\ Tended(b, w.disk, w.prod)
  BY DEF GoodWorld
<1>2. x \in PlainWorld(b) /\ x.rec = r /\ x.disk = w.disk /\ x.prod = w.prod
  BY <1>1 DEF PlainWorld
<1>3. Tended(b, r, w.prod)
  BY <1>1, WorldFields, TendedOn
<1> HIDE DEF x
<1>4. x \in GoodWorld(b)
  BY <1>1, <1>2, <1>3 DEF GoodWorld
<1>5. QED
  BY <1>2, <1>4 DEF x

(* Replacing the tmux state of a world keeps its record.                   *)
LEMMA SetTmux ==
    ASSUME NEW b \in Base, NEW w \in GoodWorld(b), NEW m \in Tmux,
           m.incarnation = w.tmux.incarnation
    PROVE  /\ [w EXCEPT !.tmux = m] \in GoodWorld(b)
           /\ [w EXCEPT !.tmux = m].rec = w.rec
           /\ [w EXCEPT !.tmux = m].prod = w.prod
<1> DEFINE x == [w EXCEPT !.tmux = m]
<1>1. /\ w \in PlainWorld(b) /\ Tended(b, w.rec, w.prod)
      /\ Tended(b, w.disk, w.prod) /\ w.tmux.incarnation = b.inc
  BY WorldFields
<1>2. x \in PlainWorld(b) /\ x.rec = w.rec /\ x.disk = w.disk /\ x.prod = w.prod
  BY <1>1 DEF PlainWorld
<1> HIDE DEF x
<1>3. x \in GoodWorld(b)
  BY <1>1, <1>2 DEF GoodWorld
<1>4. QED
  BY <1>2, <1>3 DEF x

(* A world without regard to its producer.                                 *)
LEMMA UnattendedWorld ==
    ASSUME NEW b \in Base
    PROVE  /\ Unattended(b) \in Base /\ GoodWorld(Unattended(b)) = PlainWorld(b)
           /\ PlainWorld(Unattended(b)) = PlainWorld(b)
           /\ Unattended(b).rec = b.rec /\ Live(Unattended(b)) = Live(b)
<1> DEFINE c == Unattended(b)
<1>1. c \in Base /\ c.rec = b.rec /\ c.inc = b.inc /\ c.prod = None
  BY DEF Unattended, Base
<1> HIDE DEF c
<1>2. Live(c) = Live(b)
  BY <1>1 DEF Live
<1>3. PlainWorld(c) = PlainWorld(b)
  BY <1>1, <1>2 DEF PlainWorld
<1>4. GoodWorld(c) = PlainWorld(c)
  BY <1>1 DEF GoodWorld, Tended
<1>5. QED
  BY <1>1, <1>2, <1>3, <1>4 DEF c

(* A saved record whose lease has ended, or is a new one, binds no         *)
(* producer.                                                               *)
LEMMA FreshGood ==
    ASSUME NEW b \in Base, NEW w \in PlainWorld(b), w.disk = w.rec,
           w.rec.own.state = "FREE" \/ w.rec.own.fence # b.rec.own.fence
    PROVE  w \in GoodWorld(b)
  BY DEF GoodWorld, Tended

(* An outcome that is not an acceptance carries nothing but its world.     *)
LEMMA OutcomeFields ==
    ASSUME NEW b \in Base, NEW o \in Outcome(b)
    PROVE  /\ o.w \in PlainWorld(b) /\ o.end \in Ends
           /\ o.end # "crash" => o.w \in GoodWorld(b)
  BY DEF Outcome

(* Filtering the outcomes of a step.                                       *)
LEMMA Filtered ==
    ASSUME NEW b \in Base, NEW S, S \subseteq Outcome(b)
    PROVE  /\ Ended(S) \subseteq Outcome(b)
           /\ \A w \in Worlds(S) :
                 w \in GoodWorld(b) /\ \E o \in S : o.end = "ok" /\ o.w = w
  BY OutcomeFields DEF Ended, Worlds

(* A capture under a new generation.                                       *)
LEMMA CapturedTmux ==
    ASSUME NEW m \in Tmux, NEW g \in Generation
    PROVE  Captured(m, g) \in Tmux /\ Captured(m, g).incarnation = m.incarnation
  BY DEF Captured, Tmux, Generation

(* A new generation in a record.                                           *)
LEMMA SetGen ==
    ASSUME NEW r \in Record, NEW g \in Generation
    PROVE  /\ [r EXCEPT !.gen = g] \in Record
           /\ Follows(r, [r EXCEPT !.gen = g])
           /\ Kept([r EXCEPT !.gen = g], r)
<1> DEFINE q == [r EXCEPT !.gen = g]
<1>1. r \in TargetRecord /\ isTarget(r) /\ Honest(r)
  BY DEF Record
<1>2. q \in TargetRecord /\ Kept(q, r)
  BY <1>1 DEF TargetRecord, Kept
<1> HIDE DEF q
<1>3. isTarget(q)
  BY <1>1, <1>2 DEF isTarget, Kept, Pending, JournalIds
<1>4. Honest(q)
  BY <1>1, <1>2 DEF Honest, Kept, Pending
<1>5. Succeeds(r.own, q.own)
  BY <1>1, <1>2, Fences DEF Succeeds, Kept
<1>6. Follows(r, q)
  BY <1>1, <1>2, <1>5, FollowsAlike DEF Kept
<1>7. QED
  BY <1>2, <1>3, <1>4, <1>6 DEF Record, q

(* The generations a world can be given.                                   *)
LEMMA Generations ==
    ASSUME NEW b \in Base, NEW w \in GoodWorld(b)
    PROVE  /\ FreshGeneration(w) \in Generation
           /\ plannedOutputRecoveryGeneration(w.rec) \in Generation
           /\ NoGen \in Generation
<1>1. /\ w.tmux \in Tmux /\ w.rec.own.fence \in Nat /\ w.rec.incarnation \in Nat
  BY WorldFields
<1>2. QED
  BY <1>1 DEF FreshGeneration, plannedOutputRecoveryGeneration, Generation, Tmux,
              NoGen

(* A rotation is good and keeps everything but the generation.             *)
LEMMA RotationsGood ==
    ASSUME NEW b \in Base, NEW w \in GoodWorld(b), NEW v \in GoodWorld(b),
           NEW g \in Generation, NEW lossy, OnlyOutput(v, w)
    PROVE  /\ Rotations(w, v, g, lossy) \subseteq Outcome(b)
           /\ \A o \in Rotations(w, v, g, lossy) :
                 /\ o.w \in GoodWorld(b) /\ OnlyOutput(o.w, w)
                 /\ o.end \in {"ok", "error", "crash"}
<1> DEFINE m == Captured(w.tmux, g)
           q == [w.rec EXCEPT !.gen = g]
           z == [w EXCEPT !.tmux = m]
           x == [w EXCEPT !.tmux = Captured(@, g), !.rec.gen = g]
           y == LostRotation(w, g)
<1>1. /\ m \in Tmux /\ m.incarnation = w.tmux.incarnation
      /\ q \in Live(b) /\ Kept(q, w.rec) /\ Follows(w.rec, q)
  <2>1. w.rec \in Live(b) /\ w.rec \in Record /\ w.rec.lifecycle # "UNUSED"
    BY WorldFields
  <2>2. q \in Record /\ Kept(q, w.rec) /\ Follows(w.rec, q)
    BY <2>1, SetGen
  <2>3. m \in Tmux /\ m.incarnation = w.tmux.incarnation
    BY WorldFields, CapturedTmux
  <2> HIDE DEF q, m
  <2>4. q.lifecycle # "UNUSED"
    BY <2>1, <2>2 DEF Kept
  <2>5. QED
    BY <2>1, <2>2, <2>3, <2>4, Onward
<1>2. x = [z EXCEPT !.rec = q]
  BY WorldFields DEF PlainWorld
<1>3. y = Spend(z)
  BY DEF LostRotation
<1> HIDE DEF m, q
<1>4. z \in GoodWorld(b) /\ z.rec = w.rec /\ z.prod = w.prod
  BY <1>1, SetTmux
<1> HIDE DEF x, y, z
<1>5. x \in GoodWorld(b) /\ x.rec = q /\ x.prod = w.prod
  BY <1>1, <1>2, <1>4, SetRec
<1>6. y \in GoodWorld(b) /\ y.rec = w.rec /\ y.prod = w.prod
  BY <1>3, <1>4, SpendGood
<1>7. /\ Spend(v) \in GoodWorld(b) /\ Spend(v).rec = v.rec
      /\ Spend(v).prod = v.prod
  BY SpendGood
<1>8. Kept(w.rec, w.rec)
  BY DEF Kept
<1>9. OnlyOutput(x, w) /\ OnlyOutput(y, w) /\ OnlyOutput(Spend(v), w)
  BY <1>1, <1>5, <1>6, <1>7, <1>8 DEF OnlyOutput
<1>10. Rotations(w, v, g, lossy) \subseteq {Ok(x), Error(Spend(v)), Error(y), Crashed(y)}
  BY DEF Rotations, x, y
<1>11. QED
  BY <1>5, <1>6, <1>7, <1>9, <1>10, Ending

(* resetOutput, recoverOutput and prepareOutput of the backend.            *)
LEMMA BackendResetGood ==
    ASSUME NEW b \in Base, NEW w \in GoodWorld(b)
    PROVE  /\ backendResetOutput(w) \subseteq Outcome(b)
           /\ \A o \in backendResetOutput(w) :
                 /\ o.w \in GoodWorld(b) /\ OnlyOutput(o.w, w)
                 /\ o.end \in {"ok", "error", "crash"}
<1>1. OnlyOutput(w, w)
  BY DEF Kept, OnlyOutput
<1>2. QED
  BY <1>1, RotationsGood, Generations, Ending DEF backendResetOutput

(* recoverOutput of the backend only moves the generation.                 *)
LEMMA BackendRecoverGood ==
    ASSUME NEW b \in Base, NEW w \in GoodWorld(b)
    PROVE  /\ backendRecoverOutput(w) \subseteq Outcome(b)
           /\ \A o \in backendRecoverOutput(w) :
                 /\ o.w \in GoodWorld(b) /\ OnlyOutput(o.w, w)
                 /\ o.end \in {"ok", "error", "crash"}
<1> DEFINE v == [w EXCEPT !.tmux.pipe = FALSE]
           m == [w.tmux EXCEPT !.pipe = FALSE]
<1>1. m \in Tmux /\ m.incarnation = w.tmux.incarnation
  <2>1. w.tmux \in Tmux
    BY WorldFields
  <2>2. QED
    BY <2>1 DEF Tmux
<1>2. v = [w EXCEPT !.tmux = m]
  BY WorldFields DEF PlainWorld
<1>3. v \in GoodWorld(b) /\ v.rec = w.rec /\ v.prod = w.prod
  <2> HIDE DEF v, m
  <2>1. QED
    BY <1>1, <1>2, SetTmux
<1>4. OnlyOutput(w, w) /\ OnlyOutput(v, w)
  BY <1>3 DEF Kept, OnlyOutput
<1>5. \/ backendRecoverOutput(w) = {Error(w)}
      \/ backendRecoverOutput(w) =
           Rotations(w, v, plannedOutputRecoveryGeneration(w.rec), "lostRecovery")
  BY DEF backendRecoverOutput
<1> HIDE DEF v, m
<1>6. QED
  BY <1>3, <1>4, <1>5, RotationsGood, Generations, Ending

(* A rotation that the record never learns of.                             *)
LEMMA LostRotationGood ==
    ASSUME NEW b \in Base, NEW w \in GoodWorld(b), NEW g \in Generation
    PROVE  /\ LostRotation(w, g) \in GoodWorld(b)
           /\ LostRotation(w, g).rec = w.rec /\ LostRotation(w, g).prod = w.prod
<1> DEFINE m == Captured(w.tmux, g)
           z == [w EXCEPT !.tmux = m]
<1>1. LostRotation(w, g) = Spend(z)
  BY DEF LostRotation
<1>2. m \in Tmux /\ m.incarnation = w.tmux.incarnation
  BY WorldFields, CapturedTmux
<1> HIDE DEF m
<1>3. z \in GoodWorld(b) /\ z.rec = w.rec /\ z.prod = w.prod
  BY <1>2, SetTmux
<1> HIDE DEF z
<1>4. QED
  BY <1>1, <1>3, SpendGood

(* prepareOutput of the backend only moves the tmux state.                 *)
LEMMA BackendPrepareGood ==
    ASSUME NEW b \in Base, NEW w \in GoodWorld(b)
    PROVE  /\ backendPrepareOutput(w) \subseteq Outcome(b)
           /\ \A o \in backendPrepareOutput(w) :
                 /\ o.w \in GoodWorld(b) /\ OnlyOutput(o.w, w)
                 /\ o.end \in {"ok", "crash", "full", "lost"}
<1> DEFINE g == w.rec.gen
           m == Captured(w.tmux, g)
           x == [w EXCEPT !.tmux = Captured(@, g)]
           y == LostRotation(w, g)
           s(e) == [w |-> Spend(w), end |-> e]
           l(e) == [w |-> y, end |-> e]
           n == [w |-> w, end |-> "lost"]
<1>1. g \in Generation /\ m \in Tmux /\ m.incarnation = w.tmux.incarnation
  BY WorldFields, CapturedTmux
<1>2. x \in GoodWorld(b) /\ x.rec = w.rec /\ x.prod = w.prod
  <2>1. x = [w EXCEPT !.tmux = m]
    OBVIOUS
  <2> HIDE DEF x, m
  <2>2. QED
    BY <1>1, <2>1, SetTmux
<1>3. y \in GoodWorld(b) /\ y.rec = w.rec /\ y.prod = w.prod /\ y \in PlainWorld(b)
  BY <1>1, LostRotationGood, WorldFields
<1>4. /\ Spend(w) \in GoodWorld(b) /\ Spend(w).rec = w.rec
      /\ Spend(w).prod = w.prod /\ Spend(w) \in PlainWorld(b)
      /\ w \in PlainWorld(b)
  BY SpendGood, WorldFields
<1>5. /\ \A e \in {"full", "lost"} :
            s(e) \in Outcome(b) /\ s(e).w = Spend(w) /\ s(e).end = e
      /\ \A e \in {"crash", "lost"} : l(e) \in Outcome(b) /\ l(e).w = y /\ l(e).end = e
      /\ n \in Outcome(b) /\ n.w = w /\ n.end = "lost"
  <2> HIDE DEF y
  <2>1. QED
    BY <1>3, <1>4 DEF Outcome, Ends
<1>6. backendPrepareOutput(w) \subseteq
        {Ok(w), Ok(x), n} \cup {s(e) : e \in {"full", "lost"}}
            \cup {l(e) : e \in {"crash", "lost"}}
  BY DEF backendPrepareOutput
<1>7. Kept(w.rec, w.rec)
  BY DEF Kept
<1>8. /\ OnlyOutput(w, w) /\ OnlyOutput(x, w) /\ OnlyOutput(y, w)
      /\ OnlyOutput(Spend(w), w)
  BY <1>2, <1>3, <1>4, <1>7 DEF OnlyOutput
<1> HIDE DEF x, y, s, l, n, g, m
<1>9. QED
  BY <1>2, <1>3, <1>4, <1>5, <1>6, <1>8, Ending

-----------------------------------------------------------------------------
(* The steps handlers share.                                               *)

(* A probe changes nothing but the count of faults.                        *)
LEMMA ProbesGood ==
    ASSUME NEW b \in Base, NEW w \in GoodWorld(b), NEW p \in Probes(w)
    PROVE  /\ p.w \in GoodWorld(b) /\ p.w.rec = w.rec /\ p.w.disk = w.disk
           /\ p.w.prod = w.prod
           /\ p.answer \in {"current", "gone", "uncertain"}
           /\ p.answer = "current" => SameSession(w)
<1> DEFINE a == IF SameSession(w) THEN "current" ELSE "gone"
<1>1. p = [w |-> w, answer |-> a] \/ p = [w |-> Spend(w), answer |-> "uncertain"]
  BY DEF Probes
<1>2. QED
  BY <1>1, SpendGood

(* Fencing and retiring are durable at once.                               *)
LEMMA MarkAndSaveGood ==
    ASSUME NEW b \in Base, NEW w \in GoodWorld(b), NEW reason \in RecoveryReason,
           w.rec.lifecycle # "TARGET_GONE"
    PROVE  /\ MarkAndSave(w, reason) \in GoodWorld(b)
           /\ MarkAndSave(w, reason).rec = markRecovery(w.rec, reason)
           /\ FencedOff(MarkAndSave(w, reason))
<1> DEFINE r == markRecovery(w.rec, reason)
           x == [w EXCEPT !.rec = r]
<1>1. r \in Live(b) /\ Follows(w.rec, r) /\ r.own.state = "FREE"
  BY WorldFields, MarkRecoveryRecord, Onward
<1> HIDE DEF r
<1>2. x \in GoodWorld(b) /\ x.rec = r
  BY <1>1, SetRec
<1>3. MarkAndSave(w, reason) = Save(x)
  BY DEF MarkAndSave, r
<1> HIDE DEF x
<1>4. QED
  BY <1>1, <1>2, <1>3, SaveGood DEF r, FencedOff

(* A retired target (invalidateTarget) is a good world once saved.         *)
LEMMA InvalidateAndSaveGood ==
    ASSUME NEW b \in Base, NEW w \in GoodWorld(b)
    PROVE  /\ InvalidateAndSave(w) \in GoodWorld(b)
           /\ InvalidateAndSave(w).rec = invalidateTarget(w.rec)
<1> DEFINE r == invalidateTarget(w.rec)
           x == [w EXCEPT !.rec = r]
<1>1. r \in Live(b) /\ Follows(w.rec, r)
  BY WorldFields, InvalidateRecord, Onward
<1> HIDE DEF r
<1>2. x \in GoodWorld(b) /\ x.rec = r
  BY <1>1, SetRec
<1>3. InvalidateAndSave(w) = Save(x)
  BY DEF InvalidateAndSave, r
<1> HIDE DEF x
<1>4. QED
  BY <1>2, <1>3, SaveGood DEF r

(* Fencing after an output failure ends the handler in a good world.       *)
LEMMA OutputUncertainGood ==
    ASSUME NEW b \in Base, NEW w \in GoodWorld(b),
           w.rec.lifecycle # "TARGET_GONE"
    PROVE  /\ OutputUncertain(w) \in Outcome(b) /\ OutputUncertain(w).end = "error"
           /\ FencedOff(OutputUncertain(w).w)
<1>1. "OUTPUT_CONTINUITY_UNCERTAIN" \in RecoveryReason
  BY DEF RecoveryReason
<1>2. QED
  BY <1>1, MarkAndSaveGood, Ending DEF OutputUncertain

(* What preparing or rotating the output of world w may end in.            *)
Prepares(w, o) == /\ o.end \in {"ok", "error", "crash"}
                  /\ o.end = "ok" => OnlyOutput(o.w, w)
                  /\ o.end = "error" => FencedOff(o.w)

(* resetOutput either rotates the generation and keeps the rest, or fences.*)
LEMMA ResetOutputGood ==
    ASSUME NEW b \in Base, NEW w \in GoodWorld(b),
           w.rec.lifecycle # "TARGET_GONE"
    PROVE  /\ resetOutput(w) \subseteq Outcome(b)
           /\ \A o \in resetOutput(w) : Prepares(w, o)
<1>1. ASSUME NEW o \in resetOutput(w)
      PROVE  o \in Outcome(b) /\ Prepares(w, o)
  <2>1. \/ o \in backendResetOutput(w) /\ o.end # "error"
        \/ \E x \in backendResetOutput(w) : o = OutputUncertain(x.w)
    BY DEF resetOutput
  <2>2. CASE o \in backendResetOutput(w) /\ o.end # "error"
    BY <2>2, BackendResetGood DEF Prepares
  <2>3. ASSUME NEW x \in backendResetOutput(w), o = OutputUncertain(x.w)
        PROVE  o \in Outcome(b) /\ Prepares(w, o)
    <3>1. x.w \in GoodWorld(b) /\ x.w.rec.lifecycle # "TARGET_GONE"
      BY BackendResetGood DEF OnlyOutput, Kept
    <3>2. QED
      BY <2>3, <3>1, OutputUncertainGood DEF Prepares
  <2>4. QED
    BY <2>1, <2>2, <2>3
<1>2. QED
  BY <1>1

(* So do Repair and prepareOutput.                                         *)
LEMMA RepairGood ==
    ASSUME NEW b \in Base, NEW w \in GoodWorld(b),
           w.rec.lifecycle # "TARGET_GONE"
    PROVE  /\ Repair(w) \subseteq Outcome(b)
           /\ \A o \in Repair(w) : Prepares(w, o)
<1>1. ASSUME NEW o \in Repair(w)
      PROVE  o \in Outcome(b) /\ Prepares(w, o)
  <2>1. PICK p \in Probes(w) :
          \/ o = OutputUncertain(p.w)
          \/ \E x \in backendResetOutput(p.w) :
                \/ o = Ok(Save(x.w)) /\ x.end = "ok"
                \/ o = x /\ x.end = "crash"
                \/ o = OutputUncertain(x.w)
    BY DEF Repair
  <2>2. p.w \in GoodWorld(b) /\ p.w.rec = w.rec /\ p.w.prod = w.prod
    BY ProbesGood
  <2>3. CASE o = OutputUncertain(p.w)
    BY <2>2, <2>3, OutputUncertainGood DEF Prepares
  <2>4. ASSUME NEW x \in backendResetOutput(p.w),
               \/ o = Ok(Save(x.w)) /\ x.end = "ok"
               \/ o = x /\ x.end = "crash"
               \/ o = OutputUncertain(x.w)
        PROVE  o \in Outcome(b) /\ Prepares(w, o)
    <3>1. x \in Outcome(b) /\ x.w \in GoodWorld(b) /\ OnlyOutput(x.w, w)
      BY <2>2, BackendResetGood DEF OnlyOutput
    <3>2. CASE o = Ok(Save(x.w))
      BY <3>1, <3>2, SaveGood, Ending DEF Prepares, OnlyOutput
    <3>3. CASE o = x /\ x.end = "crash"
      BY <3>1, <3>3 DEF Prepares
    <3>4. CASE o = OutputUncertain(x.w)
      BY <3>1, <3>4, OutputUncertainGood DEF Prepares, OnlyOutput, Kept
    <3>5. QED
      BY <2>4, <3>2, <3>3, <3>4
  <2>5. QED
    BY <2>1, <2>3, <2>4
<1>2. QED
  BY <1>1

(* prepareOutput of the authority, its repair included, ends well.         *)
LEMMA PrepareOutputGood ==
    ASSUME NEW b \in Base, NEW w \in GoodWorld(b),
           w.rec.lifecycle # "TARGET_GONE"
    PROVE  /\ prepareOutput(w) \subseteq Outcome(b)
           /\ \A o \in prepareOutput(w) : Prepares(w, o)
<1>1. ASSUME NEW o \in prepareOutput(w)
      PROVE  o \in Outcome(b) /\ Prepares(w, o)
  <2>1. PICK x \in backendPrepareOutput(w) :
          \/ o = x /\ x.end \in {"ok", "crash"}
          \/ o \in Repair(x.w) \/ o = OutputUncertain(x.w)
    BY DEF prepareOutput
  <2>2. /\ x \in Outcome(b) /\ x.w \in GoodWorld(b) /\ OnlyOutput(x.w, w)
        /\ x.w.rec.lifecycle # "TARGET_GONE"
    BY BackendPrepareGood DEF OnlyOutput, Kept
  <2>3. CASE o = x /\ x.end \in {"ok", "crash"}
    BY <2>2, <2>3 DEF Prepares
  <2>4. CASE o \in Repair(x.w)
    <3>1. o \in Outcome(b) /\ Prepares(x.w, o)
      BY <2>2, <2>4, RepairGood
    <3>2. QED
      BY <2>2, <3>1 DEF Prepares, OnlyOutput, Kept
  <2>5. CASE o = OutputUncertain(x.w)
    BY <2>2, <2>5, OutputUncertainGood DEF Prepares
  <2>6. QED
    BY <2>1, <2>3, <2>4, <2>5
<1>2. QED
  BY <1>1

(* A record without an open operation keeps its journal when it is fenced. *)
LEMMA MarkKeepsJournal ==
    ASSUME NEW r \in Record, NEW reason, ~Pending(r)
    PROVE  markRecovery(r, reason).journal = r.journal
  BY DEF markRecovery, completeInFlightAsInDoubt, Record, TargetRecord

(* A fenced record that nothing pins may be reopened.                      *)
LEMMA ReopenedGood ==
    ASSUME NEW b \in Base, NEW w \in GoodWorld(b),
           isAutoRecoverableNonFeishuState(w.rec)
    PROVE  /\ Reopened(w) \in GoodWorld(b)
           /\ Reopened(w).rec.journal = w.rec.journal
<1> DEFINE r == [w.rec EXCEPT !.lifecycle = "ACTIVE", !.recovery = NoRecovery]
           x == [w EXCEPT !.rec = r, !.disk = r, !.prod = None]
<1>1. w.rec \in Live(b) /\ w.rec \in TargetRecord /\ isTarget(w.rec) /\ Honest(w.rec)
      /\ w \in PlainWorld(b)
  BY WorldFields
<1>2. NoRecovery \in Recovery /\ NoRecovery.reason = None
  BY DEF NoRecovery, Recovery
<1>3. r \in TargetRecord
  BY <1>1, <1>2 DEF TargetRecord
<1>4. /\ r.lifecycle = "ACTIVE" /\ r.recovery = NoRecovery /\ r.own = w.rec.own
      /\ r.journal = w.rec.journal /\ r.inFlight = w.rec.inFlight
      /\ r.pinned = w.rec.pinned /\ r.dropped = w.rec.dropped
      /\ r.incarnation = w.rec.incarnation
  BY <1>1 DEF TargetRecord
<1>5. Reopened(w) = x
  BY <1>1 DEF Reopened, PlainWorld, Save
<1> HIDE DEF r
<1>6. isTarget(r)
  BY <1>1, <1>2, <1>4 DEF isTarget, Pending, JournalIds, isAutoRecoverableNonFeishuState
<1>7. Honest(r)
  BY <1>1, <1>4 DEF Honest, isAutoRecoverableNonFeishuState
<1>8. Follows(w.rec, r)
  <2>1. Succeeds(w.rec.own, r.own)
    BY <1>1, <1>4, Fences DEF Succeeds
  <2>2. QED
    BY <1>1, <1>3, <1>4, <2>1, FollowsAlike DEF isAutoRecoverableNonFeishuState
<1>9. r \in Live(b)
  BY <1>1, <1>3, <1>4, <1>6, <1>7, <1>8, Onward DEF Record
<1>10. r.own.state = "FREE"
  BY <1>1, <1>4 DEF isTarget, isAutoRecoverableNonFeishuState
<1>11. x \in PlainWorld(b) /\ x.rec = r /\ x.disk = r
  BY <1>1, <1>9 DEF PlainWorld
<1> HIDE DEF x
<1>12. x \in GoodWorld(b)
  BY <1>10, <1>11, FreshGood
<1>13. QED
  BY <1>4, <1>5, <1>11, <1>12

(* What is left of an abandoned ownership is fenced, retired or reopened;  *)
(* a target that is active afterwards has kept its journal.                *)
LEMMA ReconcileGood ==
    ASSUME NEW b \in Base, NEW w \in GoodWorld(b)
    PROVE  /\ reconcileAbandonedOwnership(w) \subseteq Outcome(b)
           /\ \A o \in reconcileAbandonedOwnership(w) :
                 (o.end = "ok" /\ o.w.rec.lifecycle = "ACTIVE") =>
                     o.w.rec.journal = w.rec.journal
<1> DEFINE expired == w.rec.lifecycle = "ACTIVE" /\ leaseExpired(w.rec)
           reason == IF w.rec.own.state = "DRAINING" THEN "DRAIN_UNCERTAIN"
                     ELSE "LEASE_EXPIRED"
           fenced == IF expired THEN MarkAndSave(w, reason) ELSE w
           stays == \/ expired /\ ~isAbandonableNonFeishuLease(w.rec)
                    \/ ~isAutoRecoverableNonFeishuState(fenced.rec)
<1>1. reason \in RecoveryReason
  BY DEF RecoveryReason
<1>2. fenced \in GoodWorld(b)
  <2> HIDE DEF reason
  <2>1. CASE expired
    BY <1>1, <2>1, MarkAndSaveGood
  <2>2. CASE ~expired
    BY <2>2
  <2>3. QED
    BY <2>1, <2>2
<1>3. expired => fenced.rec = markRecovery(w.rec, reason)
  <2> HIDE DEF reason
  <2>1. QED
    BY <1>1, MarkAndSaveGood
<1>4. fenced.rec.lifecycle = "ACTIVE" => fenced.rec.journal = w.rec.journal
  <2> HIDE DEF reason
  <2>1. CASE expired
    BY <1>1, <1>3, <2>1, MarkRecoveryRecord, WorldFields
  <2>2. CASE ~expired
    BY <2>2
  <2>3. QED
    BY <2>1, <2>2
<1>5. ~stays => /\ fenced.rec.journal = w.rec.journal
                /\ isAutoRecoverableNonFeishuState(fenced.rec)
  <2> HIDE DEF reason
  <2>1. CASE expired
    BY <1>3, <2>1, MarkKeepsJournal, WorldFields
       DEF isAbandonableNonFeishuLease
  <2>2. CASE ~expired
    BY <2>2
  <2>3. QED
    BY <2>1, <2>2
<1>6. ASSUME NEW o \in reconcileAbandonedOwnership(w)
      PROVE  /\ o \in Outcome(b)
             /\ (o.end = "ok" /\ o.w.rec.lifecycle = "ACTIVE") =>
                   o.w.rec.journal = w.rec.journal
  <2>1. \/ o = Ok(fenced)
        \/ /\ ~stays
           /\ \E p \in Probes(fenced) :
                \/ o = Error(InvalidateAndSave(p.w))
                \/ o = Ok(p.w)
                \/ \E x \in backendResetOutput(p.w) :
                     o = Ok(Reopened(x.w)) \/ o = Ok(x.w) \/ (o = x /\ x.end # "ok")
    <3> DEFINE T(p) ==
                 CASE p.answer = "gone" -> {Error(InvalidateAndSave(p.w))}
                   [] p.answer = "uncertain" -> {Ok(p.w)}
                   [] OTHER ->
                        {CASE x.end = "ok" -> Ok(Reopened(x.w))
                           [] x.end = "error" -> Ok(x.w)
                           [] OTHER -> x : x \in backendResetOutput(p.w)}
    <3>1. reconcileAbandonedOwnership(w) =
            IF stays THEN {Ok(fenced)} ELSE UNION {T(p) : p \in Probes(fenced)}
      BY DEF reconcileAbandonedOwnership
    <3>2. ASSUME NEW p, o \in T(p)
          PROVE  \/ o = Error(InvalidateAndSave(p.w))
                 \/ o = Ok(p.w)
                 \/ \E x \in backendResetOutput(p.w) :
                      o = Ok(Reopened(x.w)) \/ o = Ok(x.w) \/ (o = x /\ x.end # "ok")
      BY <3>2
    <3> HIDE DEF T, stays, fenced
    <3>3. CASE stays
      BY <3>1, <3>3
    <3>4. CASE ~stays
      <4>1. PICK p \in Probes(fenced) : o \in T(p)
        BY <3>1, <3>4
      <4>2. QED
        BY <3>2, <3>4, <4>1
    <3>5. QED
      BY <3>3, <3>4
  <2> HIDE DEF fenced, stays, expired, reason
  <2>2. CASE o = Ok(fenced)
    BY <1>2, <1>4, <2>2, Ending
  <2>3. ASSUME ~stays, NEW p \in Probes(fenced),
               \/ o = Error(InvalidateAndSave(p.w))
               \/ o = Ok(p.w)
               \/ \E x \in backendResetOutput(p.w) :
                    o = Ok(Reopened(x.w)) \/ o = Ok(x.w) \/ (o = x /\ x.end # "ok")
        PROVE  /\ o \in Outcome(b)
               /\ (o.end = "ok" /\ o.w.rec.lifecycle = "ACTIVE") =>
                     o.w.rec.journal = w.rec.journal
    <3>1. p.w \in GoodWorld(b) /\ p.w.rec = fenced.rec
      BY <1>2, ProbesGood
    <3>2. CASE o = Error(InvalidateAndSave(p.w))
      BY <3>1, <3>2, InvalidateAndSaveGood, Ending
    <3>3. CASE o = Ok(p.w)
      BY <1>4, <3>1, <3>3, Ending
    <3>4. ASSUME NEW x \in backendResetOutput(p.w),
                 o = Ok(Reopened(x.w)) \/ o = Ok(x.w) \/ (o = x /\ x.end # "ok")
          PROVE  /\ o \in Outcome(b)
                 /\ (o.end = "ok" /\ o.w.rec.lifecycle = "ACTIVE") =>
                       o.w.rec.journal = w.rec.journal
      <4>1. x \in Outcome(b) /\ x.w \in GoodWorld(b) /\ Kept(x.w.rec, fenced.rec)
        BY <3>1, BackendResetGood DEF OnlyOutput
      <4>2. /\ isAutoRecoverableNonFeishuState(x.w.rec)
            /\ x.w.rec.journal = w.rec.journal
        BY <1>5, <2>3, <4>1 DEF Kept, isAutoRecoverableNonFeishuState, Pending
      <4>3. CASE o = Ok(Reopened(x.w))
        BY <4>1, <4>2, <4>3, ReopenedGood, Ending
      <4>4. CASE o = Ok(x.w)
        BY <4>1, <4>2, <4>4, Ending
      <4>5. CASE o = x /\ x.end # "ok"
        BY <4>1, <4>5
      <4>6. QED
        BY <3>4, <4>3, <4>4, <4>5
    <3>5. QED
      BY <2>3, <3>2, <3>3, <3>4
  <2>4. QED
    BY <2>1, <2>2, <2>3
<1>7. QED
  BY <1>6

(* The proof that the backend is current.                                  *)
LEMMA ProveCurrentGood ==
    ASSUME NEW b \in Base, NEW w \in GoodWorld(b),
           w.rec.lifecycle # "TARGET_GONE"
    PROVE  /\ ProveCurrent(w) \subseteq Outcome(b)
           /\ \A o \in ProveCurrent(w) : o.end = "ok" => o.w.rec = w.rec
<1>1. ASSUME NEW o \in ProveCurrent(w)
      PROVE  o \in Outcome(b) /\ (o.end = "ok" => o.w.rec = w.rec)
  <2>1. PICK p \in Probes(w) :
          \/ o = Ok(p.w)
          \/ o = Error(InvalidateAndSave(p.w))
          \/ o = Error(MarkAndSave(p.w, "BACKEND_IDENTITY_UNCERTAIN"))
    BY DEF ProveCurrent
  <2>2. p.w \in GoodWorld(b) /\ p.w.rec = w.rec
    BY ProbesGood
  <2>3. "BACKEND_IDENTITY_UNCERTAIN" \in RecoveryReason
    BY DEF RecoveryReason
  <2>4. CASE o = Ok(p.w)
    BY <2>2, <2>4, Ending
  <2>5. CASE o = Error(InvalidateAndSave(p.w))
    BY <2>2, <2>5, InvalidateAndSaveGood, Ending
  <2>6. CASE o = Error(MarkAndSave(p.w, "BACKEND_IDENTITY_UNCERTAIN"))
    BY <2>2, <2>3, <2>6, MarkAndSaveGood, Ending
  <2>7. QED
    BY <2>1, <2>4, <2>5, <2>6
<1>2. QED
  BY <1>1

(* assertTargetCurrent goes on only with an operable target and its        *)
(* journal.                                                                *)
LEMMA AssertCurrentGood ==
    ASSUME NEW b \in Base, NEW w \in GoodWorld(b)
    PROVE  /\ assertTargetCurrent(w) \subseteq Outcome(b)
           /\ \A o \in assertTargetCurrent(w) :
                 o.end = "ok" =>
                   Operable(o.w.rec) /\ o.w.rec.journal = w.rec.journal
<1> DEFINE s == reconcileAbandonedOwnership(w)
<1>1. s \subseteq Outcome(b)
  BY ReconcileGood
<1>2. ASSUME NEW o \in assertTargetCurrent(w)
      PROVE  /\ o \in Outcome(b)
             /\ o.end = "ok" =>
                  Operable(o.w.rec) /\ o.w.rec.journal = w.rec.journal
  <2>1. \/ o \in Ended(s)
        \/ \E x \in Worlds(s) :
             \/ Operable(x.rec) /\ o \in ProveCurrent(x)
             \/ o = Error(x)
    BY DEF assertTargetCurrent
  <2>2. CASE o \in Ended(s)
    BY <1>1, <2>2, Filtered DEF Ended
  <2>3. ASSUME NEW x \in Worlds(s),
               \/ Operable(x.rec) /\ o \in ProveCurrent(x)
               \/ o = Error(x)
        PROVE  /\ o \in Outcome(b)
               /\ o.end = "ok" =>
                    Operable(o.w.rec) /\ o.w.rec.journal = w.rec.journal
    <3>1. x \in GoodWorld(b) /\ \E y \in s : y.end = "ok" /\ y.w = x
      BY <1>1, Filtered
    <3>2. x.rec.lifecycle = "ACTIVE" => x.rec.journal = w.rec.journal
      BY <3>1, ReconcileGood
    <3>3. CASE Operable(x.rec) /\ o \in ProveCurrent(x)
      BY <3>1, <3>2, <3>3, ProveCurrentGood DEF Operable
    <3>4. CASE o = Error(x)
      BY <3>1, <3>4, Ending
    <3>5. QED
      BY <2>3, <3>3, <3>4
  <2>4. QED
    BY <2>1, <2>2, <2>3
<1>3. QED
  BY <1>2

-----------------------------------------------------------------------------
(* Changing an ownership.                                                  *)

WellOwned(n) == /\ n \in Ownership
                /\ n.state # "FREE" => n.owner # None
                /\ n.state = "DRAINING" => n.next # None

(* Record q is r with ownership n; a handoff may have been counted.        *)
Reowned(r, n, q) ==
    /\ q \in TargetRecord /\ q.own = n /\ q.lifecycle = r.lifecycle
    /\ q.inFlight = r.inFlight /\ q.journal = r.journal
    /\ q.recovery = r.recovery /\ q.pinned = r.pinned
    /\ q.dropped = r.dropped /\ q.incarnation = r.incarnation

(* What EXCEPT makes of a record.                                          *)
LEMMA Reowning ==
    ASSUME NEW r \in TargetRecord, NEW n \in Ownership, NEW h \in Nat
    PROVE  /\ Reowned(r, n, [r EXCEPT !.own = n])
           /\ Reowned(r, n, [r EXCEPT !.own = n, !.handoffs = h])
  BY DEF Reowned, TargetRecord

(* A record may be given any well-formed ownership while it is active, and *)
(* a free one at any time.                                                 *)
LEMMA SetOwn ==
    ASSUME NEW r \in Record, NEW n, WellOwned(n), NEW q, Reowned(r, n, q),
           r.lifecycle # "UNUSED", Succeeds(r.own, n),
           r.lifecycle = "ACTIVE" \/ n.state = "FREE"
    PROVE  /\ q \in Record /\ q.own = n /\ q.lifecycle = r.lifecycle
           /\ q.inFlight = r.inFlight /\ q.journal = r.journal
           /\ Follows(r, q)
<1>1. r \in TargetRecord /\ isTarget(r) /\ Honest(r)
  BY DEF Record
<1>2. /\ q \in TargetRecord /\ q.own = n /\ q.lifecycle = r.lifecycle
      /\ q.inFlight = r.inFlight /\ q.journal = r.journal
      /\ q.recovery = r.recovery /\ q.pinned = r.pinned
      /\ q.dropped = r.dropped /\ q.incarnation = r.incarnation
  BY DEF Reowned
<1>3. isTarget(q)
  BY <1>1, <1>2 DEF isTarget, WellOwned, Pending, JournalIds
<1>4. Honest(q)
  BY <1>1, <1>2 DEF Honest
<1>5. Follows(r, q)
  BY <1>1, <1>2, FollowsAlike
<1>6. QED
  BY <1>2, <1>3, <1>4, <1>5 DEF Record

(* The ownerships the handlers install.                                    *)
LEMMA Ownerships ==
    ASSUME NEW f \in Nat, NEW o \in Owner
    PROVE  /\ WellOwned(Held(f + 1, o)) /\ WellOwned(Free(f + 1))
           /\ Held(f + 1, o).state = "HELD" /\ Free(f + 1).state = "FREE"
           /\ \A n \in Ownership : n.fence = f =>
                 Succeeds(n, Held(f + 1, o)) /\ Succeeds(n, Free(f + 1))
  BY RecordAssumption DEF WellOwned, Held, Free, Ownership, Succeeds

(* The ownership of a readable record is complete (isOwnership).           *)
LEMMA RecordOwnership ==
    ASSUME NEW r \in Record
    PROVE  WellOwned(r.own) /\ r.own.fence \in Nat /\ r.handoffs \in Nat
  BY DEF Record, TargetRecord, isTarget, WellOwned, Ownership

(* Registering a producer where nobody else is one.                        *)
LEMMA RegisterGood ==
    ASSUME NEW b \in Base, NEW w \in GoodWorld(b), NEW o \in Owner, MayProduce(w, o)
    PROVE  /\ Register(w, o) \in GoodWorld(b) /\ Register(w, o).rec = w.rec
           /\ isInteractiveOwner(o) => Register(w, o).prod = o
<1>1. CASE ~isInteractiveOwner(o)
  BY <1>1 DEF Register
<1>2. CASE isInteractiveOwner(o)
  <2> DEFINE x == [w EXCEPT !.prod = o]
  <2>1. /\ w \in PlainWorld(b) /\ Tended(b, w.rec, w.prod)
        /\ Tended(b, w.disk, w.prod) /\ w.prod \in {None, o}
    BY <1>2, WorldFields DEF MayProduce
  <2>2. x \in PlainWorld(b) /\ x.rec = w.rec /\ x.disk = w.disk /\ x.prod = o
    BY <2>1 DEF PlainWorld
  <2>3. Register(w, o) = x
    BY <1>2 DEF Register
  <2> HIDE DEF x
  <2>4. x \in GoodWorld(b)
    BY <2>1, <2>2 DEF GoodWorld, Tended
  <2>5. QED
    BY <2>2, <2>3, <2>4
<1>3. QED
  BY <1>1, <1>2

(* A world whose active record is given a later ownership.                 *)
LEMMA OwnAdvanced ==
    ASSUME NEW b \in Base, NEW w \in GoodWorld(b), w.rec.lifecycle = "ACTIVE",
           NEW n, WellOwned(n), Succeeds(w.rec.own, n),
           NEW q, Reowned(w.rec, n, q)
    PROVE  q \in Live(b) /\ q.lifecycle = "ACTIVE" /\ Follows(w.rec, q)
<1>1. w.rec \in Live(b) /\ w.rec \in Record
  BY WorldFields
<1>2. q \in Record /\ q.lifecycle = "ACTIVE" /\ Follows(w.rec, q)
  BY <1>1, SetOwn
<1>3. QED
  BY <1>1, <1>2, Onward

(* A grant to an active target is good once it is saved.                   *)
LEMMA GrantSaved ==
    ASSUME NEW b \in Base, NEW w \in GoodWorld(b), NEW o \in Owner,
           w.rec.lifecycle = "ACTIVE"
    PROVE  Ok(Save(Grant(w, o))) \in Outcome(b)
<1> DEFINE n == Held(w.rec.own.fence + 1, o)
           r == [w.rec EXCEPT !.own = n]
           p == IF isInteractiveOwner(o) THEN o ELSE None
           x == [w EXCEPT !.rec = r, !.disk = r, !.prod = p]
<1>1. r \in Live(b) /\ r.own.fence # b.rec.own.fence
  <2>1. /\ w.rec.own \in Ownership /\ w.rec.own.fence \in Nat
        /\ b.rec.own.fence \in Nat /\ w.rec.own.fence >= b.rec.own.fence
    BY WorldFields
  <2>2. WellOwned(n) /\ Succeeds(w.rec.own, n) /\ n.fence = w.rec.own.fence + 1
    BY <2>1, Ownerships DEF Held
  <2> HIDE DEF n
  <2>3. Reowned(w.rec, n, r)
    BY <2>2, WorldFields, Reowning DEF WellOwned
  <2> HIDE DEF r
  <2>4. QED
    BY <2>1, <2>2, <2>3, OwnAdvanced DEF Reowned
<1>2. Save(Grant(w, o)) = x
  BY WorldFields DEF Grant, Register, Save, PlainWorld
<1>3. w \in PlainWorld(b) /\ p \in Owner \cup {None}
  BY WorldFields
<1> HIDE DEF r, p
<1>4. x \in PlainWorld(b) /\ x.rec = r /\ x.disk = r
  BY <1>1, <1>3 DEF PlainWorld
<1> HIDE DEF x
<1>5. x \in GoodWorld(b)
  BY <1>1, <1>4, FreshGood
<1>6. QED
  BY <1>2, <1>5, Ending

(* A lease extended.                                                       *)
LEMMA ExtendedGood ==
    ASSUME NEW b \in Base, NEW w \in GoodWorld(b), w.rec.lifecycle = "ACTIVE"
    PROVE  /\ Extended(w) \in GoodWorld(b) /\ Extended(w).rec.lifecycle = "ACTIVE"
           /\ Extended(w).prod = w.prod
<1> DEFINE n == [w.rec.own EXCEPT !.expired = FALSE]
           r == [w.rec EXCEPT !.own = n]
<1>1. WellOwned(n) /\ Succeeds(w.rec.own, n)
  <2>1. WellOwned(w.rec.own) /\ w.rec.own \in Ownership /\ w.rec.own.fence \in Nat
    BY WorldFields, RecordOwnership
  <2>2. /\ n \in Ownership /\ n.owner = w.rec.own.owner /\ n.fence = w.rec.own.fence
        /\ n.state = "DRAINING" => w.rec.own.state = "DRAINING" /\ n.next = w.rec.own.next
        /\ n.state # "FREE" <=> w.rec.own.state # "FREE"
    BY <2>1 DEF Ownership
  <2> HIDE DEF n
  <2>3. QED
    BY <2>1, <2>2 DEF WellOwned, Succeeds
<1>2. Extended(w) = [w EXCEPT !.rec = r]
  BY WorldFields DEF PlainWorld, TargetRecord, Extended
<1> HIDE DEF n
<1>3. r \in Live(b) /\ r.lifecycle = "ACTIVE" /\ Follows(w.rec, r)
  <2>1. Reowned(w.rec, n, r)
    BY <1>1, WorldFields, Reowning DEF WellOwned
  <2> HIDE DEF r
  <2>2. QED
    BY <1>1, <2>1, OwnAdvanced
<1> HIDE DEF r
<1>4. QED
  BY <1>2, <1>3, SetRec

(* A lease given up, once saved, whoever produced under it.                *)
LEMMA FreedGood ==
    ASSUME NEW b \in Base, NEW w \in PlainWorld(b), w.rec.lifecycle = "ACTIVE"
    PROVE  Save(Freed(w)) \in GoodWorld(b)
<1> DEFINE n == Free(w.rec.own.fence + 1)
           r == [w.rec EXCEPT !.own = n]
           x == [w EXCEPT !.rec = r, !.disk = r]
<1>1. WellOwned(n) /\ Succeeds(w.rec.own, n) /\ n.state = "FREE"
  BY PlainFields DEF WellOwned, Ownership, Free, Succeeds
<1>2. Save(Freed(w)) = x
  BY PlainFields DEF PlainWorld, Freed, Save
<1> HIDE DEF n
<1>3. r \in Live(b) /\ r.own = n
  <2>1. Reowned(w.rec, n, r)
    BY <1>1, PlainFields, Reowning DEF WellOwned
  <2> HIDE DEF r
  <2>2. /\ w.rec \in Live(b) /\ w.rec \in Record
        /\ r \in Record /\ r.own = n /\ r.lifecycle = "ACTIVE"
        /\ Follows(w.rec, r)
    BY <1>1, <2>1, PlainFields, SetOwn
  <2>3. QED
    BY <2>2, Onward
<1> HIDE DEF r
<1>4. x \in PlainWorld(b) /\ x.rec = r /\ x.disk = r
  BY <1>3 DEF PlainWorld
<1> HIDE DEF x
<1>5. QED
  BY <1>1, <1>2, <1>3, <1>4, FreshGood

(* A handoff begun by the holder of a lease.                               *)
LEMMA DrainingGood ==
    ASSUME NEW b \in Base, NEW w \in GoodWorld(b), NEW next \in Owner,
           w.rec.lifecycle = "ACTIVE", w.rec.own.state = "HELD"
    PROVE  /\ [w EXCEPT !.rec = Draining(w.rec, next)] \in GoodWorld(b)
           /\ Draining(w.rec, next).lifecycle = "ACTIVE"
<1> DEFINE n == [w.rec.own EXCEPT !.state = "DRAINING", !.next = next]
           h == w.rec.handoffs + 1
           r == [w.rec EXCEPT !.own = n, !.handoffs = h]
<1>1. WellOwned(n) /\ Succeeds(w.rec.own, n)
  <2>1. w.rec.own \in Ownership /\ w.rec.own.owner # None /\ w.rec.own.fence \in Nat
    BY RecordOwnership, WorldFields DEF WellOwned
  <2>2. /\ n \in Ownership /\ n.state = "DRAINING" /\ n.next = next
        /\ n.owner = w.rec.own.owner /\ n.fence = w.rec.own.fence
    BY <2>1 DEF Ownership
  <2>3. next # None
    BY RecordAssumption
  <2>4. QED
    BY <2>1, <2>2, <2>3 DEF WellOwned, Succeeds
<1>2. h \in Nat
  BY WorldFields
<1>3. Draining(w.rec, next) = r
  <2>1. w.rec \in TargetRecord /\ w.rec.own \in Ownership
    BY WorldFields
  <2>2. QED
    BY <2>1 DEF Draining, TargetRecord, Ownership
<1> HIDE DEF n, h
<1>4. r \in Live(b) /\ r.lifecycle = "ACTIVE" /\ Follows(w.rec, r)
  <2>1. Reowned(w.rec, n, r)
    BY <1>1, <1>2, WorldFields, Reowning DEF WellOwned
  <2> HIDE DEF r
  <2>2. QED
    BY <1>1, <1>2, <2>1, OwnAdvanced
<1> HIDE DEF r
<1>5. QED
  BY <1>3, <1>4, SetRec

(* A handoff taken back.                                                   *)
LEMMA HeldAgainGood ==
    ASSUME NEW b \in Base, NEW w \in GoodWorld(b),
           w.rec.lifecycle = "ACTIVE", w.rec.own.state = "DRAINING"
    PROVE  LET x == [w EXCEPT !.rec.own.state = "HELD", !.rec.own.next = None]
           IN  x \in GoodWorld(b) /\ x.rec.lifecycle = "ACTIVE"
<1> DEFINE n == [w.rec.own EXCEPT !.state = "HELD", !.next = None]
           r == [w.rec EXCEPT !.own = n]
<1>1. WellOwned(n) /\ Succeeds(w.rec.own, n)
  <2>1. WellOwned(w.rec.own) /\ w.rec.own \in Ownership /\ w.rec.own.fence \in Nat
    BY WorldFields, RecordOwnership
  <2>2. /\ n \in Ownership /\ n.owner = w.rec.own.owner /\ n.fence = w.rec.own.fence
        /\ n.state = "DRAINING" => w.rec.own.state = "DRAINING" /\ n.next = w.rec.own.next
        /\ n.state # "FREE" <=> w.rec.own.state # "FREE"
    BY <2>1 DEF Ownership
  <2> HIDE DEF n
  <2>3. QED
    BY <2>1, <2>2 DEF WellOwned, Succeeds
<1>2. [w EXCEPT !.rec.own.state = "HELD", !.rec.own.next = None]
        = [w EXCEPT !.rec = r]
  <2>1. /\ w.rec \in TargetRecord /\ w.rec.own \in Ownership
        /\ w \in PlainWorld(b)
    BY WorldFields
  <2>2. QED
    BY <2>1, ZenonT(40) DEF PlainWorld, TargetRecord, Ownership
<1> HIDE DEF n
<1>3. r \in Live(b) /\ r.lifecycle = "ACTIVE" /\ Follows(w.rec, r)
  <2>1. Reowned(w.rec, n, r)
    BY <1>1, WorldFields, Reowning DEF WellOwned
  <2> HIDE DEF r
  <2>2. QED
    BY <1>1, <2>1, OwnAdvanced
<1> HIDE DEF r
<1>4. [w EXCEPT !.rec = r] \in GoodWorld(b) /\ [w EXCEPT !.rec = r].rec = r
  BY <1>3, SetRec
<1>5. QED
  BY <1>2, <1>3, <1>4

-----------------------------------------------------------------------------
(* The handlers.                                                           *)

(* The fencing of an operation left open, before anything else is done.    *)
LEMMA OpenMarked ==
    ASSUME NEW b \in Base, NEW w \in GoodWorld(b), w.rec.lifecycle = "ACTIVE"
    PROVE  /\ [w EXCEPT !.rec = markRecovery(w.rec, "OPERATION_IN_DOUBT")]
                 \in GoodWorld(b)
           /\ Save([w EXCEPT !.rec = markRecovery(w.rec, "OPERATION_IN_DOUBT")])
                 \in GoodWorld(b)
<1> DEFINE r == markRecovery(w.rec, "OPERATION_IN_DOUBT")
           x == [w EXCEPT !.rec = r]
<1>1. r \in Live(b) /\ Follows(w.rec, r)
  <2>1. "OPERATION_IN_DOUBT" \in RecoveryReason
    BY DEF RecoveryReason
  <2>2. QED
    BY <2>1, WorldFields, MarkRecoveryRecord, Onward
<1> HIDE DEF r
<1>2. x \in GoodWorld(b)
  BY <1>1, SetRec
<1> HIDE DEF x
<1>3. Save(x) \in GoodWorld(b)
  BY <1>2, SaveGood
<1>4. QED
  BY <1>2, <1>3 DEF x, r

(* Preparing what is active, and leaving the rest as it is.                *)
LEMMA PrepareActive ==
    ASSUME NEW b \in Base, NEW S, S \subseteq Outcome(b)
    PROVE  UNION {IF x.rec.lifecycle = "ACTIVE" THEN prepareOutput(x)
                  ELSE {Ok(x)} : x \in Worlds(S)} \subseteq Outcome(b)
<1>1. ASSUME NEW x \in Worlds(S),
             NEW o \in IF x.rec.lifecycle = "ACTIVE" THEN prepareOutput(x)
                       ELSE {Ok(x)}
      PROVE  o \in Outcome(b)
  <2>1. x \in GoodWorld(b)
    BY Filtered
  <2>2. /\ Ok(x) \in Outcome(b)
        /\ x.rec.lifecycle = "ACTIVE" => prepareOutput(x) \subseteq Outcome(b)
    BY <2>1, PrepareOutputGood, Ending
  <2>3. QED
    BY <1>1, <2>2
<1>2. QED
  BY <1>1

(* target.resolve.                                                         *)
LEMMA ResolveGood ==
    ASSUME NEW b \in Base, NEW w \in GoodWorld(b)
    PROVE  resolveTarget(w) \subseteq Outcome(b)
<1> DEFINE marked == IF Pending(w.rec) /\ w.rec.lifecycle = "ACTIVE"
                       THEN [w EXCEPT !.rec = markRecovery(w.rec, "OPERATION_IN_DOUBT")]
                       ELSE w
           s == reconcileAbandonedOwnership(marked)
           c == UNION {IF x.rec.lifecycle = "ACTIVE" THEN prepareOutput(x)
                       ELSE {Ok(x)} : x \in Worlds(s)}
<1>1. marked \in GoodWorld(b)
  BY OpenMarked
<1>2. resolved(w) = Ended(s) \cup c
  BY DEF resolved
<1> HIDE DEF marked
<1>3. s \subseteq Outcome(b)
  BY <1>1, ReconcileGood
<1> HIDE DEF s
<1>4. c \subseteq Outcome(b)
  BY <1>3, PrepareActive
<1> HIDE DEF c
<1>5. resolved(w) \subseteq Outcome(b)
  BY <1>2, <1>3, <1>4, Filtered
<1>6. ASSUME NEW o \in resolveTarget(w)
      PROVE  o \in Outcome(b)
  <2>1. PICK x \in resolved(w) : (x.end = "ok" /\ o = Ok(Save(x.w))) \/ o = x
    BY DEF resolveTarget
  <2>2. x \in Outcome(b) /\ (x.end = "ok" => x.w \in GoodWorld(b))
    BY <1>5, OutcomeFields
  <2>3. x.end = "ok" => Ok(Save(x.w)) \in Outcome(b)
    BY <2>2, SaveGood, Ending
  <2>4. QED
    BY <2>1, <2>2, <2>3
<1>7. QED
  BY <1>6

(* target.status.                                                          *)
LEMMA StatusGood ==
    ASSUME NEW b \in Base, NEW w \in GoodWorld(b)
    PROVE  status(w) \subseteq Outcome(b)
<1> DEFINE marked == IF Pending(w.rec) /\ w.rec.lifecycle = "ACTIVE"
                       THEN Save([w EXCEPT !.rec =
                                    markRecovery(w.rec, "OPERATION_IN_DOUBT")])
                       ELSE w
           s == reconcileAbandonedOwnership(marked)
           c == UNION {IF x.rec.lifecycle = "ACTIVE" THEN assertTargetCurrent(x)
                       ELSE {Ok(x)} : x \in Worlds(s)}
           d == UNION {IF x.rec.lifecycle = "ACTIVE" THEN prepareOutput(x)
                       ELSE {Ok(x)} : x \in Worlds(c)}
<1>1. marked \in GoodWorld(b)
  BY OpenMarked
<1>2. status(w) = Ended(s) \cup Ended(c) \cup d
  BY DEF status
<1> HIDE DEF marked
<1>3. s \subseteq Outcome(b)
  BY <1>1, ReconcileGood
<1> HIDE DEF s
<1>4. c \subseteq Outcome(b)
  <2>1. ASSUME NEW x \in Worlds(s),
               NEW o \in IF x.rec.lifecycle = "ACTIVE" THEN assertTargetCurrent(x)
                         ELSE {Ok(x)}
        PROVE  o \in Outcome(b)
    <3>1. x \in GoodWorld(b)
      BY <1>3, Filtered
    <3>2. assertTargetCurrent(x) \subseteq Outcome(b) /\ Ok(x) \in Outcome(b)
      BY <3>1, AssertCurrentGood, Ending
    <3>3. QED
      BY <2>1, <3>2
  <2>2. QED
    BY <2>1
<1> HIDE DEF c
<1>5. d \subseteq Outcome(b)
  BY <1>4, PrepareActive
<1> HIDE DEF d
<1>6. QED
  BY <1>2, <1>3, <1>4, <1>5, Filtered

(* What a handler goes on with once its target is proved current.          *)
LEMMA CurrentWorlds ==
    ASSUME NEW b \in Base, NEW w \in GoodWorld(b)
    PROVE  /\ Ended(assertTargetCurrent(w)) \subseteq Outcome(b)
           /\ \A x \in Worlds(assertTargetCurrent(w)) :
                 /\ x \in GoodWorld(b) /\ Operable(x.rec)
                 /\ x.rec.journal = w.rec.journal
<1>1. assertTargetCurrent(w) \subseteq Outcome(b)
  BY AssertCurrentGood
<1>2. ASSUME NEW x \in Worlds(assertTargetCurrent(w))
      PROVE  /\ x \in GoodWorld(b) /\ Operable(x.rec)
             /\ x.rec.journal = w.rec.journal
  <2>1. x \in GoodWorld(b)
    BY <1>1, Filtered
  <2>2. PICK o \in assertTargetCurrent(w) : o.end = "ok" /\ o.w = x
    BY DEF Worlds
  <2>3. QED
    BY <2>1, <2>2, AssertCurrentGood
<1>3. QED
  BY <1>1, <1>2, Filtered

(* What it goes on with once the output is prepared or reset.              *)
LEMMA PreparedWorlds ==
    ASSUME NEW b \in Base, NEW w \in GoodWorld(b),
           w.rec.lifecycle # "TARGET_GONE",
           NEW S \in {prepareOutput(w), resetOutput(w), Repair(w)}
    PROVE  /\ Ended(S) \subseteq Outcome(b)
           /\ \A x \in Worlds(S) :
                 /\ x \in GoodWorld(b) /\ OnlyOutput(x, w) /\ Kept(x.rec, w.rec)
           /\ \A o \in Ended(S) :
                 o.end = "crash" \/ (o.end = "error" /\ FencedOff(o.w))
<1>1. /\ S \subseteq Outcome(b)
      /\ \A o \in S : Prepares(w, o)
  BY PrepareOutputGood, ResetOutputGood, RepairGood
<1>2. ASSUME NEW x \in Worlds(S)
      PROVE  x \in GoodWorld(b) /\ OnlyOutput(x, w)
  <2>1. PICK o \in S : o.end = "ok" /\ o.w = x
    BY DEF Worlds
  <2>2. QED
    BY <1>1, <2>1, OutcomeFields DEF Prepares
<1>3. \A o \in Ended(S) :
         o.end = "crash" \/ (o.end = "error" /\ FencedOff(o.w))
  BY <1>1 DEF Ended, Prepares
<1>4. QED
  BY <1>1, <1>2, <1>3, Filtered DEF OnlyOutput

(* lease.acquire.                                                          *)
LEMMA AcquireFromGood ==
    ASSUME NEW b \in Base, NEW w \in GoodWorld(b), Operable(w.rec), NEW o \in Owner
    PROVE  acquireFrom(w, o) \subseteq Outcome(b)
<1> DEFINE prepared == prepareOutput(w)
           reset == resetOutput(w)
           A == Ended(prepared) \cup {Ok(Save(Grant(x, o))) : x \in Worlds(prepared)}
           B == Ended(prepared) \cup {Join(x, o) : x \in Worlds(prepared)}
           C == Ended(reset) \cup {Ok(Save(Grant(x, o))) : x \in Worlds(reset)}
<1>1. \/ acquireFrom(w, o) = A \/ acquireFrom(w, o) = B
      \/ acquireFrom(w, o) = C \/ acquireFrom(w, o) = {Error(w)}
  BY DEF acquireFrom
<1>2. ASSUME NEW S \in {prepared, reset}
      PROVE  /\ Ended(S) \subseteq Outcome(b)
             /\ \A x \in Worlds(S) : x \in GoodWorld(b) /\ x.rec.lifecycle = "ACTIVE"
  BY PreparedWorlds DEF Kept, Operable
<1>3. ASSUME NEW x \in GoodWorld(b), x.rec.lifecycle = "ACTIVE"
      PROVE  Ok(Save(Grant(x, o))) \in Outcome(b) /\ Join(x, o) \in Outcome(b)
  <2>1. MayProduce(x, o) => Ok(Save(Register(Extended(x), o))) \in Outcome(b)
    <3>1. SUFFICES ASSUME MayProduce(x, o)
                   PROVE  Ok(Save(Register(Extended(x), o))) \in Outcome(b)
      OBVIOUS
    <3>2. Extended(x) \in GoodWorld(b) /\ MayProduce(Extended(x), o)
      BY <1>3, <3>1, ExtendedGood DEF MayProduce
    <3>3. QED
      BY <3>2, RegisterGood, SaveGood, Ending
  <2>2. QED
    BY <1>3, <2>1, GrantSaved, Ending DEF Join
<1> HIDE DEF prepared, reset
<1>4. A \subseteq Outcome(b) /\ B \subseteq Outcome(b) /\ C \subseteq Outcome(b)
  BY <1>2, <1>3
<1> HIDE DEF A, B, C
<1>5. QED
  BY <1>1, <1>4, Ending

(* lease.acquire ends in good worlds.                                      *)
LEMMA AcquireGood ==
    ASSUME NEW b \in Base, NEW w \in GoodWorld(b), NEW o \in Owner
    PROVE  acquire(w, o) \subseteq Outcome(b)
  BY CurrentWorlds, AcquireFromGood DEF acquire

(* lease.renew.                                                            *)
LEMMA RenewFromGood ==
    ASSUME NEW b \in Base, NEW w \in GoodWorld(b), Operable(w.rec), NEW l, l.owner \in Owner
    PROVE  renewFrom(w, l) \subseteq Outcome(b)
<1> DEFINE x == Extended(w)
           y == Register(x, l.owner)
           s == prepareOutput(y)
<1>1. \/ renewFrom(w, l) = {Error(w)}
      \/ /\ MayProduce(w, l.owner)
         /\ renewFrom(w, l) = Ended(s) \cup {Ok(Save(z)) : z \in Worlds(s)}
  BY DEF renewFrom
<1>2. /\ x \in GoodWorld(b) /\ x.rec.lifecycle = "ACTIVE"
      /\ MayProduce(w, l.owner) => MayProduce(x, l.owner)
  BY ExtendedGood DEF Operable, MayProduce
<1> HIDE DEF x
<1>3. MayProduce(w, l.owner) =>
         y \in GoodWorld(b) /\ y.rec.lifecycle = "ACTIVE"
  BY <1>2, RegisterGood
<1> HIDE DEF y
<1>4. MayProduce(w, l.owner) =>
         Ended(s) \subseteq Outcome(b) /\ \A z \in Worlds(s) : z \in GoodWorld(b)
  BY <1>3, PreparedWorlds
<1> HIDE DEF s
<1>5. QED
  BY <1>1, <1>4, SaveGood, Ending

(* lease.renew ends in good worlds.                                        *)
LEMMA RenewGood ==
    ASSUME NEW b \in Base, NEW w \in GoodWorld(b), NEW l, l.owner \in Owner
    PROVE  renew(w, l) \subseteq Outcome(b)
  BY CurrentWorlds, RenewFromGood DEF renew

(* lease.release.                                                          *)
LEMMA ReleaseFromGood ==
    ASSUME NEW b \in Base, NEW w \in GoodWorld(b), Operable(w.rec), NEW l,
           NEW observed \in BOOLEAN
    PROVE  releaseFrom(w, l, observed) \subseteq Outcome(b)
<1> DEFINE c == Unattended(b)
           x == [w EXCEPT !.prod = None]
           s == IF observed THEN prepareOutput(x) ELSE resetOutput(x)
<1>1. \/ releaseFrom(w, l, observed) = {Error(w)}
      \/ releaseFrom(w, l, observed) = prepareOutput(w)
      \/ releaseFrom(w, l, observed) =
           Ended(s) \cup {Ok(Save(Freed(y))) : y \in Worlds(s)}
  BY DEF releaseFrom
<1>2. /\ c \in Base /\ GoodWorld(c) = PlainWorld(b)
      /\ PlainWorld(c) = PlainWorld(b)
  BY UnattendedWorld
<1>3. x \in PlainWorld(b) /\ x.rec.lifecycle = "ACTIVE"
  BY WorldFields DEF PlainWorld, Operable
<1> HIDE DEF x, c
<1>4. /\ Ended(s) \subseteq Outcome(c)
      /\ \A y \in Worlds(s) : y \in PlainWorld(b) /\ y.rec.lifecycle = "ACTIVE"
      /\ \A o \in Ended(s) :
            o.end = "crash" \/ (o.end = "error" /\ FencedOff(o.w))
  BY <1>2, <1>3, PreparedWorlds DEF Kept
<1> HIDE DEF s
<1>5. ASSUME NEW o \in Ended(s)
      PROVE  o \in Outcome(b)
  <2>1. /\ o \in [w : PlainWorld(b), end : Ends] /\ o.w \in PlainWorld(b)
        /\ o.end # "accepted"
    BY <1>2, <1>4 DEF Outcome
  <2>2. o.end # "crash" => o.w \in GoodWorld(b)
    <3>1. SUFFICES ASSUME FencedOff(o.w) PROVE o.w \in GoodWorld(b)
      BY <1>4
    <3>2. QED
      BY <2>1, <3>1, FreshGood DEF FencedOff
  <2>3. QED
    BY <2>1, <2>2 DEF Outcome
<1>6. ASSUME NEW y \in Worlds(s)
      PROVE  Ok(Save(Freed(y))) \in Outcome(b)
  BY <1>4, FreedGood, Ending
<1>7. QED
  BY <1>1, <1>5, <1>6, PrepareOutputGood, Ending DEF Operable

(* lease.release ends in good worlds.                                      *)
LEMMA ReleaseGood ==
    ASSUME NEW b \in Base, NEW w \in GoodWorld(b), NEW l, NEW observed \in BOOLEAN
    PROVE  release(w, l, observed) \subseteq Outcome(b)
  BY CurrentWorlds, ReleaseFromGood DEF release

(* handoff.begin.                                                          *)
LEMMA BeginFromGood ==
    ASSUME NEW b \in Base, NEW w \in GoodWorld(b), Operable(w.rec), NEW next \in Owner, NEW l
    PROVE  beginFrom(w, next, l) \subseteq Outcome(b)
<1> DEFINE prepared == prepareOutput(w)
           y == [w EXCEPT !.rec = Draining(w.rec, next)]
           draining == prepareOutput(y)
           A == Ended(prepared) \cup {Ok(Save(Grant(x, next))) : x \in Worlds(prepared)}
           B == Ended(prepared) \cup
                {IF MayProduce(x, next) THEN Ok(Register(x, next)) ELSE Error(x) :
                   x \in Worlds(prepared)}
           C == Ended(draining) \cup {Ok(Save(x)) : x \in Worlds(draining)}
<1>1. \/ beginFrom(w, next, l) \in {A, B, prepared, {Error(w)}}
      \/ beginFrom(w, next, l) = C /\ w.rec.own.state = "HELD"
  <2>1. w.rec.own.state \in {"FREE", "HELD", "DRAINING"}
    BY WorldFields DEF Ownership
  <2>2. QED
    BY <2>1 DEF beginFrom
<1>2. /\ Ended(prepared) \subseteq Outcome(b)
      /\ \A x \in Worlds(prepared) :
            x \in GoodWorld(b) /\ x.rec.lifecycle = "ACTIVE"
  BY PreparedWorlds DEF Kept, Operable
<1>3. prepared \subseteq Outcome(b)
  BY PrepareOutputGood DEF Operable
<1>4. w.rec.own.state = "HELD" => C \subseteq Outcome(b)
  <2>1. SUFFICES ASSUME w.rec.own.state = "HELD" PROVE C \subseteq Outcome(b)
    OBVIOUS
  <2>2. y \in GoodWorld(b) /\ y.rec.lifecycle = "ACTIVE"
    <3>1. y \in GoodWorld(b) /\ Draining(w.rec, next).lifecycle = "ACTIVE"
      BY <2>1, DrainingGood DEF Operable
    <3>2. y.rec = Draining(w.rec, next)
      BY WorldFields DEF PlainWorld
    <3>3. QED
      BY <3>1, <3>2
  <2> HIDE DEF y
  <2>3. /\ Ended(draining) \subseteq Outcome(b)
        /\ \A x \in Worlds(draining) : x \in GoodWorld(b)
    BY <2>2, PreparedWorlds
  <2>4. QED
    BY <2>3, SaveGood, Ending
<1> HIDE DEF prepared, C
<1>5. A \subseteq Outcome(b)
  BY <1>2, GrantSaved
<1>6. B \subseteq Outcome(b)
  BY <1>2, RegisterGood, Ending
<1> HIDE DEF A, B
<1>7. QED
  BY <1>1, <1>3, <1>4, <1>5, <1>6, Ending

(* handoff.begin ends in good worlds.                                      *)
LEMMA BeginGood ==
    ASSUME NEW b \in Base, NEW w \in GoodWorld(b), NEW next \in Owner, NEW l
    PROVE  beginHandoff(w, next, l) \subseteq Outcome(b)
  BY CurrentWorlds, BeginFromGood DEF beginHandoff

(* handoff.commit.                                                         *)
LEMMA CommitFromGood ==
    ASSUME NEW b \in Base, NEW w \in GoodWorld(b), Operable(w.rec), NEW h, NEW l, NEW drain
    PROVE  commitFrom(w, h, l, drain) \subseteq Outcome(b)
<1> DEFINE s == resetOutput(w)
           next == w.rec.own.next
           A == Ended(s) \cup {Ok(Save(Grant(x, next))) : x \in Worlds(s)}
           e == Error(MarkAndSave(w, "DRAIN_UNCERTAIN"))
<1>1. \/ commitFrom(w, h, l, drain) = {Error(w)}
      \/ commitFrom(w, h, l, drain) = {e}
      \/ commitFrom(w, h, l, drain) = A /\ w.rec.own.state = "DRAINING"
  BY DEF commitFrom, CurrentHandoff
<1>2. "DRAIN_UNCERTAIN" \in RecoveryReason
  BY DEF RecoveryReason
<1>3. e \in Outcome(b)
  BY <1>2, MarkAndSaveGood, Ending DEF Operable
<1>4. w.rec.own.state = "DRAINING" => next \in Owner
  BY WorldFields, RecordOwnership DEF WellOwned, Ownership
<1>5. /\ Ended(s) \subseteq Outcome(b)
      /\ \A x \in Worlds(s) : x \in GoodWorld(b) /\ x.rec.lifecycle = "ACTIVE"
  BY PreparedWorlds DEF Kept, Operable
<1> HIDE DEF s, next, e
<1>6. w.rec.own.state = "DRAINING" => A \subseteq Outcome(b)
  BY <1>4, <1>5, GrantSaved
<1> HIDE DEF A
<1>7. QED
  BY <1>1, <1>3, <1>6, Ending

(* handoff.commit ends in good worlds.                                     *)
LEMMA CommitGood ==
    ASSUME NEW b \in Base, NEW w \in GoodWorld(b), NEW h, NEW l, NEW drain
    PROVE  commitHandoff(w, h, l, drain) \subseteq Outcome(b)
  BY CurrentWorlds, CommitFromGood DEF commitHandoff

(* handoff.cancel and handoff.withdraw.                                    *)
LEMMA BackToHeldGood ==
    ASSUME NEW b \in Base, NEW w \in GoodWorld(b), Operable(w.rec), w.rec.own.state = "DRAINING"
    PROVE  backToHeld(w) \subseteq Outcome(b)
<1> DEFINE y == [w EXCEPT !.rec.own.state = "HELD", !.rec.own.next = None]
           s == prepareOutput(y)
<1>1. y \in GoodWorld(b) /\ y.rec.lifecycle = "ACTIVE"
  BY HeldAgainGood DEF Operable
<1>2. backToHeld(w) = Ended(s) \cup {Ok(Save(x)) : x \in Worlds(s)}
  BY DEF backToHeld
<1> HIDE DEF y
<1>3. Ended(s) \subseteq Outcome(b) /\ \A x \in Worlds(s) : x \in GoodWorld(b)
  BY <1>1, PreparedWorlds
<1> HIDE DEF s
<1>4. QED
  BY <1>2, <1>3, SaveGood, Ending

(* handoff.cancel ends in good worlds.                                     *)
LEMMA CancelGood ==
    ASSUME NEW b \in Base, NEW w \in GoodWorld(b), NEW h, NEW l
    PROVE  cancelHandoff(w, h, l) \subseteq Outcome(b)
  BY CurrentWorlds, BackToHeldGood, Ending DEF cancelHandoff, CurrentHandoff

(* handoff.withdraw ends in good worlds.                                   *)
LEMMA WithdrawGood ==
    ASSUME NEW b \in Base, NEW w \in GoodWorld(b), NEW h, NEW next
    PROVE  withdrawHandoff(w, h, next) \subseteq Outcome(b)
  BY CurrentWorlds, BackToHeldGood, Ending DEF withdrawHandoff, CurrentHandoff

(* handoff.force.  The record it recovers is fenced, so it is free.        *)
LEMMA RecoveredGood ==
    ASSUME NEW b \in Base, NEW w \in GoodWorld(b), w.rec.lifecycle = "RECOVERY_REQUIRED",
           NEW next \in Owner
    PROVE  Ok(Recovered(w, next)) \in Outcome(b)
<1> DEFINE r == [w.rec EXCEPT !.lifecycle = "ACTIVE", !.recovery = NoRecovery,
                              !.pinned = {}]
           x == [w EXCEPT !.rec = r]
<1>1. w.rec \in Live(b) /\ w.rec \in TargetRecord /\ isTarget(w.rec)
  BY WorldFields
<1>2. NoRecovery \in Recovery /\ NoRecovery.reason = None
  BY DEF NoRecovery, Recovery
<1>3. r \in TargetRecord
  BY <1>1, <1>2 DEF TargetRecord
<1>4. /\ r.lifecycle = "ACTIVE" /\ r.recovery = NoRecovery /\ r.own = w.rec.own
      /\ r.journal = w.rec.journal /\ r.inFlight = w.rec.inFlight /\ r.pinned = {}
      /\ r.dropped = w.rec.dropped /\ r.incarnation = w.rec.incarnation
  BY <1>1 DEF TargetRecord
<1>5. Recovered(w, next) = Save(Grant(x, next))
  BY WorldFields DEF Recovered, PlainWorld
<1> HIDE DEF r
<1>6. isTarget(r)
  BY <1>1, <1>2, <1>4 DEF isTarget, Pending, JournalIds
<1>7. Honest(r) /\ Follows(w.rec, r)
  <2>1. Succeeds(w.rec.own, r.own)
    BY <1>1, <1>4, Fences DEF Succeeds
  <2>2. QED
    BY <1>1, <1>3, <1>4, <2>1, FollowsAlike DEF Honest
<1>8. r \in Live(b)
  BY <1>1, <1>3, <1>4, <1>6, <1>7, Onward DEF Record
<1>9. x \in GoodWorld(b) /\ x.rec = r
  BY <1>7, <1>8, SetRec
<1> HIDE DEF x
<1>10. QED
  BY <1>4, <1>5, <1>9, GrantSaved

(* The takeover of a fenced target ends in good worlds.                    *)
LEMMA TakenGood ==
    ASSUME NEW b \in Base, NEW w \in GoodWorld(b), w.rec.lifecycle = "RECOVERY_REQUIRED",
           NEW next \in Owner
    PROVE  Taken(w, next) \subseteq Outcome(b)
<1> DEFINE r == completeInFlightAsInDoubt(w.rec)
           y == [w EXCEPT !.rec = r]
<1>1. r \in Live(b) /\ r.lifecycle = "RECOVERY_REQUIRED" /\ Follows(w.rec, r)
  <2>1. w.rec \in Live(b) /\ w.rec \in Record /\ w.rec.lifecycle # "UNUSED"
    BY WorldFields
  <2>2. r \in Record /\ r.lifecycle = "RECOVERY_REQUIRED" /\ Follows(w.rec, r)
    BY <2>1, CompleteInFlight
  <2> HIDE DEF r
  <2>3. QED
    BY <2>1, <2>2, Onward
<1>2. Taken(w, next) = {IF o.end = "ok" THEN Ok(Recovered(o.w, next)) ELSE o :
                          o \in backendRecoverOutput(y)}
  BY DEF Taken
<1> HIDE DEF r
<1>3. y \in GoodWorld(b) /\ y.rec = r
  BY <1>1, SetRec
<1> HIDE DEF y
<1>4. ASSUME NEW o \in backendRecoverOutput(y)
      PROVE  o \in Outcome(b) /\ Ok(Recovered(o.w, next)) \in Outcome(b)
  <2>1. o \in Outcome(b) /\ o.w \in GoodWorld(b) /\ Kept(o.w.rec, r)
    BY <1>3, BackendRecoverGood DEF OnlyOutput
  <2>2. QED
    BY <1>1, <2>1, RecoveredGood DEF Kept
<1>5. QED
  BY <1>2, <1>4

(* handoff.force ends in good worlds.                                      *)
LEMMA ForceGood ==
    ASSUME NEW b \in Base, NEW w \in GoodWorld(b), NEW e, NEW next \in Owner, NEW proof
    PROVE  forceHandoff(w, e, next, proof) \subseteq Outcome(b)
<1> DEFINE x == IF w.rec.lifecycle = "ACTIVE" /\ leaseExpired(w.rec)
                  THEN MarkAndSave(w, "LEASE_EXPIRED") ELSE w
           T(p) == CASE p.answer = "gone" -> {Error(InvalidateAndSave(p.w))}
                     [] p.answer = "uncertain" -> {Error(p.w)}
                     [] p.answer = "current" -> Taken(p.w, next)
<1>1. "LEASE_EXPIRED" \in RecoveryReason
  BY DEF RecoveryReason
<1>2. x \in GoodWorld(b)
  <2>1. CASE w.rec.lifecycle = "ACTIVE" /\ leaseExpired(w.rec)
    BY <1>1, <2>1, MarkAndSaveGood
  <2>2. CASE ~(w.rec.lifecycle = "ACTIVE" /\ leaseExpired(w.rec))
    BY <2>2
  <2>3. QED
    BY <2>1, <2>2
<1>3. \/ forceHandoff(w, e, next, proof) \in {{Error(w)}, {Error(x)}}
      \/ /\ MayForce(x.rec, proof)
         /\ forceHandoff(w, e, next, proof) = UNION {T(p) : p \in Probes(x)}
  BY DEF forceHandoff
<1> HIDE DEF x
<1>4. ASSUME MayForce(x.rec, proof), NEW p \in Probes(x)
      PROVE  T(p) \subseteq Outcome(b)
  <2>1. /\ p.w \in GoodWorld(b) /\ p.w.rec.lifecycle = "RECOVERY_REQUIRED"
        /\ p.answer \in {"current", "gone", "uncertain"}
    BY <1>2, <1>4, ProbesGood DEF MayForce
  <2>2. CASE p.answer = "gone"
    BY <2>1, <2>2, InvalidateAndSaveGood, Ending
  <2>3. CASE p.answer = "uncertain"
    BY <2>1, <2>3, Ending
  <2>4. CASE p.answer = "current"
    BY <2>1, <2>4, TakenGood
  <2>5. QED
    BY <2>1, <2>2, <2>3, <2>4
<1> HIDE DEF T
<1>5. QED
  BY <1>2, <1>3, <1>4, Ending

(* output.tail.                                                            *)

(* tailOutput of the backend changes tmux at most.                         *)
LEMMA BackendTailGood ==
    ASSUME NEW b \in Base, NEW w \in GoodWorld(b), NEW g
    PROVE  /\ backendTailOutput(w, g) \subseteq Outcome(b)
           /\ \A o \in backendTailOutput(w, g) : o.w \in GoodWorld(b)
<1> DEFINE y == LostRotation(w, FreshGeneration(w))
<1>1. y \in GoodWorld(b)
  BY Generations, LostRotationGood
<1>2. backendTailOutput(w, g) \subseteq
        {Ok(w), Error(Spend(w)), Ok(y), Error(y), Error(w)}
  BY DEF backendTailOutput
<1> HIDE DEF y
<1>3. QED
  BY <1>1, <1>2, SpendGood, Ending

(* The second look after a failed tail ends in good worlds.                *)
LEMMA ReprobeGood ==
    ASSUME NEW b \in Base, NEW w \in GoodWorld(b)
    PROVE  tailGoneErrorWithReprobe(w) \subseteq Outcome(b)
  BY CurrentWorlds, OutputUncertainGood DEF tailGoneErrorWithReprobe, Operable

(* output.tail ends in good worlds.                                        *)
LEMMA TailGood ==
    ASSUME NEW b \in Base, NEW w \in GoodWorld(b), NEW e, NEW g
    PROVE  tailOutput(w, e, g) \subseteq Outcome(b)
<1> DEFINE s == assertTargetCurrent(w)
           T(x) == UNION {IF o.end = "ok" THEN {o}
                          ELSE tailGoneErrorWithReprobe(o.w) :
                            o \in backendTailOutput(x, g)}
<1>1. \/ tailOutput(w, e, g) = {Error(w)}
      \/ tailOutput(w, e, g) = Ended(s) \cup UNION {T(x) : x \in Worlds(s)}
  BY DEF tailOutput
<1>2. ASSUME NEW x \in Worlds(s)
      PROVE  T(x) \subseteq Outcome(b)
  <2>1. /\ backendTailOutput(x, g) \subseteq Outcome(b)
        /\ \A o \in backendTailOutput(x, g) : o.w \in GoodWorld(b)
    BY CurrentWorlds, BackendTailGood
  <2>2. QED
    BY <2>1, ReprobeGood
<1> HIDE DEF T
<1>3. QED
  BY <1>1, <1>2, CurrentWorlds, Ending

(* A world that may take an operation: the record is held under the fence  *)
(* of the lease, has nothing in flight and does not know the operation,    *)
(* and the owner shares the lease and produces.                            *)
Accepting(w, l, id, kind) ==
    /\ Operable(w.rec) /\ w.rec.own.state = "HELD" /\ l.fence = w.rec.own.fence
    /\ id \notin JournalIds(w.rec)
    /\ kind # "lifecycle-kill" =>
         /\ sameInputOwnerClass(w.rec.own.owner, l.owner)
         /\ isInteractiveOwner(l.owner) => w.prod = l.owner

(* The durable in-flight mark.                                             *)
LEMMA AcceptedGood ==
    ASSUME NEW b \in Base, NEW w \in GoodWorld(b), NEW l, l.owner \in Owner,
           NEW id \in OpId, NEW kind \in OpKind, Accepting(w, l, id, kind)
    PROVE  Accepted(w, l, id, kind) \in Outcome(b)
<1> DEFINE op == [id |-> id, kind |-> kind, owner |-> l.owner, fence |-> l.fence,
                  gen |-> w.rec.gen]
           r == [w.rec EXCEPT !.inFlight = op]
           x == [w EXCEPT !.rec = r]
<1>1. /\ w.rec \in TargetRecord /\ isTarget(w.rec) /\ Honest(w.rec)
      /\ w.rec.gen \in Generation /\ w.rec.own.fence \in Nat
      /\ w.rec \in Live(b) /\ w.rec \in Record /\ b.rec \in Record
  BY WorldFields
<1>2. /\ op \in InFlight /\ op.id = id /\ op.fence = w.rec.own.fence
      /\ op.kind = kind /\ op.owner = l.owner
  BY <1>1 DEF InFlight, Accepting
<1>3. id # None
  BY RecordAssumption
<1>4. Accepted(w, l, id, kind) = [w |-> Save(x), end |-> "accepted"]
  BY WorldFields DEF Accepted, PlainWorld
<1> HIDE DEF op
<1>5. /\ r \in TargetRecord /\ r.inFlight = op /\ r.own = w.rec.own
      /\ r.lifecycle = w.rec.lifecycle /\ r.journal = w.rec.journal
      /\ r.recovery = w.rec.recovery /\ r.pinned = w.rec.pinned
      /\ r.dropped = w.rec.dropped /\ r.incarnation = w.rec.incarnation
  BY <1>1, <1>2 DEF TargetRecord
<1> HIDE DEF r
<1>6. isTarget(r)
  BY <1>1, <1>2, <1>5 DEF isTarget, JournalIds, Accepting
<1>7. InCall(r)
  BY <1>2, <1>3, <1>5 DEF InCall, Pending, Accepting, Operable
<1>8. Authorised(r, w.prod)
  BY <1>2, <1>5 DEF Authorised, Accepting
<1>9. Recalls(b.rec, r)
  <2>1. w.rec.lifecycle = "ACTIVE" /\ ~Pending(w.rec) /\ Minds(b.rec, w.rec)
    BY <1>1 DEF Live, Follows, Accepting, Operable
  <2>2. Known(r) = Known(w.rec)
    BY <1>5 DEF Known, JournalIds
  <2>3. QED
    BY <2>1, <2>2 DEF Minds, Recalls, Pending
<1>10. x \in GoodWorld(b) /\ x.rec = r /\ x.prod = w.prod
  <2>1. Honest(r)
    BY <1>1, <1>5, <1>7 DEF Honest, InCall
  <2>2. Follows(w.rec, r)
    <3>1. Succeeds(w.rec.own, r.own)
      BY <1>1, <1>5, Fences DEF Succeeds
    <3>2. ~Pending(w.rec)
      BY DEF Accepting, Operable
    <3>3. QED
      BY <1>1, <1>5, <3>1, <3>2, FollowsAlike
  <2>3. r.lifecycle # "UNUSED"
    BY <1>7 DEF InCall
  <2>4. r \in Live(b)
    BY <1>1, <1>5, <1>6, <2>1, <2>2, <2>3, Onward DEF Record
  <2>5. QED
    BY <2>2, <2>4, SetRec
<1> HIDE DEF x
<1>11. /\ Save(x) \in GoodWorld(b) /\ Save(x).disk = r /\ Save(x).prod = w.prod
       /\ Save(x) \in PlainWorld(b)
  BY <1>10, SaveGood, WorldFields
<1>12. QED
  BY <1>4, <1>7, <1>8, <1>9, <1>11 DEF Outcome, Ends

(* Looking the capture up, or preparing it, keeps an accepting record so.  *)
LEMMA PositionWorlds ==
    ASSUME NEW b \in Base, NEW w \in GoodWorld(b), NEW l,
           w.rec.lifecycle # "TARGET_GONE"
    PROVE  /\ Ended(rawInputPosition(w, l)) \subseteq Outcome(b)
           /\ \A x \in Worlds(rawInputPosition(w, l)) :
                 x \in GoodWorld(b) /\ OnlyOutput(x, w)
<1> DEFINE v == Spend(w)
<1>1. v \in GoodWorld(b) /\ v.rec = w.rec /\ v.prod = w.prod
  BY SpendGood
<1> HIDE DEF v
<1>2. /\ Ended(Repair(v)) \subseteq Outcome(b)
      /\ \A x \in Worlds(Repair(v)) : x \in GoodWorld(b) /\ OnlyOutput(x, w)
  BY <1>1, PreparedWorlds DEF OnlyOutput
<1>3. OutputUncertain(v) \in Outcome(b) /\ OutputUncertain(v).end = "error"
  BY <1>1, OutputUncertainGood
<1>4. OnlyOutput(w, w)
  BY DEF OnlyOutput, Kept
<1>5. \A o \in rawInputPosition(w, l) :
         o = Ok(w) \/ o \in Repair(v) \/ o = OutputUncertain(v)
  BY DEF rawInputPosition, v
<1>6. QED
  BY <1>2, <1>3, <1>4, <1>5, Ending DEF Ended, Worlds

(* What executeInput accepts is a durable mark of the current lease.       *)
LEMMA AcceptFromGood ==
    ASSUME NEW b \in Base, NEW w \in GoodWorld(b), NEW l, l.owner \in Owner,
           NEW id \in OpId, NEW kind \in OpKind
    PROVE  acceptFrom(w, l, id, kind) \subseteq Outcome(b)
<1> DEFINE x == Register(w, l.owner)
           s == IF kind = "raw" THEN rawInputPosition(x, l) ELSE prepareOutput(x)
           A == Ended(s) \cup {Accepted(y, l, id, kind) : y \in Worlds(s)}
<1>1. CASE ~validLease(w.rec, l, {"HELD"}) \/ ~MayProduce(w, l.owner)
  <2>1. acceptFrom(w, l, id, kind) = {Error(w)}
    BY <1>1 DEF acceptFrom
  <2>2. QED
    BY <2>1, Ending
<1>2. CASE validLease(w.rec, l, {"HELD"}) /\ MayProduce(w, l.owner)
  <2>1. \/ acceptFrom(w, l, id, kind) \in {{Error(x)}, assertTargetCurrent(x)}
        \/ acceptFrom(w, l, id, kind) = A /\ id \notin JournalIds(w.rec)
    BY <1>2 DEF acceptFrom
  <2>2. /\ x \in GoodWorld(b) /\ x.rec = w.rec
        /\ isInteractiveOwner(l.owner) => x.prod = l.owner
    BY <1>2, RegisterGood
  <2> HIDE DEF x
  <2>3. /\ Ended(s) \subseteq Outcome(b)
        /\ \A y \in Worlds(s) : y \in GoodWorld(b) /\ OnlyOutput(y, x)
    <3>1. x.rec.lifecycle # "TARGET_GONE"
      BY <1>2, <2>2 DEF validLease, Operable
    <3>2. QED
      BY <2>2, <3>1, PositionWorlds, PreparedWorlds
  <2> HIDE DEF s
  <2>4. ASSUME id \notin JournalIds(w.rec), NEW y \in Worlds(s)
        PROVE  Accepted(y, l, id, kind) \in Outcome(b)
    <3>1. y \in GoodWorld(b) /\ Kept(y.rec, w.rec) /\ y.prod = x.prod
      BY <2>2, <2>3, <2>4 DEF OnlyOutput
    <3>2. Accepting(y, l, id, kind)
      BY <1>2, <2>2, <2>4, <3>1
         DEF validLease, Accepting, Operable, Pending, Kept, JournalIds
    <3>3. QED
      BY <3>1, <3>2, AcceptedGood
  <2>5. id \notin JournalIds(w.rec) => A \subseteq Outcome(b)
    BY <2>3, <2>4
  <2> HIDE DEF A
  <2>6. assertTargetCurrent(x) \subseteq Outcome(b) /\ Error(x) \in Outcome(b)
    BY <2>2, AssertCurrentGood, Ending
  <2>7. QED
    BY <2>1, <2>5, <2>6
<1>3. QED
  BY <1>1, <1>2

(* input.execute.                                                          *)
LEMMA ExecuteInputGood ==
    ASSUME NEW b \in Base, NEW w \in GoodWorld(b), NEW l, l.owner \in Owner, NEW id \in OpId,
           NEW kind \in OpKind
    PROVE  executeInput(w, l, id, kind) \subseteq Outcome(b)
<1> DEFINE s == IF kind = "raw" THEN reconcileAbandonedOwnership(w)
                ELSE assertTargetCurrent(w)
<1>1. executeInput(w, l, id, kind) =
        Ended(s) \cup UNION {acceptFrom(x, l, id, kind) : x \in Worlds(s)}
  BY DEF executeInput
<1>2. s \subseteq Outcome(b)
  BY ReconcileGood, AssertCurrentGood
<1> HIDE DEF s
<1>3. QED
  BY <1>1, <1>2, Filtered, AcceptFromGood

(* lifecycle.kill.                                                         *)
LEMMA ExecuteKillGood ==
    ASSUME NEW b \in Base, NEW w \in GoodWorld(b), NEW l, l.owner \in Owner, NEW id \in OpId
    PROVE  executeLifecycleKill(w, l, id) \subseteq Outcome(b)
<1>1. "lifecycle-kill" \in OpKind
  BY DEF OpKind
<1>2. ASSUME NEW x \in GoodWorld(b), id \notin JournalIds(x.rec)
      PROVE  killFrom(x, l, id) \subseteq Outcome(b)
  <2> DEFINE s == prepareOutput(x)
             A == Ended(s) \cup
                  {Accepted(y, l, id, "lifecycle-kill") : y \in Worlds(s)}
  <2>1. \/ killFrom(x, l, id) = {Error(x)}
        \/ killFrom(x, l, id) = A /\ validLease(x.rec, l, {"HELD"})
    BY DEF killFrom
  <2>2. validLease(x.rec, l, {"HELD"}) =>
           /\ Ended(s) \subseteq Outcome(b)
           /\ \A y \in Worlds(s) : y \in GoodWorld(b) /\ Kept(y.rec, x.rec)
    BY PreparedWorlds DEF validLease, Operable
  <2> HIDE DEF s
  <2>3. ASSUME validLease(x.rec, l, {"HELD"}), NEW y \in Worlds(s)
        PROVE  Accepted(y, l, id, "lifecycle-kill") \in Outcome(b)
    <3>1. y \in GoodWorld(b) /\ Kept(y.rec, x.rec)
      BY <2>2, <2>3
    <3>2. Accepting(y, l, id, "lifecycle-kill")
      BY <1>2, <2>3, <3>1
         DEF validLease, Accepting, Operable, Pending, Kept, JournalIds
    <3>3. QED
      BY <1>1, <3>1, <3>2, AcceptedGood
  <2>4. QED
    BY <2>1, <2>2, <2>3, Ending
<1>3. ASSUME NEW x \in Worlds(assertTargetCurrent(w)), id \notin JournalIds(w.rec)
      PROVE  killFrom(x, l, id) \subseteq Outcome(b)
  BY <1>2, <1>3, CurrentWorlds DEF JournalIds
<1>4. QED
  BY <1>3, CurrentWorlds, Ending DEF executeLifecycleKill

-----------------------------------------------------------------------------
(* The inductive invariant.  Its parts need each other: a record is saved  *)
(* only as well formed as the record it was loaded from, the disposition   *)
(* of a write is recorded only over the mark that announced it, and what   *)
(* pins a fenced record must be visible in the recovery that polling       *)
(* looks at.                                                               *)
Honesty == \A t \in Target : Honest(targets[t])

Dated == \A t \in Target : targets[t].incarnation <= tmux.incarnation

Inv == /\ TypeOK /\ StoreReadable /\ CallIsDurable /\ OneTargetPerName
       /\ Honesty /\ Dated

(* A step that replaces records only by records that may come after them.  *)
Later(r) == {q \in Record : q.lifecycle # "UNUSED" /\ Succession(r, q)}

Advances == \A t \in Target : targets'[t] \in Later(targets[t]) \cup {targets[t]}

(* What a handler for target t starts from.                                *)
From(t) == [rec |-> targets[t], prod |-> producer[t], inc |-> tmux.incarnation]

(* What a request promises: it minds the operations in flight, it tends    *)
(* the producers, and it accepts only what is authorised.                  *)
Serves ==
    /\ up /\ UNCHANGED <<late, landed, replayed>>
    /\ \A u \in Target : Minds(targets[u], targets'[u])
    /\ up' => \A u \in Target : Tended(From(u), targets'[u], producer'[u])
    /\ call'.stage # "idle" =>
         /\ call'.stage = "accepted"
         /\ Authorised(targets'[call'.target], producer'[call'.target])
         /\ Recalls(targets[call'.target], targets'[call'.target])

(* What comes after a record is a record.                                  *)
LEMMA LaterFields ==
    ASSUME NEW r \in Record, NEW q \in Later(r) \cup {r}
    PROVE  /\ q \in Record /\ Succession(r, q)
           /\ q.lifecycle = "UNUSED" => q = r
           /\ r.lifecycle = "TARGET_GONE" => q.lifecycle = "TARGET_GONE"
           /\ r.lifecycle # "UNUSED" => q.incarnation = r.incarnation
<1>1. Succession(r, r)
  BY FollowsItself DEF Record, Follows
<1>2. QED
  BY <1>1 DEF Later, Succession

(* What follows the loaded record comes after it, and minds it.            *)
LEMMA LiveFields ==
    ASSUME NEW b \in Base, NEW q \in Live(b) \cup {b.rec}
    PROVE  /\ q \in Later(b.rec) \cup {b.rec} /\ Minds(b.rec, q)
           /\ q.incarnation <= b.inc \/ q = b.rec
<1>1. Minds(b.rec, b.rec)
  BY FollowsItself DEF Base, Record, Follows
<1>2. QED
  BY <1>1 DEF Live, Later, Follows

(* The records of a good state are readable and honest.                    *)
LEMMA Records ==
    ASSUME Inv
    PROVE  targets \in [Target -> Record]
  BY DEF Inv, TypeOK, StoreReadable, Honesty, Record

(* The part of the invariant that is about each record by itself.          *)
LEMMA RecordsNext ==
    ASSUME targets' \in [Target -> Record]
    PROVE  targets' \in [Target -> TargetRecord] /\ StoreReadable' /\ Honesty'
  BY DEF StoreReadable, Honesty, Record

(* A step that mints nothing leaves at most one live record per name.      *)
LEMMA StaysSingle ==
    ASSUME Inv, Advances,
           \A u \in Target : targets[u].lifecycle = "UNUSED" => targets'[u] = targets[u]
    PROVE  OneTargetPerName'
<1> DEFINE L == {"ACTIVE", "RECOVERY_REQUIRED"}
<1>1. ASSUME NEW u \in Target, targets'[u].lifecycle \in L
      PROVE  targets[u].lifecycle \in L
  <2>1. targets[u] \in Record /\ targets[u].lifecycle # "UNUSED"
    BY <1>1, Records
  <2>2. targets'[u] \in Later(targets[u]) \cup {targets[u]}
    BY DEF Advances
  <2>3. targets[u].lifecycle # "TARGET_GONE"
    BY <1>1, <2>1, <2>2, LaterFields
  <2>4. QED
    BY <2>1, <2>3 DEF Record, TargetRecord
<1>2. ASSUME NEW t \in Target, NEW u \in Target,
             {targets'[t].lifecycle, targets'[u].lifecycle} \subseteq L
      PROVE  t = u
  <2>1. targets[t].lifecycle \in L /\ targets[u].lifecycle \in L
    BY <1>1, <1>2
  <2>2. QED
    BY <2>1 DEF Inv, OneTargetPerName
<1>3. QED
  BY <1>2 DEF OneTargetPerName

(* Nor does one give a record an incarnation that has not been.            *)
LEMMA StaysDated ==
    ASSUME Inv, Advances, tmux' \in Tmux, tmux'.incarnation >= tmux.incarnation,
           \A u \in Target : targets[u].lifecycle = "UNUSED" => targets'[u] = targets[u]
    PROVE  Dated'
<1>1. ASSUME NEW u \in Target
      PROVE  targets'[u].incarnation <= tmux'.incarnation
  <2>1. targets[u] \in Record /\ targets'[u] \in Later(targets[u]) \cup {targets[u]}
    BY Records DEF Advances
  <2>2. targets'[u].incarnation = targets[u].incarnation
    BY <2>1, LaterFields
  <2>3. /\ targets[u].incarnation \in Nat /\ tmux.incarnation \in Nat
        /\ tmux'.incarnation \in Nat /\ targets[u].incarnation <= tmux.incarnation
    BY <2>1 DEF Inv, Dated, TypeOK, Tmux, Record, TargetRecord
  <2>4. QED
    BY <2>2, <2>3
<1>2. QED
  BY <1>1 DEF Dated

(* A step that leaves every record alone.                                  *)
LEMMA RecordsAlone ==
    ASSUME Inv, targets' = targets, tmux' \in Tmux,
           tmux'.incarnation >= tmux.incarnation
    PROVE  Advances /\ StoreReadable' /\ Honesty' /\ OneTargetPerName' /\ Dated'
<1>1. Advances
  BY DEF Advances
<1>2. QED
  BY <1>1, StaysDated DEF Inv, StoreReadable, Honesty, OneTargetPerName

(* A step that installs one record that may follow the old one.            *)
LEMMA OneAdvances ==
    ASSUME Inv, NEW t \in Target, targets[t].lifecycle # "UNUSED",
           NEW q \in Later(targets[t]) \cup {targets[t]},
           targets' = [targets EXCEPT ![t] = q], tmux' \in Tmux,
           tmux'.incarnation >= tmux.incarnation
    PROVE  /\ targets' \in [Target -> TargetRecord] /\ targets'[t] = q
           /\ \A u \in Target \ {t} : targets'[u] = targets[u]
           /\ StoreReadable' /\ Honesty' /\ OneTargetPerName' /\ Dated' /\ Advances
<1>1. targets \in [Target -> Record]
  BY Records
<1>2. q \in Record
  BY <1>1, LaterFields
<1>3. targets' \in [Target -> Record] /\ targets'[t] = q
  BY <1>1, <1>2
<1>4. \A u \in Target \ {t} : targets'[u] = targets[u]
  BY <1>1
<1>5. Advances
  BY <1>3, <1>4 DEF Advances
<1>6. OneTargetPerName' /\ Dated'
  BY <1>4, <1>5, StaysSingle, StaysDated
<1>7. QED
  BY <1>3, <1>4, <1>5, <1>6, RecordsNext

(* The world a handler starts from.                                        *)
LEMMA WorldGood ==
    ASSUME Inv, NEW t \in Target
    PROVE  /\ targets[t] \in Record /\ World(t).rec = targets[t]
           /\ From(t) \in Base /\ From(t).rec = targets[t]
           /\ From(t).prod = producer[t] /\ From(t).inc = tmux.incarnation
           /\ targets[t].lifecycle # "UNUSED" => World(t) \in GoodWorld(From(t))
<1>1. targets[t] \in Record /\ producer[t] \in Owner \cup {None}
      /\ tmux \in Tmux /\ tmux.incarnation \in Nat /\ faults \in Nat
  BY Records DEF Inv, TypeOK, Tmux
<1>2. /\ From(t) \in Base /\ From(t).rec = targets[t]
      /\ From(t).prod = producer[t] /\ From(t).inc = tmux.incarnation
  BY <1>1 DEF From, Base
<1>3. targets[t].lifecycle # "UNUSED" => targets[t] \in Live(From(t))
  BY <1>1, <1>2, FollowsItself DEF Live, Record, Inv, Dated
<1>4. World(t) = [rec |-> targets[t], disk |-> targets[t], tmux |-> tmux,
                  prod |-> producer[t], faults |-> faults]
  BY DEF World
<1>5. /\ World(t).rec = targets[t] /\ World(t).disk = targets[t]
      /\ World(t).prod = producer[t]
  BY <1>4
<1>6. targets[t].lifecycle # "UNUSED" => World(t) \in PlainWorld(From(t))
  BY <1>1, <1>2, <1>3, <1>4 DEF PlainWorld
<1>7. QED
  BY <1>1, <1>2, <1>5, <1>6 DEF GoodWorld, Tended

(* What a client presents.                                                 *)
LEMMA LeaseOwner ==
    ASSUME NEW t \in Target, NEW l \in Presentable(t)
    PROVE  l.owner \in Owner
  BY DEF Presentable

(* The end of a request.                                                   *)
LEMMA ConcludeInv ==
    ASSUME Inv, NEW t \in Target, targets[t].lifecycle # "UNUSED", up,
           NEW o \in Outcome(From(t)), Conclude(t, o)
    PROVE  Inv' /\ Advances /\ Serves
<1> DEFINE b == From(t)
<1>1. /\ b \in Base /\ b.rec = targets[t] /\ b.inc = tmux.incarnation
      /\ b.prod = producer[t]
  BY WorldGood
<1> HIDE DEF b
<1>2. /\ o.w.disk \in Live(b) \cup {b.rec} /\ o.w.tmux \in Tmux
      /\ o.w.tmux.incarnation = tmux.incarnation
      /\ o.w.prod \in Owner \cup {None} /\ o.w.faults \in Nat
      /\ o.end # "crash" => Tended(b, o.w.disk, o.w.prod)
  BY <1>1, OutcomeFields, PlainFields, WorldFields DEF b
<1>3. o.end = "accepted" => /\ InCall(o.w.disk) /\ Authorised(o.w.disk, o.w.prod)
                            /\ Recalls(b.rec, o.w.disk)
  BY DEF Outcome, b
<1>4. /\ targets' = [targets EXCEPT ![t] = o.w.disk] /\ tmux' = o.w.tmux
      /\ UNCHANGED <<late, landed, replayed>> /\ up' = (o.end # "crash")
      /\ producer' = IF o.end = "crash" THEN [x \in Target |-> None]
                     ELSE [producer EXCEPT ![t] = o.w.prod]
      /\ call' = IF o.end = "accepted"
                   THEN [stage |-> "accepted", target |-> t, result |-> "none"]
                   ELSE IdleCall
  BY DEF Conclude
<1>5. /\ o.w.disk \in Later(targets[t]) \cup {targets[t]}
      /\ Minds(targets[t], o.w.disk)
  BY <1>1, <1>2, LiveFields
<1>6. tmux' \in Tmux /\ tmux'.incarnation >= tmux.incarnation
  BY <1>2, <1>4 DEF Tmux
<1>7. /\ targets' \in [Target -> TargetRecord] /\ targets'[t] = o.w.disk
      /\ \A u \in Target \ {t} : targets'[u] = targets[u]
      /\ StoreReadable' /\ Honesty' /\ OneTargetPerName' /\ Dated' /\ Advances
  BY <1>4, <1>5, <1>6, OneAdvances
<1>8. /\ producer' \in [Target -> Owner \cup {None}]
      /\ o.end # "crash" => /\ producer'[t] = o.w.prod
                            /\ \A u \in Target \ {t} : producer'[u] = producer[u]
  BY <1>2, <1>4 DEF Inv, TypeOK
<1>9. call' \in Call /\ (call'.stage # "idle" => o.end = "accepted" /\ call'.target = t)
  BY <1>4 DEF Call, IdleCall
<1>10. TypeOK'
  BY <1>2, <1>7, <1>8, <1>9 DEF Conclude, Inv, TypeOK
<1>11. CallIsDurable'
  <2>1. CASE o.end = "accepted"
    BY <1>3, <1>4, <1>7, <2>1 DEF CallIsDurable, InCall
  <2>2. CASE o.end # "accepted"
    BY <1>4, <2>2 DEF CallIsDurable, IdleCall
  <2>3. QED
    BY <2>1, <2>2
<1>12. \A u \in Target : Minds(targets[u], targets'[u])
  <2>1. \A u \in Target : targets[u] \in TargetRecord
    BY DEF Inv, TypeOK
  <2>2. QED
    BY <1>5, <1>7, <2>1, FollowsItself DEF Follows
<1>13. ASSUME up', NEW u \in Target
       PROVE  Tended(From(u), targets'[u], producer'[u])
  <2>1. CASE u = t
    BY <1>2, <1>4, <1>7, <1>8, <1>13, <2>1 DEF b
  <2>2. CASE u # t
    BY <1>4, <1>8, <1>13, <2>2, WorldGood DEF Tended
  <2>3. QED
    BY <2>1, <2>2
<1>14. call'.stage # "idle" =>
         /\ call'.stage = "accepted"
         /\ Authorised(targets'[call'.target], producer'[call'.target])
         /\ Recalls(targets[call'.target], targets'[call'.target])
  BY <1>1, <1>3, <1>4, <1>7, <1>8, <1>9
<1>15. Serves
  BY <1>4, <1>12, <1>13, <1>14 DEF Serves
<1>16. QED
  BY <1>7, <1>10, <1>11, <1>15 DEF Inv

(* target.resolve may mint a record and retires the outdated ones.         *)
LEMMA MintedGood ==
    ASSUME Inv, NEW t \in Target, targets[t].lifecycle = "UNUSED"
    PROVE  Minted(t) \in GoodWorld(From(t))
<1> DEFINE m == [tmux EXCEPT !.made = @ + 1]
           r == NewRecord(tmux.incarnation, <<0, m.made>>)
<1>1. /\ m \in Tmux /\ m.made \in Nat /\ tmux.incarnation \in Nat
      /\ m.incarnation = tmux.incarnation
  BY DEF Inv, TypeOK, Tmux
<1>2. Minted(t) = [World(t) EXCEPT !.rec = r, !.tmux = m]
  BY DEF Minted
<1>3. /\ From(t) \in Base /\ From(t).rec = targets[t]
      /\ From(t).inc = tmux.incarnation /\ targets[t] \in Record
  BY WorldGood
<1> HIDE DEF m
<1>4. r \in Live(From(t)) /\ r.own.state = "FREE" /\ targets[t].own.state = "FREE"
  <2>1. /\ Free(0) \in Ownership /\ Free(0).state = "FREE" /\ Free(0).fence = 0
    BY DEF Free, Ownership
  <2>2. NoRecovery \in Recovery /\ NoRecovery.reason = None
    BY DEF NoRecovery, Recovery
  <2>3. <<0, m.made>> \in Generation
    BY <1>1 DEF Generation
  <2>4. <<>> \in Seq(Completed) /\ DOMAIN <<>> = {}
    OBVIOUS
  <2>5. NoOperation.id = None
    BY DEF NoOperation
  <2>6. r \in TargetRecord
    BY <1>1, <2>1, <2>2, <2>3, <2>4 DEF NewRecord, TargetRecord
  <2>7. /\ r.own = Free(0) /\ r.journal = <<>> /\ r.recovery = NoRecovery
        /\ r.inFlight = NoOperation /\ r.lifecycle = "ACTIVE" /\ r.pinned = {}
        /\ r.incarnation = tmux.incarnation
    BY DEF NewRecord
  <2> HIDE DEF r
  <2>8. isTarget(r) /\ Honest(r)
    BY <2>1, <2>2, <2>4, <2>5, <2>7 DEF isTarget, Pending, Honest
  <2>9. /\ targets[t].own = Free(0) /\ targets[t].journal = <<>>
        /\ targets[t].dropped = {} /\ ~Pending(targets[t])
    BY DEF Inv, Honesty, Honest
  <2>10. Succeeds(targets[t].own, r.own) /\ Keeps(targets[t].journal, r.journal)
    BY <2>1, <2>4, <2>7, <2>9 DEF Succeeds, Keeps
  <2>11. Known(targets[t]) = {}
    BY <2>4, <2>9 DEF Known, JournalIds
  <2>12. Follows(targets[t], r)
    BY <2>9, <2>10, <2>11 DEF Follows, Succession, Minds
  <2>13. r.incarnation <= tmux.incarnation
    BY <1>1, <2>7
  <2>14. QED
    BY <1>3, <2>1, <2>6, <2>7, <2>8, <2>9, <2>12, <2>13 DEF Record, Live
<1> HIDE DEF r
<1>5. Minted(t) = [rec |-> r, disk |-> targets[t], tmux |-> m,
                   prod |-> producer[t], faults |-> faults]
  BY <1>2 DEF World
<1>6. /\ Minted(t) \in PlainWorld(From(t)) /\ Minted(t).rec = r
      /\ Minted(t).disk = targets[t]
  BY <1>3, <1>1, <1>4, <1>5 DEF PlainWorld, Inv, TypeOK
<1>7. QED
  BY <1>4, <1>6 DEF GoodWorld, Tended

(* target.resolve, the sweep of earlier incarnations included, keeps Inv.  *)
LEMMA ResolveInv ==
    ASSUME Inv, NEW t \in Target, ResolveTarget(t)
    PROVE  Inv' /\ Advances /\ Serves
<1> DEFINE b == From(t)
           w == IF Current(t) THEN World(t) ELSE Minted(t)
           saved(o) == o.end = "ok" \/ o.w.disk # targets[t]
           swept(o) == [x \in Target |->
                          IF saved(o) /\ Outdated(x)
                            THEN invalidateTarget(targets[x]) ELSE targets[x]]
           L == {"ACTIVE", "RECOVERY_REQUIRED"}
<1>1. /\ w \in GoodWorld(b) /\ targets[t] \in Record /\ b \in Base
      /\ b.rec = targets[t] /\ b.inc = tmux.incarnation
  <2>1. CASE Current(t)
    BY <2>1, WorldGood DEF Current
  <2>2. CASE ~Current(t)
    BY <2>2, WorldGood, MintedGood DEF ResolveTarget
  <2>3. QED
    BY <2>1, <2>2
<1>2. PICK o \in resolveTarget(w) :
        /\ targets' = [swept(o) EXCEPT ![t] = o.w.disk]
        /\ tmux' = o.w.tmux /\ faults' = o.w.faults
        /\ up' = (o.end # "crash")
        /\ producer' = IF o.end = "crash" THEN [x \in Target |-> None]
                       ELSE [producer EXCEPT ![t] = o.w.prod]
        /\ UNCHANGED <<epoch, call, late, landed, replayed>>
  BY DEF ResolveTarget
<1>3. call.stage = "idle" /\ up
  BY DEF ResolveTarget
<1> HIDE DEF w, b
<1>4. /\ o.w.disk \in Live(b) \cup {b.rec} /\ o.w.tmux \in Tmux
      /\ o.w.tmux.incarnation = tmux.incarnation
      /\ o.w.prod \in Owner \cup {None} /\ o.w.faults \in Nat
      /\ o.end # "crash" => Tended(b, o.w.disk, o.w.prod)
  BY <1>1, ResolveGood, OutcomeFields, PlainFields, WorldFields
<1>5. /\ o.w.disk \in Later(targets[t]) \cup {targets[t]}
       /\ Minds(targets[t], o.w.disk)
       /\ o.w.disk.incarnation <= tmux.incarnation
  BY <1>1, <1>4, LiveFields DEF Inv, Dated
<1>6. ASSUME NEW x \in Target
      PROVE  /\ swept(o)[x] \in Later(targets[x]) \cup {targets[x]}
             /\ Minds(targets[x], swept(o)[x])
             /\ swept(o)[x].own = targets[x].own \/ swept(o)[x].own.state = "FREE"
             /\ swept(o)[x].incarnation = targets[x].incarnation
             /\ swept(o)[x].lifecycle \in L => targets[x].lifecycle \in L
             /\ (swept(o)[x].lifecycle \in L /\ saved(o)) => Current(x)
  <2> DEFINE q == invalidateTarget(targets[x])
  <2>1. targets[x] \in Record
    BY WorldGood
  <2>2. /\ q \in Record /\ Follows(targets[x], q) /\ q.lifecycle = "TARGET_GONE"
        /\ q.own.state = "FREE"
    BY <2>1, InvalidateRecord DEF Record, isTarget
  <2> HIDE DEF q
  <2>3. /\ q \in Later(targets[x]) /\ Minds(targets[x], q)
        /\ Outdated(x) => q.incarnation = targets[x].incarnation
    BY <2>2 DEF Later, Follows, Succession, Outdated
  <2>4. Minds(targets[x], targets[x])
    BY <2>1, FollowsItself DEF Follows, Record
  <2>5. swept(o)[x] = IF saved(o) /\ Outdated(x) THEN q ELSE targets[x]
    BY DEF q
  <2> HIDE DEF swept, saved
  <2>6. targets[x].lifecycle \in L => Outdated(x) \/ Current(x)
    BY DEF Outdated, Current
  <2>7. QED
    BY <2>2, <2>3, <2>5, <2>6, <2>4
<1>7. swept(o) = [x \in Target |-> swept(o)[x]]
  OBVIOUS
<1> HIDE DEF swept
<1>8. /\ \A x \in Target \ {t} : targets'[x] = swept(o)[x]
      /\ targets'[t] = o.w.disk /\ DOMAIN targets' = Target
      /\ targets' = [x \in Target |-> targets'[x]]
  BY <1>2, <1>7
<1>9. Advances
  BY <1>5, <1>6, <1>8 DEF Advances
<1>10. targets' \in [Target -> Record]
  <2>1. \A x \in Target : targets'[x] \in Record
    BY <1>9, WorldGood, LaterFields DEF Advances
  <2>2. QED
    BY <1>8, <2>1
<1>11. OneTargetPerName'
  <2>1. CASE Current(t)
    <3>1. targets[t].lifecycle \in L
      BY <1>1, <2>1 DEF Current, Record, TargetRecord
    <3>2. ASSUME NEW x \in Target, targets'[x].lifecycle \in L
          PROVE  x = t
      <4>1. CASE x = t
        BY <4>1
      <4>2. CASE x # t
        <5>1. targets[x].lifecycle \in L
          BY <1>6, <1>8, <3>2, <4>2
        <5>2. QED
          BY <3>1, <5>1 DEF Inv, OneTargetPerName
      <4>3. QED
        BY <4>1, <4>2
    <3>3. QED
      BY <3>2 DEF OneTargetPerName
  <2>2. CASE ~Current(t) /\ saved(o)
    <3>1. \A x \in Target : ~Current(x)
      BY <2>2 DEF ResolveTarget
    <3>2. ASSUME NEW x \in Target, targets'[x].lifecycle \in L
          PROVE  x = t
      BY <1>6, <1>8, <2>2, <3>1, <3>2
    <3>3. QED
      BY <3>2 DEF OneTargetPerName
  <2>3. CASE ~Current(t) /\ ~saved(o)
    <3>1. targets'[t] = targets[t]
      BY <1>8, <2>3
    <3>2. ASSUME NEW x \in Target, targets'[x].lifecycle \in L
          PROVE  targets[x].lifecycle \in L
      BY <1>6, <1>8, <3>1, <3>2
    <3>3. QED
      BY <3>2 DEF Inv, OneTargetPerName
  <2>4. QED
    BY <2>1, <2>2, <2>3
<1>12. targets' \in [Target -> TargetRecord] /\ StoreReadable' /\ Honesty'
  BY <1>10, RecordsNext
<1>13. /\ producer' \in [Target -> Owner \cup {None}]
       /\ o.end # "crash" => /\ producer'[t] = o.w.prod
                             /\ \A x \in Target \ {t} : producer'[x] = producer[x]
  BY <1>2, <1>4 DEF Inv, TypeOK
<1>14. TypeOK'
  BY <1>2, <1>4, <1>12, <1>13 DEF Inv, TypeOK
<1>15. CallIsDurable'
  BY <1>2, <1>3 DEF CallIsDurable
<1>16. Dated'
  BY <1>2, <1>4, <1>5, <1>6, <1>8 DEF Inv, Dated
<1>17. \A x \in Target : Minds(targets[x], targets'[x])
  BY <1>5, <1>6, <1>8
<1>18. ASSUME up', NEW x \in Target
       PROVE  Tended(From(x), targets'[x], producer'[x])
  <2>1. CASE x = t
    BY <1>2, <1>4, <1>8, <1>13, <1>18, <2>1 DEF b
  <2>2. CASE x # t
    BY <1>2, <1>6, <1>8, <1>13, <1>18, <2>2, WorldGood DEF Tended
  <2>3. QED
    BY <2>1, <2>2
<1>19. Serves
  BY <1>2, <1>3, <1>17, <1>18 DEF Serves
<1>20. QED
  BY <1>9, <1>11, <1>12, <1>14, <1>15, <1>16, <1>19 DEF Inv

(* Every request.                                                          *)
LEMMA RequestInv ==
    ASSUME Inv, NEW t \in Target, Request(t)
    PROVE  Inv' /\ Advances /\ Serves
<1> DEFINE w == World(t)
           b == From(t)
<1>1. CASE ResolveTarget(t)
  BY <1>1, ResolveInv
<1>2. ASSUME Request(t), ~ResolveTarget(t)
      PROVE  Inv' /\ Advances /\ Serves
  <2>1. Ready(t)
    BY <1>2 DEF Request, Status, Acquire, Renew, Release, BeginHandoff, CommitHandoff,
                CancelHandoff, WithdrawHandoff, ForceHandoff, TailOutput,
                ReadWithLease, ExecuteInput, ExecuteLifecycleKill
  <2>2. b \in Base /\ w \in GoodWorld(b) /\ targets[t].lifecycle # "UNUSED" /\ up
    BY <2>1, WorldGood DEF Ready
  <2> HIDE DEF w, b
  <2>3. ASSUME NEW S, S \subseteq Outcome(b), NEW o \in S, Conclude(t, o)
        PROVE  Inv' /\ Advances /\ Serves
    BY <2>2, <2>3, ConcludeInv DEF b
  <2>4. CASE Status(t)
    BY <2>2, <2>3, <2>4, StatusGood DEF Status, w
  <2>5. CASE Acquire(t)
    BY <2>2, <2>3, <2>5, AcquireGood DEF Acquire, w
  <2>6. CASE Renew(t)
    BY <2>2, <2>3, <2>6, LeaseOwner, RenewGood DEF Renew, w
  <2>7. CASE Release(t)
    BY <2>2, <2>3, <2>7, ReleaseGood DEF Release, w
  <2>8. CASE BeginHandoff(t)
    BY <2>2, <2>3, <2>8, BeginGood DEF BeginHandoff, w
  <2>9. CASE CommitHandoff(t)
    BY <2>2, <2>3, <2>9, CommitGood DEF CommitHandoff, w
  <2>10. CASE CancelHandoff(t)
    BY <2>2, <2>3, <2>10, CancelGood DEF CancelHandoff, w
  <2>11. CASE WithdrawHandoff(t)
    BY <2>2, <2>3, <2>11, WithdrawGood DEF WithdrawHandoff, w
  <2>12. CASE ForceHandoff(t)
    BY <2>2, <2>3, <2>12, ForceGood DEF ForceHandoff, w
  <2>13. CASE TailOutput(t)
    BY <2>2, <2>3, <2>13, TailGood DEF TailOutput, w
  <2>14. CASE ReadWithLease(t)
    BY <2>2, <2>3, <2>14, AssertCurrentGood DEF ReadWithLease, w
  <2>15. CASE ExecuteInput(t)
    <3>1. PICK l \in Presentable(t), id \in OpId, kind \in Kinds :
            \E o \in executeInput(w, l, id, kind) : Conclude(t, o)
      BY <2>15 DEF ExecuteInput, w
    <3>2. kind \in OpKind /\ l.owner \in Owner
      BY ControlAssumption, LeaseOwner
    <3>3. QED
      BY <2>2, <2>3, <3>1, <3>2, ExecuteInputGood
  <2>16. CASE ExecuteLifecycleKill(t)
    BY <2>2, <2>3, <2>16, LeaseOwner, ExecuteKillGood
       DEF ExecuteLifecycleKill, w
  <2>17. QED
    BY <1>2, <2>4, <2>5, <2>6, <2>7, <2>8, <2>9, <2>10, <2>11, <2>12, <2>13,
       <2>14, <2>15, <2>16 DEF Request
<1>3. QED
  BY <1>1, <1>2

(* The operation under way.                                                *)
LEMMA UnderWay ==
    ASSUME Inv, call.stage # "idle"
    PROVE  /\ call.target \in Target /\ InCall(targets[call.target])
           /\ Sent(call.target) \in Write
           /\ call \in [stage : {"accepted"}, target : Target, result : {"none"}]
                  \cup [stage : {"answered"}, target : Target, result : Result]
<1> DEFINE t == call.target
<1>1. /\ t \in Target
      /\ call \in [stage : {"accepted"}, target : Target, result : {"none"}]
             \cup [stage : {"answered"}, target : Target, result : Result]
  BY DEF Inv, TypeOK, Call, IdleCall
<1>2. InCall(targets[t])
  BY DEF Inv, CallIsDurable, InCall
<1> HIDE DEF t
<1>3. targets[t] \in TargetRecord
  BY <1>1 DEF Inv, TypeOK
<1>4. targets[t].inFlight \in InFlight /\ targets[t].incarnation \in Nat
  BY <1>2, <1>3, PendingIsInFlight DEF InCall, TargetRecord
<1>5. Sent(t) \in Write
  BY <1>1, <1>4 DEF Sent, Write, InFlight
<1>6. QED
  BY <1>1, <1>2, <1>5 DEF t

(* A write that reaches the pane, or does not.                             *)
LEMMA LandTypes ==
    ASSUME TypeOK, NEW x \in Write, Land(x) \/ NothingLands
    PROVE  /\ tmux' \in Tmux /\ tmux'.incarnation = tmux.incarnation
           /\ landed' \subseteq Hit
           /\ replayed' \subseteq Target \X OpId
<1>1. CASE Land(x)
  <2>1. tmux' \in Tmux /\ tmux'.incarnation = tmux.incarnation
    BY <1>1 DEF Land, TypeOK, Tmux
  <2>2. [target |-> x.target, id |-> x.id, kind |-> x.kind, owner |-> x.owner,
         fence |-> x.fence, incarnation |-> x.incarnation,
         into |-> tmux.incarnation] \in Hit
    BY DEF TypeOK, Tmux, Write, Hit
  <2>3. landed' \subseteq Hit
    BY <1>1, <2>2 DEF Land, TypeOK
  <2>4. <<x.target, x.id>> \in Target \X OpId
    BY DEF Write
  <2>5. replayed' \subseteq Target \X OpId
    BY <1>1, <2>4 DEF Land, TypeOK
  <2>6. QED
    BY <2>1, <2>3, <2>5
<1>2. CASE NothingLands
  BY <1>2 DEF NothingLands, TypeOK
<1>3. QED
  BY <1>1, <1>2

(* The answer of the backend.                                              *)
LEMMA AnswerCall ==
    ASSUME Inv, call.stage = "accepted", NEW result \in Result, Answer(result)
    PROVE  call' \in Call /\ call'.target = call.target
<1>1. call \in [stage : {"accepted"}, target : Target, result : {"none"}]
             \cup [stage : {"answered"}, target : Target, result : Result]
  BY UnderWay
<1>2. call' = [call EXCEPT !.stage = "answered", !.result = result]
  BY DEF Answer
<1>3. call' \in [stage : {"answered"}, target : Target, result : Result]
      /\ call'.target = call.target
  BY <1>1, <1>2
<1>4. QED
  BY <1>3 DEF Call

(* The write to tmux keeps Inv: it changes no record (BackendWrite).       *)
LEMMA BackendWriteInv ==
    ASSUME Inv, BackendWrite
    PROVE  Inv' /\ Advances
<1> DEFINE x == Sent(call.target)
<1>1. call.stage = "accepted" /\ UNCHANGED <<epoch, targets, producer, up>>
  BY DEF BackendWrite
<1>2. x \in Write
  BY <1>1, UnderWay
<1>3. \/ WriteLands(x) \/ WriteMisses(x) \/ WriteDeclined(x)
      \/ WriteUnprobed(x) \/ WriteUnconfirmed(x)
  BY DEF BackendWrite
<1> HIDE DEF x
<1>4. Land(x) \/ NothingLands
  BY <1>3 DEF WriteLands, WriteMisses, WriteDeclined, WriteUnprobed,
              WriteUnconfirmed
<1>5. \E result \in Result : Answer(result)
  <2>1. x.kind \in OpKind
    BY <1>2 DEF Write
  <2>2. Missed(x.kind) \subseteq Result
    BY <2>1 DEF Missed, OpKind, Result
  <2>3. QED
    BY <1>3, <2>2
       DEF WriteLands, WriteMisses, WriteDeclined, WriteUnprobed,
           WriteUnconfirmed, Result
<1>6. late' \subseteq Write /\ faults' \in Nat
  BY <1>2, <1>3 DEF WriteLands, WriteMisses, WriteDeclined, WriteUnprobed,
                    WriteUnconfirmed, Inv, TypeOK
<1>7. call' \in Call /\ call'.target = call.target
  BY <1>1, <1>5, AnswerCall
<1>8. TypeOK' /\ tmux' \in Tmux /\ tmux'.incarnation >= tmux.incarnation
  <2>1. /\ tmux' \in Tmux /\ tmux'.incarnation = tmux.incarnation
        /\ landed' \subseteq Hit /\ replayed' \subseteq Target \X OpId
    BY <1>2, <1>4, LandTypes DEF Inv
  <2>2. QED
    BY <1>1, <1>6, <1>7, <2>1 DEF Inv, TypeOK, Tmux
<1>9. CallIsDurable'
  BY <1>1, <1>7 DEF Inv, CallIsDurable
<1>10. QED
  BY <1>1, <1>8, <1>9, RecordsAlone DEF Inv

(* A write that lands late changes no record.                              *)
LEMMA LateLandInv ==
    ASSUME Inv, NEW x \in late, LateLand(x)
    PROVE  Inv' /\ Advances
<1>1. x \in Write /\ (Land(x) \/ NothingLands)
  BY DEF Inv, TypeOK, LateLand
<1>2. TypeOK' /\ tmux' \in Tmux /\ tmux'.incarnation >= tmux.incarnation
  <2>1. /\ tmux' \in Tmux /\ tmux'.incarnation = tmux.incarnation
        /\ landed' \subseteq Hit /\ replayed' \subseteq Target \X OpId
    BY <1>1, LandTypes DEF Inv
  <2>2. QED
    BY <2>1 DEF LateLand, Inv, TypeOK, Tmux
<1>3. CallIsDurable' /\ targets' = targets
  BY DEF LateLand, Inv, CallIsDurable
<1>4. QED
  BY <1>2, <1>3, RecordsAlone DEF Inv

(* The disposition of an operation.                                        *)
LEMMA ClearedRecord ==
    ASSUME NEW r \in Record
    PROVE  /\ Cleared(r) \in Record /\ Succession(r, Cleared(r))
           /\ Cleared(r).lifecycle = r.lifecycle
<1> DEFINE q == Cleared(r)
<1>1. r \in TargetRecord /\ isTarget(r) /\ Honest(r)
  BY DEF Record
<1>2. /\ q \in TargetRecord /\ q.inFlight = NoOperation /\ q.own = r.own
      /\ q.journal = r.journal /\ q.lifecycle = r.lifecycle
      /\ q.recovery = r.recovery /\ q.pinned = r.pinned
      /\ q.dropped = r.dropped /\ q.incarnation = r.incarnation
  BY <1>1 DEF Cleared, TargetRecord
<1>3. NoOperation.id = None
  BY DEF NoOperation
<1> HIDE DEF q
<1>4. isTarget(q)
  BY <1>1, <1>2, <1>3 DEF isTarget, Pending, JournalIds
<1>5. Honest(q)
  BY <1>1, <1>2, <1>3 DEF Honest, Pending
<1>6. Succession(r, q)
  <2>1. Succeeds(r.own, q.own)
    BY <1>1, <1>2, Fences DEF Succeeds
  <2>2. QED
    BY <1>1, <1>2, <2>1, FollowsAlike
<1>7. QED
  BY <1>2, <1>4, <1>5, <1>6 DEF Record, q

(* Setting the record of a world, as the dispositions do.                  *)
LEMMA RecSet ==
    ASSUME NEW b \in Base, NEW w \in GoodWorld(b), NEW r
    PROVE  /\ [w EXCEPT !.rec = r].rec = r
           /\ [w EXCEPT !.rec = r].faults \in Nat
  BY WorldFields DEF PlainWorld

(* The record q has not lost the operation that r had in flight.           *)
Settles(r, q) == q.lifecycle = "TARGET_GONE" \/ r.inFlight.id \in Known(q)

(* Every disposition of an operation leaves a record that may come after,  *)
(* and one that knows the operation unless the backend has said that it    *)
(* was not written.                                                        *)
LEMMA DisposedGood ==
    ASSUME NEW b \in Base, NEW w \in GoodWorld(b), InCall(w.rec),
           NEW result \in Result, NEW x \in Disposed(w, result)
    PROVE  /\ x.rec \in Later(w.rec) /\ x.faults \in Nat
           /\ \/ Settles(w.rec, x.rec) \/ result \in {"declined", "refused"}
              \/ result = "failed" /\ SameSession(w)
<1> DEFINE r == w.rec
           c == Settled(r, "committed")
           i == invalidateTarget(c)
           d == Cleared(r)
           g == invalidateTarget(r)
           k == markRecovery(d, "BACKEND_IDENTITY_UNCERTAIN")
           m == markRecovery(r, "OPERATION_IN_DOUBT")
<1>1. /\ "BACKEND_IDENTITY_UNCERTAIN" \in RecoveryReason
      /\ "OPERATION_IN_DOUBT" \in RecoveryReason
  BY DEF RecoveryReason
<1>2. r \in Record /\ r \in TargetRecord /\ r.lifecycle = "ACTIVE" /\ Pending(r)
  BY WorldFields DEF InCall
<1>3. /\ c \in Record /\ Succession(r, c) /\ c.lifecycle = "ACTIVE"
      /\ r.inFlight.id \in Known(c)
      /\ d \in Record /\ Succession(r, d) /\ d.lifecycle = "ACTIVE"
  BY <1>2, SettledRecord, ClearedRecord DEF Follows
<1>4. /\ i \in Record /\ Succession(c, i) /\ i.lifecycle = "TARGET_GONE"
      /\ g \in Record /\ Succession(r, g) /\ g.lifecycle = "TARGET_GONE"
  <2> HIDE DEF c, r
  <2>1. QED
    BY <1>2, <1>3, InvalidateRecord DEF Follows
<1>5. /\ k \in Record /\ Succession(d, k) /\ k.lifecycle = "RECOVERY_REQUIRED"
      /\ m \in Record /\ Follows(r, m) /\ m.lifecycle = "RECOVERY_REQUIRED"
      /\ ~Pending(m)
  <2> HIDE DEF d, r
  <2>1. QED
    BY <1>1, <1>2, <1>3, MarkRecoveryRecord DEF Follows
<1> HIDE DEF r, c, d, i, g, k, m
<1>6. r.inFlight.id \in Known(m)
  BY <1>2, <1>5 DEF Follows, Minds, Pending
<1>7. /\ c \in Later(r) /\ d \in Later(r) /\ i \in Later(r) /\ g \in Later(r)
      /\ k \in Later(r) /\ m \in Later(r)
  <2>1. Succession(r, i) /\ Succession(r, k)
    BY <1>2, <1>3, <1>4, <1>5, SuccessionOn DEF Record
  <2>2. QED
    BY <1>3, <1>4, <1>5, <2>1 DEF Later, Follows
<1>8. \/ \E q \in {c, i, g, m} : x = [w EXCEPT !.rec = q]
      \/ \E q \in {d, k} : x = [w EXCEPT !.rec = q] /\ result \in {"declined", "refused"}
      \/ \E p \in Probes(w) :
           \/ /\ x = [p.w EXCEPT !.rec = Cleared(p.w.rec)]
              /\ p.answer = "current" /\ result = "failed"
           \/ x = [p.w EXCEPT !.rec = markRecovery(p.w.rec, "OPERATION_IN_DOUBT")]
  BY DEF Disposed, Result, r, c, i, d, g, k, m
<1>9. \A q \in {c, i, g, m} : Settles(r, q) /\ q \in Later(r)
  BY <1>3, <1>4, <1>6, <1>7 DEF Settles
<1>10. CASE \E q \in {c, i, g, m} : x = [w EXCEPT !.rec = q]
  BY <1>9, <1>10, RecSet DEF r
<1>11. CASE \E q \in {d, k} : x = [w EXCEPT !.rec = q] /\ result \in {"declined", "refused"}
  BY <1>7, <1>11, RecSet DEF r
<1>12. ASSUME NEW p \in Probes(w),
              \/ /\ x = [p.w EXCEPT !.rec = Cleared(p.w.rec)]
                 /\ p.answer = "current" /\ result = "failed"
              \/ x = [p.w EXCEPT !.rec = markRecovery(p.w.rec, "OPERATION_IN_DOUBT")]
       PROVE  /\ x.rec \in Later(r) /\ x.faults \in Nat
              /\ Settles(r, x.rec) \/ (result = "failed" /\ SameSession(w))
  <2>1. p.w \in GoodWorld(b) /\ p.w.rec = r /\ (p.answer = "current" => SameSession(w))
    BY ProbesGood DEF r
  <2>2. \/ x = [p.w EXCEPT !.rec = d] /\ result = "failed" /\ SameSession(w)
        \/ x = [p.w EXCEPT !.rec = m]
    BY <1>12, <2>1 DEF d, m
  <2>3. CASE x = [p.w EXCEPT !.rec = d] /\ result = "failed" /\ SameSession(w)
    <3>1. x.rec = d /\ x.faults \in Nat
      BY <2>1, <2>3, RecSet
    <3>2. QED
      BY <1>7, <2>3, <3>1
  <2>4. CASE x = [p.w EXCEPT !.rec = m]
    <3>1. x.rec = m /\ x.faults \in Nat
      BY <2>1, <2>4, RecSet
    <3>2. QED
      BY <1>9, <3>1
  <2>5. QED
    BY <2>2, <2>3, <2>4
<1>13. QED
  BY <1>8, <1>10, <1>11, <1>12 DEF r

(* Making the disposition durable, or failing to, keeps Inv.               *)
LEMMA FinishCallInv ==
    ASSUME Inv, FinishCall
    PROVE  /\ Inv' /\ Advances
           /\ \A u \in Target \ {call.target} : targets'[u] = targets[u]
           /\ LET t == call.target
              IN  \/ targets'[t] = targets[t] \/ Settles(targets[t], targets'[t])
                  \/ call.result \in {"declined", "refused"}
                  \/ /\ call.result = "failed" /\ tmux.up
                     /\ tmux.incarnation = targets[t].incarnation
<1> DEFINE t == call.target
<1>1. /\ call.stage = "answered" /\ call' = IdleCall
      /\ UNCHANGED <<epoch, tmux, producer, up, late, landed, replayed>>
  BY DEF FinishCall
<1>2. t \in Target /\ InCall(targets[t]) /\ call.result \in Result
  BY <1>1, UnderWay
<1>3. PICK x \in Disposed(World(t), call.result) :
        \/ targets' = [targets EXCEPT ![t] = x.rec] /\ faults' = x.faults
        \/ faults' = x.faults + 1 /\ targets' = targets
  BY DEF FinishCall
<1> HIDE DEF t
<1>4. /\ World(t) \in GoodWorld(From(t)) /\ World(t).rec = targets[t]
      /\ targets[t] \in Record /\ targets[t].lifecycle # "UNUSED"
      /\ From(t) \in Base /\ World(t).tmux = tmux
  BY <1>2, WorldGood DEF InCall, World
<1>5. /\ x.rec \in Later(targets[t]) /\ x.faults \in Nat
      /\ \/ Settles(targets[t], x.rec) \/ call.result \in {"declined", "refused"}
         \/ /\ call.result = "failed" /\ tmux.up
            /\ tmux.incarnation = targets[t].incarnation
  BY <1>2, <1>3, <1>4, DisposedGood DEF SameSession
<1>6. /\ targets' \in [Target -> TargetRecord] /\ StoreReadable' /\ Honesty'
      /\ OneTargetPerName' /\ Advances /\ Dated'
      /\ \A u \in Target \ {t} : targets'[u] = targets[u]
      /\ targets'[t] = targets[t] \/ targets'[t] = x.rec
  <2>1. tmux' \in Tmux /\ tmux'.incarnation >= tmux.incarnation
    BY <1>1 DEF Inv, TypeOK, Tmux
  <2>2. CASE targets' = targets
    BY <2>1, <2>2, RecordsAlone DEF Inv, TypeOK
  <2>3. CASE targets' = [targets EXCEPT ![t] = x.rec]
    BY <1>2, <1>4, <1>5, <2>1, <2>3, OneAdvances
  <2>4. QED
    BY <1>3, <2>2, <2>3
<1>7. faults' \in Nat
  BY <1>3, <1>5
<1>8. TypeOK' /\ CallIsDurable'
  BY <1>1, <1>6, <1>7 DEF Inv, TypeOK, Call, IdleCall, CallIsDurable
<1>9. QED
  BY <1>5, <1>6, <1>8 DEF Inv, t

(* The daemon and its surroundings.                                        *)
LEMMA CrashInv ==
    ASSUME Inv, Crash
    PROVE  Inv' /\ Advances
<1>1. late' \subseteq Write
  <2>1. CASE call.stage = "accepted"
    <3>1. Sent(call.target) \in Write
      BY <2>1, UnderWay
    <3>2. QED
      BY <3>1 DEF Crash, Inv, TypeOK
  <2>2. CASE call.stage # "accepted"
    BY <2>2 DEF Crash, Inv, TypeOK
  <2>3. QED
    BY <2>1, <2>2
<1>2. producer' \in [Target -> Owner \cup {None}] /\ faults' \in Nat
  BY DEF Crash, Inv, TypeOK
<1>3. TypeOK' /\ CallIsDurable' /\ targets' = targets
  BY <1>1, <1>2 DEF Crash, Inv, TypeOK, CallIsDurable, Call, IdleCall
<1>4. tmux' \in Tmux /\ tmux'.incarnation >= tmux.incarnation
  BY DEF Crash, Inv, TypeOK, Tmux
<1>5. QED
  BY <1>3, <1>4, RecordsAlone DEF Inv

(* initializeContinuity leaves a record that may follow, and no lease under *)
(* its old fence.                                                          *)
LEMMA ContinuedRecord ==
    ASSUME NEW r \in Record
    PROVE  /\ Continued(r) \in Later(r) \cup {r} /\ Minds(r, Continued(r))
           /\ r.lifecycle = "UNUSED" => Continued(r) = r
           /\ Continued(r).own.state = "FREE"
<1>1. {"OPERATION_IN_DOUBT", "DRAIN_UNCERTAIN", "CONTROLLER_RESTARTED"}
        \subseteq RecoveryReason
  BY DEF RecoveryReason
<1>2. ASSUME NEW reason \in RecoveryReason, r.lifecycle = "ACTIVE"
      PROVE  /\ markRecovery(r, reason) \in Later(r)
             /\ Minds(r, markRecovery(r, reason))
             /\ markRecovery(r, reason).own.state = "FREE"
  BY <1>2, MarkRecoveryRecord DEF Later, Follows
<1>3. /\ Minds(r, r)
      /\ r.lifecycle # "ACTIVE" => r.own.state = "FREE"
      /\ r.own.state \in {"FREE", "HELD", "DRAINING"}
  BY FollowsItself DEF Record, Follows, isTarget, TargetRecord, Ownership
<1>4. QED
  BY <1>1, <1>2, <1>3 DEF Continued

(* A restart of the daemon keeps Inv (initializeContinuity).               *)
LEMMA StartInv ==
    ASSUME Inv, Start
    PROVE  /\ Inv' /\ Advances /\ call.stage = "idle"
           /\ \A t \in Target : /\ Minds(targets[t], targets'[t])
                                /\ targets'[t].own.state = "FREE"
<1>1. targets' = [t \in Target |-> Continued(targets[t])]
  BY DEF Start
<1>2. ASSUME NEW t \in Target
      PROVE  /\ targets'[t] \in Later(targets[t]) \cup {targets[t]}
             /\ targets[t].lifecycle = "UNUSED" => targets'[t] = targets[t]
             /\ targets'[t] \in Record
             /\ Minds(targets[t], targets'[t]) /\ targets'[t].own.state = "FREE"
  <2>1. targets[t] \in Record /\ targets'[t] = Continued(targets[t])
    BY <1>1, WorldGood
  <2>2. QED
    BY <2>1, ContinuedRecord, LaterFields
<1>3. Advances
  BY <1>2 DEF Advances
<1>4. OneTargetPerName' /\ Dated'
  <2>1. tmux' \in Tmux /\ tmux'.incarnation >= tmux.incarnation
    BY DEF Start, Inv, TypeOK, Tmux
  <2>2. QED
    BY <1>2, <1>3, <2>1, StaysSingle, StaysDated
<1>5. targets' \in [Target -> Record]
  BY <1>1, <1>2
<1>6. targets' \in [Target -> TargetRecord] /\ StoreReadable' /\ Honesty'
  BY <1>5, RecordsNext
<1>7. call' = call /\ call.stage = "idle"
  BY DEF Start, Inv, CallIsDurable
<1>8. TypeOK' /\ CallIsDurable'
  BY <1>6, <1>7 DEF Start, Inv, TypeOK, CallIsDurable
<1>9. QED
  BY <1>2, <1>3, <1>4, <1>6, <1>7, <1>8 DEF Inv

(* The clock keeps Inv: an expired lease is still a lease.                 *)
LEMMA LeaseExpiresInv ==
    ASSUME Inv, NEW t \in Target, LeaseExpires(t)
    PROVE  /\ Inv' /\ Advances
           /\ \A u \in Target :
                /\ Minds(targets[u], targets'[u])
                /\ targets'[u].inFlight = targets[u].inFlight
                /\ targets'[u].own.owner = targets[u].own.owner
                /\ targets'[u].incarnation = targets[u].incarnation
<1> DEFINE q == targets[t]
           n == [q.own EXCEPT !.expired = TRUE]
           r == [q EXCEPT !.own = n]
<1>1. q \in Record
  BY WorldGood
<1>2. q.own \in Ownership /\ WellOwned(q.own) /\ q.own.fence \in Nat
  BY <1>1, RecordOwnership DEF Record, TargetRecord
<1>3. q.own.state # "FREE" /\ q.lifecycle = "ACTIVE"
  BY <1>1 DEF LeaseExpires, Record, isTarget
<1>4. /\ n.state = q.own.state /\ n.fence = q.own.fence /\ WellOwned(n)
      /\ n \in Ownership /\ Succeeds(q.own, n) /\ n.owner = q.own.owner
  <2>1. /\ n \in Ownership /\ n.state = q.own.state /\ n.fence = q.own.fence
        /\ n.owner = q.own.owner /\ n.next = q.own.next
    BY <1>2 DEF Ownership
  <2> HIDE DEF n, q
  <2>2. QED
    BY <1>2, <2>1 DEF WellOwned, Succeeds
<1>5. targets' = [targets EXCEPT ![t] = r]
  BY <1>1 DEF LeaseExpires, Record, TargetRecord
<1> HIDE DEF n
<1>6. /\ r \in Later(q) /\ r.own = n /\ r.lifecycle = q.lifecycle
      /\ r.inFlight = q.inFlight /\ Minds(q, r) /\ r.incarnation = q.incarnation
  <2> HIDE DEF q
  <2>1. Reowned(q, n, r)
    BY <1>1, <1>4, Reowning DEF Record
  <2> HIDE DEF r
  <2>2. /\ r \in Record /\ r.own = n /\ r.lifecycle = q.lifecycle
        /\ r.inFlight = q.inFlight /\ Follows(q, r)
    BY <1>1, <1>3, <1>4, <2>1, SetOwn
  <2>3. QED
    BY <1>3, <2>2 DEF Later, Follows, Succession
<1> HIDE DEF r
<1>7. /\ targets' \in [Target -> TargetRecord] /\ targets'[t] = r
      /\ \A u \in Target \ {t} : targets'[u] = targets[u]
      /\ StoreReadable' /\ Honesty' /\ OneTargetPerName' /\ Dated' /\ Advances
  <2>1. tmux' \in Tmux /\ tmux'.incarnation >= tmux.incarnation
    BY DEF LeaseExpires, Inv, TypeOK, Tmux
  <2>2. QED
    BY <1>3, <1>5, <1>6, <2>1, OneAdvances
<1>8. TypeOK'
  BY <1>7 DEF LeaseExpires, Inv, TypeOK
<1>9. CallIsDurable'
  <2>1. up' = up /\ call' = call
    BY DEF LeaseExpires
  <2>2. CASE call.stage = "idle"
    BY <2>1, <2>2 DEF CallIsDurable
  <2>3. CASE call.stage # "idle" /\ call.target = t
    BY <1>4, <1>6, <1>7, <2>1, <2>3 DEF Inv, CallIsDurable, Pending
  <2>4. CASE call.stage # "idle" /\ call.target # t
    <3>1. targets'[call.target] = targets[call.target]
      BY <1>5, <2>4, UnderWay DEF Inv, TypeOK
    <3>2. QED
      BY <2>1, <2>4, <3>1 DEF Inv, CallIsDurable
  <2>5. QED
    BY <2>2, <2>3, <2>4
<1>10. ASSUME NEW u \in Target \ {t}
       PROVE  targets'[u] = targets[u] /\ Minds(targets[u], targets'[u])
  BY <1>7, FollowsItself DEF Inv, TypeOK, Follows
<1>11. QED
  BY <1>4, <1>6, <1>7, <1>8, <1>9, <1>10 DEF Inv

(* Sessions and pipes that come and go touch no record.                    *)
LEMMA SurroundingsInv ==
    ASSUME Inv, SessionEnds \/ SessionRecreated \/ PipeStops
    PROVE  Inv' /\ Advances
<1>1. NoGen \in Generation
  BY DEF NoGen, Generation
<1>2. tmux' \in Tmux /\ faults' \in Nat /\ tmux'.incarnation >= tmux.incarnation
  <2>1. tmux \in Tmux /\ faults \in Nat /\ tmux.incarnation \in Nat
    BY DEF Inv, TypeOK, Tmux
  <2>2. /\ [tmux EXCEPT !.up = FALSE] \in Tmux
        /\ [tmux EXCEPT !.pipe = FALSE] \in Tmux
        /\ [up |-> TRUE, incarnation |-> tmux.incarnation + 1, gen |-> NoGen,
            pipe |-> FALSE, made |-> tmux.made] \in Tmux
    <3>1. [tmux EXCEPT !.up = FALSE] \in Tmux
      BY <2>1 DEF Tmux
    <3>2. [tmux EXCEPT !.pipe = FALSE] \in Tmux
      BY <2>1 DEF Tmux
    <3>3. [up |-> TRUE, incarnation |-> tmux.incarnation + 1, gen |-> NoGen,
           pipe |-> FALSE, made |-> tmux.made] \in Tmux
      BY <1>1, <2>1 DEF Tmux
    <3>4. QED
      BY <3>1, <3>2, <3>3
  <2>3. CASE SessionEnds
    BY <2>1, <2>2, <2>3 DEF SessionEnds, Surroundings, Tmux
  <2>4. CASE SessionRecreated
    BY <2>1, <2>2, <2>4 DEF SessionRecreated, Surroundings
  <2>5. CASE PipeStops
    BY <2>1, <2>2, <2>5 DEF PipeStops, Surroundings, Tmux
  <2>6. QED
    BY <2>3, <2>4, <2>5
<1>3. UNCHANGED <<epoch, targets, producer, up, call, late, landed, replayed>>
  BY DEF SessionEnds, SessionRecreated, PipeStops, Surroundings
<1>4. TypeOK' /\ CallIsDurable'
  BY <1>2, <1>3 DEF Inv, TypeOK, CallIsDurable
<1>5. QED
  BY <1>2, <1>3, <1>4, RecordsAlone DEF Inv

-----------------------------------------------------------------------------
(* The initial state.                                                      *)
LEMMA InitInv ==
    Init => Inv
<1>1. SUFFICES ASSUME Init PROVE Inv
  OBVIOUS
<1>2. Free(0) \in Ownership /\ Free(0).state = "FREE"
  BY DEF Free, Ownership
<1>3. NoRecovery \in Recovery /\ NoRecovery.reason = None
  BY DEF NoRecovery, Recovery
<1>4. <<0, 0>> \in Generation /\ NoGen \in Generation
  BY DEF Generation, NoGen
<1>5. <<>> \in Seq(Completed) /\ DOMAIN <<>> = {}
  OBVIOUS
<1>6. NoOperation.id = None
  BY DEF NoOperation
<1>7. /\ Unused.lifecycle = "UNUSED" /\ Unused.own = Free(0)
      /\ Unused.recovery = NoRecovery /\ Unused.journal = <<>>
      /\ Unused.inFlight = NoOperation /\ Unused \in TargetRecord
      /\ Unused.dropped = {} /\ Unused.incarnation = 0
  BY <1>2, <1>3, <1>4, <1>5 DEF Unused, NewRecord, TargetRecord
<1>8. isTarget(Unused) /\ Honest(Unused)
  BY <1>2, <1>3, <1>5, <1>6, <1>7 DEF isTarget, Pending, Honest
<1>9. TypeOK
  BY <1>1, <1>4, <1>7 DEF Init, TypeOK, Tmux, Call
<1>10. StoreReadable /\ CallIsDurable /\ Honesty
  BY <1>1, <1>8 DEF Init, StoreReadable, CallIsDurable, IdleCall, Honesty
<1>11. OneTargetPerName
  BY <1>1, <1>7 DEF Init, OneTargetPerName
<1>12. Dated
  BY <1>1, <1>7 DEF Init, Dated
<1>13. QED
  BY <1>9, <1>10, <1>11, <1>12 DEF Inv

(* Every step.                                                             *)
LEMMA NextInv ==
    Inv /\ [Next]_vars => Inv' /\ Advances
<1>1. SUFFICES ASSUME Inv, [Next]_vars PROVE Inv' /\ Advances
  OBVIOUS
<1>2. ASSUME NEW t \in Target, Request(t) PROVE Inv' /\ Advances
  BY <1>1, <1>2, RequestInv
<1>3. ASSUME NEW t \in Target, LeaseExpires(t) PROVE Inv' /\ Advances
  BY <1>1, <1>3, LeaseExpiresInv
<1>4. CASE BackendWrite
  BY <1>1, <1>4, BackendWriteInv
<1>5. CASE FinishCall
  BY <1>1, <1>5, FinishCallInv
<1>6. ASSUME NEW x \in late, LateLand(x) PROVE Inv' /\ Advances
  BY <1>1, <1>6, LateLandInv
<1>7. CASE Crash
  BY <1>1, <1>7, CrashInv
<1>8. CASE Start
  BY <1>1, <1>8, StartInv
<1>9. CASE SessionEnds \/ SessionRecreated \/ PipeStops
  BY <1>1, <1>9, SurroundingsInv
<1>10. CASE UNCHANGED vars
  <2>1. /\ TypeOK' /\ CallIsDurable' /\ targets' = targets
        /\ tmux' \in Tmux /\ tmux'.incarnation >= tmux.incarnation
    BY <1>1, <1>10 DEF vars, Inv, TypeOK, CallIsDurable, Tmux
  <2>2. QED
    BY <1>1, <2>1, RecordsAlone DEF Inv
<1>11. QED
  BY <1>1, <1>2, <1>3, <1>4, <1>5, <1>6, <1>7, <1>8, <1>9, <1>10 DEF Next

(* The invariant holds in every state of every behaviour.                  *)
LEMMA Invariance ==
    Spec => []Inv
<1>1. Inv /\ [Next]_vars => Inv'
  BY NextInv
<1>2. QED
  BY <1>1, InitInv, PTL DEF Spec

(* Every variable keeps its type, whatever the sizes of the sets and the   *)
(* bounds; in particular a journal entry is always a completed operation,  *)
(* and the daemon is inside an operation only with a target and an answer. *)
THEOREM TypeCorrect ==
    Spec => []TypeOK
<1>1. Inv => TypeOK
  BY DEF Inv
<1>2. QED
  BY <1>1, Invariance, PTL

(* No handler, on any of its error paths, saves a record that the store    *)
(* would refuse to load: the daemon can always be restarted (isTarget in   *)
(* store.ts against every save in authority.ts).                           *)
THEOREM StoreStaysReadable ==
    Spec => []StoreReadable
<1>1. Inv => StoreReadable
  BY DEF Inv
<1>2. QED
  BY <1>1, Invariance, PTL

(* Whenever tmux is being written to, the operation is durable on an       *)
(* active target and its fence is that of the lease in force, so a crash   *)
(* at any point of the write leaves a mark that the next start turns into  *)
(* a recovery (executeInput, executeLifecycleKill).                        *)
THEOREM WritesAreDurable ==
    Spec => []CallIsDurable
<1>1. Inv => CallIsDurable
  BY DEF Inv
<1>2. QED
  BY <1>1, Invariance, PTL

(* However many targets, owners and operations there are, a record that is *)
(* active has no Feishu owner lost and no operation in doubt that nobody   *)
(* has acknowledged: polling, resolving and restarting reopen only what    *)
(* isAutoRecoverableNonFeishuState proves harmless, and every fencing      *)
(* leaves its cause where that test looks for it (markRecovery).           *)
THEOREM NothingResumesSilently ==
    Spec => []NoSilentResume
<1>1. Inv => NoSilentResume
  BY DEF Inv, Honesty, Honest, NoSilentResume
<1>2. QED
  BY <1>1, Invariance, PTL

(* A session name never has two live records, however often its session is *)
(* recreated and wherever resolveTarget fails: either nothing of the       *)
(* resolution is saved, or the new record and the retirement of all the    *)
(* earlier ones are.                                                       *)
THEOREM OneLiveRecord ==
    Spec => []OneTargetPerName
<1>1. Inv => OneTargetPerName
  BY DEF Inv
<1>2. QED
  BY <1>1, Invariance, PTL

(* Along every behaviour the fence of a target never decreases, one fence  *)
(* never names two owners, and a retired target stays retired, on every    *)
(* path of every handler, the error paths and the restarts included        *)
(* (nextDecimal).                                                          *)
THEOREM FencesNameOneOwner ==
    Spec => FenceNamesOneOwner
<1>1. Inv /\ [Next]_vars => [FenceStep]_vars
  <2>1. SUFFICES ASSUME Inv, [Next]_vars, NEW t \in Target
                 PROVE  /\ Succeeds(targets[t].own, targets'[t].own)
                        /\ targets[t].lifecycle = "TARGET_GONE" =>
                              targets'[t].lifecycle = "TARGET_GONE"
    BY DEF FenceStep, Succeeds
  <2>2. targets[t] \in Record /\ targets'[t] \in Later(targets[t]) \cup {targets[t]}
    BY <2>1, NextInv, Records DEF Advances
  <2>3. QED
    BY <2>2, LaterFields DEF Succession
<1>2. QED
  BY <1>1, Invariance, PTL DEF Spec, FenceNamesOneOwner

(* No step of any handler drops an operation in doubt from the journal of  *)
(* a target that is not retired by it, whatever the size of the journal    *)
(* (appendOperation makes room only at the cost of a committed entry).     *)
THEOREM DoubtIsKept ==
    Spec => InDoubtKept
<1>1. Inv /\ [Next]_vars => [InDoubtStep]_vars
  <2>1. SUFFICES ASSUME Inv, [Next]_vars, NEW t \in Target
                 PROVE  \/ targets'[t].lifecycle = "TARGET_GONE"
                        \/ Keeps(targets[t].journal, targets'[t].journal)
    BY DEF InDoubtStep, Keeps
  <2>2. targets[t] \in Record /\ targets'[t] \in Later(targets[t]) \cup {targets[t]}
    BY <2>1, NextInv, Records DEF Advances
  <2>3. QED
    BY <2>2, LaterFields DEF Succession
<1>2. QED
  BY <1>1, Invariance, PTL DEF Spec, InDoubtKept

-----------------------------------------------------------------------------
(* What has reached a pane, or may still reach one.  An operation leaves a *)
(* trace when its bytes land or when they are on their way without their   *)
(* caller.                                                                 *)
Traces == landed \cup late

Touched(t, i) == \E x \in Traces : x.target = t /\ x.id = i

Wrote(t, f, o) == \E x \in Traces : /\ x.target = t /\ x.fence = f /\ x.owner = o
                                    /\ x.kind # "lifecycle-kill"

(* Record r cannot take operation i for a new one.                         *)
Remembers(r, i) ==
    r.lifecycle = "TARGET_GONE" \/ i \in Known(r) \/ r.inFlight.id = i

(* The operation in flight has left no trace, unless under a use of its id *)
(* that the journal has forgotten.                                         *)
Unwritten(t) ==
    Touched(t, targets[t].inFlight.id) =>
        targets[t].inFlight.id \in targets[t].dropped

(* Owner o may have written under fence f: the fence is an earlier one, or *)
(* the one of a lease that o shares and alone produces under.              *)
Ascribed(t, f, o) ==
    LET own == targets[t].own
    IN  /\ f <= own.fence
        /\ f = own.fence =>
             /\ own.state # "FREE" /\ sameInputOwnerClass(own.owner, o)
             /\ isInteractiveOwner(o) /\ up => producer[t] = o

Remembered ==
    \A t \in Target, i \in OpId : Touched(t, i) => Remembers(targets[t], i)

(* What is on its way has not landed, and is on its way once.              *)
LandsOnce ==
    \A x \in late :
        /\ \A h \in landed : (h.target = x.target /\ h.id = x.id) =>
                                 x.id \in targets[x.target].dropped
        /\ \A y \in late : (y.target = x.target /\ y.id = x.id) =>
                               y = x \/ x.id \in targets[x.target].dropped

(* An answer that lets the operation be sent again means that it was not   *)
(* written, or that its session is gone.                                   *)
AnswersAreTrue ==
    \A t \in Target :
        (call.stage # "idle" /\ call.target = t) =>
            /\ call.stage = "accepted" \/ call.result \in {"declined", "refused"} =>
                   Unwritten(t)
            /\ call.result = "failed" =>
                   \/ Unwritten(t)
                   \/ ~(tmux.up /\ tmux.incarnation = targets[t].incarnation)

Attributed ==
    \A t \in Target, f \in Nat, o \in Owner : Wrote(t, f, o) => Ascribed(t, f, o)

Entitled ==
    \A t \in Target : (call.stage # "idle" /\ call.target = t) =>
                          Authorised(targets[t], producer[t])

OneWriter ==
    \A t \in Target, f \in Nat, o, p \in Owner :
        Wrote(t, f, o) /\ Wrote(t, f, p) => o = p

(* The second invariant, over the first: how the records account for the   *)
(* traces.  What a record remembers keeps an operation from being accepted *)
(* twice; only an answer that is true may clear its mark; and the fence of *)
(* a trace names its one owner because the producer stays registered as    *)
(* long as the lease.                                                      *)
History == /\ Remembered /\ LandsOnce /\ AtMostOnce /\ AnswersAreTrue
           /\ Attributed /\ Entitled /\ OneWriter

(* What a record remembers, the ones that follow it remember.              *)
LEMMA RemembersOn ==
    ASSUME NEW r \in Record, NEW q \in Record, Succession(r, q), NEW i \in OpId,
           Remembers(r, i), Minds(r, q) \/ r.inFlight.id # i
    PROVE  Remembers(q, i)
<1>1. i # None
  BY RecordAssumption
<1>2. CASE r.lifecycle = "TARGET_GONE"
  BY <1>2 DEF Succession, Remembers
<1>3. CASE i \in Known(r)
  BY <1>3 DEF Succession, Remembers
<1>4. CASE r.inFlight.id = i
  BY <1>1, <1>4 DEF Minds, Pending, Remembers
<1>5. QED
  BY <1>2, <1>3, <1>4 DEF Remembers

(* Along a step the records advance, and what they dropped stays dropped.  *)
LEMMA Advanced ==
    ASSUME Inv, Inv', Advances, NEW t \in Target
    PROVE  /\ targets[t] \in Record /\ targets'[t] \in Record
           /\ Succession(targets[t], targets'[t])
           /\ targets[t].dropped \subseteq targets'[t].dropped
           /\ targets[t].own.fence \in Nat /\ targets'[t].own.fence \in Nat
<1>1. targets[t] \in Record /\ targets'[t] \in Record
  BY Records DEF Inv, TypeOK, StoreReadable, Honesty, Record
<1>2. Succession(targets[t], targets'[t])
  BY <1>1, LaterFields DEF Advances
<1>3. QED
  BY <1>1, <1>2, Fences DEF Succession, Record

(* An owner that may have written under a fence still may have, as long as *)
(* the producer of an unchanged lease stays registered.                    *)
LEMMA WriterStays ==
    ASSUME Inv, Inv', Advances, NEW t \in Target, NEW f \in Nat, NEW o \in Owner,
           Ascribed(t, f, o),
           /\ up' /\ targets'[t].own.state # "FREE"
           /\ targets'[t].own.fence = targets[t].own.fence
           => up /\ producer[t] \in {None, producer'[t]}
    PROVE  Ascribed(t, f, o)'
<1>1. Succeeds(targets[t].own, targets'[t].own)
  BY Advanced DEF Succession
<1>2. targets[t].own.fence \in Nat /\ targets'[t].own.fence \in Nat
  BY Advanced
<1>3. o # None
  BY RecordAssumption
<1>4. f <= targets'[t].own.fence
  BY <1>1, <1>2 DEF Ascribed, Succeeds
<1>5. ASSUME f = targets'[t].own.fence
      PROVE  /\ targets'[t].own.state # "FREE"
             /\ sameInputOwnerClass(targets'[t].own.owner, o)
             /\ isInteractiveOwner(o) /\ up' => producer'[t] = o
  <2>1. f = targets[t].own.fence /\ targets'[t].own.fence = targets[t].own.fence
    BY <1>1, <1>2, <1>5 DEF Ascribed, Succeeds
  <2>2. /\ targets[t].own.state # "FREE" /\ targets'[t].own.state # "FREE"
        /\ targets'[t].own.owner = targets[t].own.owner
    BY <1>1, <2>1 DEF Ascribed, Succeeds
  <2>3. /\ sameInputOwnerClass(targets[t].own.owner, o)
        /\ isInteractiveOwner(o) /\ up => producer[t] = o
    BY <2>1 DEF Ascribed
  <2>4. QED
    BY <1>3, <2>1, <2>2, <2>3
<1>6. QED
  BY <1>4, <1>5 DEF Ascribed

(* A step that writes nothing: every trace is an old one.                  *)
LEMMA QuietHistory ==
    ASSUME Inv, Inv', Advances, History, UNCHANGED <<late, landed, replayed>>,
           \A t \in Target, i \in OpId :
               Touched(t, i) /\ Remembers(targets[t], i) => Remembers(targets'[t], i),
           \A t \in Target :
               /\ up' /\ targets'[t].own.state # "FREE"
               /\ targets'[t].own.fence = targets[t].own.fence
               => up /\ producer[t] \in {None, producer'[t]}
    PROVE  /\ Remembered' /\ LandsOnce' /\ AtMostOnce' /\ Attributed' /\ OneWriter'
           /\ \A t, i : Touched(t, i)' <=> Touched(t, i)
<1>1. /\ \A t, i : Touched(t, i)' <=> Touched(t, i)
      /\ \A t, f, o : Wrote(t, f, o)' <=> Wrote(t, f, o)
  BY DEF Touched, Wrote, Traces
<1>2. Remembered'
  BY <1>1 DEF History, Remembered
<1>3. \A t \in Target : targets[t].dropped \subseteq targets'[t].dropped
  BY Advanced
<1>4. LandsOnce'
  <2>1. \A x \in late : x.target \in Target
    BY DEF Inv, TypeOK, Write
  <2>2. QED
    BY <1>3, <2>1 DEF History, LandsOnce
<1>5. AtMostOnce'
  <2>1. \A p \in replayed : p[1] \in Target
    BY DEF Inv, TypeOK
  <2>2. QED
    BY <1>3, <2>1 DEF History, AtMostOnce
<1>6. Attributed'
  <2>1. SUFFICES ASSUME NEW t \in Target, NEW f \in Nat, NEW o \in Owner,
                        Wrote(t, f, o)'
                 PROVE  Ascribed(t, f, o)'
    BY DEF Attributed
  <2>2. Ascribed(t, f, o)
    BY <1>1, <2>1 DEF History, Attributed
  <2>3. QED
    BY <2>2, WriterStays
<1>7. OneWriter'
  BY <1>1 DEF History, OneWriter
<1>8. QED
  BY <1>1, <1>2, <1>4, <1>5, <1>6, <1>7

(* A request keeps History: what it accepts has left no trace.             *)
LEMMA RequestHistory ==
    ASSUME Inv, Inv', Advances, History, Serves
    PROVE  History'
<1>1. /\ up /\ UNCHANGED <<late, landed, replayed>>
      /\ \A t \in Target : Minds(targets[t], targets'[t])
  BY DEF Serves
<1>2. ASSUME NEW t \in Target, NEW i \in OpId, Remembers(targets[t], i)
      PROVE  Remembers(targets'[t], i)
  BY <1>1, <1>2, Advanced, RemembersOn
<1>3. ASSUME NEW t \in Target, up', targets'[t].own.state # "FREE",
             targets'[t].own.fence = targets[t].own.fence
      PROVE  producer[t] \in {None, producer'[t]}
  <2>1. From(t).rec = targets[t] /\ From(t).prod = producer[t]
    BY WorldGood
  <2>2. Tended(From(t), targets'[t], producer'[t])
    BY <1>3 DEF Serves
  <2>3. QED
    BY <1>3, <2>1, <2>2 DEF Tended
<1>4. /\ Remembered' /\ LandsOnce' /\ AtMostOnce' /\ Attributed' /\ OneWriter'
      /\ \A t, i : Touched(t, i)' <=> Touched(t, i)
  BY <1>1, <1>2, <1>3, QuietHistory
<1>5. call'.stage # "idle" => call'.stage = "accepted" /\ call'.result = "none"
  BY DEF Serves, Inv, TypeOK, Call, IdleCall
<1>6. ASSUME NEW t \in Target, call'.stage # "idle", call'.target = t
      PROVE  Unwritten(t)' /\ Authorised(targets'[t], producer'[t])
  <2> DEFINE r == targets[t]
             q == targets'[t]
  <2>1. /\ Authorised(q, producer'[t]) /\ Recalls(r, q)
        /\ q.lifecycle = "ACTIVE" /\ Pending(q)
    BY <1>6 DEF Serves, Inv, CallIsDurable
  <2>2. q \in Record /\ Succession(r, q)
    BY Advanced
  <2> HIDE DEF r, q
  <2>3. PICK i \in OpId : i = q.inFlight.id /\ i # None /\ i \notin JournalIds(q)
    BY <2>1, <2>2, PendingIsInFlight DEF Record, isTarget, Pending
  <2>4. ASSUME Touched(t, i) PROVE i \in q.dropped
    <3>1. Remembers(r, i)
      BY <2>4 DEF History, Remembered, r
    <3>2. i \in Known(q)
      BY <2>1, <2>2, <2>3, <3>1 DEF Remembers, Succession, Recalls, Pending
    <3>3. QED
      BY <2>3, <3>2 DEF Known
  <2>5. Touched(t, targets[t].inFlight.id)' <=> Touched(t, i)
    BY <1>1, <2>3 DEF Touched, Traces, q
  <2>6. Unwritten(t)'
    BY <2>3, <2>4, <2>5 DEF Unwritten, q
  <2>7. QED
    BY <2>1, <2>6 DEF q
<1>7. AnswersAreTrue' /\ Entitled'
  BY <1>5, <1>6 DEF AnswersAreTrue, Entitled
<1>8. QED
  BY <1>4, <1>7 DEF History

(* So does the clock.                                                      *)
LEMMA LeaseExpiresHistory ==
    ASSUME Inv, Inv', Advances, History, NEW u \in Target, LeaseExpires(u)
    PROVE  History'
<1>1. UNCHANGED <<tmux, producer, up, call, late, landed, replayed>>
  BY DEF LeaseExpires
<1>2. ASSUME NEW t \in Target
      PROVE  /\ Minds(targets[t], targets'[t])
             /\ targets'[t].inFlight = targets[t].inFlight
             /\ targets'[t].own.owner = targets[t].own.owner
             /\ targets'[t].incarnation = targets[t].incarnation
             /\ targets[t].dropped \subseteq targets'[t].dropped
  BY LeaseExpiresInv, Advanced
<1>3. ASSUME NEW t \in Target, NEW i \in OpId, Remembers(targets[t], i)
      PROVE  Remembers(targets'[t], i)
  BY <1>2, <1>3, Advanced, RemembersOn
<1>4. /\ Remembered' /\ LandsOnce' /\ AtMostOnce' /\ Attributed' /\ OneWriter'
      /\ \A t, i : Touched(t, i)' <=> Touched(t, i)
  BY <1>1, <1>3, QuietHistory
<1>5. ASSUME NEW t \in Target, Unwritten(t) PROVE Unwritten(t)'
  BY <1>2, <1>4, <1>5 DEF Unwritten
<1>6. AnswersAreTrue'
  BY <1>1, <1>2, <1>5 DEF History, AnswersAreTrue
<1>7. Entitled'
  BY <1>1, <1>2 DEF History, Entitled, Authorised
<1>8. QED
  BY <1>4, <1>6, <1>7 DEF History

(* A restart keeps History: the producers it has forgotten produced under  *)
(* leases that it ends.                                                    *)
LEMMA StartHistory ==
    ASSUME Inv, Inv', Advances, History, Start
    PROVE  History'
<1>1. /\ UNCHANGED <<call, late, landed, replayed>> /\ call.stage = "idle"
      /\ \A t \in Target : Minds(targets[t], targets'[t]) /\ targets'[t].own.state = "FREE"
  BY StartInv DEF Start
<1>2. ASSUME NEW t \in Target, NEW i \in OpId, Remembers(targets[t], i)
      PROVE  Remembers(targets'[t], i)
  BY <1>1, <1>2, Advanced, RemembersOn
<1>3. Remembered' /\ LandsOnce' /\ AtMostOnce' /\ Attributed' /\ OneWriter'
  BY <1>1, <1>2, QuietHistory
<1>4. AnswersAreTrue' /\ Entitled'
  BY <1>1 DEF AnswersAreTrue, Entitled
<1>5. QED
  BY <1>3, <1>4 DEF History

(* Sessions and pipes that come and go: a session that was gone does not   *)
(* come back under its incarnation.                                        *)
LEMMA SurroundingsHistory ==
    ASSUME Inv, Inv', Advances, History, SessionEnds \/ SessionRecreated \/ PipeStops
    PROVE  History'
<1>1. UNCHANGED <<targets, producer, up, call, late, landed, replayed>>
  BY DEF SessionEnds, SessionRecreated, PipeStops, Surroundings
<1>2. \A t \in Target, i \in OpId :
         Remembers(targets[t], i) => Remembers(targets'[t], i)
  BY <1>1
<1>3. /\ Remembered' /\ LandsOnce' /\ AtMostOnce' /\ Attributed' /\ OneWriter'
      /\ \A t, i : Touched(t, i)' <=> Touched(t, i)
  BY <1>1, <1>2, QuietHistory
<1>4. ASSUME NEW t \in Target, tmux'.up, tmux'.incarnation = targets[t].incarnation
      PROVE  tmux.up /\ tmux.incarnation = targets[t].incarnation
  <2>1. /\ tmux \in Tmux /\ tmux.incarnation \in Nat
        /\ targets[t].incarnation \in Nat
        /\ targets[t].incarnation <= tmux.incarnation
    BY DEF Inv, TypeOK, Tmux, TargetRecord, Dated
  <2>2. CASE SessionEnds
    BY <1>4, <2>1, <2>2 DEF SessionEnds, Surroundings, Tmux
  <2>3. CASE SessionRecreated
    BY <1>4, <2>1, <2>3 DEF SessionRecreated, Surroundings
  <2>4. CASE PipeStops
    BY <1>4, <2>1, <2>4 DEF PipeStops, Surroundings, Tmux
  <2>5. QED
    BY <2>2, <2>3, <2>4
<1>5. \A t \in Target : Unwritten(t) => Unwritten(t)'
  BY <1>1, <1>3 DEF Unwritten
<1>6. AnswersAreTrue'
  BY <1>1, <1>4, <1>5 DEF History, AnswersAreTrue
<1>7. Entitled'
  BY <1>1 DEF History, Entitled
<1>8. QED
  BY <1>3, <1>6, <1>7 DEF History

(* The disposition of an operation: its mark is cleared for good only when *)
(* the journal takes the operation, or when it was never written.          *)
LEMMA FinishCallHistory ==
    ASSUME Inv, Inv', Advances, History, FinishCall
    PROVE  History'
<1>1. /\ call.stage = "answered" /\ call' = IdleCall
      /\ UNCHANGED <<producer, up, late, landed, replayed>>
  BY DEF FinishCall
<1>2. PICK u \in Target : u = call.target
  BY <1>1, UnderWay
<1>3. /\ \A t \in Target \ {u} : targets'[t] = targets[t]
      /\ \/ targets'[u] = targets[u] \/ Settles(targets[u], targets'[u])
         \/ call.result \in {"declined", "refused"}
         \/ /\ call.result = "failed" /\ tmux.up
            /\ tmux.incarnation = targets[u].incarnation
  BY <1>2, FinishCallInv
<1>4. \/ targets'[u] = targets[u] \/ Settles(targets[u], targets'[u]) \/ Unwritten(u)
  BY <1>1, <1>2, <1>3 DEF History, AnswersAreTrue
<1>5. ASSUME NEW t \in Target, NEW i \in OpId, Touched(t, i), Remembers(targets[t], i)
      PROVE  Remembers(targets'[t], i)
  <2>1. CASE targets'[t] = targets[t]
    BY <1>5, <2>1
  <2>2. CASE t = u /\ targets[u].inFlight.id # i
    BY <1>5, <2>2, Advanced, RemembersOn
  <2>3. CASE t = u /\ targets[u].inFlight.id = i /\ Settles(targets[u], targets'[u])
    BY <2>3 DEF Settles, Remembers
  <2>4. CASE t = u /\ targets[u].inFlight.id = i /\ Unwritten(u)
    BY <1>5, <2>4, Advanced DEF Unwritten, Remembers, Known
  <2>5. QED
    BY <1>3, <1>4, <2>1, <2>2, <2>3, <2>4
<1>6. Remembered' /\ LandsOnce' /\ AtMostOnce' /\ Attributed' /\ OneWriter'
  BY <1>1, <1>5, QuietHistory
<1>7. AnswersAreTrue' /\ Entitled'
  BY <1>1 DEF AnswersAreTrue, Entitled, IdleCall
<1>8. QED
  BY <1>6, <1>7 DEF History

(* The operation under way: it is in flight under the fence of the lease,  *)
(* its owner may write, and so far it has left no trace.                   *)
LEMMA AcceptedOperation ==
    ASSUME Inv, History, NEW u \in Target, call.stage = "accepted", call.target = u
    PROVE  /\ targets[u].inFlight \in InFlight /\ Unwritten(u) /\ up
           /\ targets[u].own.state # "FREE"
           /\ targets[u].own.fence = targets[u].inFlight.fence
           /\ targets[u].inFlight.kind # "lifecycle-kill" =>
                Ascribed(u, targets[u].inFlight.fence, targets[u].inFlight.owner)
           /\ Sent(u) \in Write /\ Sent(u).target = u
           /\ Sent(u).id = targets[u].inFlight.id
           /\ Sent(u).kind = targets[u].inFlight.kind
           /\ Sent(u).owner = targets[u].inFlight.owner
           /\ Sent(u).fence = targets[u].inFlight.fence
<1> DEFINE op == targets[u].inFlight
<1>1. InCall(targets[u]) /\ Sent(u) \in Write /\ targets[u] \in TargetRecord
  BY UnderWay DEF Inv, TypeOK
<1>2. /\ op \in InFlight /\ targets[u].own.state # "FREE"
      /\ targets[u].own.fence = op.fence /\ op.fence \in Nat
  BY <1>1, PendingIsInFlight DEF InCall, InFlight
<1>3. Unwritten(u) /\ Authorised(targets[u], producer[u]) /\ up
  BY DEF History, AnswersAreTrue, Entitled, Inv, CallIsDurable
<1>4. op.kind # "lifecycle-kill" => Ascribed(u, op.fence, op.owner)
  BY <1>2, <1>3 DEF Authorised, Ascribed
<1>5. /\ Sent(u).target = u /\ Sent(u).id = op.id /\ Sent(u).kind = op.kind
      /\ Sent(u).owner = op.owner /\ Sent(u).fence = op.fence
  BY DEF Sent
<1>6. QED
  BY <1>1, <1>2, <1>3, <1>4, <1>5

(* Two owners that may have written under the fence in force are one.      *)
LEMMA SameWriter ==
    ASSUME NEW t \in Target, NEW f \in Nat, NEW o \in Owner, NEW p \in Owner, up,
           Ascribed(t, f, o), Ascribed(t, f, p), f = targets[t].own.fence
    PROVE  o = p
  BY DEF Ascribed, sameInputOwnerClass

(* A step whose only new trace is that of the operation under way.         *)
LEMMA TraceOfCall ==
    ASSUME Inv, Inv', History, NEW u \in Target,
           call.stage = "accepted", call.target = u, targets' = targets,
           late' \in {late, late \cup {Sent(u)}},
           \/ landed' = landed
           \/ \E h \in Hit : /\ landed' = landed \cup {h} /\ h.target = u
                             /\ h.id = Sent(u).id /\ h.kind = Sent(u).kind
                             /\ h.owner = Sent(u).owner /\ h.fence = Sent(u).fence,
           up' => producer' = producer
    PROVE  Remembered' /\ Attributed' /\ OneWriter'
<1> DEFINE op == targets[u].inFlight
<1>1. /\ op \in InFlight /\ up
      /\ targets[u].own.state # "FREE" /\ targets[u].own.fence = op.fence
      /\ op.kind # "lifecycle-kill" => Ascribed(u, op.fence, op.owner)
      /\ Sent(u).target = u /\ Sent(u).id = op.id /\ Sent(u).kind = op.kind
      /\ Sent(u).owner = op.owner /\ Sent(u).fence = op.fence
  BY AcceptedOperation
<1>2. op.id \in OpId /\ op.owner \in Owner /\ op.fence \in Nat
  BY <1>1 DEF InFlight
<1> HIDE DEF op
<1>3. \A t, i : Touched(t, i)' => Touched(t, i) \/ (t = u /\ i = op.id)
  BY <1>1 DEF Touched, Traces
<1>4. \A t, f, o : Wrote(t, f, o)' =>
        \/ Wrote(t, f, o)
        \/ t = u /\ f = op.fence /\ o = op.owner /\ op.kind # "lifecycle-kill"
  BY <1>1 DEF Wrote, Traces
<1>5. Remembered'
  <2>1. Remembers(targets[u], op.id)
    BY DEF Remembers, op
  <2>2. QED
    BY <1>3, <2>1 DEF History, Remembered
<1>6. ASSUME NEW t \in Target, NEW f \in Nat, NEW o \in Owner, Wrote(t, f, o)'
      PROVE  Ascribed(t, f, o)
  BY <1>1, <1>4, <1>6 DEF History, Attributed
<1>7. Attributed'
  <2>1. SUFFICES ASSUME NEW t \in Target, NEW f \in Nat, NEW o \in Owner,
                        Wrote(t, f, o)'
                 PROVE  Ascribed(t, f, o)'
    BY DEF Attributed
  <2>2. Ascribed(t, f, o)
    BY <1>6, <2>1
  <2>3. QED
    BY <1>1, <2>2 DEF Ascribed
<1>8. OneWriter'
  <2>1. SUFFICES ASSUME NEW t \in Target, NEW f \in Nat, NEW o \in Owner,
                        NEW p \in Owner, Wrote(t, f, o)', Wrote(t, f, p)'
                 PROVE  o = p
    BY DEF OneWriter
  <2>2. CASE Wrote(t, f, o) /\ Wrote(t, f, p)
    BY <2>2 DEF History, OneWriter
  <2>3. CASE t = u /\ f = op.fence
    BY <1>1, <1>6, <2>1, <2>3, SameWriter
  <2>4. QED
    BY <1>4, <2>1, <2>2, <2>3
<1>9. QED
  BY <1>5, <1>7, <1>8

(* The new trace of the operation under way is its first, unless the       *)
(* journal has forgotten an earlier one.                                   *)
LEMMA FirstTrace ==
    ASSUME Inv, Inv', History, NEW u \in Target,
           call.stage = "accepted", call.target = u, targets' = targets,
           \/ late' = late /\ (NothingLands \/ Land(Sent(u)))
           \/ late' = late \cup {Sent(u)} /\ NothingLands
    PROVE  LandsOnce' /\ AtMostOnce'
<1> DEFINE x == Sent(u)
           i == targets[u].inFlight.id
<1>1. x \in Write /\ x.target = u /\ x.id = i
  BY AcceptedOperation
<1>2. ASSUME NEW y \in Traces, y.target = u, y.id = i
      PROVE  i \in targets[u].dropped
  BY <1>2, AcceptedOperation DEF Unwritten, Touched
<1> HIDE DEF x, i
<1>3. CASE late' = late /\ NothingLands
  BY <1>3 DEF History, LandsOnce, AtMostOnce, NothingLands
<1>4. CASE late' = late \cup {x} /\ NothingLands
  <2>1. landed' = landed /\ replayed' = replayed
    BY <1>4 DEF NothingLands
  <2>2. LandsOnce'
    BY <1>1, <1>2, <1>4, <2>1 DEF History, LandsOnce, Traces
  <2>3. QED
    BY <2>1, <2>2 DEF History, AtMostOnce
<1>5. CASE late' = late /\ Land(x)
  <2>1. /\ \E h : landed' = landed \cup {h} /\ h.target = u /\ h.id = i
        /\ \A p \in replayed' :
             \/ p \in replayed
             \/ p = <<u, i>> /\ \E y \in landed : y.target = u /\ y.id = i
    <3> DEFINE h == [target |-> x.target, id |-> x.id, kind |-> x.kind,
                     owner |-> x.owner, fence |-> x.fence,
                     incarnation |-> x.incarnation, into |-> tmux.incarnation]
    <3>1. landed' = landed \cup {h}
      BY <1>5 DEF Land
    <3>2. h.target = u /\ h.id = i
      BY <1>1
    <3>3. \A p \in replayed' :
            \/ p \in replayed
            \/ p = <<u, i>> /\ \E y \in landed : y.target = u /\ y.id = i
      BY <1>1, <1>5 DEF Land
    <3>4. QED
      BY <3>1, <3>2, <3>3
  <2>2. LandsOnce'
    BY <1>2, <1>5, <2>1 DEF History, LandsOnce, Traces
  <2>3. AtMostOnce'
    <3>1. SUFFICES ASSUME NEW p \in replayed' PROVE p[2] \in targets[p[1]].dropped
      BY DEF AtMostOnce
    <3>2. CASE p \in replayed
      BY <3>2 DEF History, AtMostOnce
    <3>3. CASE p = <<u, i>> /\ \E y \in landed : y.target = u /\ y.id = i
      BY <1>2, <3>3 DEF Traces
    <3>4. QED
      BY <2>1, <3>1, <3>2, <3>3
  <2>4. QED
    BY <2>2, <2>3
<1>6. QED
  BY <1>3, <1>4, <1>5 DEF x

(* The answers a write can get: one that has landed, or may still land, is *)
(* answered as committed or unknown, a kill that landed also as failed.    *)
LEMMA WriteAnswers ==
    ASSUME Inv, BackendWrite, NEW u \in Target, call.target = u
    PROVE  /\ call'.stage = "answered" /\ call'.target = u
           /\ \/ late' = late /\ NothingLands
              \/ /\ late' = late /\ Land(Sent(u))
                 /\ \/ call'.result \in {"committed", "unknown"}
                    \/ call'.result = "failed" /\ Sent(u).kind = "lifecycle-kill"
              \/ /\ late' = late \cup {Sent(u)} /\ NothingLands
                 /\ call'.result = "unknown"
<1> DEFINE x == Sent(u)
<1>1. call.stage = "accepted"
  BY DEF BackendWrite
<1>2. call \in [stage : {"accepted"}, target : Target, result : {"none"}]
           \cup [stage : {"answered"}, target : Target, result : Result]
  BY <1>1, UnderWay
<1>3. \A a : Answer(a) =>
        call'.stage = "answered" /\ call'.target = u /\ call'.result = a
  BY <1>2 DEF Answer
<1>4. \/ WriteLands(x) \/ WriteMisses(x) \/ WriteDeclined(x)
      \/ WriteUnprobed(x) \/ WriteUnconfirmed(x)
  BY DEF BackendWrite
<1> HIDE DEF x
<1>5. CASE WriteLands(x)
  BY <1>3, <1>5 DEF WriteLands, x
<1>6. CASE WriteMisses(x) \/ WriteDeclined(x) \/ WriteUnprobed(x)
  BY <1>3, <1>6 DEF WriteMisses, WriteDeclined, WriteUnprobed
<1>7. CASE WriteUnconfirmed(x)
  BY <1>3, <1>7 DEF WriteUnconfirmed, x
<1>8. QED
  BY <1>4, <1>5, <1>6, <1>7

(* The write to tmux keeps History.                                        *)
LEMMA BackendWriteHistory ==
    ASSUME Inv, Inv', History, BackendWrite
    PROVE  History'
<1>1. call.stage = "accepted" /\ UNCHANGED <<targets, producer, up>>
  BY DEF BackendWrite
<1>2. PICK u \in Target : u = call.target
  BY <1>1, UnderWay
<1> DEFINE x == Sent(u)
<1>3. /\ call'.stage = "answered" /\ call'.target = u
      /\ \/ late' = late /\ NothingLands
         \/ /\ late' = late /\ Land(x)
            /\ \/ call'.result \in {"committed", "unknown"}
               \/ call'.result = "failed" /\ x.kind = "lifecycle-kill"
         \/ late' = late \cup {x} /\ NothingLands /\ call'.result = "unknown"
  BY <1>2, WriteAnswers
<1>4. x \in Write /\ x.target = u /\ tmux \in Tmux
  BY <1>1, <1>2, AcceptedOperation DEF Inv, TypeOK
<1> HIDE DEF x
<1>5. \/ landed' = landed
      \/ \E h \in Hit : /\ landed' = landed \cup {h} /\ h.target = u
                        /\ h.id = x.id /\ h.kind = x.kind
                        /\ h.owner = x.owner /\ h.fence = x.fence
  <2>1. CASE NothingLands
    BY <2>1 DEF NothingLands
  <2>2. CASE Land(x)
    <3> DEFINE h == [target |-> x.target, id |-> x.id, kind |-> x.kind,
                     owner |-> x.owner, fence |-> x.fence,
                     incarnation |-> x.incarnation, into |-> tmux.incarnation]
    <3>1. h \in Hit /\ landed' = landed \cup {h}
      BY <1>4, <2>2 DEF Land, Write, Hit, Tmux
    <3>2. QED
      BY <1>4, <3>1
  <2>3. QED
    BY <1>3, <2>1, <2>2
<1>6. Remembered' /\ Attributed' /\ OneWriter'
  BY <1>1, <1>2, <1>3, <1>5, TraceOfCall DEF x
<1>7. LandsOnce' /\ AtMostOnce'
  BY <1>1, <1>2, <1>3, FirstTrace DEF x
<1>8. AnswersAreTrue'
  <2>1. CASE late' = late /\ NothingLands
    <3>1. Unwritten(u)
      BY <1>1, <1>2, AcceptedOperation
    <3>2. Unwritten(u)'
      BY <1>1, <2>1, <3>1 DEF Unwritten, Touched, Traces, NothingLands
    <3>3. QED
      BY <1>3, <3>2 DEF AnswersAreTrue
  <2>2. CASE call'.result \in {"committed", "unknown"}
    BY <1>3, <2>2 DEF AnswersAreTrue
  <2>3. CASE call'.result = "failed" /\ Land(x) /\ x.kind = "lifecycle-kill"
    <3>1. ~tmux'.up
      BY <1>4, <2>3 DEF Land, Tmux
    <3>2. QED
      BY <1>3, <2>3, <3>1 DEF AnswersAreTrue
  <2>4. QED
    BY <1>3, <2>1, <2>2, <2>3
<1>9. Entitled'
  BY <1>1, <1>2, <1>3 DEF History, Entitled
<1>10. QED
  BY <1>6, <1>7, <1>8, <1>9 DEF History

(* A write that lands late was a trace already, and lands for the first    *)
(* time.                                                                   *)
LEMMA LateLandHistory ==
    ASSUME Inv, Inv', History, NEW x \in late, LateLand(x)
    PROVE  History'
<1>1. /\ late' = late \ {x} /\ UNCHANGED <<targets, producer, up, call>>
      /\ Land(x) \/ NothingLands
  BY DEF LateLand
<1>2. x \in Write /\ x.target \in Target /\ tmux \in Tmux
  BY DEF Inv, TypeOK, Write
<1>3. /\ tmux'.incarnation = tmux.incarnation /\ (tmux'.up => tmux.up)
      /\ \/ landed' = landed /\ replayed' = replayed
         \/ \E h : /\ landed' = landed \cup {h}
                   /\ h.target = x.target /\ h.id = x.id /\ h.kind = x.kind
                   /\ h.owner = x.owner /\ h.fence = x.fence
                   /\ replayed' = replayed \cup
                        {p \in {<<x.target, x.id>>} :
                           \E y \in landed : y.target = x.target /\ y.id = x.id}
  <2>1. CASE NothingLands
    BY <2>1 DEF NothingLands
  <2>2. CASE Land(x)
    <3>1. tmux'.incarnation = tmux.incarnation /\ (tmux'.up => tmux.up)
      BY <1>2, <2>2 DEF Land, Tmux
    <3>2. QED
      BY <2>2, <3>1 DEF Land
  <2>3. QED
    BY <1>1, <2>1, <2>2
<1>4. /\ \A t, i : Touched(t, i)' => Touched(t, i)
      /\ \A t, f, o : Wrote(t, f, o)' => Wrote(t, f, o)
  BY <1>1, <1>3 DEF Touched, Wrote, Traces
<1>5. Remembered' /\ OneWriter'
  BY <1>1, <1>4 DEF History, Remembered, OneWriter
<1>6. Attributed'
  BY <1>1, <1>4 DEF History, Attributed, Ascribed
<1>7. LandsOnce'
  BY <1>1, <1>3 DEF History, LandsOnce
<1>8. AtMostOnce'
  <2>1. SUFFICES ASSUME NEW p \in replayed' PROVE p[2] \in targets[p[1]].dropped
    BY <1>1 DEF AtMostOnce
  <2>2. CASE p \in replayed
    BY <2>2 DEF History, AtMostOnce
  <2>3. CASE /\ p = <<x.target, x.id>>
             /\ \E y \in landed : y.target = x.target /\ y.id = x.id
    BY <2>3 DEF History, LandsOnce
  <2>4. QED
    BY <1>3, <2>1, <2>2, <2>3
<1>9. \A t \in Target : Unwritten(t) => Unwritten(t)'
  BY <1>1, <1>4 DEF Unwritten
<1>10. AnswersAreTrue'
  BY <1>1, <1>3, <1>9 DEF History, AnswersAreTrue
<1>11. Entitled'
  BY <1>1 DEF History, Entitled
<1>12. QED
  BY <1>5, <1>6, <1>7, <1>8, <1>10, <1>11 DEF History

(* A crash may leave the write of the operation under way on its way.      *)
LEMMA CrashHistory ==
    ASSUME Inv, Inv', Advances, History, Crash
    PROVE  History'
<1>1. /\ ~up' /\ call' = IdleCall /\ UNCHANGED <<targets, landed, replayed, tmux>>
      /\ call.stage # "accepted" => late' = late
  BY DEF Crash
<1>2. Remembered' /\ LandsOnce' /\ AtMostOnce' /\ Attributed' /\ OneWriter'
  <2>1. CASE late' = late
    BY <1>1, <2>1, QuietHistory
  <2>2. CASE late' # late
    <3>1. PICK u \in Target : u = call.target /\ call.stage = "accepted"
      BY <1>1, <2>2, UnderWay
    <3>2. late' = late \cup {Sent(u)}
      BY <2>2, <3>1 DEF Crash
    <3>3. QED
      BY <1>1, <3>1, <3>2, TraceOfCall, FirstTrace DEF NothingLands
  <2>3. QED
    BY <2>1, <2>2
<1>3. AnswersAreTrue' /\ Entitled'
  BY <1>1 DEF AnswersAreTrue, Entitled, IdleCall
<1>4. QED
  BY <1>2, <1>3 DEF History

(* In the initial state there are no traces.                               *)
LEMMA InitHistory ==
    Init => History
<1>1. SUFFICES ASSUME Init PROVE History
  OBVIOUS
<1>2. landed = {} /\ late = {} /\ replayed = {} /\ call.stage = "idle"
  BY <1>1 DEF Init, IdleCall
<1>3. QED
  BY <1>2 DEF History, Remembered, LandsOnce, AtMostOnce, AnswersAreTrue,
              Attributed, Entitled, OneWriter, Touched, Wrote, Traces

(* Every step keeps History.                                               *)
LEMMA NextHistory ==
    Inv /\ Inv' /\ History /\ [Next]_vars => History'
<1>1. SUFFICES ASSUME Inv, Inv', History, [Next]_vars PROVE History'
  OBVIOUS
<1>2. Advances
  BY <1>1, NextInv
<1>3. ASSUME NEW t \in Target, Request(t) PROVE History'
  BY <1>1, <1>2, <1>3, RequestInv, RequestHistory
<1>4. ASSUME NEW t \in Target, LeaseExpires(t) PROVE History'
  BY <1>1, <1>2, <1>4, LeaseExpiresHistory
<1>5. CASE BackendWrite
  BY <1>1, <1>5, BackendWriteHistory
<1>6. CASE FinishCall
  BY <1>1, <1>2, <1>6, FinishCallHistory
<1>7. ASSUME NEW x \in late, LateLand(x) PROVE History'
  BY <1>1, <1>7, LateLandHistory
<1>8. CASE Crash
  BY <1>1, <1>2, <1>8, CrashHistory
<1>9. CASE Start
  BY <1>1, <1>2, <1>9, StartHistory
<1>10. CASE SessionEnds \/ SessionRecreated \/ PipeStops
  BY <1>1, <1>2, <1>10, SurroundingsHistory
<1>11. CASE UNCHANGED vars
  BY <1>1, <1>11 DEF vars, History, Remembered, LandsOnce, AtMostOnce,
                     AnswersAreTrue, Attributed, Entitled, OneWriter, Touched,
                     Wrote, Traces, Unwritten, Ascribed
<1>12. QED
  BY <1>1, <1>3, <1>4, <1>5, <1>6, <1>7, <1>8, <1>9, <1>10, <1>11 DEF Next

(* The second invariant holds in every state of every behaviour.           *)
LEMMA HistoryInvariance ==
    Spec => []History
  BY InitHistory, NextHistory, Invariance, PTL DEF Spec

(* For every number of clients, targets, operation ids, crashes and late   *)
(* writes, no operation reaches a pane twice unless the journal has        *)
(* dropped it, with JournalCap any number: an accepted operation is marked *)
(* before it is sent, only an answer that excludes a write clears the mark *)
(* without a journal entry, and every other end, the ones after a crash or *)
(* a failed save included, leaves the id where existingOperation finds it. *)
THEOREM NothingIsReplayed ==
    Spec => []AtMostOnce
<1>1. History => AtMostOnce
  BY DEF History
<1>2. QED
  BY <1>1, HistoryInvariance, PTL

(* Whatever joins, is preempted, drained, handed over, restarted or fails  *)
(* to be released, the input that reached the panes of a target under one  *)
(* fence has one owner instance, the input that arrives after its daemon   *)
(* died included: the registry of producers is reset only together with    *)
(* the fence, and a restart, which loses the registry, ends every lease    *)
(* (registerInteractiveOwner, initializeContinuity).                       *)
THEOREM OneProducerPerFence ==
    Spec => []SingleProducer
<1>1. Inv /\ History => SingleProducer
  <2>1. SUFFICES ASSUME Inv, History, NEW g \in landed, NEW h \in landed,
                        g.target = h.target, g.fence = h.fence,
                        "lifecycle-kill" \notin {g.kind, h.kind}
                 PROVE  g.owner = h.owner
    BY DEF SingleProducer
  <2>2. g \in Hit /\ h \in Hit
    BY <2>1 DEF Inv, TypeOK
  <2>3. /\ g.target \in Target /\ g.fence \in Nat /\ g.owner \in Owner
        /\ h.owner \in Owner
    BY <2>2 DEF Hit
  <2>4. /\ Wrote(g.target, g.fence, g.owner) /\ Wrote(g.target, g.fence, h.owner)
    BY <2>1 DEF Wrote, Traces
  <2>5. QED
    BY <2>1, <2>3, <2>4 DEF History, OneWriter
<1>2. QED
  BY <1>1, Invariance, HistoryInvariance, PTL
=============================================================================
