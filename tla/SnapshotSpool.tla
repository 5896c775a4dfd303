---------------------------- MODULE SnapshotSpool ----------------------------
(***************************************************************************)
(* The spool of state snapshots (stateSnapshotSpool.ts): a client names a  *)
(* snapshot by its request, and every answer to that request comes from    *)
(* one cut that is pinned on disk until it is released or its lease ends.  *)
(*                                                                         *)
(* A request takes several metadata operations, each of which holds the    *)
(* disk lock; between them it waits for the materialized state, for the    *)
(* build of the cut or for the lock.  An operation is a sequence of disk   *)
(* writes, and a crash leaves any prefix of it.  The maps in memory hold   *)
(* what the disk holds, so only the disk and the builds are kept.          *)
(***************************************************************************)
EXTENDS Integers, Sequences, FiniteSets, SequencesExt

CONSTANTS
    Keys,           \* snapshot requests (principal, client and request id)
    Callers,        \* calls of get that are served at one time
    MaxSnapshots,   \* snapshot ids issued; a request is refused when they are used up
    MaxCuts,        \* maxCutsPerPrincipal
    MaxTombstones,  \* maxTombstones
    IdleLease,      \* idleLeaseMs
    AbsoluteLease,  \* absoluteLeaseMs
    TombstoneLife,  \* releaseTombstoneMs
    MaxTime,        \* the clock
    MaxEpochs,      \* lineages of the host
    MaxCrashes,     \* crashes of the host's process
    MaxFailures,    \* captures the source refuses, or that outgrow their reservation
    MaxRevokes,     \* activations of the port that are revoked
    MaxBusy,        \* operations that cannot get the disk lock
    Torn            \* how far a crash may get into the removal of a directory

SpoolAssumption ==
    /\ {MaxSnapshots, MaxCuts, MaxTombstones, IdleLease, AbsoluteLease, TombstoneLife,
        MaxTime, MaxEpochs, MaxCrashes, MaxFailures, MaxRevokes, MaxBusy} \subseteq Nat
    /\ MaxCuts > 0 /\ MaxTombstones > 0 /\ MaxEpochs > 0
    /\ 0 < IdleLease /\ IdleLease <= AbsoluteLease
    /\ IdleLease <= TombstoneLife      \* so the limits are set, and nothing checks it
    /\ Torn \subseteq {"partial", "bare"}

VARIABLES
    disk,       \* reservations, staged and published cuts, and tombstones
    build,      \* the builds, by snapshot id
    builds,     \* buildsByLogicalKey: the build that each request waits for
    call,       \* the calls of get
    proc,       \* the process: up, down, or fail-closed
    now, epoch, \* the clock and the lineage of the host
    fence,      \* the activation of the port
    issued,     \* snapshot ids issued so far
    served,     \* history: the answers, as pairs of request and snapshot
    lease,      \* history: the lease the last answer from a snapshot promised
    released,   \* history: the snapshots whose release is durable
    spent       \* the faults that have happened, and the snapshots whose reservation a
                \* busy lock has left behind

vars == <<disk, build, builds, call, proc, now, epoch, fence, issued, served, lease,
          released, spent>>

Snapshots == 1..MaxSnapshots
Smaller(m, n) == IF m <= n THEN m ELSE n

\* A request names the client's key and the lineage it expects (logicalKey).
Requests == Keys \X (1..MaxEpochs)
NoRequest == <<0, 0>>
NoCall == [pc |-> "idle", req |-> NoRequest, snap |-> 0, fence |-> 0, read |-> 0]

-----------------------------------------------------------------------------
(* Disk writes.                                                            *)

Write(op, snap, rec) == [op |-> op, snap |-> snap, rec |-> rec]

Record(snap, req, until) ==
    [snap |-> snap, req |-> req, until |-> until, lease |-> until, kind |-> "cut",
     dir |-> "whole"]

EpochOf(r) == r.req[2]
NoBuild == [run |-> "none", promise |-> "none", fence |-> 0,
            res |-> Record(0, NoRequest, 0)]
Done(promise) == [NoBuild EXCEPT !.run = "done", !.promise = promise]

Tombstone(r, kind, until) ==
    [r EXCEPT !.kind = kind, !.until = until, !.lease = until, !.dir = "whole"]

Never == MaxTime + 1            \* an expired tombstone is kept for good

Without(S, snap) == {r \in S : r.snap # snap}
Of(S, snap) == {r \in S : r.snap = snap}

Apply(d, w) ==
    CASE w.op = "reserve" -> [d EXCEPT !.res = @ \cup {w.rec}]
      [] w.op = "unreserve" -> [d EXCEPT !.res = Without(@, w.snap)]
      [] w.op = "stage" -> [d EXCEPT !.staging = @ \cup {w.rec}]
      [] w.op = "unstage" -> [d EXCEPT !.staging = Without(@, w.snap)]
      [] w.op = "publish" -> [d EXCEPT !.staging = Without(@, w.snap), !.cuts = @ \cup {w.rec}]
      [] w.op = "renew" -> [d EXCEPT !.cuts = Without(@, w.snap) \cup {w.rec}]
      [] w.op = "tear" -> [d EXCEPT !.cuts =
                             {IF r.snap = w.snap THEN [r EXCEPT !.dir = w.rec.dir] ELSE r :
                                r \in @}]
      [] w.op = "remove" -> [d EXCEPT !.cuts = Without(@, w.snap)]
      [] w.op = "bury" -> [d EXCEPT !.tombs = Without(@, w.snap) \cup {w.rec}]
      [] w.op = "unbury" -> [d EXCEPT !.tombs = Without(@, w.snap)]

After(d, ws) == FoldLeft(Apply, d, ws)

\* A directory is removed file by file: both copies of its identity go before it does.
removeActiveCut(r) ==
    (IF "partial" \in Torn THEN <<Write("tear", r.snap, [r EXCEPT !.dir = "partial"])>>
     ELSE <<>>)
    \o (IF "bare" \in Torn THEN <<Write("tear", r.snap, [r EXCEPT !.dir = "bare"])>>
        ELSE <<>>)
    \o <<Write("remove", r.snap, r)>>

-----------------------------------------------------------------------------
(* Tombstones.                                                             *)

\* A tombstone of the same request that is not the one of this snapshot.
Conflicts(d, r) == \E t \in d.tombs : t.req = r.req /\ t.snap # r.snap

recordExpiredBinding_never(d, r) == <<>>

recordExpiredBinding(d, r) ==
    IF Of(d.tombs, r.snap) # {} THEN <<>>
    ELSE <<Write("bury", r.snap, Tombstone(r, "expired", Never))>>

expireActiveCut(d, r) == recordExpiredBinding(d, r) \o removeActiveCut(r)

expireReservation(d, r) ==
    recordExpiredBinding(d, r) \o <<Write("unreserve", r.snap, r)>>

LapsedCuts(d, t) == {r \in d.cuts : r.lease <= t \/ r.until <= t}
LapsedReservations(d, t) == {r \in d.res : r.until <= t}
LapsedTombstones(d, t) == {r \in d.tombs : r.kind = "released" /\ r.until <= t}

\* The writes for every record of a set, one record after the other.
Each(S, op(_)) == FlattenSeq([i \in 1..Cardinality(S) |-> op(SetToSeq(S)[i])])

unbury(r) == <<Write("unbury", r.snap, r)>>

cleanupExpiredAt(d, t) ==
    LET cut(r) == expireActiveCut(d, r)
        reservation(r) == expireReservation(d, r)
    IN Each(LapsedCuts(d, t), cut) \o Each(LapsedTombstones(d, t), unbury)
         \o Each(LapsedReservations(d, t), reservation)

\* The cleanup meets a tombstone of the same request and another snapshot.
CleanupThrows(d, t) ==
    LET lapsed == LapsedCuts(d, t) \cup LapsedReservations(d, t)
    IN \E r \in lapsed :
         \/ Conflicts(d, r)
         \/ \E q \in lapsed : q.req = r.req /\ q.snap # r.snap

dropOtherLineages(d, ep) ==
    LET unreserve(r) == <<Write("unreserve", r.snap, r)>>
    IN Each({r \in d.cuts : EpochOf(r) # ep}, removeActiveCut)
         \o Each({r \in d.tombs : EpochOf(r) # ep}, unbury)
         \o Each({r \in d.res : EpochOf(r) # ep}, unreserve)

-----------------------------------------------------------------------------
(* Recovery.                                                               *)

\* The cuts a restart keeps: whole, of the lineage, without a tombstone and in time.
Recovered(d) ==
    {r \in d.cuts : /\ EpochOf(r) = epoch /\ r.dir = "whole"
                    /\ Of(d.tombs, r.snap) = {}
                    /\ now < r.lease /\ now < r.until}

recover(d) ==
    LET kept == {t \in d.tombs : EpochOf(t) = epoch
                                   /\ ~(t.kind = "released" /\ t.until <= now)}
        base == [d EXCEPT !.tombs = kept]
        cuts == Recovered(base)
        lost == {r \in d.cuts : EpochOf(r) = epoch /\ r \notin cuts}
        expired == {r \in d.res : EpochOf(r) = epoch /\ Of(cuts, r.snap) = {}}
        cut(r) == expireActiveCut(base, r)
        reservation(r) == expireReservation(base, r)
        unreserve(r) == <<Write("unreserve", r.snap, r)>>
        staged(r) == (IF Of(cuts \cup kept \cup expired, r.snap) = {}
                      THEN recordExpiredBinding(base, r) ELSE <<>>)
                     \o <<Write("unstage", r.snap, r)>>
    IN Each(d.tombs \ kept, unbury)
         \o Each({r \in d.cuts : EpochOf(r) # epoch}, removeActiveCut)
         \o Each(lost, cut)
         \o Each(d.res \ expired, unreserve)
         \o Each(expired, reservation)
         \o Each(d.staging, staged)

\* What makes a restart give up: a cut directory that has lost both copies of its
\* identity, or two tombstones or two cuts of one request.
recoverThrows(d) ==
    LET final == After(d, recover(d))
        clash(S) == \E r, q \in S : r.req = q.req /\ r.snap # q.snap
    IN \/ \E r \in d.cuts : r.dir = "bare"
       \/ clash(final.tombs) \/ clash(final.cuts)

-----------------------------------------------------------------------------
(* Admission.                                                              *)

\* Every cut and reservation will need a tombstone for its request.
Obligations(d) == {r.req : r \in d.tombs \cup d.cuts \cup d.res}
tombstoneObligationCount(d) == Cardinality(Obligations(d))
wouldAddTombstoneObligation(d, req) == req \notin Obligations(d)

QuotaExhausted(d, req) ==
    \/ Cardinality(d.cuts) + Cardinality(d.res) >= MaxCuts
    \/ /\ wouldAddTombstoneObligation(d, req)
       /\ tombstoneObligationCount(d) >= MaxTombstones

ActiveOf(d, req) == {r \in d.cuts : r.req = req}

existingFirst_noTombs(c) ==
    LET active == ActiveOf(disk, c.req)
    IN IF active # {}
       THEN [c EXCEPT !.pc = "serve", !.snap = (CHOOSE r \in active : TRUE).snap]
       ELSE IF builds[c.req] # 0 THEN [c EXCEPT !.pc = "wait", !.snap = builds[c.req]]
       ELSE [c EXCEPT !.pc = "begin"]

\* The answer of existingFirst: where the call goes on, and with which snapshot.
existingFirst(c) ==
    LET active == ActiveOf(disk, c.req)
    IN IF active # {}
       THEN [c EXCEPT !.pc = "serve", !.snap = (CHOOSE r \in active : TRUE).snap]
       ELSE IF builds[c.req] # 0 THEN [c EXCEPT !.pc = "wait", !.snap = builds[c.req]]
       ELSE IF \E t \in disk.tombs : t.req = c.req THEN NoCall
       ELSE [c EXCEPT !.pc = "begin"]

-----------------------------------------------------------------------------
Init ==
    /\ disk = [res |-> {}, staging |-> {}, cuts |-> {}, tombs |-> {}]
    /\ build = [s \in Snapshots |-> NoBuild]
    /\ builds = [q \in Requests |-> 0]
    /\ call = [p \in Callers |-> NoCall]
    /\ proc = "up" /\ now = 0 /\ epoch = 1 /\ fence = 1 /\ issued = 0
    /\ served = {} /\ released = {} /\ lease = [s \in Snapshots |-> 0]
    /\ spent = [crashes |-> 0, failures |-> 0, revokes |-> 0, busy |-> 0, stranded |-> {}]

\* A metadata operation: its writes, and the fail-closed state a throw leaves.
Operate(ws, throws) ==
    /\ proc = "up"
    /\ disk' = IF throws THEN disk ELSE After(disk, ws)
    /\ proc' = IF throws THEN "failed" ELSE "up"

\* The build a request waits for is rejected and forgotten when a reservation of that
\* request expires; it runs on.
RejectBuilds(reqs) ==
    /\ build' = [s \in Snapshots |->
                    IF build[s].promise = "pending" /\ \E q \in reqs : builds[q] = s
                    THEN [build[s] EXCEPT !.promise = "rejected"] ELSE build[s]]
    /\ builds' = [q \in Requests |-> IF q \in reqs THEN 0 ELSE builds[q]]

ExpiredRequests(d) == {r.req : r \in LapsedReservations(d, now)}

Unfenced(c) == c.fence = fence

\* Operations are served in the order they are asked for (metadataTail): between the
\* read of the lineage and the cleanup that follows it none that came later is served,
\* and only the lineage itself may change.
Turn(p) == \A q \in Callers : call[q].pc = "clean" => q = p
BuildTurn == \A q \in Callers : call[q].pc # "clean"

\* A request: a first one (snap 0), or one for the next chunk of a snapshot.
get(p, req, snap) ==
    /\ proc = "up" /\ call[p].pc = "idle"
    /\ snap # 0 => <<req, snap>> \in served
    /\ call' = [call EXCEPT ![p] = [pc |-> "epoch", req |-> req, snap |-> snap,
                                     fence |-> fence, read |-> 0]]
    /\ UNCHANGED <<disk, build, builds, proc, now, epoch, fence, issued, served, lease,
                   released, spent>>

readCurrentHostEpoch(p) ==
    /\ proc = "up" /\ call[p].pc = "epoch" /\ BuildTurn
    /\ call' = [call EXCEPT ![p].pc = "clean", ![p].read = epoch]
    /\ UNCHANGED <<disk, build, builds, proc, now, epoch, fence, issued, served, lease,
                   released, spent>>

\* The first operation: cuts of other lineages and expired ones are dropped.
dropAndCleanup(p) ==
    LET c == call[p]
        mismatch == c.req[2] # c.read
        drop == dropOtherLineages(disk, c.read)
        dropped == After(disk, drop)
        throws == ~mismatch /\ CleanupThrows(dropped, now)
    IN /\ c.pc = "clean" /\ proc = "up"
       /\ IF Unfenced(c)
          THEN /\ Operate(IF mismatch THEN drop ELSE drop \o cleanupExpiredAt(dropped, now),
                          throws)
               /\ RejectBuilds(IF mismatch \/ throws THEN {} ELSE ExpiredRequests(dropped))
          ELSE UNCHANGED <<disk, proc, build, builds>>
       /\ call' = [call EXCEPT ![p] =
                     IF mismatch \/ throws \/ ~Unfenced(c) THEN NoCall
                     ELSE [c EXCEPT !.pc = IF c.snap = 0 THEN "first" ELSE "serve"]]
       /\ UNCHANGED <<now, epoch, fence, issued, served, lease, released, spent>>

first(p) ==
    LET c == call[p]
    IN /\ proc = "up" /\ c.pc = "first" /\ Turn(p)
       /\ call' = [call EXCEPT ![p] = IF Unfenced(c) THEN existingFirst(c) ELSE NoCall]
       /\ UNCHANGED <<disk, build, builds, proc, now, epoch, fence, issued, served, lease,
                      released, spent>>

\* The estimate was read in between, so the request is looked up again.
beginFirst(p) ==
    LET c == call[p]
        again == existingFirst(c)
        r == Record(issued + 1, c.req, now + AbsoluteLease)
        admitted == /\ again.pc = "begin" /\ c.req[2] = epoch
                    /\ ~QuotaExhausted(disk, c.req)
                    /\ issued < MaxSnapshots
    IN /\ c.pc = "begin" /\ proc = "up" /\ Turn(p)
       /\ IF Unfenced(c) /\ admitted
          THEN /\ Operate(<<Write("reserve", r.snap, r)>>, FALSE)
               /\ issued' = r.snap
               /\ build' = [build EXCEPT ![r.snap] =
                               [run |-> "running", promise |-> "pending", fence |-> c.fence,
                                res |-> r]]
               /\ builds' = [builds EXCEPT ![c.req] = r.snap]
               /\ call' = [call EXCEPT ![p].pc = "wait", ![p].snap = r.snap]
          ELSE /\ call' = [call EXCEPT ![p] =
                             IF Unfenced(c) /\ again.pc # "begin" THEN again ELSE NoCall]
               /\ UNCHANGED <<disk, build, builds, proc, issued>>
       /\ UNCHANGED <<now, epoch, fence, served, lease, released, spent>>

\* A build ends without a cut: its reservation becomes a tombstone, or is only removed
\* if the activation it was made under has been revoked.  The build its request now waits
\* for is rejected with it, though it may be another one.
retire(s) ==
    LET r == build[s].res
        current == builds[r.req]
        fenced == build[s].fence # fence
        throws == ~fenced /\ Conflicts(disk, r)
    IN /\ Operate(IF fenced THEN <<Write("unreserve", s, r)>> ELSE expireReservation(disk, r),
                  throws)
       /\ build' = [t \in Snapshots |->
                       IF t = s THEN Done("rejected")
                       ELSE IF t = current /\ ~throws /\ build[t].promise = "pending"
                       THEN [build[t] EXCEPT !.promise = "rejected"] ELSE build[t]]
       /\ builds' = IF throws THEN builds ELSE [builds EXCEPT ![r.req] = 0]

\* The build fails before its publication: it retires the reservation if there still is
\* one.
retireFailedBuildReservation(s) ==
    IF Of(disk.res, s) # {} THEN retire(s)
    ELSE /\ build' = [build EXCEPT ![s] = Done("rejected")]
         /\ UNCHANGED <<disk, proc, builds>>

\* The source cannot capture a candidate, or has changed its lineage, or the activation
\* has been revoked.
captureFails(s) ==
    /\ proc = "up" /\ build[s].run = "running" /\ BuildTurn
    /\ \/ /\ spent.failures < MaxFailures
          /\ spent' = [spent EXCEPT !.failures = @ + 1]
       \/ /\ EpochOf(build[s].res) # epoch \/ build[s].fence # fence
          /\ UNCHANGED spent
    /\ retireFailedBuildReservation(s)
    /\ UNCHANGED <<call, now, epoch, fence, issued, served, lease, released>>

\* The cut is staged and renamed, and then its reservation is removed.
publishWrites(r) ==
    LET cut == [r EXCEPT !.lease = Smaller(now + IdleLease, r.until)]
    IN <<Write("stage", r.snap, r), Write("publish", r.snap, cut),
         Write("unreserve", r.snap, r)>>

\* The reservation and the lineage are checked again under the lock.
buildAndPublish(s) ==
    LET r == build[s].res
        publishes == /\ Of(disk.res, s) # {} /\ now < r.until
                     /\ EpochOf(r) = epoch /\ build[s].fence = fence
    IN /\ proc = "up" /\ build[s].run = "running" /\ BuildTurn
       /\ IF publishes
          THEN /\ Operate(publishWrites(r), FALSE)
               /\ build' = [build EXCEPT ![s] =
                               Done(IF @.promise = "pending" THEN "resolved" ELSE @.promise)]
               /\ UNCHANGED builds
          ELSE retire(s)
       /\ UNCHANGED <<call, now, epoch, fence, issued, served, lease, released, spent>>

\* The call wakes up: the build is forgotten, and the cut is looked up.
finishWait(p) ==
    LET c == call[p]
        active == ActiveOf(disk, c.req)
    IN /\ proc = "up" /\ c.pc = "wait" /\ Turn(p)
       /\ build[c.snap].promise \in {"resolved", "rejected"}
       /\ builds' = [builds EXCEPT ![c.req] = IF @ = c.snap THEN 0 ELSE @]
       /\ call' = [call EXCEPT ![p] =
                     IF build[c.snap].promise = "rejected" \/ active = {} \/ ~Unfenced(c)
                     THEN NoCall
                     ELSE [c EXCEPT !.pc = "serve", !.snap = (CHOOSE r \in active : TRUE).snap]]
       /\ UNCHANGED <<disk, build, proc, now, epoch, fence, issued, served, lease, released,
                      spent>>

renewed(r) ==
    [r EXCEPT !.lease = IF @ >= Smaller(now + IdleLease, r.until) THEN @
                        ELSE Smaller(now + IdleLease, r.until)]

serveExisting(p) ==
    LET c == call[p]
        clean == cleanupExpiredAt(disk, now)
        throws == CleanupThrows(disk, now)
        cuts == {r \in Of(After(disk, clean).cuts, c.snap) : r.req = c.req}
        r == CHOOSE q \in cuts : TRUE
        renew == IF cuts = {} THEN <<>> ELSE <<Write("renew", r.snap, renewed(r))>>
    IN /\ c.pc = "serve" /\ proc = "up" /\ Turn(p)
       /\ IF Unfenced(c)
          THEN Operate(clean \o renew, throws)
                 /\ RejectBuilds(IF throws THEN {} ELSE ExpiredRequests(disk))
          ELSE UNCHANGED <<disk, proc, build, builds>>
       /\ IF Unfenced(c) /\ ~throws /\ cuts # {} /\ c.req[2] = epoch
          THEN /\ served' = served \cup {<<c.req, c.snap>>}
               /\ lease' = [lease EXCEPT ![c.snap] = renewed(r).lease]
          ELSE UNCHANGED <<served, lease>>
       /\ call' = [call EXCEPT ![p] = NoCall]
       /\ UNCHANGED <<now, epoch, fence, issued, released, spent>>

\* A release: the tombstone first, and then the cut.
releaseWrites(d, r) ==
    <<Write("bury", r.snap, Tombstone(r, "released", Smaller(now + TombstoneLife, r.until)))>>
    \o removeActiveCut(r)

\* A snapshot that is released already is acknowledged again.
release(req, snap) ==
    LET clean == cleanupExpiredAt(disk, now)
        cleaned == After(disk, clean)
        cuts == {r \in Of(cleaned.cuts, snap) : r.req = req}
        r == CHOOSE q \in cuts : TRUE
        throws == CleanupThrows(disk, now)
        releases == ~throws /\ cuts # {} /\ ~Conflicts(cleaned, r)
    IN /\ <<req, snap>> \in served /\ req[2] = epoch /\ BuildTurn
       /\ Operate(clean \o (IF releases THEN releaseWrites(cleaned, r) ELSE <<>>), throws)
       /\ RejectBuilds(IF throws THEN {} ELSE ExpiredRequests(disk))
       /\ released' = IF releases THEN released \cup {snap} ELSE released
       /\ UNCHANGED <<call, now, epoch, fence, issued, served, lease, spent>>

\* The lock is held elsewhere for too long, and the operation is given up.  A call ends,
\* and one that was to forget its build does not; the publication of a build fails, and
\* nothing retires its reservation.
lockBusy ==
    /\ proc = "up" /\ spent.busy < MaxBusy
    /\ \/ /\ \E p \in Callers :
               /\ \/ call[p].pc \in {"clean", "first", "begin", "serve"}
                  \/ call[p].pc = "wait"
                       /\ build[call[p].snap].promise \in {"resolved", "rejected"}
               /\ call' = [call EXCEPT ![p] = NoCall]
          /\ spent' = [spent EXCEPT !.busy = @ + 1]
          /\ UNCHANGED build
       \/ /\ \E s \in Snapshots :
               /\ build[s].run = "running"
               /\ build' = [build EXCEPT ![s] = Done("rejected")]
               /\ spent' = [spent EXCEPT !.busy = @ + 1,
                                         !.stranded = @ \cup {r.snap : r \in Of(disk.res, s)}]
          /\ UNCHANGED call
    /\ UNCHANGED <<disk, builds, proc, now, epoch, fence, issued, served, lease, released>>

\* A spool that has closed itself refuses every operation.
failClosed(p) ==
    /\ proc = "failed" /\ call[p].pc # "idle"
    /\ call' = [call EXCEPT ![p] = NoCall]
    /\ UNCHANGED <<disk, build, builds, proc, now, epoch, fence, issued, served, lease,
                   released, spent>>

-----------------------------------------------------------------------------
\* Everything in memory is gone.
Forget ==
    /\ call' = [p \in Callers |-> NoCall]
    /\ build' = [s \in Snapshots |-> NoBuild]
    /\ builds' = [q \in Requests |-> 0]

\* The writes of the operations that a crash may interrupt.
Interruptible ==
    UNION {
        {dropOtherLineages(disk, call[p].read)
           \o cleanupExpiredAt(After(disk, dropOtherLineages(disk, call[p].read)), now) :
            p \in {q \in Callers : call[q].pc = "clean"}},
        {publishWrites(r) : r \in {q \in disk.res : EpochOf(q) = epoch
                                     /\ now < q.until /\ build[q.snap].run = "running"}},
        {expireReservation(disk, r) :
            r \in {q \in disk.res : build[q.snap].run = "running" /\ ~Conflicts(disk, q)}},
        {releaseWrites(disk, r) :
            r \in {q \in disk.cuts : EpochOf(q) = epoch /\ <<q.req, q.snap>> \in served
                                      /\ ~Conflicts(disk, q)}},
        {<<Write("reserve", issued + 1, Record(issued + 1, call[p].req, now + AbsoluteLease))>> :
            p \in {q \in Callers : call[q].pc = "begin" /\ call[q].req[2] = epoch
                     /\ issued < MaxSnapshots /\ Unfenced(call[q])
                     /\ existingFirst(call[q]).pc = "begin"
                     /\ ~QuotaExhausted(disk, call[q].req)}},
        {<<>>}}

Prefix(ws) == {SubSeq(ws, 1, n) : n \in 0..Len(ws)}

\* The process dies in an operation, or between two of them.
crash ==
    /\ proc \in {"up", "failed"} /\ spent.crashes < MaxCrashes
    /\ spent' = [spent EXCEPT !.crashes = @ + 1]
    /\ \E ws \in UNION {Prefix(w) : w \in IF proc = "up" THEN Interruptible ELSE {<<>>}} :
         /\ disk' = After(disk, ws)
         /\ issued' = IF \E i \in DOMAIN ws : ws[i].op = "reserve" THEN issued + 1
                      ELSE issued
         /\ released' = released \cup {s \in Snapshots : \E i \in DOMAIN ws :
                          ws[i].op = "bury" /\ ws[i].snap = s /\ ws[i].rec.kind = "released"}
    /\ proc' = "down"
    /\ Forget
    /\ UNCHANGED <<now, epoch, fence, served, lease>>

\* The spool is closed in order: every reservation becomes a tombstone.
close ==
    LET reservation(r) == expireReservation(disk, r)
    IN /\ proc = "up" /\ spent.crashes < MaxCrashes
       /\ spent' = [spent EXCEPT !.crashes = @ + 1]
       /\ disk' = After(disk, Each(disk.res, reservation))
       /\ proc' = IF \E r \in disk.res : Conflicts(disk, r) THEN "failed" ELSE "down"
       /\ Forget
       /\ UNCHANGED <<now, epoch, fence, issued, served, lease, released>>

open ==
    /\ proc = "down"
    /\ \/ /\ disk' = IF recoverThrows(disk) THEN disk ELSE After(disk, recover(disk))
          /\ proc' = IF recoverThrows(disk) THEN "wedged" ELSE "up"
          /\ UNCHANGED spent
       \/ /\ spent.crashes < MaxCrashes /\ ~recoverThrows(disk)
          /\ spent' = [spent EXCEPT !.crashes = @ + 1]
          /\ disk' \in {After(disk, ws) : ws \in Prefix(recover(disk))}
          /\ UNCHANGED proc
    /\ UNCHANGED <<build, builds, call, now, epoch, fence, issued, served, lease, released>>

tick ==
    /\ now < MaxTime
    /\ now' = now + 1
    /\ UNCHANGED <<disk, build, builds, call, proc, epoch, fence, issued, served, lease,
                   released, spent>>

\* The host's history is replaced by another.
newLineage ==
    /\ epoch < MaxEpochs
    /\ epoch' = epoch + 1
    /\ UNCHANGED <<disk, build, builds, call, proc, now, fence, issued, served, lease, released,
                   spent>>

\* The activation the port was made for is revoked, and another one made.
revoke ==
    /\ spent.revokes < MaxRevokes
    /\ spent' = [spent EXCEPT !.revokes = @ + 1]
    /\ fence' = fence + 1
    /\ UNCHANGED <<disk, build, builds, call, proc, now, epoch, issued, served, lease, released>>

Next ==
    \/ \E p \in Callers :
         \/ \E req \in Keys \X (1..epoch) : \E snap \in Snapshots \cup {0} : get(p, req, snap)
         \/ readCurrentHostEpoch(p) \/ dropAndCleanup(p) \/ first(p) \/ beginFirst(p)
         \/ finishWait(p) \/ serveExisting(p) \/ failClosed(p)
    \/ \E s \in Snapshots : captureFails(s) \/ buildAndPublish(s)
    \/ \E req \in Requests : \E snap \in Snapshots : release(req, snap)
    \/ lockBusy \/ crash \/ close \/ open \/ tick \/ newLineage \/ revoke

Spec == Init /\ [][Next]_vars

\* Calls and builds go on, and a process that is down is started again.  Operations are
\* served first come, first served, so one that can be served again and again is.
CallStep(p) == \/ readCurrentHostEpoch(p) \/ dropAndCleanup(p) \/ first(p) \/ beginFirst(p)
               \/ finishWait(p) \/ serveExisting(p) \/ failClosed(p)

BuildStep(s) == buildAndPublish(s) \/ captureFails(s)

Fairness ==
    /\ \A p \in Callers : SF_vars(CallStep(p))
    /\ \A s \in Snapshots : SF_vars(BuildStep(s))
    /\ WF_vars(open)

FairSpec == Spec /\ Fairness

-----------------------------------------------------------------------------
(* Properties.                                                             *)

Records ==
    [snap : Snapshots, req : Requests, until : Nat, lease : Nat,
     kind : {"cut", "released", "expired"}, dir : {"whole", "partial", "bare"}]

\* Every record on disk is a cut, a reservation or a tombstone of one snapshot, no lease
\* outlasts its absolute limit, and every waiting call waits for a build that exists.
TypeOK ==
    /\ disk.res \cup disk.staging \cup disk.cuts \cup disk.tombs \subseteq Records
    /\ \A S \in {disk.res, disk.cuts, disk.tombs} : \A r, q \in S : r.snap = q.snap => r = q
    /\ \A r \in disk.cuts : r.lease <= r.until
    /\ \A p \in Callers : call[p].pc = "wait" => build[call[p].snap].run # "none"
    /\ builds \in [Requests -> Snapshots \cup {0}]
    /\ proc \in {"up", "down", "failed", "wedged"}

\* Once the release of a snapshot is durable, no process holds its cut again: neither a
\* crash between the tombstone and the removal of the cut, nor a restart after the
\* tombstone has lapsed, brings it back (release, recover).
ReleasedStaysReleased ==
    proc = "up" => \A r \in disk.cuts : r.snap \notin released

\* Two answers to one request come from one cut, unless the earlier cut was released:
\* a retry after a lost answer, a crash or an expiry never gets a second cut.
OneCutPerRequest ==
    \A a, b \in served : a[1] = b[1] /\ a[2] < b[2] => a[2] \in released

\* A cut that was promised until a time is there until then, whatever crashes and
\* whichever other requests expire, unless it was released or its lineage has ended.
PinnedUntilLease ==
    proc = "up" =>
        \A a \in served : a[1][2] = epoch /\ a[2] \notin released /\ now < lease[a[2]] =>
            \E r \in disk.cuts : r.snap = a[2] /\ r.dir = "whole"

\* The reservations and cuts on disk never outgrow the quota, and every one of them has
\* room for the tombstone it will need.
WithinQuota ==
    /\ Cardinality(disk.cuts) + Cardinality(disk.res) <= MaxCuts + Cardinality(
            {r \in disk.res : \E q \in disk.cuts : q.snap = r.snap})
    /\ tombstoneObligationCount(disk) <= MaxTombstones

\* Two records on disk about one request, one of them left behind by a build that could
\* not get the lock: the request was given a second snapshot meanwhile.
Contradicted ==
    \E r, q \in disk.res \cup disk.cuts \cup disk.tombs :
        r.req = q.req /\ r.snap # q.snap /\ r.snap \in spent.stranded

\* No operation meets evidence that contradicts itself, which closes the spool until the
\* next start, but the one a busy lock makes: a build that gives up its publication there
\* leaves its reservation, and the tombstone of that reservation conflicts with the cut
\* the next request got (buildAndPublish, expireReservation).
ClosedOnlyByContradiction == proc = "failed" => Contradicted

\* A restart understands whatever a crash has left, but for two things: that
\* contradiction, and a directory whose removal the crash cut short after both copies of
\* its identity were gone (the finding of run spool_torn).
WedgedOnlyBy == proc = "wedged" => Contradicted \/ \E r \in disk.cuts : r.dir = "bare"

\* A restart understands whatever a crash has left.
RecoverySucceeds == proc # "wedged"

====
