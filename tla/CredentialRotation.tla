------------------------- MODULE CredentialRotation -------------------------
(***************************************************************************)
(* The life of a host's relay credential: the bootstrap and refresh        *)
(* exchanges between the host's durable credential authority               *)
(* (hostCredentialAuthority.ts) and the broker's (brokerCredential-        *)
(* Authority.ts), and the reauthentication of the open carrier connection  *)
(* with the rotated token (hostReauthenticationLifecycleOwner.ts and       *)
(* hostCarrier.ts).                                                        *)
(*                                                                         *)
(* A secret is its serial number: the n-th credential the broker issued is *)
(* access token n together with refresh token n, and a later token expires *)
(* later.  The host process may die at any point; its durable state and    *)
(* requests already on the network survive it.  A restarted host has a new *)
(* hostInstanceId (hostState.ts, `randomUUID()` in the constructor).       *)
(***************************************************************************)
EXTENDS Integers, FiniteSets

CONSTANTS
    Owner,        \* the reauthentication lifecycle owner as an exchanger
    Dashboard,    \* the dashboard's explicit bootstrap and refresh
    Exchangers,   \* which of the two take part
    None,
    Enrolled,     \* start after a completed bootstrap?
    MaxInst,      \* host processes
    MaxTok,       \* credentials issued
    MaxIds,       \* attempt and request identifiers
    MaxConn,      \* connections
    Faults,       \* the kinds of fault that happen
    MaxFaults,    \* and how many of them
    Prompt,       \* messages take less than the owner's timers?
    Rounds,       \* JOB_MAX_ROUNDS
    Resends       \* RESEND_MAX_SENDS

VARIABLES
    disk,     \* the host's durable credential state, None before the first attempt
    proc,     \* the host process: instance, consumed cut, exchanges, owner's job
    conn,     \* the carrier connection as the host sees it
    broker,   \* the broker's durable grant, bootstrap record and replays
    net,      \* requests, responses, reauthentication frames and their answers
    ids,      \* identifiers drawn so far
    faults,   \* faults so far
    warned    \* the last auth.expiring: the connection and the expiring token

vars == <<disk, proc, conn, broker, net, ids, faults, warned>>

Attempt == [kind : {"bootstrap", "refresh"}, id : 1..MaxIds, oldVer : 0..MaxTok]
Reauth == [req : 1..MaxIds, ver : 1..MaxTok, jti : 1..MaxTok]

Disk == [ver : 0..MaxTok, access : 0..MaxTok, refresh : 0..MaxTok,
         pend : Attempt \cup {None}, reauth : Reauth \cup {None}]

Request == [by : Exchangers, inst : 1..MaxInst, kind : {"bootstrap", "refresh"},
            id : 1..MaxIds, old : 0..MaxTok]
Response == [by : Exchangers, inst : 1..MaxInst, id : 1..MaxIds, tok : 0..MaxTok]
Frame == [conn : 1..MaxConn, req : 1..MaxIds, jti : 1..MaxTok]

Job == [sig : 1..MaxTok, bound : 0..MaxConn, rounds : 1..Rounds,
        at : {"exchange", "wait", "send"}, seen : 0..MaxTok]
Cut == [by : Exchangers, ver : 0..MaxTok, pend : Attempt]
Chain == [conn : 1..MaxConn, left : 1..Resends]

BoundsAssumption ==
    /\ {MaxTok, MaxIds, MaxConn, MaxFaults} \subseteq Nat
    /\ {MaxInst, Rounds, Resends} \subseteq Nat \ {0}
    /\ Exchangers \subseteq {Owner, Dashboard}
    /\ {Enrolled, Prompt} \subseteq BOOLEAN
    /\ Enrolled => MaxTok > 0
    /\ Faults \subseteq {"storage", "loss", "late", "lapse", "revoke", "drop"}
    /\ None \notin Attempt \cup Reauth \cup Disk \cup Job \cup Cut \cup Chain

\* Shapes of all the state.
TypeOK ==
    /\ disk \in Disk \cup {None}
    /\ proc.inst \in 1..MaxInst
    /\ proc.cut \in Cut \cup {None}
    /\ \A e \in Exchangers : proc.exch[e] \in Attempt \cup {None}
    /\ proc.job \in Job \cup {None}
    /\ proc.chain \in Chain \cup {None}
    /\ proc.sealed \in BOOLEAN
    /\ conn \in [id : 0..MaxConn, phase : {"closed", "admitted", "consumed", "claimed",
                                          "hello", "registered"},
                 ver : 0..MaxTok, jti : 0..MaxTok, pend : Reauth \cup {None}]
    /\ broker \in [boot : {"open", "consumed", "expired"}, tok : 0..MaxTok,
                   revoked : BOOLEAN, conn : 0..MaxConn, jti : 0..MaxTok,
                   replays : SUBSET [kind : {"bootstrap", "refresh"}, id : 1..MaxIds,
                                     old : 0..MaxTok, inst : 1..MaxInst, tok : 1..MaxTok],
                   lapsed : SUBSET (1..MaxIds)]
    /\ net.reqs \subseteq Request
    /\ net.resps \subseteq Response
    /\ net.frames \subseteq Frame
    /\ net.acks \subseteq Frame
    /\ ids \in 0..MaxIds
    /\ faults \in 0..MaxFaults
    /\ warned \in [conn : 0..MaxConn, sig : 0..MaxTok]

NewProcess(i) ==
    [inst |-> i, cut |-> None, exch |-> [e \in Exchangers |-> None],
     job |-> None, chain |-> None, sealed |-> FALSE]

Closed == [id |-> 0, phase |-> "closed", ver |-> 0, jti |-> 0, pend |-> None]

Init ==
    /\ disk = IF Enrolled
                 THEN [ver |-> 1, access |-> 1, refresh |-> 1, pend |-> None, reauth |-> None]
                 ELSE None
    /\ proc = NewProcess(1)
    /\ conn = Closed
    /\ broker = [boot |-> IF Enrolled THEN "consumed" ELSE "open",
                 tok |-> IF Enrolled THEN 1 ELSE 0, revoked |-> FALSE,
                 conn |-> 0, jti |-> 0, replays |-> {}, lapsed |-> {}]
    /\ net = [reqs |-> {}, resps |-> {}, frames |-> {}, acks |-> {}]
    /\ ids = 0
    /\ faults = 0
    /\ warned = [conn |-> 0, sig |-> 0]

Fault(kind) == kind \in Faults /\ faults < MaxFaults /\ faults' = faults + 1

(* The owner's continuation of a committed exchange runs before any other  *)
(* event of the host process.                                              *)
Sending == proc.job # None /\ proc.job.at = "send"

--------------------------------------------------------------------------
(* The host's durable authority.                                          *)

(* A compareAndSwap is swapped, or uncertain: the caller sees an error and  *)
(* the replacement may or may not have been written.                       *)
Swapped(d) == disk' = d /\ UNCHANGED faults
CommitUncertain(d) == disk' \in {disk, d} /\ Fault("storage")

(* The state an exchange cut is bound to; the absent state reads as        *)
(* version 0 without an attempt.                                           *)
Version == IF disk = None THEN 0 ELSE disk.ver
Pending == IF disk = None THEN None ELSE disk.pend

(* captureExchangeCut joins the active group when its binding is the       *)
(* current state, and consumeExchangeCut admits only the candidate of a    *)
(* group nobody consumed yet.  Capture and consumption happen in one turn, *)
(* so a group seen here is a consumed one.                                 *)
CutFree_ignored == TRUE
CutFree ==
    proc.cut # None => <<proc.cut.ver, proc.cut.pend>> # <<Version, Pending>>

(* bindConsumedCutToFence: the consumed group now stands for the durable   *)
(* attempt, so a later capture joins it and finds it taken.                *)
ConsumedCut(e, a) == [by |-> e, ver |-> a.oldVer, pend |-> a]

(* The attempt a preparation settles on: the durable one when there is one. *)
PreparedAttempt_minted(kind, fresh) ==
    [kind |-> kind, id |-> fresh, oldVer |-> Version]
PreparedAttempt(kind, fresh) ==
    IF Pending # None THEN Pending
                      ELSE [kind |-> kind, id |-> fresh, oldVer |-> Version]

WithAttempt(a) ==
    IF disk = None
       THEN [ver |-> 0, access |-> 0, refresh |-> 0, pend |-> a, reauth |-> None]
       ELSE [disk EXCEPT !.pend = a]

(* applyBootstrapResponse, applyRefreshResponse.                           *)
FenceMatches(a, resp) ==
    /\ disk # None
    /\ disk.ver = a.oldVer
    /\ resp.id = a.id
    /\ disk.pend = a

Applied(a, resp) ==
    [disk EXCEPT !.ver = @ + 1, !.access = resp.tok, !.refresh = resp.tok, !.pend = None,
                 !.reauth = IF a.kind = "refresh" THEN None ELSE @]

--------------------------------------------------------------------------
(* One exchange: capture, prepare, one HTTPS request, apply.               *)

\* bootstrapFromCut / refreshFromCut up to the await: the attempt is
\* durable before the request leaves; an uncertain commit sends nothing.
Begin(e, kind, p) ==
    LET a == PreparedAttempt(kind, ids + 1) IN
    /\ CutFree
    /\ IF Pending = None THEN ids < MaxIds /\ ids' = ids + 1 ELSE UNCHANGED ids
    /\ Swapped(IF Pending = None THEN WithAttempt(a) ELSE disk)
    /\ proc' = [p EXCEPT !.cut = ConsumedCut(e, a), !.exch[e] = a]
    /\ net' = [net EXCEPT !.reqs = @ \cup
                 {[by |-> e, inst |-> proc.inst, kind |-> kind, id |-> a.id,
                   old |-> IF kind = "refresh" THEN disk.refresh ELSE 0]}]

BeginUncertain(kind) ==
    /\ CutFree
    /\ Pending = None
    /\ ids < MaxIds
    /\ ids' = ids + 1
    /\ CommitUncertain(WithAttempt(PreparedAttempt(kind, ids + 1)))
    /\ UNCHANGED net

(* The finally blocks: the lease and the cut are released.                 *)
Ended(p, e) ==
    [p EXCEPT !.exch[e] = None,
              !.cut = IF p.cut # None /\ p.cut.by = e THEN None ELSE @]

\* RelayV2DashboardManagementHostCredentialAdapter.bootstrap
DashboardBootstrap ==
    /\ Dashboard \in Exchangers
    /\ ~Sending
    /\ proc.exch[Dashboard] = None
    /\ Version = 0
    /\ \/ Begin(Dashboard, "bootstrap", proc)
       \/ BeginUncertain("bootstrap") /\ UNCHANGED proc
    /\ UNCHANGED <<conn, broker, warned>>

\* RelayV2DashboardManagementHostCredentialAdapter.refresh
DashboardRefresh ==
    /\ Dashboard \in Exchangers
    /\ ~Sending
    /\ proc.exch[Dashboard] = None
    /\ Version > 0
    /\ \/ Begin(Dashboard, "refresh", proc)
       \/ BeginUncertain("refresh") /\ UNCHANGED proc
    /\ UNCHANGED <<conn, broker, warned>>

--------------------------------------------------------------------------
(* The broker.                                                             *)

ReplayOf(q) == {r \in broker.replays : r.kind = q.kind /\ r.id = q.id}

SameFingerprint(r, q) == r.old = q.old /\ r.inst = q.inst

Accepts_reusable(q) ==
    \/ q.kind = "bootstrap"
    \/ ~broker.revoked /\ broker.tok = q.old /\ broker.tok > 0
Accepts(q) ==
    CASE q.kind = "bootstrap" -> broker.boot = "open"
      [] q.kind = "refresh" -> ~broker.revoked /\ broker.tok = q.old /\ broker.tok > 0

Issue(q) ==
    [broker EXCEPT !.tok = @ + 1,
                   !.boot = IF q.kind = "bootstrap" THEN "consumed" ELSE @,
                   !.replays = @ \cup {[kind |-> q.kind, id |-> q.id, old |-> q.old,
                                        inst |-> q.inst, tok |-> broker.tok + 1]}]

Reply(q, tok) ==
    net' = [net EXCEPT !.reqs = @ \ {q},
                       !.resps = @ \cup {[by |-> q.by, inst |-> q.inst, id |-> q.id, tok |-> tok]}]

\* bootstrapHost and refreshGrant: the replay of the attempt first, the
\* same credential again for the same fingerprint; then the checks, the
\* rotation and the replay record in one published transition.
Serve(q) ==
    /\ q \in net.reqs
    /\ \/ /\ \E r \in ReplayOf(q) :
               Reply(q, IF SameFingerprint(r, q) THEN r.tok ELSE 0)
          /\ UNCHANGED broker
       \/ /\ ReplayOf(q) = {} /\ ~Accepts(q)
          /\ Reply(q, 0)
          /\ UNCHANGED broker
       \/ /\ ReplayOf(q) = {} /\ Accepts(q) /\ broker.tok < MaxTok
          /\ Reply(q, broker.tok + 1)
          /\ broker' = Issue(q)
    /\ UNCHANGED <<disk, proc, conn, ids, faults, warned>>

\* pruneExpiredAuthorityState drops a replay after its retention; a
\* bootstrap expires; the operator revokes the grant.
Lapse ==
    /\ \/ \E r \in broker.replays :
            broker' = [broker EXCEPT !.replays = @ \ {r}, !.lapsed = @ \cup {r.id}]
       \/ broker.boot = "open" /\ broker' = [broker EXCEPT !.boot = "expired"]
    /\ Fault("lapse")
    /\ UNCHANGED <<disk, proc, conn, net, ids, warned>>

Revoke ==
    /\ broker.tok > 0 /\ ~broker.revoked
    /\ broker' = [broker EXCEPT !.revoked = TRUE]
    /\ Fault("revoke")
    /\ UNCHANGED <<disk, proc, conn, net, ids, warned>>

\* A request, a response, a frame or an answer is lost.
Lose ==
    /\ \/ \E q \in net.reqs : net' = [net EXCEPT !.reqs = @ \ {q}]
       \/ \E r \in net.resps : net' = [net EXCEPT !.resps = @ \ {r}]
       \/ \E f \in net.frames : net' = [net EXCEPT !.frames = @ \ {f}]
       \/ \E f \in net.acks : net' = [net EXCEPT !.acks = @ \ {f}]
    /\ Fault("loss")
    /\ UNCHANGED <<disk, proc, conn, broker, ids, warned>>

--------------------------------------------------------------------------
(* The carrier's reauthentication.                                         *)

Registered(c) == conn.phase = "registered" /\ conn.id = c

(* RelayV2HostCarrierActor.requestReauthentication for connection c:       *)
(* prepareReauthentication persists `r` unless it is the pending one, the  *)
(* connection remembers it and the frame leaves; the send is refused when  *)
(* the commit is uncertain or the control queue does not take the frame.   *)
Sent(c, r) ==
    /\ Swapped([disk EXCEPT !.reauth = r])
    /\ conn' = [conn EXCEPT !.pend = r]
    /\ net' = [net EXCEPT !.frames = @ \cup {[conn |-> c, req |-> r.req, jti |-> disk.access]}]

Refused(c, r) ==
    \/ /\ disk.reauth = None
       /\ CommitUncertain([disk EXCEPT !.reauth = r])
       /\ UNCHANGED <<conn, net>>
    \/ /\ disk' = [disk EXCEPT !.reauth = r]
       /\ Fault("storage")
       /\ conn' = [conn EXCEPT !.pend = r]
       /\ UNCHANGED net

NewRequest == [req |-> ids + 1, ver |-> disk.ver, jti |-> disk.access]

--------------------------------------------------------------------------
(* The lifecycle owner's job: one round, its retry and the replay chain.   *)

Retried(p, j) == [p EXCEPT !.job = IF j.rounds = 1 THEN None
                                   ELSE [j EXCEPT !.rounds = @ - 1, !.at = "wait"]]

(* sendExactPendingRequest: an admitted send ends the job and arms the     *)
(* replay chain unless one is armed.                                       *)
SendPending(j, p, r) ==
    \/ /\ ~Registered(j.bound)
       /\ proc' = [p EXCEPT !.job = None]
       /\ UNCHANGED <<disk, conn, net, faults>>
    \/ /\ Registered(j.bound)
       /\ Sent(j.bound, r)
       /\ proc' = [p EXCEPT !.job = None,
                            !.chain = IF @ # None THEN @
                                      ELSE [conn |-> j.bound, left |-> Resends]]
    \/ /\ Registered(j.bound)
       /\ Refused(j.bound, r)
       /\ proc' = Retried(p, j)

(* runRound up to the exchange.  The first registered connection seen is   *)
(* bound for the whole job.                                                *)
Bound(j) == IF j.bound # 0 THEN j.bound
            ELSE IF conn.phase = "registered" THEN conn.id ELSE 0

AlreadyCurrent(j) == disk.access > j.sig

RoundExchanges(j) ==
    LET b == [j EXCEPT !.bound = Bound(j), !.at = "exchange", !.seen = disk.ver] IN
    \/ Begin(Owner, "refresh", [proc EXCEPT !.job = b]) /\ UNCHANGED conn
    \/ BeginUncertain("refresh") /\ proc' = Retried(proc, b) /\ UNCHANGED conn
    \/ /\ ~CutFree
       /\ proc' = Retried(proc, b)
       /\ UNCHANGED <<disk, conn, net, ids, faults>>

Round(j) ==
    \/ /\ j.bound # 0 /\ ~Registered(j.bound)
       /\ proc' = [proc EXCEPT !.job = None]
       /\ UNCHANGED <<disk, conn, net, ids, faults>>
    \/ /\ Bound(j) = 0
       /\ proc' = Retried(proc, j)
       /\ UNCHANGED <<disk, conn, net, ids, faults>>
    \/ /\ Registered(Bound(j))
       /\ \/ /\ disk.reauth # None
             /\ SendPending([j EXCEPT !.bound = Bound(j)], proc, disk.reauth)
             /\ UNCHANGED ids
          \/ /\ disk.reauth = None /\ AlreadyCurrent(j)
             /\ proc' = [proc EXCEPT !.job = None]
             /\ UNCHANGED <<disk, conn, net, ids, faults>>
          \/ /\ disk.reauth = None /\ ~AlreadyCurrent(j)
             /\ RoundExchanges(j)

\* handleAuthExpiring: the first round runs in the same turn; a warning
\* during a job joins it.
Warn ==
    /\ Owner \in Exchangers
    /\ ~Sending
    /\ conn.phase = "registered" /\ broker.conn = conn.id
    /\ warned # [conn |-> conn.id, sig |-> broker.jti]
    /\ Prompt => (proc.job = None /\ proc.chain = None /\ disk.reauth = None)
    /\ warned' = [conn |-> conn.id, sig |-> broker.jti]
    /\ IF proc.sealed \/ proc.job # None
          THEN UNCHANGED <<disk, proc, conn, net, ids, faults>>
          ELSE Round([sig |-> broker.jti, bound |-> 0, rounds |-> Rounds,
                      at |-> "wait", seen |-> 0])
    /\ UNCHANGED broker

RetryFired ==
    /\ proc.job # None /\ proc.job.at = "wait"
    /\ Round(proc.job)
    /\ UNCHANGED <<broker, warned>>

\* replayFired: resend the persisted request until its answer is durable.
Replayable(c) == Registered(c) /\ disk.reauth # None

ReplayFired ==
    /\ ~Sending
    /\ proc.chain # None
    /\ Prompt => (net.frames = {} /\ net.acks = {})
    /\ LET c == proc.chain IN
       \/ /\ ~Replayable(c.conn)
          /\ proc' = [proc EXCEPT !.chain = None]
          /\ UNCHANGED <<disk, conn, net, faults>>
       \/ /\ Replayable(c.conn)
          /\ Sent(c.conn, disk.reauth)
          /\ proc' = [proc EXCEPT !.chain = IF c.left = 1 THEN None
                                            ELSE [c EXCEPT !.left = @ - 1]]
       \/ /\ Replayable(c.conn)
          /\ Refused(c.conn, disk.reauth)
          /\ proc' = [proc EXCEPT !.chain = None]
    /\ UNCHANGED <<broker, ids, warned>>

--------------------------------------------------------------------------
(* The end of an exchange.                                                 *)

(* The owner goes on when its exchange committed; it then finds the        *)
(* durable version past the one it saw and, in the same turn (at "send"),  *)
(* asks the bound connection to present the new token.                     *)
Settled(e, ok) ==
    LET p == Ended(proc, e) IN
    IF e = Owner /\ p.job # None
       THEN proc' = IF ok THEN [p EXCEPT !.job.at = "send"] ELSE Retried(p, p.job)
       ELSE proc' = p

\* The response arrives: a rejection fails the exchange and keeps the
\* pending attempt; a stale response changes nothing.
Answer(e) ==
    /\ ~Sending /\ proc.exch[e] # None
    /\ \E r \in net.resps :
         /\ r.by = e /\ r.inst = proc.inst /\ r.id = proc.exch[e].id
         /\ net' = [net EXCEPT !.resps = @ \ {r}]
         /\ \/ /\ r.tok = 0
               /\ Settled(e, FALSE)
               /\ UNCHANGED <<disk, faults>>
            \/ /\ r.tok # 0 /\ ~FenceMatches(proc.exch[e], r)
               /\ Settled(e, TRUE)
               /\ UNCHANGED <<disk, faults>>
            \/ /\ r.tok # 0 /\ FenceMatches(proc.exch[e], r)
               /\ Swapped(Applied(proc.exch[e], r))
               /\ Settled(e, TRUE)
            \/ /\ r.tok # 0 /\ FenceMatches(proc.exch[e], r)
               /\ CommitUncertain(Applied(proc.exch[e], r))
               /\ Settled(e, FALSE)
    /\ UNCHANGED <<conn, broker, ids, warned>>

Awaited(e) == {q \in net.reqs \cup net.resps :
                 q.by = e /\ q.inst = proc.inst /\ q.id = proc.exch[e].id}

\* The HTTPS deadline: nothing comes any more, or (TooLate) it comes later.
Expire(e) ==
    /\ ~Sending /\ proc.exch[e] # None
    /\ net' = [net EXCEPT !.resps = @ \ Awaited(e)]
    /\ Settled(e, FALSE)
    /\ UNCHANGED <<disk, conn, broker, ids, warned>>

Timeout(e) == Expire(e) /\ Awaited(e) = {} /\ UNCHANGED faults
TooLate(e) == Expire(e) /\ Awaited(e) # {} /\ Fault("late")

\* The rest of runRound: the version must have advanced, else the owner
\* seals itself.
AfterExchange ==
    /\ Sending
    /\ \/ /\ disk.ver <= proc.job.seen
          /\ proc' = [proc EXCEPT !.job = None, !.sealed = TRUE, !.chain = None]
          /\ UNCHANGED <<disk, conn, net, ids, faults>>
       \/ /\ disk.ver > proc.job.seen
          /\ ids < MaxIds /\ ids' = ids + 1
          /\ SendPending(proc.job, proc, NewRequest)
    /\ UNCHANGED <<broker, warned>>

--------------------------------------------------------------------------
(* The connection.                                                         *)

(* stateMatchesConnectionCut: version, grant and access token are still    *)
(* the ones the admission was captured from.                               *)
MatchesCut == disk.ver = conn.ver /\ disk.access = conn.jti

\* captureConnectionAdmission, when the connector starts an attempt.
CaptureAdmission ==
    /\ ~Sending
    /\ conn.phase = "closed" /\ broker.conn < MaxConn
    /\ disk # None /\ disk.ver > 0
    /\ conn' = [Closed EXCEPT !.phase = "admitted", !.ver = disk.ver, !.jti = disk.access]
    /\ UNCHANGED <<disk, proc, broker, net, ids, faults, warned>>

(* A stage of the opening reads the durable state again; a rotation since   *)
(* the capture releases the admission.                                     *)
Advance(from, next) ==
    /\ ~Sending
    /\ conn.phase = from
    /\ conn' = IF MatchesCut THEN next ELSE Closed
    /\ UNCHANGED <<disk, proc, net, ids, faults, warned>>

\* consumeConnectionAdmissionForCarrier, when the carrier takes the attempt.
ConsumeAdmission ==
    Advance("admitted", [conn EXCEPT !.phase = "consumed"]) /\ UNCHANGED broker

\* claimConnectionAuthorization, when the transport is about to open.
ClaimAuthorization ==
    Advance("consumed", [conn EXCEPT !.phase = "claimed"]) /\ UNCHANGED broker

\* finalizeConnectionAuthorization: the upgrade request carries the token
\* and, unless the grant is revoked, the broker opens the connection.
FinalizeAuthorization ==
    /\ Advance("claimed", IF broker.revoked THEN Closed
                          ELSE [conn EXCEPT !.phase = "hello", !.id = broker.conn + 1])
    /\ broker' = IF MatchesCut /\ ~broker.revoked
                    THEN [broker EXCEPT !.conn = @ + 1, !.jti = conn.jti]
                    ELSE broker

\* host.registered and reconcileRegisteredConnection: a credential that is
\* no longer the durable one fails the connection, and an unanswered
\* request of an earlier connection is dropped.
HostRegistered ==
    /\ ~Sending
    /\ conn.phase = "hello"
    /\ \/ /\ ~MatchesCut
          /\ conn' = Closed
          /\ UNCHANGED <<disk, faults>>
       \/ /\ MatchesCut
          /\ Swapped([disk EXCEPT !.reauth = None])
          /\ conn' = [conn EXCEPT !.phase = "registered"]
       \/ /\ MatchesCut /\ disk.reauth # None
          /\ CommitUncertain([disk EXCEPT !.reauth = None])
          /\ conn' = Closed
    /\ UNCHANGED <<proc, broker, net, ids, warned>>

(* revalidateCurrentAuthContext and the new token's checks.  A frame that   *)
(* repeats the current token is the repetition of an answered request: a   *)
(* new request presents a token rotated since.  (A token that expires      *)
(* while it is presented is in ExpiryDeadline.)                            *)
Authorizes(f) == f.conn = broker.conn /\ f.jti >= broker.jti /\ ~broker.revoked

\* The broker accepts the token and answers; the same request again gets
\* the same answer.
BrokerReauthenticates ==
    \E f \in net.frames :
      /\ net' = [net EXCEPT !.frames = @ \ {f},
                            !.acks = IF Authorizes(f) THEN @ \cup {f} ELSE @]
      /\ broker' = IF Authorizes(f) THEN [broker EXCEPT !.jti = f.jti] ELSE broker
      /\ UNCHANGED <<disk, proc, conn, ids, faults, warned>>

\* handleReauthenticated and acknowledgeReauthentication: only the exact
\* pending request is acknowledged, durably first.
AckMatches(f) ==
    /\ Registered(f.conn)
    /\ conn.pend # None
    /\ <<f.req, f.jti>> = <<conn.pend.req, conn.pend.jti>>

Acknowledged ==
    /\ ~Sending
    /\ \E f \in net.acks :
         /\ net' = [net EXCEPT !.acks = @ \ {f}]
         /\ \/ /\ ~(AckMatches(f) /\ disk.reauth = conn.pend /\ disk.ver = conn.pend.ver)
               /\ UNCHANGED <<disk, conn, faults>>
            \/ /\ AckMatches(f) /\ disk.reauth = conn.pend /\ disk.ver = conn.pend.ver
               /\ \/ /\ Swapped([disk EXCEPT !.reauth = None])
                     /\ conn' = [conn EXCEPT !.ver = conn.pend.ver, !.jti = conn.pend.jti,
                                             !.pend = None]
                  \/ /\ CommitUncertain([disk EXCEPT !.reauth = None])
                     /\ UNCHANGED conn
    /\ UNCHANGED <<proc, broker, ids, warned>>

\* The connection ends, frames on it are gone.
Drop ==
    /\ ~Sending
    /\ conn.phase # "closed"
    /\ conn' = Closed
    /\ net' = [net EXCEPT !.frames = {}, !.acks = {}]
    /\ Fault("drop")
    /\ UNCHANGED <<disk, proc, broker, ids, warned>>

\* The host process dies and a new one starts.
Restart ==
    /\ proc.inst < MaxInst
    /\ proc' = NewProcess(proc.inst + 1)
    /\ conn' = Closed
    /\ net' = [net EXCEPT !.resps = {}, !.frames = {}, !.acks = {}]
    /\ UNCHANGED <<disk, broker, ids, faults, warned>>

Next ==
    \/ DashboardBootstrap \/ DashboardRefresh
    \/ \E q \in net.reqs : Serve(q)
    \/ Lapse \/ Revoke \/ Lose
    \/ Warn \/ RetryFired \/ ReplayFired
    \/ \E e \in Exchangers : Answer(e) \/ Timeout(e) \/ TooLate(e)
    \/ AfterExchange
    \/ CaptureAdmission \/ ConsumeAdmission \/ ClaimAuthorization
    \/ FinalizeAuthorization \/ HostRegistered
    \/ BrokerReauthenticates \/ Acknowledged
    \/ Drop \/ Restart

Spec == Init /\ [][Next]_vars

\* Messages that are not lost arrive, timers fire, an exchange settles.
ServeStep == \E q \in net.reqs : Serve(q)

Fairness ==
    /\ WF_vars(ServeStep)
    /\ \A e \in Exchangers : WF_vars(Answer(e)) /\ WF_vars(Timeout(e))
    /\ WF_vars(RetryFired) /\ WF_vars(ReplayFired) /\ WF_vars(AfterExchange)
    /\ WF_vars(BrokerReauthenticates) /\ WF_vars(Acknowledged)

FairSpec == Spec /\ Fairness

--------------------------------------------------------------------------
(* Properties.                                                            *)

\* The request of the pending attempt as the running process repeats it.
Repeated == [old |-> disk.refresh, inst |-> proc.inst]

\* The host holds the grant's current refresh token, or it holds the old
\* one together with the attempt under which the broker rotated it, and
\* repeating that attempt fetches the new one, whatever is lost or delayed
\* between the two commits.  Two things end this, and no other: the broker
\* has forgotten the answer (lapsed), or the process that asked is gone,
\* for the fingerprint contains its hostInstanceId and the next process's
\* repetition conflicts with it (the finding of run credential_restart).
HeldOrReplayable ==
    \/ broker.tok = 0
    \/ disk # None /\ disk.refresh = broker.tok
    \/ /\ disk # None /\ disk.pend # None
       /\ \/ disk.pend.id \in broker.lapsed
          \/ \E r \in broker.replays :
               /\ <<r.kind, r.id>> = <<disk.pend.kind, disk.pend.id>>
               /\ r.tok = broker.tok /\ r.old = disk.refresh
               /\ SameFingerprint(r, Repeated) \/ r.inst < proc.inst

\* ... and so it does from a later process, too.
\* (hostReauthenticationLifecycleOwner.ts: "durable state is preserved and
\* a later warning re-drives the same authority-owned attempt".)
RetryFetchesTheToken ==
    \/ broker.tok = 0 \/ broker.lapsed # {}
    \/ disk # None /\ disk.refresh = broker.tok
    \/ /\ disk # None /\ disk.pend # None
       /\ \E r \in broker.replays :
            SameFingerprint(r, Repeated) /\ r.id = disk.pend.id

\* A process never has two exchanges of one attempt under way: the owner
\* and the dashboard share the one-shot cut.
OneExchange ==
    Cardinality({e \in Exchangers : proc.exch[e] # None}) <= 1

\* The token of a connection, of a frame and of the broker's context never
\* runs ahead of the durable credential, and a pending reauthentication is
\* one of the durable credential: none survives a rotation.
WireNeverAheadOfDisk ==
    /\ \A f \in net.frames \cup net.acks : disk # None /\ f.jti <= disk.access
    /\ broker.jti > 0 => (disk # None /\ broker.jti <= disk.access)
    /\ (disk # None /\ disk.reauth # None) =>
         (disk.reauth.ver = disk.ver /\ disk.reauth.jti = disk.access)

\* The host believes its connection renewed to a token only when the
\* broker's context of that connection is at least that token.
RenewedMeansRenewed ==
    conn.phase = "registered" => (conn.id = broker.conn /\ conn.jti <= broker.jti)

\* The owner and the dashboard never exchange one attempt twice at a time,
\* no token on the wire or at the broker runs ahead of the durable
\* credential, and a connection believed renewed is renewed at the broker
\* (consumeExchangeCut, prepareReauthentication, handleReauthenticated).
OneNetworkWinner == OneExchange /\ WireNeverAheadOfDisk /\ RenewedMeansRenewed

\* The grant rotates only under the attempt the host made durable, from the
\* token the host holds: a delayed request of an earlier attempt or of a
\* dead process never rotates it a second time.
OwnedStep ==
    broker'.tok > broker.tok =>
      /\ disk # None /\ disk.pend # None
      /\ \E r \in broker'.replays \ broker.replays :
           r.id = disk.pend.id /\ r.old = disk.refresh

\* A bootstrap token yields one grant, however often its attempt is repeated
\* and however long after the answer was forgotten.
IssuesOnceStep ==
    broker'.tok > broker.tok /\ broker.tok > 0 =>
      \E r \in broker'.replays \ broker.replays : r.kind = "refresh"

\* Every rotation is owned, and a bootstrap token is spent once (bootstrapHost,
\* refreshGrant, applyRefreshResponse).
RotationIsOwned == [][OwnedStep /\ IssuesOnceStep]_vars

\* A warned connection is renewed past the expiring token, or replaced.
StillWarned ==
    \E c \in 1..MaxConn, s \in 1..MaxTok-1 :
      warned = [conn |-> c, sig |-> s] /\ conn.id = c /\ conn.jti <= s

=============================================================================
