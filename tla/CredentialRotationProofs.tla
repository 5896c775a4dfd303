---------------------- MODULE CredentialRotationProofs ----------------------
(***************************************************************************)
(* Proofs about the rotation of a host's credential (CredentialRotation),  *)
(* for any numbers of processes, credentials, connections and faults: the  *)
(* host holds the current refresh token or can fetch it again, the grant   *)
(* rotates only under the durable attempt, and one exchange is under way.  *)
(***************************************************************************)
EXTENDS CredentialRotation, FiniteSetTheorems, TLAPS

-----------------------------------------------------------------------------
(* The types of the whole state.                                           *)

Kind == {"bootstrap", "refresh"}
Process == [inst : 1..MaxInst, cut : Cut \cup {None},
            exch : [Exchangers -> Attempt \cup {None}], job : Job \cup {None},
            chain : Chain \cup {None}, sealed : BOOLEAN]
Connection == [id : 0..MaxConn, phase : {"closed", "admitted", "consumed", "claimed",
                                         "hello", "registered"},
               ver : 0..MaxTok, jti : 0..MaxTok, pend : Reauth \cup {None}]
Replay == [kind : Kind, id : 1..MaxIds, old : 0..MaxTok, inst : 1..MaxInst, tok : 1..MaxTok]
BrokerState == [boot : {"open", "consumed", "expired"}, tok : 0..MaxTok,
                revoked : BOOLEAN, conn : 0..MaxConn, jti : 0..MaxTok,
                replays : SUBSET Replay, lapsed : SUBSET (1..MaxIds)]
Net == [reqs : SUBSET Request, resps : SUBSET Response,
        frames : SUBSET Frame, acks : SUBSET Frame]

Warning == [conn : 0..MaxConn, sig : 0..MaxTok]

Typed ==
    /\ disk \in Disk \cup {None} /\ proc \in Process /\ conn \in Connection
    /\ broker \in BrokerState /\ net \in Net
    /\ ids \in 0..MaxIds /\ faults \in 0..MaxFaults
    /\ warned \in Warning

-----------------------------------------------------------------------------
(* The exchange.                                                           *)

\* The broker is at the host's token, or one ahead under the host's attempt.
Rotated ==
    \/ disk.refresh = broker.tok
    \/ /\ disk.pend # None
       /\ broker.tok = disk.refresh + 1
       /\ \/ disk.pend.id \in broker.lapsed
          \/ \E r \in broker.replays :
               /\ r.kind = disk.pend.kind /\ r.id = disk.pend.id
               /\ r.tok = broker.tok /\ r.old = disk.refresh

Credential ==
    /\ broker.boot = "open" => broker.tok = 0
    /\ disk = None => broker.tok = 0
    /\ disk # None =>
         /\ Rotated
         /\ disk.access = disk.refresh /\ disk.ver <= disk.refresh
         /\ disk.ver = 0 => disk.refresh = 0
         /\ disk.pend # None =>
              /\ disk.pend.oldVer = disk.ver /\ disk.pend.id <= ids
              /\ disk.pend.kind = IF disk.ver = 0 THEN "bootstrap" ELSE "refresh"

\* What the broker remembers of the pending attempt is its own rotation.
Remembered ==
    \A r \in broker.replays :
       /\ r.id <= ids /\ r.tok <= broker.tok
       /\ Pending # None /\ r.id = Pending.id =>
            r.kind = Pending.kind /\ r.tok = disk.refresh + 1 /\ r.old = disk.refresh

\* An answer to the pending attempt carries the broker's token.
Answers ==
    \A r \in net.resps :
       /\ r.id <= ids
       /\ r.tok # 0 /\ Pending # None /\ r.id = Pending.id =>
            r.tok = disk.refresh + 1 /\ r.tok = broker.tok

\* A request the broker will not accept any more, however late it comes.
Spent(q) ==
    \/ q.kind = "refresh" /\ disk # None /\ q.old < disk.refresh
    \/ q.kind = "bootstrap" /\ broker.boot # "open"

Current(q) ==
    Pending # None /\ q.id = Pending.id /\ q.kind = Pending.kind /\ q.old = disk.refresh

Requests == \A q \in net.reqs : q.id <= ids /\ (Spent(q) \/ Current(q))

Exchange == Credential /\ Remembered /\ Answers /\ Requests

\* An exchange under way is one of the pending attempt and holds the cut.
Taken ==
    \A e \in Exchangers : proc.exch[e] # None =>
        Pending = proc.exch[e] /\ proc.cut = ConsumedCut(e, proc.exch[e])

-----------------------------------------------------------------------------
(* The connection.                                                         *)

Wire ==
    /\ \A f \in net.frames \cup net.acks :
         disk # None /\ f.jti <= disk.access /\ f.conn <= broker.conn
    /\ \A f \in net.acks : f.conn = broker.conn => f.jti <= broker.jti
    /\ broker.jti > 0 => disk # None /\ broker.jti <= disk.access
    /\ disk # None /\ disk.reauth # None =>
         disk.ver > 0 /\ disk.reauth.ver = disk.ver /\ disk.reauth.jti = disk.access

Line ==
    /\ conn.phase # "closed" => disk # None /\ disk.ver > 0 /\ conn.jti > 0
    /\ conn.phase \in {"admitted", "consumed", "claimed"} => broker.conn < MaxConn
    /\ conn.phase \in {"hello", "registered"} =>
         conn.id = broker.conn /\ conn.id > 0 /\ conn.jti <= broker.jti
    /\ proc.job # None => Owner \in Exchangers

Inv == Typed /\ Exchange /\ Taken /\ Wire /\ Line

-----------------------------------------------------------------------------
(* Groups of the invariant that a step leaves alone.                       *)

\* The credential proper is the same; the pending reauthentication may differ.
SameCredential ==
    \/ disk' = disk
    \/ /\ disk # None /\ disk' # None
       /\ disk'.ver = disk.ver /\ disk'.access = disk.access
       /\ disk'.refresh = disk.refresh /\ disk'.pend = disk.pend

LEMMA ExchangeKept ==
    ASSUME Typed, Typed', Exchange, SameCredential, ids <= ids',
           broker'.tok = broker.tok, broker'.boot = broker.boot,
           broker'.replays = broker.replays, broker'.lapsed = broker.lapsed,
           net'.resps \subseteq net.resps,
           \A q \in net'.reqs : q \in net.reqs \/ (q.id <= ids /\ Current(q))
    PROVE  Exchange'
<1>1. Pending' = Pending /\ (disk = None <=> disk' = None)
      /\ (disk # None => disk'.ver = disk.ver /\ disk'.access = disk.access
                         /\ disk'.refresh = disk.refresh /\ disk'.pend = disk.pend)
  BY DEF SameCredential, Pending
<1>2. ids \in Int /\ ids' \in Int /\ ids <= ids'
  BY DEF Typed
<1>3. /\ \A r \in broker.replays : r.id \in Int
      /\ \A r \in net.resps : r.id \in Int
      /\ \A q \in net.reqs : q.id \in Int
      /\ disk # None /\ disk.pend # None => disk.pend.id \in Int
  BY DEF Typed, BrokerState, Net, Replay, Response, Request, Disk, Attempt
<1>4. Credential'
  BY <1>1, <1>2, <1>3 DEF Exchange, Credential, Rotated
<1>5. Remembered' /\ Answers'
  <2>1. Pending # None => disk # None
    BY DEF Pending
  <2> QED BY <1>1, <1>2, <1>3, <2>1 DEF Exchange, Remembered, Answers
<1>6. Requests'
  <2>1. Pending # None => disk # None
    BY DEF Pending
  <2>2. ASSUME NEW q \in net'.reqs PROVE q.id <= ids' /\ (Spent(q)' \/ Current(q)')
    <3>1. q.id <= ids /\ q.id \in Int /\ (Spent(q) \/ Current(q))
      BY <2>2 DEF Exchange, Requests, Typed, Net, Request
    <3> QED BY <1>1, <1>2, <2>1, <3>1 DEF Spent, Current
  <2> QED BY <2>2 DEF Requests
<1> QED BY <1>4, <1>5, <1>6 DEF Exchange

LEMMA TakenKept ==
    ASSUME Taken, SameCredential, proc'.exch = proc.exch, proc'.cut = proc.cut
    PROVE  Taken'
<1>1. Pending' = Pending
  BY DEF SameCredential, Pending
<1> QED BY <1>1 DEF Taken, ConsumedCut

-----------------------------------------------------------------------------
(* What the durable record says, and what an attempt makes of it.          *)

LEMMA DiskView ==
    ASSUME Typed, disk # None
    PROVE  /\ disk \in Disk
           /\ disk.ver \in 0..MaxTok /\ disk.access \in 0..MaxTok /\ disk.refresh \in 0..MaxTok
           /\ disk.pend \in Attempt \cup {None} /\ disk.reauth \in Reauth \cup {None}
           /\ Version = disk.ver /\ Pending = disk.pend
  BY DEF Typed, Disk, Version, Pending

LEMMA NoneIsFresh ==
    ASSUME BoundsAssumption
    PROVE  /\ None \notin Attempt /\ None \notin Reauth /\ None \notin Disk /\ None \notin Job
           /\ None \notin Cut /\ None \notin Chain
           /\ MaxTok \in Nat /\ MaxIds \in Nat /\ MaxConn \in Nat /\ MaxFaults \in Nat
           /\ MaxInst \in Nat \ {0} /\ Rounds \in Nat \ {0} /\ Resends \in Nat \ {0}
  BY DEF BoundsAssumption

LEMMA WithAttemptView ==
    ASSUME BoundsAssumption, Typed, NEW a \in Attempt
    PROVE  /\ WithAttempt(a) \in Disk /\ WithAttempt(a) # None
           /\ WithAttempt(a).pend = a /\ WithAttempt(a).ver = Version
           /\ disk = None => WithAttempt(a).access = 0 /\ WithAttempt(a).refresh = 0
                             /\ WithAttempt(a).reauth = None
           /\ disk # None => /\ WithAttempt(a).access = disk.access
                             /\ WithAttempt(a).refresh = disk.refresh
                             /\ WithAttempt(a).reauth = disk.reauth
<1>1. CASE disk = None
  BY <1>1, NoneIsFresh DEF WithAttempt, Disk, Version
<1>2. CASE disk # None
  <2>1. disk \in Disk
    BY <1>2, DiskView
  <2>2. WithAttempt(a) \in Disk
    BY <1>2, <2>1 DEF WithAttempt, Disk
  <2> QED BY <1>2, <2>1, <2>2, NoneIsFresh DEF WithAttempt, Disk, Version
<1> QED BY <1>1, <1>2

\* A fresh attempt is written where there was none.
LEMMA ExchangeBegins ==
    ASSUME BoundsAssumption, Typed, Exchange, Pending = None,
           NEW a \in Attempt, a.id = ids + 1, a.oldVer = Version,
           a.kind = IF Version = 0 THEN "bootstrap" ELSE "refresh",
           disk' = WithAttempt(a), ids' = ids + 1, broker' = broker,
           net'.resps = net.resps,
           \A q \in net'.reqs : q \in net.reqs \/ (q.id <= ids' /\ Current(q)')
    PROVE  Exchange'
<1>0. ids \in Int
  BY DEF Typed
<1>1. /\ disk' # None /\ Pending' = a /\ disk'.pend = a /\ disk'.ver = Version
      /\ disk = None => disk'.access = 0 /\ disk'.refresh = 0 /\ Version = 0
      /\ disk # None => disk'.access = disk.access /\ disk'.refresh = disk.refresh
                        /\ disk.pend = None /\ Version = disk.ver
      /\ disk'.access \in Int /\ disk'.refresh \in Int /\ disk'.ver \in Int
      /\ a # None
  BY WithAttemptView, NoneIsFresh, DiskView DEF Pending, Version, Disk
<1>2. disk'.refresh = broker.tok
  BY <1>1 DEF Exchange, Credential, Rotated
<1>3. Credential'
  BY <1>0, <1>1, <1>2, DiskView DEF Exchange, Credential, Rotated
<1>4. Remembered'
  <2>1. \A r \in broker.replays : r.id \in Int /\ r.id <= ids /\ r.tok <= broker.tok
    BY DEF Typed, BrokerState, Replay, Exchange, Remembered
  <2> QED BY <1>0, <1>1, <2>1 DEF Remembered
<1>5. Answers'
  <2>1. \A r \in net.resps : r.id \in Int /\ r.id <= ids
    BY DEF Typed, Net, Response, Exchange, Answers
  <2> QED BY <1>0, <1>1, <2>1 DEF Answers
<1>6. Requests'
  <2>1. ASSUME NEW q \in net'.reqs PROVE q.id <= ids' /\ (Spent(q)' \/ Current(q)')
    <3>1. CASE q \in net.reqs
      <4>1. q.id <= ids /\ q.id \in Int /\ Spent(q)
        BY <3>1 DEF Exchange, Requests, Typed, Net, Request, Current
      <4> QED BY <1>0, <1>1, <4>1 DEF Spent
    <3> QED BY <2>1, <3>1
  <2> QED BY <2>1 DEF Requests
<1> QED BY <1>3, <1>4, <1>5, <1>6 DEF Exchange

-----------------------------------------------------------------------------
(* The connection, when the credential is not touched.                     *)

\* The durable credential does not go back.
Grown ==
    disk # None => disk' # None /\ disk.access <= disk'.access /\ (disk.ver > 0 => disk'.ver > 0)

ReauthFits ==
    disk # None /\ disk.reauth # None =>
       disk.ver > 0 /\ disk.reauth.ver = disk.ver /\ disk.reauth.jti = disk.access

LEMMA WireKept ==
    ASSUME Typed, Typed', Wire, Grown, ReauthFits',
           broker'.conn = broker.conn, broker'.jti = broker.jti,
           net'.frames \subseteq net.frames, net'.acks \subseteq net.acks
    PROVE  Wire'
<1>1. /\ disk # None => disk.access \in Int
      /\ disk' # None => disk'.access \in Int
      /\ broker.jti \in Int
  BY DEF Typed, Disk, BrokerState
<1>2. \A f \in net.frames \cup net.acks : f.jti \in Int
  BY DEF Typed, Net, Frame
<1>3. \A f \in net'.frames \cup net'.acks :
        disk' # None /\ f.jti <= disk'.access /\ f.conn <= broker'.conn
  BY <1>1, <1>2 DEF Wire, Grown
<1>4. broker'.jti > 0 => disk' # None /\ broker'.jti <= disk'.access
  BY <1>1 DEF Wire, Grown
<1>5. \A f \in net'.acks : f.conn = broker'.conn => f.jti <= broker'.jti
  BY DEF Wire
<1> QED BY <1>3, <1>4, <1>5 DEF Wire, ReauthFits

LEMMA LineKept ==
    ASSUME Typed, Line, Grown, broker'.conn = broker.conn, broker'.jti = broker.jti,
           conn'.phase = conn.phase, conn'.id = conn.id, conn'.jti = conn.jti,
           proc'.job # None => Owner \in Exchangers
    PROVE  Line'
  BY DEF Line, Grown, Typed, Connection

LEMMA ReauthFitsNow ==
    ASSUME Wire PROVE ReauthFits
  BY DEF Wire, ReauthFits

-----------------------------------------------------------------------------
(* The beginning of an exchange.                                           *)

\* A step of the host process that leaves its exchanges alone.
SameExchanges(p) == p.inst = proc.inst /\ p.cut = proc.cut /\ p.exch = proc.exch

LEMMA RetriedView ==
    ASSUME BoundsAssumption, NEW p \in Process, NEW j \in Job
    PROVE  /\ Retried(p, j) \in Process
           /\ Retried(p, j).inst = p.inst /\ Retried(p, j).cut = p.cut
           /\ Retried(p, j).exch = p.exch
<1>1. CASE j.rounds = 1
  BY <1>1 DEF Retried, Process
<1>2. CASE j.rounds # 1
  <2>1. j.rounds \in 1..Rounds /\ Rounds \in Nat
    BY NoneIsFresh DEF Job
  <2>2. j.rounds - 1 \in 1..Rounds
    BY <1>2, <2>1
  <2>3. [j EXCEPT !.rounds = @ - 1, !.at = "wait"] \in Job
    BY <2>2 DEF Job
  <2> QED BY <1>2, <2>3 DEF Retried, Process
<1> QED BY <1>1, <1>2

\* Nobody else has an exchange under way when the cut is free.
LEMMA CutFreeMeansIdle ==
    ASSUME BoundsAssumption, Typed, Exchange, Taken, CutFree
    PROVE  \A e \in Exchangers : proc.exch[e] = None
<1> SUFFICES ASSUME NEW e \in Exchangers, proc.exch[e] # None PROVE FALSE
  OBVIOUS
<1>1. proc.exch[e] \in Attempt
  BY DEF Typed, Process
<1>2. Pending = proc.exch[e] /\ proc.cut = ConsumedCut(e, proc.exch[e])
  BY DEF Taken
<1>3. disk # None /\ disk.pend = proc.exch[e] /\ Version = disk.ver
  BY <1>2 DEF Pending, Version
<1>4. proc.exch[e].oldVer = Version
  BY <1>3 DEF Exchange, Credential
<1>5. proc.cut.ver = Version /\ proc.cut.pend = Pending
  BY <1>2, <1>4 DEF ConsumedCut
<1>6. proc.cut # None
  <2>1. proc.cut \in Cut
    BY <1>1, <1>2 DEF ConsumedCut, Cut, Attempt
  <2> QED BY <2>1, NoneIsFresh
<1> QED BY <1>5, <1>6 DEF CutFree

\* The attempt an exchange settles on.
LEMMA PreparedView ==
    ASSUME BoundsAssumption, Typed, Exchange, NEW kind \in Kind,
           kind = IF Version = 0 THEN "bootstrap" ELSE "refresh",
           Pending = None => ids < MaxIds,
           NEW a, a = PreparedAttempt(kind, ids + 1)
    PROVE  /\ a \in Attempt /\ a # None /\ a.kind = kind /\ a.oldVer = Version
           /\ Pending # None => a = Pending /\ a.id <= ids
           /\ Pending = None => a.id = ids + 1
<1>1. CASE Pending = None
  <2>1. Version \in 0..MaxTok
    BY NoneIsFresh DEF Version, Typed, Disk
  <2>2. ids + 1 \in 1..MaxIds
    BY <1>1, NoneIsFresh DEF Typed
  <2>3. a = [kind |-> kind, id |-> ids + 1, oldVer |-> Version]
    BY <1>1 DEF PreparedAttempt
  <2> QED BY <1>1, <2>1, <2>2, <2>3, NoneIsFresh DEF Attempt, Kind
<1>2. CASE Pending # None
  <2>1. disk # None /\ a = disk.pend /\ Version = disk.ver /\ Pending = disk.pend
    BY <1>2 DEF PreparedAttempt, Pending, Version
  <2>2. a \in Attempt
    BY <1>2, <2>1, DiskView
  <2> QED BY <1>2, <2>1, <2>2 DEF Exchange, Credential
<1> QED BY <1>1, <1>2

LEMMA WithAttemptGrows ==
    ASSUME BoundsAssumption, Typed, Wire, NEW a \in Attempt, disk' = WithAttempt(a)
    PROVE  Grown /\ ReauthFits'
<1>1. disk # None => disk.access \in Int
  BY DEF Typed, Disk
<1> QED BY <1>1, WithAttemptView, DiskView, ReauthFitsNow DEF Grown, ReauthFits

LEMMA BeginInv ==
    ASSUME BoundsAssumption, Inv, NEW e \in Exchangers, NEW kind \in Kind,
           kind = IF Version = 0 THEN "bootstrap" ELSE "refresh",
           NEW p \in Process, SameExchanges(p), p.job # None => Owner \in Exchangers,
           Begin(e, kind, p), UNCHANGED <<conn, broker>>, warned' \in Warning
    PROVE  Inv'
<1> USE DEF Inv
<1>a. PICK a : a = PreparedAttempt(kind, ids + 1)
  OBVIOUS
<1>q. PICK q : q = [by |-> e, inst |-> proc.inst, kind |-> kind, id |-> a.id,
                    old |-> IF kind = "refresh" THEN disk.refresh ELSE 0]
  OBVIOUS
<1>1. /\ CutFree
      /\ Pending = None => ids < MaxIds /\ ids' = ids + 1 /\ disk' = WithAttempt(a)
      /\ Pending # None => ids' = ids /\ disk' = disk
      /\ faults' = faults
      /\ proc' = [p EXCEPT !.cut = ConsumedCut(e, a), !.exch[e] = a]
      /\ net' = [net EXCEPT !.reqs = @ \cup {q}]
  BY <1>a, <1>q DEF Begin, Swapped
<1>2. /\ a \in Attempt /\ a # None /\ a.kind = kind /\ a.oldVer = Version
      /\ Pending # None => a = Pending /\ a.id <= ids
      /\ Pending = None => a.id = ids + 1
  BY <1>a, <1>1, PreparedView
<1>3. ids' \in 0..MaxIds /\ ids <= ids' /\ a.id <= ids' /\ a.id \in 1..MaxIds
  BY <1>1, <1>2, NoneIsFresh DEF Typed, Attempt
<1>4. disk' \in Disk \cup {None} /\ disk' # None /\ Pending' = a
  <2>1. CASE Pending = None
    BY <1>1, <1>2, <2>1, WithAttemptView DEF Pending
  <2>2. CASE Pending # None
    BY <1>1, <1>2, <2>2 DEF Pending, Typed
  <2> QED BY <2>1, <2>2
<1>5. ConsumedCut(e, a) \in Cut
  BY <1>2 DEF ConsumedCut, Cut, Attempt
<1>6. /\ proc' \in Process
      /\ proc'.cut = ConsumedCut(e, a) /\ proc'.exch = [proc.exch EXCEPT ![e] = a]
      /\ proc'.job = p.job
  BY <1>1, <1>2, <1>5 DEF Process, SameExchanges
<1>7. q \in Request /\ q.id = a.id /\ q.kind = kind /\ q.old = disk'.refresh
  <2>1. disk # None => disk.refresh \in 0..MaxTok
    BY DiskView
  <2>2. disk = None => kind = "bootstrap"
    BY DEF Version
  <2>3. q.old = disk'.refresh
    <3>1. CASE disk = None
      BY <1>q, <1>1, <1>2, <2>2, <3>1, WithAttemptView DEF Pending
    <3>2. CASE disk # None /\ kind = "refresh"
      BY <1>q, <1>1, <1>2, <3>2, WithAttemptView
    <3>3. CASE disk # None /\ kind = "bootstrap"
      <4>1. disk.refresh = 0
        BY <3>3, DiskView DEF Exchange, Credential
      <4> QED BY <1>q, <1>1, <1>2, <3>3, <4>1, WithAttemptView
    <3> QED BY <3>1, <3>2, <3>3 DEF Kind
  <2>4. proc.inst \in 1..MaxInst
    BY DEF Typed, Process
  <2> QED BY <1>q, <1>3, <2>1, <2>2, <2>3, <2>4, NoneIsFresh DEF Request, Kind
<1>8. /\ net' \in Net /\ net'.resps = net.resps
      /\ net'.frames = net.frames /\ net'.acks = net.acks
      /\ net'.reqs = net.reqs \cup {q}
  BY <1>1, <1>7 DEF Typed, Net
<1>9. Typed'
  BY <1>1, <1>3, <1>4, <1>6, <1>8 DEF Typed
<1>10. Current(q)'
  BY <1>2, <1>4, <1>7 DEF Current
<1>11. Exchange'
  <2>1. CASE Pending = None
    BY <1>1, <1>2, <1>3, <1>7, <1>8, <1>10, <2>1, ExchangeBegins
  <2>2. CASE Pending # None
    <3>1. Current(q) /\ q.id <= ids
      BY <1>1, <1>2, <1>7, <2>2 DEF Current, Pending
    <3> QED BY <1>1, <1>3, <1>8, <1>9, <2>2, <3>1, ExchangeKept DEF SameCredential
  <2> QED BY <2>1, <2>2
<1>12. Taken'
  <2>1. \A x \in Exchangers : proc.exch[x] = None
    BY <1>1, CutFreeMeansIdle
  <2>2. \A x \in Exchangers : proc'.exch[x] # None => x = e /\ proc'.exch[x] = a
    BY <1>6, <2>1 DEF Typed, Process
  <2> QED BY <1>4, <1>6, <2>2 DEF Taken, ConsumedCut
<1>13. Grown /\ ReauthFits'
  <2>1. disk # None => disk.access \in Int
    BY DiskView
  <2> QED BY <1>1, <1>2, <2>1, WithAttemptGrows, ReauthFitsNow DEF Grown, ReauthFits
<1>14. Wire'
  BY <1>8, <1>9, <1>13, WireKept
<1>15. Line'
  BY <1>6, <1>13, LineKept
<1> QED BY <1>9, <1>11, <1>12, <1>14, <1>15

LEMMA BeginUncertainInv ==
    ASSUME BoundsAssumption, Inv, NEW kind \in Kind,
           kind = IF Version = 0 THEN "bootstrap" ELSE "refresh",
           BeginUncertain(kind), UNCHANGED <<conn, broker>>, warned' \in Warning,
           proc' \in Process, SameExchanges(proc'), proc'.job # None => Owner \in Exchangers
    PROVE  Inv'
<1> USE DEF Inv
<1>a. PICK a : a = PreparedAttempt(kind, ids + 1)
  OBVIOUS
<1>1. /\ CutFree /\ Pending = None /\ ids < MaxIds /\ ids' = ids + 1
      /\ disk' = disk \/ disk' = WithAttempt(a)
      /\ faults < MaxFaults /\ faults' = faults + 1
      /\ net' = net
  BY <1>a DEF BeginUncertain, CommitUncertain, Fault
<1>2. a \in Attempt /\ a # None /\ a.kind = kind /\ a.oldVer = Version /\ a.id = ids + 1
  BY <1>a, <1>1, PreparedView
<1>3. Typed'
  BY <1>1, <1>2, WithAttemptView, NoneIsFresh DEF Typed
<1>4. Exchange'
  BY <1>1, <1>2, <1>3, ExchangeBegins, ExchangeKept DEF SameCredential, Typed
<1>5. Taken'
  <2>1. \A x \in Exchangers : proc.exch[x] = None
    BY <1>1, CutFreeMeansIdle
  <2> QED BY <2>1 DEF Taken, SameExchanges
<1>6. Grown /\ ReauthFits'
  <2>1. disk # None => disk.access \in Int
    BY DiskView
  <2> QED BY <1>1, <1>2, <2>1, WithAttemptGrows, ReauthFitsNow DEF Grown, ReauthFits
<1>7. Wire'
  BY <1>1, <1>3, <1>6, WireKept
<1>8. Line'
  BY <1>6, LineKept
<1> QED BY <1>3, <1>4, <1>5, <1>7, <1>8

-----------------------------------------------------------------------------
(* The broker.                                                             *)

\* The broker is at the host's token or at the next one.
LEMMA TokenView ==
    ASSUME Typed, Exchange, disk # None
    PROVE  /\ disk.refresh \in Int /\ broker.tok \in Int
           /\ broker.tok = disk.refresh \/ broker.tok = disk.refresh + 1
  BY DiskView DEF Typed, BrokerState, Exchange, Credential, Rotated

\* Only a request of the pending attempt, from the host's token, is accepted.
LEMMA OnlyCurrentAccepted ==
    ASSUME Typed, Exchange, NEW q \in net.reqs, Accepts(q)
    PROVE  /\ Current(q) /\ disk # None /\ disk.pend = Pending
           /\ broker.tok = disk.refresh
           /\ q.kind = "bootstrap" => broker.tok = 0
<1>1. q.kind \in Kind /\ q.old \in Int
  BY DEF Typed, Net, Request, Kind
<1>2. Spent(q) \/ Current(q)
  BY DEF Exchange, Requests
<1>3. ~ Spent(q)
  <2>1. CASE q.kind = "refresh"
    BY <1>1, <2>1, TokenView DEF Spent, Accepts
  <2>2. CASE q.kind = "bootstrap"
    BY <2>2 DEF Spent, Accepts
  <2> QED BY <1>1, <2>1, <2>2 DEF Kind
<1>4. Current(q) /\ disk # None /\ disk.pend = Pending
  BY <1>2, <1>3 DEF Current, Pending
<1>5. q.kind = "bootstrap" => broker.tok = 0
  BY DEF Accepts, Exchange, Credential
<1>6. broker.tok = disk.refresh
  <2>1. CASE q.kind = "refresh"
    BY <1>4, <2>1 DEF Accepts, Current
  <2>2. CASE q.kind = "bootstrap"
    BY <1>4, <1>5, <2>2, TokenView, DiskView
  <2> QED BY <1>1, <2>1, <2>2 DEF Kind
<1> QED BY <1>4, <1>5, <1>6

LEMMA ReplyTyped ==
    ASSUME BoundsAssumption, Typed, NEW q \in net.reqs, NEW tok \in 0..MaxTok, Reply(q, tok)
    PROVE  /\ net' \in Net /\ net'.reqs = net.reqs \ {q}
           /\ net'.frames = net.frames /\ net'.acks = net.acks
           /\ net'.resps = net.resps \cup {[by |-> q.by, inst |-> q.inst, id |-> q.id, tok |-> tok]}
<1>1. q \in Request
  BY DEF Typed, Net
<1>2. [by |-> q.by, inst |-> q.inst, id |-> q.id, tok |-> tok] \in Response
  BY <1>1 DEF Request, Response
<1> QED BY <1>2 DEF Reply, Typed, Net

\* The same state of the host, and the token, the bootstrap and the replays
\* of the broker: an answer goes out.
LEMMA ExchangeAnswered ==
    ASSUME BoundsAssumption, Typed, Exchange, NEW q \in net.reqs, NEW tok \in 0..MaxTok,
           Reply(q, tok), UNCHANGED <<disk, broker, ids>>,
           tok # 0 /\ Pending # None /\ q.id = Pending.id =>
              tok = disk.refresh + 1 /\ tok = broker.tok
    PROVE  Exchange'
<1>1. /\ net'.reqs = net.reqs \ {q}
      /\ net'.resps = net.resps \cup {[by |-> q.by, inst |-> q.inst, id |-> q.id, tok |-> tok]}
  BY ReplyTyped
<1>2. q.id <= ids
  BY DEF Exchange, Requests
<1>3. Credential' /\ Remembered' /\ Pending' = Pending
  BY DEF Exchange, Credential, Rotated, Remembered, Pending
<1>4. Answers'
  BY <1>1, <1>2, <1>3 DEF Exchange, Answers
<1>5. Requests'
  BY <1>1, <1>3 DEF Exchange, Requests, Spent, Current
<1> QED BY <1>3, <1>4, <1>5 DEF Exchange

LEMMA IssueView ==
    ASSUME BoundsAssumption, Typed, NEW q \in net.reqs, broker.tok < MaxTok, broker' = Issue(q)
    PROVE  /\ broker' \in BrokerState /\ broker'.tok = broker.tok + 1
           /\ broker'.boot = IF q.kind = "bootstrap" THEN "consumed" ELSE broker.boot
           /\ broker'.replays = broker.replays \cup
                {[kind |-> q.kind, id |-> q.id, old |-> q.old, inst |-> q.inst, tok |-> broker.tok + 1]}
           /\ broker'.lapsed = broker.lapsed
           /\ broker'.conn = broker.conn /\ broker'.jti = broker.jti
<1>1. q \in Request /\ broker.tok \in 0..MaxTok /\ MaxTok \in Nat
  BY NoneIsFresh DEF Typed, Net, BrokerState
<1>2. broker.tok + 1 \in 1..MaxTok /\ broker.tok + 1 \in 0..MaxTok
  BY <1>1
<1>3. [kind |-> q.kind, id |-> q.id, old |-> q.old, inst |-> q.inst, tok |-> broker.tok + 1] \in Replay
  BY <1>1, <1>2 DEF Request, Replay, Kind
<1> QED BY <1>2, <1>3 DEF Issue, Typed, BrokerState

LEMMA ExchangeIssued ==
    ASSUME BoundsAssumption, Typed, Exchange, NEW q \in net.reqs,
           ReplayOf(q) = {}, Accepts(q), broker.tok < MaxTok,
           Reply(q, broker.tok + 1), broker' = Issue(q), UNCHANGED <<disk, ids>>
    PROVE  Exchange'
<1>1. /\ Current(q) /\ disk # None /\ disk.pend = Pending /\ Pending # None
      /\ broker.tok = disk.refresh /\ (q.kind = "bootstrap" => broker.tok = 0)
  BY OnlyCurrentAccepted DEF Current
<1>2. /\ q.id = disk.pend.id /\ q.kind = disk.pend.kind /\ q.old = disk.refresh
      /\ q.id <= ids /\ q.kind \in Kind
  BY <1>1 DEF Current, Exchange, Requests, Typed, Net, Request, Kind
<1>3. broker.tok \in Int /\ broker.tok >= 0
  BY DEF Typed, BrokerState
<1>4. PICK n : n = [kind |-> q.kind, id |-> q.id, old |-> q.old, inst |-> q.inst, tok |-> broker.tok + 1]
  OBVIOUS
<1>5. /\ broker'.tok = broker.tok + 1 /\ broker'.replays = broker.replays \cup {n}
      /\ broker'.boot = IF q.kind = "bootstrap" THEN "consumed" ELSE broker.boot
  BY <1>4, IssueView
<1>6. /\ net'.reqs = net.reqs \ {q}
      /\ net'.resps = net.resps \cup
           {[by |-> q.by, inst |-> q.inst, id |-> q.id, tok |-> broker.tok + 1]}
  <2>1. broker.tok + 1 \in 0..MaxTok
    BY NoneIsFresh DEF Typed, BrokerState
  <2> QED BY <2>1, ReplyTyped
<1>7. Pending' = Pending
  BY DEF Pending
<1>8. Credential'
  <2>1. Rotated'
    BY <1>1, <1>2, <1>3, <1>4, <1>5 DEF Rotated
  <2>2. broker'.boot # "open"
    <3>1. CASE q.kind = "bootstrap"
      BY <1>5, <3>1
    <3>2. CASE q.kind = "refresh"
      <4>1. broker.tok > 0
        BY <3>2 DEF Accepts
      <4>2. broker.boot # "open"
        BY <1>3, <4>1 DEF Exchange, Credential
      <4> QED BY <1>5, <3>2, <4>2
    <3> QED BY <1>2, <3>1, <3>2 DEF Kind
  <2> QED BY <1>1, <2>1, <2>2 DEF Exchange, Credential
<1>9. Remembered'
  <2>1. \A r \in broker.replays : r.tok \in Int
    BY DEF Typed, BrokerState, Replay
  <2> QED BY <1>1, <1>2, <1>3, <1>4, <1>5, <1>7, <2>1 DEF Exchange, Remembered
<1>10. Answers'
  BY <1>1, <1>2, <1>3, <1>5, <1>6, <1>7 DEF Exchange, Answers
<1>11. Requests'
  BY <1>5, <1>6, <1>7 DEF Exchange, Requests, Spent, Current
<1> QED BY <1>8, <1>9, <1>10, <1>11 DEF Exchange

LEMMA ServeInv ==
    ASSUME BoundsAssumption, Inv, NEW q \in net.reqs, Serve(q)
    PROVE  Inv'
<1> USE DEF Inv
<1>0. UNCHANGED <<disk, proc, conn, ids, faults, warned>>
  BY DEF Serve
<1>1. CASE \E r \in ReplayOf(q) : Reply(q, IF SameFingerprint(r, q) THEN r.tok ELSE 0)
           /\ UNCHANGED broker
  <2>1. PICK r \in ReplayOf(q) : Reply(q, IF SameFingerprint(r, q) THEN r.tok ELSE 0)
                                 /\ UNCHANGED broker
    BY <1>1
  <2>2. r \in broker.replays /\ r.id = q.id /\ r.tok \in 1..MaxTok
    BY DEF ReplayOf, Typed, BrokerState, Replay
  <2>3. PICK tok : tok = IF SameFingerprint(r, q) THEN r.tok ELSE 0
    OBVIOUS
  <2>4. tok \in 0..MaxTok /\ Reply(q, tok) /\ (tok # 0 => tok = r.tok)
    BY <2>1, <2>2, <2>3, NoneIsFresh
  <2>5. tok # 0 /\ Pending # None /\ q.id = Pending.id =>
          tok = disk.refresh + 1 /\ tok = broker.tok
    BY <2>2, <2>4, TokenView DEF Exchange, Remembered, Pending
  <2>6. Exchange'
    BY <1>0, <2>1, <2>4, <2>5, ExchangeAnswered
  <2>7. Typed' /\ net'.frames = net.frames /\ net'.acks = net.acks
    BY <1>0, <2>1, <2>4, ReplyTyped DEF Typed
  <2> QED BY <1>0, <2>1, <2>6, <2>7 DEF Taken, Wire, Line, ConsumedCut, Pending
<1>2. CASE Reply(q, 0) /\ UNCHANGED broker
  <2>1. Exchange'
    BY <1>0, <1>2, ExchangeAnswered, NoneIsFresh
  <2>2. Typed' /\ net'.frames = net.frames /\ net'.acks = net.acks
    BY <1>0, <1>2, ReplyTyped, NoneIsFresh DEF Typed
  <2> QED BY <1>0, <1>2, <2>1, <2>2 DEF Taken, Wire, Line, ConsumedCut, Pending
<1>3. CASE /\ ReplayOf(q) = {} /\ Accepts(q) /\ broker.tok < MaxTok
           /\ Reply(q, broker.tok + 1) /\ broker' = Issue(q)
  <2>1. Exchange'
    BY <1>0, <1>3, ExchangeIssued
  <2>2. broker.tok + 1 \in 0..MaxTok
    BY <1>3, NoneIsFresh DEF Typed, BrokerState
  <2>3. Typed' /\ net'.frames = net.frames /\ net'.acks = net.acks
        /\ broker'.conn = broker.conn /\ broker'.jti = broker.jti
    BY <1>0, <1>3, <2>2, ReplyTyped, IssueView DEF Typed
  <2> QED BY <1>0, <2>1, <2>3 DEF Taken, Wire, Line, ConsumedCut, Pending
<1> QED BY <1>1, <1>2, <1>3 DEF Serve

LEMMA FaultTyped ==
    ASSUME BoundsAssumption, Typed, NEW kind, Fault(kind)
    PROVE  faults' \in 0..MaxFaults
  BY NoneIsFresh DEF Fault, Typed

LEMMA LapseInv ==
    ASSUME BoundsAssumption, Inv, Lapse
    PROVE  Inv'
<1> USE DEF Inv
<1>0. UNCHANGED <<disk, proc, conn, net, ids, warned>> /\ faults' \in 0..MaxFaults
      /\ Pending' = Pending
  <2>1. UNCHANGED <<disk, proc, conn, net, ids, warned>> /\ Fault("lapse")
    BY DEF Lapse
  <2> QED BY <2>1, FaultTyped DEF Pending
<1>1. ASSUME NEW r \in broker.replays,
             broker' = [broker EXCEPT !.replays = @ \ {r}, !.lapsed = @ \cup {r.id}]
      PROVE  Inv'
  <2>1. r.id \in 1..MaxIds
    BY DEF Typed, BrokerState, Replay
  <2>2. /\ broker' \in BrokerState /\ broker'.tok = broker.tok /\ broker'.boot = broker.boot
        /\ broker'.replays = broker.replays \ {r} /\ broker'.lapsed = broker.lapsed \cup {r.id}
        /\ broker'.conn = broker.conn /\ broker'.jti = broker.jti
    BY <1>1, <2>1 DEF Typed, BrokerState
  <2>3. disk # None /\ Rotated => Rotated'
    BY <1>0, <2>2 DEF Rotated
  <2>4. Exchange'
    BY <1>0, <2>2, <2>3 DEF Exchange, Credential, Remembered, Answers, Requests, Spent, Current
  <2> QED BY <1>0, <2>2, <2>4 DEF Typed, Taken, Wire, Line, ConsumedCut
<1>2. ASSUME broker.boot = "open", broker' = [broker EXCEPT !.boot = "expired"]
      PROVE  Inv'
  <2>1. /\ broker' \in BrokerState /\ broker'.tok = broker.tok /\ broker'.boot = "expired"
        /\ broker'.replays = broker.replays /\ broker'.lapsed = broker.lapsed
        /\ broker'.conn = broker.conn /\ broker'.jti = broker.jti
    BY <1>2 DEF Typed, BrokerState
  <2>2. Exchange'
    BY <1>0, <2>1 DEF Exchange, Credential, Rotated, Remembered, Answers, Requests, Spent, Current
  <2> QED BY <1>0, <2>1, <2>2 DEF Typed, Taken, Wire, Line, ConsumedCut
<1> QED BY <1>1, <1>2 DEF Lapse

LEMMA RevokeInv ==
    ASSUME BoundsAssumption, Inv, Revoke
    PROVE  Inv'
<1> USE DEF Inv
<1>0. UNCHANGED <<disk, proc, conn, net, ids, warned>> /\ faults' \in 0..MaxFaults
  BY NoneIsFresh DEF Revoke, Fault, Typed
<1>1. /\ broker' \in BrokerState /\ broker'.tok = broker.tok /\ broker'.boot = broker.boot
      /\ broker'.replays = broker.replays /\ broker'.lapsed = broker.lapsed
      /\ broker'.conn = broker.conn /\ broker'.jti = broker.jti
  BY DEF Revoke, Typed, BrokerState
<1>2. Typed'
  BY <1>0, <1>1 DEF Typed
<1>3. Exchange'
  BY <1>0, <1>1, <1>2, ExchangeKept DEF SameCredential, Typed
<1> QED BY <1>0, <1>1, <1>2, <1>3 DEF Taken, Wire, Line, ConsumedCut, Pending

\* Messages are lost; nothing else changes but the faults.
LEMMA LoseInv ==
    ASSUME BoundsAssumption, Inv, Lose
    PROVE  Inv'
<1> USE DEF Inv
<1>0. UNCHANGED <<disk, proc, conn, broker, ids, warned>> /\ faults' \in 0..MaxFaults
  BY NoneIsFresh DEF Lose, Fault, Typed
<1>1. /\ net' \in Net /\ net'.reqs \subseteq net.reqs /\ net'.resps \subseteq net.resps
      /\ net'.frames \subseteq net.frames /\ net'.acks \subseteq net.acks
  BY DEF Lose, Typed, Net
<1>2. Typed'
  BY <1>0, <1>1 DEF Typed
<1>3. Exchange'
  BY <1>0, <1>1, <1>2, ExchangeKept DEF SameCredential, Typed
<1>4. Wire'
  BY <1>0, <1>1 DEF Wire
<1> QED BY <1>0, <1>2, <1>3, <1>4 DEF Taken, Line, ConsumedCut, Pending

-----------------------------------------------------------------------------
(* The owner's job.                                                        *)

\* A registered connection presents a credential the host holds.
LEMMA RegisteredView ==
    ASSUME Inv, NEW c, Registered(c)
    PROVE  /\ disk # None /\ disk \in Disk /\ disk.ver > 0 /\ Version > 0 /\ Version # 0
           /\ disk.access \in 1..MaxTok /\ disk.ver \in 1..MaxTok
           /\ c = conn.id /\ c \in 1..MaxConn /\ c = broker.conn /\ conn.phase = "registered"
<1>1. conn.phase = "registered" /\ conn.id = c
  BY DEF Registered
<1>2. disk # None /\ disk.ver > 0 /\ conn.id = broker.conn /\ conn.id > 0
  BY <1>1 DEF Inv, Line
<1>3. disk \in Disk /\ disk.ver \in 0..MaxTok /\ disk.access \in 0..MaxTok
      /\ disk.refresh \in 0..MaxTok /\ Version = disk.ver
  BY <1>2, DiskView DEF Inv
<1>4. disk.access = disk.refresh /\ disk.ver <= disk.refresh
  BY <1>2 DEF Inv, Exchange, Credential
<1>5. conn.id \in 0..MaxConn
  BY DEF Inv, Typed, Connection
<1> QED BY <1>1, <1>2, <1>3, <1>4, <1>5

\* A step of the host process alone.
LEMMA QuietInv ==
    ASSUME Inv, UNCHANGED <<disk, conn, broker, net, ids, faults>>, warned' \in Warning,
           proc' \in Process, SameExchanges(proc'), proc'.job # None => Owner \in Exchangers
    PROVE  Inv'
<1> USE DEF Inv
<1>1. Typed'
  BY DEF Typed
<1>2. Exchange'
  BY <1>1, ExchangeKept DEF SameCredential, Typed
<1> QED BY <1>1, <1>2 DEF SameExchanges, Taken, Wire, Line, ConsumedCut, Pending

\* A reauthentication of the durable credential may be persisted, remembered
\* by the connection and sent.
LEMMA SendInv ==
    ASSUME BoundsAssumption, Inv, NEW c, Registered(c),
           NEW r \in Reauth, r.ver = disk.ver, r.jti = disk.access,
           disk' = disk \/ disk' = [disk EXCEPT !.reauth = r],
           conn' = conn \/ conn' = [conn EXCEPT !.pend = r],
           \/ net' = net
           \/ net' = [net EXCEPT !.frames = @ \cup {[conn |-> c, req |-> r.req, jti |-> disk.access]}],
           broker' = broker, ids' \in 0..MaxIds, ids <= ids', faults' \in 0..MaxFaults,
           warned' \in Warning,
           proc' \in Process, SameExchanges(proc'), proc'.job # None => Owner \in Exchangers
    PROVE  Inv'
<1> USE DEF Inv
<1>1. /\ disk # None /\ disk \in Disk /\ disk.ver > 0 /\ disk.access \in 1..MaxTok
      /\ c = conn.id /\ c \in 1..MaxConn /\ c = broker.conn
  BY RegisteredView
<1>2. /\ disk' \in Disk /\ disk'.ver = disk.ver /\ disk'.access = disk.access
      /\ disk'.refresh = disk.refresh /\ disk'.pend = disk.pend
      /\ disk'.reauth = disk.reauth \/ disk'.reauth = r
  BY <1>1 DEF Disk
<1>3. disk' # None
  BY <1>2, NoneIsFresh
<1>4. SameCredential
  BY <1>1, <1>2, <1>3 DEF SameCredential
<1>5. /\ conn' \in Connection /\ conn'.phase = conn.phase /\ conn'.id = conn.id
      /\ conn'.jti = conn.jti
  BY DEF Typed, Connection
<1>6. PICK f : f = [conn |-> c, req |-> r.req, jti |-> disk.access]
  OBVIOUS
<1>7. f \in Frame
  BY <1>1, <1>6 DEF Frame, Reauth
<1>8. /\ net' \in Net /\ net'.reqs = net.reqs /\ net'.resps = net.resps
      /\ net'.frames \subseteq net.frames \cup {f} /\ net'.acks = net.acks
  BY <1>6, <1>7 DEF Typed, Net
<1>9. Typed'
  BY <1>2, <1>5, <1>8 DEF Typed
<1>10. Exchange'
  BY <1>4, <1>8, <1>9, ExchangeKept
<1>11. Taken'
  BY <1>4, TakenKept DEF SameExchanges
<1>12. Wire'
  <2>1. \A x \in net'.frames \cup net'.acks :
          disk' # None /\ x.jti <= disk'.access /\ x.conn <= broker'.conn
    BY <1>1, <1>2, <1>3, <1>6, <1>8 DEF Wire
  <2>2. disk'.reauth # None =>
          disk'.ver > 0 /\ disk'.reauth.ver = disk'.ver /\ disk'.reauth.jti = disk'.access
    BY <1>1, <1>2 DEF Wire
  <2> QED BY <1>1, <1>2, <1>3, <1>8, <2>1, <2>2 DEF Wire
<1>13. Line'
  BY <1>1, <1>2, <1>3, <1>5 DEF Line
<1> QED BY <1>9, <1>10, <1>11, <1>12, <1>13

\* The cases of a send, without its effect on the process.
LEMMA RefusedCases ==
    ASSUME BoundsAssumption, Typed, NEW c, NEW r, Refused(c, r)
    PROVE  /\ disk' = disk \/ disk' = [disk EXCEPT !.reauth = r]
           /\ conn' = conn \/ conn' = [conn EXCEPT !.pend = r]
           /\ net' = net /\ faults' \in 0..MaxFaults
<1>1. Fault("storage")
  BY DEF Refused, CommitUncertain
<1> QED BY <1>1, FaultTyped DEF Refused, CommitUncertain

LEMMA SendPendingInv ==
    ASSUME BoundsAssumption, Inv, Owner \in Exchangers, NEW j \in Job,
           NEW p \in Process, SameExchanges(p),
           NEW r, Registered(j.bound) => r \in Reauth /\ r.ver = disk.ver /\ r.jti = disk.access,
           SendPending(j, p, r), broker' = broker, ids' \in 0..MaxIds, ids <= ids',
           warned' \in Warning
    PROVE  Inv'
<1>0. faults \in 0..MaxFaults
  BY DEF Inv, Typed
<1>1. CASE /\ proc' = [p EXCEPT !.job = None]
           /\ UNCHANGED <<disk, conn, net, faults>>
  <2>1. proc' \in Process /\ SameExchanges(proc') /\ proc'.job = None
    BY <1>1 DEF Process, SameExchanges
  <2>2. Typed'
    BY <1>1, <2>1 DEF Inv, Typed
  <2>3. Exchange'
    BY <1>1, <2>2, ExchangeKept DEF Inv, SameCredential
  <2> QED BY <1>1, <2>1, <2>2, <2>3 DEF Inv, SameExchanges, Taken, Wire, Line, ConsumedCut, Pending
<1>2. CASE /\ Registered(j.bound)
           /\ Sent(j.bound, r)
           /\ proc' = [p EXCEPT !.job = None,
                                !.chain = IF @ # None THEN @
                                          ELSE [conn |-> j.bound, left |-> Resends]]
  <2>1. j.bound \in 1..MaxConn
    BY <1>2, RegisteredView
  <2>2. [conn |-> j.bound, left |-> Resends] \in Chain
    BY <2>1, NoneIsFresh DEF Chain
  <2>3. proc' \in Process /\ SameExchanges(proc') /\ proc'.job = None
    BY <1>2, <2>2 DEF Process, SameExchanges
  <2>4. /\ disk' = [disk EXCEPT !.reauth = r] /\ faults' = faults
        /\ conn' = [conn EXCEPT !.pend = r]
        /\ net' = [net EXCEPT !.frames = @ \cup
                     {[conn |-> j.bound, req |-> r.req, jti |-> disk.access]}]
    BY <1>2 DEF Sent, Swapped
  <2> QED BY <1>0, <1>2, <2>3, <2>4, SendInv
<1>3. CASE /\ Registered(j.bound)
           /\ Refused(j.bound, r)
           /\ proc' = Retried(p, j)
  <2>1. proc' \in Process /\ SameExchanges(proc')
    BY <1>3, RetriedView DEF SameExchanges
  <2>2. /\ disk' = disk \/ disk' = [disk EXCEPT !.reauth = r]
        /\ conn' = conn \/ conn' = [conn EXCEPT !.pend = r]
        /\ net' = net /\ faults' \in 0..MaxFaults
    BY <1>3, RefusedCases DEF Inv
  <2> QED BY <1>3, <2>1, <2>2, SendInv
<1> QED BY <1>1, <1>2, <1>3 DEF SendPending

LEMMA BoundView ==
    ASSUME Inv, NEW j \in Job
    PROVE  /\ Bound(j) \in 0..MaxConn
           /\ [j EXCEPT !.bound = Bound(j)] \in Job
           /\ [j EXCEPT !.bound = Bound(j)].bound = Bound(j)
<1>1. Bound(j) \in 0..MaxConn
  BY DEF Bound, Job, Inv, Typed, Connection
<1> QED BY <1>1 DEF Job

LEMMA JobEnds ==
    ASSUME BoundsAssumption, Inv
    PROVE  /\ [proc EXCEPT !.job = None] \in Process
           /\ SameExchanges([proc EXCEPT !.job = None])
           /\ [proc EXCEPT !.job = None].job = None
  BY DEF Inv, Typed, Process, SameExchanges

LEMMA RetriedProc ==
    ASSUME BoundsAssumption, Inv, NEW j \in Job
    PROVE  Retried(proc, j) \in Process /\ SameExchanges(Retried(proc, j))
<1>1. proc \in Process
  BY DEF Inv, Typed
<1> QED BY <1>1, RetriedView DEF SameExchanges

LEMMA RoundExchangesInv ==
    ASSUME BoundsAssumption, Inv, Owner \in Exchangers, NEW j \in Job, Registered(Bound(j)),
           RoundExchanges(j), broker' = broker, warned' \in Warning
    PROVE  Inv'
<1>1. PICK b : b = [j EXCEPT !.bound = Bound(j), !.at = "exchange", !.seen = disk.ver]
  OBVIOUS
<1>2. disk # None /\ disk.ver \in 1..MaxTok /\ Version # 0
  BY RegisteredView
<1>3. b \in Job
  <2>1. Bound(j) \in 0..MaxConn
    BY BoundView
  <2>2. disk.ver \in 0..MaxTok
    BY <1>2
  <2>3. \A n \in 0..MaxConn, v \in 0..MaxTok :
          [j EXCEPT !.bound = n, !.at = "exchange", !.seen = v] \in Job
    BY DEF Job
  <2> QED BY <1>1, <2>1, <2>2, <2>3
<1>4. CASE Begin(Owner, "refresh", [proc EXCEPT !.job = b]) /\ UNCHANGED conn
  <2>1. [proc EXCEPT !.job = b] \in Process /\ SameExchanges([proc EXCEPT !.job = b])
    BY <1>3 DEF Inv, Typed, Process, SameExchanges
  <2>2. PICK p \in Process : p = [proc EXCEPT !.job = b]
    BY <2>1
  <2>3. SameExchanges(p) /\ Begin(Owner, "refresh", p)
    BY <1>4, <2>1, <2>2
  <2> QED BY <1>2, <1>4, <2>3, BeginInv DEF Kind
<1>5. CASE BeginUncertain("refresh") /\ proc' = Retried(proc, b) /\ UNCHANGED conn
  <2>1. proc' \in Process /\ SameExchanges(proc')
    BY <1>3, <1>5, RetriedProc
  <2> QED BY <1>2, <1>5, <2>1, BeginUncertainInv DEF Kind
<1>6. CASE proc' = Retried(proc, b) /\ UNCHANGED <<disk, conn, net, ids, faults>>
  <2>1. proc' \in Process /\ SameExchanges(proc')
    BY <1>3, <1>6, RetriedProc
  <2> QED BY <1>6, <2>1, QuietInv
<1> QED BY <1>1, <1>4, <1>5, <1>6 DEF RoundExchanges

LEMMA RoundInv ==
    ASSUME BoundsAssumption, Inv, Owner \in Exchangers, NEW j \in Job,
           Round(j), broker' = broker, warned' \in Warning
    PROVE  Inv'
<1>1. CASE proc' = [proc EXCEPT !.job = None] /\ UNCHANGED <<disk, conn, net, ids, faults>>
  BY <1>1, JobEnds, QuietInv
<1>2. CASE proc' = Retried(proc, j) /\ UNCHANGED <<disk, conn, net, ids, faults>>
  BY <1>2, RetriedProc, QuietInv
<1>3. CASE /\ Registered(Bound(j)) /\ disk.reauth # None
           /\ SendPending([j EXCEPT !.bound = Bound(j)], proc, disk.reauth)
           /\ UNCHANGED ids
  <2>1. disk # None
    BY <1>3, RegisteredView
  <2>2. PICK r : r = disk.reauth
    OBVIOUS
  <2>3. r \in Reauth /\ r.ver = disk.ver /\ r.jti = disk.access
    BY <1>3, <2>1, <2>2, DiskView DEF Inv, Wire
  <2>4. PICK k \in Job : k = [j EXCEPT !.bound = Bound(j)]
    BY BoundView
  <2>5. PICK p \in Process : p = proc
    BY DEF Inv, Typed
  <2>6. ids' \in 0..MaxIds /\ ids <= ids'
    BY <1>3 DEF Inv, Typed
  <2>7. SendPending(k, p, r) /\ SameExchanges(p)
    BY <1>3, <2>2, <2>4, <2>5 DEF SameExchanges
  <2> QED BY <2>3, <2>6, <2>7, SendPendingInv
<1>4. CASE Registered(Bound(j)) /\ RoundExchanges(j)
  BY <1>4, RoundExchangesInv
<1> QED BY <1>1, <1>2, <1>3, <1>4 DEF Round

LEMMA WarnInv ==
    ASSUME BoundsAssumption, Inv, Warn
    PROVE  Inv'
<1>1. conn.phase = "registered" /\ Owner \in Exchangers /\ broker' = broker
      /\ warned' = [conn |-> conn.id, sig |-> broker.jti]
  BY DEF Warn
<1>2. conn.jti > 0 /\ conn.jti <= broker.jti /\ conn.id \in 0..MaxConn
      /\ broker.jti \in 0..MaxTok /\ conn.jti \in 0..MaxTok
  BY <1>1 DEF Inv, Line, Typed, Connection, BrokerState
<1>3. warned' \in Warning
  BY <1>1, <1>2 DEF Warning
<1>4. CASE UNCHANGED <<disk, proc, conn, net, ids, faults>>
  <2>1. proc' \in Process /\ SameExchanges(proc')
    BY <1>4 DEF Inv, Typed, SameExchanges
  <2> QED BY <1>1, <1>3, <1>4, <2>1, QuietInv
<1>5. CASE Round([sig |-> broker.jti, bound |-> 0, rounds |-> Rounds, at |-> "wait", seen |-> 0])
  <2>1. PICK j : j = [sig |-> broker.jti, bound |-> 0, rounds |-> Rounds, at |-> "wait", seen |-> 0]
    OBVIOUS
  <2>2. broker.jti \in 1..MaxTok
    BY <1>2
  <2>3. j \in Job
    BY <2>1, <2>2, NoneIsFresh DEF Job
  <2>4. Round(j)
    BY <1>5, <2>1
  <2> QED BY <1>1, <1>3, <2>3, <2>4, RoundInv
<1> QED BY <1>4, <1>5 DEF Warn

LEMMA RetryFiredInv ==
    ASSUME BoundsAssumption, Inv, RetryFired
    PROVE  Inv'
<1>1. proc.job # None /\ Round(proc.job) /\ UNCHANGED <<broker, warned>>
  BY DEF RetryFired
<1>2. PICK j : j = proc.job
  OBVIOUS
<1>3. j \in Job /\ Owner \in Exchangers
  BY <1>1, <1>2 DEF Inv, Typed, Process, Line
<1>4. Round(j) /\ warned' \in Warning
  BY <1>1, <1>2 DEF Inv, Typed
<1> QED BY <1>1, <1>3, <1>4, RoundInv

LEMMA ReplayFiredInv ==
    ASSUME BoundsAssumption, Inv, ReplayFired
    PROVE  Inv'
<1>1. PICK c : c = proc.chain
  OBVIOUS
<1>2. c \in Chain /\ UNCHANGED <<broker, ids, warned>>
  BY <1>1 DEF ReplayFired, Inv, Typed, Process
<1>3. c.left \in 1..Resends /\ Resends \in Nat
  BY <1>2, NoneIsFresh DEF Chain
<1>4. PICK r : r = disk.reauth
  OBVIOUS
<1>5. Replayable(c.conn) =>
        Registered(c.conn) /\ r \in Reauth /\ r.ver = disk.ver /\ r.jti = disk.access
  <2>1. SUFFICES ASSUME Replayable(c.conn)
                 PROVE  Registered(c.conn) /\ r \in Reauth /\ r.ver = disk.ver /\ r.jti = disk.access
    OBVIOUS
  <2>2. Registered(c.conn) /\ disk.reauth # None
    BY <2>1 DEF Replayable
  <2>3. disk # None
    BY <2>2, RegisteredView
  <2> QED BY <1>4, <2>2, <2>3, DiskView DEF Inv, Wire
<1>6. ids' \in 0..MaxIds /\ ids <= ids' /\ warned' \in Warning /\ faults \in 0..MaxFaults
  BY <1>2 DEF Inv, Typed
<1>7. ASSUME NEW l \in Chain \cup {None}, proc' = [proc EXCEPT !.chain = l]
      PROVE  /\ proc' \in Process /\ SameExchanges(proc')
             /\ proc'.job # None => Owner \in Exchangers
  BY <1>7 DEF Inv, Typed, Process, SameExchanges, Line
<1>8. CASE proc' = [proc EXCEPT !.chain = None] /\ UNCHANGED <<disk, conn, net, faults>>
  BY <1>2, <1>6, <1>7, <1>8, QuietInv
<1>9. CASE /\ Replayable(c.conn) /\ Sent(c.conn, disk.reauth)
           /\ proc' = [proc EXCEPT !.chain = IF c.left = 1 THEN None
                                             ELSE [c EXCEPT !.left = @ - 1]]
  <2>1. PICK l : l = IF c.left = 1 THEN None ELSE [c EXCEPT !.left = @ - 1]
    OBVIOUS
  <2>2. l \in Chain \cup {None}
    <3>1. c.left # 1 => c.left - 1 \in 1..Resends
      BY <1>3
    <3> QED BY <1>2, <2>1, <3>1 DEF Chain
  <2>3. /\ proc' \in Process /\ SameExchanges(proc')
        /\ proc'.job # None => Owner \in Exchangers
    BY <1>7, <1>9, <2>1, <2>2
  <2>4. /\ disk' = [disk EXCEPT !.reauth = r] /\ faults' = faults
        /\ conn' = [conn EXCEPT !.pend = r]
        /\ net' = [net EXCEPT !.frames = @ \cup
                     {[conn |-> c.conn, req |-> r.req, jti |-> disk.access]}]
    BY <1>4, <1>9 DEF Sent, Swapped
  <2> QED BY <1>2, <1>5, <1>6, <1>9, <2>3, <2>4, SendInv
<1>10. CASE /\ Replayable(c.conn) /\ Refused(c.conn, disk.reauth)
            /\ proc' = [proc EXCEPT !.chain = None]
  <2>1. /\ disk' = disk \/ disk' = [disk EXCEPT !.reauth = r]
        /\ conn' = conn \/ conn' = [conn EXCEPT !.pend = r]
        /\ net' = net /\ faults' \in 0..MaxFaults
    BY <1>4, <1>10, RefusedCases DEF Inv
  <2>2. /\ proc' \in Process /\ SameExchanges(proc')
        /\ proc'.job # None => Owner \in Exchangers
    BY <1>7, <1>10
  <2> QED BY <1>2, <1>5, <1>6, <1>10, <2>1, <2>2, SendInv
<1> QED BY <1>1, <1>8, <1>9, <1>10 DEF ReplayFired

LEMMA DashboardInv ==
    ASSUME BoundsAssumption, Inv, DashboardBootstrap \/ DashboardRefresh
    PROVE  Inv'
<1>1. PICK kind \in Kind :
        /\ kind = IF Version = 0 THEN "bootstrap" ELSE "refresh"
        /\ \/ Begin(Dashboard, kind, proc)
           \/ BeginUncertain(kind) /\ UNCHANGED proc
  <2>1. CASE DashboardBootstrap
    BY <2>1 DEF DashboardBootstrap, Kind
  <2>2. CASE DashboardRefresh
    <3>1. Version # 0
      BY <2>2 DEF DashboardRefresh
    <3> QED BY <2>2, <3>1 DEF DashboardRefresh, Kind
  <2> QED BY <2>1, <2>2
<1>2. Dashboard \in Exchangers /\ UNCHANGED <<conn, broker, warned>>
  BY DEF DashboardBootstrap, DashboardRefresh
<1>3. proc \in Process /\ SameExchanges(proc) /\ (proc.job # None => Owner \in Exchangers)
      /\ warned' \in Warning
  BY <1>2 DEF Inv, Typed, SameExchanges, Line
<1>4. CASE Begin(Dashboard, kind, proc)
  <2>1. PICK p \in Process : p = proc
    BY <1>3
  <2> QED BY <1>1, <1>2, <1>3, <1>4, <2>1, BeginInv
<1>5. CASE BeginUncertain(kind) /\ UNCHANGED proc
  <2>1. proc' \in Process /\ SameExchanges(proc') /\ (proc'.job # None => Owner \in Exchangers)
    BY <1>3, <1>5 DEF SameExchanges
  <2> QED BY <1>1, <1>2, <1>3, <1>5, <2>1, BeginUncertainInv
<1> QED BY <1>1, <1>4, <1>5

LEMMA AfterExchangeInv ==
    ASSUME BoundsAssumption, Inv, AfterExchange
    PROVE  Inv'
<1>1. proc.job # None /\ UNCHANGED <<broker, warned>>
  BY DEF AfterExchange, Sending
<1>2. PICK j : j = proc.job
  OBVIOUS
<1>3. j \in Job /\ Owner \in Exchangers /\ proc \in Process /\ warned' \in Warning
  BY <1>1, <1>2 DEF Inv, Typed, Process, Line
<1>4. CASE /\ proc' = [proc EXCEPT !.job = None, !.sealed = TRUE, !.chain = None]
           /\ UNCHANGED <<disk, conn, net, ids, faults>>
  <2>1. proc' \in Process /\ SameExchanges(proc')
    BY <1>3, <1>4 DEF Process, SameExchanges
  <2> QED BY <1>1, <1>3, <1>4, <2>1, QuietInv
<1>5. CASE ids < MaxIds /\ ids' = ids + 1 /\ SendPending(proc.job, proc, NewRequest)
  <2>1. PICK r : r = NewRequest
    OBVIOUS
  <2>2. ids' \in 0..MaxIds /\ ids <= ids' /\ ids + 1 \in 1..MaxIds
    BY <1>5, NoneIsFresh DEF Inv, Typed
  <2>3. Registered(j.bound) => r \in Reauth /\ r.ver = disk.ver /\ r.jti = disk.access
    BY <2>1, <2>2, RegisteredView DEF NewRequest, Reauth
  <2>4. PICK p \in Process : p = proc
    BY <1>3
  <2>5. SendPending(j, p, r) /\ SameExchanges(p)
    BY <1>2, <1>5, <2>1, <2>4 DEF SameExchanges
  <2> QED BY <1>1, <1>3, <2>2, <2>3, <2>5, SendPendingInv
<1> QED BY <1>4, <1>5 DEF AfterExchange

-----------------------------------------------------------------------------
(* The end of an exchange.                                                 *)

LEMMA SettledView ==
    ASSUME BoundsAssumption, Inv, NEW e \in Exchangers, NEW ok \in BOOLEAN, Settled(e, ok)
    PROVE  /\ proc' \in Process
           /\ proc'.exch = [proc.exch EXCEPT ![e] = None]
           /\ proc'.cut = IF proc.cut # None /\ proc.cut.by = e THEN None ELSE proc.cut
           /\ proc'.job # None => Owner \in Exchangers
<1>1. PICK p : p = Ended(proc, e)
  OBVIOUS
<1>2. /\ p \in Process /\ p.job = proc.job
      /\ p.exch = [proc.exch EXCEPT ![e] = None]
      /\ p.cut = IF proc.cut # None /\ proc.cut.by = e THEN None ELSE proc.cut
  BY <1>1 DEF Ended, Inv, Typed, Process
<1>3. CASE e = Owner /\ p.job # None
  <2>1. p.job \in Job
    BY <1>2, <1>3 DEF Process
  <2>2. Retried(p, p.job) \in Process /\ Retried(p, p.job).cut = p.cut
        /\ Retried(p, p.job).exch = p.exch
    BY <1>2, <2>1, RetriedView
  <2>3. [p EXCEPT !.job.at = "send"] \in Process
        /\ [p EXCEPT !.job.at = "send"].cut = p.cut
        /\ [p EXCEPT !.job.at = "send"].exch = p.exch
    <3>1. [p.job EXCEPT !.at = "send"] \in Job
      BY <2>1 DEF Job
    <3> QED BY <1>2, <3>1 DEF Process
  <2>4. proc' = [p EXCEPT !.job.at = "send"] \/ proc' = Retried(p, p.job)
    BY <1>1, <1>3 DEF Settled
  <2>5. proc' \in Process /\ proc'.cut = p.cut /\ proc'.exch = p.exch
    BY <2>2, <2>3, <2>4
  <2> QED BY <1>2, <1>3, <2>5
<1>4. CASE ~(e = Owner /\ p.job # None)
  <2>1. proc' = p
    BY <1>1, <1>4 DEF Settled
  <2>2. proc.job # None => Owner \in Exchangers
    BY DEF Inv, Line
  <2> QED BY <1>2, <2>1, <2>2
<1> QED BY <1>3, <1>4

\* An exchange that ends leaves another one its cut.
LEMMA TakenSettled ==
    ASSUME BoundsAssumption, Inv, NEW e \in Exchangers, NEW ok \in BOOLEAN, Settled(e, ok),
           Pending' = Pending \/ (Pending' = None /\ proc.exch[e] # None)
    PROVE  Taken'
<1>1. /\ proc'.exch = [proc.exch EXCEPT ![e] = None]
      /\ proc'.cut = IF proc.cut # None /\ proc.cut.by = e THEN None ELSE proc.cut
  BY SettledView
<1> SUFFICES ASSUME NEW x \in Exchangers, proc'.exch[x] # None
             PROVE  Pending' = proc'.exch[x] /\ proc'.cut = ConsumedCut(x, proc'.exch[x])
  BY DEF Taken, ConsumedCut
<1>2. proc.exch \in [Exchangers -> Attempt \cup {None}]
  BY DEF Inv, Typed, Process
<1>3. x # e /\ proc'.exch[x] = proc.exch[x]
  BY <1>1, <1>2
<1>4. Pending = proc.exch[x] /\ proc.cut = ConsumedCut(x, proc.exch[x])
  BY <1>3 DEF Inv, Taken
<1>5. proc.cut.by = x
  BY <1>4 DEF ConsumedCut
<1>6. proc'.cut = proc.cut
  BY <1>1, <1>3, <1>5
<1>7. proc.exch[e] = None
  <2> SUFFICES ASSUME proc.exch[e] # None PROVE FALSE
    OBVIOUS
  <2>1. proc.cut = ConsumedCut(e, proc.exch[e])
    BY DEF Inv, Taken
  <2>2. proc.cut.by = e
    BY <2>1 DEF ConsumedCut
  <2> QED BY <1>3, <1>5, <2>2
<1> QED BY <1>3, <1>4, <1>6, <1>7

\* The exchange failed, or its answer was stale: the credential is the same.
LEMMA SettledInv ==
    ASSUME BoundsAssumption, Inv, NEW e \in Exchangers, NEW ok \in BOOLEAN, Settled(e, ok),
           UNCHANGED <<disk, conn, broker, ids, warned>>, faults' \in 0..MaxFaults,
           NEW R, net' = [net EXCEPT !.resps = @ \ R]
    PROVE  Inv'
<1> USE DEF Inv
<1>1. proc' \in Process /\ (proc'.job # None => Owner \in Exchangers)
  BY SettledView
<1>2. /\ net' \in Net /\ net'.reqs = net.reqs /\ net'.resps \subseteq net.resps
      /\ net'.frames = net.frames /\ net'.acks = net.acks
  BY DEF Typed, Net
<1>3. Typed'
  BY <1>1, <1>2 DEF Typed
<1>4. Exchange'
  BY <1>2, <1>3, ExchangeKept DEF SameCredential, Typed
<1>5. Taken'
  BY TakenSettled DEF Pending
<1> QED BY <1>1, <1>2, <1>3, <1>4, <1>5 DEF Wire, Line

\* The answer is applied: the host has the broker's token.
LEMMA AppliedView ==
    ASSUME BoundsAssumption, Inv, NEW a, NEW r \in net.resps, r.tok # 0, FenceMatches(a, r),
           a # None
    PROVE  /\ Applied(a, r) \in Disk /\ Applied(a, r) # None
           /\ Applied(a, r).ver = disk.ver + 1 /\ Applied(a, r).pend = None
           /\ Applied(a, r).access = broker.tok /\ Applied(a, r).refresh = broker.tok
           /\ Applied(a, r).reauth = None
           /\ broker.tok = disk.refresh + 1 /\ disk # None /\ disk.access = disk.refresh
           /\ disk.ver \in Nat /\ disk.refresh \in Nat /\ disk.ver <= disk.refresh
<1>1. disk # None /\ disk.pend = a /\ r.id = a.id /\ disk.ver = a.oldVer
  BY DEF FenceMatches
<1>2. /\ disk \in Disk /\ disk.ver \in 0..MaxTok /\ disk.refresh \in 0..MaxTok
      /\ Pending = a /\ a \in Attempt
  BY <1>1, DiskView DEF Inv
<1>3. r.tok = disk.refresh + 1 /\ r.tok = broker.tok
  BY <1>1, <1>2 DEF Inv, Exchange, Answers
<1>4. disk.ver <= disk.refresh /\ disk.access = disk.refresh
      /\ a.kind = IF disk.ver = 0 THEN "bootstrap" ELSE "refresh"
  BY <1>1 DEF Inv, Exchange, Credential
<1>5. broker.tok \in 0..MaxTok /\ MaxTok \in Nat
  BY NoneIsFresh DEF Inv, Typed, BrokerState
<1>6. disk.ver + 1 \in 0..MaxTok
  BY <1>2, <1>3, <1>4, <1>5
<1>7. a.kind # "refresh" => disk.reauth = None
  BY <1>1, <1>2, <1>4 DEF Inv, Wire
<1>8. PICK v \in 0..MaxTok : v = disk.ver + 1
  BY <1>6
<1>9. PICK t \in 0..MaxTok : t = r.tok
  BY <1>3, <1>5
<1>10. Applied(a, r) = [disk EXCEPT !.ver = v, !.access = t, !.refresh = t, !.pend = None,
                                    !.reauth = None]
  BY <1>2, <1>7, <1>8, <1>9 DEF Applied, Disk
<1>11. /\ Applied(a, r) \in Disk /\ Applied(a, r).ver = v /\ Applied(a, r).access = t
       /\ Applied(a, r).refresh = t /\ Applied(a, r).pend = None /\ Applied(a, r).reauth = None
  BY <1>2, <1>10 DEF Disk
<1> QED BY <1>1, <1>2, <1>3, <1>4, <1>8, <1>9, <1>11, NoneIsFresh

LEMMA ExchangeApplies ==
    ASSUME BoundsAssumption, Inv, NEW a, NEW r \in net.resps, r.tok # 0, FenceMatches(a, r),
           a # None, disk' = Applied(a, r), UNCHANGED <<broker, ids>>,
           net'.resps \subseteq net.resps, net'.reqs = net.reqs
    PROVE  Exchange'
<1>1. /\ disk' # None /\ disk'.ver = disk.ver + 1 /\ disk'.pend = None
      /\ disk'.access = broker.tok /\ disk'.refresh = broker.tok
      /\ broker.tok = disk.refresh + 1 /\ disk # None
      /\ disk.ver \in Nat /\ disk.refresh \in Nat /\ disk.ver <= disk.refresh
      /\ Pending' = None
  BY AppliedView DEF Pending
<1>2. Credential'
  BY <1>1 DEF Inv, Exchange, Credential, Rotated
<1>3. Remembered' /\ Answers'
  BY <1>1 DEF Inv, Exchange, Remembered, Answers
<1>4. Requests'
  <2>1. broker.boot # "open"
    BY <1>1 DEF Inv, Exchange, Credential
  <2>2. \A q \in net.reqs : q.kind \in Kind /\ q.old \in Int
    BY DEF Inv, Typed, Net, Request, Kind
  <2> QED BY <1>1, <2>1, <2>2 DEF Inv, Exchange, Requests, Spent, Current, Kind
<1> QED BY <1>2, <1>3, <1>4 DEF Exchange

LEMMA AppliedInv ==
    ASSUME BoundsAssumption, Inv, NEW e \in Exchangers, NEW ok \in BOOLEAN, Settled(e, ok),
           NEW r \in net.resps, r.tok # 0, proc.exch[e] # None, FenceMatches(proc.exch[e], r),
           disk' = Applied(proc.exch[e], r),
           UNCHANGED <<conn, broker, ids, warned>>, faults' \in 0..MaxFaults,
           net' = [net EXCEPT !.resps = @ \ {r}]
    PROVE  Inv'
<1>1. PICK a : a = proc.exch[e]
  OBVIOUS
<1>2. proc' \in Process /\ (proc'.job # None => Owner \in Exchangers)
  BY SettledView
<1>3. /\ net' \in Net /\ net'.reqs = net.reqs /\ net'.resps \subseteq net.resps
      /\ net'.frames = net.frames /\ net'.acks = net.acks
  BY DEF Inv, Typed, Net
<1>4. /\ disk' \in Disk /\ disk' # None /\ disk'.pend = None /\ disk'.reauth = None
      /\ disk'.access = broker.tok /\ disk'.ver = disk.ver + 1
      /\ broker.tok = disk.refresh + 1 /\ disk # None /\ disk.access = disk.refresh
      /\ disk.ver \in Nat /\ disk.refresh \in Nat
  BY <1>1, AppliedView
<1>5. Typed'
  BY <1>2, <1>3, <1>4 DEF Inv, Typed
<1>6. Exchange'
  BY <1>1, <1>3, ExchangeApplies
<1>7. Taken'
  BY <1>4, TakenSettled DEF Pending
<1>8. Grown /\ ReauthFits'
  BY <1>4 DEF Grown, ReauthFits
<1>9. Wire'
  BY <1>3, <1>5, <1>8, WireKept DEF Inv
<1>10. Line'
  BY <1>2, <1>8, LineKept DEF Inv
<1> QED BY <1>5, <1>6, <1>7, <1>9, <1>10 DEF Inv

LEMMA AnswerInv ==
    ASSUME BoundsAssumption, Inv, NEW e \in Exchangers, Answer(e)
    PROVE  Inv'
<1>0. UNCHANGED <<conn, broker, ids, warned>> /\ proc.exch[e] # None /\ faults \in 0..MaxFaults
  BY DEF Answer, Inv, Typed
<1>1. PICK r \in net.resps :
         /\ net' = [net EXCEPT !.resps = @ \ {r}]
         /\ \/ /\ Settled(e, FALSE)
               /\ UNCHANGED <<disk, faults>>
            \/ /\ Settled(e, TRUE)
               /\ UNCHANGED <<disk, faults>>
            \/ /\ r.tok # 0 /\ FenceMatches(proc.exch[e], r)
               /\ Swapped(Applied(proc.exch[e], r))
               /\ Settled(e, TRUE)
            \/ /\ r.tok # 0 /\ FenceMatches(proc.exch[e], r)
               /\ CommitUncertain(Applied(proc.exch[e], r))
               /\ Settled(e, FALSE)
  BY DEF Answer
<1>2. CASE Settled(e, FALSE) /\ UNCHANGED <<disk, faults>>
  BY <1>0, <1>1, <1>2, SettledInv
<1>3. CASE Settled(e, TRUE) /\ UNCHANGED <<disk, faults>>
  BY <1>0, <1>1, <1>3, SettledInv
<1>4. CASE /\ r.tok # 0 /\ FenceMatches(proc.exch[e], r)
           /\ Swapped(Applied(proc.exch[e], r)) /\ Settled(e, TRUE)
  <2>1. disk' = Applied(proc.exch[e], r) /\ faults' = faults
    BY <1>4 DEF Swapped
  <2> QED BY <1>0, <1>1, <1>4, <2>1, AppliedInv
<1>5. CASE /\ r.tok # 0 /\ FenceMatches(proc.exch[e], r)
           /\ CommitUncertain(Applied(proc.exch[e], r)) /\ Settled(e, FALSE)
  <2>1. (disk' = disk \/ disk' = Applied(proc.exch[e], r)) /\ faults' \in 0..MaxFaults
    BY <1>5, FaultTyped DEF CommitUncertain, Inv
  <2>2. CASE disk' = disk
    BY <1>0, <1>1, <1>5, <2>1, <2>2, SettledInv
  <2>3. CASE disk' = Applied(proc.exch[e], r)
    BY <1>0, <1>1, <1>5, <2>1, <2>3, AppliedInv
  <2> QED BY <2>1, <2>2, <2>3
<1> QED BY <1>1, <1>2, <1>3, <1>4, <1>5

LEMMA ExpireInv ==
    ASSUME BoundsAssumption, Inv, NEW e \in Exchangers, Timeout(e) \/ TooLate(e)
    PROVE  Inv'
<1>1. PICK R : R = Awaited(e)
  OBVIOUS
<1>2. /\ net' = [net EXCEPT !.resps = @ \ R] /\ Settled(e, FALSE)
      /\ UNCHANGED <<disk, conn, broker, ids, warned>>
  BY <1>1 DEF Timeout, TooLate, Expire
<1>3. faults' \in 0..MaxFaults
  <2>1. CASE Timeout(e)
    BY <2>1 DEF Timeout, Inv, Typed
  <2>2. CASE TooLate(e)
    BY <2>2, FaultTyped DEF TooLate, Inv
  <2> QED BY <2>1, <2>2
<1> QED BY <1>2, <1>3, SettledInv

-----------------------------------------------------------------------------
(* The connection.                                                         *)

\* The same grant: neither its token nor what is remembered of it changes.
SameGrant ==
    /\ broker'.tok = broker.tok /\ broker'.boot = broker.boot
    /\ broker'.replays = broker.replays /\ broker'.lapsed = broker.lapsed

LEMMA ConnectionStep ==
    ASSUME Inv, Typed', SameCredential, SameGrant, UNCHANGED <<ids, proc>>,
           net'.reqs = net.reqs, net'.resps \subseteq net.resps, Wire', Line'
    PROVE  Inv'
<1>1. Exchange'
  BY ExchangeKept DEF Inv, SameGrant, Typed
<1>2. Taken'
  BY TakenKept DEF Inv
<1> QED BY <1>1, <1>2 DEF Inv

\* The connection alone changes.
LEMMA ConnInv ==
    ASSUME Inv, UNCHANGED <<disk, proc, broker, net, ids, faults, warned>>,
           conn' \in Connection, Line'
    PROVE  Inv'
<1>1. Typed' /\ Wire' /\ SameCredential /\ SameGrant
  BY DEF Inv, Typed, Wire, SameCredential, SameGrant
<1> QED BY <1>1, ConnectionStep

LEMMA ClosedView ==
    ASSUME BoundsAssumption
    PROVE  Closed \in Connection /\ Closed.phase = "closed"
  BY NoneIsFresh DEF Closed, Connection

\* The connection is closed; frames may be lost with it.
LEMMA ClosedInv ==
    ASSUME BoundsAssumption, Inv, conn' = Closed, UNCHANGED <<proc, broker, ids, warned>>,
           disk' = disk \/ (disk # None /\ disk' = [disk EXCEPT !.reauth = None]),
           net' = net \/ net' = [net EXCEPT !.frames = {}, !.acks = {}],
           faults' \in 0..MaxFaults
    PROVE  Inv'
<1>1. /\ disk' \in Disk \cup {None} /\ (disk # None <=> disk' # None)
      /\ disk # None => /\ disk'.ver = disk.ver /\ disk'.access = disk.access
                        /\ disk'.refresh = disk.refresh /\ disk'.pend = disk.pend
                        /\ disk'.reauth = disk.reauth \/ disk'.reauth = None
  <2>1. CASE disk' = disk
    BY <2>1 DEF Inv, Typed
  <2>2. CASE disk # None /\ disk' = [disk EXCEPT !.reauth = None]
    <3>1. disk \in Disk
      BY <2>2, DiskView DEF Inv
    <3>2. disk' \in Disk
      BY <2>2, <3>1 DEF Disk
    <3> QED BY <2>2, <3>1, <3>2, NoneIsFresh DEF Disk
  <2> QED BY <2>1, <2>2
<1>2. /\ net' \in Net /\ net'.reqs = net.reqs /\ net'.resps = net.resps
      /\ net'.frames \subseteq net.frames /\ net'.acks \subseteq net.acks
  BY DEF Inv, Typed, Net
<1>3. Typed' /\ conn'.phase = "closed"
  BY <1>1, <1>2, ClosedView DEF Inv, Typed
<1>4. SameCredential /\ SameGrant
  BY <1>1 DEF SameCredential, SameGrant
<1>5. disk # None => disk.access \in Int
  BY DiskView DEF Inv
<1>6. Grown /\ ReauthFits'
  BY <1>1, <1>5, ReauthFitsNow DEF Inv, Grown, ReauthFits
<1>7. Wire'
  BY <1>2, <1>3, <1>6, WireKept DEF Inv
<1>8. Line'
  BY <1>3 DEF Inv, Line
<1> QED BY <1>2, <1>3, <1>4, <1>7, <1>8, ConnectionStep

LEMMA CaptureAdmissionInv ==
    ASSUME BoundsAssumption, Inv, CaptureAdmission
    PROVE  Inv'
<1>1. /\ disk # None /\ disk.ver > 0 /\ broker.conn < MaxConn
      /\ conn' = [Closed EXCEPT !.phase = "admitted", !.ver = disk.ver, !.jti = disk.access]
      /\ UNCHANGED <<disk, proc, broker, net, ids, faults, warned>>
  BY DEF CaptureAdmission
<1>2. disk.ver \in 0..MaxTok /\ disk.access \in 0..MaxTok /\ disk.refresh \in 0..MaxTok
  BY <1>1, DiskView DEF Inv
<1>3. disk.access > 0
  BY <1>1, <1>2 DEF Inv, Exchange, Credential
<1>4. /\ conn' \in Connection /\ conn'.phase = "admitted" /\ conn'.jti = disk.access
  BY <1>1, <1>2, ClosedView DEF Closed, Connection
<1>5. Line'
  BY <1>1, <1>3, <1>4 DEF Inv, Line
<1> QED BY <1>1, <1>4, <1>5, ConnInv

LEMMA StageInv ==
    ASSUME BoundsAssumption, Inv, ConsumeAdmission \/ ClaimAuthorization
    PROVE  Inv'
<1>1. PICK ph \in {"consumed", "claimed"} :
        /\ conn.phase \in {"admitted", "consumed"}
        /\ conn' = [conn EXCEPT !.phase = ph] \/ conn' = Closed
  BY DEF ConsumeAdmission, ClaimAuthorization, Advance
<1>2. UNCHANGED <<disk, proc, broker, net, ids, faults, warned>>
  BY DEF ConsumeAdmission, ClaimAuthorization, Advance
<1>3. CASE conn' = [conn EXCEPT !.phase = ph]
  <2>1. conn' \in Connection /\ conn'.phase = ph /\ conn'.jti = conn.jti
    BY <1>3 DEF Inv, Typed, Connection
  <2>2. Line'
    BY <1>1, <1>2, <2>1 DEF Inv, Line
  <2> QED BY <1>2, <2>1, <2>2, ConnInv
<1>4. CASE conn' = Closed
  BY <1>2, <1>4, ClosedInv DEF Inv, Typed
<1> QED BY <1>1, <1>3, <1>4

LEMMA FinalizeInv ==
    ASSUME BoundsAssumption, Inv, FinalizeAuthorization
    PROVE  Inv'
<1>1. conn.phase = "claimed" /\ UNCHANGED <<disk, proc, net, ids, faults, warned>>
  BY DEF FinalizeAuthorization, Advance
<1>2. CASE MatchesCut /\ ~broker.revoked
  <2>1. /\ conn' = [conn EXCEPT !.phase = "hello", !.id = broker.conn + 1]
        /\ broker' = [broker EXCEPT !.conn = @ + 1, !.jti = conn.jti]
    BY <1>2 DEF FinalizeAuthorization, Advance
  <2>2. /\ disk # None /\ disk.ver > 0 /\ conn.jti > 0 /\ broker.conn < MaxConn
        /\ disk.access = conn.jti
    BY <1>1, <1>2 DEF Inv, Line, MatchesCut
  <2>3. broker.conn \in 0..MaxConn /\ conn.jti \in 0..MaxTok /\ MaxConn \in Nat
    BY NoneIsFresh DEF Inv, Typed, BrokerState, Connection
  <2>4. broker.conn + 1 \in 0..MaxConn
    BY <2>2, <2>3
  <2>5. /\ broker' \in BrokerState /\ SameGrant
        /\ broker'.conn = broker.conn + 1 /\ broker'.jti = conn.jti
    BY <2>1, <2>3, <2>4 DEF Inv, Typed, BrokerState, SameGrant
  <2>6. conn' \in Connection /\ conn'.phase = "hello" /\ conn'.id = broker.conn + 1
        /\ conn'.jti = conn.jti
    BY <2>1, <2>4 DEF Inv, Typed, Connection
  <2>7. Typed' /\ SameCredential
    BY <1>1, <2>5, <2>6 DEF Inv, Typed, SameCredential
  <2>8. Wire'
    <3>1. \A f \in net.frames \cup net.acks : f.conn \in Int
      BY DEF Inv, Typed, Net, Frame
    <3> QED BY <1>1, <2>2, <2>3, <2>5, <3>1 DEF Inv, Wire
  <2>9. Line'
    BY <1>1, <2>2, <2>3, <2>5, <2>6 DEF Inv, Line
  <2> QED BY <1>1, <2>5, <2>7, <2>8, <2>9, ConnectionStep
<1>3. CASE ~(MatchesCut /\ ~broker.revoked)
  <2>1. conn' = Closed /\ broker' = broker
    BY <1>3 DEF FinalizeAuthorization, Advance
  <2> QED BY <1>1, <2>1, ClosedInv DEF Inv, Typed
<1> QED BY <1>2, <1>3

LEMMA HostRegisteredInv ==
    ASSUME BoundsAssumption, Inv, HostRegistered
    PROVE  Inv'
<1>1. conn.phase = "hello" /\ UNCHANGED <<proc, broker, net, ids, warned>>
  BY DEF HostRegistered
<1>2. disk # None /\ disk.ver > 0 /\ faults \in 0..MaxFaults
  BY <1>1 DEF Inv, Line, Typed
<1>3. CASE conn' = Closed /\ UNCHANGED <<disk, faults>>
  BY <1>1, <1>2, <1>3, ClosedInv
<1>4. CASE CommitUncertain([disk EXCEPT !.reauth = None]) /\ conn' = Closed
  <2>1. faults' \in 0..MaxFaults
    BY <1>4, FaultTyped DEF CommitUncertain, Inv
  <2>2. disk' = disk \/ disk' = [disk EXCEPT !.reauth = None]
    BY <1>4 DEF CommitUncertain
  <2> QED BY <1>1, <1>2, <1>4, <2>1, <2>2, ClosedInv
<1>5. CASE /\ Swapped([disk EXCEPT !.reauth = None])
           /\ conn' = [conn EXCEPT !.phase = "registered"]
  <2>0. disk' = [disk EXCEPT !.reauth = None] /\ faults' = faults
    BY <1>5 DEF Swapped
  <2>1. disk \in Disk
    BY <1>2, DiskView DEF Inv
  <2>2. /\ disk' \in Disk /\ disk'.ver = disk.ver /\ disk'.access = disk.access
        /\ disk'.refresh = disk.refresh /\ disk'.pend = disk.pend /\ disk'.reauth = None
    BY <2>0, <2>1 DEF Disk
  <2>3. disk' # None
    BY <2>2, NoneIsFresh
  <2>4. /\ conn' \in Connection /\ conn'.phase = "registered" /\ conn'.id = conn.id
        /\ conn'.jti = conn.jti
    BY <1>5 DEF Inv, Typed, Connection
  <2>5. Typed' /\ SameCredential /\ SameGrant
    BY <1>1, <1>2, <2>0, <2>2, <2>3, <2>4 DEF Inv, Typed, SameCredential, SameGrant
  <2>6. disk.access \in Int
    BY <1>2, DiskView DEF Inv
  <2>7. Grown /\ ReauthFits'
    BY <2>2, <2>3, <2>6 DEF Grown, ReauthFits
  <2>8. Wire'
    BY <1>1, <2>5, <2>7, WireKept DEF Inv
  <2>9. Line'
    BY <1>1, <1>2, <2>2, <2>3, <2>4 DEF Inv, Line
  <2> QED BY <1>1, <2>5, <2>8, <2>9, ConnectionStep
<1> QED BY <1>3, <1>4, <1>5 DEF HostRegistered

LEMMA BrokerReauthenticatesInv ==
    ASSUME BoundsAssumption, Inv, BrokerReauthenticates
    PROVE  Inv'
<1>1. PICK f \in net.frames :
      /\ net' = [net EXCEPT !.frames = @ \ {f},
                            !.acks = IF Authorizes(f) THEN @ \cup {f} ELSE @]
      /\ broker' = IF Authorizes(f) THEN [broker EXCEPT !.jti = f.jti] ELSE broker
      /\ UNCHANGED <<disk, proc, conn, ids, faults, warned>>
  BY DEF BrokerReauthenticates
<1>2. f \in Frame /\ f.jti \in 1..MaxTok /\ broker.jti \in 0..MaxTok
      /\ disk # None /\ f.jti <= disk.access
  BY DEF Inv, Typed, Net, Frame, BrokerState, Wire
<1>3. /\ net' \in Net /\ net'.reqs = net.reqs /\ net'.resps = net.resps
      /\ net'.frames \subseteq net.frames
      /\ net'.acks \subseteq net.acks \cup {f}
      /\ ~Authorizes(f) => net'.acks = net.acks
  BY <1>1, <1>2 DEF Inv, Typed, Net
<1>4. /\ broker' \in BrokerState /\ SameGrant /\ broker'.conn = broker.conn
      /\ broker'.jti >= broker.jti
      /\ Authorizes(f) => broker'.jti = f.jti
      /\ broker'.jti = broker.jti \/ broker'.jti = f.jti
  <2>1. f.jti \in 0..MaxTok /\ broker.jti \in Int /\ f.jti \in Int
    BY <1>2
  <2>2. CASE Authorizes(f)
    <3>1. broker' = [broker EXCEPT !.jti = f.jti] /\ f.jti >= broker.jti
      BY <1>1, <2>2 DEF Authorizes
    <3> QED BY <2>1, <3>1 DEF Inv, Typed, BrokerState, SameGrant
  <2>3. CASE ~Authorizes(f)
    BY <1>1, <2>1, <2>3 DEF Inv, Typed, BrokerState, SameGrant
  <2> QED BY <2>2, <2>3
<1>5. Typed' /\ SameCredential
  BY <1>1, <1>3, <1>4 DEF Inv, Typed, SameCredential
<1>6. Wire'
  <2>1. \A x \in net'.frames \cup net'.acks :
          disk' # None /\ x.jti <= disk'.access /\ x.conn <= broker'.conn
    BY <1>1, <1>3, <1>4 DEF Inv, Wire
  <2>2. \A x \in net'.acks : x.conn = broker'.conn => x.jti <= broker'.jti
    <3>1. \A x \in net.acks : x.conn = broker.conn => x.jti <= broker.jti /\ x.jti \in Int
      BY DEF Inv, Wire, Typed, Net, Frame
    <3>2. broker'.jti \in Int /\ broker.jti \in Int
      BY <1>2, <1>4
    <3>3. \A x \in net.acks : x.conn = broker'.conn => x.jti <= broker'.jti
      BY <1>4, <3>1, <3>2
    <3>4. f \in net'.acks /\ f \notin net.acks /\ f.conn = broker.conn => f.jti <= broker'.jti
      BY <1>2, <1>3, <1>4
    <3> QED BY <1>3, <1>4, <3>3, <3>4
  <2>3. broker'.jti > 0 => disk' # None /\ broker'.jti <= disk'.access
    BY <1>1, <1>2, <1>4 DEF Inv, Wire
  <2> QED BY <1>1, <2>1, <2>2, <2>3 DEF Inv, Wire
<1>7. Line'
  <2>1. conn.jti \in Int /\ broker.jti \in Int /\ broker'.jti \in Int
    BY <1>2, <1>4 DEF Inv, Typed, Connection
  <2> QED BY <1>1, <1>4, <2>1 DEF Inv, Line
<1> QED BY <1>1, <1>3, <1>4, <1>5, <1>6, <1>7, ConnectionStep

LEMMA AcknowledgedInv ==
    ASSUME BoundsAssumption, Inv, Acknowledged
    PROVE  Inv'
<1>1. PICK f \in net.acks :
         /\ net' = [net EXCEPT !.acks = @ \ {f}]
         /\ \/ UNCHANGED <<disk, conn, faults>>
            \/ /\ AckMatches(f) /\ disk.reauth = conn.pend /\ disk.ver = conn.pend.ver
               /\ \/ /\ Swapped([disk EXCEPT !.reauth = None])
                     /\ conn' = [conn EXCEPT !.ver = conn.pend.ver, !.jti = conn.pend.jti,
                                             !.pend = None]
                  \/ /\ CommitUncertain([disk EXCEPT !.reauth = None])
                     /\ UNCHANGED conn
  BY DEF Acknowledged
<1>2. UNCHANGED <<proc, broker, ids, warned>> /\ faults \in 0..MaxFaults
  BY DEF Acknowledged, Inv, Typed
<1>3. /\ net' \in Net /\ net'.reqs = net.reqs /\ net'.resps = net.resps
      /\ net'.frames = net.frames /\ net'.acks \subseteq net.acks
  BY <1>1 DEF Inv, Typed, Net
<1>4. disk # None
  BY DEF Inv, Wire
<1>5. disk \in Disk /\ disk.access \in Int
  BY <1>4, DiskView DEF Inv
<1>6. disk' = disk \/ disk' = [disk EXCEPT !.reauth = None]
  BY <1>1 DEF Swapped, CommitUncertain
<1>7. /\ disk' \in Disk /\ disk'.ver = disk.ver /\ disk'.access = disk.access
      /\ disk'.refresh = disk.refresh /\ disk'.pend = disk.pend
      /\ disk'.reauth = disk.reauth \/ disk'.reauth = None
  BY <1>5, <1>6 DEF Disk
<1>8. disk' # None
  BY <1>7, NoneIsFresh
<1>9. faults' \in 0..MaxFaults
  BY <1>1, <1>2, FaultTyped DEF Swapped, CommitUncertain, Inv
<1>10. /\ conn' \in Connection /\ conn'.phase = conn.phase /\ conn'.id = conn.id
       /\ \/ conn'.jti = conn.jti
          \/ conn.phase = "registered" /\ conn'.jti = f.jti /\ f.conn = conn.id
  <2>1. CASE conn' = conn
    BY <2>1 DEF Inv, Typed
  <2>2. CASE /\ AckMatches(f)
             /\ conn' = [conn EXCEPT !.ver = conn.pend.ver, !.jti = conn.pend.jti, !.pend = None]
    <3>1. conn.pend \in Reauth /\ conn.pend.jti = f.jti /\ conn.id = f.conn
          /\ conn.phase = "registered"
      BY <2>2 DEF AckMatches, Registered, Inv, Typed, Connection
    <3>2. conn.pend.ver \in 0..MaxTok /\ conn.pend.jti \in 0..MaxTok
      BY <3>1, NoneIsFresh DEF Reauth
    <3> QED BY <2>2, <3>1, <3>2 DEF Inv, Typed, Connection
  <2> QED BY <1>1, <2>1, <2>2
<1>11. Typed' /\ SameCredential /\ SameGrant
  BY <1>2, <1>3, <1>4, <1>7, <1>8, <1>9, <1>10 DEF Inv, Typed, SameCredential, SameGrant
<1>12. Grown /\ ReauthFits'
  BY <1>4, <1>5, <1>7, <1>8, ReauthFitsNow DEF Inv, Grown, ReauthFits
<1>13. Wire'
  BY <1>2, <1>3, <1>11, <1>12, WireKept DEF Inv
<1>14. Line'
  <2>1. f.jti \in 1..MaxTok /\ (f.conn = broker.conn => f.jti <= broker.jti)
    BY DEF Inv, Typed, Net, Frame, Wire
  <2>2. CASE conn'.jti = conn.jti
    BY <1>2, <1>7, <1>8, <1>10, <2>2 DEF Inv, Line
  <2>3. CASE conn.phase = "registered" /\ conn'.jti = f.jti /\ f.conn = conn.id
    BY <1>2, <1>7, <1>8, <1>10, <2>1, <2>3 DEF Inv, Line
  <2> QED BY <1>10, <2>2, <2>3
<1> QED BY <1>2, <1>3, <1>11, <1>13, <1>14, ConnectionStep

LEMMA DropInv ==
    ASSUME BoundsAssumption, Inv, Drop
    PROVE  Inv'
<1>1. conn' = Closed /\ net' = [net EXCEPT !.frames = {}, !.acks = {}]
      /\ UNCHANGED <<disk, proc, broker, ids, warned>> /\ Fault("drop")
  BY DEF Drop
<1>2. faults' \in 0..MaxFaults
  BY <1>1, FaultTyped DEF Inv
<1> QED BY <1>1, <1>2, ClosedInv

LEMMA NewProcessView ==
    ASSUME BoundsAssumption, NEW i \in 1..MaxInst
    PROVE  /\ NewProcess(i) \in Process /\ NewProcess(i).job = None
           /\ \A e \in Exchangers : NewProcess(i).exch[e] = None
  BY DEF NewProcess, Process

LEMMA RestartInv ==
    ASSUME BoundsAssumption, Inv, Restart
    PROVE  Inv'
<1>1. /\ proc.inst < MaxInst /\ proc' = NewProcess(proc.inst + 1) /\ conn' = Closed
      /\ net' = [net EXCEPT !.resps = {}, !.frames = {}, !.acks = {}]
      /\ UNCHANGED <<disk, broker, ids, faults, warned>>
  BY DEF Restart
<1>2. proc.inst + 1 \in 1..MaxInst
  BY <1>1, NoneIsFresh DEF Inv, Typed, Process
<1>3. proc' \in Process /\ proc'.job = None /\ \A e \in Exchangers : proc'.exch[e] = None
  BY <1>1, <1>2, NewProcessView
<1>4. /\ net' \in Net /\ net'.reqs = net.reqs /\ net'.resps = {}
      /\ net'.frames = {} /\ net'.acks = {}
  BY <1>1 DEF Inv, Typed, Net
<1>5. Typed' /\ conn'.phase = "closed"
  BY <1>1, <1>3, <1>4, ClosedView DEF Inv, Typed
<1>6. Exchange'
  BY <1>1, <1>4, <1>5, ExchangeKept DEF Inv, SameCredential, Typed
<1>7. Taken'
  BY <1>3 DEF Taken
<1>8. Wire'
  BY <1>1, <1>4 DEF Inv, Wire
<1>9. Line'
  BY <1>3, <1>5 DEF Line
<1> QED BY <1>5, <1>6, <1>7, <1>8, <1>9 DEF Inv

-----------------------------------------------------------------------------
(* The invariant holds in every reachable state.                           *)

LEMMA InitInv ==
    ASSUME BoundsAssumption, Init
    PROVE  Inv
<1>1. /\ disk \in Disk \cup {None}
      /\ Enrolled => disk # None /\ disk.ver = 1 /\ disk.access = 1 /\ disk.refresh = 1
                     /\ disk.pend = None /\ disk.reauth = None
      /\ ~Enrolled => disk = None
  <2>1. CASE Enrolled
    <3>1. 1 \in 0..MaxTok
      BY <2>1 DEF BoundsAssumption
    <3>2. disk = [ver |-> 1, access |-> 1, refresh |-> 1, pend |-> None, reauth |-> None]
      BY <2>1 DEF Init
    <3>3. disk \in Disk
      BY <3>1, <3>2 DEF Disk
    <3> QED BY <2>1, <3>2, <3>3, NoneIsFresh
  <2>2. CASE ~Enrolled
    BY <2>2 DEF Init
  <2> QED BY <2>1, <2>2
<1>2. /\ proc \in Process /\ proc.job = None /\ \A e \in Exchangers : proc.exch[e] = None
  <2>1. proc = NewProcess(1) /\ 1 \in 1..MaxInst
    BY NoneIsFresh DEF Init
  <2> QED BY <2>1, NewProcessView
<1>3. conn \in Connection /\ conn.phase = "closed"
  BY ClosedView DEF Init
<1>4. /\ broker \in BrokerState /\ broker.replays = {} /\ broker.conn = 0 /\ broker.jti = 0
      /\ broker.tok = (IF Enrolled THEN 1 ELSE 0)
      /\ broker.boot = (IF Enrolled THEN "consumed" ELSE "open")
  BY NoneIsFresh DEF Init, BrokerState, BoundsAssumption
<1>5. net \in Net /\ net.reqs = {} /\ net.resps = {} /\ net.frames = {} /\ net.acks = {}
  BY DEF Init, Net
<1>6. ids = 0 /\ ids \in 0..MaxIds /\ faults \in 0..MaxFaults /\ warned \in Warning
  BY NoneIsFresh DEF Init, Warning
<1>7. Typed
  BY <1>1, <1>2, <1>3, <1>4, <1>5, <1>6 DEF Typed
<1>8. Exchange
  BY <1>1, <1>4, <1>5
     DEF Exchange, Credential, Rotated, Remembered, Answers, Requests
<1>9. Taken /\ Line
  BY <1>2, <1>3 DEF Taken, Line
<1>10. Wire
  BY <1>1, <1>4, <1>5 DEF Wire
<1> QED BY <1>7, <1>8, <1>9, <1>10 DEF Inv

LEMMA NextInv ==
    ASSUME BoundsAssumption, Inv, [Next]_vars
    PROVE  Inv'
<1>1. CASE DashboardBootstrap \/ DashboardRefresh
  BY <1>1, DashboardInv
<1>2. CASE \E q \in net.reqs : Serve(q)
  BY <1>2, ServeInv
<1>3. CASE Lapse
  BY <1>3, LapseInv
<1>4. CASE Revoke
  BY <1>4, RevokeInv
<1>5. CASE Lose
  BY <1>5, LoseInv
<1>6. CASE Warn
  BY <1>6, WarnInv
<1>7. CASE RetryFired
  BY <1>7, RetryFiredInv
<1>8. CASE ReplayFired
  BY <1>8, ReplayFiredInv
<1>9. CASE \E e \in Exchangers : Answer(e) \/ Timeout(e) \/ TooLate(e)
  BY <1>9, AnswerInv, ExpireInv
<1>10. CASE AfterExchange
  BY <1>10, AfterExchangeInv
<1>11. CASE CaptureAdmission
  BY <1>11, CaptureAdmissionInv
<1>12. CASE ConsumeAdmission \/ ClaimAuthorization
  BY <1>12, StageInv
<1>13. CASE FinalizeAuthorization
  BY <1>13, FinalizeInv
<1>14. CASE HostRegistered
  BY <1>14, HostRegisteredInv
<1>15. CASE BrokerReauthenticates
  BY <1>15, BrokerReauthenticatesInv
<1>16. CASE Acknowledged
  BY <1>16, AcknowledgedInv
<1>17. CASE Drop
  BY <1>17, DropInv
<1>18. CASE Restart
  BY <1>18, RestartInv
<1>19. CASE UNCHANGED vars
  <2>1. UNCHANGED <<disk, proc, conn, broker, net, ids, faults, warned>>
    BY <1>19 DEF vars
  <2>2. warned' \in Warning /\ proc' \in Process /\ SameExchanges(proc')
        /\ (proc'.job # None => Owner \in Exchangers)
    BY <2>1 DEF Inv, Typed, SameExchanges, Line
  <2> QED BY <2>1, <2>2, QuietInv
<1> QED BY <1>1, <1>2, <1>3, <1>4, <1>5, <1>6, <1>7, <1>8, <1>9, <1>10, <1>11, <1>12,
           <1>13, <1>14, <1>15, <1>16, <1>17, <1>18, <1>19 DEF Next

THEOREM Invariance ==
    ASSUME BoundsAssumption
    PROVE  Spec => []Inv
<1>1. Init => Inv
  BY InitInv
<1>2. Inv /\ [Next]_vars => Inv'
  BY NextInv
<1> QED BY <1>1, <1>2, PTL DEF Spec

-----------------------------------------------------------------------------
(* What follows from it.                                                   *)

\* The state of host, broker and network keeps its shape.
THEOREM TypeCorrect ==
    ASSUME BoundsAssumption
    PROVE  Spec => []TypeOK
<1>1. Inv => TypeOK
  <2> SUFFICES ASSUME Inv PROVE TypeOK
    OBVIOUS
  <2>1. /\ proc.inst \in 1..MaxInst /\ proc.cut \in Cut \cup {None}
        /\ \A e \in Exchangers : proc.exch[e] \in Attempt \cup {None}
        /\ proc.job \in Job \cup {None} /\ proc.chain \in Chain \cup {None}
        /\ proc.sealed \in BOOLEAN
    BY DEF Inv, Typed, Process
  <2>2. /\ net.reqs \subseteq Request /\ net.resps \subseteq Response
        /\ net.frames \subseteq Frame /\ net.acks \subseteq Frame
    BY DEF Inv, Typed, Net
  <2>3. /\ disk \in Disk \cup {None} /\ conn \in Connection /\ broker \in BrokerState
        /\ ids \in 0..MaxIds /\ faults \in 0..MaxFaults /\ warned \in Warning
    BY DEF Inv, Typed
  <2> QED BY <2>1, <2>2, <2>3 DEF TypeOK, Connection, BrokerState, Replay, Kind, Warning
<1> QED BY <1>1, Invariance, PTL

\* A request and the replay it left at the broker come from the running
\* process or from one before it.
Asked ==
    /\ \A q \in net.reqs : q.inst <= proc.inst
    /\ \A r \in broker.replays : r.inst <= proc.inst

LEMMA AskedStep ==
    ASSUME Typed, Typed', Asked,
           proc.inst <= proc'.inst,
           \A q \in net'.reqs : q \in net.reqs \/ q.inst = proc.inst,
           \A r \in broker'.replays :
              r \in broker.replays \/ \E q \in net.reqs : r.inst = q.inst
    PROVE  Asked'
<1>1. proc.inst \in Int /\ proc'.inst \in Int
  BY DEF Typed, Process
<1>2. \A q \in net.reqs \cup net'.reqs : q.inst \in Int
  BY DEF Typed, Net, Request
<1>3. \A r \in broker.replays \cup broker'.replays : r.inst \in Int
  BY DEF Typed, BrokerState, Replay
<1> QED BY <1>1, <1>2, <1>3 DEF Asked

LEMMA SameProcess ==
    ASSUME Typed, NEW e \in Exchangers
    PROVE  /\ Ended(proc, e).inst = proc.inst
           /\ \A ok \in BOOLEAN : Settled(e, ok) => proc'.inst = proc.inst
<1>1. Ended(proc, e).inst = proc.inst
  BY DEF Ended, Typed, Process
<1> QED BY <1>1 DEF Settled, Retried, Ended, Typed, Process

LEMMA BeginAsks ==
    ASSUME Typed, NEW e, NEW kind, NEW p, p.inst = proc.inst, p \in Process, Begin(e, kind, p)
    PROVE  /\ proc'.inst = proc.inst
           /\ \A q \in net'.reqs : q \in net.reqs \/ q.inst = proc.inst
BY DEF Begin, Typed, Process, Net

LEMMA SendAsks ==
    ASSUME Typed, NEW j, NEW r, SendPending(j, proc, r)
    PROVE  proc'.inst = proc.inst /\ net'.reqs = net.reqs
BY DEF SendPending, Sent, Refused, Retried, Typed, Process, Net

LEMMA RoundAsks ==
    ASSUME Typed, NEW j, Round(j)
    PROVE  /\ proc'.inst = proc.inst
           /\ \A q \in net'.reqs : q \in net.reqs \/ q.inst = proc.inst
<1>1. CASE SendPending([j EXCEPT !.bound = Bound(j)], proc, disk.reauth)
  BY <1>1, SendAsks
<1>2. CASE RoundExchanges(j)
  <2> DEFINE b == [j EXCEPT !.bound = Bound(j), !.at = "exchange", !.seen = disk.ver]
  <2>1. CASE Begin(Owner, "refresh", [proc EXCEPT !.job = b])
    BY <2>1 DEF Begin, Typed, Process, Net
  <2>2. CASE net' = net /\ proc' = Retried(proc, b)
    BY <2>2 DEF Retried, Typed, Process
  <2> QED BY <1>2, <2>1, <2>2 DEF RoundExchanges, BeginUncertain
<1>3. CASE proc' = [proc EXCEPT !.job = None] /\ net' = net
  BY <1>3 DEF Typed, Process
<1>4. CASE proc' = Retried(proc, j) /\ net' = net
  BY <1>4 DEF Retried, Typed, Process
<1> QED BY <1>1, <1>2, <1>3, <1>4 DEF Round

LEMMA AskedInv ==
    ASSUME BoundsAssumption, Inv, Asked, [Next]_vars
    PROVE  Asked'
<1>1. Typed /\ Typed'
  BY NextInv DEF Inv
<1>2. proc.inst \in Int /\ proc \in Process
  BY <1>1 DEF Typed, Process
<1> DEFINE Quiet == /\ proc'.inst = proc.inst
                    /\ \A q \in net'.reqs : q \in net.reqs \/ q.inst = proc.inst
<1>3. Quiet /\ broker'.replays \subseteq broker.replays => Asked'
  BY <1>1, <1>2, AskedStep
<1>4. CASE DashboardBootstrap \/ DashboardRefresh
  <2>1. ASSUME NEW kind, Begin(Dashboard, kind, proc) PROVE Quiet
    BY <1>1, <1>2, <2>1, BeginAsks
  <2>2. ASSUME NEW kind, BeginUncertain(kind), UNCHANGED proc PROVE Quiet
    BY <2>2 DEF BeginUncertain
  <2> QED BY <1>3, <1>4, <2>1, <2>2 DEF DashboardBootstrap, DashboardRefresh
<1>5. CASE \E q \in net.reqs : Serve(q)
  <2>1. PICK q \in net.reqs : Serve(q)
    BY <1>5
  <2>2. proc' = proc /\ net'.reqs \subseteq net.reqs
    BY <1>1, <2>1 DEF Serve, Reply, Typed, Net
  <2>3. broker' = broker \/ (broker.tok < MaxTok /\ broker' = Issue(q))
    BY <2>1 DEF Serve
  <2>4. \A r \in broker'.replays : r \in broker.replays \/ r.inst = q.inst
    BY <1>1, <2>3, IssueView
  <2> QED BY <1>1, <1>2, <2>2, <2>4, AskedStep
<1>6. CASE Lapse
  BY <1>1, <1>3, <1>6 DEF Lapse, Typed, BrokerState
<1>7. CASE Revoke
  BY <1>1, <1>3, <1>7 DEF Revoke, Typed, BrokerState
<1>8. CASE Lose
  BY <1>1, <1>3, <1>8 DEF Lose, Typed, Net
<1>9. CASE Warn
  <2>1. Quiet
    BY <1>1, <1>9, RoundAsks DEF Warn
  <2> QED BY <1>3, <1>9, <2>1 DEF Warn
<1>10. CASE RetryFired
  <2>1. Quiet
    BY <1>1, <1>10, RoundAsks DEF RetryFired
  <2> QED BY <1>3, <1>10, <2>1 DEF RetryFired
<1>11. CASE ReplayFired
  <2>1. Quiet
    BY <1>1, <1>11 DEF ReplayFired, Sent, Refused, Typed, Process, Net
  <2> QED BY <1>3, <1>11, <2>1 DEF ReplayFired
<1>12. CASE \E e \in Exchangers : Answer(e) \/ Timeout(e) \/ TooLate(e)
  <2>1. PICK e \in Exchangers : Answer(e) \/ Timeout(e) \/ TooLate(e)
    BY <1>12
  <2>2. proc'.inst = proc.inst
    BY <1>1, <2>1, SameProcess DEF Answer, Timeout, TooLate, Expire
  <2>3. net'.reqs = net.reqs /\ broker' = broker
    BY <1>1, <2>1 DEF Answer, Timeout, TooLate, Expire, Typed, Net
  <2> QED BY <1>3, <2>2, <2>3
<1>13. CASE AfterExchange
  <2>1. Quiet
    BY <1>1, <1>13, SendAsks DEF AfterExchange, Typed, Process
  <2> QED BY <1>3, <1>13, <2>1 DEF AfterExchange
<1>14. CASE CaptureAdmission \/ ConsumeAdmission \/ ClaimAuthorization \/ HostRegistered
  BY <1>3, <1>14 DEF CaptureAdmission, ConsumeAdmission, ClaimAuthorization, HostRegistered,
                     Advance
<1>15. CASE FinalizeAuthorization
  BY <1>1, <1>3, <1>15 DEF FinalizeAuthorization, Advance, Typed, BrokerState
<1>16. CASE BrokerReauthenticates
  BY <1>1, <1>3, <1>16 DEF BrokerReauthenticates, Typed, BrokerState, Net
<1>17. CASE Acknowledged \/ Drop
  BY <1>1, <1>3, <1>17 DEF Acknowledged, Drop, Typed, Net
<1>18. CASE Restart
  <2>1. proc'.inst = proc.inst + 1 /\ net'.reqs = net.reqs /\ broker' = broker
    BY <1>1, <1>18 DEF Restart, NewProcess, Typed, Net
  <2> QED BY <1>1, <1>2, <2>1, AskedStep
<1>19. CASE UNCHANGED vars
  BY <1>3, <1>19 DEF vars
<1> QED BY <1>4, <1>5, <1>6, <1>7, <1>8, <1>9, <1>10, <1>11, <1>12, <1>13, <1>14, <1>15,
           <1>16, <1>17, <1>18, <1>19 DEF Next

\* The host holds the grant's current refresh token, or the attempt that
\* fetches it: whatever is lost, late or refused between the commits of host
\* and broker, until the broker forgets the answer or the process that asked
\* is gone.
THEOREM TokenIsHeld ==
    ASSUME BoundsAssumption
    PROVE  Spec => []HeldOrReplayable
<1>1. Inv /\ Asked => HeldOrReplayable
  <2> SUFFICES ASSUME Inv, Asked PROVE HeldOrReplayable
    OBVIOUS
  <2>1. \A r \in broker.replays : r.inst = proc.inst \/ r.inst < proc.inst
    BY DEF Asked, Inv, Typed, BrokerState, Replay, Process
  <2> QED BY <2>1 DEF Inv, Exchange, Credential, Rotated, HeldOrReplayable,
                      SameFingerprint, Repeated
<1>2. Init => Asked
  BY DEF Init, Asked
<1>3. Inv /\ Asked /\ [Next]_vars => Asked'
  BY AskedInv
<1> QED BY <1>1, <1>2, <1>3, Invariance, PTL DEF Spec

\* One exchange at a time, and nothing on the wire ahead of the disk.
THEOREM OneWins ==
    ASSUME BoundsAssumption
    PROVE  Spec => []OneNetworkWinner
<1>1. Inv => OneNetworkWinner
  <2> SUFFICES ASSUME Inv PROVE OneNetworkWinner
    OBVIOUS
  <2>1. OneExchange
    <3> DEFINE S == {e \in Exchangers : proc.exch[e] # None}
    <3>1. \A x, y \in S : x = y
      <4>1. ASSUME NEW x \in S PROVE proc.cut.by = x
        <5>1. proc.cut = ConsumedCut(x, proc.exch[x])
          BY DEF Inv, Taken
        <5> QED BY <5>1 DEF ConsumedCut
      <4> QED BY <4>1
    <3>2. CASE S = {}
      BY <3>2, FS_EmptySet DEF OneExchange
    <3>3. CASE \E x : S = {x}
      BY <3>3, FS_Singleton DEF OneExchange
    <3> QED BY <3>1, <3>2, <3>3
  <2>2. WireNeverAheadOfDisk
    BY DEF Inv, Wire, WireNeverAheadOfDisk
  <2>3. RenewedMeansRenewed
    BY DEF Inv, Line, RenewedMeansRenewed
  <2> QED BY <2>1, <2>2, <2>3 DEF OneNetworkWinner
<1> QED BY <1>1, Invariance, PTL

\* Only Serve rotates the grant.
LEMMA OnlyServeRotates ==
    ASSUME BoundsAssumption, Inv, [Next]_vars, broker'.tok # broker.tok
    PROVE  \E q \in net.reqs : /\ ReplayOf(q) = {} /\ Accepts(q)
                               /\ broker.tok < MaxTok /\ broker' = Issue(q)
<1>1. broker \in BrokerState
  BY DEF Inv, Typed
<1>2. broker' # broker
  OBVIOUS
<1>3. CASE \E q \in net.reqs : Serve(q)
  BY <1>2, <1>3 DEF Serve
<1>4. CASE Lapse
  BY <1>1, <1>4 DEF Lapse, BrokerState
<1>5. CASE Revoke
  BY <1>1, <1>5 DEF Revoke, BrokerState
<1>6. CASE FinalizeAuthorization
  BY <1>1, <1>6 DEF FinalizeAuthorization, BrokerState
<1>7. CASE BrokerReauthenticates
  BY <1>1, <1>7 DEF BrokerReauthenticates, BrokerState
<1>8. CASE DashboardBootstrap \/ DashboardRefresh
  BY <1>2, <1>8 DEF DashboardBootstrap, DashboardRefresh
<1>9. CASE \E e \in Exchangers : Answer(e) \/ Timeout(e) \/ TooLate(e)
  BY <1>2, <1>9 DEF Answer, Timeout, TooLate, Expire
<1>10. CASE Lose \/ Warn \/ RetryFired \/ ReplayFired \/ AfterExchange
  BY <1>2, <1>10 DEF Lose, Warn, RetryFired, ReplayFired, AfterExchange
<1>11. CASE CaptureAdmission \/ ConsumeAdmission \/ ClaimAuthorization \/ HostRegistered
            \/ Acknowledged \/ Drop \/ Restart \/ UNCHANGED vars
  BY <1>2, <1>11 DEF CaptureAdmission, ConsumeAdmission, ClaimAuthorization, HostRegistered,
                     Acknowledged, Drop, Restart, vars
<1> QED BY <1>3, <1>4, <1>5, <1>6, <1>7, <1>8, <1>9, <1>10, <1>11 DEF Next

\* Every rotation of the grant is the one of the durable attempt, from the
\* token the host holds, and only the first comes from a bootstrap token.
THEOREM EveryRotationIsOwned ==
    ASSUME BoundsAssumption
    PROVE  Spec => RotationIsOwned
<1>1. Inv /\ [Next]_vars => [OwnedStep /\ IssuesOnceStep]_vars
  <2> SUFFICES ASSUME Inv, [Next]_vars PROVE OwnedStep /\ IssuesOnceStep
    OBVIOUS
  <2> SUFFICES ASSUME broker'.tok # broker.tok PROVE OwnedStep /\ IssuesOnceStep
    <3>1. broker.tok \in Int
      BY DEF Inv, Typed, BrokerState
    <3> QED BY <3>1 DEF OwnedStep, IssuesOnceStep
  <2>1. PICK q \in net.reqs : /\ ReplayOf(q) = {} /\ Accepts(q)
                              /\ broker.tok < MaxTok /\ broker' = Issue(q)
    BY OnlyServeRotates
  <2>2. PICK n : n = [kind |-> q.kind, id |-> q.id, old |-> q.old, inst |-> q.inst,
                      tok |-> broker.tok + 1]
    OBVIOUS
  <2>3. broker'.replays = broker.replays \cup {n}
    BY <2>1, <2>2, IssueView DEF Inv
  <2>4. n \notin broker.replays
    BY <2>1, <2>2 DEF ReplayOf
  <2>5. /\ Current(q) /\ disk # None /\ disk.pend = Pending
        /\ q.kind = "bootstrap" => broker.tok = 0
    BY <2>1, OnlyCurrentAccepted DEF Inv
  <2>6. q.kind \in Kind /\ broker.tok \in Int
    BY DEF Inv, Typed, Net, Request, Kind, BrokerState
  <2>7. OwnedStep
    BY <2>2, <2>3, <2>4, <2>5 DEF OwnedStep, Current
  <2>8. IssuesOnceStep
    BY <2>2, <2>3, <2>4, <2>5, <2>6 DEF IssuesOnceStep, Kind
  <2> QED BY <2>7, <2>8
<1> QED BY <1>1, Invariance, PTL DEF Spec, RotationIsOwned

=============================================================================
