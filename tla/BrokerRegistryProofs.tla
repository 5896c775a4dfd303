------------------------ MODULE BrokerRegistryProofs ------------------------
(***************************************************************************)
(* Proofs about the broker's registry and authorization fences             *)
(* (BrokerRegistry), for any carriers, clients, credentials, revocations,  *)
(* faults and restarts: one connector serves the host and the routes       *)
(* follow it, and a revoked credential never passes again.                 *)
(*                                                                         *)
(* The broker's operations are functions of its memory s, so the proofs    *)
(* are about such functions: what each does to the fields of s, and that   *)
(* it keeps a consistent memory consistent.                                *)
(***************************************************************************)
EXTENDS BrokerRegistry, TLAPS

-----------------------------------------------------------------------------
(* The types of the broker's memory.                                       *)

Reason == {None, "protocol_violation", "revoked", "access_expired", "disconnected",
           "duplicate_connector", "registration_busy", "registration_commit_race",
           "host_superseded", "delivery_failed", "credential_authority_unavailable"}

Carrier == [status : {"absent", "pending", "registering", "active", "closed"},
            cred : Cred \cup {None}, instance : Instances \cup {None}, base : Nat,
            previous : Carriers \cup {None}, close : Reason]

Client == [status : {"absent", "open", "fenced", "closed"},
           cred : Cred \cup {None}, carrier : Carriers \cup {None}]

Directory == [revision : Nat, state : {"unknown", "online", "offline"},
              connector : Carriers \cup {None}]

Broker == [carriers : [Carriers -> Carrier], clients : [Clients -> Client],
           active : Carriers \cup {None}, registering : Carriers \cup {None},
           directory : Directory,
           pending : SUBSET Invalidation, committed : SUBSET Invalidation,
           latched : BOOLEAN, capable : BOOLEAN]

Transit == [cred : Cred \cup {None}, current : Cred \cup {None}]

-----------------------------------------------------------------------------
(* A consistent memory.                                                    *)

\* The tables name the carriers by their status.
Tables(s) ==
    /\ \A t \in Carriers : s.carriers[t].status = "active" <=> t = s.active
    /\ \A t \in Carriers : s.carriers[t].status = "registering" <=> t = s.registering
    /\ s.directory.state = "online" <=> s.active # None
    /\ s.directory.connector = s.active

\* A registration whose base is still the directory's revision waits for the
\* connector there is: otherwise its commit would leave two.
Waits(s) ==
    \A t \in Carriers : t = s.registering =>
        /\ s.carriers[t].base <= s.directory.revision
        /\ s.carriers[t].base = s.directory.revision => s.carriers[t].previous = s.active

Routes(s) ==
    \A c \in Clients : s.clients[c].status \in {"open", "fenced"} =>
        s.clients[c].carrier = s.active /\ s.active # None

\* Whoever is connected has a credential, and not one of a committed fence.
Swept(s) ==
    /\ \A t \in Carriers : s.carriers[t].status \notin {"absent", "closed"} =>
         /\ s.carriers[t].cred \in Cred
         /\ \A inv \in s.committed :
              ~authMatchesLiveAuthorizationInvalidation(s.carriers[t].cred, inv)
    /\ \A c \in Clients : s.clients[c].status \in {"open", "fenced"} => s.clients[c].cred \in Cred
    /\ \A c \in Clients : s.clients[c].status = "open" =>
         \A inv \in s.committed :
              ~authMatchesLiveAuthorizationInvalidation(s.clients[c].cred, inv)

Good(s) == s \in Broker /\ Tables(s) /\ Waits(s) /\ Routes(s) /\ Swept(s)

-----------------------------------------------------------------------------
(* The authority's facts.                                                  *)

Dead(cred) == cred.grant \in authority.revoked \/ cred.kid \in authority.removed

\* A fence of the broker stops the credential.
Stopped(s, cred) == s.latched \/ liveAuthorizationInvalidationFor(s, cred) # {}

\* A credential that is not dead, or is stopped by a fence.
Known(cred) == cred = None \/ ~Dead(cred) \/ Stopped(b, cred)

\* Every dead credential the broker has or will be given is stopped.
Fenced ==
    /\ \A t \in Carriers : Known(b.carriers[t].cred)
    /\ \A c \in Clients : Known(b.clients[c].cred)
    /\ \A x \in Carriers \cup Clients : Known(transit[x].cred)

\* The fence of a mutation is installed before and until it is committed.
Announced == authority.mutation # None => authority.mutation \in b.pending

AuthorityType ==
    /\ authority \in [revoked : SUBSET Grants, removed : SUBSET Kids,
                      mutation : Invalidation \cup {None}, published : BOOLEAN,
                      withdrawn : BOOLEAN]
    /\ transit \in [Carriers \cup Clients -> Transit]
    /\ \A x \in Carriers \cup Clients : transit[x].current # None => transit[x].cred # None
    /\ now \in 0 .. MaxTime

Inv == Good(b) /\ AuthorityType /\ Fenced /\ Announced

-----------------------------------------------------------------------------
(* What the operations do to the fields of the memory.                     *)

LEMMA BrokerFields ==
    ASSUME NEW s \in Broker
    PROVE  /\ s.carriers \in [Carriers -> Carrier] /\ s.clients \in [Clients -> Client]
           /\ s.active \in Carriers \cup {None} /\ s.registering \in Carriers \cup {None}
           /\ s.directory \in Directory
           /\ s.pending \subseteq Invalidation /\ s.committed \subseteq Invalidation
BY DEF Broker

\* A carrier leaves the maps.
LEMMA DiscardView ==
    ASSUME NEW s \in Broker, NEW t \in Carriers, NEW reason \in Reason
    PROVE  LET n == discardCarrier(s, t, reason)
           IN  /\ n \in Broker
               /\ n.carriers[t].status = "closed" /\ n.carriers[t].cred = s.carriers[t].cred
               /\ \A x \in Carriers \ {t} : n.carriers[x] = s.carriers[x]
               /\ n.registering = IF s.registering = t THEN None ELSE s.registering
               /\ n.clients = s.clients /\ n.active = s.active /\ n.directory = s.directory
               /\ n.pending = s.pending /\ n.committed = s.committed
               /\ n.latched = s.latched /\ n.capable = s.capable
<1> DEFINE n == discardCarrier(s, t, reason)
           r == [s.carriers[t] EXCEPT !.status = "closed", !.close = reason,
                                      !.previous = None, !.base = 0]
<1>1. /\ n.clients = s.clients /\ n.active = s.active /\ n.directory = s.directory
      /\ n.pending = s.pending /\ n.committed = s.committed
      /\ n.latched = s.latched /\ n.capable = s.capable
  BY DEF discardCarrier, Broker
<1>2. n.registering = IF s.registering = t THEN None ELSE s.registering
  BY DEF discardCarrier, Broker
<1>3. n.carriers = [s.carriers EXCEPT ![t] = r]
  BY DEF discardCarrier, Broker, Carrier
<1>4. s.carriers[t] \in Carrier
  BY BrokerFields
<1>5. r \in Carrier /\ r.status = "closed" /\ r.cred = s.carriers[t].cred
  BY <1>4 DEF Carrier
<1> HIDE DEF r
<1>6. /\ n.carriers \in [Carriers -> Carrier] /\ n.carriers[t] = r
      /\ \A x \in Carriers \ {t} : n.carriers[x] = s.carriers[x]
  BY <1>3, <1>5, BrokerFields
<1>7. n \in Broker
  BY <1>1, <1>2, <1>6, BrokerFields DEF discardCarrier, Broker
<1> QED BY <1>1, <1>2, <1>5, <1>6, <1>7

\* The connector goes offline.
LEMMA OfflineView ==
    ASSUME NEW s \in Broker, NEW t \in Carriers, s.active = t
    PROVE  LET n == GoesOffline(s, t)
           IN  /\ n \in Broker
               /\ n.active = None /\ n.directory.state = "offline" /\ n.directory.connector = None
               /\ n.directory.revision = s.directory.revision + 1
               /\ \A c \in Clients : /\ n.clients[c].cred = s.clients[c].cred
                                     /\ IF s.clients[c].carrier = t
                                        THEN n.clients[c].status = "closed"
                                        ELSE n.clients[c] = s.clients[c]
               /\ n.carriers = s.carriers /\ n.registering = s.registering
               /\ n.pending = s.pending /\ n.committed = s.committed
               /\ n.latched = s.latched /\ n.capable = s.capable
<1> DEFINE n == GoesOffline(s, t)
           d == [revision |-> s.directory.revision + 1, state |-> "offline", connector |-> None]
           m == [c \in Clients |->
                   IF s.clients[c].carrier = t
                   THEN [s.clients[c] EXCEPT !.status = "closed", !.carrier = None]
                   ELSE s.clients[c]]
<1>1. d \in Directory
  BY BrokerFields DEF Directory
<1>2. \A c \in Clients : s.clients[c] \in Client
  BY BrokerFields
<1>3. /\ m \in [Clients -> Client]
      /\ \A c \in Clients : /\ m[c].cred = s.clients[c].cred
                            /\ IF s.clients[c].carrier = t
                               THEN m[c].status = "closed" ELSE m[c] = s.clients[c]
  BY <1>2 DEF Client
<1>4. n = [s EXCEPT !.active = None, !.directory = d, !.clients = m]
  BY DEF GoesOffline, invalidateConnectorRoutes, publishDirectory, Broker
<1> HIDE DEF d, m
<1>5. n \in Broker
  BY <1>1, <1>3, <1>4 DEF Broker
<1>6. /\ n.carriers = s.carriers /\ n.registering = s.registering
      /\ n.pending = s.pending /\ n.committed = s.committed
      /\ n.latched = s.latched /\ n.capable = s.capable
      /\ n.active = None /\ n.clients = m /\ n.directory = d
  BY <1>4 DEF Broker
<1> QED BY <1>3, <1>5, <1>6 DEF d

-----------------------------------------------------------------------------
(* The operations keep a consistent memory consistent.                     *)

\* The step keeps the memory consistent and leaves credentials and fences alone.
Keeps(s, n) ==
    /\ Good(n)
    /\ \A t \in Carriers : n.carriers[t].cred = s.carriers[t].cred
    /\ \A c \in Clients : n.clients[c].cred = s.clients[c].cred
    /\ n.pending = s.pending /\ n.committed = s.committed /\ n.latched = s.latched

LEMMA KeepsTrans ==
    ASSUME NEW r, NEW s, NEW n, Keeps(r, s), Keeps(s, n)
    PROVE  Keeps(r, n)
BY DEF Keeps

LEMMA DiscardKeeps ==
    ASSUME BrokerAssumption, NEW s, Good(s), NEW t \in Carriers, t # s.active,
           NEW reason \in Reason
    PROVE  LET n == discardCarrier(s, t, reason)
           IN  /\ Keeps(s, n) /\ n.carriers[t].status = "closed"
               /\ n.active = s.active /\ n.registering # t
<1> DEFINE n == discardCarrier(s, t, reason)
<1>1. /\ n \in Broker /\ s \in Broker
      /\ n.carriers[t].status = "closed" /\ n.carriers[t].cred = s.carriers[t].cred
      /\ \A x \in Carriers \ {t} : n.carriers[x] = s.carriers[x]
      /\ n.registering = IF s.registering = t THEN None ELSE s.registering
      /\ n.clients = s.clients /\ n.active = s.active /\ n.directory = s.directory
      /\ n.pending = s.pending /\ n.committed = s.committed
      /\ n.latched = s.latched /\ n.capable = s.capable
  BY DiscardView DEF Good
<1> HIDE DEF n
<1>2. None \notin Carriers
  BY DEF BrokerAssumption
<1>3. Tables(n)
  BY <1>1, <1>2 DEF Good, Tables
<1>4. Waits(n)
  BY <1>1, <1>2 DEF Good, Waits
<1>5. Routes(n)
  BY <1>1 DEF Good, Routes
<1>6. Swept(n)
  BY <1>1 DEF Good, Swept
<1> QED BY <1>1, <1>2, <1>3, <1>4, <1>5, <1>6 DEF Keeps, Good, n

\* fenceHostAuthorization and protocolViolation: the carrier goes, and with it
\* the directory entry and the routes if it was the connector.
LEMMA FenceKeeps ==
    ASSUME BrokerAssumption, NEW s, Good(s), NEW t \in Carriers, NEW reason \in Reason
    PROVE  LET n == discardCarrier(GoesOffline(s, t), t, reason)
           IN  /\ Keeps(s, n) /\ n.carriers[t].status = "closed"
               /\ n.active = IF s.active = t THEN None ELSE s.active
               /\ n.registering # t
<1>1. CASE s.active # t
  <2>1. GoesOffline(s, t) = s
    BY <1>1 DEF GoesOffline
  <2> QED BY <1>1, <2>1, DiscardKeeps
<1>2. CASE s.active = t
  <2> DEFINE o == GoesOffline(s, t)
             n == discardCarrier(o, t, reason)
  <2>1. /\ o \in Broker /\ s \in Broker
        /\ o.active = None /\ o.directory.state = "offline" /\ o.directory.connector = None
        /\ o.directory.revision = s.directory.revision + 1
        /\ \A c \in Clients : /\ o.clients[c].cred = s.clients[c].cred
                              /\ IF s.clients[c].carrier = t
                                 THEN o.clients[c].status = "closed"
                                 ELSE o.clients[c] = s.clients[c]
        /\ o.carriers = s.carriers /\ o.registering = s.registering
        /\ o.pending = s.pending /\ o.committed = s.committed
        /\ o.latched = s.latched /\ o.capable = s.capable
    BY <1>2, OfflineView DEF Good
  <2> HIDE DEF o
  <2>2. /\ n \in Broker
        /\ n.carriers[t].status = "closed" /\ n.carriers[t].cred = s.carriers[t].cred
        /\ \A x \in Carriers \ {t} : n.carriers[x] = s.carriers[x]
        /\ n.registering = IF s.registering = t THEN None ELSE s.registering
        /\ n.clients = o.clients /\ n.active = None /\ n.directory = o.directory
        /\ n.pending = s.pending /\ n.committed = s.committed
        /\ n.latched = s.latched /\ n.capable = s.capable
    BY <2>1, DiscardView
  <2> HIDE DEF n
  <2>3. None \notin Carriers /\ s.directory.revision \in Nat
    BY <2>1, BrokerFields DEF BrokerAssumption, Directory
  <2>4. Tables(n)
    BY <1>2, <2>1, <2>2, <2>3 DEF Good, Tables
  <2>5. Waits(n)
    <3> SUFFICES ASSUME NEW x \in Carriers, x = n.registering
                 PROVE  n.carriers[x].base < n.directory.revision
      BY <2>1, <2>2, <2>3, BrokerFields DEF Waits, Carrier, Directory
    <3>1. x # t /\ x = s.registering /\ n.carriers[x] = s.carriers[x]
      BY <2>2, <2>3
    <3>2. s.carriers[x].base \in Nat
      BY <2>1, BrokerFields DEF Carrier
    <3> QED BY <2>1, <2>2, <2>3, <3>1, <3>2 DEF Good, Waits
  <2>6. Routes(n)
    BY <1>2, <2>1, <2>2 DEF Good, Routes
  <2>7. Swept(n)
    BY <1>2, <2>1, <2>2 DEF Good, Swept
  <2>8. Keeps(s, n)
    BY <2>1, <2>2, <2>4, <2>5, <2>6, <2>7 DEF Keeps, Good
  <2> QED BY <1>2, <2>2, <2>3, <2>8 DEF n, o
<1> QED BY <1>1, <1>2

LEMMA DisconnectKeeps ==
    ASSUME BrokerAssumption, NEW s, Good(s), NEW t \in Carriers
    PROVE  Keeps(s, disconnectHost(s, t))
<1>1. "disconnected" \in Reason
  BY DEF Reason
<1>2. CASE s.active # t
  <2>1. disconnectHost(s, t) = discardCarrier(GoesOffline(s, t), t, "disconnected")
    BY <1>2 DEF disconnectHost
  <2> QED BY <1>1, <2>1, FenceKeeps
<1>3. CASE s.active = t
  <2> DEFINE o == GoesOffline(s, t)
             q == Rebased(o, t)
             n == discardCarrier(q, t, "disconnected")
  <2>1. /\ o \in Broker /\ s \in Broker
        /\ o.active = None /\ o.directory.state = "offline" /\ o.directory.connector = None
        /\ o.directory.revision = s.directory.revision + 1
        /\ \A c \in Clients : /\ o.clients[c].cred = s.clients[c].cred
                              /\ IF s.clients[c].carrier = t
                                 THEN o.clients[c].status = "closed"
                                 ELSE o.clients[c] = s.clients[c]
        /\ o.carriers = s.carriers /\ o.registering = s.registering
        /\ o.pending = s.pending /\ o.committed = s.committed
        /\ o.latched = s.latched /\ o.capable = s.capable
    BY <1>3, OfflineView DEF Good
  <2> HIDE DEF o
  <2>2. None \notin Carriers /\ s.directory.revision \in Nat /\ o.directory.revision \in Nat
    BY <2>1, BrokerFields DEF BrokerAssumption, Directory
  <2>3. /\ q \in Broker
        /\ q.active = o.active /\ q.directory = o.directory /\ q.clients = o.clients
        /\ q.registering = o.registering /\ q.pending = o.pending /\ q.committed = o.committed
        /\ q.latched = o.latched
        /\ \A x \in Carriers :
             /\ q.carriers[x].status = o.carriers[x].status
             /\ q.carriers[x].cred = o.carriers[x].cred
             /\ \/ q.carriers[x] = o.carriers[x]
                \/ /\ x = o.registering /\ q.carriers[x].previous = None
                   /\ q.carriers[x].base = o.directory.revision
    <3>1. CASE o.registering # None /\ o.carriers[o.registering].previous = t
      <4> DEFINE g == o.registering
                 r == [o.carriers[g] EXCEPT !.previous = None, !.base = o.directory.revision]
      <4>1. g \in Carriers /\ o.carriers[g] \in Carrier
        BY <2>1, <3>1, BrokerFields
      <4>2. q = [o EXCEPT !.carriers = [o.carriers EXCEPT ![g] = r]]
        BY <2>1, <3>1, <4>1 DEF Rebased, Broker, Carrier
      <4>3. /\ r \in Carrier /\ r.previous = None /\ r.base = o.directory.revision
            /\ r.status = o.carriers[g].status /\ r.cred = o.carriers[g].cred
        BY <2>2, <4>1 DEF Carrier
      <4> HIDE DEF r
      <4>4. [o.carriers EXCEPT ![g] = r] \in [Carriers -> Carrier]
        BY <2>1, <4>1, <4>3, BrokerFields
      <4>5. q \in Broker
        BY <2>1, <4>2, <4>4 DEF Broker
      <4>6. /\ q.carriers = [o.carriers EXCEPT ![g] = r]
            /\ q.active = o.active /\ q.directory = o.directory /\ q.clients = o.clients
            /\ q.registering = o.registering /\ q.pending = o.pending
            /\ q.committed = o.committed /\ q.latched = o.latched
        BY <2>1, <4>2 DEF Broker
      <4>7. \A x \in Carriers : q.carriers[x] = IF x = g THEN r ELSE o.carriers[x]
        BY <2>1, <4>1, <4>6, BrokerFields
      <4> QED BY <4>3, <4>5, <4>6, <4>7
    <3>2. CASE ~(o.registering # None /\ o.carriers[o.registering].previous = t)
      BY <2>1, <3>2 DEF Rebased
    <3> QED BY <3>1, <3>2
  <2> HIDE DEF q
  <2>4. /\ n \in Broker
        /\ n.carriers[t].status = "closed" /\ n.carriers[t].cred = s.carriers[t].cred
        /\ \A x \in Carriers \ {t} : n.carriers[x] = q.carriers[x]
        /\ n.registering = IF s.registering = t THEN None ELSE s.registering
        /\ n.clients = o.clients /\ n.active = None /\ n.directory = o.directory
        /\ n.pending = s.pending /\ n.committed = s.committed
        /\ n.latched = s.latched
    BY <1>1, <2>1, <2>3, DiscardView
  <2> HIDE DEF n
  <2>5. Tables(n)
    BY <1>3, <2>1, <2>2, <2>3, <2>4 DEF Good, Tables
  <2>6. Waits(n)
    <3> SUFFICES ASSUME NEW x \in Carriers, x = n.registering
                 PROVE  \/ n.carriers[x].base < n.directory.revision
                        \/ /\ n.carriers[x].base = n.directory.revision
                           /\ n.carriers[x].previous = None
      BY <2>1, <2>2, <2>4, BrokerFields DEF Waits, Carrier, Directory
    <3>1. x # t /\ x = s.registering /\ n.carriers[x] = q.carriers[x]
      BY <2>2, <2>4
    <3>2. CASE q.carriers[x] = o.carriers[x]
      <4>1. s.carriers[x].base \in Nat /\ s.carriers[x].base <= s.directory.revision
        BY <2>1, <3>1, BrokerFields DEF Good, Waits, Carrier
      <4> QED BY <2>1, <2>2, <2>4, <3>1, <3>2, <4>1
    <3>3. CASE q.carriers[x].previous = None /\ q.carriers[x].base = o.directory.revision
      BY <2>4, <3>1, <3>3
    <3> QED BY <2>3, <3>2, <3>3
  <2>7. Routes(n)
    BY <1>3, <2>1, <2>4 DEF Good, Routes
  <2>8. Swept(n)
    BY <1>3, <2>1, <2>3, <2>4 DEF Good, Swept
  <2>9. Keeps(s, n)
    BY <2>1, <2>3, <2>4, <2>5, <2>6, <2>7, <2>8 DEF Keeps, Good
  <2>10. n = disconnectHost(s, t)
    BY <1>3 DEF n, q, o, disconnectHost
  <2> QED BY <2>9, <2>10
<1> QED BY <1>2, <1>3

\* A client is changed to a status in which its route is closing or closed.
LEMMA ClientView ==
    ASSUME NEW s \in Broker, NEW c \in Clients, NEW k \in Client
    PROVE  LET n == [s EXCEPT !.clients = [s.clients EXCEPT ![c] = k]]
           IN  /\ n \in Broker
               /\ n.clients[c] = k /\ \A x \in Clients \ {c} : n.clients[x] = s.clients[x]
               /\ n.carriers = s.carriers /\ n.registering = s.registering
               /\ n.active = s.active /\ n.directory = s.directory
               /\ n.pending = s.pending /\ n.committed = s.committed
               /\ n.latched = s.latched
<1> DEFINE m == [s.clients EXCEPT ![c] = k]
<1>1. /\ m \in [Clients -> Client] /\ m[c] = k
      /\ \A x \in Clients \ {c} : m[x] = s.clients[x]
  BY BrokerFields
<1> HIDE DEF m
<1>2. [s EXCEPT !.clients = m] \in Broker
  BY <1>1 DEF Broker
<1> QED BY <1>1, <1>2 DEF Broker, m

LEMMA FenceClientKeeps ==
    ASSUME BrokerAssumption, NEW s, Good(s), NEW c \in Clients,
           s.clients[c].status \in {"open", "fenced"}
    PROVE  LET n == fenceClientAuthorization(s, c)
           IN  Keeps(s, n) /\ n.clients[c].status = "fenced" /\ n.active = s.active
<1> DEFINE k == [s.clients[c] EXCEPT !.status = "fenced"]
           n == fenceClientAuthorization(s, c)
<1>1. s \in Broker /\ s.clients[c] \in Client
  BY BrokerFields DEF Good
<1>2. /\ k \in Client /\ k.status = "fenced" /\ k.cred = s.clients[c].cred
      /\ k.carrier = s.clients[c].carrier
  BY <1>1 DEF Client
<1>3. n = [s EXCEPT !.clients = [s.clients EXCEPT ![c] = k]]
  BY <1>1 DEF fenceClientAuthorization, Broker, Client
<1> HIDE DEF k, n
<1>4. /\ n \in Broker
      /\ n.clients[c] = k /\ \A x \in Clients \ {c} : n.clients[x] = s.clients[x]
      /\ n.carriers = s.carriers /\ n.registering = s.registering
      /\ n.active = s.active /\ n.directory = s.directory
      /\ n.pending = s.pending /\ n.committed = s.committed
      /\ n.latched = s.latched
  BY <1>1, <1>2, <1>3, ClientView
<1>5. Tables(n) /\ Waits(n)
  BY <1>4 DEF Good, Tables, Waits
<1>6. Routes(n)
  BY <1>2, <1>4 DEF Good, Routes
<1>7. Swept(n)
  BY <1>2, <1>4 DEF Good, Swept
<1> QED BY <1>2, <1>4, <1>5, <1>6, <1>7 DEF Keeps, Good, n

\* A client leaves the maps, or is refused.
LEMMA CloseClientKeeps ==
    ASSUME BrokerAssumption, NEW s, Good(s), NEW c \in Clients, NEW k \in Client,
           k.status = "closed", k.cred = s.clients[c].cred
    PROVE  Keeps(s, [s EXCEPT !.clients = [s.clients EXCEPT ![c] = k]])
<1> DEFINE n == [s EXCEPT !.clients = [s.clients EXCEPT ![c] = k]]
<1>1. /\ s \in Broker /\ n \in Broker
      /\ n.clients[c] = k /\ \A x \in Clients \ {c} : n.clients[x] = s.clients[x]
      /\ n.carriers = s.carriers /\ n.registering = s.registering
      /\ n.active = s.active /\ n.directory = s.directory
      /\ n.pending = s.pending /\ n.committed = s.committed
      /\ n.latched = s.latched
  BY ClientView DEF Good
<1> HIDE DEF n
<1>2. Tables(n) /\ Waits(n)
  BY <1>1 DEF Good, Tables, Waits
<1>3. Routes(n) /\ Swept(n)
  BY <1>1 DEF Good, Routes, Swept
<1> QED BY <1>1, <1>2, <1>3 DEF Keeps, Good, n

LEMMA SameKeeps ==
    ASSUME NEW s, Good(s) PROVE Keeps(s, s)
BY DEF Keeps

\* The checks of the two ends.
LEMMA CarrierCheck ==
    ASSUME BrokerAssumption, NEW s, Good(s), NEW t \in Carriers
    PROVE  LET n == isCarrierAuthorizationActive(s, t)
           IN  /\ Keeps(s, n)
               /\ \/ n = s
                  \/ /\ n.carriers[t].status = "closed"
                     /\ n.active = IF s.active = t THEN None ELSE s.active
<1>1. "access_expired" \in Reason /\ "revoked" \in Reason
  BY DEF Reason
<1>2. CASE isCarrierAuthorizationActive(s, t) = s
  BY <1>2, SameKeeps
<1>3. CASE \E reason \in Reason :
             isCarrierAuthorizationActive(s, t) = discardCarrier(GoesOffline(s, t), t, reason)
  BY <1>3, FenceKeeps
<1> QED BY <1>1, <1>2, <1>3 DEF isCarrierAuthorizationActive, fenceHostAuthorization

LEMMA ClientCheck ==
    ASSUME BrokerAssumption, NEW s, Good(s), NEW c \in Clients,
           s.clients[c].status \in {"open", "fenced"}
    PROVE  LET n == isClientAuthorizationActive(s, c)
           IN  Keeps(s, n) /\ n.active = s.active /\ (n = s \/ n.clients[c].status = "fenced")
BY SameKeeps, FenceClientKeeps DEF isClientAuthorizationActive

-----------------------------------------------------------------------------
(* What keeps the whole invariant.                                         *)

\* The fences hold, and every credential in sight was in sight or is not dead.
LEMMA FencesHold ==
    ASSUME Good(b'), AuthorityType', Announced',
           authority'.revoked = authority.revoked, authority'.removed = authority.removed,
           \/ b'.latched
           \/ /\ ~b.latched
              /\ b.pending \cup b.committed \subseteq b'.pending \cup b'.committed,
           \A t \in Carriers : Known(b'.carriers[t].cred),
           \A c \in Clients : Known(b'.clients[c].cred),
           \A x \in Carriers \cup Clients : Known(transit'[x].cred)
    PROVE  Inv'
<1>1. ASSUME NEW cred, Known(cred)
      PROVE  cred = None \/ ~(cred.grant \in authority'.revoked \/ cred.kid \in authority'.removed)
             \/ b'.latched \/ liveAuthorizationInvalidationFor(b', cred) # {}
  BY <1>1 DEF Known, Dead, Stopped, liveAuthorizationInvalidationFor
<1>2. Fenced'
  BY <1>1 DEF Fenced, Known, Dead, Stopped
<1> QED BY <1>2 DEF Inv

LEMMA FencesStay ==
    ASSUME Inv, Good(b'), AuthorityType', UNCHANGED authority,
           b'.pending = b.pending, b'.committed = b.committed, b'.latched = b.latched,
           \A t \in Carriers : Known(b'.carriers[t].cred),
           \A c \in Clients : Known(b'.clients[c].cred),
           \A x \in Carriers \cup Clients : Known(transit'[x].cred)
    PROVE  Inv'
<1>1. Announced'
  BY DEF Inv, Announced
<1> QED BY <1>1, FencesHold

\* A step on the broker's memory alone; it may drop what was in transit.
LEMMA KeepsInv ==
    ASSUME Inv, Keeps(b, b'), UNCHANGED <<authority, now>>,
           \/ UNCHANGED transit
           \/ \E x \in Carriers \cup Clients : transit' = [transit EXCEPT ![x] = NoTransit]
    PROVE  Inv'
<1>1. Good(b') /\ b'.pending = b.pending /\ b'.committed = b.committed /\ b'.latched = b.latched
  BY DEF Keeps
<1>2. NoTransit \in Transit /\ NoTransit.cred = None /\ NoTransit.current = None
  BY DEF NoTransit, Transit
<1>3. /\ transit' \in [Carriers \cup Clients -> Transit]
      /\ \A x \in Carriers \cup Clients : transit'[x] = transit[x] \/ transit'[x] = NoTransit
  BY <1>2 DEF Inv, AuthorityType
<1>4. AuthorityType'
  BY <1>2, <1>3 DEF Inv, AuthorityType
<1>5. /\ \A t \in Carriers : Known(b'.carriers[t].cred)
      /\ \A c \in Clients : Known(b'.clients[c].cred)
  BY DEF Inv, Fenced, Keeps
<1>6. \A x \in Carriers \cup Clients : Known(transit'[x].cred)
  BY <1>2, <1>3 DEF Inv, Fenced, Known
<1> QED BY <1>1, <1>4, <1>5, <1>6, FencesStay

LEMMA Unmoved ==
    ASSUME Inv, UNCHANGED <<b, authority, transit>>, now' \in 0 .. MaxTime
    PROVE  Inv'
<1>1. Good(b') /\ AuthorityType'
  BY DEF Inv, AuthorityType
<1> QED BY <1>1, FencesStay DEF Inv, Fenced

-----------------------------------------------------------------------------
(* The actions.                                                            *)

LEMMA VerifyStep ==
    ASSUME BrokerAssumption, Inv, NEW x \in Carriers \cup Clients, NEW cred \in Cred,
           authorizeAccessToken(x, cred), UNCHANGED <<b, authority, now, budget>>
    PROVE  Inv'
<1> DEFINE r == [transit[x] EXCEPT !.cred = cred]
<1>1. transit[x] \in Transit /\ transit \in [Carriers \cup Clients -> Transit]
  BY DEF Inv, AuthorityType
<1>2. transit' = [transit EXCEPT ![x] = r]
  BY <1>1 DEF authorizeAccessToken
<1>3. r \in Transit /\ r.cred = cred
  BY <1>1 DEF Transit
<1>4. ~Dead(cred)
  BY DEF authorizeAccessToken, Dead
<1> HIDE DEF r
<1>5. /\ transit' \in [Carriers \cup Clients -> Transit]
      /\ \A y \in Carriers \cup Clients : transit'[y] = IF y = x THEN r ELSE transit[y]
  BY <1>1, <1>2, <1>3
<1>6. cred # None
  BY DEF BrokerAssumption
<1>7. AuthorityType' /\ Good(b')
  BY <1>3, <1>5, <1>6 DEF Inv, AuthorityType
<1>8. \A y \in Carriers \cup Clients : Known(transit'[y].cred)
  BY <1>3, <1>4, <1>5 DEF Inv, Fenced, Known
<1> QED BY <1>7, <1>8, FencesStay DEF Inv, Fenced

LEMMA ReauthenticateStep ==
    ASSUME BrokerAssumption, Inv, NEW t \in Carriers, NEW next \in Cred, reauthenticateHost(t, next)
    PROVE  Inv'
<1> DEFINE r == [cred |-> next, current |-> b.carriers[t].cred]
<1>1. transit \in [Carriers \cup Clients -> Transit]
  BY DEF Inv, AuthorityType
<1>2. b.carriers[t] \in Carrier
  BY BrokerFields DEF Inv, Good
<1>3. r \in Transit /\ r.cred = next /\ next # None
  BY <1>2 DEF Transit, Carrier, BrokerAssumption
<1>4. ~Dead(next)
  BY DEF reauthenticateHost, Dead, BrokerAssumption, Inv, AuthorityType
<1> HIDE DEF r
<1>5. /\ transit' \in [Carriers \cup Clients -> Transit]
      /\ \A y \in Carriers \cup Clients : transit'[y] = IF y = t THEN r ELSE transit[y]
  BY <1>1, <1>3 DEF reauthenticateHost, r
<1>6. AuthorityType' /\ Good(b')
  BY <1>3, <1>5 DEF Inv, AuthorityType, reauthenticateHost
<1>7. \A y \in Carriers \cup Clients : Known(transit'[y].cred)
  BY <1>3, <1>4, <1>5 DEF Inv, Fenced, Known
<1> QED BY <1>6, <1>7, FencesStay DEF Inv, Fenced, reauthenticateHost

\* What was in transit arrives.
LEMMA DropTransit ==
    ASSUME Inv, NEW x \in Carriers \cup Clients, UNCHANGED <<authority, now>>,
           transit' = [transit EXCEPT ![x] = NoTransit]
    PROVE  AuthorityType' /\ \A y \in Carriers \cup Clients : Known(transit'[y].cred)
<1>1. NoTransit \in Transit /\ NoTransit.cred = None /\ NoTransit.current = None
  BY DEF NoTransit, Transit
<1>2. /\ transit' \in [Carriers \cup Clients -> Transit]
      /\ \A y \in Carriers \cup Clients : transit'[y] = IF y = x THEN NoTransit ELSE transit[y]
  BY <1>1 DEF Inv, AuthorityType
<1>3. AuthorityType'
  BY <1>1, <1>2 DEF Inv, AuthorityType
<1> QED BY <1>1, <1>2, <1>3 DEF Inv, Fenced, Known

\* One carrier's record is changed.
LEMMA CarrierView ==
    ASSUME NEW s \in Broker, NEW t \in Carriers, NEW r \in Carrier
    PROVE  LET n == [s EXCEPT !.carriers = [s.carriers EXCEPT ![t] = r]]
           IN  /\ n \in Broker
               /\ n.carriers[t] = r /\ \A x \in Carriers \ {t} : n.carriers[x] = s.carriers[x]
               /\ n.clients = s.clients /\ n.registering = s.registering
               /\ n.active = s.active /\ n.directory = s.directory
               /\ n.pending = s.pending /\ n.committed = s.committed
               /\ n.latched = s.latched
<1> DEFINE m == [s.carriers EXCEPT ![t] = r]
<1>1. /\ m \in [Carriers -> Carrier] /\ m[t] = r
      /\ \A x \in Carriers \ {t} : m[x] = s.carriers[x]
  BY BrokerFields
<1> HIDE DEF m
<1>2. [s EXCEPT !.carriers = m] \in Broker
  BY <1>1 DEF Broker
<1> QED BY <1>1, <1>2 DEF Broker, m

\* A carrier comes, is refused or gets another credential, and the tables that
\* name it stay as they are.
LEMMA CarrierGood ==
    ASSUME BrokerAssumption, NEW s, Good(s), NEW t \in Carriers, NEW r \in Carrier,
           \/ /\ s.carriers[t].status = "absent" /\ r.status \in {"pending", "closed"}
           \/ /\ s.carriers[t].status = "active" /\ r.status = "active",
           r.status # "closed" =>
              /\ r.cred \in Cred
              /\ \A inv \in s.committed : ~authMatchesLiveAuthorizationInvalidation(r.cred, inv)
    PROVE  Good([s EXCEPT !.carriers = [s.carriers EXCEPT ![t] = r]])
<1> DEFINE n == [s EXCEPT !.carriers = [s.carriers EXCEPT ![t] = r]]
<1>1. /\ s \in Broker /\ n \in Broker
      /\ n.carriers[t] = r /\ \A x \in Carriers \ {t} : n.carriers[x] = s.carriers[x]
      /\ n.clients = s.clients /\ n.registering = s.registering
      /\ n.active = s.active /\ n.directory = s.directory
      /\ n.pending = s.pending /\ n.committed = s.committed
      /\ n.latched = s.latched
  BY CarrierView DEF Good
<1> HIDE DEF n
<1>2. Tables(n)
  BY <1>1 DEF Good, Tables
<1>3. Waits(n)
  BY <1>1 DEF Good, Waits, Tables
<1>4. Routes(n) /\ Swept(n)
  BY <1>1 DEF Good, Routes, Swept
<1> QED BY <1>1, <1>2, <1>3, <1>4 DEF Good, n

LEMMA AttachStep ==
    ASSUME BrokerAssumption, Inv, NEW t \in Carriers, attachHostCarrier(t)
    PROVE  Inv'
<1> DEFINE r == IF admitNewConnectionAuthorization(b, transit[t].cred)
                THEN [b.carriers[t] EXCEPT !.status = "pending", !.cred = transit[t].cred]
                ELSE [b.carriers[t] EXCEPT !.status = "closed"]
<1>1. /\ b \in Broker /\ b.carriers[t] \in Carrier /\ transit[t] \in Transit
      /\ b.carriers[t].status = "absent" /\ transit[t].cred \in Cred
      /\ transit \in [Carriers \cup Clients -> Transit]
  BY BrokerFields DEF Inv, Good, AuthorityType, Transit, attachHostCarrier
<1>2. b' = [b EXCEPT !.carriers = [b.carriers EXCEPT ![t] = r]]
  BY <1>1 DEF attachHostCarrier, Broker, Carrier
<1>3. /\ r \in Carrier /\ r.status \in {"pending", "closed"}
      /\ r.cred = b.carriers[t].cred \/ r.cred = transit[t].cred
      /\ r.status # "closed" => /\ r.cred = transit[t].cred
                                /\ liveAuthorizationInvalidationFor(b, r.cred) = {}
  BY <1>1 DEF Carrier, admitNewConnectionAuthorization
<1>4. r.status # "closed" =>
        \A inv \in b.committed : ~authMatchesLiveAuthorizationInvalidation(r.cred, inv)
  BY <1>3 DEF liveAuthorizationInvalidationFor
<1> HIDE DEF r
<1>5. Good(b')
  BY <1>1, <1>2, <1>3, <1>4, CarrierGood DEF Inv
<1>6. /\ b'.carriers[t] = r /\ \A x \in Carriers \ {t} : b'.carriers[x] = b.carriers[x]
      /\ b'.clients = b.clients
      /\ b'.pending = b.pending /\ b'.committed = b.committed /\ b'.latched = b.latched
  BY <1>1, <1>2, <1>3, CarrierView
<1>7. /\ AuthorityType' /\ UNCHANGED authority
      /\ \A x \in Carriers \cup Clients : Known(transit'[x].cred)
  BY DropTransit DEF attachHostCarrier
<1>8. /\ \A x \in Carriers : Known(b'.carriers[x].cred)
      /\ \A c \in Clients : Known(b'.clients[c].cred)
  BY <1>3, <1>6 DEF Inv, Fenced
<1> QED BY <1>5, <1>6, <1>7, <1>8, FencesStay

LEMMA OpenStep ==
    ASSUME BrokerAssumption, Inv, NEW c \in Clients, openClientRoute(c)
    PROVE  Inv'
<1> DEFINE s == IF b.active = None THEN b ELSE isCarrierAuthorizationActive(b, b.active)
           served == s.active # None /\ Passes(s, s.carriers[s.active])
<1>1. /\ b \in Broker /\ transit[c] \in Transit /\ transit[c].cred \in Cred
      /\ b.active \in Carriers \cup {None}
  BY BrokerFields DEF Inv, Good, AuthorityType, Transit, openClientRoute
<1>2. Keeps(b, s)
  BY <1>1, CarrierCheck, SameKeeps DEF Inv
<1>3. /\ s \in Broker /\ s.clients[c] \in Client /\ s.active \in Carriers \cup {None}
      /\ s.committed = b.committed /\ s.pending = b.pending /\ s.latched = b.latched
      /\ Good(s)
  BY <1>2, BrokerFields DEF Keeps, Good
<1>4. b' = IF admitNewConnectionAuthorization(b, transit[c].cred) /\ served
           THEN [s EXCEPT !.clients[c] =
                   [status |-> "open", cred |-> transit[c].cred, carrier |-> s.active]]
           ELSE [s EXCEPT !.clients[c].status = "closed"]
  BY DEF openClientRoute
<1> HIDE DEF s
<1>5. /\ AuthorityType' /\ UNCHANGED <<authority, now>>
      /\ \A x \in Carriers \cup Clients : Known(transit'[x].cred)
      /\ transit' = [transit EXCEPT ![c] = NoTransit]
  BY DropTransit DEF openClientRoute
<1>6. CASE admitNewConnectionAuthorization(b, transit[c].cred) /\ served
  <2> DEFINE k == [status |-> "open", cred |-> transit[c].cred, carrier |-> s.active]
  <2>1. /\ k \in Client /\ k.status = "open" /\ k.cred = transit[c].cred
        /\ k.carrier = s.active /\ s.active # None
    BY <1>1, <1>3, <1>6 DEF Client
  <2>2. b' = [s EXCEPT !.clients = [s.clients EXCEPT ![c] = k]]
    BY <1>3, <1>4, <1>6 DEF Broker
  <2>3. \A inv \in s.committed : ~authMatchesLiveAuthorizationInvalidation(k.cred, inv)
    BY <1>3, <1>6, <2>1 DEF admitNewConnectionAuthorization, liveAuthorizationInvalidationFor
  <2> HIDE DEF k
  <2>4. /\ b' \in Broker
        /\ b'.clients[c] = k /\ \A x \in Clients \ {c} : b'.clients[x] = s.clients[x]
        /\ b'.carriers = s.carriers /\ b'.registering = s.registering
        /\ b'.active = s.active /\ b'.directory = s.directory
        /\ b'.pending = s.pending /\ b'.committed = s.committed /\ b'.latched = s.latched
    BY <1>3, <2>1, <2>2, ClientView
  <2>5. Tables(b') /\ Waits(b')
    BY <1>3, <2>4 DEF Good, Tables, Waits
  <2>6. Routes(b') /\ Swept(b')
    BY <1>1, <1>3, <2>1, <2>3, <2>4 DEF Good, Routes, Swept
  <2>7. Good(b')
    BY <2>4, <2>5, <2>6 DEF Good
  <2>8. /\ \A t \in Carriers : Known(b'.carriers[t].cred)
        /\ \A x \in Clients : Known(b'.clients[x].cred)
    BY <1>2, <2>1, <2>4 DEF Inv, Fenced, Keeps
  <2> QED BY <1>3, <1>5, <2>4, <2>7, <2>8, FencesStay
<1>7. CASE ~(admitNewConnectionAuthorization(b, transit[c].cred) /\ served)
  <2> DEFINE k == [s.clients[c] EXCEPT !.status = "closed"]
  <2>1. k \in Client /\ k.status = "closed" /\ k.cred = s.clients[c].cred
    BY <1>3 DEF Client
  <2>2. b' = [s EXCEPT !.clients = [s.clients EXCEPT ![c] = k]]
    BY <1>3, <1>4, <1>7 DEF Broker, Client
  <2> HIDE DEF k
  <2>3. Keeps(b, b')
    BY <1>2, <1>3, <2>1, <2>2, CloseClientKeeps, KeepsTrans
  <2> QED BY <1>5, <2>3, KeepsInv
<1> QED BY <1>6, <1>7

LEMMA ForwardStep ==
    ASSUME BrokerAssumption, Inv, NEW c \in Clients, forwardClientFrame(c)
    PROVE  Inv'
<1> DEFINE s == isClientAuthorizationActive(b, c)
           t == b.clients[c].carrier
<1>1. b.clients[c].status = "open" /\ UNCHANGED <<authority, transit, now>>
  BY DEF forwardClientFrame
<1>2. Keeps(b, s) /\ Good(s)
  BY <1>1, ClientCheck DEF Inv, Keeps
<1>3. t \in Carriers
  BY <1>1, BrokerFields DEF Inv, Good, Routes
<1>4. b' = s \/ b' = isCarrierAuthorizationActive(s, t)
  BY DEF forwardClientFrame
<1> HIDE DEF s, t
<1>5. Keeps(s, isCarrierAuthorizationActive(s, t))
  BY <1>2, <1>3, CarrierCheck
<1>6. Keeps(b, b')
  BY <1>2, <1>4, <1>5, KeepsTrans
<1> QED BY <1>1, <1>6, KeepsInv

LEMMA UnbindStep ==
    ASSUME BrokerAssumption, Inv, NEW c \in Clients, unbindClient(c)
    PROVE  Inv'
<1> DEFINE k == [b.clients[c] EXCEPT !.status = "closed", !.carrier = None]
<1>1. b \in Broker /\ b.clients[c] \in Client
  BY BrokerFields DEF Inv, Good
<1>2. k \in Client /\ k.status = "closed" /\ k.cred = b.clients[c].cred
  BY <1>1 DEF Client
<1>3. b' = [b EXCEPT !.clients = [b.clients EXCEPT ![c] = k]]
  BY <1>1 DEF unbindClient, Broker, Client
<1> HIDE DEF k
<1>4. Keeps(b, b')
  BY <1>2, <1>3, CloseClientKeeps DEF Inv
<1> QED BY <1>4, KeepsInv DEF unbindClient

LEMMA RecheckStep ==
    ASSUME BrokerAssumption, Inv,
           \/ \E t \in Carriers : recheckHostExpiry(t)
           \/ \E c \in Clients : recheckClientExpiry(c)
    PROVE  Inv'
<1>1. ASSUME NEW t \in Carriers, recheckHostExpiry(t) PROVE Inv'
  <2>1. Keeps(b, b')
    BY <1>1, FenceKeeps DEF recheckHostExpiry, fenceHostAuthorization, Inv, Reason
  <2> QED BY <1>1, <2>1, KeepsInv DEF recheckHostExpiry
<1>2. ASSUME NEW c \in Clients, recheckClientExpiry(c) PROVE Inv'
  <2>1. Keeps(b, b')
    BY <1>2, FenceClientKeeps DEF recheckClientExpiry, Inv
  <2> QED BY <1>2, <2>1, KeepsInv DEF recheckClientExpiry
<1> QED BY <1>1, <1>2

\* A hello is accepted: the registration waits for the connector there is.
LEMMA RegisteringKeeps ==
    ASSUME BrokerAssumption, NEW s, Good(s), NEW t \in Carriers, NEW i \in Instances,
           s.carriers[t].status = "pending", s.registering = None
    PROVE  Keeps(s, [s EXCEPT !.registering = t, !.carriers[t].status = "registering",
                              !.carriers[t].instance = i, !.carriers[t].base = s.directory.revision,
                              !.carriers[t].previous = s.active])
<1> DEFINE n == [s EXCEPT !.registering = t, !.carriers[t].status = "registering",
                          !.carriers[t].instance = i, !.carriers[t].base = s.directory.revision,
                          !.carriers[t].previous = s.active]
           r == [s.carriers[t] EXCEPT !.status = "registering", !.instance = i,
                                      !.base = s.directory.revision, !.previous = s.active]
           m == [s.carriers EXCEPT ![t] = r]
<1>1. /\ s \in Broker /\ s.carriers[t] \in Carrier /\ s.directory.revision \in Nat
      /\ s.active \in Carriers \cup {None} /\ s.carriers \in [Carriers -> Carrier]
  BY BrokerFields DEF Good, Directory
<1>2. /\ r \in Carrier /\ r.status = "registering" /\ r.cred = s.carriers[t].cred
      /\ r.base = s.directory.revision /\ r.previous = s.active
  BY <1>1 DEF Carrier
<1>3. /\ n.carriers = m /\ n.registering = t
      /\ n.clients = s.clients /\ n.active = s.active /\ n.directory = s.directory
      /\ n.pending = s.pending /\ n.committed = s.committed /\ n.latched = s.latched
  <2>1. n.carriers = m
    BY <1>1 DEF Broker, Carrier
  <2> QED BY <1>1, <2>1 DEF Broker
<1> HIDE DEF r
<1>4. /\ m \in [Carriers -> Carrier] /\ m[t] = r
      /\ \A x \in Carriers \ {t} : m[x] = s.carriers[x]
  BY <1>1, <1>2
<1> HIDE DEF m
<1>5. n \in Broker
  BY <1>1, <1>3, <1>4 DEF Broker
<1> HIDE DEF n
<1>6. None \notin Carriers
  BY DEF BrokerAssumption
<1>7. Tables(n)
  BY <1>2, <1>3, <1>4, <1>6 DEF Good, Tables
<1>8. Waits(n)
  BY <1>1, <1>2, <1>3, <1>4 DEF Waits
<1>9. Routes(n) /\ Swept(n)
  BY <1>2, <1>3, <1>4 DEF Good, Routes, Swept
<1>10. Keeps(s, n)
  BY <1>2, <1>3, <1>4, <1>5, <1>7, <1>8, <1>9 DEF Keeps, Good
<1> QED BY <1>10 DEF n

LEMMA RegisterStep ==
    ASSUME BrokerAssumption, Inv, NEW t \in Carriers, NEW i \in Instances, registerHost(t, i)
    PROVE  Inv'
<1> DEFINE s == isCarrierAuthorizationActive(b, t)
<1>1. Keeps(b, s)
  BY CarrierCheck DEF Inv
<1>2. b.carriers[t].status = "pending" /\ t # b.active /\ UNCHANGED <<authority, transit, now>>
  BY DEF registerHost, Inv, Good, Tables
<1>3. "duplicate_connector" \in Reason /\ "registration_busy" \in Reason
  BY DEF Reason
<1>4. \/ b' = s
      \/ \E reason \in Reason : b' = discardCarrier(b, t, reason)
      \/ /\ b.registering = None
         /\ b' = [b EXCEPT !.registering = t, !.carriers[t].status = "registering",
                           !.carriers[t].instance = i, !.carriers[t].base = b.directory.revision,
                           !.carriers[t].previous = b.active]
  BY <1>3 DEF registerHost
<1> HIDE DEF s
<1>5. Keeps(b, b')
  <2>1. CASE \E reason \in Reason : b' = discardCarrier(b, t, reason)
    BY <1>2, <2>1, DiscardKeeps DEF Inv
  <2>2. CASE /\ b.registering = None
             /\ b' = [b EXCEPT !.registering = t, !.carriers[t].status = "registering",
                               !.carriers[t].instance = i,
                               !.carriers[t].base = b.directory.revision,
                               !.carriers[t].previous = b.active]
    <3> HIDE DEF registerHost
    <3> QED BY <1>2, <2>2, RegisteringKeeps DEF Inv
  <2> QED BY <1>1, <1>4, <2>1, <2>2
<1> QED BY <1>2, <1>5, KeepsInv

\* The host.registered frame went out: the directory changes hands, and the
\* replaced connector leaves with its routes.
LEMMA CommittedKeeps ==
    ASSUME BrokerAssumption, NEW s, Good(s), NEW t \in Carriers,
           s.carriers[t].status = "registering", ~CommitRace(s, t)
    PROVE  Keeps(s, Committed(s, t))
<1> DEFINE p == s.carriers[t].previous
           r == [s.carriers[t] EXCEPT !.status = "active", !.previous = None, !.base = 0]
           m == [s.carriers EXCEPT ![t] = r]
           d == [revision |-> s.directory.revision + 1, state |-> "online", connector |-> t]
           w == [s EXCEPT !.registering = None, !.active = t, !.carriers[t].status = "active",
                          !.carriers[t].previous = None, !.carriers[t].base = 0]
           o == publishDirectory(w, t, "online")
           k == [c \in Clients |->
                   IF s.clients[c].carrier = p
                   THEN [s.clients[c] EXCEPT !.status = "closed", !.carrier = None]
                   ELSE s.clients[c]]
           q == [o EXCEPT !.clients = k]
<1>1. /\ s \in Broker /\ s.carriers[t] \in Carrier /\ s.directory.revision \in Nat
      /\ s.active \in Carriers \cup {None} /\ s.carriers \in [Carriers -> Carrier]
      /\ \A c \in Clients : s.clients[c] \in Client
  BY BrokerFields DEF Good, Directory
<1>2. /\ r \in Carrier /\ r.status = "active" /\ r.cred = s.carriers[t].cred /\ d \in Directory
      /\ d.state = "online" /\ d.connector = t
  <2>1. r \in Carrier /\ r.status = "active" /\ r.cred = s.carriers[t].cred
    BY <1>1 DEF Carrier
  <2>2. d \in Directory
    BY <1>1 DEF Directory
  <2> QED BY <2>1, <2>2
<1>3. /\ s.registering = t /\ p = s.active /\ t # s.active /\ None \notin Carriers
  BY <1>1 DEF Good, Tables, Waits, CommitRace, BrokerAssumption, Directory, Carrier
<1>4. /\ k \in [Clients -> Client]
      /\ \A c \in Clients : /\ k[c].cred = s.clients[c].cred
                            /\ IF s.clients[c].carrier = p
                               THEN k[c].status = "closed" ELSE k[c] = s.clients[c]
  BY <1>1 DEF Client
<1>5. Committed(s, t) = IF p = None THEN o
                        ELSE discardCarrier(invalidateConnectorRoutes(o, p), p, "host_superseded")
  BY DEF Committed
<1>6. w.carriers = m
  BY <1>1 DEF Broker, Carrier
<1>7. /\ w.registering = None /\ w.active = t /\ w.directory = s.directory /\ w.clients = s.clients
      /\ w.pending = s.pending /\ w.committed = s.committed /\ w.latched = s.latched
  BY <1>1 DEF Broker
<1> HIDE DEF p, r
<1>m. /\ m \in [Carriers -> Carrier] /\ m[t] = r
      /\ \A x \in Carriers \ {t} : m[x] = s.carriers[x]
  BY <1>1, <1>2
<1> HIDE DEF m
<1>w. w \in Broker
  BY <1>1, <1>6, <1>7, <1>m DEF Broker
<1> HIDE DEF w
<1>d. o = [w EXCEPT !.directory = d]
  BY <1>7, <1>w DEF publishDirectory, Broker
<1> HIDE DEF d, o
<1>o. /\ o \in Broker /\ o.carriers = m
      /\ o.registering = None /\ o.active = t /\ o.directory = d /\ o.clients = s.clients
      /\ o.pending = s.pending /\ o.committed = s.committed /\ o.latched = s.latched
  BY <1>2, <1>6, <1>7, <1>w, <1>d DEF Broker
<1>q. invalidateConnectorRoutes(o, p) = q
  BY <1>o DEF invalidateConnectorRoutes, Broker
<1> HIDE DEF k
<1>8. /\ q \in Broker /\ q.carriers = m /\ q.registering = None /\ q.active = t
      /\ q.directory = d /\ q.clients = k
      /\ q.pending = s.pending /\ q.committed = s.committed /\ q.latched = s.latched
  BY <1>4, <1>o DEF Broker
<1> HIDE DEF q
<1>9. CASE p = None
  <2>1. Tables(o)
    BY <1>2, <1>3, <1>o, <1>m, <1>9 DEF Good, Tables
  <2>2. Waits(o)
    BY <1>3, <1>o DEF Waits
  <2>3. Routes(o) /\ Swept(o)
    BY <1>2, <1>3, <1>o, <1>m, <1>9 DEF Good, Routes, Swept
  <2>4. Keeps(s, o)
    BY <1>2, <1>m, <1>o, <2>1, <2>2, <2>3 DEF Keeps, Good
  <2> QED BY <1>5, <1>9, <2>4
<1>10. CASE p # None
  <2> DEFINE n == discardCarrier(q, p, "host_superseded")
  <2>1. p \in Carriers /\ p # t /\ "host_superseded" \in Reason
    BY <1>1, <1>3, <1>10 DEF Reason
  <2>2. /\ n \in Broker
        /\ n.carriers[p].status = "closed" /\ n.carriers[p].cred = s.carriers[p].cred
        /\ n.carriers[t] = r
        /\ \A x \in Carriers \ {t, p} : n.carriers[x] = s.carriers[x]
        /\ n.registering = None /\ n.clients = k /\ n.active = t /\ n.directory = d
        /\ n.pending = s.pending /\ n.committed = s.committed /\ n.latched = s.latched
    BY <1>3, <1>m, <1>8, <2>1, DiscardView
  <2> HIDE DEF n
  <2>3. Tables(n)
    BY <1>2, <1>3, <2>1, <2>2 DEF Good, Tables
  <2>4. Waits(n)
    BY <1>3, <2>2 DEF Waits
  <2>5. Routes(n)
    BY <1>3, <1>4, <2>2 DEF Good, Routes
  <2>6. Swept(n)
    BY <1>2, <1>4, <2>1, <2>2 DEF Good, Swept
  <2>7. Keeps(s, n)
    BY <1>2, <1>4, <2>1, <2>2, <2>3, <2>4, <2>5, <2>6 DEF Keeps, Good
  <2> QED BY <1>5, <1>10, <1>q, <2>7 DEF n
<1> QED BY <1>9, <1>10

LEMMA DeliveryStep ==
    ASSUME BrokerAssumption, Inv, NEW t \in Carriers,
           acknowledgeHostControlDelivery(t) \/ rejectHostControlDelivery(t)
    PROVE  Inv'
<1> DEFINE s == isCarrierAuthorizationActive(b, t)
<1>1. /\ b.carriers[t].status = "registering" /\ t # b.active
      /\ UNCHANGED <<authority, transit, now>>
  BY DEF acknowledgeHostControlDelivery, rejectHostControlDelivery, Inv, Good, Tables
<1>2. Keeps(b, s) /\ (s = b \/ s.carriers[t].status = "closed")
  BY CarrierCheck DEF Inv
<1>3. "registration_commit_race" \in Reason /\ "delivery_failed" \in Reason
  BY DEF Reason
<1>4. Passes(s, s.carriers[t]) => s = b
  BY <1>2 DEF Passes
<1>5. \/ b' = s
      \/ \E reason \in Reason : b' = discardCarrier(b, t, reason)
      \/ ~CommitRace(b, t) /\ b' = Committed(b, t)
  BY <1>3, <1>4 DEF acknowledgeHostControlDelivery, rejectHostControlDelivery, cancelRegistration
<1> HIDE DEF s
<1>6. Keeps(b, b')
  BY <1>1, <1>2, <1>5, DiscardKeeps, CommittedKeeps DEF Inv
<1> QED BY <1>1, <1>6, KeepsInv

LEMMA GoneStep ==
    ASSUME BrokerAssumption, Inv, NEW t \in Carriers, InvalidFrame(t) \/ HostGone(t)
    PROVE  Inv'
<1>1. CASE InvalidFrame(t)
  <2> DEFINE s == isCarrierAuthorizationActive(b, t)
  <2>1. Keeps(b, s) /\ Good(s)
    BY CarrierCheck DEF Inv, Keeps
  <2>2. b' = s \/ b' = discardCarrier(GoesOffline(s, t), t, "protocol_violation")
    BY <1>1 DEF InvalidFrame, protocolViolation
  <2> HIDE DEF s
  <2>3. Keeps(b, b')
    BY <2>1, <2>2, FenceKeeps, KeepsTrans DEF Reason
  <2> QED BY <1>1, <2>3, KeepsInv DEF InvalidFrame
<1>2. CASE HostGone(t)
  <2>1. Keeps(b, b')
    BY <1>2, DisconnectKeeps DEF HostGone, Inv
  <2> QED BY <1>2, <2>1, KeepsInv DEF HostGone
<1> QED BY <1>1, <1>2

LEMMA WithdrawStep ==
    ASSUME BrokerAssumption, Inv, withdrawOptionalCapability
    PROVE  Inv'
<1> DEFINE v == IF b.directory.state = "unknown" THEN b.directory.revision
                ELSE b.directory.revision + 1
           d == [b.directory EXCEPT !.revision = v]
<1>1. b \in Broker /\ b.directory \in Directory /\ b.directory.revision \in Nat
  BY BrokerFields DEF Inv, Good, Directory
<1>2. /\ d \in Directory /\ d.state = b.directory.state /\ d.connector = b.directory.connector
      /\ d.revision = b.directory.revision \/ d.revision = b.directory.revision + 1
  BY <1>1 DEF Directory
<1>3. b' = [b EXCEPT !.capable = FALSE, !.directory = d]
  BY <1>1 DEF withdrawOptionalCapability, Broker, Directory
<1> HIDE DEF d
<1>4. /\ b' \in Broker /\ b'.directory = d /\ b'.carriers = b.carriers /\ b'.clients = b.clients
      /\ b'.registering = b.registering /\ b'.active = b.active
      /\ b'.pending = b.pending /\ b'.committed = b.committed /\ b'.latched = b.latched
  BY <1>1, <1>2, <1>3 DEF Broker
<1>5. Tables(b') /\ Routes(b') /\ Swept(b')
  BY <1>2, <1>4 DEF Inv, Good, Tables, Routes, Swept
<1>6. Waits(b')
  <2> SUFFICES ASSUME NEW t \in Carriers, t = b'.registering
               PROVE  /\ b'.carriers[t].base <= b'.directory.revision
                      /\ b'.carriers[t].base = b'.directory.revision =>
                           b'.carriers[t].previous = b'.active
    BY DEF Waits
  <2>1. b.carriers[t].base \in Nat /\ t = b.registering /\ b'.carriers[t] = b.carriers[t]
    BY <1>1, <1>4, BrokerFields DEF Carrier
  <2> QED BY <1>1, <1>2, <1>4, <2>1 DEF Inv, Good, Waits
<1>7. Keeps(b, b')
  BY <1>4, <1>5, <1>6 DEF Keeps, Good
<1> QED BY <1>7, KeepsInv DEF withdrawOptionalCapability

LEMMA HandleAuthStep ==
    ASSUME BrokerAssumption, Inv, NEW t \in Carriers, handleAuthControl(t)
    PROVE  Inv'
<1> DEFINE s == isCarrierAuthorizationActive(b, t)
           fits == /\ b.carriers[t].status = "active"
                   /\ Passes(s, s.carriers[t])
                   /\ admitNewConnectionAuthorization(s, transit[t].cred)
<1>1. Keeps(b, s) /\ (s = b \/ s.carriers[t].status = "closed")
  BY CarrierCheck DEF Inv
<1>2. Passes(s, s.carriers[t]) => s = b
  BY <1>1 DEF Passes
<1>3. /\ AuthorityType' /\ UNCHANGED <<authority, now>>
      /\ \A x \in Carriers \cup Clients : Known(transit'[x].cred)
      /\ transit' = [transit EXCEPT ![t] = NoTransit]
  BY DropTransit DEF handleAuthControl
<1>4. \/ b' = b \/ b' = s
      \/ /\ b.carriers[t].status = "active" /\ s = b
         /\ admitNewConnectionAuthorization(b, transit[t].cred)
         /\ b' = [b EXCEPT !.carriers[t].cred = transit[t].cred]
  BY <1>2 DEF handleAuthControl
<1> HIDE DEF s
<1>5. CASE b' = b \/ b' = s
  <2>1. Keeps(b, b')
    BY <1>1, <1>5, SameKeeps DEF Inv
  <2> QED BY <1>3, <2>1, KeepsInv
<1>6. CASE /\ b.carriers[t].status = "active"
           /\ admitNewConnectionAuthorization(b, transit[t].cred)
           /\ b' = [b EXCEPT !.carriers[t].cred = transit[t].cred]
  <2> DEFINE r == [b.carriers[t] EXCEPT !.cred = transit[t].cred]
  <2>1. b \in Broker /\ b.carriers[t] \in Carrier /\ transit[t].cred \in Cred
    BY BrokerFields DEF Inv, Good, AuthorityType, Transit, handleAuthControl
  <2>2. r \in Carrier /\ r.cred = transit[t].cred /\ r.status = "active"
    BY <1>6, <2>1 DEF Carrier
  <2>3. b' = [b EXCEPT !.carriers = [b.carriers EXCEPT ![t] = r]]
    BY <1>6, <2>1 DEF Broker, Carrier
  <2>4. \A inv \in b.committed : ~authMatchesLiveAuthorizationInvalidation(r.cred, inv)
    BY <1>6, <2>2 DEF admitNewConnectionAuthorization, liveAuthorizationInvalidationFor
  <2> HIDE DEF r
  <2>5. Good(b')
    BY <1>6, <2>1, <2>2, <2>3, <2>4, CarrierGood DEF Inv
  <2>6. /\ b'.carriers[t] = r /\ \A x \in Carriers \ {t} : b'.carriers[x] = b.carriers[x]
        /\ b'.clients = b.clients
        /\ b'.pending = b.pending /\ b'.committed = b.committed /\ b'.latched = b.latched
    BY <2>1, <2>2, <2>3, CarrierView
  <2>7. /\ \A x \in Carriers : Known(b'.carriers[x].cred)
        /\ \A c \in Clients : Known(b'.clients[c].cred)
    BY <2>2, <2>6 DEF Inv, Fenced
  <2> QED BY <1>3, <2>5, <2>6, <2>7, FencesStay
<1> QED BY <1>4, <1>5, <1>6

-----------------------------------------------------------------------------
(* The fence protocol of a revocation.                                     *)

LEMMA BeginStep ==
    ASSUME BrokerAssumption, Inv, NEW inv \in Invalidation, beginLiveAuthorizationInvalidation(inv)
    PROVE  Inv'
<1> DEFINE P == b.pending \cup {inv}
<1>1. b \in Broker /\ P \in SUBSET Invalidation /\ b.committed \in SUBSET Invalidation
  BY BrokerFields DEF Inv, Good
<1>2. b' = [b EXCEPT !.pending = P, !.committed = b.committed]
  BY <1>1 DEF beginLiveAuthorizationInvalidation, Broker
<1> HIDE DEF P
<1>3. /\ b' \in Broker /\ b'.pending = P /\ b'.committed = b.committed
      /\ b'.carriers = b.carriers /\ b'.clients = b.clients
      /\ b'.active = b.active /\ b'.registering = b.registering
      /\ b'.directory = b.directory /\ b'.latched = b.latched
  BY <1>1, <1>2 DEF Broker
<1>4. Tables(b') /\ Waits(b') /\ Routes(b') /\ Swept(b')
  BY <1>3 DEF Inv, Good, Tables, Waits, Routes, Swept
<1>5. /\ authority'.mutation = inv /\ authority'.revoked = authority.revoked
      /\ authority'.removed = authority.removed /\ UNCHANGED <<transit, now>> /\ ~b.latched
      /\ authority' = [authority EXCEPT !.mutation = inv]
  BY DEF beginLiveAuthorizationInvalidation, Inv, AuthorityType
<1>6. AuthorityType' /\ Announced'
  BY <1>3, <1>5 DEF Inv, AuthorityType, Announced, P
<1>7. Good(b')
  BY <1>3, <1>4 DEF Good
<1> QED BY <1>3, <1>5, <1>6, <1>7, FencesHold DEF Inv, Fenced, P

\* What the publication kills is what the pending fence stops.
LEMMA PublishStep ==
    ASSUME BrokerAssumption, Inv, compareAndPublish
    PROVE  Inv'
<1> DEFINE m == authority.mutation
<1>1. /\ m \in Invalidation /\ m \in b.pending /\ UNCHANGED <<b, transit, now>>
      /\ authority \in [revoked : SUBSET Grants, removed : SUBSET Kids,
                        mutation : Invalidation \cup {None}, published : BOOLEAN,
                        withdrawn : BOOLEAN]
  BY DEF compareAndPublish, Inv, AuthorityType, Announced
<1>2. \/ m.reason = "grant_revoked" /\ m.of \in Grants
      \/ m.reason = "kid_removed" /\ m.of \in Kids
  BY <1>1 DEF Invalidation
<1>3. /\ authority'.mutation = m
      /\ \/ /\ m.reason = "kid_removed"
            /\ authority'.removed = authority.removed \cup {m.of}
            /\ authority'.revoked = authority.revoked
         \/ /\ m.reason # "kid_removed"
            /\ authority'.removed = authority.removed
            /\ authority'.revoked = authority.revoked \cup {m.of}
      /\ authority' \in [revoked : SUBSET Grants, removed : SUBSET Kids,
                         mutation : Invalidation \cup {None}, published : BOOLEAN,
                         withdrawn : BOOLEAN]
  BY <1>1, <1>2 DEF compareAndPublish, Revoked
<1>4. AuthorityType' /\ Announced'
  BY <1>1, <1>3 DEF Inv, AuthorityType, Announced
<1>5. ASSUME NEW cred, Known(cred)
      PROVE  cred = None \/ ~(cred.grant \in authority'.revoked \/ cred.kid \in authority'.removed)
             \/ b'.latched \/ liveAuthorizationInvalidationFor(b', cred) # {}
  BY <1>1, <1>3, <1>5 DEF Known, Dead, Stopped, liveAuthorizationInvalidationFor,
     authMatchesLiveAuthorizationInvalidation
<1>6. Fenced'
  BY <1>1, <1>5 DEF Inv, Fenced, Known, Dead, Stopped
<1> QED BY <1>1, <1>4, <1>6 DEF Inv

\* The committed fence sweeps the tables: every carrier of a revoked
\* credential leaves, the connector with its directory entry and its routes.
LEMMA SweepView ==
    ASSUME BrokerAssumption, NEW s \in Broker, NEW inv
    PROVE  LET n == applyCommittedLiveAuthorizationInvalidation(s, inv)
               H == {t \in Carriers : /\ s.carriers[t].status \notin {"absent", "closed"}
                                      /\ authMatchesLiveAuthorizationInvalidation(s.carriers[t].cred, inv)}
           IN  /\ n \in Broker
               /\ \A t \in Carriers :
                     /\ n.carriers[t].cred = s.carriers[t].cred
                     /\ IF t \in H THEN n.carriers[t].status = "closed"
                        ELSE n.carriers[t] = s.carriers[t]
               /\ n.registering = IF s.registering \in H THEN None ELSE s.registering
               /\ \A c \in Clients :
                     /\ n.clients[c].cred = s.clients[c].cred
                     /\ n.clients[c].status \in {"open", "fenced"} =>
                           /\ s.clients[c].status \in {"open", "fenced"}
                           /\ n.clients[c].carrier = s.clients[c].carrier
                           /\ s.active \in H => s.clients[c].carrier # s.active
                     /\ n.clients[c].status = "open" =>
                           /\ s.clients[c].status = "open"
                           /\ ~authMatchesLiveAuthorizationInvalidation(s.clients[c].cred, inv)
               /\ IF s.active \in H
                  THEN /\ n.active = None /\ n.directory.state = "offline"
                       /\ n.directory.connector = None
                       /\ n.directory.revision = s.directory.revision + 1
                  ELSE n.active = s.active /\ n.directory = s.directory
               /\ n.pending = s.pending /\ n.committed = s.committed /\ n.latched = s.latched
<1> DEFINE n == applyCommittedLiveAuthorizationInvalidation(s, inv)
           H == {t \in Carriers : /\ s.carriers[t].status \notin {"absent", "closed"}
                                  /\ authMatchesLiveAuthorizationInvalidation(s.carriers[t].cred, inv)}
           k == [c \in Clients |->
                   IF s.clients[c].status = "open"
                      /\ authMatchesLiveAuthorizationInvalidation(s.clients[c].cred, inv)
                   THEN [s.clients[c] EXCEPT !.status = "fenced"] ELSE s.clients[c]]
           f == [s EXCEPT !.clients = k]
           o == IF s.active \in H THEN GoesOffline(f, s.active) ELSE f
           r(t) == [s.carriers[t] EXCEPT !.status = "closed", !.close = "revoked",
                                         !.previous = None, !.base = 0]
           m == [t \in Carriers |-> IF t \in H THEN r(t) ELSE s.carriers[t]]
           g == IF s.registering \in H THEN None ELSE s.registering
<1>1. /\ \A t \in Carriers : s.carriers[t] \in Carrier
      /\ \A c \in Clients : s.clients[c] \in Client
      /\ s.active \in Carriers \cup {None} /\ s.registering \in Carriers \cup {None}
  BY BrokerFields
<1>2. \A t \in Carriers : /\ r(t) \in Carrier /\ r(t).status = "closed"
                          /\ r(t).cred = s.carriers[t].cred
  <2> TAKE t \in Carriers
  <2>1. s.carriers[t] \in Carrier /\ "revoked" \in Reason
    BY <1>1 DEF Reason
  <2> QED BY <2>1 DEF Carrier
<1>3. /\ k \in [Clients -> Client]
      /\ \A c \in Clients :
           /\ k[c].cred = s.clients[c].cred /\ k[c].carrier = s.clients[c].carrier
           /\ k[c].status \in {"open", "fenced"} => s.clients[c].status \in {"open", "fenced"}
           /\ k[c].status = "open" =>
                /\ s.clients[c].status = "open"
                /\ ~authMatchesLiveAuthorizationInvalidation(s.clients[c].cred, inv)
  BY <1>1 DEF Client
<1>4. n = [o EXCEPT !.registering = IF @ \in H THEN None ELSE @,
                    !.carriers = [t \in Carriers |->
                        IF t \in H THEN [@[t] EXCEPT !.status = "closed", !.close = "revoked",
                                                     !.previous = None, !.base = 0] ELSE @[t]]]
  BY DEF applyCommittedLiveAuthorizationInvalidation
<1> HIDE DEF n, k, H
<1>5. /\ f \in Broker /\ f.clients = k /\ f.carriers = s.carriers
      /\ f.active = s.active /\ f.registering = s.registering /\ f.directory = s.directory
      /\ f.pending = s.pending /\ f.committed = s.committed /\ f.latched = s.latched
  BY <1>3 DEF Broker
<1> HIDE DEF f
<1>6. /\ o \in Broker /\ o.carriers = s.carriers /\ o.registering = s.registering
      /\ o.pending = s.pending /\ o.committed = s.committed /\ o.latched = s.latched
      /\ \A c \in Clients : /\ o.clients[c].cred = k[c].cred
                            /\ IF s.active \in H /\ k[c].carrier = s.active
                               THEN o.clients[c].status = "closed" ELSE o.clients[c] = k[c]
      /\ IF s.active \in H
         THEN /\ o.active = None /\ o.directory.state = "offline"
              /\ o.directory.connector = None
              /\ o.directory.revision = s.directory.revision + 1
         ELSE o.active = s.active /\ o.directory = s.directory
  <2>1. CASE s.active \in H
    <3>1. s.active \in Carriers
      BY <2>1 DEF H
    <3> QED BY <1>5, <2>1, <3>1, OfflineView
  <2>2. CASE s.active \notin H
    BY <1>5, <2>2
  <2> QED BY <2>1, <2>2
<1> HIDE DEF o
<1>7. n = [o EXCEPT !.registering = g, !.carriers = m]
  BY <1>4, <1>6 DEF Broker
<1> HIDE DEF r
<1>8. /\ m \in [Carriers -> Carrier]
      /\ \A t \in Carriers : m[t] = IF t \in H THEN r(t) ELSE s.carriers[t]
  BY <1>1, <1>2
<1> HIDE DEF m
<1>9. g \in Carriers \cup {None}
  BY <1>1
<1> HIDE DEF g
<1>10. /\ n \in Broker /\ n.registering = g /\ n.carriers = m
       /\ n.clients = o.clients /\ n.active = o.active /\ n.directory = o.directory
       /\ n.pending = o.pending /\ n.committed = o.committed /\ n.latched = o.latched
  BY <1>6, <1>7, <1>8, <1>9 DEF Broker
<1>11. \A t \in Carriers :
          /\ n.carriers[t].cred = s.carriers[t].cred
          /\ IF t \in H THEN n.carriers[t].status = "closed" ELSE n.carriers[t] = s.carriers[t]
  BY <1>2, <1>8, <1>10
<1>12. \A c \in Clients :
          /\ n.clients[c].cred = s.clients[c].cred
          /\ n.clients[c].status \in {"open", "fenced"} =>
                /\ s.clients[c].status \in {"open", "fenced"}
                /\ n.clients[c].carrier = s.clients[c].carrier
                /\ s.active \in H => s.clients[c].carrier # s.active
          /\ n.clients[c].status = "open" =>
                /\ s.clients[c].status = "open"
                /\ ~authMatchesLiveAuthorizationInvalidation(s.clients[c].cred, inv)
  BY <1>3, <1>6, <1>10
<1> QED BY <1>6, <1>10, <1>11, <1>12 DEF n, H, g

LEMMA SweepGood ==
    ASSUME BrokerAssumption, NEW s \in Broker, NEW inv, Tables(s), Waits(s), Routes(s),
           \A t \in Carriers : s.carriers[t].status \notin {"absent", "closed"} =>
              /\ s.carriers[t].cred \in Cred
              /\ \A i \in s.committed \ {inv} :
                   ~authMatchesLiveAuthorizationInvalidation(s.carriers[t].cred, i),
           \A c \in Clients : s.clients[c].status \in {"open", "fenced"} => s.clients[c].cred \in Cred,
           \A c \in Clients : s.clients[c].status = "open" =>
              \A i \in s.committed \ {inv} :
                   ~authMatchesLiveAuthorizationInvalidation(s.clients[c].cred, i)
    PROVE  LET n == applyCommittedLiveAuthorizationInvalidation(s, inv)
           IN  /\ Good(n)
               /\ \A t \in Carriers : n.carriers[t].cred = s.carriers[t].cred
               /\ \A c \in Clients : n.clients[c].cred = s.clients[c].cred
               /\ n.pending = s.pending /\ n.committed = s.committed /\ n.latched = s.latched
<1> DEFINE n == applyCommittedLiveAuthorizationInvalidation(s, inv)
           H == {t \in Carriers : /\ s.carriers[t].status \notin {"absent", "closed"}
                                  /\ authMatchesLiveAuthorizationInvalidation(s.carriers[t].cred, inv)}
<1>1. /\ n \in Broker
      /\ \A t \in Carriers :
            /\ n.carriers[t].cred = s.carriers[t].cred
            /\ IF t \in H THEN n.carriers[t].status = "closed" ELSE n.carriers[t] = s.carriers[t]
      /\ n.registering = IF s.registering \in H THEN None ELSE s.registering
      /\ \A c \in Clients :
            /\ n.clients[c].cred = s.clients[c].cred
            /\ n.clients[c].status \in {"open", "fenced"} =>
                  /\ s.clients[c].status \in {"open", "fenced"}
                  /\ n.clients[c].carrier = s.clients[c].carrier
                  /\ s.active \in H => s.clients[c].carrier # s.active
            /\ n.clients[c].status = "open" =>
                  /\ s.clients[c].status = "open"
                  /\ ~authMatchesLiveAuthorizationInvalidation(s.clients[c].cred, inv)
      /\ IF s.active \in H
         THEN /\ n.active = None /\ n.directory.state = "offline"
              /\ n.directory.connector = None
              /\ n.directory.revision = s.directory.revision + 1
         ELSE n.active = s.active /\ n.directory = s.directory
      /\ n.pending = s.pending /\ n.committed = s.committed /\ n.latched = s.latched
  BY SweepView
<1>2. \A t \in Carriers \ H : s.carriers[t].status \notin {"absent", "closed"} =>
          ~authMatchesLiveAuthorizationInvalidation(s.carriers[t].cred, inv)
  OBVIOUS
<1>3. H \subseteq Carriers /\ None \notin Carriers /\ s.directory.revision \in Nat
      /\ s.registering \in Carriers \cup {None} /\ s.active \in Carriers \cup {None}
  BY BrokerFields DEF BrokerAssumption, Directory
<1>4. \A t \in H : s.carriers[t].status \notin {"absent", "closed"}
  OBVIOUS
<1> HIDE DEF n, H
<1>5. Tables(n)
  BY <1>1, <1>3, <1>4 DEF Tables
<1>6. Waits(n)
  <2> SUFFICES ASSUME NEW t \in Carriers, t = n.registering
               PROVE  /\ n.carriers[t].base <= n.directory.revision
                      /\ n.carriers[t].base = n.directory.revision =>
                           n.carriers[t].previous = n.active
    BY DEF Waits
  <2>1. t \notin H /\ t = s.registering /\ n.carriers[t] = s.carriers[t]
    BY <1>1, <1>3
  <2>2. s.carriers[t].base \in Nat
    BY BrokerFields DEF Carrier
  <2> QED BY <1>1, <1>3, <2>1, <2>2 DEF Waits
<1>7. Routes(n)
  BY <1>1 DEF Routes
<1>8. Swept(n)
  BY <1>1, <1>2 DEF Swept
<1> QED BY <1>1, <1>5, <1>6, <1>7, <1>8 DEF Good, n

LEMMA CommittedStep ==
    ASSUME BrokerAssumption, Inv, committed
    PROVE  Inv'
<1> DEFINE m == authority.mutation
           P == b.pending \ {m}
           C == b.committed \cup {m}
           s == [b EXCEPT !.pending = P, !.committed = C]
<1>1. /\ m \in Invalidation /\ b \in Broker /\ P \in SUBSET Invalidation
      /\ C \in SUBSET Invalidation
  BY BrokerFields DEF committed, Inv, Good, AuthorityType
<1>2. /\ authority'.mutation = None /\ authority'.revoked = authority.revoked
      /\ authority'.removed = authority.removed /\ UNCHANGED <<transit, now>>
      /\ authority' = [authority EXCEPT !.mutation = None, !.published = FALSE]
  BY DEF committed, Inv, AuthorityType
<1>3. AuthorityType' /\ Announced'
  BY <1>2 DEF Inv, AuthorityType, Announced
<1>4. CASE b.latched
  <2>1. b' = b
    BY <1>4 DEF committed
  <2> QED BY <1>2, <1>3, <1>4, <2>1, FencesHold DEF Inv, Fenced
<1>5. CASE ~b.latched
  <2>1. b' = applyCommittedLiveAuthorizationInvalidation(s, m)
    BY <1>5 DEF committed
  <2>2. m \in C /\ b.pending \cup b.committed \subseteq P \cup C /\ C \ {m} \subseteq b.committed
    OBVIOUS
  <2> HIDE DEF P, C, m
  <2>3. /\ s \in Broker /\ s.pending = P /\ s.committed = C
        /\ s.carriers = b.carriers /\ s.clients = b.clients
        /\ s.active = b.active /\ s.registering = b.registering
        /\ s.directory = b.directory /\ s.latched = b.latched
    BY <1>1 DEF Broker
  <2> HIDE DEF s
  <2>4. Tables(s) /\ Waits(s) /\ Routes(s)
    BY <2>3 DEF Inv, Good, Tables, Waits, Routes
  <2>5. /\ \A t \in Carriers : s.carriers[t].status \notin {"absent", "closed"} =>
             /\ s.carriers[t].cred \in Cred
             /\ \A i \in s.committed \ {m} :
                  ~authMatchesLiveAuthorizationInvalidation(s.carriers[t].cred, i)
        /\ \A c \in Clients : s.clients[c].status \in {"open", "fenced"} =>
             s.clients[c].cred \in Cred
        /\ \A c \in Clients : s.clients[c].status = "open" =>
             \A i \in s.committed \ {m} :
                  ~authMatchesLiveAuthorizationInvalidation(s.clients[c].cred, i)
    BY <2>2, <2>3 DEF Inv, Good, Swept
  <2>6. /\ Good(b')
        /\ \A t \in Carriers : b'.carriers[t].cred = s.carriers[t].cred
        /\ \A c \in Clients : b'.clients[c].cred = s.clients[c].cred
        /\ b'.pending = s.pending /\ b'.committed = s.committed /\ b'.latched = s.latched
    BY <2>1, <2>3, <2>4, <2>5, SweepGood
  <2>7. /\ \A t \in Carriers : Known(b'.carriers[t].cred)
        /\ \A c \in Clients : Known(b'.clients[c].cred)
        /\ \A x \in Carriers \cup Clients : Known(transit'[x].cred)
    BY <1>2, <2>3, <2>6 DEF Inv, Fenced
  <2> QED BY <1>2, <1>3, <1>5, <2>2, <2>3, <2>6, <2>7, FencesHold
<1> QED BY <1>4, <1>5

\* The authority withdraws: the broker closes every connection for good.
LEMMA LatchView ==
    ASSUME BrokerAssumption, NEW s \in Broker, Tables(s)
    PROVE  LET n == latchCredentialAuthorityUnavailable(s)
           IN  /\ Good(n) /\ n.latched
               /\ \A t \in Carriers : n.carriers[t].cred = s.carriers[t].cred
               /\ \A c \in Clients : n.clients[c].cred = s.clients[c].cred
<1> DEFINE n == latchCredentialAuthorityUnavailable(s)
           r(t) == [s.carriers[t] EXCEPT !.status = "closed", !.previous = None, !.base = 0,
                                         !.close = "credential_authority_unavailable"]
           m == [t \in Carriers |->
                   IF s.carriers[t].status \in {"absent", "closed"} THEN s.carriers[t] ELSE r(t)]
           k == [c \in Clients |->
                   IF s.clients[c].status \in {"absent", "closed"} THEN s.clients[c]
                   ELSE [s.clients[c] EXCEPT !.status = "closed", !.carrier = None]]
           d == IF s.active = None THEN s.directory
                ELSE [revision |-> s.directory.revision + 1, state |-> "offline", connector |-> None]
<1>1. /\ \A t \in Carriers : s.carriers[t] \in Carrier
      /\ \A c \in Clients : s.clients[c] \in Client
      /\ s.directory \in Directory /\ None \notin Carriers
  BY BrokerFields DEF BrokerAssumption
<1>2. \A t \in Carriers : /\ r(t) \in Carrier /\ r(t).status = "closed"
                          /\ r(t).cred = s.carriers[t].cred
  <2> TAKE t \in Carriers
  <2>1. s.carriers[t] \in Carrier /\ "credential_authority_unavailable" \in Reason
    BY <1>1 DEF Reason
  <2> QED BY <2>1 DEF Carrier
<1>3. /\ k \in [Clients -> Client]
      /\ \A c \in Clients : /\ k[c].cred = s.clients[c].cred
                            /\ k[c].status \in {"absent", "closed"}
  BY <1>1 DEF Client
<1>4. d \in Directory /\ d.state # "online" /\ d.connector = None
  BY <1>1 DEF Directory, Tables
<1>5. n = [s EXCEPT !.latched = TRUE, !.active = None, !.registering = None, !.directory = d,
                    !.carriers = m, !.clients = k]
  BY DEF latchCredentialAuthorityUnavailable, Broker
<1> HIDE DEF r, k, d, n
<1>6. /\ m \in [Carriers -> Carrier]
      /\ \A t \in Carriers : /\ m[t].cred = s.carriers[t].cred
                             /\ m[t].status \in {"absent", "closed"}
  BY <1>1, <1>2
<1> HIDE DEF m
<1>7. /\ n \in Broker /\ n.latched /\ n.active = None /\ n.registering = None
      /\ n.directory = d /\ n.carriers = m /\ n.clients = k
  BY <1>3, <1>4, <1>5, <1>6 DEF Broker
<1>8. Tables(n) /\ Waits(n)
  BY <1>1, <1>4, <1>6, <1>7 DEF Tables, Waits
<1>9. Routes(n) /\ Swept(n)
  BY <1>3, <1>6, <1>7 DEF Routes, Swept
<1> QED BY <1>3, <1>6, <1>7, <1>8, <1>9 DEF Good, n

LEMMA FailClosedStep ==
    ASSUME BrokerAssumption, Inv, failClosed
    PROVE  Inv'
<1> DEFINE P == b.pending \ {authority.mutation}
           s == [b EXCEPT !.pending = P]
<1>1. b \in Broker /\ P \in SUBSET Invalidation
  BY BrokerFields DEF Inv, Good
<1>2. b' = latchCredentialAuthorityUnavailable(s)
  BY DEF failClosed
<1> HIDE DEF P
<1>3. /\ s \in Broker /\ s.carriers = b.carriers /\ s.clients = b.clients
      /\ s.active = b.active /\ s.registering = b.registering /\ s.directory = b.directory
  BY <1>1 DEF Broker
<1> HIDE DEF s
<1>4. Tables(s)
  BY <1>3 DEF Inv, Good, Tables
<1>5. /\ Good(b') /\ b'.latched
      /\ \A t \in Carriers : b'.carriers[t].cred = b.carriers[t].cred
      /\ \A c \in Clients : b'.clients[c].cred = b.clients[c].cred
  BY <1>2, <1>3, <1>4, LatchView
<1>6. /\ authority'.mutation = None /\ authority'.revoked = authority.revoked
      /\ authority'.removed = authority.removed /\ UNCHANGED <<transit, now>>
      /\ authority' = [authority EXCEPT !.mutation = None, !.published = FALSE, !.withdrawn = TRUE]
  BY DEF failClosed, Inv, AuthorityType
<1>7. AuthorityType' /\ Announced'
  BY <1>6 DEF Inv, AuthorityType, Announced
<1> QED BY <1>5, <1>6, <1>7, FencesHold DEF Inv, Fenced

\* A broker that starts holds no credential at all.
LEMMA FreshGood ==
    ASSUME BrokerAssumption
    PROVE  /\ Good(FreshBroker)
           /\ \A t \in Carriers : FreshBroker.carriers[t].cred = None
           /\ \A c \in Clients : FreshBroker.clients[c].cred = None
<1>1. NoCarrier \in Carrier /\ NoCarrier.status = "absent" /\ NoCarrier.cred = None
  BY DEF NoCarrier, Carrier, Reason
<1>2. NoClient \in Client /\ NoClient.status = "absent" /\ NoClient.cred = None
  BY DEF NoClient, Client
<1>3. /\ FreshBroker.active = None /\ FreshBroker.registering = None
      /\ FreshBroker.directory.state = "unknown" /\ FreshBroker.directory.connector = None
      /\ \A t \in Carriers : FreshBroker.carriers[t] = NoCarrier
      /\ \A c \in Clients : FreshBroker.clients[c] = NoClient
  BY DEF FreshBroker
<1>4. FreshBroker \in Broker
  BY <1>1, <1>2 DEF FreshBroker, Broker, Directory
<1>5. None \notin Carriers
  BY DEF BrokerAssumption
<1>6. Tables(FreshBroker) /\ Waits(FreshBroker)
  BY <1>1, <1>3, <1>5 DEF Tables, Waits
<1>7. Routes(FreshBroker) /\ Swept(FreshBroker)
  BY <1>1, <1>2, <1>3 DEF Routes, Swept
<1> QED BY <1>1, <1>2, <1>3, <1>4, <1>6, <1>7 DEF Good

LEMMA InitInv ==
    ASSUME BrokerAssumption, Init
    PROVE  Inv
<1>1. /\ Good(b)
      /\ \A t \in Carriers : b.carriers[t].cred = None
      /\ \A c \in Clients : b.clients[c].cred = None
  BY FreshGood DEF Init
<1>2. NoTransit \in Transit /\ NoTransit.cred = None /\ NoTransit.current = None
  BY DEF NoTransit, Transit
<1>3. AuthorityType
  BY <1>2 DEF Init, AuthorityType, BrokerAssumption
<1>4. Fenced /\ Announced
  BY <1>1, <1>2 DEF Init, Fenced, Known, Announced
<1> QED BY <1>1, <1>3, <1>4 DEF Inv

LEMMA RestartStep ==
    ASSUME BrokerAssumption, Inv, Restart
    PROVE  Inv'
<1>1. /\ Good(b')
      /\ \A t \in Carriers : b'.carriers[t].cred = None
      /\ \A c \in Clients : b'.clients[c].cred = None
  BY FreshGood DEF Restart
<1>2. NoTransit \in Transit /\ NoTransit.cred = None /\ NoTransit.current = None
  BY DEF NoTransit, Transit
<1>3. AuthorityType'
  BY <1>2 DEF Inv, AuthorityType, Restart
<1>4. Fenced' /\ Announced'
  BY <1>1, <1>2 DEF Inv, AuthorityType, Restart, Fenced, Known, Announced
<1> QED BY <1>1, <1>3, <1>4 DEF Inv

LEMMA NextInv ==
    ASSUME BrokerAssumption, Inv, [Next]_vars
    PROVE  Inv'
<1>1. ASSUME NEW t \in Carriers, HostStep(t) PROVE Inv'
  BY <1>1, VerifyStep, ReauthenticateStep, RegisterStep, AttachStep, DeliveryStep, GoneStep,
     HandleAuthStep, RecheckStep DEF HostStep, VerifyHost
<1>2. ASSUME NEW c \in Clients, ClientStep(c) PROVE Inv'
  BY <1>2, VerifyStep, OpenStep, ForwardStep, UnbindStep, RecheckStep DEF ClientStep, VerifyClient
<1>3. CASE Tick
  BY <1>3, Unmoved DEF Tick, Inv, AuthorityType, BrokerAssumption
<1>4. CASE UNCHANGED vars
  BY <1>4, Unmoved DEF vars, Inv, AuthorityType
<1> QED BY <1>1, <1>2, <1>3, <1>4, BeginStep, PublishStep, CommittedStep, FailClosedStep,
           WithdrawStep, RestartStep DEF Next

-----------------------------------------------------------------------------
(* What it shows.                                                          *)

LEMMA InvTypeOK ==
    ASSUME BrokerAssumption, Inv
    PROVE  TypeOK
<1>1. /\ b \in Broker
      /\ \A t \in Carriers : b.carriers[t] \in Carrier
      /\ \A c \in Clients : b.clients[c] \in Client
  BY BrokerFields DEF Inv, Good
<1>2. \A t \in Carriers :
        /\ b.carriers[t].status \in {"absent", "pending", "registering", "active", "closed"}
        /\ b.carriers[t].cred \in Cred \cup {None}
        /\ b.carriers[t].previous \in Carriers \cup {None} /\ b.carriers[t].base \in Nat
  BY <1>1 DEF Carrier
<1>3. \A c \in Clients :
        /\ b.clients[c].status \in {"absent", "open", "fenced", "closed"}
        /\ b.clients[c].carrier \in Carriers \cup {None}
  BY <1>1 DEF Client
<1>4. authority.mutation \in Invalidation \cup {None} /\ now \in 0 .. MaxTime
  BY DEF Inv, AuthorityType
<1> QED BY <1>1, <1>2, <1>3, <1>4, BrokerFields DEF TypeOK

LEMMA InvConnector ==
    ASSUME BrokerAssumption, Inv
    PROVE  OneConnectorServes
<1>1. /\ b.active \in Carriers \cup {None} /\ b.registering \in Carriers \cup {None}
      /\ None \notin Carriers
  BY BrokerFields DEF Inv, Good, BrokerAssumption
<1>2. DirectoryNamesTheConnector
  BY <1>1 DEF Inv, Good, Tables, DirectoryNamesTheConnector
<1>3. RoutesFollowTheConnector
  BY DEF Inv, Good, Routes, RoutesFollowTheConnector, LiveClient
<1> QED BY <1>2, <1>3 DEF OneConnectorServes

LEMMA InvRevocation ==
    ASSUME BrokerAssumption, Inv
    PROVE  RevocationHolds
<1>1. ASSUME NEW conn, Known(conn.cred), conn.cred # None, Dead(conn.cred)
      PROVE  ~Passes(b, conn)
  BY <1>1 DEF Known, Stopped, Passes, admitNewConnectionAuthorization
<1>2. RevokedNeverPasses
  BY <1>1 DEF Inv, Fenced, Dead, RevokedNeverPasses
<1>3. CommittedFenceIsSwept
  BY DEF Inv, Good, Swept, CommittedFenceIsSwept, Live
<1> QED BY <1>2, <1>3 DEF RevocationHolds

LEMMA Invariance ==
    ASSUME BrokerAssumption
    PROVE  Spec => []Inv
<1>1. Init => Inv
  BY InitInv
<1>2. Inv /\ [Next]_vars => Inv'
  BY NextInv
<1> QED BY <1>1, <1>2, PTL DEF Spec

\* The broker's tables have their types (attachHostCarrier, openClientRoute).
THEOREM TypeCorrect ==
    ASSUME BrokerAssumption
    PROVE  Spec => []TypeOK
<1>1. Inv => TypeOK
  BY InvTypeOK
<1> QED BY <1>1, Invariance, PTL

\* However many host processes register, replace one another, disconnect,
\* expire or misbehave, at most one carrier is the connector, the directory
\* names it exactly while it is, and no client's route outlives it
\* (acknowledgeHostControlDelivery, disconnectHost, invalidateConnectorRoutes).
THEOREM ConnectorServes ==
    ASSUME BrokerAssumption
    PROVE  Spec => []OneConnectorServes
<1>1. Inv => OneConnectorServes
  BY InvConnector
<1> QED BY <1>1, Invariance, PTL

\* Whatever is verified, attached, reauthenticated or restarted between the
\* steps of a revocation or a key removal, no connection with its credential
\* passes once it is on disk, and none is left once its fence is committed
\* (beginLiveAuthorizationInvalidation, compareAndPublish, failClosed).
THEOREM RevokedForGood ==
    ASSUME BrokerAssumption
    PROVE  Spec => []RevocationHolds
<1>1. Inv => RevocationHolds
  BY InvRevocation
<1> QED BY <1>1, Invariance, PTL

=============================================================================
