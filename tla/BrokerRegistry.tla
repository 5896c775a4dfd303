---------------------------- MODULE BrokerRegistry ----------------------------
(***************************************************************************)
(* The part of the relay v2 broker that decides who serves a host and whose *)
(* credentials still count: registration of host carriers, the directory,   *)
(* replacement of a connector by a newer host process, and the live         *)
(* authorization fences the credential authority installs around a          *)
(* revocation (src/src/relay/v2/brokerCore.ts, with the fence protocol of   *)
(* brokerCredentialAuthority.ts).                                           *)
(*                                                                          *)
(* One host is modelled: every table of the broker is keyed by its id.      *)
(* Routes are a client and the carrier that serves it (RouteCarrier has     *)
(* their frames); a credential is its grant, its signing key and its        *)
(* expiry.  A carrier or client that left the broker's maps is "closed".    *)
(***************************************************************************)
EXTENDS Naturals, FiniteSets

CONSTANTS Carriers,        \* transport ids of host connections, never reused
          Clients,         \* connection ids of client connections
          Instances,       \* hostInstanceIds of the host's processes
          Kids,            \* issuer keys that sign access tokens
          Grants,          \* client grants
          HostGrant,       \* the host's own grant
          None,
          MaxTime,         \* last instant of the broker's clock
          MaxRevocations,  \* revocations and key removals per behaviour
          MaxWithdrawals,  \* withdrawals of an optional capability
          MaxRestarts,     \* broker restarts
          MaxViolations    \* protocol violations of host connections

Cred == [grant : Grants \cup {HostGrant}, kid : Kids, exp : 1 .. MaxTime]

BrokerAssumption ==
    /\ None \notin Carriers \cup Clients \cup Instances \cup Kids \cup Cred
    /\ HostGrant \notin Grants
    /\ MaxTime \in Nat /\ MaxRevocations \in Nat /\ MaxWithdrawals \in Nat
    /\ MaxRestarts \in Nat /\ MaxViolations \in Nat

VARIABLES b,          \* the broker's memory
          authority,  \* the credential authority: durable facts and the mutation under way
          transit,    \* per connection: a verified credential not yet attached, a reauthentication
          now,
          budget      \* remaining faults

vars == <<b, authority, transit, now, budget>>

Invalidation == [reason : {"grant_revoked"}, of : Grants] \cup [reason : {"kid_removed"}, of : Kids]

NoCarrier == [status |-> "absent", cred |-> None, instance |-> None,
              base |-> 0, previous |-> None, close |-> None]
NoClient == [status |-> "absent", cred |-> None, carrier |-> None]

FreshBroker ==
    [carriers |-> [t \in Carriers |-> NoCarrier],
     clients |-> [c \in Clients |-> NoClient],
     active |-> None, registering |-> None,
     directory |-> [revision |-> 0, state |-> "unknown", connector |-> None],
     pending |-> {}, committed |-> {}, latched |-> FALSE, capable |-> TRUE]

NoTransit == [cred |-> None, current |-> None]

-----------------------------------------------------------------------------
(* Whether a credential counts.                                            *)

isAuthorizationExpired(cred) == cred.exp <= now

authMatchesLiveAuthorizationInvalidation(cred, inv) ==
    IF inv.reason = "kid_removed" THEN cred.kid = inv.of ELSE cred.grant = inv.of

committedLiveAuthorizationInvalidationFor(s, cred) ==
    {inv \in s.committed : authMatchesLiveAuthorizationInvalidation(cred, inv)}

liveAuthorizationInvalidationFor_committed(s, cred) ==
    committedLiveAuthorizationInvalidationFor(s, cred)

liveAuthorizationInvalidationFor(s, cred) ==
    {inv \in s.pending \cup s.committed : authMatchesLiveAuthorizationInvalidation(cred, inv)}

admitNewConnectionAuthorization(s, cred) ==
    ~isAuthorizationExpired(cred) /\ ~s.latched /\ liveAuthorizationInvalidationFor(s, cred) = {}

\* A connection of the broker's maps whose credential lets its frames pass.
Passes(s, conn) ==
    /\ conn.status \notin {"absent", "closed", "fenced"}
    /\ admitNewConnectionAuthorization(s, conn.cred)

-----------------------------------------------------------------------------
(* Leaving: the directory, routes, carriers.                               *)

publishDirectory(s, t, state) ==
    [s EXCEPT !.directory = [revision |-> @.revision + 1, state |-> state,
                             connector |-> IF state = "online" THEN t ELSE None]]

\* Every route of the carrier is dropped, and its client with it.
invalidateConnectorRoutes(s, t) ==
    [s EXCEPT !.clients = [c \in Clients |->
        IF @[c].carrier = t THEN [@[c] EXCEPT !.status = "closed", !.carrier = None] ELSE @[c]]]

\* The carrier leaves the maps; the broker asks its transport to close for `reason'.
discardCarrier(s, t, reason) ==
    [s EXCEPT !.carriers[t].status = "closed", !.carriers[t].close = reason,
              !.carriers[t].previous = None, !.carriers[t].base = 0,
              !.registering = IF @ = t THEN None ELSE @]

cancelRegistration(s, t, reason) == discardCarrier(s, t, reason)

\* An active carrier goes offline: the host has no connector any more.
GoesOffline(s, t) ==
    IF s.active # t THEN s
    ELSE invalidateConnectorRoutes(publishDirectory([s EXCEPT !.active = None], t, "offline"), t)

protocolViolation(s, t) == discardCarrier(GoesOffline(s, t), t, "protocol_violation")

fenceHostAuthorization_keepsOwner(s, t, reason) == discardCarrier(s, t, reason)

fenceHostAuthorization(s, t, reason) == discardCarrier(GoesOffline(s, t), t, reason)

\* The route of a fenced client is closing until its transport is gone.
fenceClientAuthorization(s, c) == [s EXCEPT !.clients[c].status = "fenced"]

\* A registration that waits for the connector that just left takes the new
\* revision as its base.
Rebased(s, t) ==
    IF s.registering # None /\ s.carriers[s.registering].previous = t
    THEN [s EXCEPT !.carriers[s.registering].previous = None,
                   !.carriers[s.registering].base = s.directory.revision]
    ELSE s

disconnectHost(s, t) ==
    LET offline == GoesOffline(s, t)
    IN  discardCarrier(IF s.active = t THEN Rebased(offline, t) ELSE offline, t, "disconnected")

\* Checking a carrier's authorization fences it when it expired or was revoked.
isCarrierAuthorizationActive(s, t) ==
    LET cred == s.carriers[t].cred IN
    IF s.latched THEN s
    ELSE IF isAuthorizationExpired(cred) THEN fenceHostAuthorization(s, t, "access_expired")
    ELSE IF committedLiveAuthorizationInvalidationFor(s, cred) # {}
    THEN fenceHostAuthorization(s, t, "revoked") ELSE s

isClientAuthorizationActive(s, c) ==
    LET cred == s.clients[c].cred IN
    IF ~s.latched /\ (isAuthorizationExpired(cred) \/ committedLiveAuthorizationInvalidationFor(s, cred) # {})
    THEN fenceClientAuthorization(s, c) ELSE s

\* The broker refuses everything from now on and closes every connection.
latchCredentialAuthorityUnavailable(s) ==
    [s EXCEPT !.latched = TRUE, !.active = None, !.registering = None,
              !.directory = IF s.active = None THEN @
                            ELSE [revision |-> @.revision + 1, state |-> "offline", connector |-> None],
              !.carriers = [t \in Carriers |->
                  IF @[t].status \in {"absent", "closed"} THEN @[t]
                  ELSE [@[t] EXCEPT !.status = "closed", !.previous = None, !.base = 0,
                                    !.close = "credential_authority_unavailable"]],
              !.clients = [c \in Clients |->
                  IF @[c].status \in {"absent", "closed"} THEN @[c]
                  ELSE [@[c] EXCEPT !.status = "closed", !.carrier = None]]]

Live(t) == b.carriers[t].status \notin {"absent", "closed"}
LiveClient(c) == b.clients[c].status \in {"open", "fenced"}

-----------------------------------------------------------------------------
(* Connections: verified by the authority, attached by the broker later.   *)

authorizeAccessToken(x, cred) ==
    /\ authority.mutation = None
    /\ ~authority.withdrawn
    /\ cred.grant \notin authority.revoked /\ cred.kid \notin authority.removed
    /\ ~isAuthorizationExpired(cred)
    /\ transit' = [transit EXCEPT ![x].cred = cred]

VerifyHost(t, cred) ==
    /\ b.carriers[t].status = "absent" /\ transit[t].cred = None
    /\ cred.grant = HostGrant
    /\ authorizeAccessToken(t, cred)
    /\ UNCHANGED <<b, authority, now, budget>>

VerifyClient(c, cred) ==
    /\ b.clients[c].status = "absent" /\ transit[c].cred = None
    /\ cred.grant \in Grants
    /\ authorizeAccessToken(c, cred)
    /\ UNCHANGED <<b, authority, now, budget>>

attachHostCarrier(t) ==
    /\ b.carriers[t].status = "absent" /\ transit[t].cred # None
    /\ b' = IF admitNewConnectionAuthorization(b, transit[t].cred)
            THEN [b EXCEPT !.carriers[t].status = "pending", !.carriers[t].cred = transit[t].cred]
            ELSE [b EXCEPT !.carriers[t].status = "closed"]
    /\ transit' = [transit EXCEPT ![t] = NoTransit]
    /\ UNCHANGED <<authority, now, budget>>

openClientRoute(c) ==
    LET checked == IF b.active = None THEN b ELSE isCarrierAuthorizationActive(b, b.active)
        served == checked.active # None /\ Passes(checked, checked.carriers[checked.active])
    IN
    /\ b.clients[c].status = "absent" /\ transit[c].cred # None
    /\ b' = IF admitNewConnectionAuthorization(b, transit[c].cred) /\ served
            THEN [checked EXCEPT !.clients[c] =
                    [status |-> "open", cred |-> transit[c].cred, carrier |-> checked.active]]
            ELSE [checked EXCEPT !.clients[c].status = "closed"]
    /\ transit' = [transit EXCEPT ![c] = NoTransit]
    /\ UNCHANGED <<authority, now, budget>>

\* A frame of the client is forwarded when both ends pass.
forwardClientFrame(c) ==
    /\ b.clients[c].status = "open"
    /\ LET afterClient == isClientAuthorizationActive(b, c)
       IN  b' = IF Passes(afterClient, afterClient.clients[c])
                THEN isCarrierAuthorizationActive(afterClient, b.clients[c].carrier)
                ELSE afterClient
    /\ UNCHANGED <<authority, transit, now, budget>>

\* The client's transport ends (the broker's own close of a fenced one included).
unbindClient(c) ==
    /\ LiveClient(c)
    /\ b' = [b EXCEPT !.clients[c].status = "closed", !.clients[c].carrier = None]
    /\ UNCHANGED <<authority, transit, now, budget>>

-----------------------------------------------------------------------------
(* Registration: hello, the host.registered frame, its delivery.           *)

registerHost(t, i) ==
    LET s == isCarrierAuthorizationActive(b, t)
        taken == {b.carriers[x].instance : x \in {b.active, b.registering} \ {None}}
    IN
    /\ b.carriers[t].status = "pending"
    /\ b' = IF ~Passes(s, s.carriers[t]) THEN s
            ELSE IF i \in taken THEN discardCarrier(b, t, "duplicate_connector")
            ELSE IF b.registering # None THEN discardCarrier(b, t, "registration_busy")
            ELSE [b EXCEPT !.registering = t,
                           !.carriers[t].status = "registering",
                           !.carriers[t].instance = i,
                           !.carriers[t].base = b.directory.revision,
                           !.carriers[t].previous = b.active]
    /\ UNCHANGED <<authority, transit, now, budget>>

\* The registered frame was handed to the transport: the directory changes
\* hands unless it changed since the hello.
CommitRace(s, t) ==
    \/ s.directory.revision # s.carriers[t].base
    \/ s.carriers[t].previous # None /\ s.carriers[s.carriers[t].previous].status # "active"

Committed(s, t) ==
    LET previous == s.carriers[t].previous
        online == publishDirectory(
            [s EXCEPT !.registering = None, !.active = t, !.carriers[t].status = "active",
                      !.carriers[t].previous = None, !.carriers[t].base = 0], t, "online")
    IN  IF previous = None THEN online
        ELSE discardCarrier(invalidateConnectorRoutes(online, previous), previous, "host_superseded")

acknowledgeHostControlDelivery(t) ==
    /\ b.carriers[t].status = "registering"
    /\ LET s == isCarrierAuthorizationActive(b, t)
       IN  b' = IF ~Passes(s, s.carriers[t]) THEN s
                ELSE IF CommitRace(s, t) THEN cancelRegistration(s, t, "registration_commit_race")
                ELSE Committed(s, t)
    /\ UNCHANGED <<authority, transit, now, budget>>

rejectHostControlDelivery(t) ==
    /\ b.carriers[t].status = "registering"
    /\ b' = cancelRegistration(b, t, "delivery_failed")
    /\ UNCHANGED <<authority, transit, now, budget>>

\* A frame the protocol does not allow: from a carrier whose registration is
\* not committed, or an invalid one.
InvalidFrame(t) ==
    /\ Live(t) /\ budget.violations > 0
    /\ LET s == isCarrierAuthorizationActive(b, t)
       IN  b' = IF Passes(s, s.carriers[t]) THEN protocolViolation(s, t) ELSE s
    /\ budget' = [budget EXCEPT !.violations = @ - 1]
    /\ UNCHANGED <<authority, transit, now>>

HostGone(t) ==
    /\ Live(t)
    /\ b' = disconnectHost(b, t)
    /\ transit' = [transit EXCEPT ![t] = NoTransit]
    /\ UNCHANGED <<authority, now, budget>>

withdrawOptionalCapability ==
    /\ b.capable /\ budget.withdrawals > 0
    /\ b' = [b EXCEPT !.capable = FALSE,
                      !.directory.revision = IF b.directory.state = "unknown" THEN @ ELSE @ + 1]
    /\ budget' = [budget EXCEPT !.withdrawals = @ - 1]
    /\ UNCHANGED <<authority, transit, now>>

-----------------------------------------------------------------------------
(* Reauthentication: the authority is asked, and its answer is applied to   *)
(* the carrier as it is by then.                                            *)

\* The authority verifies the replacement in an exclusive transaction.
reauthenticateHost(t, next) ==
    /\ b.carriers[t].status = "active" /\ transit[t].cred = None
    /\ Passes(b, b.carriers[t])
    /\ next.grant = HostGrant /\ next # b.carriers[t].cred
    /\ b.carriers[t].cred.kid \notin authority.removed
    /\ authority.mutation = None /\ ~authority.withdrawn
    /\ next.kid \notin authority.removed /\ ~isAuthorizationExpired(next)
    /\ transit' = [transit EXCEPT ![t] = [cred |-> next, current |-> b.carriers[t].cred]]
    /\ UNCHANGED <<b, authority, now, budget>>

handleAuthControl(t) ==
    /\ transit[t].current # None
    /\ LET s == isCarrierAuthorizationActive(b, t) IN
       b' = IF b.carriers[t].status # "active" THEN b
            ELSE IF ~Passes(s, s.carriers[t]) THEN s
            ELSE IF admitNewConnectionAuthorization(s, transit[t].cred)
                    /\ s.carriers[t].cred = transit[t].current
            THEN [s EXCEPT !.carriers[t].cred = transit[t].cred] ELSE s
    /\ transit' = [transit EXCEPT ![t] = NoTransit]
    /\ UNCHANGED <<authority, now, budget>>

\* The expiry deadline of a connection.
recheckHostExpiry(t) ==
    /\ Live(t) /\ isAuthorizationExpired(b.carriers[t].cred)
    /\ b' = fenceHostAuthorization(b, t, "access_expired")
    /\ UNCHANGED <<authority, transit, now, budget>>

recheckClientExpiry(c) ==
    /\ b.clients[c].status = "open" /\ isAuthorizationExpired(b.clients[c].cred)
    /\ b' = fenceClientAuthorization(b, c)
    /\ UNCHANGED <<authority, transit, now, budget>>

-----------------------------------------------------------------------------
(* Revocation: the authority installs a pending fence, publishes the fact,  *)
(* and commits the fence.                                                   *)

beginLiveAuthorizationInvalidation(inv) ==
    /\ budget.revocations > 0 /\ authority.mutation = None /\ ~authority.withdrawn /\ ~b.latched
    /\ inv.of \notin authority.revoked \cup authority.removed
    /\ authority' = [authority EXCEPT !.mutation = inv]
    /\ b' = [b EXCEPT !.pending = @ \cup {inv}]
    /\ budget' = [budget EXCEPT !.revocations = @ - 1]
    /\ UNCHANGED <<transit, now>>

Revoked(a, inv) ==
    IF inv.reason = "kid_removed" THEN [a EXCEPT !.removed = @ \cup {inv.of}]
    ELSE [a EXCEPT !.revoked = @ \cup {inv.of}]

\* The state is on disk; the answer to the mutation is not there yet.
compareAndPublish ==
    /\ authority.mutation # None /\ ~authority.published
    /\ authority' = [Revoked(authority, authority.mutation) EXCEPT !.published = TRUE]
    /\ UNCHANGED <<b, transit, now, budget>>

\* Direct matches are fenced, the clients before the carriers.
applyCommittedLiveAuthorizationInvalidation(s, inv) ==
    LET hosts == {t \in Carriers : /\ s.carriers[t].status \notin {"absent", "closed"}
                                   /\ authMatchesLiveAuthorizationInvalidation(s.carriers[t].cred, inv)}
        clients == [c \in Clients |->
            IF s.clients[c].status = "open" /\ authMatchesLiveAuthorizationInvalidation(s.clients[c].cred, inv)
            THEN [s.clients[c] EXCEPT !.status = "fenced"] ELSE s.clients[c]]
        owner == IF s.active \in hosts THEN GoesOffline([s EXCEPT !.clients = clients], s.active)
                 ELSE [s EXCEPT !.clients = clients]
    IN  [owner EXCEPT
            !.registering = IF @ \in hosts THEN None ELSE @,
            !.carriers = [t \in Carriers |->
                IF t \in hosts THEN [@[t] EXCEPT !.status = "closed", !.close = "revoked",
                                                 !.previous = None, !.base = 0] ELSE @[t]]]

committed ==
    /\ authority.mutation # None /\ authority.published
    /\ b' = IF b.latched THEN b
            ELSE applyCommittedLiveAuthorizationInvalidation(
                    [b EXCEPT !.pending = @ \ {authority.mutation},
                              !.committed = @ \cup {authority.mutation}], authority.mutation)
    /\ authority' = [authority EXCEPT !.mutation = None, !.published = FALSE]
    /\ UNCHANGED <<transit, now, budget>>

\* The publication's outcome is not known: the authority withdraws and the
\* broker closes every gate.
failClosed ==
    /\ authority.mutation # None
    /\ b' = latchCredentialAuthorityUnavailable([b EXCEPT !.pending = @ \ {authority.mutation}])
    /\ authority' = [authority EXCEPT !.mutation = None, !.published = FALSE, !.withdrawn = TRUE]
    /\ UNCHANGED <<transit, now, budget>>

\* The broker process is restarted: its memory is lost, the authority's
\* facts are not.  Connection ids start over.
Restart ==
    /\ budget.restarts > 0
    /\ b' = FreshBroker
    /\ authority' = [authority EXCEPT !.mutation = None, !.published = FALSE, !.withdrawn = FALSE]
    /\ transit' = [x \in Carriers \cup Clients |-> NoTransit]
    /\ budget' = [budget EXCEPT !.restarts = @ - 1]
    /\ UNCHANGED now

Tick ==
    /\ now < MaxTime
    /\ now' = now + 1
    /\ UNCHANGED <<b, authority, transit, budget>>

-----------------------------------------------------------------------------
Init ==
    /\ b = FreshBroker
    /\ authority = [revoked |-> {}, removed |-> {}, mutation |-> None, published |-> FALSE,
                    withdrawn |-> FALSE]
    /\ transit = [x \in Carriers \cup Clients |-> NoTransit]
    /\ now = 0
    /\ budget = [revocations |-> MaxRevocations, withdrawals |-> MaxWithdrawals,
                 restarts |-> MaxRestarts, violations |-> MaxViolations]

HostStep(t) ==
    \/ \E cred \in Cred : VerifyHost(t, cred) \/ reauthenticateHost(t, cred)
    \/ \E i \in Instances : registerHost(t, i)
    \/ attachHostCarrier(t) \/ acknowledgeHostControlDelivery(t) \/ rejectHostControlDelivery(t)
    \/ InvalidFrame(t) \/ HostGone(t) \/ handleAuthControl(t) \/ recheckHostExpiry(t)

ClientStep(c) ==
    \/ \E cred \in Cred : VerifyClient(c, cred)
    \/ openClientRoute(c) \/ forwardClientFrame(c) \/ unbindClient(c) \/ recheckClientExpiry(c)

Next ==
    \/ \E t \in Carriers : HostStep(t)
    \/ \E c \in Clients : ClientStep(c)
    \/ \E inv \in Invalidation : beginLiveAuthorizationInvalidation(inv)
    \/ compareAndPublish \/ committed \/ failClosed
    \/ withdrawOptionalCapability \/ Restart \/ Tick

Spec == Init /\ [][Next]_vars

-----------------------------------------------------------------------------
(* Type invariant: the tables of attachHostCarrier and openClientRoute.     *)
TypeOK ==
    /\ \A t \in Carriers :
          /\ b.carriers[t].status \in {"absent", "pending", "registering", "active", "closed"}
          /\ b.carriers[t].cred \in Cred \cup {None}
          /\ b.carriers[t].previous \in Carriers \cup {None} /\ b.carriers[t].base \in Nat
    /\ \A c \in Clients :
          /\ b.clients[c].status \in {"absent", "open", "fenced", "closed"}
          /\ b.clients[c].carrier \in Carriers \cup {None}
    /\ b.active \in Carriers \cup {None} /\ b.registering \in Carriers \cup {None}
    /\ b.pending \subseteq Invalidation /\ b.committed \subseteq Invalidation
    /\ authority.mutation \in Invalidation \cup {None}
    /\ now \in 0 .. MaxTime

\* One connector serves the host: the directory is online exactly while a
\* carrier is active, names that carrier, and no other carrier is active or
\* registering beside the one the broker's tables name
\* (acknowledgeHostControlDelivery, disconnectHost, cleanupFencedHostAuthorization).
DirectoryNamesTheConnector ==
    /\ {t \in Carriers : b.carriers[t].status = "active"} = {b.active} \ {None}
    /\ {t \in Carriers : b.carriers[t].status = "registering"} = {b.registering} \ {None}
    /\ (b.directory.state = "online") = (b.active # None)
    /\ b.directory.connector = b.active

\* A client is served by the current connector only: routes do not outlive a
\* replaced, fenced or lost one (invalidateConnectorRoutes).
RoutesFollowTheConnector ==
    \A c \in Clients : LiveClient(c) => (b.clients[c].carrier = b.active /\ b.active # None)

\* One connector serves the host: the directory names it exactly while it is
\* active, and a client is served by it only, however takeovers, fences and
\* disconnects cross (acknowledgeHostControlDelivery, invalidateConnectorRoutes).
OneConnectorServes == DirectoryNamesTheConnector /\ RoutesFollowTheConnector

\* From the moment a revocation or a key removal is on disk no connection
\* with such a credential passes a check of the broker, whether it was
\* attached before, verified before and attached later, or is answered a
\* reauthentication it asked for before: the pending fence covers the time
\* until the committed one replaces it
\* (beginLiveAuthorizationInvalidation, admitReplacementAuthorization).
RevokedNeverPasses ==
    LET Dead(conn) == conn.cred # None
                      /\ (conn.cred.grant \in authority.revoked \/ conn.cred.kid \in authority.removed)
    IN  /\ \A t \in Carriers : Dead(b.carriers[t]) => ~Passes(b, b.carriers[t])
        /\ \A c \in Clients : Dead(b.clients[c]) => ~Passes(b, b.clients[c])

\* Once the fence of a revocation is committed nothing of it is left in the
\* broker's tables: the connector is offline and its clients are closing
\* (applyCommittedLiveAuthorizationInvalidation, admitNewConnectionAuthorization).
CommittedFenceIsSwept ==
    \A inv \in b.committed :
        /\ \A t \in Carriers : Live(t) => ~authMatchesLiveAuthorizationInvalidation(b.carriers[t].cred, inv)
        /\ \A c \in Clients : b.clients[c].status = "open" =>
              ~authMatchesLiveAuthorizationInvalidation(b.clients[c].cred, inv)

\* A revocation holds from the moment it is on disk: no connection with such a
\* credential passes a check of the broker, and once its fence is committed
\* nothing of it is left in the tables (beginLiveAuthorizationInvalidation,
\* applyCommittedLiveAuthorizationInvalidation).
RevocationHolds == RevokedNeverPasses /\ CommittedFenceIsSwept

=============================================================================
