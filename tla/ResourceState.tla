---------------------------- MODULE ResourceState ----------------------------
(***************************************************************************)
(* The materialized resources of the relay host                            *)
(* (src/relay/v2/resourceState.ts): the durable list of scopes and tmux    *)
(* sessions the host shows to its clients.  Two writers change it: the     *)
(* reconciliation, which scans the scopes (canonicalTwRpcDiscovery.ts) and *)
(* applies what it saw, and the commands of the ledger                     *)
(* (hostCommandPlane.ts), which reserve a session before they create it.   *)
(* Meanwhile sessions come and go outside, scopes are reconfigured, calls  *)
(* fail, answers are lost and the host dies.                               *)
(***************************************************************************)
EXTENDS Naturals, FiniteSets

CONSTANTS
    Scope,          \* the backend identities of scopes, scanned in their order
    Cmd,            \* the commands that create a session
    ScopeOf,        \* the scope a command creates in
    TargetOf,       \* the logical target (a name) of a command
    None,
    Attempts,       \* RECONCILE_MAX_ATTEMPTS
    MaxRecords,     \* maxSnapshotRecords
    MaxKeys,        \* bound on the backend sessions ever made
    MaxFaults,      \* bound on crashes, failed scans and failed commits
    MaxConfig,      \* bound on reconfigurations
    MaxDeaths       \* bound on the sessions killed

ResourceStateAssumption ==
    /\ Scope \subseteq Nat /\ None \notin Cmd
    /\ ScopeOf \in [Cmd -> Scope] /\ DOMAIN TargetOf = Cmd
    /\ Attempts \in Nat \ {0} /\ MaxRecords \in Nat /\ MaxKeys \in Nat
    /\ MaxFaults \in Nat /\ MaxConfig \in Nat /\ MaxDeaths \in Nat

VARIABLES
    mat,        \* the persisted materialized state
    ledger,     \* the state of each command's record
    up,         \* the host process serves
    runner,     \* runAcceptedWorker of each command
    kill,       \* a kill_session command under way
    rec,        \* runReconcile
    resolver,   \* publishedCanonicalResolver
    config,     \* the scopes of the discovery configuration
    world,      \* the live tmux sessions
    flight,     \* commands whose backend operation has not ended
    made,       \* history: the backend session each command made, or 0
    named,      \* history: the backend sessions each session id has named
    keys, faults, configs, deaths

vars == <<mat, ledger, up, runner, kill, rec, resolver, config, world, flight, made,
          named, keys, faults, configs, deaths>>

-----------------------------------------------------------------------------
NoReservation == [on |-> FALSE, id |-> 0, bound |-> 0, uncertain |-> FALSE]

Reservation == [on : BOOLEAN, id : Nat, bound : Nat, uncertain : BOOLEAN]

NoScope == [known |-> FALSE, online |-> FALSE, complete |-> FALSE, authority |-> FALSE]

Session == [id : Nat, key : Nat, scope : Scope, origin : Cmd \cup {None}]

Idle == [pc |-> "idle", n |-> 1, moved |-> FALSE, current |-> FALSE,
         cands |-> {}, todo |-> {}, scan |-> <<>>, evidence |-> {}]

NoRunner == [pc |-> "none", key |-> 0]

NoKill == [pc |-> "none", id |-> 0, key |-> 0]

NoResolver == [on |-> FALSE, current |-> FALSE, digest |-> <<>>]

active(m, c) == m.res[c].on

mapped(m, c) == \E s \in m.sessions : s.origin = c

Lowest(S) == CHOOSE x \in S : \A y \in S : x <= y

(* The materialized generation changes with every mutation.  All a         *)
(* reconciliation asks of it is whether it moved since the scan cut.       *)
advanceMaterializedGeneration == rec' = [rec EXCEPT !.moved = rec.pc # "idle"]

Name(m) == named' = named \cup {<<s.id, s.key>> : s \in m.sessions}

-----------------------------------------------------------------------------
(* Capacity and readiness.                                                 *)
measureMaterializedRecords(m) ==
    2 * Cardinality({s \in Scope : m.scope[s].known}) + Cardinality(m.sessions)
      + Cardinality({c \in Cmd : active(m, c)})

withinCapacity(m) == measureMaterializedRecords(m) <= MaxRecords

readinessFor(m) ==
    /\ ~m.fenced /\ m.established /\ m.coverage /\ withinCapacity(m)
    /\ \A s \in Scope : m.scope[s].known =>
          m.scope[s].authority /\ (m.scope[s].online => m.scope[s].complete)

canonicalResolverResourceMappingDigest(m) ==
    <<m.established, m.coverage, m.scope, m.sessions>>

currentCanonicalResolver(m) ==
    /\ resolver.on /\ resolver.current
    /\ resolver.digest = canonicalResolverResourceMappingDigest(m)

-----------------------------------------------------------------------------
(* A command that creates a session: admission, execution, settlement.     *)

reserveCommandResource(m, c) ==
    [m EXCEPT !.res[c] = [NoReservation EXCEPT !.on = TRUE, !.id = m.ids + 1],
              !.ids = @ + 1]

canReserve(m, c) ==
    /\ readinessFor(m)
    /\ LET sc == m.scope[ScopeOf[c]] IN sc.known /\ sc.online /\ sc.complete /\ sc.authority
    /\ ~\E d \in Cmd : active(m, d) /\ ScopeOf[d] = ScopeOf[c] /\ TargetOf[d] = TargetOf[c]
    /\ withinCapacity(reserveCommandResource(m, c))

(* execute: the scope is resolved, and the resolution is fenced in the     *)
(* transaction that reserves and accepts.                                  *)
Admit(c) ==
    /\ up /\ ledger[c] = "none"
    /\ currentCanonicalResolver(mat) /\ ~mat.fenced
    /\ canReserve(mat, c)
    /\ mat' = reserveCommandResource(mat, c)
    /\ ledger' = [ledger EXCEPT ![c] = "accepted"]
    /\ advanceMaterializedGeneration
    /\ UNCHANGED <<up, runner, kill, resolver, config, world, flight, made, named, keys, faults, configs, deaths>>

claimAccepted(c) ==
    /\ up /\ ledger[c] = "accepted"
    /\ ledger' = [ledger EXCEPT ![c] = "running"]
    /\ runner' = [runner EXCEPT ![c] = [pc |-> "exec", key |-> 0]]
    /\ flight' = flight \cup {c}
    /\ UNCHANGED <<mat, up, kill, rec, resolver, config, world, made, named, keys, faults, configs, deaths>>

(* The backend makes the session, stamped with its reservation, or         *)
(* refuses; it does so whether or not anyone still waits for the answer.   *)
Backend(c) ==
    /\ c \in flight /\ flight' = flight \ {c}
    /\ \/ /\ keys < MaxKeys /\ keys' = keys + 1
          /\ made' = [made EXCEPT ![c] = keys + 1]
          /\ world' = world \cup {[key |-> keys + 1, scope |-> ScopeOf[c], cmd |-> c]}
       \/ UNCHANGED <<keys, made, world>>
    /\ UNCHANGED <<mat, ledger, up, runner, kill, rec, resolver, config, named, faults, configs, deaths>>

(* The executor's answer: the session made, a proof that nothing was       *)
(* applied, or an error that proves nothing.                               *)
executeTwRpc(c) ==
    /\ up /\ runner[c].pc = "exec"
    /\ \/ /\ c \notin flight
          /\ runner' = [runner EXCEPT ![c] =
                           IF made[c] # 0 THEN [pc |-> "made", key |-> made[c]]
                                          ELSE [pc |-> "refused", key |-> 0]]
          /\ UNCHANGED faults
       \/ /\ faults < MaxFaults /\ faults' = faults + 1
          /\ runner' = [runner EXCEPT ![c].pc = "unknown"]
    /\ UNCHANGED <<mat, ledger, up, kill, rec, resolver, config, world, flight, made, named, keys, configs, deaths>>

(* The reservation becomes a session under its reserved id, unless the     *)
(* backend session is listed already: then that record is the session.     *)
materializeReservation(m, c, key) ==
    LET listed == {s \in m.sessions : s.key = key /\ s.scope = ScopeOf[c]}
    IN  [m EXCEPT !.res[c] = NoReservation,
                  !.sessions =
                      IF listed # {}
                      THEN (@ \ listed) \cup {[s EXCEPT !.origin = c] : s \in listed}
                      ELSE @ \cup {[id |-> m.res[c].id, key |-> key,
                                    scope |-> ScopeOf[c], origin |-> c]}]

\* Mutant: the session the scan has listed for this command is listed again.
commitCommandResource_duplicates(m, c, key) ==
    IF active(m, c) THEN materializeReservation(m, c, key)
    ELSE [m EXCEPT !.ids = @ + 1,
                   !.sessions = @ \cup {[id |-> m.ids + 1, key |-> key,
                                         scope |-> ScopeOf[c], origin |-> c]}]

commitCommandResource(m, c, key) ==
    IF active(m, c) THEN materializeReservation(m, c, key) ELSE m

commitThrows(m, c, key) ==
    \/ ~active(m, c) /\ ~mapped(m, c)
    \/ active(m, c) /\ m.res[c].bound \notin {0, key}
    \/ \E s \in m.sessions : s.key = key /\ s.origin \notin {None, c}
    \/ \E s \in m.sessions : s.origin = c /\ s.key # key
    \/ ~withinCapacity(commitCommandResource(m, c, key))

(* finalizeRunning after a successful execution; a commit that throws, or  *)
(* a store that fails, leaves the rest to markInDoubt.                     *)
finalizeRunning(c) ==
    /\ up /\ runner[c].pc = "made"
    /\ \/ /\ ~commitThrows(mat, c, runner[c].key)
          /\ mat' = commitCommandResource(mat, c, runner[c].key)
          /\ Name(mat') /\ advanceMaterializedGeneration
          /\ ledger' = [ledger EXCEPT ![c] = "succeeded"]
          /\ runner' = [runner EXCEPT ![c] = NoRunner]
          /\ UNCHANGED faults
       \/ /\ \/ commitThrows(mat, c, runner[c].key) /\ UNCHANGED faults
             \/ faults < MaxFaults /\ faults' = faults + 1
          /\ runner' = [runner EXCEPT ![c].pc = "unknown"]
          /\ UNCHANGED <<mat, ledger, rec, named>>
    /\ UNCHANGED <<up, kill, resolver, config, world, flight, made, keys, configs, deaths>>

appendNegativeSettlement(m, c) ==
    [m EXCEPT !.negative = @ \cup {c}, !.res[c] = NoReservation]

(* finalizeRunning after a refusal: the reservation is released.           *)
finalizeRefused(c) ==
    /\ up /\ runner[c].pc = "refused"
    /\ ~mapped(mat, c) /\ active(mat, c) /\ mat.res[c].bound = 0
    /\ mat' = appendNegativeSettlement(mat, c)
    /\ ledger' = [ledger EXCEPT ![c] = "failed"]
    /\ runner' = [runner EXCEPT ![c] = NoRunner]
    /\ advanceMaterializedGeneration
    /\ UNCHANGED <<up, kill, resolver, config, world, flight, made, named, keys, faults, configs, deaths>>

(* settle with retain_uncertain.                                           *)
settleThrows(m, c) == ~mapped(m, c) /\ ~active(m, c)

retainUncertain(m, c, key) ==
    IF mapped(m, c) THEN m
    ELSE [m EXCEPT !.res[c].uncertain = TRUE,
                   !.res[c].bound = IF key # 0 THEN key ELSE @]

(* markInDoubt; when the settlement throws the record stays "running" and  *)
(* nobody runs it any more.                                                *)
markInDoubt(c) ==
    /\ up /\ runner[c].pc = "unknown"
    /\ runner' = [runner EXCEPT ![c] = NoRunner]
    /\ \/ /\ ~settleThrows(mat, c)
          /\ mat' = retainUncertain(mat, c, runner[c].key)
          /\ ledger' = [ledger EXCEPT ![c] = "in_doubt"]
          /\ IF mat' = mat THEN UNCHANGED rec ELSE advanceMaterializedGeneration
       \/ settleThrows(mat, c) /\ UNCHANGED <<mat, ledger, rec>>
    /\ UNCHANGED <<up, kill, resolver, config, world, flight, made, named, keys, faults, configs, deaths>>

-----------------------------------------------------------------------------
(* A command that kills a session: its id is resolved through the          *)
(* published resolver, the exact incarnation is killed, the record goes.   *)
resolveCanonicalSessionForAdmission ==
    /\ up /\ kill.pc = "none" /\ currentCanonicalResolver(mat) /\ ~mat.fenced
    /\ \E s \in resolver.digest[4] : kill' = [pc |-> "exec", id |-> s.id, key |-> s.key]
    /\ UNCHANGED <<mat, ledger, up, runner, rec, resolver, config, world, flight, made, named, keys,
                   faults, configs, deaths>>

KillBackend ==
    /\ up /\ kill.pc = "exec"
    /\ deaths < MaxDeaths /\ deaths' = deaths + 1
    /\ world' = {w \in world : w.key # kill.key}
    /\ kill' = [kill EXCEPT !.pc = "killed"]
    /\ UNCHANGED <<mat, ledger, up, runner, rec, resolver, config, flight, made, named, keys, faults, configs>>

(* commitCommandResource for kill_session; it throws when the session is   *)
(* not listed any more, and the command is in doubt.                       *)
KillCommit ==
    /\ up /\ kill.pc = "killed"
    /\ LET target == {s \in mat.sessions : s.id = kill.id /\ s.key = kill.key}
           next == [mat EXCEPT !.sessions = @ \ target]
       IN  IF target # {} /\ withinCapacity(next)
           THEN mat' = next /\ advanceMaterializedGeneration
           ELSE UNCHANGED <<mat, rec>>
    /\ kill' = NoKill
    /\ UNCHANGED <<ledger, up, runner, resolver, config, world, flight, made, named, keys, faults, configs, deaths>>

-----------------------------------------------------------------------------
(* Reconciliation: the scan cut, the scan, the evidence, the application.  *)

ScanCut ==
    /\ up /\ rec.pc = "idle"
    /\ rec' = [Idle EXCEPT !.pc = "scan", !.n = rec.n, !.todo = config, !.current = TRUE,
                           !.cands = {c \in Cmd : /\ mat.res[c].on /\ mat.res[c].uncertain
                                                  /\ mat.res[c].bound = 0}]
    /\ UNCHANGED <<mat, ledger, up, runner, kill, resolver, config, world, flight, made, named, keys,
                   faults, configs, deaths>>

(* scanScope: the sessions of one scope, or a failure of it.               *)
scanScope ==
    /\ up /\ rec.pc = "scan" /\ rec.current /\ rec.todo # {}
    /\ LET s == Lowest(rec.todo)
           Saw(how) ==
               rec' = [rec EXCEPT !.todo = @ \ {s},
                                  !.scan = [t \in DOMAIN @ \cup {s} |->
                          IF t \in DOMAIN @ THEN @[t]
                          ELSE [how |-> how,
                                seen |-> IF how = "ok" THEN {w \in world : w.scope = s} ELSE {}]]]
       IN  \/ Saw("ok") /\ UNCHANGED faults
           \/ /\ faults < MaxFaults /\ faults' = faults + 1
              /\ Saw("unreachable") \/ Saw("failed")
    /\ UNCHANGED <<mat, ledger, up, runner, kill, resolver, config, world, flight, made, named, keys, configs, deaths>>

(* The scan completes, unless a reconfiguration aborted it, and is the     *)
(* current one; the resolver of an earlier scan is not.  The negative      *)
(* evidence is then asked for: the canonical executor gives it for         *)
(* operations that ended and made nothing.                                 *)
fencedNegativeEvidence ==
    /\ up /\ rec.pc = "scan" /\ (rec.todo = {} \/ ~rec.current)
    /\ \E E \in SUBSET {c \in rec.cands : c \notin flight /\ made[c] = 0} :
          rec' = [rec EXCEPT !.pc = "apply", !.evidence = E]
    /\ resolver' = IF rec.current THEN [resolver EXCEPT !.current = FALSE] ELSE resolver
    /\ UNCHANGED <<mat, ledger, up, runner, kill, config, world, flight, made, named, keys, faults, configs, deaths>>

scanCoverage(scan) == \A s \in DOMAIN scan : scan[s].how = "ok"

Seen(scan) == UNION {scan[s].seen : s \in DOMAIN scan}

scanAuthorityConflict(m, scan, evidence) ==
    \E w \in {x \in Seen(scan) : x.cmd # None} :
        \/ w.cmd \in m.negative \cup evidence
        \/ active(m, w.cmd) /\ (w.scope # ScopeOf[w.cmd] \/ m.res[w.cmd].bound \notin {0, w.key})
        \/ ~active(m, w.cmd) /\ ~\E s \in m.sessions : s.origin = w.cmd /\ s.key = w.key

(* What the scan makes of the sessions of a scope it listed completely.    *)
(* New sessions get the next ids, a correlated reservation its own id.     *)
discoverSessions(m, scan, s) ==
    LET fresh == {w.key : w \in {x \in Seen(scan) : /\ ~\E o \in m.sessions : o.key = x.key
                                                    /\ (x.cmd = None \/ ~active(m, x.cmd))}}
        Issue(k) == m.ids + Cardinality({j \in fresh : j <= k})
        Ours(w) == w.cmd # None /\ active(m, w.cmd)
        Old(w) == CHOOSE o \in m.sessions : o.key = w.key
    IN  {IF \E o \in m.sessions : o.key = w.key
         THEN [Old(w) EXCEPT !.origin = IF Ours(w) THEN w.cmd ELSE @]
         ELSE [id |-> IF Ours(w) THEN m.res[w.cmd].id ELSE Issue(w.key), key |-> w.key,
               scope |-> s, origin |-> IF Ours(w) THEN w.cmd ELSE None] : w \in scan[s].seen}

keepsLastKnown(how) == how # "ok"

(* Sessions a complete scan did not see are deleted, those of a scope it   *)
(* could not list are kept, and a scope that is no longer configured goes  *)
(* with its sessions, unless a reservation holds it.                       *)
applyDiscovery(m, scan) ==
    LET complete == scanCoverage(scan)
        held(s) == \E c \in Cmd : active(m, c) /\ ScopeOf[c] = s
        dropped == {s \in Scope \ DOMAIN scan : complete /\ m.scope[s].known /\ ~held(s)}
        kept == {s \in Scope \ DOMAIN scan : m.scope[s].known} \ dropped
        NextScope(s) ==
            LET sc == m.scope[s]
                how == scan[s].how
            IN  [known |-> TRUE, online |-> how # "unreachable",
                 complete |-> how = "ok" \/ (how = "unreachable" /\ sc.authority),
                 authority |-> sc.authority \/ how = "ok"]
        seen == Seen(scan)
    IN  [m EXCEPT
            !.scope = [s \in Scope |-> IF s \in DOMAIN scan THEN NextScope(s)
                                       ELSE IF s \in kept THEN m.scope[s] ELSE NoScope],
            !.sessions = {o \in @ : \/ o.scope \in kept
                                    \/ o.scope \in DOMAIN scan /\ keepsLastKnown(scan[o.scope].how)}
                         \cup UNION {discoverSessions(m, scan, s) : s \in DOMAIN scan},
            !.ids = @ + Cardinality({w \in seen : /\ ~\E o \in m.sessions : o.key = w.key
                                                  /\ (w.cmd = None \/ ~active(m, w.cmd))}),
            !.res = [c \in Cmd |-> IF \E w \in seen : w.cmd = c THEN NoReservation ELSE @[c]],
            !.coverage = complete /\ ~\E s \in kept : held(s),
            !.established = @ \/ complete,
            !.fenced = FALSE]

applyFencedNegativeEvidence(m, evidence) ==
    [m EXCEPT !.negative = @ \cup evidence,
              !.res = [c \in Cmd |-> IF c \in evidence THEN NoReservation ELSE @[c]]]

evidenceThrows(m, evidence) ==
    \E c \in evidence : \/ ~active(m, c) \/ ~m.res[c].uncertain \/ m.res[c].bound # 0
                        \/ ledger[c] # "in_doubt"

\* Mutant: the generation of the scan cut is not compared.
Stale_ignoresGeneration == ~rec.current

Stale == rec.moved \/ ~rec.current

publishCanonicalResolver(m) ==
    LET exact == /\ readinessFor(m)
                 /\ \A s \in Scope : m.scope[s].known =>
                       m.scope[s].online /\ m.scope[s].complete
                 /\ {s \in Scope : m.scope[s].known} = DOMAIN rec.scan
    IN  IF scanCoverage(rec.scan) /\ exact
        THEN [on |-> TRUE, current |-> TRUE, digest |-> canonicalResolverResourceMappingDigest(m)]
        ELSE NoResolver

(* The attempt: stale scans are retried and then latched, a conflict of    *)
(* authority latches the durable fence, anything else is applied.          *)
ReconcileApply ==
    /\ up /\ rec.pc = "apply"
    /\ \/ /\ Stale /\ rec.n < Attempts
          /\ rec' = [Idle EXCEPT !.n = rec.n + 1]
          /\ UNCHANGED <<mat, resolver, named, faults>>
       \/ /\ Stale /\ rec.n = Attempts
          /\ mat' = [mat EXCEPT !.fenced = TRUE]
          /\ rec' = Idle /\ resolver' = NoResolver /\ UNCHANGED <<named, faults>>
       \/ /\ ~Stale /\ scanAuthorityConflict(mat, rec.scan, rec.evidence)
          /\ mat' = [mat EXCEPT !.fenced = TRUE]
          /\ rec' = Idle /\ resolver' = NoResolver /\ UNCHANGED <<named, faults>>
       \/ /\ ~Stale /\ ~scanAuthorityConflict(mat, rec.scan, rec.evidence)
          /\ ~evidenceThrows(mat, rec.evidence)
          /\ mat' = applyDiscovery(applyFencedNegativeEvidence(mat, rec.evidence), rec.scan)
          /\ resolver' = publishCanonicalResolver(mat')
          /\ rec' = Idle /\ Name(mat') /\ UNCHANGED faults
       \/ /\ faults < MaxFaults /\ faults' = faults + 1 /\ ~Stale
          /\ rec' = Idle /\ UNCHANGED <<mat, resolver, named>>
    /\ UNCHANGED <<ledger, up, runner, kill, config, world, flight, made, keys, configs, deaths>>

-----------------------------------------------------------------------------
(* Outside the host.                                                       *)
OutsideCreate(s) ==
    /\ keys < MaxKeys /\ keys' = keys + 1
    /\ world' = world \cup {[key |-> keys + 1, scope |-> s, cmd |-> None]}
    /\ UNCHANGED <<mat, ledger, up, runner, kill, rec, resolver, config, flight, made, named, faults, configs, deaths>>

OutsideKill ==
    /\ deaths < MaxDeaths /\ deaths' = deaths + 1
    /\ \E w \in world : world' = world \ {w}
    /\ UNCHANGED <<mat, ledger, up, runner, kill, rec, resolver, config, flight, made, named, keys, faults, configs>>

(* reconfigureAfterRetirement: the scan in flight is aborted and the       *)
(* published resolver is not current any more.                             *)
Reconfigure ==
    /\ up /\ configs < MaxConfig /\ configs' = configs + 1
    /\ \E S \in (SUBSET Scope) \ {{}, config} : config' = S
    /\ rec' = [rec EXCEPT !.current = FALSE, !.todo = {}]
    /\ resolver' = [resolver EXCEPT !.current = FALSE]
    /\ UNCHANGED <<mat, ledger, up, runner, kill, world, flight, made, named, keys, faults, deaths>>

Crash ==
    /\ up /\ faults < MaxFaults /\ faults' = faults + 1 /\ up' = FALSE
    /\ runner' = [c \in Cmd |-> NoRunner] /\ kill' = NoKill
    /\ rec' = Idle /\ resolver' = NoResolver
    /\ UNCHANGED <<mat, ledger, config, world, flight, made, named, keys, configs, deaths>>

(* recoverInterrupted settles every running command in one transaction: if *)
(* one settlement throws, the host does not start.                         *)
recoverInterrupted ==
    LET running == {c \in Cmd : ledger[c] = "running"}
    IN  /\ ~up /\ \A c \in running : ~settleThrows(mat, c)
        /\ up' = TRUE
        /\ mat' = [mat EXCEPT !.res = [c \in Cmd |->
                      IF c \in running THEN retainUncertain(mat, c, 0).res[c] ELSE @[c]]]
        /\ ledger' = [c \in Cmd |-> IF c \in running THEN "in_doubt" ELSE ledger[c]]
        /\ UNCHANGED <<runner, kill, rec, resolver, config, world, flight, made, named, keys, faults, configs, deaths>>

-----------------------------------------------------------------------------
Init ==
    /\ mat = [scope |-> [s \in Scope |-> NoScope], sessions |-> {},
              res |-> [c \in Cmd |-> NoReservation], negative |-> {}, ids |-> 0,
              coverage |-> FALSE, established |-> FALSE, fenced |-> FALSE]
    /\ ledger = [c \in Cmd |-> "none"] /\ up = TRUE
    /\ runner = [c \in Cmd |-> NoRunner] /\ kill = NoKill
    /\ rec = Idle /\ resolver = NoResolver
    /\ config = Scope /\ world = {} /\ flight = {}
    /\ made = [c \in Cmd |-> 0] /\ named = {}
    /\ keys = 0 /\ faults = 0 /\ configs = 0 /\ deaths = 0

Reconcile == ScanCut \/ scanScope \/ fencedNegativeEvidence \/ ReconcileApply

CommandStep(c) ==
    \/ Admit(c) \/ claimAccepted(c) \/ Backend(c) \/ executeTwRpc(c)
    \/ finalizeRunning(c) \/ finalizeRefused(c) \/ markInDoubt(c)

KillStep == resolveCanonicalSessionForAdmission \/ KillBackend \/ KillCommit

Next ==
    \/ Reconcile
    \/ \E c \in Cmd : CommandStep(c)
    \/ KillStep
    \/ \E s \in Scope : OutsideCreate(s)
    \/ OutsideKill \/ Reconfigure \/ Crash \/ recoverInterrupted

Spec == Init /\ [][Next]_vars

(* The lifecycle owner (materializedReconcileLifecycleOwner.ts) reconciles *)
(* again and again; the backend's operations end, the runners of claimed   *)
(* commands go on and a host that died is started again.                   *)
FairSpec ==
    /\ Spec /\ WF_vars(Reconcile) /\ WF_vars(KillBackend) /\ WF_vars(KillCommit)
    /\ WF_vars(recoverInterrupted)
    /\ \A c \in Cmd : /\ WF_vars(claimAccepted(c)) /\ WF_vars(Backend(c))
                       /\ WF_vars(executeTwRpc(c)) /\ WF_vars(finalizeRunning(c))
                       /\ WF_vars(finalizeRefused(c)) /\ WF_vars(markInDoubt(c))

-----------------------------------------------------------------------------
(* The records keep their shape: a session is listed under an id that was  *)
(* issued, and a reservation is held by a command that is not final.       *)
TypeOK ==
    /\ mat.sessions \subseteq Session /\ mat.res \in [Cmd -> Reservation]
    /\ mat.negative \subseteq Cmd
    /\ \A s \in mat.sessions : s.id \in 1..mat.ids
    /\ \A c \in Cmd : active(mat, c) =>
          mat.res[c].id \in 1..mat.ids /\ ledger[c] \in {"accepted", "running", "in_doubt"}

(* A session id names one backend session for the life of the host,        *)
(* whatever scans, reservations, adoptions and deletions went before: the  *)
(* clients' routes, drafts and terminals hang on it.                       *)
IdForLife == \A n, o \in named : n[1] = o[1] => n[2] = o[2]

(* A backend session is listed once, though the scan and the command that  *)
(* made it both report it, in either order.                                *)
OneRecordPerBackend == \A s, t \in mat.sessions : s.key = t.key => s = t

(* The list loses a session only when it is dead or its scope was taken    *)
(* out of the configuration: no scan taken before the session was          *)
(* committed, and none that failed, deletes it.                            *)
DeletedStep ==
    \A s \in mat.sessions :
       (\A t \in mat'.sessions : t.id # s.id)
           => \/ \A w \in world' : w.key # s.key
              \/ s.scope \notin config

DeletedIsDead == [][DeletedStep]_vars

(* A negative settlement is the truth: the command's backend operation has *)
(* ended and made nothing, so the name may be given to another command.    *)
NegativeIsTrue == \A c \in mat.negative : made[c] = 0 /\ c \notin flight

(* A live session of a configured scope that a command of this host made   *)
(* can be traced: its reservation is active or it is the origin of a       *)
(* listed session, so discovery never carries an unknown reservation       *)
(* correlation, which withdraws the whole host.                            *)
LiveIsAttributed ==
    \A w \in world : w.cmd # None /\ w.scope \in config
                        => active(mat, w.cmd) \/ mapped(mat, w.cmd)

(* The list follows the backends, whatever scans, commands, kills and      *)
(* restarts interleave (applyDiscovery, settleCommandResource); the        *)
(* session of a command stays traceable as long as its scope stays         *)
(* configured.                                                             *)
RecordsFollowBackends ==
    /\ IdForLife /\ OneRecordPerBackend /\ NegativeIsTrue
    /\ configs = 0 => LiveIsAttributed

(* The reservation of a running command does not disappear before the      *)
(* command is settled: settle never meets "uncertain reservation           *)
(* disappeared", which the recovery of the host does not survive.          *)
ReservationNeverDisappears ==
    \A c \in Cmd : ledger[c] = "running" => active(mat, c) \/ mapped(mat, c)

Listed == up /\ {s.key : s \in mat.sessions} = {w.key : w \in world} /\ ~mat.fenced

=============================================================================
