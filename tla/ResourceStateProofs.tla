------------------------ MODULE ResourceStateProofs ------------------------
(***************************************************************************)
(* Proofs about the materialized resources (ResourceState), for any scopes *)
(* and commands, any number of sessions, faults, reconfigurations and      *)
(* kills: an id names one backend session for life, a backend session is   *)
(* listed once, a negative settlement is the truth, and the list loses a   *)
(* session only when it is dead or its scope is configured no more.        *)
(*                                                                         *)
(* The scan a reconciliation applies is a picture of the past.  What makes *)
(* it safe is in the invariant: while nobody has moved the materialized    *)
(* generation, a listed session of a scanned scope that is alive now was   *)
(* seen by the scan.                                                       *)
(***************************************************************************)
EXTENDS ResourceState, FiniteSetTheorems, TLAPS

-----------------------------------------------------------------------------
(* The inductive invariant.                                                *)

\* A backend session, as tmux has it and as a scan reports it.
Backends == [key : Nat, scope : Scope, cmd : Cmd \cup {None}]

ScopeScan == [how : {"ok", "unreachable", "failed"}, seen : SUBSET Backends]

Scans == UNION {[S -> ScopeScan] : S \in SUBSET Scope}

Materialized ==
    [scope : [Scope -> [known : BOOLEAN, online : BOOLEAN,
                        complete : BOOLEAN, authority : BOOLEAN]],
     sessions : SUBSET Session, res : [Cmd -> Reservation], negative : SUBSET Cmd,
     ids : Nat, coverage : BOOLEAN, established : BOOLEAN, fenced : BOOLEAN]

States == {"none", "accepted", "running", "in_doubt", "succeeded", "failed"}

Typed ==
    /\ mat \in Materialized /\ ledger \in [Cmd -> States] /\ up \in BOOLEAN
    /\ runner \in [Cmd -> [pc : {"none", "exec", "made", "refused", "unknown"}, key : Nat]]
    /\ kill \in [pc : {"none", "exec", "killed"}, id : Nat, key : Nat]
    /\ rec \in [pc : {"idle", "scan", "apply"}, n : Nat, moved : BOOLEAN, current : BOOLEAN,
                cands : SUBSET Cmd, todo : SUBSET Scope, scan : Scans, evidence : SUBSET Cmd]
    /\ config \subseteq Scope /\ world \subseteq Backends /\ flight \subseteq Cmd
    /\ made \in [Cmd -> Nat] /\ named \subseteq Nat \X Nat
    /\ keys \in Nat /\ configs \in Nat

\* What is alive and what the scan under way has seen.
Sighted == world \cup Seen(rec.scan)

\* A backend key is given once, to one session of one scope, made by one
\* command or by none.
KeysAreGiven ==
    /\ \A w \in Sighted : w.key \in 1..keys
    /\ \A s \in mat.sessions : s.key \in 1..keys
    /\ \A c \in Cmd : made[c] <= keys
    /\ \A c, d \in Cmd : made[c] = made[d] /\ made[c] # 0 => c = d

SightsAgree ==
    /\ \A v, w \in Sighted : v.key = w.key => v = w
    /\ \A w \in Sighted : w.cmd # None => w.key = made[w.cmd] /\ w.scope = ScopeOf[w.cmd]
    /\ \A w \in Sighted, c \in Cmd : w.key = made[c] => w.cmd = c

ListAgrees ==
    /\ OneRecordPerBackend
    /\ \A s \in mat.sessions, w \in Sighted : s.key = w.key => s.scope = w.scope
    /\ \A s \in mat.sessions, c \in Cmd : s.key = made[c] => s.scope = ScopeOf[c]
    /\ \A s \in mat.sessions : s.origin # None => s.key = made[s.origin]

\* An id is on record from the moment it is listed, and the id of a
\* reservation is nobody else's.
IdsAreKept ==
    /\ IdForLife
    /\ \A n \in named : n[1] \in 1..mat.ids
    /\ \A s \in mat.sessions : <<s.id, s.key>> \in named

ReservedApart ==
    \A c \in Cmd : active(mat, c) =>
        /\ mat.res[c].id \in 1..mat.ids
        /\ \A n \in named : n[1] # mat.res[c].id
        /\ \A d \in Cmd : active(mat, d) /\ mat.res[d].id = mat.res[c].id => d = c

\* How far a command has come.
Reserved ==
    \A c \in Cmd :
        /\ active(mat, c) => ledger[c] \in {"accepted", "running", "in_doubt"}
        /\ active(mat, c) /\ mat.res[c].uncertain => ledger[c] = "in_doubt"
        /\ ledger[c] = "accepted" => active(mat, c)
        /\ c \in flight => active(mat, c) /\ made[c] = 0
        /\ ledger[c] \in {"none", "accepted"} => c \notin flight /\ made[c] = 0

Executed ==
    \A c \in Cmd :
        /\ runner[c].pc # "none" => up /\ ledger[c] = "running"
        /\ runner[c].pc = "made" => runner[c].key = made[c] /\ made[c] # 0
        /\ runner[c].pc = "refused" => c \notin flight /\ made[c] = 0

\* What a settlement or a reconciliation takes for proven.
Proven ==
    /\ NegativeIsTrue
    /\ \A c \in rec.evidence : made[c] = 0 /\ c \notin flight
    /\ \A c \in mat.negative \cup rec.cands \cup rec.evidence :
          ledger[c] \notin {"none", "accepted"}

\* A session that a kill command has reported killed is dead.
KilledIsDead ==
    /\ kill.pc # "none" => kill.key \in 1..keys
    /\ kill.pc = "killed" => \A w \in world : w.key # kill.key

\* The scan: of what it covers and how true it still is.
Scanned ==
    /\ rec.pc = "idle" => DOMAIN rec.scan = {} /\ rec.evidence = {}
    /\ rec.pc # "idle" /\ rec.current => DOMAIN rec.scan \cup rec.todo = config
    /\ rec.pc = "apply" /\ rec.current => rec.todo = {}
    /\ \A s \in DOMAIN rec.scan :
          /\ \A w \in rec.scan[s].seen : w.scope = s
          /\ rec.scan[s].how # "ok" => rec.scan[s].seen = {}

StillTrue ==
    ~rec.moved => \A s \in DOMAIN rec.scan : rec.scan[s].how = "ok" =>
        \A o \in mat.sessions, w \in world :
            o.scope = s /\ w.key = o.key => w \in rec.scan[s].seen

Attributed == configs = 0 => config = Scope /\ LiveIsAttributed

Inv ==
    /\ Typed /\ KeysAreGiven /\ SightsAgree /\ ListAgrees /\ IdsAreKept /\ ReservedApart
    /\ Reserved /\ Executed /\ Proven /\ KilledIsDead /\ Scanned /\ StillTrue /\ Attributed


-----------------------------------------------------------------------------
(* Scans and records.                                                      *)

LEMMA NoScanYet ==
    /\ <<>> \in Scans /\ DOMAIN <<>> = {} /\ Seen(<<>>) = {}
<1>1. <<>> \in [{} -> ScopeScan] /\ DOMAIN <<>> = {}
  OBVIOUS
<1>2. <<>> \in Scans
  BY <1>1 DEF Scans
<1> QED BY <1>1, <1>2 DEF Seen

LEMMA ScanFacts ==
    ASSUME NEW scan \in Scans
    PROVE  /\ DOMAIN scan \subseteq Scope
           /\ \A s \in DOMAIN scan : scan[s] \in ScopeScan
           /\ Seen(scan) \subseteq Backends
<1>1. PICK S \in SUBSET Scope : scan \in [S -> ScopeScan]
  BY DEF Scans
<1>2. DOMAIN scan = S /\ \A s \in S : scan[s] \in ScopeScan
  BY <1>1
<1>3. \A s \in S : scan[s].seen \subseteq Backends
  BY <1>2 DEF ScopeScan
<1> QED BY <1>2, <1>3 DEF Seen

\* The scan of one more scope.
Extended(scan, s, v) == [t \in DOMAIN scan \cup {s} |-> IF t \in DOMAIN scan THEN scan[t] ELSE v]

LEMMA ScanExtends ==
    ASSUME NEW scan \in Scans, NEW s \in Scope, NEW v \in ScopeScan
    PROVE  /\ Extended(scan, s, v) \in Scans
           /\ DOMAIN Extended(scan, s, v) = DOMAIN scan \cup {s}
           /\ \A t \in DOMAIN scan : Extended(scan, s, v)[t] = scan[t]
           /\ s \notin DOMAIN scan => Extended(scan, s, v)[s] = v
           /\ Seen(Extended(scan, s, v)) \subseteq Seen(scan) \cup v.seen
<1>1. DOMAIN scan \cup {s} \in SUBSET Scope /\ \A t \in DOMAIN scan : scan[t] \in ScopeScan
  BY ScanFacts
<1>2. Extended(scan, s, v) \in [DOMAIN scan \cup {s} -> ScopeScan]
  BY <1>1 DEF Extended
<1>3. Extended(scan, s, v) \in Scans
  BY <1>1, <1>2 DEF Scans
<1>4. /\ \A t \in DOMAIN scan : Extended(scan, s, v)[t] = scan[t]
      /\ s \notin DOMAIN scan => Extended(scan, s, v)[s] = v
      /\ DOMAIN Extended(scan, s, v) = DOMAIN scan \cup {s}
  BY DEF Extended
<1>5. Seen(Extended(scan, s, v)) \subseteq Seen(scan) \cup v.seen
  BY <1>4 DEF Seen
<1> QED BY <1>3, <1>4, <1>5

LEMMA Shapes ==
    ASSUME ResourceStateAssumption
    PROVE  /\ NoReservation \in Reservation /\ ~NoReservation.on /\ ~NoReservation.uncertain
           /\ NoScope \in [known : BOOLEAN, online : BOOLEAN, complete : BOOLEAN, authority : BOOLEAN]
           /\ NoRunner \in [pc : {"none", "exec", "made", "refused", "unknown"}, key : Nat]
           /\ NoKill \in [pc : {"none", "exec", "killed"}, id : Nat, key : Nat]
           /\ Idle \in [pc : {"idle", "scan", "apply"}, n : Nat, moved : BOOLEAN, current : BOOLEAN,
                        cands : SUBSET Cmd, todo : SUBSET Scope, scan : Scans, evidence : SUBSET Cmd]
           /\ NoRunner.pc = "none" /\ NoKill.pc = "none"
           /\ Idle.pc = "idle" /\ Idle.scan = <<>> /\ Idle.evidence = {} /\ Idle.cands = {}
<1>1. /\ <<>> \in Scans
      /\ NoReservation = [on |-> FALSE, id |-> 0, bound |-> 0, uncertain |-> FALSE]
  BY NoScanYet DEF NoReservation
<1> QED BY <1>1 DEF Reservation, NoScope, NoRunner, NoKill, Idle, NoReservation

LEMMA InitInv ==
    ASSUME ResourceStateAssumption, Init
    PROVE  Inv
<1> USE DEF Init
<1>1. mat \in Materialized
  BY Shapes DEF Materialized
<1>2. Typed
  BY <1>1, Shapes DEF Typed, States
<1>3. Sighted = {} /\ DOMAIN rec.scan = {} /\ rec.evidence = {} /\ rec.cands = {}
  BY NoScanYet, Shapes DEF Sighted
<1>4. \A c \in Cmd : ~active(mat, c) /\ mat.sessions = {} /\ mat.negative = {}
  BY Shapes DEF active
<1>5. KeysAreGiven /\ SightsAgree
  BY <1>3, <1>4 DEF KeysAreGiven, SightsAgree
<1>6. ListAgrees /\ IdsAreKept /\ ReservedApart
  BY <1>4 DEF ListAgrees, IdsAreKept, ReservedApart, OneRecordPerBackend, IdForLife
<1>7. Reserved /\ Executed
  BY <1>4, Shapes DEF Reserved, Executed
<1>8. Proven /\ KilledIsDead
  BY <1>3, <1>4, Shapes DEF Proven, KilledIsDead, NegativeIsTrue
<1>9. Scanned /\ StillTrue /\ Attributed
  BY <1>3, Shapes DEF Scanned, StillTrue, Attributed, LiveIsAttributed
<1> QED BY <1>2, <1>5, <1>6, <1>7, <1>8, <1>9 DEF Inv

-----------------------------------------------------------------------------
(* What most steps leave alone.                                            *)

\* Nothing new is sighted.
LEMMA NothingNew ==
    ASSUME Inv, UNCHANGED <<mat, made, keys>>, Sighted' \subseteq Sighted
    PROVE  KeysAreGiven' /\ SightsAgree' /\ ListAgrees'
<1>1. KeysAreGiven'
  BY DEF Inv, KeysAreGiven
<1>2. SightsAgree'
  BY DEF Inv, SightsAgree
<1>3. ListAgrees'
  BY DEF Inv, ListAgrees, OneRecordPerBackend
<1> QED BY <1>1, <1>2, <1>3

\* The list is left alone.
LEMMA NothingListed ==
    ASSUME Inv, UNCHANGED <<mat, named>>
    PROVE  IdsAreKept' /\ ReservedApart'
BY DEF Inv, IdsAreKept, ReservedApart, IdForLife, active

\* A mutation of the list tells the scan under way.
LEMMA GenerationMoves ==
    ASSUME Inv, advanceMaterializedGeneration
    PROVE  /\ rec' \in [pc : {"idle", "scan", "apply"}, n : Nat, moved : BOOLEAN, current : BOOLEAN,
                        cands : SUBSET Cmd, todo : SUBSET Scope, scan : Scans, evidence : SUBSET Cmd]
           /\ UNCHANGED <<rec.pc, rec.current, rec.cands, rec.todo, rec.scan, rec.evidence>>
           /\ rec.pc = "idle" \/ rec'.moved
BY DEF Inv, Typed, advanceMaterializedGeneration

-----------------------------------------------------------------------------
(* The steps that leave the list alone.                                    *)

LEMMA ClaimInv ==
    ASSUME ResourceStateAssumption, Inv, NEW c \in Cmd, claimAccepted(c)
    PROVE  Inv'
<1> USE DEF claimAccepted
<1>1. Typed'
  BY DEF Inv, Typed, States
<1>2. KeysAreGiven' /\ SightsAgree' /\ ListAgrees' /\ IdsAreKept' /\ ReservedApart'
  BY NothingNew, NothingListed DEF Sighted
<1>3. Reserved'
  BY DEF Inv, Typed, Reserved, active
<1>4. Executed'
  BY DEF Inv, Typed, Executed, Reserved
<1>5. Proven'
  BY DEF Inv, Typed, Proven, NegativeIsTrue
<1>6. KilledIsDead' /\ Scanned' /\ StillTrue'
  BY DEF Inv, KilledIsDead, Scanned, StillTrue
<1>7. Attributed'
  BY DEF Inv, Attributed, LiveIsAttributed, active, mapped
<1> QED BY <1>1, <1>2, <1>3, <1>4, <1>5, <1>6, <1>7 DEF Inv

LEMMA ExecuteInv ==
    ASSUME ResourceStateAssumption, Inv, NEW c \in Cmd, executeTwRpc(c)
    PROVE  Inv'
<1> USE DEF executeTwRpc
<1>1. Typed'
  <2>1. /\ runner' = [runner EXCEPT ![c] = runner'[c]]
        /\ runner'[c] \in [pc : {"none", "exec", "made", "refused", "unknown"}, key : Nat]
    BY DEF Inv, Typed
  <2> QED BY <2>1 DEF Inv, Typed
<1>2. KeysAreGiven' /\ SightsAgree' /\ ListAgrees' /\ IdsAreKept' /\ ReservedApart'
  BY NothingNew, NothingListed DEF Sighted
<1>3. Reserved'
  BY DEF Inv, Reserved, active
<1>4. Executed'
  BY DEF Inv, Typed, Executed
<1>5. Proven' /\ KilledIsDead' /\ Scanned' /\ StillTrue'
  BY DEF Inv, Proven, NegativeIsTrue, KilledIsDead, Scanned, StillTrue
<1>6. Attributed'
  BY DEF Inv, Attributed, LiveIsAttributed, active, mapped
<1> QED BY <1>1, <1>2, <1>3, <1>4, <1>5, <1>6 DEF Inv

LEMMA ResolveInv ==
    ASSUME ResourceStateAssumption, Inv, resolveCanonicalSessionForAdmission
    PROVE  Inv'
<1> USE DEF resolveCanonicalSessionForAdmission
<1>1. PICK s \in mat.sessions : kill' = [pc |-> "exec", id |-> s.id, key |-> s.key]
  BY DEF currentCanonicalResolver, canonicalResolverResourceMappingDigest
<1>2. Typed'
  BY <1>1 DEF Inv, Typed, Materialized, Session
<1>3. KeysAreGiven' /\ SightsAgree' /\ ListAgrees' /\ IdsAreKept' /\ ReservedApart'
  BY NothingNew, NothingListed DEF Sighted
<1>4. Reserved' /\ Executed'
  BY DEF Inv, Reserved, Executed, active
<1>5. KilledIsDead'
  BY <1>1 DEF Inv, KeysAreGiven, KilledIsDead
<1>6. Proven' /\ Scanned' /\ StillTrue'
  BY DEF Inv, Proven, NegativeIsTrue, Scanned, StillTrue
<1>7. Attributed'
  BY DEF Inv, Attributed, LiveIsAttributed, active, mapped
<1> QED BY <1>2, <1>3, <1>4, <1>5, <1>6, <1>7 DEF Inv

\* Sessions die.
LEMMA FewerAlive ==
    ASSUME ResourceStateAssumption, Inv, world' \subseteq world,
           UNCHANGED <<mat, ledger, up, runner, rec, config, flight, made, named, keys, configs>>
    PROVE  /\ KeysAreGiven' /\ SightsAgree' /\ ListAgrees' /\ IdsAreKept' /\ ReservedApart'
           /\ Reserved' /\ Executed' /\ Proven' /\ Scanned' /\ StillTrue' /\ Attributed'
<1>1. KeysAreGiven' /\ SightsAgree' /\ ListAgrees' /\ IdsAreKept' /\ ReservedApart'
  BY NothingNew, NothingListed DEF Sighted
<1>2. Reserved' /\ Executed'
  BY DEF Inv, Reserved, Executed, active
<1>3. Proven' /\ Scanned' /\ StillTrue'
  BY DEF Inv, Proven, NegativeIsTrue, Scanned, StillTrue
<1>4. Attributed'
  BY DEF Inv, Attributed, LiveIsAttributed, active, mapped
<1> QED BY <1>1, <1>2, <1>3, <1>4

LEMMA KillBackendInv ==
    ASSUME ResourceStateAssumption, Inv, KillBackend
    PROVE  Inv'
<1> USE DEF KillBackend
<1>1. Typed'
  BY DEF Inv, Typed
<1>2. KilledIsDead'
  BY DEF Inv, Typed, KilledIsDead
<1> QED BY <1>1, <1>2, FewerAlive DEF Inv

LEMMA OutsideKillInv ==
    ASSUME ResourceStateAssumption, Inv, OutsideKill
    PROVE  Inv'
<1> USE DEF OutsideKill
<1>1. Typed'
  BY DEF Inv, Typed
<1>2. KilledIsDead'
  BY DEF Inv, KilledIsDead
<1> QED BY <1>1, <1>2, FewerAlive DEF Inv

\* A session is born under a key nobody has had.
LEMMA OneMoreAlive ==
    ASSUME ResourceStateAssumption, Inv, NEW w \in Backends, w.key = keys + 1,
           world' = world \cup {w}, keys' = keys + 1,
           UNCHANGED <<mat, ledger, up, runner, kill, rec, config, named, configs>>,
           made' \in [Cmd -> Nat],
           \A c \in Cmd : IF c = w.cmd THEN made[c] = 0 /\ made'[c] = keys + 1
                                        ELSE made'[c] = made[c],
           w.cmd # None => w.scope = ScopeOf[w.cmd] /\ (active(mat, w.cmd) \/ mapped(mat, w.cmd))
    PROVE  /\ KeysAreGiven' /\ SightsAgree' /\ ListAgrees' /\ IdsAreKept' /\ ReservedApart'
           /\ KilledIsDead' /\ Scanned' /\ StillTrue' /\ Attributed'
<1>1. /\ keys \in Nat /\ Sighted' = Sighted \cup {w} /\ made \in [Cmd -> Nat]
      /\ w.cmd \in Cmd \cup {None} /\ None \notin Cmd
  BY DEF Inv, Typed, Sighted, Backends, ResourceStateAssumption
<1>2. /\ \A v \in Sighted : v.key \in 1..keys /\ v.cmd \in Cmd \cup {None}
      /\ \A c \in Cmd : made[c] <= keys /\ made[c] \in Nat
      /\ \A s \in mat.sessions : s.key \in 1..keys
  <2>1. Sighted \subseteq Backends
    BY ScanFacts DEF Inv, Typed, Sighted
  <2> QED BY <1>1, <2>1 DEF Inv, KeysAreGiven, Backends
<1>3. KeysAreGiven'
  BY <1>1, <1>2 DEF Inv, KeysAreGiven
<1>4. SightsAgree'
  <2>1. \A u, v \in Sighted' : u.key = v.key => u = v
    BY <1>1, <1>2 DEF Inv, SightsAgree
  <2>2. \A v \in Sighted' : v.cmd # None => v.key = made'[v.cmd] /\ v.scope = ScopeOf[v.cmd]
    BY <1>1, <1>2 DEF Inv, SightsAgree
  <2>3. \A v \in Sighted', c \in Cmd : v.key = made'[c] => v.cmd = c
    BY <1>1, <1>2 DEF Inv, SightsAgree
  <2> QED BY <2>1, <2>2, <2>3 DEF SightsAgree
<1>5. ListAgrees'
  <2>1. \A s \in mat.sessions, v \in Sighted' : s.key = v.key => s.scope = v.scope
    BY <1>1, <1>2 DEF Inv, ListAgrees
  <2>2. \A s \in mat.sessions, c \in Cmd : s.key = made'[c] => s.scope = ScopeOf[c]
    BY <1>1, <1>2 DEF Inv, ListAgrees
  <2>3. \A s \in mat.sessions : s.origin # None => s.key = made'[s.origin]
    <3>1. \A s \in mat.sessions : s.origin \in Cmd \cup {None}
      BY DEF Inv, Typed, Materialized, Session
    <3> QED BY <1>1, <1>2, <3>1 DEF Inv, ListAgrees
  <2> QED BY <2>1, <2>2, <2>3 DEF Inv, ListAgrees, OneRecordPerBackend
<1>6. IdsAreKept' /\ ReservedApart'
  BY NothingListed
<1>7. KilledIsDead'
  BY <1>1 DEF Inv, Typed, KilledIsDead
<1>8. Scanned'
  BY DEF Inv, Scanned
<1>9. StillTrue'
  BY <1>1, <1>2 DEF Inv, StillTrue
<1>10. Attributed'
  BY DEF Inv, Attributed, LiveIsAttributed, active, mapped
<1> QED BY <1>3, <1>4, <1>5, <1>6, <1>7, <1>8, <1>9, <1>10

LEMMA OutsideCreateInv ==
    ASSUME ResourceStateAssumption, Inv, NEW s \in Scope, OutsideCreate(s)
    PROVE  Inv'
<1> DEFINE w == [key |-> keys + 1, scope |-> s, cmd |-> None]
<1> USE DEF OutsideCreate
<1>1. w \in Backends
  BY DEF Inv, Typed, Backends
<1>2. Typed'
  BY <1>1 DEF Inv, Typed
<1>3. /\ KeysAreGiven' /\ SightsAgree' /\ ListAgrees' /\ IdsAreKept' /\ ReservedApart'
      /\ KilledIsDead' /\ Scanned' /\ StillTrue' /\ Attributed'
  <2>1. /\ w.key = keys + 1 /\ w.cmd = None /\ world' = world \cup {w}
        /\ made' \in [Cmd -> Nat] /\ made' = made
        /\ UNCHANGED <<mat, ledger, up, runner, kill, rec, config, named, configs>>
        /\ \A c \in Cmd : c # None
    BY DEF Inv, Typed, ResourceStateAssumption
  <2> QED BY <1>1, <2>1, OneMoreAlive
<1>4. Reserved' /\ Executed' /\ Proven'
  BY DEF Inv, Reserved, Executed, Proven, NegativeIsTrue, active
<1> QED BY <1>2, <1>3, <1>4 DEF Inv

LEMMA BackendInv ==
    ASSUME ResourceStateAssumption, Inv, NEW c \in Cmd, Backend(c)
    PROVE  Inv'
<1> USE DEF Backend
<1>1. /\ c \in flight /\ flight' = flight \ {c} /\ active(mat, c) /\ made[c] = 0
      /\ ledger[c] \notin {"none", "accepted"}
  BY DEF Inv, Reserved
<1>2. CASE UNCHANGED <<keys, made, world>>
  <2>1. Typed'
    BY <1>2 DEF Inv, Typed
  <2>2. KeysAreGiven' /\ SightsAgree' /\ ListAgrees' /\ IdsAreKept' /\ ReservedApart'
    BY <1>2, NothingNew, NothingListed DEF Sighted
  <2>3. Reserved' /\ Executed' /\ Proven'
    BY <1>1, <1>2 DEF Inv, Reserved, Executed, Proven, NegativeIsTrue, active
  <2>4. KilledIsDead' /\ Scanned' /\ StillTrue' /\ Attributed'
    BY <1>2 DEF Inv, KilledIsDead, Scanned, StillTrue, Attributed, LiveIsAttributed, active, mapped
  <2> QED BY <2>1, <2>2, <2>3, <2>4 DEF Inv
<1>3. CASE /\ keys' = keys + 1 /\ made' = [made EXCEPT ![c] = keys + 1]
           /\ world' = world \cup {[key |-> keys + 1, scope |-> ScopeOf[c], cmd |-> c]}
  <2> DEFINE w == [key |-> keys + 1, scope |-> ScopeOf[c], cmd |-> c]
  <2>1. w \in Backends /\ w.key = keys + 1 /\ w.cmd = c /\ w.scope = ScopeOf[c]
    BY DEF Inv, Typed, Backends, ResourceStateAssumption
  <2>2. Typed'
    BY <1>3, <2>1 DEF Inv, Typed
  <2>3. /\ KeysAreGiven' /\ SightsAgree' /\ ListAgrees' /\ IdsAreKept' /\ ReservedApart'
        /\ KilledIsDead' /\ Scanned' /\ StillTrue' /\ Attributed'
    <3>1. /\ UNCHANGED <<mat, ledger, up, runner, kill, rec, config, named, configs>>
          /\ world' = world \cup {w} /\ keys' = keys + 1
      BY <1>3
    <3>2. /\ made' \in [Cmd -> Nat]
          /\ \A d \in Cmd : IF d = c THEN made[d] = 0 /\ made'[d] = keys + 1
                                      ELSE made'[d] = made[d]
      BY <1>1, <1>3 DEF Inv, Typed
    <3> HIDE DEF w
    <3> QED BY <1>1, <2>1, <3>1, <3>2, OneMoreAlive
  <2>4. \A d \in Cmd : d # c => made'[d] = made[d]
    BY <1>3 DEF Inv, Typed
  <2>5. Reserved'
    BY <1>1, <2>4 DEF Inv, Reserved, active
  <2>6. Executed'
    BY <1>1, <2>4 DEF Inv, Executed, Typed
  <2>7. Proven'
    BY <1>1, <2>4 DEF Inv, Proven, NegativeIsTrue, Typed, Materialized
  <2> QED BY <2>2, <2>3, <2>5, <2>6, <2>7 DEF Inv
<1> QED BY <1>2, <1>3

-----------------------------------------------------------------------------
(* The scan, and what aborts it.                                           *)

LEMMA ScanCutInv ==
    ASSUME ResourceStateAssumption, Inv, ScanCut
    PROVE  Inv'
<1> USE DEF ScanCut
<1>1. /\ rec'.scan = <<>> /\ rec'.pc = "scan" /\ rec'.todo = config /\ rec'.evidence = {}
      /\ rec'.cands = {c \in Cmd : /\ mat.res[c].on /\ mat.res[c].uncertain
                                   /\ mat.res[c].bound = 0}
  BY DEF Idle
<1>2. Typed'
  <2>1. rec' \in [pc : {"idle", "scan", "apply"}, n : Nat, moved : BOOLEAN, current : BOOLEAN,
                  cands : SUBSET Cmd, todo : SUBSET Scope, scan : Scans, evidence : SUBSET Cmd]
    BY Shapes DEF Inv, Typed
  <2> QED BY <2>1 DEF Inv, Typed
<1>3. Sighted' \subseteq Sighted /\ DOMAIN rec'.scan = {}
  BY <1>1, NoScanYet DEF Sighted
<1>4. KeysAreGiven' /\ SightsAgree' /\ ListAgrees' /\ IdsAreKept' /\ ReservedApart'
  BY <1>3, NothingNew, NothingListed
<1>5. Reserved' /\ Executed' /\ KilledIsDead'
  BY DEF Inv, Reserved, Executed, KilledIsDead, active
<1>6. Proven'
  <2>1. \A c \in rec'.cands : ledger[c] = "in_doubt"
    BY <1>1 DEF Inv, Reserved, active
  <2> QED BY <1>1, <2>1 DEF Inv, Proven, NegativeIsTrue
<1>7. Scanned' /\ StillTrue'
  BY <1>1, <1>3 DEF Scanned, StillTrue
<1>8. Attributed'
  BY DEF Inv, Attributed, LiveIsAttributed, active, mapped
<1> QED BY <1>2, <1>4, <1>5, <1>6, <1>7, <1>8 DEF Inv

LEMMA LowestIsOne ==
    ASSUME ResourceStateAssumption, NEW S \in SUBSET Scope, S # {}
    PROVE  Lowest(S) \in S
<1>1. S \in SUBSET Nat
  BY DEF ResourceStateAssumption
<1>2. PICK x \in S : \A y \in S : ~(<<y, x>> \in OpToRel(<, Nat))
  BY <1>1, NatLessThanWellFounded, WFMin
<1>3. ASSUME NEW y \in S PROVE x <= y
  <2>1. x \in Nat /\ y \in Nat
    BY <1>1
  <2>2. ~(y < x)
    BY <1>2, <2>1 DEF OpToRel
  <2> QED BY <2>1, <2>2
<1> QED BY <1>3 DEF Lowest

LEMMA ScanScopeInv ==
    ASSUME ResourceStateAssumption, Inv, scanScope
    PROVE  Inv'
<1> USE DEF scanScope
<1> DEFINE s == Lowest(rec.todo)
<1>1. s \in rec.todo /\ s \in Scope /\ rec.scan \in Scans
  BY LowestIsOne DEF Inv, Typed
<1>2. PICK v \in ScopeScan :
          /\ rec' = [rec EXCEPT !.todo = @ \ {s}, !.scan = Extended(rec.scan, s, v)]
          /\ v.how # "ok" => v.seen = {}
          /\ v.how = "ok" => v.seen = {w \in world : w.scope = s}
  <2> DEFINE V(how) == [how |-> how,
                        seen |-> IF how = "ok" THEN {w \in world : w.scope = s} ELSE {}]
  <2>1. PICK how \in {"ok", "unreachable", "failed"} :
           rec' = [rec EXCEPT !.todo = @ \ {s},
                              !.scan = [t \in DOMAIN @ \cup {s} |->
                                           IF t \in DOMAIN @ THEN @[t] ELSE V(how)]]
    OBVIOUS
  <2>2. V(how) \in ScopeScan
    BY DEF ScopeScan, Inv, Typed
  <2>3. rec' = [rec EXCEPT !.todo = @ \ {s}, !.scan = Extended(rec.scan, s, V(how))]
    BY <2>1 DEF Extended
  <2> QED BY <2>2, <2>3
<1>3. /\ rec'.scan = Extended(rec.scan, s, v) /\ rec'.todo = rec.todo \ {s}
      /\ UNCHANGED <<rec.pc, rec.n, rec.moved, rec.current, rec.cands, rec.evidence>>
      /\ v.seen \subseteq world /\ \A w \in v.seen : w.scope = s
  BY <1>2 DEF Inv, Typed
<1>4. /\ UNCHANGED <<mat, ledger, up, runner, kill, config, world, flight, made, named, keys, configs>>
      /\ rec.pc = "scan"
  OBVIOUS
<1> HIDE DEF s, scanScope
<1>5. /\ rec'.scan \in Scans /\ DOMAIN rec'.scan = DOMAIN rec.scan \cup {s}
      /\ \A t \in DOMAIN rec.scan : rec'.scan[t] = rec.scan[t]
      /\ s \notin DOMAIN rec.scan => rec'.scan[s] = v
      /\ Seen(rec'.scan) \subseteq Seen(rec.scan) \cup v.seen
  BY <1>1, <1>3, ScanExtends
<1>6. Typed'
  <2>1. rec' \in [pc : {"idle", "scan", "apply"}, n : Nat, moved : BOOLEAN, current : BOOLEAN,
                  cands : SUBSET Cmd, todo : SUBSET Scope, scan : Scans, evidence : SUBSET Cmd]
    BY <1>2, <1>3, <1>5 DEF Inv, Typed
  <2> QED BY <1>4, <2>1 DEF Inv, Typed
<1>7. Sighted' \subseteq Sighted
  BY <1>3, <1>4, <1>5 DEF Sighted
<1>8. KeysAreGiven' /\ SightsAgree' /\ ListAgrees' /\ IdsAreKept' /\ ReservedApart'
  BY <1>4, <1>7, NothingNew, NothingListed
<1>9. Reserved' /\ Executed' /\ KilledIsDead'
  BY <1>4 DEF Inv, Reserved, Executed, KilledIsDead, active
<1>10. Proven'
  BY <1>3, <1>4 DEF Inv, Proven, NegativeIsTrue
<1>11. Scanned'
  <2>1. DOMAIN rec'.scan \cup rec'.todo = DOMAIN rec.scan \cup rec.todo
    BY <1>1, <1>3, <1>5
  <2>2. \A t \in DOMAIN rec'.scan : \/ rec'.scan[t] = v /\ t = s
                                    \/ t \in DOMAIN rec.scan /\ rec'.scan[t] = rec.scan[t]
    BY <1>5
  <2> QED BY <1>2, <1>3, <1>4, <2>1, <2>2 DEF Inv, Scanned
<1>12. StillTrue'
  <2> SUFFICES ASSUME ~rec'.moved, NEW t \in DOMAIN rec'.scan, rec'.scan[t].how = "ok",
                      NEW o \in mat.sessions, NEW w \in world, o.scope = t, w.key = o.key
               PROVE  w \in rec'.scan[t].seen
    BY <1>4 DEF StillTrue
  <2>1. CASE t \in DOMAIN rec.scan
    BY <1>3, <1>5, <2>1 DEF Inv, StillTrue
  <2>2. CASE t \notin DOMAIN rec.scan
    <3>1. w.scope = o.scope
      BY DEF Inv, ListAgrees, Sighted
    <3> QED BY <1>2, <1>5, <2>2, <3>1
  <2> QED BY <2>1, <2>2
<1>13. Attributed'
  BY <1>4 DEF Inv, Attributed, LiveIsAttributed, active, mapped
<1> QED BY <1>6, <1>8, <1>9, <1>10, <1>11, <1>12, <1>13 DEF Inv

LEMMA EvidenceInv ==
    ASSUME ResourceStateAssumption, Inv, fencedNegativeEvidence
    PROVE  Inv'
<1> USE DEF fencedNegativeEvidence
<1>1. PICK E \in SUBSET {c \in rec.cands : c \notin flight /\ made[c] = 0} :
          rec' = [rec EXCEPT !.pc = "apply", !.evidence = E]
  OBVIOUS
<1>2. /\ rec'.pc = "apply" /\ rec'.evidence = E
      /\ UNCHANGED <<rec.n, rec.moved, rec.current, rec.cands, rec.todo, rec.scan>>
  BY <1>1 DEF Inv, Typed
<1>3. Typed'
  <2>1. rec' \in [pc : {"idle", "scan", "apply"}, n : Nat, moved : BOOLEAN, current : BOOLEAN,
                  cands : SUBSET Cmd, todo : SUBSET Scope, scan : Scans, evidence : SUBSET Cmd]
    BY <1>1 DEF Inv, Typed
  <2> QED BY <2>1 DEF Inv, Typed
<1>4. KeysAreGiven' /\ SightsAgree' /\ ListAgrees' /\ IdsAreKept' /\ ReservedApart'
  BY <1>2, NothingNew, NothingListed DEF Sighted
<1>5. Reserved' /\ Executed' /\ KilledIsDead'
  BY DEF Inv, Reserved, Executed, KilledIsDead, active
<1>6. Proven'
  BY <1>2 DEF Inv, Proven, NegativeIsTrue
<1>7. Scanned' /\ StillTrue'
  BY <1>2 DEF Inv, Scanned, StillTrue
<1>8. Attributed'
  BY DEF Inv, Attributed, LiveIsAttributed, active, mapped
<1> QED BY <1>3, <1>4, <1>5, <1>6, <1>7, <1>8 DEF Inv

LEMMA ReconfigureInv ==
    ASSUME ResourceStateAssumption, Inv, Reconfigure
    PROVE  Inv'
<1> USE DEF Reconfigure
<1>1. /\ ~rec'.current /\ UNCHANGED <<rec.pc, rec.moved, rec.cands, rec.scan, rec.evidence>>
      /\ rec' \in [pc : {"idle", "scan", "apply"}, n : Nat, moved : BOOLEAN, current : BOOLEAN,
                   cands : SUBSET Cmd, todo : SUBSET Scope, scan : Scans, evidence : SUBSET Cmd]
  BY DEF Inv, Typed
<1>2. Typed'
  BY <1>1 DEF Inv, Typed
<1>3. KeysAreGiven' /\ SightsAgree' /\ ListAgrees' /\ IdsAreKept' /\ ReservedApart'
  BY <1>1, NothingNew, NothingListed DEF Sighted
<1>4. Reserved' /\ Executed' /\ KilledIsDead'
  BY DEF Inv, Reserved, Executed, KilledIsDead, active
<1>5. Proven' /\ Scanned' /\ StillTrue'
  BY <1>1 DEF Inv, Proven, NegativeIsTrue, Scanned, StillTrue
<1>6. Attributed'
  BY DEF Inv, Typed, Attributed
<1> QED BY <1>2, <1>3, <1>4, <1>5, <1>6 DEF Inv

LEMMA CrashInv ==
    ASSUME ResourceStateAssumption, Inv, Crash
    PROVE  Inv'
<1> USE DEF Crash
<1>1. Typed'
  BY Shapes DEF Inv, Typed
<1>2. /\ rec'.scan = <<>> /\ rec'.pc = "idle" /\ rec'.evidence = {} /\ rec'.cands = {}
      /\ Sighted' \subseteq Sighted /\ DOMAIN rec'.scan = {} /\ kill'.pc = "none"
      /\ \A c \in Cmd : runner'[c].pc = "none"
  BY Shapes, NoScanYet DEF Sighted
<1>3. KeysAreGiven' /\ SightsAgree' /\ ListAgrees' /\ IdsAreKept' /\ ReservedApart'
  BY <1>2, NothingNew, NothingListed
<1>4. Reserved' /\ Executed' /\ KilledIsDead'
  BY <1>2 DEF Inv, Reserved, Executed, KilledIsDead, active
<1>5. Proven' /\ Scanned' /\ StillTrue'
  BY <1>2 DEF Inv, Proven, NegativeIsTrue, Scanned, StillTrue
<1>6. Attributed'
  BY DEF Inv, Attributed, LiveIsAttributed, active, mapped
<1> QED BY <1>1, <1>3, <1>4, <1>5, <1>6 DEF Inv

\* A reservation that is kept as uncertain stays what it was.
LEMMA RetainedFacts ==
    ASSUME NEW m \in Materialized, NEW c \in Cmd, NEW k \in Nat,
           NEW r, r = retainUncertain(m, c, k)
    PROVE  /\ r \in Materialized
           /\ \A d \in Cmd : /\ r.res[d] \in Reservation
                             /\ r.res[d].on = m.res[d].on /\ r.res[d].id = m.res[d].id
                             /\ d # c => r.res[d] = m.res[d]
           /\ r.sessions = m.sessions /\ r.ids = m.ids /\ r.negative = m.negative
<1> DEFINE Same(x, y) == /\ x \in Materialized /\ x.sessions = y.sessions
                         /\ x.ids = y.ids /\ x.negative = y.negative
                         /\ \A d \in Cmd : /\ x.res[d].on = y.res[d].on /\ x.res[d].id = y.res[d].id
                                           /\ d # c => x.res[d] = y.res[d]
<1>1. ASSUME NEW x \in Materialized, NEW q \in Reservation,
             q.on = x.res[c].on, q.id = x.res[c].id
      PROVE  Same([x EXCEPT !.res = [x.res EXCEPT ![c] = q]], x)
  <2>1. PICK p : p = [x.res EXCEPT ![c] = q]
    OBVIOUS
  <2>2. /\ p \in [Cmd -> Reservation] /\ p[c] = q
        /\ \A d \in Cmd : d # c => p[d] = x.res[d]
    BY <2>1 DEF Materialized
  <2>3. PICK y : y = [x EXCEPT !.res = p]
    OBVIOUS
  <2>4. /\ y \in Materialized /\ y.res = p /\ y.sessions = x.sessions
        /\ y.ids = x.ids /\ y.negative = x.negative
    BY <2>2, <2>3 DEF Materialized
  <2> QED BY <1>1, <2>1, <2>2, <2>3, <2>4
<1>2. ASSUME NEW x \in Materialized PROVE x.res[c] \in Reservation
  BY DEF Materialized
<1>3. PICK n : n = [m EXCEPT !.res = [m.res EXCEPT ![c] = [m.res[c] EXCEPT !.uncertain = TRUE]]]
  OBVIOUS
<1>4. Same(n, m)
  <2>1. PICK q : q = [m.res[c] EXCEPT !.uncertain = TRUE]
    OBVIOUS
  <2>2. q \in Reservation /\ q.on = m.res[c].on /\ q.id = m.res[c].id
    BY <1>2, <2>1 DEF Reservation
  <2>3. n = [m EXCEPT !.res = [m.res EXCEPT ![c] = q]]
    BY <1>3, <2>1
  <2> HIDE DEF Same
  <2> QED BY <1>1, <2>2, <2>3
<1>5. PICK b \in Nat : b = IF k # 0 THEN k ELSE n.res[c].bound
  BY <1>2, <1>4 DEF Reservation
<1>6. PICK z : z = [n EXCEPT !.res = [n.res EXCEPT ![c] = [n.res[c] EXCEPT !.bound = b]]]
  OBVIOUS
<1>7. Same(z, n)
  <2>1. PICK q : q = [n.res[c] EXCEPT !.bound = b]
    OBVIOUS
  <2>2. q \in Reservation /\ q.on = n.res[c].on /\ q.id = n.res[c].id
    BY <1>2, <1>4, <2>1 DEF Reservation
  <2>3. z = [n EXCEPT !.res = [n.res EXCEPT ![c] = q]]
    BY <1>6, <2>1
  <2>4. n \in Materialized
    BY <1>4
  <2> HIDE DEF Same
  <2> QED BY <1>1, <2>2, <2>3, <2>4
<1>8. r = m \/ r = z
  BY <1>3, <1>5, <1>6 DEF retainUncertain
<1>9. CASE r = m
  <2>1. \A d \in Cmd : m.res[d] \in Reservation
    BY DEF Materialized
  <2> QED BY <1>9, <2>1
<1>10. CASE r = z
  <2>1. /\ z \in Materialized /\ z.sessions = m.sessions /\ z.ids = m.ids /\ z.negative = m.negative
        /\ \A d \in Cmd : /\ z.res[d].on = m.res[d].on /\ z.res[d].id = m.res[d].id
                          /\ d # c => z.res[d] = m.res[d]
    BY <1>4, <1>7
  <2>2. \A d \in Cmd : z.res[d] \in Reservation
    BY <2>1 DEF Materialized
  <2> HIDE DEF Same
  <2> QED BY ONLY <1>10, <2>1, <2>2
<1> QED BY <1>8, <1>9, <1>10

\* recoverInterrupted marks reservations; the list stays.
LEMMA RecoverInv ==
    ASSUME ResourceStateAssumption, Inv, recoverInterrupted
    PROVE  Inv'
<1> DEFINE running == {c \in Cmd : ledger[c] = "running"}
<1> USE DEF recoverInterrupted
<1>1. /\ mat' = [mat EXCEPT !.res = [c \in Cmd |->
                    IF c \in running THEN retainUncertain(mat, c, 0).res[c] ELSE @[c]]]
      /\ ledger' = [c \in Cmd |-> IF c \in running THEN "in_doubt" ELSE ledger[c]]
  OBVIOUS
<1>2. \A c \in Cmd : /\ retainUncertain(mat, c, 0).res[c] \in Reservation
                     /\ retainUncertain(mat, c, 0).res[c].on = mat.res[c].on
                     /\ retainUncertain(mat, c, 0).res[c].id = mat.res[c].id
  <2> HIDE DEF recoverInterrupted
  <2>1. mat \in Materialized /\ 0 \in Nat
    BY DEF Inv, Typed
  <2> QED BY <2>1, RetainedFacts
<1>3. /\ mat' \in Materialized /\ mat'.sessions = mat.sessions /\ mat'.ids = mat.ids
      /\ mat'.negative = mat.negative
      /\ \A c \in Cmd : mat'.res[c].on = mat.res[c].on /\ mat'.res[c].id = mat.res[c].id
      /\ \A c \in Cmd : c \notin running => mat'.res[c] = mat.res[c]
  <2>1. [c \in Cmd |-> IF c \in running THEN retainUncertain(mat, c, 0).res[c] ELSE mat.res[c]]
           \in [Cmd -> Reservation]
    BY <1>2 DEF Inv, Typed, Materialized
  <2> HIDE DEF recoverInterrupted, running
  <2> QED BY <1>1, <1>2, <2>1 DEF Inv, Typed, Materialized
<1> HIDE DEF recoverInterrupted
<1>4. UNCHANGED <<runner, kill, rec, config, world, flight, made, named, keys, configs>> /\ up' = TRUE
  BY DEF recoverInterrupted
<1>5. Typed'
  BY <1>1, <1>3, <1>4 DEF Inv, Typed, States
<1>6. KeysAreGiven' /\ SightsAgree'
  BY <1>3, <1>4 DEF Inv, KeysAreGiven, SightsAgree, Sighted
<1>7. ListAgrees'
  BY <1>3, <1>4 DEF Inv, ListAgrees, Sighted, OneRecordPerBackend
<1>8. IdsAreKept' /\ ReservedApart'
  BY <1>3, <1>4 DEF Inv, IdsAreKept, ReservedApart, IdForLife, active
<1>9. Reserved'
  BY <1>1, <1>3, <1>4 DEF Inv, Reserved, active
<1>10. Executed'
  <2>1. \A c \in Cmd : runner[c].pc = "none"
    BY DEF Inv, Executed, recoverInterrupted
  <2> QED BY <1>1, <1>4, <2>1 DEF Executed
<1>11. Proven'
  BY <1>1, <1>3, <1>4 DEF Inv, Typed, Materialized, Proven, NegativeIsTrue
<1>12. KilledIsDead' /\ Scanned' /\ StillTrue'
  BY <1>3, <1>4 DEF Inv, KilledIsDead, Scanned, StillTrue
<1>13. Attributed'
  <2>1. \A c \in Cmd : active(mat', c) = active(mat, c) /\ mapped(mat', c) = mapped(mat, c)
    BY <1>3 DEF active, mapped
  <2> QED BY <1>4, <2>1 DEF Inv, Typed, Backends, Attributed, LiveIsAttributed
<1> QED BY <1>5, <1>6, <1>7, <1>8, <1>9, <1>10, <1>11, <1>12, <1>13 DEF Inv

-----------------------------------------------------------------------------
(* The steps of commands that change the list.                             *)

LEMMA ScanIsTold ==
    ASSUME Inv, advanceMaterializedGeneration, UNCHANGED config
    PROVE  Scanned' /\ StillTrue'
<1>1. Scanned'
  BY GenerationMoves DEF Inv, Scanned
<1>2. StillTrue'
  BY GenerationMoves DEF Inv, Scanned, StillTrue
<1> QED BY <1>1, <1>2

LEMMA AdmitInv ==
    ASSUME ResourceStateAssumption, Inv, NEW c \in Cmd, Admit(c)
    PROVE  Inv'
<1> DEFINE r == [NoReservation EXCEPT !.on = TRUE, !.id = mat.ids + 1]
<1>1. /\ ledger[c] = "none" /\ mat' = [mat EXCEPT !.res[c] = r, !.ids = @ + 1]
      /\ ledger' = [ledger EXCEPT ![c] = "accepted"]
      /\ advanceMaterializedGeneration
      /\ UNCHANGED <<up, runner, kill, config, world, flight, made, named, keys, configs>>
  BY DEF Admit, reserveCommandResource
<1>2. /\ mat \in Materialized /\ mat.ids \in Nat
      /\ r \in Reservation /\ r.on /\ r.id = mat.ids + 1 /\ ~r.uncertain
  <2>1. mat \in Materialized /\ mat.ids \in Nat
    BY DEF Inv, Typed, Materialized
  <2>2. NoReservation \in Reservation /\ ~NoReservation.uncertain
    BY Shapes
  <2>3. r \in Reservation
    <3> DEFINE n == mat.ids + 1
    <3>1. n \in Nat
      BY <2>1
    <3> HIDE DEF n
    <3>2. [NoReservation EXCEPT !.on = TRUE, !.id = n] \in Reservation
      BY <2>2, <3>1 DEF Reservation
    <3> QED BY <3>2 DEF n
  <2>4. r.on = TRUE /\ r.id = mat.ids + 1 /\ r.uncertain = NoReservation.uncertain
    BY <2>2 DEF Reservation
  <2> HIDE DEF r
  <2> QED BY <2>1, <2>2, <2>3, <2>4
<1> HIDE DEF r
<1>3. /\ mat' \in Materialized /\ mat'.sessions = mat.sessions /\ mat'.ids = mat.ids + 1
      /\ mat'.negative = mat.negative /\ mat'.res[c] = r
      /\ \A d \in Cmd : d # c => mat'.res[d] = mat.res[d]
  <2>1. mat' = [mat EXCEPT !.res = [mat.res EXCEPT ![c] = r], !.ids = mat.ids + 1]
    BY <1>1
  <2>2. [mat.res EXCEPT ![c] = r] \in [Cmd -> Reservation] /\ mat.ids + 1 \in Nat
    BY <1>2 DEF Materialized
  <2> QED BY <1>2, <2>1, <2>2 DEF Materialized
<1>4. rec'.scan = rec.scan /\ rec'.cands = rec.cands /\ rec'.evidence = rec.evidence
  BY <1>1, GenerationMoves
<1>5. Typed'
  BY <1>1, <1>3, GenerationMoves DEF Inv, Typed, States
<1>6. KeysAreGiven' /\ SightsAgree' /\ ListAgrees'
  BY <1>1, <1>3, <1>4 DEF Inv, KeysAreGiven, SightsAgree, ListAgrees, Sighted, OneRecordPerBackend
<1>7. IdsAreKept'
  BY <1>1, <1>2, <1>3 DEF Inv, IdsAreKept, IdForLife
<1>8. ReservedApart'
  <2>1. \A n \in named : n[1] \in 1..mat.ids
    BY DEF Inv, IdsAreKept
  <2>2. \A d \in Cmd : active(mat, d) => mat.res[d].id \in 1..mat.ids
    BY DEF Inv, ReservedApart
  <2> QED BY <1>1, <1>2, <1>3, <2>1, <2>2 DEF Inv, ReservedApart, active
<1>9. Reserved'
  BY <1>1, <1>2, <1>3 DEF Inv, Typed, Reserved, active
<1>10. Executed'
  BY <1>1 DEF Inv, Typed, Executed
<1>11. Proven'
  BY <1>1, <1>3, <1>4 DEF Inv, Typed, Proven, NegativeIsTrue
<1>12. KilledIsDead' /\ Scanned' /\ StillTrue'
  BY <1>1, ScanIsTold DEF Inv, KilledIsDead
<1>13. Attributed'
  <2>1. \A d \in Cmd : (active(mat, d) => active(mat', d)) /\ (mapped(mat, d) => mapped(mat', d))
    BY <1>2, <1>3 DEF active, mapped
  <2> QED BY <1>1, <2>1 DEF Inv, Typed, Backends, Attributed, LiveIsAttributed
<1> QED BY <1>5, <1>6, <1>7, <1>8, <1>9, <1>10, <1>11, <1>12, <1>13 DEF Inv

LEMMA RefusedInv ==
    ASSUME ResourceStateAssumption, Inv, NEW c \in Cmd, finalizeRefused(c)
    PROVE  Inv'
<1>1. /\ mat' = [mat EXCEPT !.negative = @ \cup {c}, !.res[c] = NoReservation]
      /\ ledger' = [ledger EXCEPT ![c] = "failed"] /\ runner' = [runner EXCEPT ![c] = NoRunner]
      /\ advanceMaterializedGeneration
      /\ UNCHANGED <<up, kill, config, world, flight, made, named, keys, configs>>
  BY DEF finalizeRefused, appendNegativeSettlement
<1>2. /\ mat \in Materialized /\ mat.ids \in Nat
      /\ NoReservation \in Reservation /\ ~NoReservation.on /\ NoRunner.pc = "none"
      /\ NoRunner \in [pc : {"none", "exec", "made", "refused", "unknown"}, key : Nat]
  BY Shapes DEF Inv, Typed, Materialized
<1>3. /\ mat' \in Materialized /\ mat'.sessions = mat.sessions /\ mat'.ids = mat.ids
      /\ mat'.negative = mat.negative \cup {c} /\ mat'.res[c] = NoReservation
      /\ \A d \in Cmd : d # c => mat'.res[d] = mat.res[d]
  BY <1>1, <1>2 DEF Materialized
<1>4. made[c] = 0 /\ c \notin flight /\ ledger[c] = "running"
  BY DEF Inv, Executed, finalizeRefused
<1>5. rec'.scan = rec.scan /\ rec'.cands = rec.cands /\ rec'.evidence = rec.evidence
  BY <1>1, GenerationMoves
<1>6. Typed'
  BY <1>1, <1>2, <1>3, GenerationMoves DEF Inv, Typed, States
<1>7. KeysAreGiven' /\ SightsAgree' /\ ListAgrees'
  BY <1>1, <1>3, <1>5 DEF Inv, KeysAreGiven, SightsAgree, ListAgrees, Sighted, OneRecordPerBackend
<1>8. IdsAreKept' /\ ReservedApart'
  BY <1>1, <1>2, <1>3 DEF Inv, IdsAreKept, IdForLife, ReservedApart, active
<1>9. Reserved'
  BY <1>1, <1>2, <1>3, <1>4 DEF Inv, Typed, Reserved, active
<1>10. Executed'
  BY <1>1, <1>2, <1>4 DEF Inv, Typed, Executed
<1>11. Proven'
  BY <1>1, <1>3, <1>4, <1>5 DEF Inv, Typed, Materialized, Proven, NegativeIsTrue
<1>12. KilledIsDead' /\ Scanned' /\ StillTrue'
  BY <1>1, ScanIsTold DEF Inv, KilledIsDead
<1>13. Attributed'
  <2>1. \A w \in world : w.cmd # c /\ w.cmd \in Cmd \cup {None}
    <3>1. \A w \in world : w.key # 0 /\ w.cmd \in Cmd \cup {None}
      BY DEF Inv, Typed, Backends, KeysAreGiven, Sighted
    <3> QED BY <1>4, <3>1 DEF Inv, SightsAgree, Sighted, ResourceStateAssumption
  <2>2. \A d \in Cmd : d # c => /\ active(mat, d) => active(mat', d)
                                /\ mapped(mat, d) => mapped(mat', d)
    BY <1>3 DEF active, mapped
  <2> QED BY <1>1, <2>1, <2>2 DEF Inv, Attributed, LiveIsAttributed
<1> QED BY <1>6, <1>7, <1>8, <1>9, <1>10, <1>11, <1>12, <1>13 DEF Inv

LEMMA InDoubtInv ==
    ASSUME ResourceStateAssumption, Inv, NEW c \in Cmd, markInDoubt(c)
    PROVE  Inv'
<1>1. /\ runner[c].pc = "unknown" /\ runner' = [runner EXCEPT ![c] = NoRunner]
      /\ UNCHANGED <<up, kill, config, world, flight, made, named, keys, configs>>
  BY DEF markInDoubt
<1>2. /\ mat \in Materialized /\ mat.ids \in Nat /\ runner[c].key \in Nat
      /\ NoRunner.pc = "none" /\ ledger[c] = "running"
      /\ NoRunner \in [pc : {"none", "exec", "made", "refused", "unknown"}, key : Nat]
  BY <1>1, Shapes DEF Inv, Typed, Materialized, Executed
<1>3. CASE UNCHANGED <<mat, ledger, rec>>
  <2>1. Typed'
    BY <1>1, <1>2, <1>3 DEF Inv, Typed
  <2>2. KeysAreGiven' /\ SightsAgree' /\ ListAgrees' /\ IdsAreKept' /\ ReservedApart'
    BY <1>1, <1>3, NothingNew, NothingListed DEF Sighted
  <2>3. Reserved' /\ Executed' /\ Proven'
    BY <1>1, <1>2, <1>3 DEF Inv, Typed, Reserved, Executed, Proven, NegativeIsTrue, active
  <2>4. KilledIsDead' /\ Scanned' /\ StillTrue' /\ Attributed'
    BY <1>1, <1>3 DEF Inv, KilledIsDead, Scanned, StillTrue, Attributed, LiveIsAttributed, active, mapped
  <2> QED BY <2>1, <2>2, <2>3, <2>4 DEF Inv
<1>4. CASE /\ mat' = retainUncertain(mat, c, runner[c].key)
           /\ ledger' = [ledger EXCEPT ![c] = "in_doubt"]
           /\ IF mat' = mat THEN UNCHANGED rec ELSE advanceMaterializedGeneration
  <2>1. /\ mat' \in Materialized /\ mat'.sessions = mat.sessions /\ mat'.ids = mat.ids
        /\ mat'.negative = mat.negative
        /\ \A d \in Cmd : mat'.res[d].on = mat.res[d].on /\ mat'.res[d].id = mat.res[d].id
        /\ \A d \in Cmd : d # c => mat'.res[d] = mat.res[d]
    <3> DEFINE k == runner[c].key
    <3>1. mat \in Materialized /\ k \in Nat /\ mat' = retainUncertain(mat, c, k)
      BY <1>2, <1>4
    <3> HIDE DEF k
    <3> QED BY <3>1, RetainedFacts
  <2>2. /\ rec'.scan = rec.scan /\ rec'.cands = rec.cands /\ rec'.evidence = rec.evidence
        /\ rec' \in [pc : {"idle", "scan", "apply"}, n : Nat, moved : BOOLEAN, current : BOOLEAN,
                     cands : SUBSET Cmd, todo : SUBSET Scope, scan : Scans, evidence : SUBSET Cmd]
    BY <1>4, GenerationMoves DEF Inv, Typed
  <2>3. Typed'
    BY <1>1, <1>2, <1>4, <2>1, <2>2 DEF Inv, Typed, States
  <2>4. KeysAreGiven' /\ SightsAgree' /\ ListAgrees'
    BY <1>1, <2>1, <2>2 DEF Inv, KeysAreGiven, SightsAgree, ListAgrees, Sighted, OneRecordPerBackend
  <2>5. IdsAreKept' /\ ReservedApart'
    BY <1>1, <2>1 DEF Inv, IdsAreKept, IdForLife, ReservedApart, active
  <2>6. Reserved'
    BY <1>1, <1>2, <1>4, <2>1 DEF Inv, Typed, Reserved, active
  <2>7. Executed'
    BY <1>1, <1>2, <1>4 DEF Inv, Typed, Executed
  <2>8. Proven'
    BY <1>1, <1>4, <2>1, <2>2 DEF Inv, Typed, Materialized, Proven, NegativeIsTrue
  <2>9. KilledIsDead' /\ Scanned' /\ StillTrue'
    <3>1. KilledIsDead'
      BY <1>1 DEF Inv, KilledIsDead
    <3>2. CASE UNCHANGED rec
      BY <1>1, <2>1, <3>1, <3>2 DEF Inv, Scanned, StillTrue
    <3> QED BY <1>1, <1>4, <3>1, <3>2, ScanIsTold
  <2>10. Attributed'
    <3>1. \A d \in Cmd : active(mat', d) = active(mat, d) /\ mapped(mat', d) = mapped(mat, d)
      BY <2>1 DEF active, mapped
    <3> QED BY <1>1, <3>1 DEF Inv, Typed, Backends, Attributed, LiveIsAttributed
  <2> QED BY <2>3, <2>4, <2>5, <2>6, <2>7, <2>8, <2>9, <2>10 DEF Inv
<1> QED BY <1>3, <1>4 DEF markInDoubt

LEMMA KillCommitInv ==
    ASSUME ResourceStateAssumption, Inv, KillCommit
    PROVE  Inv'
<1> DEFINE target == {s \in mat.sessions : s.id = kill.id /\ s.key = kill.key}
<1>1. /\ kill.pc = "killed" /\ kill' = NoKill
      /\ UNCHANGED <<ledger, up, runner, config, world, flight, made, named, keys, configs>>
      /\ NoKill.pc = "none" /\ NoKill \in [pc : {"none", "exec", "killed"}, id : Nat, key : Nat]
  BY Shapes DEF KillCommit
<1>3. CASE UNCHANGED <<mat, rec>>
  <2>1. Typed'
    BY <1>1, <1>3 DEF Inv, Typed
  <2>2. KeysAreGiven' /\ SightsAgree' /\ ListAgrees' /\ IdsAreKept' /\ ReservedApart'
    BY <1>1, <1>3, NothingNew, NothingListed DEF Sighted
  <2>3. Reserved' /\ Executed' /\ Proven'
    BY <1>1, <1>3 DEF Inv, Reserved, Executed, Proven, NegativeIsTrue, active
  <2>4. KilledIsDead' /\ Scanned' /\ StillTrue' /\ Attributed'
    BY <1>1, <1>3 DEF Inv, KilledIsDead, Scanned, StillTrue, Attributed, LiveIsAttributed, active, mapped
  <2> QED BY <2>1, <2>2, <2>3, <2>4 DEF Inv
<1>4. CASE mat' = [mat EXCEPT !.sessions = @ \ target] /\ advanceMaterializedGeneration
  <2>1. /\ mat' \in Materialized /\ mat'.sessions = mat.sessions \ target /\ mat'.ids = mat.ids
        /\ mat'.negative = mat.negative /\ mat'.res = mat.res
    BY <1>4 DEF Inv, Typed, Materialized
  <2>2. rec'.scan = rec.scan /\ rec'.cands = rec.cands /\ rec'.evidence = rec.evidence
    BY <1>4, GenerationMoves
  <2>3. Typed'
    BY <1>1, <1>4, <2>1, GenerationMoves DEF Inv, Typed
  <2>4. KeysAreGiven' /\ SightsAgree' /\ ListAgrees'
    BY <1>1, <2>1, <2>2 DEF Inv, KeysAreGiven, SightsAgree, ListAgrees, Sighted, OneRecordPerBackend
  <2>5. IdsAreKept' /\ ReservedApart' /\ Reserved' /\ Executed'
    BY <1>1, <2>1 DEF Inv, IdsAreKept, IdForLife, ReservedApart, Reserved, Executed, active
  <2>6. Proven' /\ KilledIsDead' /\ Scanned' /\ StillTrue'
    BY <1>1, <1>4, <2>1, <2>2, ScanIsTold DEF Inv, Proven, NegativeIsTrue, KilledIsDead
  <2>7. Attributed'
    <3> SUFFICES ASSUME configs' = 0, NEW w \in world, w.cmd # None, w.scope \in config
                 PROVE  active(mat', w.cmd) \/ mapped(mat', w.cmd)
      BY <1>1 DEF Inv, Attributed, LiveIsAttributed
    <3>1. active(mat, w.cmd) \/ mapped(mat, w.cmd)
      BY <1>1 DEF Inv, Attributed, LiveIsAttributed
    <3>2. ASSUME NEW s \in mat.sessions, s.origin = w.cmd PROVE s \notin target
      BY <1>1, <3>2 DEF Inv, KilledIsDead, ListAgrees, SightsAgree, Sighted
    <3> QED BY <2>1, <3>1, <3>2 DEF active, mapped
  <2> QED BY <2>3, <2>4, <2>5, <2>6, <2>7 DEF Inv
<1> QED BY <1>3, <1>4 DEF KillCommit

-----------------------------------------------------------------------------
(* The end of a command that made its session.                             *)

\* What materializeReservation makes of the list.
LEMMA MaterializedFacts ==
    ASSUME ResourceStateAssumption, Inv, NEW c \in Cmd, active(mat, c), made[c] # 0,
           NEW m, m = materializeReservation(mat, c, made[c])
    PROVE  /\ m \in Materialized /\ m.ids = mat.ids /\ m.negative = mat.negative
           /\ m.res[c] = NoReservation /\ \A d \in Cmd : d # c => m.res[d] = mat.res[d]
           /\ \A t \in m.sessions :
                 \/ t \in mat.sessions /\ t.key # made[c]
                 \/ /\ t.key = made[c] /\ t.scope = ScopeOf[c] /\ t.origin = c
                    /\ \/ /\ t.id = mat.res[c].id
                          /\ \A s \in mat.sessions : s.key # made[c]
                       \/ \E s \in mat.sessions : s.key = made[c] /\ s.id = t.id
           /\ \A t, u \in m.sessions : t.key = u.key => t = u
           /\ \A s \in mat.sessions :
                 IF s.key = made[c] THEN \E t \in m.sessions : t.id = s.id /\ t.origin = c
                                    ELSE s \in m.sessions
           /\ \E t \in m.sessions : t.origin = c
<1> DEFINE listed == {s \in mat.sessions : s.key = made[c] /\ s.scope = ScopeOf[c]}
           new == [id |-> mat.res[c].id, key |-> made[c], scope |-> ScopeOf[c], origin |-> c]
           found == {[s EXCEPT !.origin = c] : s \in listed}
           next == IF listed # {} THEN (mat.sessions \ listed) \cup found
                                  ELSE mat.sessions \cup {new}
<1>1. mat \in Materialized /\ mat.sessions \subseteq Session /\ made[c] \in Nat
      /\ mat.res[c] \in Reservation /\ ScopeOf[c] \in Scope
      /\ NoReservation \in Reservation
  BY Shapes DEF Inv, Typed, Materialized, ResourceStateAssumption
<1>2. m = [mat EXCEPT !.res = [mat.res EXCEPT ![c] = NoReservation], !.sessions = next]
  BY DEF materializeReservation
<1>3. /\ new \in Session /\ new.id = mat.res[c].id /\ new.key = made[c]
      /\ new.scope = ScopeOf[c] /\ new.origin = c
  BY <1>1 DEF Session, Reservation
<1>4. \A s \in mat.sessions : s.key = made[c] => s \in listed
  BY DEF Inv, ListAgrees
<1>5. \A s, t \in listed : s = t
  BY DEF Inv, ListAgrees, OneRecordPerBackend
<1>6. \A t \in found : /\ t \in Session /\ t.key = made[c] /\ t.scope = ScopeOf[c] /\ t.origin = c
                       /\ \E s \in listed : s.id = t.id
  BY <1>1 DEF Session
<1>7. ASSUME NEW s \in listed PROVE \E t \in found : t.id = s.id
  <2>1. [s EXCEPT !.origin = c] \in found /\ [s EXCEPT !.origin = c].id = s.id
    BY <1>1 DEF Session
  <2> QED BY <2>1
<1>8. \A t, u \in found : t = u
  BY <1>5
<1>9. listed \subseteq mat.sessions /\ \A s \in listed : s.key = made[c]
  OBVIOUS
<1> HIDE DEF listed, new, found
<1>10. /\ next \subseteq Session
       /\ \A t \in next : \/ t \in mat.sessions /\ t.key # made[c]
                          \/ t \in found
                          \/ t = new /\ listed = {}
  <2>1. CASE listed = {}
    BY <1>1, <1>3, <1>4, <2>1
  <2>2. CASE listed # {}
    <3>1. next = (mat.sessions \ listed) \cup found
      BY <2>2
    <3>2. found \subseteq Session
      BY <1>6
    <3>3. \A t \in mat.sessions \ listed : t.key # made[c]
      BY <1>4
    <3> HIDE DEF next
    <3> QED BY <1>1, <3>1, <3>2, <3>3
  <2> QED BY <2>1, <2>2
<1>11. \A s \in mat.sessions :
          IF s.key = made[c] THEN \E t \in next : t.id = s.id /\ t.origin = c ELSE s \in next
  BY <1>4, <1>6, <1>7, <1>9
<1>12. \E t \in next : t.origin = c
  BY <1>3, <1>6, <1>7
<1> HIDE DEF next
<1>14. /\ m.sessions = next /\ m.ids = mat.ids /\ m.negative = mat.negative
       /\ m \in Materialized /\ m.res[c] = NoReservation
       /\ \A d \in Cmd : d # c => m.res[d] = mat.res[d]
  <2>1. [mat.res EXCEPT ![c] = NoReservation] \in [Cmd -> Reservation]
    BY <1>1 DEF Materialized
  <2> QED BY <1>1, <1>2, <1>10, <2>1 DEF Materialized
<1>15. \A t \in m.sessions :
          \/ t \in mat.sessions /\ t.key # made[c]
          \/ /\ t.key = made[c] /\ t.scope = ScopeOf[c] /\ t.origin = c
             /\ \/ t.id = mat.res[c].id /\ \A s \in mat.sessions : s.key # made[c]
                \/ \E s \in mat.sessions : s.key = made[c] /\ s.id = t.id
  BY <1>3, <1>4, <1>6, <1>9, <1>10, <1>14
<1>16. \A t, u \in m.sessions : t.key = u.key => t = u
  <2>1. \A t, u \in mat.sessions : t.key = u.key => t = u
    BY DEF Inv, ListAgrees, OneRecordPerBackend
  <2> QED BY <1>3, <1>6, <1>8, <1>10, <1>14, <2>1
<1> QED BY <1>11, <1>12, <1>14, <1>15, <1>16

LEMMA FinalizeInv ==
    ASSUME ResourceStateAssumption, Inv, NEW c \in Cmd, finalizeRunning(c)
    PROVE  Inv'
<1>1. /\ up /\ runner[c].pc = "made"
      /\ UNCHANGED <<up, kill, config, world, flight, made, keys, configs>>
  BY DEF finalizeRunning
<1>2. /\ runner[c].key = made[c] /\ made[c] # 0 /\ ledger[c] = "running"
      /\ NoRunner.pc = "none" /\ None \notin Cmd
      /\ NoRunner \in [pc : {"none", "exec", "made", "refused", "unknown"}, key : Nat]
      /\ mat \in Materialized /\ mat.ids \in Nat
  BY <1>1, Shapes DEF Inv, Typed, Materialized, Executed, ResourceStateAssumption
<1>3. CASE runner' = [runner EXCEPT ![c].pc = "unknown"] /\ UNCHANGED <<mat, ledger, rec, named>>
  <2>1. Typed'
    BY <1>1, <1>3 DEF Inv, Typed
  <2>2. KeysAreGiven' /\ SightsAgree' /\ ListAgrees' /\ IdsAreKept' /\ ReservedApart'
    BY <1>1, <1>3, NothingNew, NothingListed DEF Sighted
  <2>3. Reserved' /\ Proven'
    BY <1>1, <1>3 DEF Inv, Reserved, Proven, NegativeIsTrue, active
  <2>4. Executed'
    BY <1>1, <1>3 DEF Inv, Typed, Executed
  <2>5. KilledIsDead' /\ Scanned' /\ StillTrue' /\ Attributed'
    BY <1>1, <1>3 DEF Inv, KilledIsDead, Scanned, StillTrue, Attributed, LiveIsAttributed, active, mapped
  <2> QED BY <2>1, <2>2, <2>3, <2>4, <2>5 DEF Inv
<1>4. CASE /\ mat' = commitCommandResource(mat, c, runner[c].key)
           /\ named' = named \cup {<<s.id, s.key>> : s \in mat'.sessions}
           /\ advanceMaterializedGeneration
           /\ ledger' = [ledger EXCEPT ![c] = "succeeded"]
           /\ runner' = [runner EXCEPT ![c] = NoRunner]
  <2>1. rec'.scan = rec.scan /\ rec'.cands = rec.cands /\ rec'.evidence = rec.evidence
    BY <1>4, GenerationMoves
  <2>2. Executed' /\ KilledIsDead' /\ Scanned' /\ StillTrue'
    BY <1>1, <1>2, <1>4, ScanIsTold DEF Inv, Typed, Executed, KilledIsDead
  <2>3. CASE ~active(mat, c)
    <3>1. UNCHANGED <<mat, named>>
      BY <1>4, <2>3 DEF commitCommandResource, Inv, IdsAreKept
    <3>2. Typed'
      BY <1>1, <1>2, <1>4, <3>1, GenerationMoves DEF Inv, Typed, States
    <3>3. KeysAreGiven' /\ SightsAgree' /\ ListAgrees' /\ IdsAreKept' /\ ReservedApart'
      BY <1>1, <2>1, <3>1, NothingNew, NothingListed DEF Sighted
    <3>4. Reserved' /\ Proven' /\ Attributed'
      BY <1>1, <1>2, <1>4, <2>1, <2>3, <3>1
         DEF Inv, Typed, Materialized, Reserved, Proven, NegativeIsTrue, Attributed, LiveIsAttributed,
             active, mapped
    <3> QED BY <2>2, <3>2, <3>3, <3>4 DEF Inv
  <2>4. CASE active(mat, c)
    <3>1. mat' = materializeReservation(mat, c, made[c])
      BY <1>2, <1>4, <2>4 DEF commitCommandResource
    <3>2. /\ mat' \in Materialized /\ mat'.ids = mat.ids /\ mat'.negative = mat.negative
          /\ mat'.res[c] = NoReservation /\ \A d \in Cmd : d # c => mat'.res[d] = mat.res[d]
      BY <1>2, <2>4, <3>1, MaterializedFacts
    <3>3. \A t \in mat'.sessions :
             \/ t \in mat.sessions /\ t.key # made[c]
             \/ /\ t.key = made[c] /\ t.scope = ScopeOf[c] /\ t.origin = c
                /\ \/ t.id = mat.res[c].id /\ \A s \in mat.sessions : s.key # made[c]
                   \/ \E s \in mat.sessions : s.key = made[c] /\ s.id = t.id
      BY <1>2, <2>4, <3>1, MaterializedFacts
    <3>4. \A t, u \in mat'.sessions : t.key = u.key => t = u
      BY <1>2, <2>4, <3>1, MaterializedFacts
    <3>5. /\ \A s \in mat.sessions :
                IF s.key = made[c] THEN \E t \in mat'.sessions : t.id = s.id /\ t.origin = c
                                   ELSE s \in mat'.sessions
          /\ \E t \in mat'.sessions : t.origin = c
      BY <1>2, <2>4, <3>1, MaterializedFacts
    <3>6. Typed'
      <4>1. named' \subseteq Nat \X Nat
        BY <1>4, <3>2 DEF Inv, Typed, Materialized, Session
      <4> QED BY <1>1, <1>2, <1>4, <3>2, <4>1, GenerationMoves DEF Inv, Typed, States
    <3>7. KeysAreGiven' /\ SightsAgree'
      <4>1. made[c] \in 1..keys /\ Sighted' = Sighted
        BY <1>1, <1>2, <2>1 DEF Inv, Typed, KeysAreGiven, Sighted
      <4>2. KeysAreGiven'
        BY <1>1, <3>3, <4>1 DEF Inv, KeysAreGiven
      <4> QED BY <1>1, <4>1, <4>2 DEF Inv, SightsAgree
    <3>8. ListAgrees'
      <4>1. Sighted' = Sighted
        BY <1>1, <2>1 DEF Sighted
      <4>2. \A w \in Sighted : w.key = made[c] => w.scope = ScopeOf[c]
        BY <1>2 DEF Inv, SightsAgree
      <4>3. \A d \in Cmd : made[d] = made[c] => d = c
        BY <1>2 DEF Inv, KeysAreGiven
      <4>4. OneRecordPerBackend'
        BY <3>4 DEF OneRecordPerBackend
      <4>5. \A s \in mat'.sessions, w \in Sighted : s.key = w.key => s.scope = w.scope
        BY <3>3, <4>2 DEF Inv, ListAgrees
      <4>6. \A s \in mat'.sessions, d \in Cmd : s.key = made[d] => s.scope = ScopeOf[d]
        BY <3>3, <4>3 DEF Inv, ListAgrees
      <4>7. \A s \in mat'.sessions : s.origin # None => s.key = made[s.origin]
        BY <3>3 DEF Inv, ListAgrees
      <4> QED BY <1>1, <4>1, <4>4, <4>5, <4>6, <4>7 DEF ListAgrees
    <3>9. \A n \in named' : n \in named \/ n = <<mat.res[c].id, made[c]>>
      <4>1. ASSUME NEW t \in mat'.sessions
            PROVE  <<t.id, t.key>> \in named \/ <<t.id, t.key>> = <<mat.res[c].id, made[c]>>
        BY <3>3 DEF Inv, IdsAreKept
      <4> QED BY <1>4, <4>1
    <3>10. IdsAreKept'
      <4>1. IdForLife'
        <5>1. \A n \in named : n[1] # mat.res[c].id
          BY <2>4 DEF Inv, ReservedApart
        <5>2. \A n, o \in named : n[1] = o[1] => n[2] = o[2]
          BY DEF Inv, IdsAreKept, IdForLife
        <5>3. \A n, o \in named' : n[1] = o[1] => n[2] = o[2]
          BY <3>9, <5>1, <5>2
        <5> QED BY <5>3 DEF IdForLife
      <4>2. \A n \in named' : n[1] \in 1..mat.ids
        BY <2>4, <3>9 DEF Inv, IdsAreKept, ReservedApart
      <4>3. \A s \in mat'.sessions : <<s.id, s.key>> \in named'
        BY <1>4
      <4> QED BY <3>2, <4>1, <4>2, <4>3 DEF IdsAreKept
    <3>11. ReservedApart'
      <4> SUFFICES ASSUME NEW d \in Cmd, active(mat', d)
                   PROVE  /\ mat'.res[d].id \in 1..mat'.ids
                          /\ \A n \in named' : n[1] # mat'.res[d].id
                          /\ \A e \in Cmd : active(mat', e) /\ mat'.res[e].id = mat'.res[d].id => e = d
        BY DEF ReservedApart
      <4>1. ~active(mat', c) /\ \A e \in Cmd : e # c => active(mat', e) = active(mat, e)
        BY <3>2, Shapes DEF active
      <4>2. d # c /\ active(mat, d) /\ mat'.res[d] = mat.res[d] /\ mat.res[d].id # mat.res[c].id
        BY <2>4, <3>2, <4>1 DEF Inv, ReservedApart
      <4> QED BY <3>2, <3>9, <4>1, <4>2 DEF Inv, ReservedApart
    <3>12. Reserved'
      <4>1. ~active(mat', c) /\ \A e \in Cmd : e # c => active(mat', e) = active(mat, e)
        BY <3>2, Shapes DEF active
      <4>2. c \notin flight
        BY <1>2 DEF Inv, Reserved
      <4> QED BY <1>1, <1>2, <1>4, <3>2, <4>1, <4>2 DEF Inv, Typed, Reserved
    <3>13. Proven'
      BY <1>1, <1>4, <2>1, <3>2 DEF Inv, Typed, Materialized, Proven, NegativeIsTrue
    <3>14. Attributed'
      <4>1. \A d \in Cmd : active(mat, d) => active(mat', d) \/ mapped(mat', d)
        BY <3>2, <3>5 DEF active, mapped
      <4>2. \A d \in Cmd : mapped(mat, d) => mapped(mat', d)
        <5> SUFFICES ASSUME NEW d \in Cmd, NEW s \in mat.sessions, s.origin = d
                     PROVE  \E t \in mat'.sessions : t.origin = d
          BY DEF mapped
        <5>1. CASE s.key = made[c]
          <6>1. d = c
            BY <1>2, <5>1 DEF Inv, ListAgrees, KeysAreGiven
          <6> QED BY <3>5, <6>1
        <5>2. CASE s.key # made[c]
          BY <3>5, <5>2
        <5> QED BY <5>1, <5>2
      <4> QED BY <1>1, <4>1, <4>2 DEF Inv, Typed, Backends, Attributed, LiveIsAttributed
    <3> QED BY <2>2, <3>6, <3>7, <3>8, <3>10, <3>11, <3>12, <3>13, <3>14 DEF Inv
  <2> QED BY <2>3, <2>4
<1> QED BY <1>3, <1>4 DEF finalizeRunning, Name

-----------------------------------------------------------------------------
(* What a scan makes of the list.                                          *)

\* The sessions that get an id of their own, and the id of one of them.
Unlisted(m, scan) ==
    {x \in Seen(scan) : /\ ~\E o \in m.sessions : o.key = x.key
                        /\ (x.cmd = None \/ ~active(m, x.cmd))}

FreshKeys(m, scan) == {w.key : w \in Unlisted(m, scan)}

IssuedId(m, scan, k) == m.ids + Cardinality({j \in FreshKeys(m, scan) : j <= k})

Ours(m, w) == w.cmd # None /\ active(m, w.cmd)

\* The record of a session that was seen.
Listing(m, scan, s, w) ==
    IF \E o \in m.sessions : o.key = w.key
    THEN [(CHOOSE o \in m.sessions : o.key = w.key) EXCEPT
             !.origin = IF Ours(m, w) THEN w.cmd ELSE @]
    ELSE [id |-> IF Ours(m, w) THEN m.res[w.cmd].id ELSE IssuedId(m, scan, w.key),
          key |-> w.key, scope |-> s, origin |-> IF Ours(m, w) THEN w.cmd ELSE None]

KeptScopes(m, scan) ==
    LET held(s) == \E c \in Cmd : active(m, c) /\ ScopeOf[c] = s
    IN  {s \in Scope \ DOMAIN scan : m.scope[s].known}
          \ {s \in Scope \ DOMAIN scan : scanCoverage(scan) /\ m.scope[s].known /\ ~held(s)}

KeptSessions(m, scan) ==
    {o \in m.sessions : \/ o.scope \in KeptScopes(m, scan)
                        \/ o.scope \in DOMAIN scan /\ scan[o.scope].how # "ok"}

Discovered(m, scan) == UNION {discoverSessions(m, scan, s) : s \in DOMAIN scan}

LEMMA DiscoveredShape ==
    ASSUME NEW m, NEW scan, NEW s
    PROVE  discoverSessions(m, scan, s) = {Listing(m, scan, s, w) : w \in scan[s].seen}
BY DEF discoverSessions, Listing, Ours, IssuedId, FreshKeys, Unlisted

LEMMA AppliedSessions ==
    ASSUME NEW m \in Materialized, NEW scan
    PROVE  applyDiscovery(m, scan).sessions = KeptSessions(m, scan) \cup Discovered(m, scan)
BY DEF applyDiscovery, KeptScopes, KeptSessions, Discovered, keepsLastKnown, Materialized

LEMMA AppliedShape ==
    ASSUME ResourceStateAssumption, NEW m \in Materialized, NEW scan \in Scans,
           NEW d, d = applyDiscovery(m, scan)
    PROVE  /\ d.sessions = KeptSessions(m, scan) \cup Discovered(m, scan)
           /\ d.ids = m.ids + Cardinality(Unlisted(m, scan))
           /\ d.res = [c \in Cmd |-> IF \E w \in Seen(scan) : w.cmd = c THEN NoReservation
                                     ELSE m.res[c]]
           /\ d.negative = m.negative
           /\ d.sessions \subseteq Session /\ d.ids \in Nat => d \in Materialized
<1> DEFINE Flags == [known : BOOLEAN, online : BOOLEAN, complete : BOOLEAN, authority : BOOLEAN]
<1>1. /\ d.sessions = KeptSessions(m, scan) \cup Discovered(m, scan)
      /\ d.ids = m.ids + Cardinality(Unlisted(m, scan))
      /\ d.res = [c \in Cmd |-> IF \E w \in Seen(scan) : w.cmd = c THEN NoReservation
                                ELSE m.res[c]]
      /\ d.negative = m.negative
  BY DEF applyDiscovery, KeptScopes, KeptSessions, Discovered, Unlisted, keepsLastKnown, Materialized
<1>2. d.res \in [Cmd -> Reservation] /\ d.negative \in SUBSET Cmd
  BY <1>1, Shapes DEF Materialized
<1>3. d.scope \in [Scope -> Flags]
  <2> DEFINE NextScope(s) ==
               [known |-> TRUE, online |-> scan[s].how # "unreachable",
                complete |-> scan[s].how = "ok" \/ (scan[s].how = "unreachable" /\ m.scope[s].authority),
                authority |-> m.scope[s].authority \/ scan[s].how = "ok"]
  <2>1. d.scope = [s \in Scope |-> IF s \in DOMAIN scan THEN NextScope(s)
                                  ELSE IF s \in KeptScopes(m, scan) THEN m.scope[s] ELSE NoScope]
    BY DEF applyDiscovery, KeptScopes, Materialized
  <2>2. \A s \in Scope : NextScope(s) \in Flags /\ m.scope[s] \in Flags
    BY DEF Materialized
  <2>3. NoScope \in Flags
    BY Shapes
  <2> HIDE DEF NextScope, Flags
  <2> QED BY <2>1, <2>2, <2>3
<1>4. d.coverage \in BOOLEAN /\ d.established \in BOOLEAN /\ d.fenced \in BOOLEAN
  BY DEF applyDiscovery, Materialized, scanCoverage
<1>5. d = [scope |-> d.scope, sessions |-> d.sessions, res |-> d.res, negative |-> d.negative,
           ids |-> d.ids, coverage |-> d.coverage, established |-> d.established,
           fenced |-> d.fenced]
  BY DEF applyDiscovery, Materialized
<1> QED BY <1>1, <1>2, <1>3, <1>4, <1>5 DEF Materialized

\* Ids are issued in the order of the keys: each one is new, and no two are
\* the same.
LEMMA FreshIds ==
    ASSUME NEW m, NEW scan, NEW n \in Nat, m.ids \in Nat,
           \A w \in Seen(scan) : w.key \in 1..n,
           \A v, w \in Seen(scan) : v.key = w.key => v = w
    PROVE  /\ Cardinality(Unlisted(m, scan)) \in Nat
           /\ \A k \in FreshKeys(m, scan) :
                 /\ IssuedId(m, scan, k) \in Nat /\ IssuedId(m, scan, k) > m.ids
                 /\ IssuedId(m, scan, k) <= m.ids + Cardinality(Unlisted(m, scan))
           /\ \A j, k \in FreshKeys(m, scan) : IssuedId(m, scan, j) = IssuedId(m, scan, k) => j = k
<1> DEFINE U == Unlisted(m, scan)
           F == FreshKeys(m, scan)
           B(k) == {j \in F : j <= k}
           f == [w \in U |-> w.key]
<1>1. /\ U \subseteq Seen(scan) /\ F \subseteq 1..n /\ \A w \in U : w.key \in F
      /\ \A k \in F : \E w \in U : w.key = k
  BY DEF Unlisted, FreshKeys
<1> HIDE DEF U, F
<1>2. f \in Injection(U, 1..n) /\ f \in Surjection(U, F)
  BY <1>1 DEF Injection, Surjection, IsInjective
<1> HIDE DEF f
<1>3. IsFiniteSet(1..n)
  BY FS_Interval
<1>4. IsFiniteSet(U)
  BY <1>2, <1>3, FS_Injection
<1>5. IsFiniteSet(F) /\ Cardinality(F) <= Cardinality(U)
  BY <1>2, <1>4, FS_Surjection
<1>6. Cardinality(U) \in Nat /\ Cardinality(F) \in Nat
  BY <1>4, <1>5, FS_CardinalityType
<1>7. ASSUME NEW k \in F
      PROVE  /\ IsFiniteSet(B(k)) /\ Cardinality(B(k)) \in Nat /\ k \in B(k)
             /\ Cardinality(B(k)) <= Cardinality(F) /\ Cardinality(B(k)) # 0
  <2>1. k \in B(k) /\ B(k) \in SUBSET F
    BY <1>1
  <2> HIDE DEF B
  <2>2. IsFiniteSet(B(k)) /\ Cardinality(B(k)) <= Cardinality(F)
    BY <1>5, <2>1, FS_Subset
  <2>3. Cardinality(B(k)) \in Nat /\ Cardinality(B(k)) # 0
    BY <2>1, <2>2, FS_CardinalityType, FS_EmptySet
  <2> QED BY <2>1, <2>2, <2>3
<1>8. ASSUME NEW j \in F, NEW k \in F, j < k
      PROVE  Cardinality(B(j)) # Cardinality(B(k))
  <2>1. j \in Nat /\ k \in Nat
    BY <1>1
  <2>2. B(j) \in SUBSET B(k) /\ k \notin B(j)
    <3>1. ASSUME NEW i \in B(j) PROVE i \in B(k)
      <4>1. i \in F /\ i <= j /\ i \in Nat
        BY <1>1
      <4>2. i <= k
        BY <1>8, <2>1, <4>1
      <4> QED BY <4>1, <4>2
    <3>2. k \notin B(j)
      BY <1>8, <2>1
    <3> QED BY <3>1, <3>2
  <2>3. k \in B(k) /\ IsFiniteSet(B(k))
    BY <1>7
  <2> HIDE DEF B
  <2> QED BY <2>2, <2>3, FS_Subset
<1>9. \A k \in F : IssuedId(m, scan, k) = m.ids + Cardinality(B(k))
  BY DEF IssuedId, F
<1> HIDE DEF B
<1>10. \A k \in F : /\ IssuedId(m, scan, k) \in Nat /\ IssuedId(m, scan, k) > m.ids
                    /\ IssuedId(m, scan, k) <= m.ids + Cardinality(U)
  BY <1>5, <1>6, <1>7, <1>9
<1>11. ASSUME NEW j \in F, NEW k \in F, IssuedId(m, scan, j) = IssuedId(m, scan, k)
       PROVE  j = k
  <2>1. j \in Nat /\ k \in Nat
    BY <1>1
  <2>2. Cardinality(B(j)) = Cardinality(B(k))
    BY <1>7, <1>9, <1>11
  <2>3. ~(j < k) /\ ~(k < j)
    BY <1>8, <2>2
  <2> QED BY <2>1, <2>3
<1> QED BY <1>6, <1>10, <1>11 DEF U, F

\* Negative evidence releases reservations of commands that made nothing.
LEMMA EvidenceFacts ==
    ASSUME ResourceStateAssumption, Inv,
           NEW m, m = applyFencedNegativeEvidence(mat, rec.evidence)
    PROVE  /\ m \in Materialized /\ m.sessions = mat.sessions /\ m.ids = mat.ids
           /\ m.negative = mat.negative \cup rec.evidence
           /\ \A c \in rec.evidence : m.res[c] = NoReservation
           /\ \A c \in Cmd \ rec.evidence : m.res[c] = mat.res[c]
           /\ \A w \in Sighted : w.cmd # None => m.res[w.cmd] = mat.res[w.cmd]
<1>1. mat \in Materialized /\ rec.evidence \subseteq Cmd /\ NoReservation \in Reservation
  BY Shapes DEF Inv, Typed
<1>2. PICK r : r = [c \in Cmd |-> IF c \in rec.evidence THEN NoReservation ELSE mat.res[c]]
  OBVIOUS
<1>3. /\ r \in [Cmd -> Reservation]
      /\ \A c \in Cmd : r[c] = IF c \in rec.evidence THEN NoReservation ELSE mat.res[c]
  BY <1>1, <1>2 DEF Materialized
<1>4. /\ m \in Materialized /\ m.sessions = mat.sessions /\ m.ids = mat.ids
      /\ m.negative = mat.negative \cup rec.evidence
      /\ \A c \in Cmd : m.res[c] = IF c \in rec.evidence THEN NoReservation ELSE mat.res[c]
  <2>1. PICK n : n = mat.negative \cup rec.evidence
    OBVIOUS
  <2>2. n \in SUBSET Cmd
    BY <1>1, <2>1 DEF Materialized
  <2>3. m = [mat EXCEPT !.negative = n, !.res = r]
    BY <1>2, <2>1 DEF applyFencedNegativeEvidence
  <2>4. m \in Materialized /\ m.sessions = mat.sessions /\ m.ids = mat.ids /\ m.negative = n /\ m.res = r
    BY ONLY <1>1, <1>3, <2>2, <2>3 DEF Materialized
  <2> QED BY <1>3, <2>1, <2>4
<1>5. ASSUME NEW w \in Sighted, w.cmd # None PROVE w.cmd \in Cmd \ rec.evidence
  <2>1. w \in Backends
    BY ScanFacts DEF Inv, Typed, Sighted
  <2>2. w.cmd \in Cmd /\ made[w.cmd] # 0
    BY <1>5, <2>1 DEF Inv, SightsAgree, KeysAreGiven, Backends
  <2> QED BY <2>2 DEF Inv, Proven
<1> QED BY <1>1, <1>4, <1>5

LEMMA SightTypes ==
    ASSUME Inv
    PROVE  \A w \in Sighted : w.key \in Nat /\ w.scope \in Scope /\ w.cmd \in Cmd \cup {None}
BY ScanFacts DEF Inv, Typed, Sighted, Backends

\* The ids a scan issues.
LEMMA IssuedFacts ==
    ASSUME ResourceStateAssumption, Inv,
           NEW m, m = applyFencedNegativeEvidence(mat, rec.evidence)
    PROVE  /\ Cardinality(Unlisted(m, rec.scan)) \in Nat
           /\ \A k \in FreshKeys(m, rec.scan) :
                 /\ IssuedId(m, rec.scan, k) \in Nat /\ IssuedId(m, rec.scan, k) > mat.ids
                 /\ IssuedId(m, rec.scan, k) <= mat.ids + Cardinality(Unlisted(m, rec.scan))
           /\ \A j, k \in FreshKeys(m, rec.scan) :
                 IssuedId(m, rec.scan, j) = IssuedId(m, rec.scan, k) => j = k
<1> DEFINE scan == rec.scan
<1>1. /\ m.ids = mat.ids /\ m.ids \in Nat /\ keys \in Nat
      /\ \A w \in Seen(scan) : w.key \in 1..keys
      /\ \A v, w \in Seen(scan) : v.key = w.key => v = w
  BY EvidenceFacts DEF Inv, Typed, Materialized, KeysAreGiven, SightsAgree, Sighted
<1> HIDE DEF scan
<1>2. /\ Cardinality(Unlisted(m, scan)) \in Nat
      /\ \A k \in FreshKeys(m, scan) :
            /\ IssuedId(m, scan, k) \in Nat /\ IssuedId(m, scan, k) > m.ids
            /\ IssuedId(m, scan, k) <= m.ids + Cardinality(Unlisted(m, scan))
      /\ \A j, k \in FreshKeys(m, scan) :
            IssuedId(m, scan, j) = IssuedId(m, scan, k) => j = k
  BY <1>1, FreshIds
<1> QED BY <1>1, <1>2 DEF scan

\* The records after a scan: kept, seen again, promised to a command, or new.
LEMMA DiscoveredFacts ==
    ASSUME ResourceStateAssumption, Inv,
           NEW m, m = applyFencedNegativeEvidence(mat, rec.evidence),
           NEW d, d = applyDiscovery(m, rec.scan)
    PROVE  /\ \A t \in d.sessions :
                 \/ t \in mat.sessions /\ \A w \in Seen(rec.scan) : w.key # t.key
                 \/ \E w \in Seen(rec.scan), o \in mat.sessions :
                       /\ o.key = w.key /\ t.key = w.key /\ t.id = o.id /\ t.scope = o.scope
                       /\ t.origin = IF Ours(mat, w) THEN w.cmd ELSE o.origin
                 \/ \E w \in Seen(rec.scan) :
                       /\ \A o \in mat.sessions : o.key # w.key
                       /\ t.key = w.key /\ t.scope = w.scope
                       /\ IF Ours(mat, w)
                          THEN t.origin = w.cmd /\ t.id = mat.res[w.cmd].id
                          ELSE /\ w.key \in FreshKeys(m, rec.scan)
                               /\ t.origin = None /\ t.id = IssuedId(m, rec.scan, w.key)
           /\ \A w \in Seen(rec.scan) : \E t \in d.sessions :
                 /\ t.key = w.key /\ (Ours(mat, w) => t.origin = w.cmd)
                 /\ \A o \in mat.sessions : o.key = w.key =>
                       /\ t.id = o.id
                       /\ t.origin = IF Ours(mat, w) THEN w.cmd ELSE o.origin
           /\ \A o \in mat.sessions :
                 o.scope \in DOMAIN rec.scan /\ rec.scan[o.scope].how # "ok" => o \in d.sessions
           /\ d.sessions \subseteq Session
           /\ \A t, u \in d.sessions : t.key = u.key => t = u
<1> DEFINE scan == rec.scan
           L(w) == Listing(m, scan, w.scope, w)
<1>1. /\ m \in Materialized /\ m.sessions = mat.sessions /\ m.ids = mat.ids
      /\ \A w \in Seen(scan) : w.cmd # None => m.res[w.cmd] = mat.res[w.cmd]
  BY EvidenceFacts DEF Sighted
<1>2. /\ scan \in Scans /\ DOMAIN scan \subseteq Scope
      /\ \A s \in DOMAIN scan : \A w \in scan[s].seen :
            w.scope = s /\ scan[s].how = "ok" /\ w \in Seen(scan)
      /\ \A w \in Seen(scan) : w.scope \in DOMAIN scan /\ w \in scan[w.scope].seen
  BY ScanFacts DEF Inv, Typed, Scanned, Seen
<1>3. \A w \in Seen(scan) : Ours(m, w) = Ours(mat, w)
  BY <1>1 DEF Ours, active
<1>4. d.sessions = KeptSessions(m, scan) \cup Discovered(m, scan)
  <2>1. d = applyDiscovery(m, scan) /\ m \in Materialized /\ scan \in Scans
    BY <1>1, <1>2
  <2> HIDE DEF scan
  <2> QED BY <2>1, AppliedSessions
<1>5. \A s \in DOMAIN scan : discoverSessions(m, scan, s) = {L(w) : w \in scan[s].seen}
  BY <1>2, DiscoveredShape
<1>6. \A w \in Seen(scan) : L(w) \in d.sessions
  BY <1>2, <1>4, <1>5 DEF Discovered
<1>7. ASSUME NEW t \in d.sessions
      PROVE  \/ t \in mat.sessions /\ \A w \in Seen(scan) : w.key # t.key
             \/ \E w \in Seen(scan) : t = L(w)
  <2>1. CASE \E s \in DOMAIN scan : t \in discoverSessions(m, scan, s)
    BY <1>2, <1>5, <2>1
  <2>2. CASE t \in m.sessions /\ \/ t.scope \in KeptScopes(m, scan)
                                 \/ t.scope \in DOMAIN scan /\ scan[t.scope].how # "ok"
    <3>1. t.scope \in DOMAIN scan => scan[t.scope].how # "ok"
      BY <2>2 DEF KeptScopes
    <3>2. \A w \in Seen(scan) : w.key = t.key => t.scope = w.scope
      BY <1>1, <2>2 DEF Inv, ListAgrees, Sighted
    <3> QED BY <1>1, <1>2, <2>2, <3>1, <3>2
  <2> QED BY <1>4, <2>1, <2>2 DEF KeptSessions, Discovered
<1>8. ASSUME NEW w \in Seen(scan), NEW o \in mat.sessions, o.key = w.key
      PROVE  /\ L(w).key = w.key /\ L(w).id = o.id /\ L(w).scope = o.scope
             /\ L(w).origin = IF Ours(mat, w) THEN w.cmd ELSE o.origin
             /\ L(w) \in Session
  <2>1. (CHOOSE x \in m.sessions : x.key = w.key) = o
    BY <1>1, <1>8 DEF Inv, ListAgrees, OneRecordPerBackend
  <2>2. L(w) = [o EXCEPT !.origin = IF Ours(m, w) THEN w.cmd ELSE @]
    BY <1>1, <1>8, <2>1 DEF Listing
  <2>3. o \in Session
    BY DEF Inv, Typed, Materialized
  <2> HIDE DEF L
  <2> QED BY <1>3, <1>8, <2>2, <2>3, SightTypes DEF Session, Ours, Sighted
<1>9. ASSUME NEW w \in Seen(scan), \A o \in mat.sessions : o.key # w.key
      PROVE  /\ L(w) \in Session /\ L(w).key = w.key /\ L(w).scope = w.scope
             /\ IF Ours(mat, w)
                THEN L(w).origin = w.cmd /\ L(w).id = mat.res[w.cmd].id
                ELSE /\ w.key \in FreshKeys(m, scan)
                     /\ L(w).origin = None /\ L(w).id = IssuedId(m, scan, w.key)
  <2>1. L(w) = [id |-> IF Ours(m, w) THEN m.res[w.cmd].id ELSE IssuedId(m, scan, w.key),
                key |-> w.key, scope |-> w.scope, origin |-> IF Ours(m, w) THEN w.cmd ELSE None]
    BY <1>1, <1>9 DEF Listing
  <2>2. ~Ours(m, w) => w \in Unlisted(m, scan)
    BY <1>1, <1>9 DEF Ours, Unlisted
  <2>3. ~Ours(m, w) => w.key \in FreshKeys(m, scan)
    BY <2>2 DEF FreshKeys
  <2>4. Ours(m, w) => m.res[w.cmd].id = mat.res[w.cmd].id
    BY <1>1 DEF Ours
  <2> DEFINE id == IF Ours(m, w) THEN m.res[w.cmd].id ELSE IssuedId(m, scan, w.key)
             by == IF Ours(m, w) THEN w.cmd ELSE None
  <2>5. id \in Nat
    <3>1. Ours(m, w) => m.res[w.cmd].id \in Nat
      BY <1>1, SightTypes DEF Ours, Sighted, Materialized, Reservation
    <3>2. ~Ours(m, w) => IssuedId(m, scan, w.key) \in Nat
      BY <2>3, IssuedFacts
    <3> QED BY <3>1, <3>2
  <2>6. w.key \in Nat /\ w.scope \in Scope /\ by \in Cmd \cup {None}
    BY SightTypes DEF Ours, Sighted
  <2>7. L(w) \in Session
    <3> HIDE DEF L, id, by
    <3>1. L(w) = [id |-> id, key |-> w.key, scope |-> w.scope, origin |-> by]
      BY <2>1 DEF id, by
    <3> QED BY <2>5, <2>6, <3>1 DEF Session
  <2> HIDE DEF L
  <2> QED BY <1>3, <2>1, <2>3, <2>4, <2>7
<1> HIDE DEF L
<1>10. \A w \in Seen(scan) : \E t \in d.sessions :
          /\ t.key = w.key /\ (Ours(mat, w) => t.origin = w.cmd)
          /\ \A o \in mat.sessions : o.key = w.key =>
                /\ t.id = o.id
                /\ t.origin = IF Ours(mat, w) THEN w.cmd ELSE o.origin
  BY <1>6, <1>8, <1>9
<1>11. \A o \in mat.sessions :
          o.scope \in DOMAIN scan /\ scan[o.scope].how # "ok" => o \in d.sessions
  BY <1>1, <1>4 DEF KeptSessions
<1>12. ASSUME NEW t \in d.sessions
       PROVE  \/ t \in mat.sessions /\ \A w \in Seen(scan) : w.key # t.key
              \/ \E w \in Seen(scan), o \in mat.sessions :
                    /\ o.key = w.key /\ t.key = w.key /\ t.id = o.id /\ t.scope = o.scope
                    /\ t.origin = IF Ours(mat, w) THEN w.cmd ELSE o.origin
              \/ \E w \in Seen(scan) :
                    /\ \A o \in mat.sessions : o.key # w.key
                    /\ t.key = w.key /\ t.scope = w.scope
                    /\ IF Ours(mat, w)
                       THEN t.origin = w.cmd /\ t.id = mat.res[w.cmd].id
                       ELSE /\ w.key \in FreshKeys(m, scan)
                            /\ t.origin = None /\ t.id = IssuedId(m, scan, w.key)
  <2>1. CASE t \in mat.sessions /\ \A w \in Seen(scan) : w.key # t.key
    BY <2>1
  <2>2. ASSUME NEW w \in Seen(scan), t = L(w), NEW o \in mat.sessions, o.key = w.key
        PROVE  \E v \in Seen(scan), x \in mat.sessions :
                    /\ x.key = v.key /\ t.key = v.key /\ t.id = x.id /\ t.scope = x.scope
                    /\ t.origin = IF Ours(mat, v) THEN v.cmd ELSE x.origin
    BY <1>8, <2>2
  <2>3. ASSUME NEW w \in Seen(scan), t = L(w), \A o \in mat.sessions : o.key # w.key
        PROVE  \E v \in Seen(scan) :
                    /\ \A o \in mat.sessions : o.key # v.key
                    /\ t.key = v.key /\ t.scope = v.scope
                    /\ IF Ours(mat, v)
                       THEN t.origin = v.cmd /\ t.id = mat.res[v.cmd].id
                       ELSE /\ v.key \in FreshKeys(m, scan)
                            /\ t.origin = None /\ t.id = IssuedId(m, scan, v.key)
    BY <1>9, <2>3
  <2> QED BY <1>7, <2>1, <2>2, <2>3
<1>13. d.sessions \subseteq Session
  BY <1>7, <1>8, <1>9 DEF Inv, Typed, Materialized
<1>14. ASSUME NEW t \in d.sessions, NEW u \in d.sessions, t.key = u.key PROVE t = u
  <2>1. \A w \in Seen(scan) : L(w).key = w.key
    BY <1>8, <1>9
  <2>2. \A v, w \in Seen(scan) : v.key = w.key => v = w
    BY DEF Inv, SightsAgree, Sighted
  <2>3. \A o, x \in mat.sessions : o.key = x.key => o = x
    BY DEF Inv, ListAgrees, OneRecordPerBackend
  <2> QED BY <1>7, <1>14, <2>1, <2>2, <2>3
<1> QED BY <1>10, <1>11, <1>12, <1>13, <1>14

\* A live session of a configured scope is listed again under its id: the
\* scan that is applied covers its scope, and has seen it if it could list it.
LEMMA SeenStill ==
    ASSUME ResourceStateAssumption, Inv, rec.pc = "apply", ~Stale,
           NEW d, d = applyDiscovery(applyFencedNegativeEvidence(mat, rec.evidence), rec.scan),
           NEW o \in mat.sessions, NEW w \in world, w.key = o.key, o.scope \in config
    PROVE  \E t \in d.sessions : t.id = o.id /\ (o.origin # None => t.origin = o.origin)
<1>1. o.scope \in DOMAIN rec.scan /\ ~rec.moved
  BY DEF Stale, Inv, Scanned
<1>2. CASE rec.scan[o.scope].how # "ok"
  BY <1>1, <1>2, DiscoveredFacts
<1>3. CASE rec.scan[o.scope].how = "ok"
  <2>1. w \in Seen(rec.scan)
    BY <1>1, <1>3 DEF Inv, StillTrue, Seen
  <2>2. PICK t \in d.sessions :
            t.id = o.id /\ t.origin = IF Ours(mat, w) THEN w.cmd ELSE o.origin
    BY <2>1, DiscoveredFacts
  <2>3. o.origin # None => w.cmd = o.origin
    <3>1. o.origin \in Cmd \cup {None}
      BY DEF Inv, Typed, Materialized, Session
    <3> QED BY <3>1 DEF Inv, ListAgrees, SightsAgree, Sighted
  <2> QED BY <2>2, <2>3
<1> QED BY <1>2, <1>3

\* The reservations after a scan.
LEMMA ReservationsAfterScan ==
    ASSUME ResourceStateAssumption, Inv,
           NEW d, d = applyDiscovery(applyFencedNegativeEvidence(mat, rec.evidence), rec.scan)
    PROVE  /\ d \in Materialized /\ d.negative = mat.negative \cup rec.evidence
           /\ d.ids = mat.ids + Cardinality(Unlisted(applyFencedNegativeEvidence(mat, rec.evidence),
                                                     rec.scan))
           /\ \A c \in Cmd :
                 IF c \in rec.evidence \/ \E w \in Seen(rec.scan) : w.cmd = c
                 THEN ~active(d, c) ELSE d.res[c] = mat.res[c]
<1> DEFINE m == applyFencedNegativeEvidence(mat, rec.evidence)
           scan == rec.scan
<1>1. d = applyDiscovery(m, scan) /\ m = applyFencedNegativeEvidence(mat, rec.evidence)
  OBVIOUS
<1> HIDE DEF m
<1>2. /\ m \in Materialized /\ m.ids = mat.ids /\ m.negative = mat.negative \cup rec.evidence
      /\ \A c \in rec.evidence : m.res[c] = NoReservation
      /\ \A c \in Cmd \ rec.evidence : m.res[c] = mat.res[c]
  BY <1>1, EvidenceFacts
<1>3. scan \in Scans /\ m.ids \in Nat
  BY <1>2 DEF Inv, Typed, Materialized
<1>4. d.sessions \subseteq Session /\ Cardinality(Unlisted(m, scan)) \in Nat
  BY <1>1, DiscoveredFacts, IssuedFacts
<1> HIDE DEF scan
<1>5. /\ d.ids = m.ids + Cardinality(Unlisted(m, scan)) /\ d.negative = m.negative
      /\ d.res = [c \in Cmd |-> IF \E w \in Seen(scan) : w.cmd = c THEN NoReservation ELSE m.res[c]]
      /\ d.sessions \subseteq Session /\ d.ids \in Nat => d \in Materialized
  BY <1>1, <1>2, <1>3, AppliedShape
<1>6. d \in Materialized
  BY <1>3, <1>4, <1>5
<1>7. \A c \in Cmd : IF c \in rec.evidence \/ \E w \in Seen(scan) : w.cmd = c
                     THEN ~active(d, c) ELSE d.res[c] = mat.res[c]
  BY <1>2, <1>5, Shapes DEF active
<1> QED BY <1>2, <1>5, <1>6, <1>7 DEF m, scan

LEMMA DiscoverInv ==
    ASSUME ResourceStateAssumption, Inv, rec.pc = "apply", ~Stale,
           mat' = applyDiscovery(applyFencedNegativeEvidence(mat, rec.evidence), rec.scan),
           rec' = Idle, Name(mat'),
           UNCHANGED <<ledger, up, runner, kill, config, world, flight, made, keys, configs>>
    PROVE  Inv'
<1> DEFINE m == applyFencedNegativeEvidence(mat, rec.evidence)
           S == Seen(rec.scan)
<1>1. m = applyFencedNegativeEvidence(mat, rec.evidence) /\ mat' = applyDiscovery(m, rec.scan)
  OBVIOUS
<1> HIDE DEF m
<1>2. \A t \in mat'.sessions :
         \/ t \in mat.sessions /\ \A w \in S : w.key # t.key
         \/ \E w \in S, o \in mat.sessions :
               /\ o.key = w.key /\ t.key = w.key /\ t.id = o.id /\ t.scope = o.scope
               /\ t.origin = IF Ours(mat, w) THEN w.cmd ELSE o.origin
         \/ \E w \in S :
               /\ \A o \in mat.sessions : o.key # w.key
               /\ t.key = w.key /\ t.scope = w.scope
               /\ IF Ours(mat, w)
                  THEN t.origin = w.cmd /\ t.id = mat.res[w.cmd].id
                  ELSE /\ w.key \in FreshKeys(m, rec.scan)
                       /\ t.origin = None /\ t.id = IssuedId(m, rec.scan, w.key)
  BY <1>1, DiscoveredFacts
<1>3. /\ \A w \in S : \E t \in mat'.sessions : Ours(mat, w) => t.origin = w.cmd
      /\ \A t, u \in mat'.sessions : t.key = u.key => t = u
  BY <1>1, DiscoveredFacts
<1>4. /\ mat' \in Materialized /\ mat'.negative = mat.negative \cup rec.evidence
      /\ mat'.ids = mat.ids + Cardinality(Unlisted(m, rec.scan))
      /\ \A c \in Cmd : IF c \in rec.evidence \/ \E w \in S : w.cmd = c
                        THEN ~active(mat', c) ELSE mat'.res[c] = mat.res[c]
  BY <1>1, ReservationsAfterScan
<1>5. /\ Cardinality(Unlisted(m, rec.scan)) \in Nat /\ mat.ids \in Nat
      /\ \A k \in FreshKeys(m, rec.scan) :
            /\ IssuedId(m, rec.scan, k) \in Nat /\ IssuedId(m, rec.scan, k) > mat.ids
            /\ IssuedId(m, rec.scan, k) <= mat.ids + Cardinality(Unlisted(m, rec.scan))
      /\ \A j, k \in FreshKeys(m, rec.scan) :
            IssuedId(m, rec.scan, j) = IssuedId(m, rec.scan, k) => j = k
  BY <1>1, IssuedFacts DEF Inv, Typed, Materialized
<1>6. /\ rec'.pc = "idle" /\ rec'.evidence = {} /\ rec'.cands = {} /\ DOMAIN rec'.scan = {}
      /\ Sighted' = world
      /\ rec' \in [pc : {"idle", "scan", "apply"}, n : Nat, moved : BOOLEAN, current : BOOLEAN,
                   cands : SUBSET Cmd, todo : SUBSET Scope, scan : Scans, evidence : SUBSET Cmd]
  BY Shapes, NoScanYet DEF Sighted
<1>7. /\ S \subseteq Sighted /\ world \subseteq Sighted /\ None \notin Cmd
      /\ \A w \in Sighted : w.cmd \in Cmd \cup {None}
  BY SightTypes DEF Sighted, ResourceStateAssumption
<1>8. named' = named \cup {<<t.id, t.key>> : t \in mat'.sessions}
  BY DEF Name
<1> HIDE DEF S
<1>9. Typed'
  <2>1. named' \subseteq Nat \X Nat
    BY <1>4, <1>8 DEF Inv, Typed, Materialized, Session
  <2> QED BY <1>4, <1>6, <2>1 DEF Inv, Typed
<1>10. KeysAreGiven'
  <2>1. \A t \in mat'.sessions : t.key \in 1..keys
    BY <1>2, <1>7 DEF Inv, KeysAreGiven
  <2> QED BY <1>6, <1>7, <2>1 DEF Inv, KeysAreGiven
<1>11. SightsAgree'
  BY <1>6, <1>7 DEF Inv, SightsAgree
<1>12. ListAgrees'
  <2>1. OneRecordPerBackend'
    BY <1>3 DEF OneRecordPerBackend
  <2>2. \A t \in mat'.sessions, w \in world : t.key = w.key => t.scope = w.scope
    BY <1>2, <1>7 DEF Inv, ListAgrees, SightsAgree
  <2>3. \A t \in mat'.sessions, c \in Cmd : t.key = made[c] => t.scope = ScopeOf[c]
    BY <1>2, <1>7 DEF Inv, ListAgrees, SightsAgree
  <2>4. \A t \in mat'.sessions : t.origin # None => t.key = made[t.origin]
    BY <1>2, <1>7 DEF Inv, ListAgrees, SightsAgree, Ours
  <2> QED BY <1>6, <2>1, <2>2, <2>3, <2>4 DEF ListAgrees
<1>13. \A n \in named' :
          \/ n \in named
          \/ \E w \in S : /\ w.cmd \in Cmd /\ active(mat, w.cmd) /\ w.key = made[w.cmd]
                          /\ n[1] = mat.res[w.cmd].id /\ n[2] = w.key
          \/ \E k \in FreshKeys(m, rec.scan) : n[1] = IssuedId(m, rec.scan, k) /\ n[2] = k
  <2> SUFFICES ASSUME NEW t \in mat'.sessions
               PROVE  \/ <<t.id, t.key>> \in named
                      \/ \E w \in S : /\ w.cmd \in Cmd /\ active(mat, w.cmd) /\ w.key = made[w.cmd]
                                      /\ t.id = mat.res[w.cmd].id /\ t.key = w.key
                      \/ \E k \in FreshKeys(m, rec.scan) :
                            t.id = IssuedId(m, rec.scan, k) /\ t.key = k
    BY <1>8
  <2>1. CASE t \in mat.sessions \/ \E o \in mat.sessions : t.key = o.key /\ t.id = o.id
    BY <2>1 DEF Inv, IdsAreKept
  <2>2. ASSUME NEW w \in S, t.key = w.key, Ours(mat, w), t.id = mat.res[w.cmd].id
        PROVE  w.cmd \in Cmd /\ active(mat, w.cmd) /\ w.key = made[w.cmd]
    BY <1>7, <2>2 DEF Ours, Inv, SightsAgree
  <2> QED BY <1>2, <2>1, <2>2
<1>14. IdsAreKept'
  <2>1. /\ \A n \in named : n[1] \in 1..mat.ids
        /\ \A n, o \in named : n[1] = o[1] => n[2] = o[2]
    BY DEF Inv, IdsAreKept, IdForLife
  <2>2. \A c \in Cmd : active(mat, c) =>
           /\ mat.res[c].id \in 1..mat.ids
           /\ \A n \in named : n[1] # mat.res[c].id
           /\ \A d \in Cmd : active(mat, d) /\ mat.res[d].id = mat.res[c].id => d = c
    BY DEF Inv, ReservedApart
  <2>3. \A n, o \in named' : n[1] = o[1] => n[2] = o[2]
    BY <1>5, <1>13, <2>1, <2>2
  <2>4. \A n \in named' : n[1] \in 1..mat'.ids
    BY <1>4, <1>5, <1>13, <2>1, <2>2
  <2>5. \A t \in mat'.sessions : <<t.id, t.key>> \in named'
    BY <1>8
  <2> QED BY <2>3, <2>4, <2>5 DEF IdsAreKept, IdForLife
<1>15. \A c \in Cmd : active(mat', c) =>
          /\ active(mat, c) /\ mat'.res[c] = mat.res[c] /\ c \notin rec.evidence
          /\ \A w \in S : w.cmd # c
  BY <1>4 DEF active
<1>16. ReservedApart'
  <2> SUFFICES ASSUME NEW c \in Cmd, active(mat', c)
               PROVE  /\ mat'.res[c].id \in 1..mat'.ids
                      /\ \A n \in named' : n[1] # mat'.res[c].id
                      /\ \A d \in Cmd : active(mat', d) /\ mat'.res[d].id = mat'.res[c].id => d = c
    BY DEF ReservedApart
  <2>1. /\ active(mat, c) /\ mat'.res[c].id = mat.res[c].id /\ \A w \in S : w.cmd # c
        /\ mat.res[c].id \in 1..mat.ids
        /\ \A n \in named : n[1] # mat.res[c].id
        /\ \A d \in Cmd : active(mat, d) /\ mat.res[d].id = mat.res[c].id => d = c
    BY <1>15 DEF Inv, ReservedApart
  <2>2. mat'.res[c].id \in 1..mat'.ids
    BY <1>4, <1>5, <2>1
  <2>3. \A n \in named' : n[1] # mat'.res[c].id
    BY <1>5, <1>13, <2>1
  <2> QED BY <1>15, <2>1, <2>2, <2>3
<1>17. \A c \in Cmd : made[c] = 0 =>
          /\ \A w \in S : w.cmd # c
          /\ c \notin rec.evidence => mat'.res[c] = mat.res[c]
  <2>1. \A w \in S : w.cmd # None => made[w.cmd] # 0
    BY <1>7 DEF Inv, SightsAgree, KeysAreGiven
  <2> QED BY <1>4, <1>7, <2>1
<1>18. Reserved'
  <2>1. \A c \in rec.evidence : c \notin flight /\ ledger[c] \notin {"none", "accepted"}
    BY DEF Inv, Proven
  <2> QED BY <1>15, <1>17, <2>1 DEF Inv, Reserved, active
<1>19. Executed' /\ KilledIsDead' /\ Scanned' /\ StillTrue'
  BY <1>6 DEF Inv, Executed, KilledIsDead, Scanned, StillTrue
<1>20. Proven'
  BY <1>4, <1>6 DEF Inv, Proven, NegativeIsTrue
<1>21. Attributed'
  <2> SUFFICES ASSUME configs = 0
               PROVE  config = Scope /\ \A w \in world : w.cmd # None
                         => active(mat', w.cmd) \/ mapped(mat', w.cmd)
    BY DEF Attributed, LiveIsAttributed
  <2>1. config = Scope /\ LiveIsAttributed
    BY DEF Inv, Attributed
  <2>2. ASSUME NEW w \in world, w.cmd # None PROVE active(mat', w.cmd) \/ mapped(mat', w.cmd)
    <3>1. /\ w.cmd \in Cmd /\ w.key = made[w.cmd] /\ w.scope = ScopeOf[w.cmd]
          /\ made[w.cmd] # 0 /\ w.scope \in Scope
      BY <1>7, <2>2, SightTypes DEF Inv, SightsAgree, KeysAreGiven
    <3>2. w.cmd \notin rec.evidence
      BY <3>1 DEF Inv, Proven
    <3>3. CASE active(mat, w.cmd)
      <4>1. CASE \E v \in S : v.cmd = w.cmd
        <5>1. PICK v \in S : v.cmd = w.cmd
          BY <4>1
        <5>2. Ours(mat, v)
          BY <2>2, <3>3, <5>1 DEF Ours
        <5> QED BY <1>3, <5>1, <5>2 DEF mapped
      <4>2. CASE ~\E v \in S : v.cmd = w.cmd
        BY <1>4, <3>1, <3>2, <3>3, <4>2 DEF active
      <4> QED BY <4>1, <4>2
    <3>4. CASE mapped(mat, w.cmd)
      <4>1. PICK o \in mat.sessions : o.origin = w.cmd
        BY <3>4 DEF mapped
      <4>2. o.key = w.key /\ o.scope \in config
        BY <2>1, <2>2, <3>1, <4>1 DEF Inv, ListAgrees
      <4>3. \E t \in mat'.sessions : o.origin # None => t.origin = o.origin
        BY <4>2, SeenStill
      <4> QED BY <2>2, <4>1, <4>3 DEF mapped
    <3> QED BY <2>1, <2>2, <3>1, <3>3, <3>4 DEF LiveIsAttributed
  <2> QED BY <2>1, <2>2
<1> QED BY <1>9, <1>10, <1>11, <1>12, <1>14, <1>16, <1>18, <1>19, <1>20, <1>21 DEF Inv

\* An attempt that is dropped, or latches the fence.
LEMMA ScanDropped ==
    ASSUME ResourceStateAssumption, Inv, mat' = mat \/ mat' = [mat EXCEPT !.fenced = TRUE],
           NEW n \in Nat, rec' = [Idle EXCEPT !.n = n] \/ rec' = Idle,
           UNCHANGED <<ledger, up, runner, kill, config, world, flight, made, named, keys, configs>>
    PROVE  Inv'
<1>1. /\ mat' \in Materialized /\ mat'.sessions = mat.sessions /\ mat'.ids = mat.ids
      /\ mat'.negative = mat.negative /\ mat'.res = mat.res
  <2>1. mat \in Materialized
    BY DEF Inv, Typed
  <2>2. CASE mat' = [mat EXCEPT !.fenced = TRUE]
    BY ONLY <2>1, <2>2 DEF Materialized
  <2> QED BY <2>1, <2>2
<1>2. /\ rec'.pc = "idle" /\ rec'.evidence = {} /\ rec'.cands = {} /\ rec'.scan = <<>>
      /\ rec' \in [pc : {"idle", "scan", "apply"}, n : Nat, moved : BOOLEAN, current : BOOLEAN,
                   cands : SUBSET Cmd, todo : SUBSET Scope, scan : Scans, evidence : SUBSET Cmd]
  BY Shapes
<1>3. Sighted' \subseteq Sighted /\ DOMAIN rec'.scan = {}
  BY <1>2, NoScanYet DEF Sighted
<1>4. Typed'
  BY <1>1, <1>2 DEF Inv, Typed
<1>5. KeysAreGiven' /\ SightsAgree' /\ ListAgrees'
  BY <1>1, <1>3 DEF Inv, KeysAreGiven, SightsAgree, ListAgrees, OneRecordPerBackend
<1>6. IdsAreKept' /\ ReservedApart' /\ Reserved' /\ Executed'
  BY <1>1 DEF Inv, IdsAreKept, IdForLife, ReservedApart, Reserved, Executed, active
<1>7. Proven' /\ KilledIsDead' /\ Scanned' /\ StillTrue'
  BY <1>1, <1>2, <1>3 DEF Inv, Proven, NegativeIsTrue, KilledIsDead, Scanned, StillTrue
<1>8. Attributed'
  BY <1>1 DEF Inv, Attributed, LiveIsAttributed, active, mapped
<1> QED BY <1>4, <1>5, <1>6, <1>7, <1>8 DEF Inv

LEMMA ReconcileApplyInv ==
    ASSUME ResourceStateAssumption, Inv, ReconcileApply
    PROVE  Inv'
<1>1. /\ rec.pc = "apply" /\ rec.n + 1 \in Nat
      /\ UNCHANGED <<ledger, up, runner, kill, config, world, flight, made, keys, configs>>
  BY DEF ReconcileApply, Inv, Typed
<1>2. CASE /\ ~Stale /\ rec' = Idle /\ Name(mat')
           /\ mat' = applyDiscovery(applyFencedNegativeEvidence(mat, rec.evidence), rec.scan)
  BY <1>1, <1>2, DiscoverInv
<1>3. CASE /\ mat' = mat \/ mat' = [mat EXCEPT !.fenced = TRUE]
           /\ rec' = [Idle EXCEPT !.n = rec.n + 1] \/ rec' = Idle
           /\ UNCHANGED named
  BY <1>1, <1>3, ScanDropped
<1> QED BY <1>2, <1>3 DEF ReconcileApply

-----------------------------------------------------------------------------
(* Every step, and what the invariant says.                                *)

LEMMA StutterInv ==
    ASSUME Inv, UNCHANGED vars
    PROVE  Inv'
<1>1. UNCHANGED <<mat, ledger, up, runner, kill, rec, config, world, flight, made, named, keys, configs>>
  BY DEF vars
<1>2. Typed' /\ KilledIsDead' /\ Scanned' /\ StillTrue'
  BY <1>1 DEF Inv, Typed, KilledIsDead, Scanned, StillTrue
<1>3. KeysAreGiven' /\ SightsAgree' /\ ListAgrees' /\ IdsAreKept' /\ ReservedApart'
  BY <1>1, NothingNew, NothingListed DEF Sighted
<1>4. Reserved' /\ Executed' /\ Proven'
  BY <1>1 DEF Inv, Reserved, Executed, Proven, NegativeIsTrue, active
<1>5. Attributed'
  BY <1>1 DEF Inv, Attributed, LiveIsAttributed, active, mapped
<1> QED BY <1>2, <1>3, <1>4, <1>5 DEF Inv

LEMMA NextInv ==
    ASSUME ResourceStateAssumption, Inv, [Next]_vars
    PROVE  Inv'
<1>1. CASE Reconcile
  BY <1>1, ScanCutInv, ScanScopeInv, EvidenceInv, ReconcileApplyInv DEF Reconcile
<1>2. ASSUME NEW c \in Cmd, CommandStep(c) PROVE Inv'
  BY <1>2, AdmitInv, ClaimInv, BackendInv, ExecuteInv, FinalizeInv, RefusedInv, InDoubtInv
     DEF CommandStep
<1>3. CASE KillStep
  BY <1>3, ResolveInv, KillBackendInv, KillCommitInv DEF KillStep
<1>4. CASE OutsideKill \/ \E s \in Scope : OutsideCreate(s)
  BY <1>4, OutsideCreateInv, OutsideKillInv
<1>5. CASE Reconfigure \/ Crash \/ recoverInterrupted
  BY <1>5, ReconfigureInv, CrashInv, RecoverInv
<1> QED BY <1>1, <1>2, <1>3, <1>4, <1>5, StutterInv DEF Next

LEMMA Invariance ==
    ASSUME ResourceStateAssumption
    PROVE  Spec => []Inv
<1>1. Init => Inv
  BY InitInv
<1>2. Inv /\ [Next]_vars => Inv'
  BY NextInv
<1> QED BY <1>1, <1>2, PTL DEF Spec

\* A session the list may lose: it is dead, or its scope is not configured.
Lost(s) == (\A w \in world' : w.key # s.key) \/ s.scope \notin config

\* Three operations touch the list: the end of a command keeps every id,
\* the end of a kill takes out what it has killed, and a scan takes out what
\* it has not seen and, being of this generation, would have seen alive.
LEMMA ListShrinks ==
    ASSUME ResourceStateAssumption, Inv, Next
    PROVE  \A s \in mat.sessions : (\E t \in mat'.sessions : t.id = s.id) \/ Lost(s)
<1> SUFFICES ASSUME NEW s \in mat.sessions, ~Lost(s)
             PROVE  \E t \in mat'.sessions : t.id = s.id
  OBVIOUS
<1> SUFFICES ASSUME mat'.sessions # mat.sessions PROVE \E t \in mat'.sessions : t.id = s.id
  OBVIOUS
<1>1. mat \in Materialized
  BY DEF Inv, Typed
<1>2. CASE ReconcileApply
  <2>1. mat'.sessions = mat.sessions \/ (~Stale /\
          mat' = applyDiscovery(applyFencedNegativeEvidence(mat, rec.evidence), rec.scan))
    BY <1>1, <1>2 DEF ReconcileApply, Materialized
  <2>2. UNCHANGED <<world, config>> /\ rec.pc = "apply"
    BY <1>2 DEF ReconcileApply
  <2>3. PICK w \in world : w.key = s.key
    BY <2>2 DEF Lost
  <2> QED BY <2>1, <2>2, <2>3, SeenStill DEF Lost
<1>3. CASE KillCommit
  <2>1. kill.pc = "killed" /\ UNCHANGED world
    BY <1>3 DEF KillCommit
  <2>2. s.key # kill.key
    BY <2>1 DEF Inv, KilledIsDead, Lost
  <2>3. s \in mat'.sessions
    BY <1>1, <1>3, <2>2 DEF KillCommit, Materialized
  <2> QED BY <2>3
<1>4. ASSUME NEW c \in Cmd, finalizeRunning(c) PROVE \E t \in mat'.sessions : t.id = s.id
  <2>1. runner[c].key = made[c] /\ made[c] # 0
    BY <1>4 DEF finalizeRunning, Inv, Executed
  <2>2. active(mat, c) /\ mat' = materializeReservation(mat, c, made[c])
    BY <1>4, <2>1 DEF finalizeRunning, commitCommandResource
  <2> QED BY <2>2, <2>1, MaterializedFacts
<1>5. ASSUME NEW c \in Cmd, CommandStep(c) PROVE finalizeRunning(c)
  <2>1. ~Admit(c)
    BY <1>1 DEF Admit, reserveCommandResource, Materialized
  <2>2. ~finalizeRefused(c)
    BY <1>1 DEF finalizeRefused, appendNegativeSettlement, Materialized
  <2>3. ~markInDoubt(c)
    BY <1>1 DEF markInDoubt, retainUncertain, Materialized
  <2>4. ~claimAccepted(c) /\ ~Backend(c) /\ ~executeTwRpc(c)
    BY DEF claimAccepted, Backend, executeTwRpc
  <2> QED BY <1>5, <2>1, <2>2, <2>3, <2>4 DEF CommandStep
<1>6. ~ScanCut /\ ~scanScope /\ ~fencedNegativeEvidence
  BY DEF ScanCut, scanScope, fencedNegativeEvidence
<1>7. ~resolveCanonicalSessionForAdmission /\ ~KillBackend
  BY DEF resolveCanonicalSessionForAdmission, KillBackend
<1>8. ~OutsideKill /\ ~Reconfigure /\ ~Crash /\ \A x \in Scope : ~OutsideCreate(x)
  BY DEF OutsideKill, Reconfigure, Crash, OutsideCreate
<1>9. ~recoverInterrupted
  BY <1>1 DEF recoverInterrupted, Materialized
<1> QED BY <1>2, <1>3, <1>4, <1>5, <1>6, <1>7, <1>8, <1>9 DEF Next, Reconcile, KillStep

-----------------------------------------------------------------------------
\* The materialized records keep their shape (resourceState.ts): a session
\* is listed under an id that was issued, and a reservation that is held has
\* an issued id and belongs to a command that is not final.
THEOREM TypeCorrect ==
    ASSUME ResourceStateAssumption
    PROVE  Spec => []TypeOK
<1>1. Inv => TypeOK
  <2> SUFFICES ASSUME Inv PROVE TypeOK
    OBVIOUS
  <2>1. mat.sessions \subseteq Session /\ mat.res \in [Cmd -> Reservation] /\ mat.negative \subseteq Cmd
    BY DEF Inv, Typed, Materialized
  <2>2. \A s \in mat.sessions : s.id \in 1..mat.ids
    BY DEF Inv, IdsAreKept
  <2>3. \A c \in Cmd : active(mat, c) =>
           mat.res[c].id \in 1..mat.ids /\ ledger[c] \in {"accepted", "running", "in_doubt"}
    BY DEF Inv, ReservedApart, Reserved
  <2> QED BY <2>1, <2>2, <2>3 DEF TypeOK
<1> QED BY <1>1, Invariance, PTL

\* The list follows the backends, whatever scans, commands, kills, restarts
\* and reconfigurations interleave (applyDiscovery, commitCommandResource,
\* settleCommandResource): an id names one backend session for life, a
\* backend session is listed once, a negative settlement is the truth, and
\* until a scope is taken out of the configuration a live session a command
\* made can be traced to it.
THEOREM ListFollowsBackends ==
    ASSUME ResourceStateAssumption
    PROVE  Spec => []RecordsFollowBackends
<1>1. Inv => RecordsFollowBackends
  BY DEF Inv, ListAgrees, IdsAreKept, Proven, Attributed, RecordsFollowBackends
<1> QED BY <1>1, Invariance, PTL

\* The list loses a session only when it is dead or its scope is configured
\* no more: a scan older than the session's commit (applyDiscovery) and a
\* scan that failed delete nothing, and a kill deletes what it has killed.
THEOREM OnlyTheDeadAreDeleted ==
    ASSUME ResourceStateAssumption
    PROVE  Spec => DeletedIsDead
<1>1. Inv /\ [Next]_vars => [DeletedStep]_vars
  BY ListShrinks DEF DeletedStep, Lost
<1> QED BY <1>1, Invariance, PTL DEF Spec, DeletedIsDead

=============================================================================
