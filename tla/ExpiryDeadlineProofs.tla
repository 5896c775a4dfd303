------------------------ MODULE ExpiryDeadlineProofs ------------------------
(***************************************************************************)
(* The expiry of the current credential is always watched, only early      *)
(* timers make the owner seal, and a host whose owner is not disturbed is  *)
(* warned in time: for every number of credentials, every lifetime and     *)
(* lead, and any number of early and late timers, replays and full queues. *)
(***************************************************************************)
EXTENDS ExpiryDeadline, TLAPS

(* A cut that has not been applied yet.                                    *)
CutRuns == entry.cut \in {"queued", "answered"}

(* How the entry's own fields belong together.  In particular nothing is   *)
(* armed while a cut runs, so its result can be armed.                     *)
Tidy ==
    /\ ~entry.pendingFire
    /\ entry.pendingRefresh => entry.cut # "none" /\ isCurrent(entry)
    /\ entry.cut = "answered" => entry.answer \in Result
    /\ entry.warningDeadline => entry.warning \in Creds /\ ~entry.warningFired
    /\ entry.deadline # None => entry.warning = entry.deadline
    /\ isCurrent(entry) /\ CutRuns => entry.deadline = None /\ ~entry.warningDeadline

(* There is one attempt to warn, and it is not the entry's own any more    *)
(* once a cut began or the warning is armed again.                         *)
OneAttempt ==
    /\ \A c, d \in calls : c = d
    /\ \A c \in calls :
         /\ c.generation <= entry.generation
         /\ entry.cut # "none" => c.generation < entry.generation
         /\ c.generation = entry.generation => ~entry.warningDeadline
         /\ c.kind = "recheck" => c.answer \in {None, "active", "expired", "stale"}

(* n early timers and one more are paid for.                               *)
Charged(n) == budget.early + n + 1 <= MaxEarly

(* Every early timer the owner has counted, or is about to count, is one   *)
(* that fired early: a timer that fired in time finds the connection       *)
(* expired, or its warning due.                                            *)
Counted ==
    /\ budget.misses <= MaxMisses
    /\ budget.early + entry.early <= MaxEarly
    /\ budget.early + entry.warningEarly <= MaxEarly
    /\ isCurrent(entry) /\ entry.fromDeadline =>
         /\ entry.cut = "queued" /\ Connected =>
              isAuthorizationExpired(core.cred) \/ Charged(entry.early)
         /\ entry.cut = "answered" /\ entry.answer.outcome = "active" =>
              Charged(entry.early)
    /\ \A c \in calls :
         /\ c.kind = "emit" /\ c.answer = None =>
              now >= expiresAtMs(c.cred) - Lead \/ Charged(entry.warningEarly)
         /\ c.answer = "not_due" => Charged(entry.warningEarly)

(* Nothing of the owner's is ahead of the broker, and answers that end the *)
(* entry are given for connections that have ended.                        *)
Behind ==
    /\ entry.warning # None => entry.warning <= core.cred
    /\ entry.cut = "answered" =>
         IF entry.answer.outcome = "active" THEN entry.answer.cred <= core.cred
         ELSE ~Connected
    /\ core.marker = "emitted" => core.markerCred \in core.sent
    /\ \A c \in calls :
         /\ c.cred <= core.cred
         /\ c.answer = "closed" => ~Connected
         /\ c.kind = "recheck" /\ c.answer \in {"expired", "stale"} => ~Connected

(* The current credential has not been announced and is not about to be.   *)
Unwarned ==
    /\ Connected /\ core.cred \notin core.sent
    /\ ~(core.status = "pending" /\ core.marker = "deferred" /\ core.markerCred = core.cred)

(* The attempt that will announce it, or will be repeated.                 *)
Underway(c) ==
    /\ c.kind = "emit" /\ c.cred = core.cred /\ Fresh(c)
    /\ c.answer \in {None, "not_due"}

(* A cut that will arm the warning is under way, or a refresh that starts  *)
(* one.                                                                    *)
Arming ==
    /\ \/ core.refresh \/ entry.pendingRefresh \/ entry.cut = "queued"
       \/ entry.cut = "answered" /\ entry.answer = [outcome |-> "active", cred |-> core.cred]
    /\ ~(entry.warning = core.cred /\ entry.warningFired)

WarningIsWatched ==
    \/ entry.warningDeadline /\ entry.warning = core.cred
    \/ \E c \in calls : Underway(c)
    \/ Arming

(* What holds while the owner is not disturbed.                            *)
OnTime ==
    /\ Connected => entry.state = "current"
    /\ \A c \in calls :
         /\ now < expiresAtMs(c.cred)
         /\ c.cred = core.cred => ~core.refresh
         /\ c.kind = "emit" => c.answer # "expired"
    /\ entry.warningDeadline => now < expiresAtMs(entry.warning)
    /\ entry.cut = "answered" /\ entry.answer.outcome = "active" =>
         now < expiresAtMs(entry.answer.cred)
    /\ Unwarned => ~isAuthorizationExpired(core.cred) /\ WarningIsWatched

Inv == /\ TypeOK /\ Watched /\ SealedOnlyByEarlyTimers
       /\ Tidy /\ OneAttempt /\ Counted /\ Behind
       /\ (Undisturbed => OnTime)

-----------------------------------------------------------------------------
(* Expiries are numbers, in the order of the credentials, and at least the *)
(* lead away from the start.                                               *)
LEMMA Expiries ==
    ASSUME DeadlineAssumption
    PROVE  /\ Lead \in Nat /\ Lead >= 1
           /\ \A n \in Creds : expiresAtMs(n) \in Nat /\ expiresAtMs(n) >= Lead
           /\ \A n \in Creds : n + 1 \in Creds => expiresAtMs(n) < expiresAtMs(n + 1)
           /\ LastInstant \in Nat
<1>1. /\ Life \in Nat /\ Life >= 1 /\ Lead \in Nat /\ Lead >= 1 /\ Lead <= Life
      /\ MaxCred \in Nat /\ MaxCred >= 1
  BY DEF DeadlineAssumption
<1>2. ASSUME NEW n \in Nat, n >= 1
      PROVE  /\ n * Life \in Nat /\ n * Life >= Life
             /\ (n + 1) * Life = n * Life + Life
  <2>1. n * Life \in Nat
    BY <1>1
  <2>2. (n + 1) * Life = n * Life + Life
    BY <1>1
  <2>3. n * Life = (n - 1) * Life + Life /\ (n - 1) * Life \in Nat
    BY <1>1, <1>2
  <2>4. QED
    BY <1>1, <2>1, <2>2, <2>3
<1>3. QED
  BY <1>1, <1>2 DEF Creds, expiresAtMs, LastInstant

(* The fields of an entry after the owner's helpers.                       *)
LEMMA RetiredEntry ==
    ASSUME NEW e \in Entry
    PROVE  LET n == retire(e)
           IN  /\ n \in Entry /\ n.state = "retired" /\ n.deadline = None
               /\ ~n.warningDeadline /\ n.warning = None
               /\ ~n.pendingFire /\ ~n.pendingRefresh
               /\ n.cut = e.cut /\ n.answer = e.answer /\ n.fromDeadline = e.fromDeadline
               /\ n.early = e.early /\ n.warningEarly = e.warningEarly
               /\ n.warningFired = e.warningFired /\ n.generation = e.generation + 1
<1> DEFINE g == e.generation + 1
<1>1. g \in Nat
  BY DEF Entry
<1>2. retire(e) = [e EXCEPT !.deadline = None, !.warningDeadline = FALSE, !.warning = None,
                            !.state = "retired", !.pendingFire = FALSE,
                            !.pendingRefresh = FALSE, !.generation = g]
  BY DEF retire, cancel, Entry
<1> HIDE DEF g
<1>3. retire(e) \in Entry
  BY <1>1, <1>2 DEF Entry
<1>4. QED
  BY <1>2, <1>3 DEF Entry, g

LEMMA RefreshedEntry ==
    ASSUME NEW e \in Entry
    PROVE  LET n == refreshEntry(e)
           IN  /\ n \in Entry /\ n.state = e.state /\ n.answer = e.answer
               /\ n.warning = e.warning /\ n.warningFired = e.warningFired
               /\ n.warningEarly = e.warningEarly /\ n.pendingFire = e.pendingFire
               /\ n.generation = e.generation + 1
               /\ e.cut # "none" =>
                    /\ n.cut = e.cut /\ n.pendingRefresh
                    /\ n.deadline = e.deadline /\ n.warningDeadline = e.warningDeadline
                    /\ n.early = e.early /\ n.fromDeadline = e.fromDeadline
               /\ e.cut = "none" =>
                    /\ n.cut = "queued" /\ n.pendingRefresh = e.pendingRefresh
                    /\ n.deadline = None /\ ~n.warningDeadline
                    /\ n.early = 0 /\ ~n.fromDeadline
<1> DEFINE g == e.generation + 1
<1>0. g \in Nat
  BY DEF Entry
<1>1. CASE e.cut # "none"
  <2>1. refreshEntry(e) = [e EXCEPT !.generation = g, !.pendingRefresh = TRUE]
    BY <1>1 DEF refreshEntry, Entry
  <2> HIDE DEF g
  <2>2. QED
    BY <1>0, <1>1, <2>1 DEF Entry, g
<1>2. CASE e.cut = "none"
  <2> DEFINE m == [e EXCEPT !.generation = g, !.deadline = None, !.warningDeadline = FALSE,
                            !.early = 0, !.cut = "queued", !.fromDeadline = FALSE]
  <2>1. refreshEntry(e) = m
    BY <1>2 DEF refreshEntry, admitCut, cancel, Entry
  <2> HIDE DEF g
  <2>2. m \in Entry
    BY <1>0 DEF Entry
  <2>3. /\ m.generation = g /\ m.deadline = None /\ m.warningDeadline = FALSE /\ m.early = 0
        /\ m.cut = "queued" /\ m.fromDeadline = FALSE /\ m.state = e.state
        /\ m.answer = e.answer /\ m.warning = e.warning /\ m.warningFired = e.warningFired
        /\ m.warningEarly = e.warningEarly /\ m.pendingFire = e.pendingFire
        /\ m.pendingRefresh = e.pendingRefresh
    BY DEF Entry
  <2> HIDE DEF m
  <2>4. QED
    BY <1>2, <2>1, <2>2, <2>3 DEF g
<1>3. QED
  BY <1>1, <1>2

LEMMA ArmedEntry ==
    ASSUME NEW e \in Entry, NEW c \in Creds
    PROVE  LET n == arm(e, c)
               again == e.warning = c /\ e.warningFired
           IN  /\ n \in Entry /\ n.state = e.state /\ n.answer = e.answer /\ n.cut = e.cut
               /\ n.deadline = c /\ n.warning = c
               /\ n.warningFired <=> again
               /\ n.warningDeadline <=> e.warningDeadline \/ ~again
               /\ n.warningEarly \in {e.warningEarly, 0} /\ n.early = e.early
               /\ n.pendingFire = e.pendingFire /\ n.pendingRefresh = e.pendingRefresh
               /\ n.generation = e.generation /\ n.fromDeadline = e.fromDeadline
<1> DEFINE d == [e EXCEPT !.deadline = c]
<1>1. CASE e.warning = c
  <2>1. arm(e, c) = [d EXCEPT !.warningDeadline = d.warningDeadline \/ ~d.warningFired]
    BY <1>1 DEF arm, armWarning, Entry
  <2>2. QED
    BY <1>1, <2>1 DEF Entry
<1>2. CASE e.warning # c
  <2> DEFINE m == [e EXCEPT !.deadline = c, !.warning = c, !.warningFired = FALSE,
                            !.warningEarly = 0, !.warningDeadline = TRUE]
  <2>1. arm(e, c) = m
    BY <1>2 DEF arm, armWarning, Entry
  <2>2. m \in Entry
    BY DEF Entry
  <2>3. /\ m.deadline = c /\ m.warning = c /\ ~m.warningFired /\ m.warningEarly = 0
        /\ m.warningDeadline /\ m.state = e.state /\ m.answer = e.answer /\ m.cut = e.cut
        /\ m.early = e.early /\ m.pendingFire = e.pendingFire
        /\ m.pendingRefresh = e.pendingRefresh /\ m.generation = e.generation
        /\ m.fromDeadline = e.fromDeadline
    BY DEF Entry
  <2> HIDE DEF m
  <2>4. QED
    BY <1>2, <2>1, <2>2, <2>3
<1>3. QED
  BY <1>1, <1>2

LEMMA RearmedEntry ==
    ASSUME NEW e \in Entry, NEW c \in Creds, e.warning = c
    PROVE  LET n == armWarning(NotDue(e), c)
           IN  /\ n \in Entry /\ n.state = e.state /\ n.answer = e.answer /\ n.cut = e.cut
               /\ n.deadline = e.deadline /\ n.warning = c
               /\ ~n.warningFired /\ n.warningDeadline
               /\ n.warningEarly = e.warningEarly + 1 /\ n.early = e.early
               /\ n.pendingFire = e.pendingFire /\ n.pendingRefresh = e.pendingRefresh
               /\ n.generation = e.generation /\ n.fromDeadline = e.fromDeadline
<1> DEFINE k == e.warningEarly + 1
<1>1. k \in Nat
  BY DEF Entry
<1>2. armWarning(NotDue(e), c)
        = [e EXCEPT !.warningFired = FALSE, !.warningEarly = k, !.warningDeadline = TRUE]
  BY DEF NotDue, armWarning, Entry
<1> HIDE DEF k
<1>3. QED
  BY <1>1, <1>2 DEF Entry, k

(* A budget that is spent.                                                 *)
LEMMA Spent ==
    ASSUME TypeOK, NEW what \in {"early", "full", "misses"}, Spend(what)
    PROVE  /\ budget' \in [{"early", "full", "misses"} -> Nat]
           /\ budget'[what] = budget[what] - 1
           /\ \A k \in {"early", "full", "misses"} \ {what} : budget'[k] = budget[k]
  BY DEF Spend, TypeOK

-----------------------------------------------------------------------------
(* A step that changes nothing.                                            *)
LEMMA NothingHappens ==
    ASSUME Inv, UNCHANGED vars
    PROVE  Inv'
<1> USE DEF vars
<1>1. TypeOK' /\ Watched' /\ SealedOnlyByEarlyTimers'
  BY DEF Inv, TypeOK, Watched, SealedOnlyByEarlyTimers, Connected
<1>2. Tidy' /\ OneAttempt'
  BY DEF Inv, Tidy, OneAttempt, isCurrent, CutRuns
<1>3. Counted' /\ Behind'
  BY DEF Inv, Counted, Behind, Charged, isCurrent, isAuthorizationExpired, Connected
<1>4. Undisturbed' => OnTime'
  BY DEF Inv, Undisturbed, OnTime, Unwarned, WarningIsWatched, Arming, Underway, Fresh,
         isCurrent, isAuthorizationExpired, Connected
<1>5. QED
  BY <1>1, <1>2, <1>3, <1>4 DEF Inv

(* The registered frame is delivered; the deferred warning may find no     *)
(* room, which ends the connection.                                        *)
LEMMA RegistrationKeeps ==
    ASSUME DeadlineAssumption, Inv, CommitRegistration
    PROVE  Inv'
<1>1. /\ UNCHANGED <<entry, calls, sealed, now>>
      /\ budget' \in [{"early", "full", "misses"} -> Nat]
      /\ budget'.early = budget.early /\ budget'.misses = budget.misses
  BY DEF CommitRegistration, Spend, Inv, TypeOK
<1>2. /\ core.status = "pending" /\ core \in Core /\ core' \in Core
      /\ core'.cred = core.cred /\ core'.refresh = core.refresh
      /\ core'.markerCred = core.markerCred
      /\ \/ core'.status = "closing" /\ core'.marker = None /\ core'.sent = core.sent
         \/ /\ core'.status = "active"
            /\ core.marker = "deferred" /\ core.markerCred = core.cred
            /\ core'.sent = core.sent \cup {core.cred}
         \/ /\ core'.status = "active"
            /\ ~(core.marker = "deferred" /\ core.markerCred = core.cred)
            /\ core'.sent = core.sent /\ core'.marker = core.marker
  <2>1. core \in Core /\ core.status = "pending" /\ core.cred \in Creds
    BY DEF CommitRegistration, Inv, TypeOK, Core
  <2>2. CASE core' = [core EXCEPT !.status = "closing", !.marker = None]
    BY <2>1, <2>2 DEF Core
  <2>3. CASE /\ core.marker = "deferred" /\ core.markerCred = core.cred
             /\ core' = [core EXCEPT !.status = "active", !.marker = "emitted",
                                     !.sent = @ \cup {core.cred}]
    BY <2>1, <2>3 DEF Core
  <2>4. CASE /\ ~(core.marker = "deferred" /\ core.markerCred = core.cred)
             /\ core' = [core EXCEPT !.status = "active"]
    BY <2>1, <2>4 DEF Core
  <2>5. QED
    BY <2>1, <2>2, <2>3, <2>4 DEF CommitRegistration
<1>3. Connected /\ (core'.status = "active" => Connected') /\ None # "emitted"
      /\ (core'.status = "closing" => ~Connected')
  BY <1>2 DEF Connected, DeadlineAssumption, Answers
<1>4. TypeOK' /\ SealedOnlyByEarlyTimers'
  BY <1>1, <1>2 DEF Inv, TypeOK, SealedOnlyByEarlyTimers
<1>5. Watched'
  BY <1>1, <1>2, <1>3 DEF Inv, Watched
<1>6. Tidy' /\ OneAttempt'
  BY <1>1 DEF Inv, Tidy, OneAttempt, isCurrent, CutRuns
<1>7. Counted'
  BY <1>1, <1>2, <1>3 DEF Inv, Counted, Charged, isCurrent, isAuthorizationExpired
<1>8. Behind'
  BY <1>1, <1>2, <1>3 DEF Inv, Behind
<1>9. Undisturbed' => OnTime'
  BY <1>1, <1>2, <1>3 DEF Inv, Undisturbed, OnTime, Unwarned, WarningIsWatched, Arming, Underway,
         Fresh, isCurrent, isAuthorizationExpired
<1>10. QED
  BY <1>4, <1>5, <1>6, <1>7, <1>8, <1>9 DEF Inv

(* The host is given a newer credential: the refresh that will arm it is   *)
(* pending from the same step on.                                          *)
LEMMA ReauthenticationKeeps ==
    ASSUME DeadlineAssumption, Inv, Reauthenticate
    PROVE  Inv'
<1>1. /\ UNCHANGED <<entry, calls, sealed, now, budget>>
      /\ core.status = "active" /\ core \in Core /\ core.cred \in Nat
      /\ core'.status = "active" /\ core'.cred = core.cred + 1 /\ core'.cred \in Creds
      /\ core'.refresh /\ core'.marker = core.marker
      /\ core'.markerCred = core.markerCred /\ core'.sent = core.sent
      /\ core.cred \in Creds /\ ~isAuthorizationExpired(core.cred)
  <2> DEFINE k == core.cred + 1
  <2>1. core \in Core /\ core.cred \in Creds
    BY DEF Inv, TypeOK, Core
  <2>2. k \in Creds
    BY <2>1 DEF DeadlineAssumption, Reauthenticate, Creds
  <2>3. core' = [core EXCEPT !.cred = k, !.refresh = TRUE]
    BY <2>1 DEF Reauthenticate, Core
  <2> HIDE DEF k
  <2>4. core'.cred = k /\ core'.refresh = TRUE /\ core'.status = core.status
        /\ core'.marker = core.marker
        /\ core'.markerCred = core.markerCred /\ core'.sent = core.sent
    BY <2>1, <2>3 DEF Core
  <2>5. QED
    BY <2>1, <2>2, <2>4 DEF k, Reauthenticate, Creds
<1>2. core' \in Core
  BY <1>1 DEF Core, Reauthenticate
<1>3. Connected /\ Connected'
  BY <1>1 DEF Connected
<1>4. /\ expiresAtMs(core.cred) < expiresAtMs(core'.cred) /\ now < expiresAtMs(core.cred)
      /\ expiresAtMs(core.cred) \in Nat /\ expiresAtMs(core'.cred) \in Nat /\ now \in Nat
      /\ now' = now
  <2>1. now \in Nat
    BY Expiries DEF Inv, TypeOK
  <2>2. QED
    BY <1>1, <2>1, Expiries DEF isAuthorizationExpired
<1>5. ~isAuthorizationExpired(core.cred)'
  BY <1>4 DEF isAuthorizationExpired
<1>6. TypeOK' /\ SealedOnlyByEarlyTimers'
  BY <1>1, <1>2 DEF Inv, TypeOK, SealedOnlyByEarlyTimers
<1>7. Watched'
  BY <1>1 DEF Watched
<1>8. Tidy' /\ OneAttempt'
  BY <1>1 DEF Inv, Tidy, OneAttempt, isCurrent, CutRuns
<1>9. Counted'
  BY <1>1, <1>3 DEF Inv, Counted, Charged, isCurrent
<1>10. Behind'
  <2>1. \A n \in Creds : n <= core.cred => n <= core'.cred
    BY <1>1 DEF Creds, DeadlineAssumption
  <2>2. entry.warning # None => entry.warning \in Creds
    BY DEF Inv, TypeOK, Entry
  <2>3. entry.cut = "answered" /\ entry.answer.outcome = "active" => entry.answer.cred \in Creds
    BY DEF Inv, Tidy, Result
  <2>4. \A c \in calls : c.cred \in Creds
    BY DEF Inv, TypeOK, Attempt
  <2>5. QED
    BY <1>1, <1>3, <2>1, <2>2, <2>3, <2>4 DEF Inv, Behind
<1>11. Undisturbed' => OnTime'
  <2>1. \A c \in calls : c.cred # core'.cred
    BY <1>1 DEF Inv, Behind, TypeOK, Attempt, Creds, DeadlineAssumption
  <2>2. entry.warning # core'.cred
    BY <1>1 DEF Inv, Behind, TypeOK, Entry, Creds, DeadlineAssumption
  <2>3. Arming'
    BY <1>1, <2>2 DEF Arming
  <2>4. QED
    BY <1>1, <1>3, <1>5, <2>1, <2>3 DEF Inv, Undisturbed, OnTime, WarningIsWatched
<1>12. QED
  BY <1>6, <1>7, <1>8, <1>9, <1>10, <1>11 DEF Inv

(* The same request again starts another refresh.                          *)
LEMMA ReplayKeeps ==
    ASSUME DeadlineAssumption, Inv, ReplayReauthentication
    PROVE  Inv'
<1>1. /\ UNCHANGED <<entry, calls, sealed, now>>
      /\ core.status = "active" /\ core \in Core /\ core' \in Core
      /\ core'.status = "active" /\ core'.cred = core.cred /\ core'.refresh
      /\ core'.marker = core.marker /\ core'.markerCred = core.markerCred
      /\ core'.sent = core.sent
  BY DEF ReplayReauthentication, Inv, TypeOK, Core
<1>2. /\ budget' \in [{"early", "full", "misses"} -> Nat]
      /\ budget'.early = budget.early
      /\ budget'.misses < MaxMisses /\ budget'.misses \in Nat /\ MaxMisses \in Nat
  <2>1. TypeOK /\ Spend("misses") /\ budget.misses \in Nat
    BY DEF ReplayReauthentication, Inv, TypeOK
  <2>2. QED
    BY <2>1, Spent DEF Inv, Counted, DeadlineAssumption
<1>3. Connected /\ Connected'
  BY <1>1 DEF Connected
<1>4. TypeOK' /\ SealedOnlyByEarlyTimers'
  BY <1>1, <1>2 DEF Inv, TypeOK, SealedOnlyByEarlyTimers
<1>5. Watched'
  BY <1>1 DEF Watched
<1>6. Tidy' /\ OneAttempt'
  BY <1>1 DEF Inv, Tidy, OneAttempt, isCurrent, CutRuns
<1>7. Counted'
  BY <1>1, <1>2, <1>3 DEF Inv, Counted, Charged, isCurrent, isAuthorizationExpired
<1>8. Behind'
  BY <1>1, <1>3 DEF Inv, Behind
<1>9. ~Undisturbed'
  BY <1>2 DEF Undisturbed
<1>10. QED
  BY <1>4, <1>5, <1>6, <1>7, <1>8, <1>9 DEF Inv

(* The refresh reaches the owner.  While the owner is not disturbed it     *)
(* finds no attempt to warn about the current credential.                  *)
LEMMA RefreshKeeps ==
    ASSUME DeadlineAssumption, Inv, Refresh
    PROVE  Inv'
<1>1. /\ UNCHANGED <<calls, sealed, now, budget>>
      /\ core.refresh /\ core \in Core /\ core' \in Core
      /\ core'.status = core.status /\ core'.cred = core.cred /\ ~core'.refresh
      /\ core'.marker = core.marker /\ core'.markerCred = core.markerCred
      /\ core'.sent = core.sent
      /\ entry \in Entry /\ calls \subseteq Attempt
  BY DEF Refresh, Inv, TypeOK, Core
<1>2. Connected' = Connected
  BY <1>1 DEF Connected
<1>3. CASE ~isCurrent(entry)
  <2>1. entry' = entry
    BY <1>3 DEF Refresh
  <2>2. TypeOK' /\ SealedOnlyByEarlyTimers'
    BY <1>1, <2>1 DEF Inv, TypeOK, SealedOnlyByEarlyTimers
  <2>3. Watched'
    BY <1>1, <1>3, <2>1 DEF Watched, isCurrent
  <2>4. Tidy' /\ OneAttempt'
    BY <1>1, <2>1 DEF Inv, Tidy, OneAttempt, isCurrent, CutRuns
  <2>5. Counted'
    BY <1>1, <1>2, <2>1 DEF Inv, Counted, Charged, isCurrent, isAuthorizationExpired
  <2>6. Behind'
    BY <1>1, <1>2, <2>1 DEF Inv, Behind
  <2>7. Undisturbed' => OnTime'
    <3>1. Undisturbed /\ OnTime => ~Connected
      BY <1>3 DEF OnTime, Undisturbed, isCurrent
    <3>2. QED
      BY <1>1, <1>2, <2>1, <3>1 DEF Inv, Undisturbed, OnTime, Unwarned
  <2>8. QED
    BY <2>2, <2>3, <2>4, <2>5, <2>6, <2>7 DEF Inv
<1>4. CASE isCurrent(entry)
  <2>1. entry' = refreshEntry(entry)
    BY <1>4 DEF Refresh
  <2>2. /\ entry' \in Entry /\ entry'.state = entry.state /\ entry'.answer = entry.answer
        /\ entry'.warning = entry.warning /\ entry'.warningFired = entry.warningFired
        /\ entry'.warningEarly = entry.warningEarly /\ entry'.pendingFire = entry.pendingFire
        /\ entry'.generation = entry.generation + 1
        /\ entry.cut # "none" =>
             /\ entry'.cut = entry.cut /\ entry'.pendingRefresh
             /\ entry'.deadline = entry.deadline
             /\ entry'.warningDeadline = entry.warningDeadline
             /\ entry'.early = entry.early /\ entry'.fromDeadline = entry.fromDeadline
        /\ entry.cut = "none" =>
             /\ entry'.cut = "queued" /\ entry'.pendingRefresh = entry.pendingRefresh
             /\ entry'.deadline = None /\ ~entry'.warningDeadline
             /\ entry'.early = 0 /\ ~entry'.fromDeadline
    BY <1>1, <2>1, RefreshedEntry
  <2> HIDE DEF Entry
  <2>3. TypeOK' /\ SealedOnlyByEarlyTimers'
    BY <1>1, <1>4, <2>2 DEF Inv, TypeOK, SealedOnlyByEarlyTimers, isCurrent
  <2>4. Watched'
    BY <1>1, <2>2 DEF Watched
  <2>5. Tidy'
    BY <1>1, <1>4, <2>2 DEF Inv, Tidy, isCurrent, CutRuns
  <2>6. /\ entry.generation \in Nat /\ \A c \in calls : c.generation \in Nat
        /\ \A c \in calls : c.generation < entry'.generation
    BY <1>1, <2>2 DEF Inv, OneAttempt, Entry, Attempt
  <2>7. OneAttempt'
    BY <1>1, <2>2, <2>6 DEF Inv, OneAttempt
  <2>8. Counted'
    <3>1. budget.early \in Nat /\ MaxEarly \in Nat /\ entry.early \in Nat
      BY <1>1 DEF Inv, TypeOK, DeadlineAssumption, Entry
    <3>2. QED
      BY <1>1, <1>2, <2>2, <3>1 DEF Inv, Counted, Charged, isCurrent, isAuthorizationExpired
  <2>9. Behind'
    BY <1>1, <1>2, <2>2 DEF Inv, Behind
  <2>10. Undisturbed' => OnTime'
    <3>1. SUFFICES ASSUME Undisturbed PROVE OnTime'
      BY <1>1 DEF Undisturbed
    <3>2. \A c \in calls : c.cred # core.cred
      BY <1>1, <3>1 DEF Inv, OnTime
    <3>3. Unwarned' => WarningIsWatched'
      BY <1>1, <1>2, <2>2, <3>1, <3>2
         DEF Inv, Tidy, OnTime, Unwarned, WarningIsWatched, Arming, Underway
    <3>4. QED
      BY <1>1, <1>2, <2>2, <3>1, <3>3 DEF Inv, OnTime, Unwarned, isAuthorizationExpired
  <2>11. QED
    BY <2>3, <2>4, <2>5, <2>7, <2>8, <2>9, <2>10 DEF Inv
<1>5. QED
  BY <1>3, <1>4

(* The connection ends: its entry is retired.                              *)
LEMMA DisconnectKeeps ==
    ASSUME DeadlineAssumption, Inv, Disconnect
    PROVE  Inv'
<1>1. /\ UNCHANGED <<calls, sealed, now, budget>>
      /\ core \in Core /\ core' \in Core
      /\ core'.status = "gone" /\ core'.cred = core.cred /\ ~core'.refresh
      /\ core'.marker = core.marker /\ core'.markerCred = core.markerCred
      /\ core'.sent = core.sent
      /\ entry \in Entry /\ calls \subseteq Attempt
  BY DEF Disconnect, Inv, TypeOK, Core
<1>2. ~Connected'
  BY <1>1 DEF Connected
<1>3. \/ entry' = entry /\ entry.state = "retired"
      \/ entry.state = "current" /\ entry' = retire(entry)
  BY <1>1 DEF Disconnect, Entry
<1>4. /\ entry' \in Entry /\ entry'.state = "retired"
      /\ entry'.cut = entry.cut /\ entry'.answer = entry.answer
      /\ entry'.early = entry.early /\ entry'.warningEarly = entry.warningEarly
      /\ entry'.deadline = None /\ ~entry'.warningDeadline
      /\ entry'.warning \in {None, entry.warning}
      /\ ~entry'.pendingFire /\ ~entry'.pendingRefresh
      /\ entry'.generation >= entry.generation
      /\ \A c \in calls : c.generation \in Nat /\ c.generation <= entry.generation
      /\ entry.generation \in Nat /\ entry'.generation \in Nat
  BY <1>1, <1>3, RetiredEntry DEF Inv, TypeOK, Tidy, isCurrent, OneAttempt, Entry, Attempt
<1>5. TypeOK' /\ SealedOnlyByEarlyTimers'
  BY <1>1, <1>4 DEF Inv, TypeOK, SealedOnlyByEarlyTimers
<1>6. Watched'
  BY <1>2 DEF Watched
<1>7. Tidy'
  BY <1>1, <1>4 DEF Inv, Tidy, isCurrent, CutRuns
<1>8. OneAttempt'
  BY <1>1, <1>4 DEF Inv, OneAttempt
<1>9. Counted'
  BY <1>1, <1>2, <1>4 DEF Inv, Counted, Charged, isCurrent
<1>10. Behind'
  BY <1>1, <1>2, <1>4 DEF Inv, Behind
<1>11. Undisturbed' => OnTime'
  BY <1>1, <1>2, <1>4 DEF Inv, Undisturbed, OnTime, Unwarned
<1>12. QED
  BY <1>5, <1>6, <1>7, <1>8, <1>9, <1>10, <1>11 DEF Inv

(* What a timer that fires finds: every promise of the owner has settled,  *)
(* so the deadline, if armed, is the current credential's, and a deadline  *)
(* that fires in time has no warning armed any more.                       *)
LEMMA TimersFindItSettled ==
    ASSUME Inv, Settled, isCurrent(entry)
    PROVE  /\ calls = {} /\ entry.cut = "none" /\ ~core.refresh /\ ~entry.pendingRefresh
           /\ Connected => entry.deadline = core.cred
           /\ Undisturbed /\ Unwarned => entry.warningDeadline /\ entry.warning = core.cred
<1>1. calls = {} /\ entry.cut = "none" /\ ~core.refresh /\ ~entry.pendingRefresh
  BY DEF Settled, Inv, Tidy
<1>2. Connected => entry.deadline = core.cred
  BY <1>1 DEF Inv, Watched, isCurrent
<1>3. Undisturbed /\ Unwarned => entry.warningDeadline /\ entry.warning = core.cred
  BY <1>1 DEF Inv, OnTime, WarningIsWatched, Arming
<1>4. QED
  BY <1>1, <1>2, <1>3

(* A timer fires when due, or early at a price.                            *)
LEMMA Fires ==
    ASSUME DeadlineAssumption, Inv, NEW at \in Nat, Due(at)
    PROVE  /\ budget' \in [{"early", "full", "misses"} -> Nat]
           /\ budget'.misses = budget.misses
           /\ budget'.early <= budget.early /\ budget.early \in Nat /\ budget'.early \in Nat
           /\ MaxEarly \in Nat /\ now \in Nat
           /\ now >= at \/ (budget'.early + 1 = budget.early /\ now + 1 = at)
<1>1. budget \in [{"early", "full", "misses"} -> Nat] /\ TypeOK
  BY DEF Inv, TypeOK
<1>2. MaxEarly \in Nat /\ now \in Nat
  BY Expiries DEF Inv, TypeOK, DeadlineAssumption
<1>3. CASE now >= at /\ budget' = budget
  BY <1>1, <1>2, <1>3
<1>4. CASE now + 1 = at /\ Spend("early")
  BY <1>1, <1>2, <1>4, Spent
<1>5. QED
  BY <1>3, <1>4 DEF Due

LEMMA DeadlineKeeps ==
    ASSUME DeadlineAssumption, Inv, deadlineFired
    PROVE  Inv'
<1>1. /\ UNCHANGED <<core, calls, sealed, now>> /\ core \in Core
      /\ isCurrent(entry) /\ entry.deadline # None /\ Settled /\ ~WarningIsDue
      /\ entry \in Entry /\ entry.deadline \in Creds
  BY DEF deadlineFired, Inv, TypeOK, Entry
<1>2. /\ calls = {} /\ entry.cut = "none" /\ ~core.refresh /\ ~entry.pendingRefresh
      /\ Connected => entry.deadline = core.cred
      /\ Undisturbed /\ Unwarned => entry.warningDeadline /\ entry.warning = core.cred
  BY <1>1, TimersFindItSettled
<1>3. /\ entry' \in Entry /\ entry'.state = entry.state /\ entry'.answer = entry.answer
      /\ entry'.warning = entry.warning /\ entry'.warningFired = entry.warningFired
      /\ entry'.warningEarly = entry.warningEarly /\ entry'.pendingFire = entry.pendingFire
      /\ entry'.pendingRefresh = entry.pendingRefresh /\ entry'.generation = entry.generation
      /\ entry'.warningDeadline = entry.warningDeadline /\ entry'.early = entry.early
      /\ entry'.cut = "queued" /\ entry'.deadline = None /\ entry'.fromDeadline
  <2>1. entry' = [entry EXCEPT !.deadline = None, !.cut = "queued", !.fromDeadline = TRUE]
    BY <1>1, <1>2 DEF deadlineFired, admitCut, Entry
  <2>2. QED
    BY <1>1, <2>1 DEF Entry
<1> DEFINE at == expiresAtMs(entry.deadline)
<1>4. /\ at \in Nat /\ Lead \in Nat /\ Lead >= 1 /\ at >= Lead /\ Due(at)
  BY <1>1, Expiries DEF deadlineFired
<1> HIDE DEF at
<1>5. /\ budget' \in [{"early", "full", "misses"} -> Nat]
      /\ budget'.misses = budget.misses
      /\ budget'.early <= budget.early /\ budget.early \in Nat /\ budget'.early \in Nat
      /\ MaxEarly \in Nat /\ now \in Nat
      /\ now >= at \/ (budget'.early + 1 = budget.early /\ now + 1 = at)
  BY <1>4, Fires
<1>6. ~entry.warningDeadline
  <2>1. entry.warning = entry.deadline
    BY <1>1 DEF Inv, Tidy
  <2>2. now >= at - Lead
    BY <1>4, <1>5
  <2>3. QED
    BY <1>1, <2>1, <2>2 DEF WarningIsDue, at
<1>7. TypeOK' /\ SealedOnlyByEarlyTimers'
  <2>1. sealed' = FALSE
    BY <1>1 DEF isCurrent, Inv, TypeOK
  <2>2. QED
    BY <1>1, <1>3, <1>5, <2>1 DEF Inv, TypeOK, SealedOnlyByEarlyTimers, isCurrent
<1>8. Watched'
  BY <1>3 DEF Watched
<1>9. Tidy' /\ OneAttempt'
  BY <1>1, <1>2, <1>3, <1>6 DEF Inv, Tidy, OneAttempt
<1>10. Counted'
  <2>1. entry.early \in Nat /\ entry.warningEarly \in Nat
    BY <1>1 DEF Entry
  <2>2. Connected => isAuthorizationExpired(core.cred) \/ budget'.early + 1 = budget.early
    BY <1>2, <1>5 DEF isAuthorizationExpired, at
  <2>3. Connected' = Connected /\ isAuthorizationExpired(core.cred)' = isAuthorizationExpired(core.cred)
    BY <1>1 DEF Connected, isAuthorizationExpired
  <2>4. Connected => isAuthorizationExpired(core.cred) \/ budget'.early + entry.early + 1 <= MaxEarly
    BY <1>5, <2>1, <2>2 DEF Inv, Counted
  <2>5. QED
    BY <1>1, <1>2, <1>3, <1>5, <2>1, <2>3, <2>4 DEF Inv, Counted, Charged
<1>11. Behind'
  BY <1>1, <1>2, <1>3 DEF Inv, Behind
<1>12. Undisturbed' => OnTime'
  <2>1. SUFFICES ASSUME Undisturbed PROVE OnTime'
    BY <1>1, <1>5 DEF Undisturbed
  <2>2. ~Unwarned'
    BY <1>1, <1>2, <1>6, <2>1 DEF Unwarned, Connected
  <2>3. QED
    BY <1>1, <1>2, <1>3, <1>6, <2>1, <2>2 DEF Inv, OnTime, Connected
<1>13. QED
  BY <1>7, <1>8, <1>9, <1>10, <1>11, <1>12 DEF Inv

LEMMA WarningFiredKeeps ==
    ASSUME DeadlineAssumption, Inv, warningDeadlineFired
    PROVE  Inv'
<1> DEFINE attempt == [kind |-> "emit", cred |-> entry.warning,
                       generation |-> entry.generation + 1, answer |-> None]
<1>1. /\ UNCHANGED <<core, sealed, now>> /\ core \in Core
      /\ isCurrent(entry) /\ entry.warningDeadline /\ Settled
      /\ entry \in Entry /\ entry.warning \in Creds /\ ~entry.warningFired
      /\ calls' = calls \cup {attempt} /\ entry.generation \in Nat
  BY DEF warningDeadlineFired, Inv, TypeOK, Tidy, Entry
<1>2. /\ calls = {} /\ entry.cut = "none" /\ ~core.refresh /\ ~entry.pendingRefresh
      /\ Connected => entry.deadline = core.cred
      /\ Undisturbed /\ Unwarned => entry.warningDeadline /\ entry.warning = core.cred
  BY <1>1, TimersFindItSettled
<1>3. /\ entry' \in Entry /\ entry'.state = entry.state /\ entry'.answer = entry.answer
      /\ entry'.warning = entry.warning /\ entry'.warningFired
      /\ entry'.warningEarly = entry.warningEarly /\ entry'.pendingFire = entry.pendingFire
      /\ entry'.pendingRefresh = entry.pendingRefresh
      /\ entry'.generation = entry.generation + 1
      /\ ~entry'.warningDeadline /\ entry'.early = entry.early
      /\ entry'.cut = "none" /\ entry'.deadline = entry.deadline
      /\ entry'.fromDeadline = entry.fromDeadline
  <2> DEFINE g == entry.generation + 1
  <2>1. entry' = [entry EXCEPT !.warningDeadline = FALSE, !.warningFired = TRUE,
                               !.generation = g] /\ g \in Nat
    BY <1>1 DEF warningDeadlineFired, Entry
  <2> HIDE DEF g
  <2>2. QED
    BY <1>1, <1>2, <2>1 DEF Entry, g
<1>4. PICK call : /\ calls' = {call} /\ call.kind = "emit" /\ call.cred = entry.warning
                  /\ call.generation = entry'.generation /\ call.answer = None
                  /\ call \in Attempt
  <2>1. /\ calls' = {attempt} /\ attempt.kind = "emit" /\ attempt.cred = entry.warning
        /\ attempt.generation = entry'.generation /\ attempt.answer = None
        /\ attempt \in Attempt
    BY <1>1, <1>2, <1>3 DEF Attempt
  <2> HIDE DEF attempt
  <2>2. QED
    BY <2>1
<1> HIDE DEF attempt
<1> DEFINE at == expiresAtMs(entry.warning) - Lead
<1>5. at \in Nat /\ Due(at)
  BY <1>1, Expiries DEF warningDeadlineFired
<1>6. at + Lead = expiresAtMs(call.cred) /\ expiresAtMs(call.cred) \in Nat /\ Lead \in Nat
      /\ Lead >= 1
  BY <1>1, <1>4, Expiries
<1> HIDE DEF at
<1>7. /\ budget' \in [{"early", "full", "misses"} -> Nat]
      /\ budget'.misses = budget.misses
      /\ budget'.early <= budget.early /\ budget.early \in Nat /\ budget'.early \in Nat
      /\ MaxEarly \in Nat /\ now \in Nat
      /\ now >= at \/ (budget'.early + 1 = budget.early /\ now + 1 = at)
  BY <1>5, Fires
<1>8. TypeOK' /\ SealedOnlyByEarlyTimers'
  <2>1. sealed' = FALSE
    BY <1>1 DEF isCurrent, Inv, TypeOK
  <2>2. QED
    BY <1>1, <1>3, <1>4, <1>7, <2>1 DEF Inv, TypeOK, SealedOnlyByEarlyTimers, isCurrent
<1>9. Watched'
  BY <1>1, <1>2, <1>3 DEF Watched, Connected
<1>10. Tidy'
  BY <1>1, <1>2, <1>3 DEF Inv, Tidy, isCurrent, CutRuns
<1>11. OneAttempt'
  <2>1. entry'.generation \in Nat
    BY <1>3 DEF Entry
  <2>2. QED
    BY <1>3, <1>4, <2>1 DEF OneAttempt
<1>12. Counted'
  <2>1. entry.early \in Nat /\ entry.warningEarly \in Nat
    BY <1>1 DEF Entry
  <2>2. now >= expiresAtMs(call.cred) - Lead \/ budget'.early + entry.warningEarly + 1 <= MaxEarly
    BY <1>5, <1>6, <1>7, <2>1 DEF Inv, Counted
  <2>3. call.answer # "not_due"
    BY <1>4 DEF DeadlineAssumption, Answers
  <2>4. /\ budget'.misses <= MaxMisses /\ budget'.early + entry.early <= MaxEarly
        /\ budget'.early + entry.warningEarly <= MaxEarly
    BY <1>7, <2>1 DEF Inv, Counted
  <2>5. \A c \in calls' : c = call
    BY <1>4
  <2>6. QED
    BY <1>1, <1>3, <1>4, <2>2, <2>3, <2>4, <2>5 DEF Counted, Charged
<1>13. Behind'
  <2>1. call.answer # "closed"
    BY <1>4 DEF DeadlineAssumption, Answers
  <2>2. entry.warning <= core.cred
    BY <1>1 DEF Inv, Behind, DeadlineAssumption, Creds
  <2>3. QED
    BY <1>1, <1>2, <1>3, <1>4, <2>1, <2>2 DEF Inv, Behind
<1>14. Undisturbed' => OnTime'
  <2>1. SUFFICES ASSUME Undisturbed PROVE OnTime'
    BY <1>1, <1>7 DEF Undisturbed
  <2>2. now < expiresAtMs(call.cred)
    BY <1>1, <1>4, <2>1 DEF Inv, OnTime
  <2>3. Unwarned' => Underway(call)'
    BY <1>1, <1>2, <1>3, <1>4, <2>1 DEF Underway, Unwarned, Fresh, Connected, isCurrent
  <2>4. Unwarned' => ~isAuthorizationExpired(core.cred)' /\ WarningIsWatched'
    BY <1>1, <1>4, <2>1, <2>3
       DEF Inv, OnTime, Unwarned, Connected, isAuthorizationExpired, WarningIsWatched
  <2>5. call.answer # "expired"
    BY <1>4 DEF DeadlineAssumption, Answers
  <2>6. QED
    BY <1>1, <1>2, <1>3, <1>4, <2>1, <2>2, <2>4, <2>5 DEF Inv, OnTime, Connected
<1>15. QED
  BY <1>8, <1>9, <1>10, <1>11, <1>12, <1>13, <1>14 DEF Inv

(* The broker answers a cut: an expired connection is fenced.              *)
LEMMA AnswerKeeps ==
    ASSUME DeadlineAssumption, Inv, AnswerCut
    PROVE  Inv'
<1> DEFINE r == recheckConnectionAccessExpiry
<1>1. /\ UNCHANGED <<calls, sealed, now, budget>> /\ core \in Core /\ entry \in Entry
      /\ entry.cut = "queued" /\ core.cred \in Creds
  BY DEF AnswerCut, Inv, TypeOK, Core
<1>2. /\ core' \in Core /\ core'.cred = core.cred /\ core'.refresh = core.refresh
      /\ core'.marker = core.marker /\ core'.markerCred = core.markerCred
      /\ core'.sent = core.sent
      /\ core'.status = IF r.outcome = "expired" THEN "closing" ELSE core.status
  BY <1>1 DEF AnswerCut, Core
<1>3. \/ /\ Connected /\ Connected' /\ ~isAuthorizationExpired(core.cred)
         /\ r = [outcome |-> "active", cred |-> core.cred]
         /\ r.outcome = "active" /\ r.cred = core.cred
      \/ ~Connected' /\ r.outcome # "active" /\ (Connected => isAuthorizationExpired(core.cred))
  BY <1>2 DEF recheckConnectionAccessExpiry, Connected
<1>4. Connected' => Connected
  BY <1>2 DEF Connected
<1>5. r \in Result
  BY <1>1 DEF recheckConnectionAccessExpiry, Result
<1>6. /\ entry' \in Entry /\ entry'.state = entry.state /\ entry'.answer = r
      /\ entry'.warning = entry.warning /\ entry'.warningFired = entry.warningFired
      /\ entry'.warningEarly = entry.warningEarly /\ entry'.pendingFire = entry.pendingFire
      /\ entry'.pendingRefresh = entry.pendingRefresh /\ entry'.generation = entry.generation
      /\ entry'.warningDeadline = entry.warningDeadline /\ entry'.early = entry.early
      /\ entry'.cut = "answered" /\ entry'.deadline = entry.deadline
      /\ entry'.fromDeadline = entry.fromDeadline
  <2>1. entry' = [entry EXCEPT !.cut = "answered", !.answer = r]
    BY DEF AnswerCut
  <2> HIDE DEF r
  <2>2. QED
    BY <1>1, <1>5, <2>1 DEF Entry
<1> HIDE DEF r
<1>7. isCurrent(entry)' = isCurrent(entry)
  BY <1>1, <1>6 DEF isCurrent
<1>8. TypeOK' /\ SealedOnlyByEarlyTimers'
  BY <1>1, <1>2, <1>6 DEF Inv, TypeOK, SealedOnlyByEarlyTimers
<1>9. Watched'
  BY <1>2, <1>3, <1>6 DEF Watched
<1>10. Tidy' /\ OneAttempt'
  BY <1>1, <1>5, <1>6, <1>7 DEF Inv, Tidy, OneAttempt, CutRuns
<1>11. Counted'
  BY <1>1, <1>3, <1>6, <1>7 DEF Inv, Counted, Charged
<1>12. Behind'
  <2>1. core.cred \in Nat
    BY <1>1 DEF Creds
  <2>2. QED
    BY <1>1, <1>2, <1>3, <1>4, <1>6, <2>1 DEF Inv, Behind
<1>13. Undisturbed' => OnTime'
  <2>1. SUFFICES ASSUME Undisturbed PROVE OnTime'
    BY <1>1 DEF Undisturbed
  <2>2. isAuthorizationExpired(core.cred)' = isAuthorizationExpired(core.cred)
    BY <1>1, <1>2 DEF isAuthorizationExpired
  <2>3. Connected' => now < expiresAtMs(core.cred)
    <3>1. now \in Nat /\ expiresAtMs(core.cred) \in Nat
      BY <1>1, Expiries DEF Inv, TypeOK
    <3>2. QED
      BY <1>3, <3>1 DEF isAuthorizationExpired
  <2>4. ASSUME Unwarned' PROVE WarningIsWatched'
    <3>1. Unwarned
      BY <1>1, <1>2, <1>4, <2>4 DEF Unwarned, Connected
    <3>2. ASSUME NEW c \in calls, Underway(c) PROVE Underway(c)'
      BY <1>1, <1>2, <1>6, <1>7, <3>2 DEF Underway, Fresh
    <3>3. Arming => Arming'
      BY <1>1, <1>2, <1>3, <1>6, <2>4 DEF Arming, Unwarned
    <3>4. QED
      BY <1>1, <1>2, <1>6, <2>1, <3>1, <3>2, <3>3 DEF Inv, OnTime, WarningIsWatched
  <2>5. QED
    BY <1>1, <1>2, <1>3, <1>4, <1>6, <2>1, <2>2, <2>3, <2>4 DEF Inv, OnTime, Unwarned
<1>14. QED
  BY <1>8, <1>9, <1>10, <1>11, <1>12, <1>13 DEF Inv

(* The owner applies the answer.                                           *)
LEMMA ApplyKeeps ==
    ASSUME DeadlineAssumption, Inv, ApplyCut
    PROVE  Inv'
<1>1. /\ UNCHANGED <<core, calls, now, budget>> /\ core \in Core /\ entry \in Entry
      /\ entry.cut = "answered" /\ entry.answer \in Result /\ sealed \in BOOLEAN
      /\ entry.generation \in Nat /\ \A c \in calls : c.generation \in Nat
      /\ budget.early \in Nat /\ MaxEarly \in Nat /\ entry.early \in Nat
  BY DEF ApplyCut, Inv, TypeOK, Tidy, Entry, Attempt, DeadlineAssumption
<1>2. /\ Connected' = Connected /\ isAuthorizationExpired(core.cred)' = isAuthorizationExpired(core.cred)
      /\ Unwarned' = Unwarned
  BY <1>1 DEF Connected, isAuthorizationExpired, Unwarned
<1>3. isCurrent(entry) => entry.deadline = None /\ ~entry.warningDeadline
  BY <1>1 DEF Inv, Tidy, CutRuns
<1>4. \A c \in calls : c.generation < entry.generation
  BY <1>1 DEF Inv, OneAttempt
<1>5. CASE ~isCurrent(entry)
  <2>1. /\ sealed' = sealed
        /\ entry' \in Entry /\ entry'.state = entry.state /\ entry'.answer = None
        /\ entry'.warning = entry.warning /\ entry'.warningFired = entry.warningFired
        /\ entry'.warningEarly = entry.warningEarly /\ entry'.pendingFire = entry.pendingFire
        /\ entry'.pendingRefresh = entry.pendingRefresh /\ entry'.generation = entry.generation
        /\ entry'.warningDeadline = entry.warningDeadline /\ entry'.early = entry.early
        /\ entry'.cut = "applied" /\ entry'.deadline = entry.deadline
        /\ entry'.fromDeadline = entry.fromDeadline
    <3>1. sealed' = sealed /\ entry' = [entry EXCEPT !.cut = "applied", !.answer = None]
      BY <1>5 DEF ApplyCut
    <3>2. QED
      BY <1>1, <3>1 DEF Entry
  <2>2. ~isCurrent(entry)'
    BY <1>5, <2>1 DEF isCurrent
  <2>3. TypeOK' /\ SealedOnlyByEarlyTimers' /\ Watched'
    BY <1>1, <2>1, <2>2 DEF Inv, TypeOK, SealedOnlyByEarlyTimers, Watched, isCurrent
  <2>4. Tidy' /\ OneAttempt'
    BY <1>1, <1>5, <2>1, <2>2 DEF Inv, Tidy, OneAttempt, CutRuns
  <2>5. Counted' /\ Behind'
    BY <1>1, <1>2, <2>1, <2>2 DEF Inv, Counted, Charged, Behind
  <2>6. Undisturbed' => OnTime'
    <3>1. Undisturbed /\ OnTime => ~Connected
      BY <1>5 DEF OnTime, Undisturbed, isCurrent
    <3>2. QED
      BY <1>1, <1>2, <2>1, <3>1 DEF Inv, Undisturbed, OnTime, Unwarned
  <2>7. QED
    BY <2>3, <2>4, <2>5, <2>6 DEF Inv
<1>6. CASE isCurrent(entry) /\ (SealsOnCut(entry) \/ entry.answer.outcome # "active")
  <2>1. /\ entry' = [retire(entry) EXCEPT !.cut = "applied", !.answer = None]
        /\ sealed' = IF SealsOnCut(entry) THEN TRUE ELSE sealed
    BY <1>6 DEF ApplyCut, applyCutResult
  <2>2. /\ entry' \in Entry /\ entry'.state = "retired" /\ entry'.answer = None
        /\ entry'.warning = None /\ ~entry'.pendingFire /\ ~entry'.pendingRefresh
        /\ entry'.warningEarly = entry.warningEarly /\ entry'.early = entry.early
        /\ entry'.generation = entry.generation + 1 /\ entry'.cut = "applied"
        /\ entry'.deadline = None /\ ~entry'.warningDeadline
    <3> DEFINE n == retire(entry)
    <3>1. /\ n \in Entry /\ n.state = "retired" /\ n.deadline = None
          /\ ~n.warningDeadline /\ n.warning = None /\ ~n.pendingFire /\ ~n.pendingRefresh
          /\ n.early = entry.early /\ n.warningEarly = entry.warningEarly
          /\ n.generation = entry.generation + 1
      BY <1>1, RetiredEntry
    <3> HIDE DEF n
    <3>2. entry' = [n EXCEPT !.cut = "applied", !.answer = None]
      BY <2>1 DEF n
    <3>3. QED
      BY <3>1, <3>2 DEF Entry
  <2>3. ~isCurrent(entry)'
    BY <2>2 DEF isCurrent
  <2>4. SealsOnCut(entry) => budget.early + MAX_CONSECUTIVE_EARLY_FIRES <= MaxEarly
    <3>1. SUFFICES ASSUME SealsOnCut(entry)
                   PROVE  budget.early + MAX_CONSECUTIVE_EARLY_FIRES <= MaxEarly
      OBVIOUS
    <3>2. ~MustSeal(entry, entry.answer.cred)
      BY <1>3, <1>6 DEF MustSeal, MustSealWarning
    <3>3. entry.fromDeadline /\ entry.early + 1 >= 2 /\ entry.answer.outcome = "active"
      BY <3>1, <3>2 DEF SealsOnCut, MAX_CONSECUTIVE_EARLY_FIRES
    <3>4. Charged(entry.early)
      BY <1>1, <1>6, <3>3 DEF Inv, Counted
    <3>5. QED
      BY <1>1, <3>3, <3>4 DEF Charged, MAX_CONSECUTIVE_EARLY_FIRES
  <2>5. TypeOK' /\ Watched'
    BY <1>1, <2>1, <2>2 DEF Inv, TypeOK, Watched
  <2>6. SealedOnlyByEarlyTimers'
    BY <1>1, <2>1, <2>4 DEF Inv, SealedOnlyByEarlyTimers, MAX_CONSECUTIVE_EARLY_FIRES
  <2>7. Tidy'
    BY <2>2, <2>3 DEF Tidy
  <2>8. OneAttempt'
    BY <1>1, <1>4, <2>2 DEF Inv, OneAttempt
  <2>9. Counted' /\ Behind'
    BY <1>1, <1>2, <2>2, <2>3 DEF Inv, Counted, Charged, Behind
  <2>10. Undisturbed' => OnTime'
    <3>1. SUFFICES ASSUME Undisturbed' PROVE OnTime'
      OBVIOUS
    <3>2. Undisturbed /\ ~SealsOnCut(entry)
      BY <1>1, <2>1, <3>1 DEF Undisturbed
    <3>3. ~Connected
      BY <1>1, <1>6, <3>2 DEF Inv, Behind
    <3>4. QED
      BY <1>1, <1>2, <2>2, <3>2, <3>3 DEF Inv, OnTime, Unwarned
  <2>11. QED
    BY <2>5, <2>6, <2>7, <2>8, <2>9, <2>10 DEF Inv
<1>7. CASE isCurrent(entry) /\ ~SealsOnCut(entry) /\ entry.answer.outcome = "active"
  <2> DEFINE n == entry.answer.cred
             k == IF entry.fromDeadline THEN entry.early + 1 ELSE 0
             m == [entry EXCEPT !.early = k, !.cut = "applied", !.answer = None]
             again == entry.warning = n /\ entry.warningFired
  <2>1. n \in Creds /\ k \in Nat
    BY <1>1, <1>7 DEF Result
  <2>2. entry' = arm(m, n) /\ sealed' = sealed
    BY <1>7 DEF ApplyCut, applyCutResult
  <2>3. budget.early + k <= MaxEarly
    BY <1>1, <1>7 DEF Inv, Counted, Charged
  <2> HIDE DEF n, k
  <2>4. /\ m \in Entry /\ m.state = entry.state /\ m.answer = None /\ m.cut = "applied"
        /\ m.warning = entry.warning /\ m.warningFired = entry.warningFired
        /\ m.warningDeadline = entry.warningDeadline
        /\ m.warningEarly = entry.warningEarly /\ m.early = k
        /\ m.pendingFire = entry.pendingFire /\ m.pendingRefresh = entry.pendingRefresh
        /\ m.generation = entry.generation
    BY <1>1, <2>1 DEF Entry
  <2> HIDE DEF m
  <2>5. /\ entry' \in Entry /\ entry'.state = entry.state /\ entry'.answer = None
        /\ entry'.cut = "applied" /\ entry'.deadline = n /\ entry'.warning = n
        /\ entry'.warningFired <=> again
        /\ entry'.warningDeadline <=> ~again
        /\ entry'.warningEarly \in {entry.warningEarly, 0} /\ entry'.early = k
        /\ entry'.pendingFire = entry.pendingFire
        /\ entry'.pendingRefresh = entry.pendingRefresh
        /\ entry'.generation = entry.generation
    BY <1>3, <1>7, <2>1, <2>2, <2>4, ArmedEntry
  <2>6. isCurrent(entry)' /\ n # None
    BY <1>7, <2>1, <2>2, <2>5 DEF isCurrent, DeadlineAssumption, Creds
  <2>7. TypeOK' /\ SealedOnlyByEarlyTimers'
    BY <1>1, <1>7, <2>2, <2>5 DEF Inv, TypeOK, SealedOnlyByEarlyTimers, isCurrent
  <2>8. Watched'
    <3>1. SUFFICES ASSUME Connected
                   PROVE  entry'.deadline = core.cred \/ entry'.pendingRefresh \/ core.refresh
      BY <1>1, <1>2, <2>5 DEF Watched
    <3>2. \/ entry.answer = [outcome |-> "active", cred |-> core.cred]
          \/ entry.pendingRefresh \/ core.refresh
      BY <1>1, <1>3, <1>7, <3>1 DEF Inv, Watched, Tidy, isCurrent, Core, DeadlineAssumption,
         Creds
    <3>3. QED
      BY <2>5, <3>2 DEF n
  <2>9. Tidy'
    BY <1>7, <2>1, <2>5, <2>6 DEF Inv, Tidy, CutRuns
  <2>10. OneAttempt'
    BY <1>1, <1>4, <2>5 DEF Inv, OneAttempt
  <2>11. Counted'
    <3>1. entry.warningEarly \in Nat
      BY <1>1 DEF Entry
    <3>2. QED
      BY <1>1, <2>3, <2>5, <3>1 DEF Inv, Counted, Charged
  <2>12. Behind'
    BY <1>1, <1>2, <1>7, <2>5 DEF Inv, Behind, n
  <2>13. Undisturbed' => OnTime'
    <3>1. SUFFICES ASSUME Undisturbed PROVE OnTime'
      BY <1>1, <2>2 DEF Undisturbed
    <3>2. now < expiresAtMs(n)
      BY <1>1, <1>7, <3>1 DEF Inv, OnTime, n
    <3>3. ASSUME Unwarned PROVE WarningIsWatched'
      <4>1. Arming
        BY <1>1, <1>3, <1>4, <1>7, <3>1, <3>3
           DEF Inv, OnTime, WarningIsWatched, Underway, Fresh
      <4>2. CASE core.refresh \/ entry.pendingRefresh
        BY <1>1, <2>5, <4>1, <4>2 DEF Arming, WarningIsWatched
      <4>3. CASE entry.answer = [outcome |-> "active", cred |-> core.cred]
        BY <1>1, <2>5, <4>1, <4>3 DEF Arming, WarningIsWatched, n
      <4>4. QED
        BY <1>1, <4>1, <4>2, <4>3 DEF Arming
    <3>4. QED
      BY <1>1, <1>2, <2>5, <3>1, <3>2, <3>3 DEF Inv, OnTime
  <2>14. QED
    BY <2>7, <2>8, <2>9, <2>10, <2>11, <2>12, <2>13 DEF Inv
<1>8. QED
  BY <1>5, <1>6, <1>7

(* The cut's promise settles.                                              *)
LEMMA FinishKeeps ==
    ASSUME DeadlineAssumption, Inv, FinishCut
    PROVE  Inv'
<1>1. /\ UNCHANGED <<core, calls, sealed, now, budget>> /\ core \in Core /\ entry \in Entry
      /\ entry.cut = "applied" /\ ~entry.pendingFire
      /\ entry.generation \in Nat /\ \A c \in calls : c.generation \in Nat
      /\ budget.early \in Nat /\ MaxEarly \in Nat
  BY DEF FinishCut, Inv, TypeOK, Tidy, Entry, Attempt, DeadlineAssumption
<1>2. /\ Connected' = Connected /\ isAuthorizationExpired(core.cred)' = isAuthorizationExpired(core.cred)
      /\ Unwarned' = Unwarned
  BY <1>1 DEF Connected, isAuthorizationExpired, Unwarned
<1>3. \A c \in calls : c.generation < entry.generation
  BY <1>1 DEF Inv, OneAttempt
<1> DEFINE idle == [entry EXCEPT !.cut = "none", !.fromDeadline = FALSE]
           again == [idle EXCEPT !.pendingRefresh = FALSE]
<1>4. /\ idle \in Entry /\ idle.state = entry.state /\ idle.answer = entry.answer
      /\ idle.warning = entry.warning /\ idle.warningFired = entry.warningFired
      /\ idle.warningEarly = entry.warningEarly /\ ~idle.pendingFire
      /\ idle.pendingRefresh = entry.pendingRefresh /\ idle.generation = entry.generation
      /\ idle.warningDeadline = entry.warningDeadline /\ idle.early = entry.early
      /\ idle.cut = "none" /\ idle.deadline = entry.deadline /\ ~idle.fromDeadline
  BY <1>1 DEF Entry
<1>5. /\ again \in Entry /\ again.state = entry.state
      /\ again.warning = entry.warning /\ again.warningFired = entry.warningFired
      /\ again.warningEarly = entry.warningEarly /\ ~again.pendingFire
      /\ ~again.pendingRefresh /\ again.generation = entry.generation
      /\ again.cut = "none"
  BY <1>1 DEF Entry
<1>6. entry' = IF isCurrent(entry) /\ entry.pendingRefresh THEN refreshEntry(again) ELSE idle
  BY <1>4 DEF FinishCut, isCurrent
<1> HIDE DEF idle, again
<1>7. CASE isCurrent(entry) /\ entry.pendingRefresh
  <2>1. /\ entry' \in Entry /\ entry'.state = entry.state
        /\ entry'.warning = entry.warning /\ entry'.warningFired = entry.warningFired
        /\ entry'.warningEarly = entry.warningEarly /\ ~entry'.pendingFire
        /\ entry'.generation = entry.generation + 1
        /\ entry'.cut = "queued" /\ ~entry'.pendingRefresh
        /\ entry'.deadline = None /\ ~entry'.warningDeadline
        /\ entry'.early = 0 /\ ~entry'.fromDeadline
    BY <1>5, <1>6, <1>7, RefreshedEntry
  <2>2. TypeOK' /\ SealedOnlyByEarlyTimers' /\ Watched'
    BY <1>1, <1>7, <2>1 DEF Inv, TypeOK, SealedOnlyByEarlyTimers, Watched, isCurrent
  <2>3. Tidy'
    BY <2>1 DEF Tidy
  <2>4. OneAttempt'
    BY <1>1, <1>3, <2>1 DEF Inv, OneAttempt
  <2>5. Counted' /\ Behind'
    <3>1. entry.early \in Nat
      BY <1>1 DEF Entry
    <3>2. QED
      BY <1>1, <1>2, <2>1, <3>1 DEF Inv, Counted, Charged, Behind
  <2>6. Undisturbed' => OnTime'
    <3>1. SUFFICES ASSUME Undisturbed PROVE OnTime'
      BY <1>1 DEF Undisturbed
    <3>2. ASSUME Unwarned PROVE ~(entry.warning = core.cred /\ entry.warningFired)
      BY <1>1, <1>3, <3>1, <3>2
         DEF Inv, Tidy, OnTime, WarningIsWatched, Underway, Fresh, Arming
    <3>3. QED
      BY <1>1, <1>2, <2>1, <3>1, <3>2 DEF Inv, OnTime, WarningIsWatched, Arming
  <2>7. QED
    BY <2>2, <2>3, <2>4, <2>5, <2>6 DEF Inv
<1>8. CASE ~(isCurrent(entry) /\ entry.pendingRefresh)
  <2>1. ~entry.pendingRefresh
    BY <1>8 DEF Inv, Tidy
  <2>2. /\ entry' \in Entry /\ entry'.state = entry.state /\ entry'.answer = entry.answer
        /\ entry'.warning = entry.warning /\ entry'.warningFired = entry.warningFired
        /\ entry'.warningEarly = entry.warningEarly /\ ~entry'.pendingFire
        /\ ~entry'.pendingRefresh /\ entry'.generation = entry.generation
        /\ entry'.warningDeadline = entry.warningDeadline /\ entry'.early = entry.early
        /\ entry'.cut = "none" /\ entry'.deadline = entry.deadline /\ ~entry'.fromDeadline
    BY <1>4, <1>6, <1>8, <2>1
  <2>3. TypeOK' /\ SealedOnlyByEarlyTimers'
    BY <1>1, <2>2 DEF Inv, TypeOK, SealedOnlyByEarlyTimers
  <2>4. Watched'
    BY <1>1, <1>2, <2>1, <2>2 DEF Inv, Watched
  <2>5. Tidy'
    BY <2>1, <2>2 DEF Inv, Tidy, CutRuns
  <2>6. OneAttempt'
    BY <1>1, <1>3, <2>2 DEF Inv, OneAttempt
  <2>7. Counted' /\ Behind'
    BY <1>1, <1>2, <2>2 DEF Inv, Counted, Charged, Behind
  <2>8. Undisturbed' => OnTime'
    <3>1. SUFFICES ASSUME Undisturbed PROVE OnTime'
      BY <1>1 DEF Undisturbed
    <3>2. ASSUME Unwarned PROVE WarningIsWatched'
      <4>1. \/ entry.warningDeadline /\ entry.warning = core.cred
            \/ core.refresh /\ ~(entry.warning = core.cred /\ entry.warningFired)
        BY <1>1, <1>3, <2>1, <3>1, <3>2
           DEF Inv, OnTime, WarningIsWatched, Underway, Fresh, Arming
      <4>2. QED
        BY <1>1, <2>2, <4>1 DEF WarningIsWatched, Arming
    <3>3. QED
      BY <1>1, <1>2, <2>2, <3>1, <3>2 DEF Inv, OnTime
  <2>9. QED
    BY <2>3, <2>4, <2>5, <2>6, <2>7, <2>8 DEF Inv
<1>9. QED
  BY <1>7, <1>8

(* An instant passes.  While the owner is not disturbed nothing of it is   *)
(* due, so the current credential is announced already or its warning is   *)
(* armed for later.                                                        *)
LEMMA TickKeeps ==
    ASSUME DeadlineAssumption, Inv, Tick
    PROVE  Inv'
<1>1. /\ UNCHANGED <<core, entry, calls, sealed>> /\ core \in Core /\ entry \in Entry
      /\ calls \subseteq Attempt
      /\ now \in Nat /\ now' = now + 1 /\ now' \in 0 .. LastInstant
  BY Expiries DEF Tick, Inv, TypeOK
<1>2. /\ budget' \in [{"early", "full", "misses"} -> Nat]
      /\ budget'.early = budget.early
      /\ budget'.misses <= MaxMisses
      /\ budget'.misses = MaxMisses => ~OwnerBusy /\ budget.misses = MaxMisses
  <2>1. /\ TypeOK /\ budget \in [{"early", "full", "misses"} -> Nat]
        /\ budget.misses <= MaxMisses /\ MaxMisses \in Nat
    BY DEF Inv, TypeOK, Counted, DeadlineAssumption
  <2>2. CASE OwnerBusy
    <3>1. Spend("misses")
      BY <2>2 DEF Tick
    <3>2. QED
      BY <2>1, <3>1, Spent
  <2>3. CASE ~OwnerBusy
    BY <2>1, <2>3 DEF Tick
  <2>4. QED
    BY <2>2, <2>3
<1>3. Connected' = Connected /\ Unwarned' = Unwarned /\ isCurrent(entry)' = isCurrent(entry)
  BY <1>1 DEF Connected, Unwarned, isCurrent
<1>4. core.cred \in Creds /\ expiresAtMs(core.cred) \in Nat
  BY <1>1, Expiries DEF Core
<1>5. TypeOK' /\ SealedOnlyByEarlyTimers'
  BY <1>1, <1>2 DEF Inv, TypeOK, SealedOnlyByEarlyTimers
<1>6. Watched'
  BY <1>1, <1>3 DEF Inv, Watched
<1>7. Tidy' /\ OneAttempt'
  BY <1>1, <1>3 DEF Inv, Tidy, OneAttempt, CutRuns
<1>8. Counted'
  <2>1. isAuthorizationExpired(core.cred) => isAuthorizationExpired(core.cred)'
    BY <1>1, <1>4 DEF isAuthorizationExpired
  <2>2. \A c \in calls : now >= expiresAtMs(c.cred) - Lead => now' >= expiresAtMs(c.cred) - Lead
    BY <1>1, Expiries DEF Attempt
  <2>3. QED
    BY <1>1, <1>2, <1>3, <2>1, <2>2 DEF Inv, Counted, Charged
<1>9. Behind'
  BY <1>1, <1>3 DEF Inv, Behind
<1>10. Undisturbed' => OnTime'
  <2>1. SUFFICES ASSUME Undisturbed, ~OwnerBusy PROVE OnTime'
    BY <1>1, <1>2 DEF Undisturbed
  <2>2. Settled /\ (isCurrent(entry) => ~WarningIsDue)
    BY <2>1 DEF OwnerBusy
  <2>3. ASSUME isCurrent(entry), entry.warningDeadline PROVE now' < expiresAtMs(entry.warning)
    <3>1. entry.warning \in Creds
      BY <2>3 DEF Inv, Tidy
    <3>2. now < expiresAtMs(entry.warning) - Lead
      BY <1>1, <2>2, <2>3, <3>1, Expiries DEF WarningIsDue
    <3>3. QED
      BY <1>1, <3>1, <3>2, Expiries
  <2>4. entry.warningDeadline => isCurrent(entry)
    BY <1>1, <2>1 DEF Inv, TypeOK, Entry, Undisturbed, isCurrent
  <2>5. Unwarned => entry.warningDeadline /\ entry.warning = core.cred
    <3>1. Unwarned => isCurrent(entry)
      BY <2>1 DEF Inv, OnTime, Unwarned, Undisturbed, isCurrent
    <3>2. QED
      BY <2>1, <2>2, <3>1, TimersFindItSettled
  <2>6. Unwarned => ~isAuthorizationExpired(core.cred)' /\ WarningIsWatched'
    BY <1>1, <1>4, <2>3, <2>4, <2>5 DEF isAuthorizationExpired, WarningIsWatched
  <2>7. calls = {} /\ entry.cut = "none"
    BY <2>2 DEF Settled
  <2>8. QED
    BY <1>1, <1>3, <2>1, <2>3, <2>4, <2>6, <2>7 DEF Inv, OnTime
<1>11. QED
  BY <1>5, <1>6, <1>7, <1>8, <1>9, <1>10 DEF Inv

(* The broker decides on a warning.                                        *)
LEMMA WarningAnswerKeeps ==
    ASSUME DeadlineAssumption, Inv, NEW call \in calls, recheckHostAuthExpiringWarning(call)
    PROVE  Inv'
<1>1. /\ UNCHANGED <<entry, sealed, now>> /\ core \in Core /\ entry \in Entry
      /\ call \in Attempt /\ calls = {call} /\ call.answer = None /\ call.kind = "emit"
      /\ core.cred \in Creds /\ call.cred \in Creds
  BY DEF recheckHostAuthExpiringWarning, Inv, TypeOK, OneAttempt, Attempt, Core
<1> DEFINE outcome == WarningOutcome(call.cred)
<1>2. /\ outcome = "closed" <=> ~Connected
      /\ outcome = "stale" => core.cred # call.cred
      /\ outcome = "expired" => isAuthorizationExpired(call.cred)
      /\ outcome = "not_due" => now < expiresAtMs(call.cred) - Lead
      /\ outcome = "emitted" => core.marker = "emitted" /\ core.markerCred = call.cred
                                /\ core.cred = call.cred
      /\ outcome = "deferred" => core.status = "pending" /\ core.cred = call.cred
      /\ outcome = "emit" => core.status = "active" /\ core.cred = call.cred
      /\ outcome # "active"
      /\ outcome # "emit" => outcome \in Answers
  BY DEF WarningOutcome, Connected, Answers
<1>3. PICK a \in Answers :
        /\ calls' = {[call EXCEPT !.answer = a]}
        /\ \/ /\ outcome = "emit" /\ a = "emitted"
              /\ core' = [core EXCEPT !.marker = "emitted", !.markerCred = call.cred,
                                      !.sent = @ \cup {call.cred}]
              /\ UNCHANGED budget
           \/ /\ outcome = "emit" /\ Spend("full") /\ a = "closed"
              /\ core' = [core EXCEPT !.status = "closing"]
           \/ /\ outcome # "emit" /\ a = outcome
              /\ core' = IF outcome = "deferred"
                         THEN [core EXCEPT !.marker = "deferred", !.markerCred = call.cred]
                         ELSE core
              /\ UNCHANGED budget
  BY <1>1, <1>2 DEF recheckHostAuthExpiringWarning, Answers
<1>4. PICK n : /\ calls' = {n} /\ n \in Attempt /\ n.kind = "emit" /\ n.cred = call.cred
               /\ n.generation = call.generation /\ n.answer = a
  <2> DEFINE m == [call EXCEPT !.answer = a]
  <2>1. /\ m \in Attempt /\ m.kind = call.kind /\ m.cred = call.cred
        /\ m.generation = call.generation /\ m.answer = a /\ calls' = {m}
    BY <1>1, <1>3 DEF Attempt
  <2> HIDE DEF m
  <2>2. QED
    BY <1>1, <2>1
<1>5. a # None
  BY DEF DeadlineAssumption
<1> HIDE DEF outcome
<1>6. /\ budget' \in [{"early", "full", "misses"} -> Nat]
      /\ budget'.misses = budget.misses
      /\ budget'.early = budget.early
  <2>1. TypeOK
    BY DEF Inv
  <2>2. QED
    BY <1>3, <2>1, Spent DEF TypeOK
<1>7. /\ core' \in Core /\ core'.cred = core.cred /\ core'.refresh = core.refresh
      /\ a = "closed" => ~Connected'
      /\ Connected' => Connected /\ core'.status = core.status
      /\ core.sent \subseteq core'.sent
      /\ core'.marker = "emitted" => core'.markerCred \in core'.sent
      /\ \/ a \in {"emitted", "deferred"} /\ ~Unwarned'
         \/ a = "closed" /\ ~Connected'
         \/ a \in {"not_due", "expired", "stale"} /\ core' = core
  <2>1. CASE outcome = "emit" /\ a = "emitted"
    <3>1. core' = [core EXCEPT !.marker = "emitted", !.markerCred = call.cred,
                               !.sent = @ \cup {call.cred}]
      BY <1>3, <2>1
    <3>2. /\ core' \in Core /\ core'.cred = core.cred /\ core'.refresh = core.refresh
          /\ core'.status = core.status /\ core'.sent = core.sent \cup {call.cred}
          /\ core'.markerCred = call.cred
      BY <1>1, <3>1 DEF Core
    <3>3. QED
      BY <1>2, <2>1, <3>2 DEF Connected, Unwarned
  <2>2. CASE outcome = "emit" /\ a = "closed"
    <3>1. core' = [core EXCEPT !.status = "closing"]
      BY <1>3, <2>2
    <3>2. /\ core' \in Core /\ core'.cred = core.cred /\ core'.refresh = core.refresh
          /\ core'.status = "closing" /\ core'.sent = core.sent
          /\ core'.marker = core.marker /\ core'.markerCred = core.markerCred
      BY <1>1, <3>1 DEF Core
    <3>3. QED
      BY <2>2, <3>2 DEF Connected, Inv, Behind
  <2>3. CASE outcome = "deferred"
    <3>1. core' = [core EXCEPT !.marker = "deferred", !.markerCred = call.cred] /\ a = "deferred"
      BY <1>3, <2>3
    <3>2. /\ core' \in Core /\ core'.cred = core.cred /\ core'.refresh = core.refresh
          /\ core'.status = core.status /\ core'.sent = core.sent
          /\ core'.marker = "deferred" /\ core'.markerCred = call.cred
      BY <1>1, <3>1 DEF Core
    <3>3. QED
      BY <1>2, <2>3, <3>1, <3>2 DEF Connected, Unwarned
  <2>4. CASE outcome \notin {"emit", "deferred"}
    <3>1. core' = core /\ a = outcome
      BY <1>3, <2>4
    <3>2. a = "emitted" => ~Unwarned'
      BY <1>2, <3>1 DEF Unwarned, Inv, Behind
    <3>3. a \in {"emitted", "not_due", "closed", "expired", "stale"}
      BY <1>2, <2>4, <3>1 DEF Answers
    <3>4. Connected' = Connected
      BY <3>1 DEF Connected
    <3>5. QED
      BY <1>1, <1>2, <3>1, <3>2, <3>3, <3>4 DEF Inv, Behind
  <2>5. QED
    BY <1>3, <2>1, <2>2, <2>3, <2>4
<1>8. TypeOK' /\ SealedOnlyByEarlyTimers'
  BY <1>1, <1>4, <1>6, <1>7 DEF Inv, TypeOK, SealedOnlyByEarlyTimers
<1>9. Watched'
  BY <1>1, <1>7 DEF Inv, Watched
<1>10. Tidy' /\ OneAttempt'
  BY <1>1, <1>4 DEF Inv, Tidy, OneAttempt, isCurrent, CutRuns
<1>11. Counted'
  <2>1. a = "not_due" => Charged(entry.warningEarly)
    <3>1. now \in Nat /\ expiresAtMs(call.cred) \in Nat /\ Lead \in Nat
      BY <1>1, Expiries DEF Inv, TypeOK
    <3>2. a = "not_due" => now < expiresAtMs(call.cred) - Lead
      BY <1>2, <1>3
    <3>3. QED
      BY <1>1, <3>1, <3>2 DEF Inv, Counted
  <2>2. QED
    BY <1>1, <1>4, <1>5, <1>6, <1>7, <2>1
       DEF Inv, Counted, Charged, isCurrent, isAuthorizationExpired
<1>12. Behind'
  BY <1>1, <1>4, <1>7 DEF Inv, Behind
<1>13. Undisturbed' => OnTime'
  <2>1. SUFFICES ASSUME Undisturbed PROVE OnTime'
    BY <1>1, <1>6 DEF Undisturbed
  <2>2. now < expiresAtMs(call.cred) /\ (call.cred = core.cred => ~core.refresh)
    BY <1>1, <2>1 DEF Inv, OnTime
  <2>3. a # "expired"
    <3>1. now \in Nat /\ expiresAtMs(call.cred) \in Nat
      BY <1>1, Expiries DEF Inv, TypeOK
    <3>2. QED
      BY <1>2, <1>3, <2>2, <3>1 DEF isAuthorizationExpired
  <2>4. ASSUME Unwarned' PROVE ~isAuthorizationExpired(core.cred)' /\ WarningIsWatched'
    <3>1. a \in {"not_due", "stale"} /\ core' = core /\ Unwarned
      BY <1>7, <2>3, <2>4 DEF Unwarned, Connected
    <3>2. ~isAuthorizationExpired(core.cred) /\ WarningIsWatched
      BY <2>1, <3>1 DEF Inv, OnTime
    <3>3. Underway(call) => Underway(n)'
      BY <1>1, <1>2, <1>3, <1>4, <3>1 DEF Underway, Fresh, isCurrent
    <3>4. QED
      BY <1>1, <1>4, <3>1, <3>2, <3>3 DEF WarningIsWatched, Arming, isAuthorizationExpired
  <2>5. QED
    BY <1>1, <1>4, <1>7, <2>1, <2>2, <2>3, <2>4 DEF Inv, OnTime
<1>14. QED
  BY <1>8, <1>9, <1>10, <1>11, <1>12, <1>13 DEF Inv

(* The broker tells a stale warning whether the connection is alive.       *)
LEMMA StaleAnswerKeeps ==
    ASSUME DeadlineAssumption, Inv, NEW call \in calls, AnswerStale(call)
    PROVE  Inv'
<1>1. /\ UNCHANGED <<entry, sealed, now, budget>> /\ core \in Core /\ entry \in Entry
      /\ call \in Attempt /\ calls = {call} /\ call.answer = None /\ call.kind = "recheck"
      /\ core.cred \in Creds /\ call.cred \in Creds
  BY DEF AnswerStale, Inv, TypeOK, OneAttempt, Attempt, Core
<1> DEFINE r == recheckConnectionAccessExpiry.outcome
<1>2. /\ r \in {"stale", "expired", "active"} /\ r \in Answers
      /\ r = "stale" <=> ~Connected
  BY DEF recheckConnectionAccessExpiry, Answers
<1>3. /\ calls' = {[call EXCEPT !.answer = r]}
      /\ core' = IF r = "expired" THEN [core EXCEPT !.status = "closing"] ELSE core
  BY <1>1 DEF AnswerStale
<1> HIDE DEF r
<1>4. PICK a : a = r
  OBVIOUS
<1>5. PICK n : /\ calls' = {n} /\ n \in Attempt /\ n.kind = "recheck" /\ n.cred = call.cred
               /\ n.generation = call.generation /\ n.answer = a
  <2> DEFINE m == [call EXCEPT !.answer = a]
  <2>1. /\ m \in Attempt /\ m.kind = call.kind /\ m.cred = call.cred
        /\ m.generation = call.generation /\ m.answer = a /\ calls' = {m}
    BY <1>1, <1>2, <1>3, <1>4 DEF Attempt
  <2> HIDE DEF m
  <2>2. QED
    BY <1>1, <2>1
<1>6. a # None
  BY <1>2, <1>4 DEF DeadlineAssumption
<1>7. /\ core' \in Core /\ core'.cred = core.cred /\ core'.refresh = core.refresh
      /\ core'.sent = core.sent /\ core'.marker = core.marker
      /\ core'.markerCred = core.markerCred
      /\ core'.status = IF r = "expired" THEN "closing" ELSE core.status
  BY <1>1, <1>3 DEF Core
<1>8. /\ Connected' => Connected /\ core'.status = core.status
      /\ a \in {"expired", "stale"} => ~Connected'
      /\ Unwarned' => Unwarned
  BY <1>2, <1>4, <1>7 DEF Connected, Unwarned
<1>9. TypeOK' /\ SealedOnlyByEarlyTimers'
  BY <1>1, <1>5, <1>7 DEF Inv, TypeOK, SealedOnlyByEarlyTimers
<1>10. Watched'
  BY <1>1, <1>7, <1>8 DEF Inv, Watched
<1>11. Tidy' /\ OneAttempt'
  BY <1>1, <1>2, <1>4, <1>5 DEF Inv, Tidy, OneAttempt, isCurrent, CutRuns
<1>12. Counted'
  BY <1>1, <1>2, <1>4, <1>5, <1>6, <1>7, <1>8
     DEF Inv, Counted, Charged, isCurrent, isAuthorizationExpired
<1>13. Behind'
  BY <1>1, <1>2, <1>4, <1>5, <1>7, <1>8 DEF Inv, Behind
<1>14. Undisturbed' => OnTime'
  <2>1. SUFFICES ASSUME Undisturbed PROVE OnTime'
    BY <1>1 DEF Undisturbed
  <2>2. now < expiresAtMs(call.cred) /\ (call.cred = core.cred => ~core.refresh)
    BY <1>1, <2>1 DEF Inv, OnTime
  <2>3. ASSUME Unwarned' PROVE ~isAuthorizationExpired(core.cred)' /\ WarningIsWatched'
    <3>1. ~isAuthorizationExpired(core.cred) /\ WarningIsWatched
      BY <1>8, <2>1, <2>3 DEF Inv, OnTime
    <3>2. QED
      BY <1>1, <1>7, <3>1 DEF WarningIsWatched, Underway, Arming, isAuthorizationExpired
  <2>4. QED
    BY <1>1, <1>5, <1>7, <1>8, <2>1, <2>2, <2>3 DEF Inv, OnTime
<1>15. QED
  BY <1>9, <1>10, <1>11, <1>12, <1>13, <1>14 DEF Inv

(* The owner applies the broker's answer to its warning.                   *)
LEMMA ApplyWarningKeeps ==
    ASSUME DeadlineAssumption, Inv, NEW call \in calls, ApplyWarning(call)
    PROVE  Inv'
<1>1. /\ UNCHANGED <<core, now, budget>> /\ core \in Core /\ entry \in Entry
      /\ call \in Attempt /\ calls = {call} /\ call.answer # None
      /\ core.cred \in Creds /\ call.cred \in Creds /\ sealed \in BOOLEAN
      /\ entry.generation \in Nat /\ call.generation \in Nat
      /\ budget.early \in Nat /\ MaxEarly \in Nat
      /\ entry.early \in Nat /\ entry.warningEarly \in Nat
  BY DEF ApplyWarning, Inv, TypeOK, OneAttempt, Attempt, Core, Entry, DeadlineAssumption
<1>2. /\ Connected' = Connected /\ isAuthorizationExpired(core.cred)' = isAuthorizationExpired(core.cred)
      /\ Unwarned' = Unwarned
  BY <1>1 DEF Connected, isAuthorizationExpired, Unwarned
<1>3. Fresh(call) => /\ isCurrent(entry) /\ entry.warning = call.cred /\ entry.cut = "none"
                     /\ ~entry.warningDeadline /\ ~entry.pendingRefresh
  BY <1>1 DEF Fresh, Inv, OneAttempt, Tidy, Attempt
<1>4. call.kind = "emit" \/ call.answer \in {"active", "expired", "stale"}
  BY <1>1 DEF Inv, OneAttempt, Attempt
<1>5. \/ calls' = {}
      \/ /\ Fresh(call) /\ call.kind = "emit" /\ call.answer = "stale"
         /\ \E n \in Attempt : /\ calls' = {n} /\ n.kind = "recheck" /\ n.cred = call.cred
                               /\ n.generation = call.generation /\ n.answer = None
  <2>1. CASE Fresh(call) /\ call.kind = "emit" /\ call.answer = "stale"
    <3> DEFINE n == [call EXCEPT !.kind = "recheck", !.answer = None]
    <3>1. calls' = {n}
      BY <1>1, <2>1 DEF ApplyWarning
    <3>2. /\ n \in Attempt /\ n.kind = "recheck" /\ n.cred = call.cred
          /\ n.generation = call.generation /\ n.answer = None
      BY <1>1 DEF Attempt
    <3> HIDE DEF n
    <3>3. QED
      BY <2>1, <3>1, <3>2
  <2>2. CASE ~(Fresh(call) /\ call.kind = "emit" /\ call.answer = "stale")
    BY <1>1, <2>2 DEF ApplyWarning
  <2>3. QED
    BY <2>1, <2>2
<1>6. CASE UNCHANGED <<entry, sealed>> /\ (Fresh(call) => call.answer # "not_due")
  <2>1. TypeOK' /\ SealedOnlyByEarlyTimers'
    BY <1>1, <1>5, <1>6 DEF Inv, TypeOK, SealedOnlyByEarlyTimers
  <2>2. Watched' /\ Tidy'
    BY <1>1, <1>2, <1>6 DEF Inv, Watched, Tidy, isCurrent, CutRuns
  <2>3. OneAttempt'
    BY <1>1, <1>5, <1>6 DEF Inv, OneAttempt
  <2>4. Counted'
    <3>1. None # "not_due"
      BY DEF DeadlineAssumption, Answers
    <3>2. QED
      BY <1>1, <1>2, <1>5, <1>6, <3>1 DEF Inv, Counted, Charged, isCurrent
  <2>5. Behind'
    <3>1. None \notin {"closed", "expired", "stale"}
      BY DEF DeadlineAssumption, Answers
    <3>2. QED
      BY <1>1, <1>2, <1>5, <1>6, <3>1 DEF Inv, Behind
  <2>6. Undisturbed' => OnTime'
    <3>1. SUFFICES ASSUME Undisturbed PROVE OnTime'
      BY <1>1, <1>6 DEF Undisturbed
    <3>2. ~Underway(call)
      BY <1>1, <1>6 DEF Underway
    <3>3. Unwarned => ~isAuthorizationExpired(core.cred) /\ WarningIsWatched'
      BY <1>1, <1>6, <3>1, <3>2 DEF Inv, OnTime, WarningIsWatched, Arming
    <3>4. QED
      BY <1>1, <1>2, <1>5, <1>6, <3>1, <3>3 DEF Inv, OnTime
  <2>7. QED
    BY <2>1, <2>2, <2>3, <2>4, <2>5, <2>6 DEF Inv
<1>7. CASE /\ Fresh(call) /\ entry' = retire(entry) /\ calls' = {}
           /\ \/ sealed' = TRUE /\ budget.early + MAX_CONSECUTIVE_EARLY_FIRES <= MaxEarly
              \/ sealed' = sealed /\ (Undisturbed => ~Connected)
  <2>1. /\ entry' \in Entry /\ entry'.state = "retired" /\ entry'.deadline = None
        /\ ~entry'.warningDeadline /\ entry'.warning = None
        /\ ~entry'.pendingFire /\ ~entry'.pendingRefresh /\ entry'.cut = "none"
        /\ entry'.early = entry.early /\ entry'.warningEarly = entry.warningEarly
    BY <1>1, <1>3, <1>7, RetiredEntry
  <2>2. ~isCurrent(entry)'
    BY <2>1 DEF isCurrent
  <2>3. TypeOK' /\ SealedOnlyByEarlyTimers' /\ Watched'
    <3>1. TypeOK'
      BY <1>1, <1>7, <2>1 DEF Inv, TypeOK
    <3>2. SealedOnlyByEarlyTimers'
      BY <1>1, <1>7 DEF Inv, SealedOnlyByEarlyTimers, MAX_CONSECUTIVE_EARLY_FIRES
    <3>3. Watched'
      BY <2>1 DEF Watched
    <3>4. QED
      BY <3>1, <3>2, <3>3
  <2>4. Tidy' /\ OneAttempt'
    BY <1>7, <2>1, <2>2 DEF Tidy, OneAttempt
  <2>5. Counted' /\ Behind'
    BY <1>1, <1>7, <2>1, <2>2 DEF Inv, Counted, Behind
  <2>6. Undisturbed' => OnTime'
    BY <1>1, <1>2, <1>7, <2>1 DEF Undisturbed, OnTime, Unwarned
  <2>7. QED
    BY <2>3, <2>4, <2>5, <2>6 DEF Inv
<1>8. CASE Fresh(call) /\ call.answer = "not_due"
  <2>1. /\ call.kind = "emit" /\ calls' = {} /\ Charged(entry.warningEarly)
    BY <1>1, <1>4, <1>5, <1>8 DEF Inv, Counted
  <2>2. ~MustSealWarning(NotDue(entry), call.cred)
    BY <1>1, <1>3, <1>8 DEF MustSealWarning, NotDue, Entry
  <2>3. CASE entry.warningEarly + 1 >= MAX_CONSECUTIVE_EARLY_FIRES
    <3>1. entry' = retire(entry) /\ sealed' = TRUE
      BY <1>8, <2>3 DEF ApplyWarning
    <3>2. budget.early + MAX_CONSECUTIVE_EARLY_FIRES <= MaxEarly
      BY <1>1, <2>1, <2>3 DEF Charged, MAX_CONSECUTIVE_EARLY_FIRES
    <3>3. QED
      BY <1>7, <1>8, <2>1, <3>1, <3>2
  <2>4. CASE ~(entry.warningEarly + 1 >= MAX_CONSECUTIVE_EARLY_FIRES)
    <3>1. entry' = armWarning(NotDue(entry), call.cred) /\ sealed' = sealed
      BY <1>8, <2>2, <2>4 DEF ApplyWarning
    <3>2. /\ entry' \in Entry /\ entry'.state = entry.state /\ entry'.answer = entry.answer
          /\ entry'.cut = "none" /\ entry'.deadline = entry.deadline
          /\ entry'.warning = call.cred /\ ~entry'.warningFired /\ entry'.warningDeadline
          /\ entry'.warningEarly = entry.warningEarly + 1 /\ entry'.early = entry.early
          /\ entry'.pendingFire = entry.pendingFire
          /\ entry'.pendingRefresh = entry.pendingRefresh
          /\ entry'.generation = entry.generation
      BY <1>1, <1>3, <1>8, <3>1, RearmedEntry
    <3>3. isCurrent(entry)' /\ ~CutRuns'
      BY <1>3, <1>8, <3>1, <3>2 DEF isCurrent, CutRuns
    <3>4. TypeOK' /\ SealedOnlyByEarlyTimers'
      BY <1>1, <1>3, <1>8, <2>1, <3>1, <3>2
         DEF Inv, TypeOK, SealedOnlyByEarlyTimers, isCurrent
    <3>5. Watched'
      BY <1>1, <1>2, <1>3, <1>8, <3>1, <3>2 DEF Inv, Watched
    <3>6. Tidy' /\ OneAttempt'
      BY <1>1, <1>3, <1>8, <2>1, <3>2, <3>3 DEF Inv, Tidy, OneAttempt
    <3>7. Counted'
      BY <1>1, <2>1, <3>2 DEF Inv, Counted, Charged
    <3>8. Behind'
      BY <1>1, <1>2, <2>1, <3>2 DEF Inv, Behind
    <3>9. Undisturbed' => OnTime'
      <4>1. SUFFICES ASSUME Undisturbed PROVE OnTime'
        BY <1>1, <3>1 DEF Undisturbed
      <4>2. now < expiresAtMs(call.cred)
        BY <1>1, <4>1 DEF Inv, OnTime
      <4>3. Unwarned => ~isAuthorizationExpired(core.cred) /\ WarningIsWatched
        BY <4>1 DEF Inv, OnTime
      <4>4. Unwarned => WarningIsWatched'
        BY <1>1, <1>3, <1>8, <3>2, <4>3 DEF WarningIsWatched, Underway, Arming
      <4>5. QED
        BY <1>1, <1>2, <2>1, <3>2, <4>1, <4>2, <4>3, <4>4 DEF Inv, OnTime
    <3>10. QED
      BY <3>4, <3>5, <3>6, <3>7, <3>8, <3>9 DEF Inv
  <2>5. QED
    BY <2>3, <2>4
<1>9. CASE Fresh(call) /\ call.kind = "recheck" /\ call.answer = "active"
  <2>1. entry' = refreshEntry(entry) /\ sealed' = sealed /\ calls' = {}
    BY <1>5, <1>9 DEF ApplyWarning
  <2>2. /\ entry' \in Entry /\ entry'.state = entry.state
        /\ entry'.warning = entry.warning /\ entry'.warningFired = entry.warningFired
        /\ entry'.warningEarly = entry.warningEarly /\ entry'.pendingFire = entry.pendingFire
        /\ entry'.cut = "queued" /\ ~entry'.pendingRefresh
        /\ entry'.deadline = None /\ ~entry'.warningDeadline
        /\ entry'.early = 0 /\ ~entry'.fromDeadline
    BY <1>1, <1>3, <1>9, <2>1, RefreshedEntry
  <2>3. TypeOK' /\ SealedOnlyByEarlyTimers' /\ Watched'
    BY <1>1, <1>3, <1>9, <2>1, <2>2
       DEF Inv, TypeOK, SealedOnlyByEarlyTimers, Watched, isCurrent
  <2>4. Tidy' /\ OneAttempt'
    BY <2>1, <2>2 DEF Inv, Tidy, OneAttempt
  <2>5. Counted' /\ Behind'
    BY <1>1, <2>1, <2>2 DEF Inv, Counted, Charged, Behind
  <2>6. Undisturbed' => OnTime'
    <3>1. SUFFICES ASSUME Undisturbed PROVE OnTime'
      BY <1>1, <2>1 DEF Undisturbed
    <3>2. Unwarned => ~isAuthorizationExpired(core.cred) /\ Arming
      BY <1>1, <1>3, <1>9, <3>1 DEF Inv, OnTime, WarningIsWatched, Underway
    <3>3. Unwarned => WarningIsWatched'
      BY <1>1, <2>2, <3>2 DEF WarningIsWatched, Arming
    <3>4. QED
      BY <1>1, <1>2, <2>1, <2>2, <3>1, <3>2, <3>3 DEF Inv, OnTime
  <2>7. QED
    BY <2>3, <2>4, <2>5, <2>6 DEF Inv
<1>10. CASE /\ Fresh(call) /\ call.answer \in {"closed", "expired", "stale"}
            /\ call.kind = "emit" => call.answer # "stale"
  <2>1. entry' = retire(entry) /\ sealed' = sealed /\ calls' = {}
    BY <1>1, <1>4, <1>5, <1>10 DEF ApplyWarning, Attempt
  <2>2. Undisturbed => ~Connected
    BY <1>1, <1>4, <1>10 DEF Inv, OnTime, Behind, Attempt
  <2>3. QED
    BY <1>7, <1>10, <2>1, <2>2
<1>11. CASE ~Fresh(call)
  BY <1>6, <1>11 DEF ApplyWarning
<1>12. CASE /\ Fresh(call) /\ call.kind = "emit"
            /\ call.answer \in {"emitted", "deferred", "stale", "active"}
  BY <1>6, <1>12 DEF ApplyWarning
<1>13. QED
  BY <1>1, <1>4, <1>8, <1>9, <1>10, <1>11, <1>12 DEF Attempt, Answers

(* The connection was just attached.                                       *)
LEMMA StartsWatched ==
    ASSUME DeadlineAssumption, Init
    PROVE  Inv
<1>1. core \in Core /\ entry \in Entry
  BY DEF Init, Attached, Registered, Allowed, Core, Entry, DeadlineAssumption, Creds
<1>2. TypeOK
  <2>1. budget \in [{"early", "full", "misses"} -> Nat]
    BY DEF Init, Attached, Registered, Allowed, DeadlineAssumption
  <2>2. now \in 0 .. LastInstant
    BY Expiries DEF Init
  <2>3. QED
    BY <1>1, <2>1, <2>2 DEF Init, Attached, Registered, Allowed, TypeOK
<1>3. Watched /\ SealedOnlyByEarlyTimers /\ Tidy /\ OneAttempt
  BY DEF Init, Attached, Registered, Allowed, Watched, SealedOnlyByEarlyTimers, Tidy, OneAttempt
<1>4. Counted /\ Behind
  BY DEF Init, Attached, Registered, Allowed, Counted, Behind, DeadlineAssumption, Answers
<1>5. OnTime
  <2>1. 1 \in Creds
    BY DEF DeadlineAssumption, Creds
  <2>2. expiresAtMs(1) \in Nat /\ expiresAtMs(1) >= Lead /\ Lead \in Nat /\ Lead >= 1
    BY <2>1, Expiries
  <2>3. ~isAuthorizationExpired(core.cred)
    BY <2>2 DEF Init, Attached, Registered, Allowed, isAuthorizationExpired
  <2>4. QED
    BY <2>3 DEF Init, Attached, Registered, Allowed, OnTime, Unwarned, WarningIsWatched, Arming
<1>6. QED
  BY <1>2, <1>3, <1>4, <1>5 DEF Inv

(* Every step keeps the invariant.                                         *)
LEMMA StepKeeps ==
    ASSUME DeadlineAssumption, Inv, [Next]_vars
    PROVE  Inv'
<1>1. CASE OwnerStep
  BY <1>1, DeadlineKeeps, AnswerKeeps, ApplyKeeps, FinishKeeps, WarningFiredKeeps, RefreshKeeps,
     WarningAnswerKeeps, StaleAnswerKeeps, ApplyWarningKeeps DEF OwnerStep
<1>2. CASE CommitRegistration \/ Reauthenticate \/ ReplayReauthentication \/ Disconnect \/ Tick
  BY <1>2, RegistrationKeeps, ReauthenticationKeeps, ReplayKeeps, DisconnectKeeps, TickKeeps
<1>3. CASE UNCHANGED vars
  BY <1>3, NothingHappens
<1>4. QED
  BY <1>1, <1>2, <1>3 DEF Next

LEMMA AlwaysInv ==
    ASSUME DeadlineAssumption
    PROVE  Spec => []Inv
<1>1. Init => Inv
  BY StartsWatched
<1>2. Inv /\ [Next]_vars => Inv'
  BY StepKeeps
<1>3. QED
  BY <1>1, <1>2, PTL DEF Spec

-----------------------------------------------------------------------------
(* The owner's entry, its attempts to warn and the broker's record keep    *)
(* their types, and a retired entry has no timer armed, whatever crosses.  *)
THEOREM TypeCorrect ==
    ASSUME DeadlineAssumption
    PROVE  Spec => []TypeOK
<1>1. Inv => TypeOK
  BY DEF Inv
<1>2. QED
  BY <1>1, AlwaysInv, PTL

(* The owner of the expiry timers (refreshEntry, applyCutResult, FinishCut) *)
(* never loses sight of a registered connection: its deadline is armed for *)
(* the credential the connection has now, or a cut or a refresh that will  *)
(* arm it is under way.  While it is not disturbed it keeps the entry of a *)
(* connected host, and it closes every connection of the broker (seal)     *)
(* only after MAX_CONSECUTIVE_EARLY_FIRES timers really fired early: no    *)
(* order of reauthentications, replays, cuts and warnings makes it find a  *)
(* timer armed that it is about to arm.                                    *)
THEOREM ExpiryStaysWatched ==
    ASSUME DeadlineAssumption
    PROVE  Spec => []ExpiryIsWatched
<1>1. Inv => ExpiryIsWatched
  BY DEF Inv, ExpiryIsWatched, OnTime
<1>2. QED
  BY <1>1, AlwaysInv, PTL

(* While no timer was late and no reauthentication was replayed, a host    *)
(* whose credential has expired on a registered connection was warned of   *)
(* it, however early timers, deferred warnings and reauthentications       *)
(* crossed.                                                                *)
THEOREM HostIsWarned ==
    ASSUME DeadlineAssumption
    PROVE  Spec => []WarnedBeforeExpiry
<1>1. Inv => WarnedBeforeExpiry
  BY DEF Inv, OnTime, WarnedBeforeExpiry, Unwarned, Connected
<1>2. QED
  BY <1>1, AlwaysInv, PTL
=============================================================================
