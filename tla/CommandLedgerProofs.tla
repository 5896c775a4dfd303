------------------------- MODULE CommandLedgerProofs -------------------------
(***************************************************************************)
(* Proofs about the command ledger (CommandLedger), for any commands,      *)
(* windows, calls, retention times and faults, with a wall clock that may  *)
(* be set back: a command has one effect and one answer, and every         *)
(* reservation has a record that will settle it.                           *)
(***************************************************************************)
EXTENDS CommandLedger, TLAPS

-----------------------------------------------------------------------------
(* The inductive invariant.                                                *)

\* The values of runner and call.
Runners == [Cmd -> [pc : {"none", "claim", "invoke", "finalize", "markInDoubt"},
                    outcome : {"none"} \cup Final]]
Calls == [Call -> [cmd : Cmd \cup {NoTime}, win : Win \cup {NoTime},
                   pc : {"idle", "resolve", "await"}]]

\* A record, a call and a stored window name a window that was issued.
Windowed ==
    /\ \A c \in Cmd : IF ledger[c].state = "none" THEN ledger[c] = NoCommand
                      ELSE ledger[c].win \in issued
    /\ \A k \in Call : call[k].pc # "idle" => call[k].cmd \in Cmd /\ call[k].win \in issued
    /\ \A w \in Win : window[w] # NoWindow => w \in issued

\* A final record is kept as long as the window that could admit its command
\* again.
Outlives ==
    \A c \in Cmd : ledger[c].state \in Final =>
        \/ window[ledger[c].win] = NoWindow
        \/ window[ledger[c].win].query <= ledger[c].dedupe

\* Between admission and invocation the command has not been run.
NotYetRun ==
    \A c \in Cmd :
        /\ runner[c].pc = "invoke" =>
             ledger[c].state = "running" /\ started[<<c, ledger[c].win>>] = 0
        /\ ledger[c].state = "accepted" => started[<<c, ledger[c].win>>] = 0
        /\ runner[c].pc = "finalize" => runner[c].outcome \in Final

\* Only a command that was run has an effect, and what its runner is about to
\* record is what happened.
Effects ==
    /\ \A cw \in Cmd \X Win : cw \in applied => started[cw] # 0
    /\ \A c \in Cmd :
          runner[c].pc = "finalize" /\ ledger[c].state = "running" =>
             /\ runner[c].outcome = "succeeded" => <<c, ledger[c].win>> \in applied
             /\ runner[c].outcome = "failed" => <<c, ledger[c].win>> \notin applied

\* A command that was run is still on record, or nothing admits it again.
RunIsRemembered ==
    \A c \in Cmd, w \in Win : started[<<c, w>>] # 0 =>
        w \in issued /\ (ledger[c].win = w \/ window[w] = NoWindow)

\* So is one whose final answer was given, and the record says the same.
AnswerIsRemembered ==
    \A r \in told : r.says \in Final =>
        /\ r.win \in issued
        /\ IF ledger[r.cmd].win = r.win THEN ledger[r.cmd].state = r.says
           ELSE window[r.win] = NoWindow

\* A window whose client was told to issue its command anew stays shut.
StaysShut ==
    ~ClockSteps =>
        /\ query.pc = "read" => query.at <= now
        /\ \A r \in told : r.says = "reissue" =>
             /\ r.win \in issued /\ ledger[r.cmd].win # r.win
             /\ started[<<r.cmd, r.win>>] = 0
             /\ window[r.win] = NoWindow \/ now > window[r.win].accept

Says == Final \cup {"reissue", "forgotten", "storage"}

\* What the invariant says of the answers given so far.
Answered ==
    /\ told \subseteq [cmd : Cmd, win : Win, says : Says]
    /\ AnswerIsRemembered /\ FinalAnswersAgree /\ StaysShut

Inv ==
    /\ TypeOK /\ Windowed /\ Outlives /\ NotYetRun /\ RunIsRemembered
    /\ AtMostOnce /\ ReservationsAccounted /\ Effects /\ Answered

-----------------------------------------------------------------------------
(* Numbers, records and windows.                                           *)

LEMMA Numbers ==
    ASSUME CommandLedgerAssumption
    PROVE  /\ NoTime \in Nat /\ NoTime \notin Time /\ Time \subseteq Nat
           /\ NoTime \notin Win /\ NoTime \notin Cmd
           /\ \A t \in 0..MaxTime :
                /\ t \in Time /\ t + AcceptFor \in Time /\ t + ResultFor \in Time
                /\ t + DedupeFor \in Time /\ t + AcceptFor + DedupeFor \in Time
BY DEF CommandLedgerAssumption, NoTime, Time

\* The fields of a record.
LEMMA RecordFields ==
    ASSUME CommandLedgerAssumption, NEW r \in Record
    PROVE  /\ r.state \in {"none", "accepted", "running"} \cup Final
           /\ r.win \in Win \cup {NoTime}
           /\ r.result \in Nat /\ r.dedupe \in Nat
BY Numbers DEF Record

LEMMA NoCommandRecord ==
    ASSUME CommandLedgerAssumption
    PROVE  /\ NoCommand \in Record /\ NoCommand.state = "none" /\ ~NoCommand.tomb
           /\ NoCommand.win = NoTime /\ NoCommand.result = NoTime
BY DEF NoCommand, Record

LEMMA AcceptedRecord ==
    ASSUME CommandLedgerAssumption, NEW w \in Win
    PROVE  LET f == createAcceptedRecord(w)
           IN  /\ f \in Record /\ f.state = "accepted" /\ f.win = w /\ ~f.tomb
               /\ f.result = NoTime
BY DEF createAcceptedRecord, Record

LEMMA FinalizedRecord ==
    ASSUME CommandLedgerAssumption, TypeOK, NEW w \in Win, NEW s \in Final
    PROVE  LET f == finalizedRecord(w, s)
           IN  /\ f \in Record /\ f.state = s /\ f.win = w /\ ~f.tomb
               /\ f.result # NoTime
               /\ window[w] = NoWindow \/ window[w].query <= f.dedupe
<1>1. /\ now + ResultFor \in Time /\ now + DedupeFor \in Time
      /\ window[w].query \in Time \cup {NoTime}
      /\ 0 \in Time
  BY Numbers DEF TypeOK, CommandLedgerAssumption, Time
<1>2. /\ retentionUntil(w) \in Time \cup {NoTime}
      /\ window[w] = NoWindow \/ window[w].query <= retentionUntil(w)
  BY <1>1, Numbers DEF retentionUntil, Max2
<1>3. finalizedRecord(w, s) \in Record
  BY <1>1, <1>2, Zenon DEF finalizedRecord, Record
<1> QED BY <1>1, <1>2, <1>3, Numbers DEF finalizedRecord

LEMMA TombRecord ==
    ASSUME NEW r \in Record
    PROVE  LET f == [r EXCEPT !.tomb = TRUE]
           IN  /\ f \in Record /\ f.state = r.state /\ f.win = r.win /\ f.tomb
               /\ f.result = r.result /\ f.dedupe = r.dedupe
BY DEF Record

LEMMA RunningRecord ==
    ASSUME NEW r \in Record
    PROVE  LET f == [r EXCEPT !.state = "running"]
           IN  /\ f \in Record /\ f.state = "running" /\ f.win = r.win /\ f.tomb = r.tomb
               /\ f.result = r.result
BY DEF Record

LEMMA NewWindowStored ==
    ASSUME CommandLedgerAssumption, TypeOK
    PROVE  /\ NewWindow \in [accept : Time \cup {NoTime}, query : Time \cup {NoTime}]
           /\ NewWindow # NoWindow
BY Numbers DEF TypeOK, NewWindow, NoWindow

-----------------------------------------------------------------------------
(* The invariant holds initially.                                          *)

LEMMA InitInv ==
    ASSUME CommandLedgerAssumption, Init
    PROVE  Inv
<1>1. 0 \in 0..MaxTime /\ 0 \in 0..MaxFaults
  BY DEF CommandLedgerAssumption
<1>2. ledger \in [Cmd -> Record]
  BY NoCommandRecord DEF Init
<1>3. TypeOK
  <2>1. \A c \in Cmd : /\ ledger[c].state \in Final <=> ledger[c].result # NoTime
                       /\ ledger[c].tomb => ledger[c].state \in Final
    BY NoCommandRecord DEF Init, Final
  <2>2. call \in [Call -> [cmd : Cmd \cup {NoTime}, win : Win \cup {NoTime},
                           pc : {"idle", "resolve", "await"}]]
    BY DEF Init, Idle
  <2>3. runner \in [Cmd -> [pc : {"none", "claim", "invoke", "finalize", "markInDoubt"},
                            outcome : {"none"} \cup Final]]
    BY DEF Init, NoRunner
  <2>4. window \in [Win -> [accept : Time \cup {NoTime}, query : Time \cup {NoTime}]]
    BY DEF Init, NoWindow
  <2> QED BY <1>1, <1>2, <2>1, <2>2, <2>3, <2>4 DEF Init, TypeOK, NoQuery
<1>4. Windowed /\ Outlives /\ NotYetRun
  BY NoCommandRecord DEF Init, Windowed, Outlives, NotYetRun, Idle, NoRunner, Final
<1>5. RunIsRemembered /\ AtMostOnce
  BY DEF Init, RunIsRemembered, AtMostOnce
<1>6. Answered
  BY DEF Init, Answered, AnswerIsRemembered, StaysShut, FinalAnswersAgree, NoQuery
<1>7. ReservationsAccounted /\ Effects
  BY NoCommandRecord DEF Init, ReservationsAccounted, Effects, NoRunner, CommandLedgerAssumption
<1> QED BY <1>3, <1>4, <1>5, <1>6, <1>7 DEF Inv

\* The invariant has the properties.
LEMMA InvOneEffect == Inv => OneEffectPerCommand
BY DEF Inv, Answered, StaysShut, OneEffectPerCommand, ReissueIsSafe

-----------------------------------------------------------------------------
(* What every step does to records and windows.                            *)

\* A record keeps its window and its final state, or is created in a window
\* that accepts, or is deleted together with its window.
MovesRecord(c) ==
    \/ /\ ledger'[c].win = ledger[c].win
       /\ ledger[c].state \in Final => ledger'[c].state = ledger[c].state
    \/ /\ ledger[c] = NoCommand /\ ledger'[c].win \in Win
       /\ ~Expired(ledger'[c].win)
    \/ /\ ledger'[c] = NoCommand /\ ledger[c].state \in Final
       /\ window'[ledger[c].win] = NoWindow

\* Windows are only taken away, and a command is run under its own record.
Follows ==
    /\ \A c \in Cmd : MovesRecord(c)
    /\ issued \subseteq issued'
    /\ \A w \in issued : window'[w] \in {window[w], NoWindow}
    /\ \A c \in Cmd, w \in Win :
          started'[<<c, w>>] = started[<<c, w>>] \/ ledger[c].win = w
    /\ ~ClockSteps => now' >= now

\* An answer that is true when it is given.
Truth(n) ==
    /\ n \in [cmd : Cmd, win : Win, says : Says]
    /\ n.says \in Final =>
         /\ n.win \in issued /\ ledger'[n.cmd].win = n.win
         /\ ledger'[n.cmd].state = n.says
    /\ n.says = "reissue" =>
         /\ n.win \in issued /\ ledger[n.cmd] = NoCommand
         /\ window[n.win] # NoWindow
         /\ ~ClockSteps => now > window[n.win].accept
         /\ UNCHANGED <<ledger, started, window, now>>

LEMMA RunStaysRemembered ==
    ASSUME CommandLedgerAssumption, Inv, TypeOK', Follows
    PROVE  RunIsRemembered'
<1> SUFFICES ASSUME NEW c \in Cmd, NEW w \in Win, started'[<<c, w>>] # 0
             PROVE  w \in issued' /\ (ledger'[c].win = w \/ window'[w] = NoWindow)
  BY DEF RunIsRemembered
<1>1. NoCommand.win = NoTime /\ w # NoTime /\ NoCommand.state = "none"
  BY NoCommandRecord, Numbers
<1>2. ledger[c].win = w => ledger[c].win \in issued
  BY <1>1 DEF Inv, Windowed
<1>3. w \in issued /\ (ledger[c].win = w \/ window[w] = NoWindow)
  BY <1>2 DEF Inv, RunIsRemembered, Follows
<1>4. MovesRecord(c) /\ window'[w] \in {window[w], NoWindow} /\ w \in issued'
  BY <1>3 DEF Follows
<1> QED BY <1>1, <1>3, <1>4 DEF MovesRecord, Expired

LEMMA AnswersStayTrue ==
    ASSUME CommandLedgerAssumption, Inv, TypeOK', Follows,
           told' = told \/ (\E n : told' = told \cup {n} /\ Truth(n)),
           query' = query \/ query'.pc = "none" \/ query'.at <= now'
    PROVE  Answered'
<1> DEFINE New == told' \ told
<1>1. told \subseteq told' /\ \A r \in New : Truth(r)
  OBVIOUS
<1>2. \A r \in New, q \in New : r = q
  OBVIOUS
<1>3. told \subseteq [cmd : Cmd, win : Win, says : Says]
  BY DEF Inv, Answered
<1>4. told' \subseteq [cmd : Cmd, win : Win, says : Says]
  BY <1>1, <1>3 DEF Truth
<1>5. NoCommand.win = NoTime /\ NoTime \notin Win /\ NoCommand.state = "none"
  BY NoCommandRecord, Numbers
<1> HIDE DEF New
<1>6. ASSUME NEW r \in told, r.says \in Final
      PROVE  /\ r.win \in issued'
             /\ IF ledger'[r.cmd].win = r.win THEN ledger'[r.cmd].state = r.says
                ELSE window'[r.win] = NoWindow
  <2>1. /\ r.cmd \in Cmd /\ r.win \in Win /\ r.win \in issued /\ r.win \in issued'
        /\ IF ledger[r.cmd].win = r.win THEN ledger[r.cmd].state = r.says
           ELSE window[r.win] = NoWindow
    BY <1>3, <1>6 DEF Inv, Answered, AnswerIsRemembered, Follows
  <2>2. MovesRecord(r.cmd) /\ window'[r.win] \in {window[r.win], NoWindow}
    BY <2>1 DEF Follows
  <2> QED BY <1>5, <1>6, <2>1, <2>2 DEF MovesRecord, Expired
<1>7. AnswerIsRemembered'
  BY <1>1, <1>6 DEF AnswerIsRemembered, Truth, New, Follows
<1>8. ASSUME NEW r \in told', NEW q \in told', r.cmd = q.cmd, r.win = q.win,
             {r.says, q.says} \subseteq Final
      PROVE  r.says = q.says
  <2>1. CASE r \in told /\ q \in told
    BY <1>8, <2>1 DEF Inv, Answered, FinalAnswersAgree
  <2>2. CASE r \in New \/ q \in New
    BY <1>1, <1>2, <1>6, <1>8, <2>2 DEF Truth, New
  <2> QED BY <2>1, <2>2 DEF New
<1>9. FinalAnswersAgree'
  BY <1>8 DEF FinalAnswersAgree
<1>10. ASSUME ~ClockSteps, NEW r \in told, r.says = "reissue"
       PROVE  /\ r.win \in issued' /\ ledger'[r.cmd].win # r.win
              /\ started'[<<r.cmd, r.win>>] = 0
              /\ window'[r.win] = NoWindow \/ now' > window'[r.win].accept
  <2>1. /\ r.cmd \in Cmd /\ r.win \in Win /\ r.win \in issued
        /\ ledger[r.cmd].win # r.win /\ started[<<r.cmd, r.win>>] = 0
        /\ window[r.win] = NoWindow \/ now > window[r.win].accept
    BY <1>3, <1>10 DEF Inv, Answered, StaysShut
  <2>2. /\ MovesRecord(r.cmd) /\ window'[r.win] \in {window[r.win], NoWindow}
        /\ r.win \in issued' /\ now' >= now
        /\ started'[<<r.cmd, r.win>>] = started[<<r.cmd, r.win>>]
    BY <2>1, <1>10 DEF Follows
  <2>3. ledger'[r.cmd].win # r.win
    BY <1>5, <2>1, <2>2 DEF MovesRecord, Expired
  <2>4. now \in Nat /\ now' \in Nat /\ window[r.win].accept \in Nat
    BY <2>1, Numbers DEF Inv, TypeOK
  <2>5. window'[r.win] = NoWindow \/ now' > window'[r.win].accept
    BY <2>1, <2>2, <2>4
  <2> QED BY <2>1, <2>2, <2>3, <2>5
<1>11. ASSUME ~ClockSteps, NEW r \in New, r.says = "reissue"
       PROVE  /\ r.win \in issued' /\ ledger'[r.cmd].win # r.win
              /\ started'[<<r.cmd, r.win>>] = 0
              /\ window'[r.win] = NoWindow \/ now' > window'[r.win].accept
  BY <1>1, <1>5, <1>11 DEF Truth, Follows, Inv, RunIsRemembered
<1>12. ~ClockSteps => (query.pc = "read" => query.at <= now)
  BY DEF Inv, Answered, StaysShut
<1>13. now \in Nat /\ now' \in Nat /\ query.at \in Nat
  BY Numbers DEF Inv, TypeOK
<1>14. ~ClockSteps => (query'.pc = "read" => query'.at <= now')
  BY <1>12, <1>13 DEF Follows
<1>15. StaysShut'
  BY <1>10, <1>11, <1>14 DEF StaysShut, New
<1> QED BY <1>4, <1>7, <1>9, <1>15 DEF Answered

\* The invariant after a step that follows the rules.
LEMMA InvAfter ==
    ASSUME CommandLedgerAssumption, Inv, TypeOK', Follows,
           told' = told \/ (\E n : told' = told \cup {n} /\ Truth(n)),
           query' = query \/ query'.pc = "none" \/ query'.at <= now',
           Windowed', Outlives', NotYetRun', AtMostOnce', ReservationsAccounted', Effects'
    PROVE  Inv'
<1>1. RunIsRemembered'
  BY RunStaysRemembered
<1>2. Answered'
  BY AnswersStayTrue
<1> QED BY <1>1, <1>2 DEF Inv

\* ReservationsAccounted, for one command in one window.
Accounted(d, v) ==
    /\ res[<<d, v>>] = "active" =>
         ledger[d].win = v /\ ledger[d].state \in {"accepted", "running"}
    /\ res[<<d, v>>] = "uncertain" =>
         ledger[d].win = v /\ ledger[d].state = "in_doubt"
    /\ ledger[d].win = v /\ ledger[d].state \in {"accepted", "running"} =>
         res[<<d, v>>] = "active" \/ res[<<d, v>>] = "consumed"
    /\ res[<<d, v>>] = "consumed" => <<d, v>> \in applied
    /\ res[<<d, v>>] = "released" => <<d, v>> \notin applied

LEMMA TypedParts ==
    ASSUME TypeOK PROVE runner \in Runners /\ call \in Calls
BY DEF TypeOK, Runners, Calls

-----------------------------------------------------------------------------
(* Steps that leave the durable state alone.                               *)

LEMMA StillFollows ==
    ASSUME CommandLedgerAssumption, Inv,
           UNCHANGED <<now, issued, window, ledger, started>>
    PROVE  Follows
BY Numbers DEF Inv, TypeOK, Follows, MovesRecord

\* The runner that an accepted command gets.
LEMMA EnsureRunner ==
    ASSUME CommandLedgerAssumption, Inv, NEW c \in Cmd, ensureRunner(c)
    PROVE  /\ runner' \in Runners
           /\ \A d \in Cmd : runner'[d] = runner[d] \/ runner'[d].pc = "claim"
BY TypedParts DEF Inv, ensureRunner, NoRunner, Runners

LEMMA ResponseForExisting ==
    ASSUME CommandLedgerAssumption, Inv, NEW k \in Call, NEW c \in Cmd, NEW w \in issued,
           ledger[c] # NoCommand, responseForExisting(k, c, w),
           UNCHANGED <<issued, ledger, window, started>>
    PROVE  /\ runner' \in Runners
           /\ \A d \in Cmd : runner'[d] = runner[d] \/ runner'[d].pc = "claim"
           /\ call' \in Calls
           /\ \A j \in Call : call'[j].pc # "idle" => call'[j].cmd \in Cmd /\ call'[j].win \in issued
           /\ told' = told \/ (\E n : told' = told \cup {n} /\ Truth(n))
<1>1. issued \subseteq Win /\ runner \in Runners
  BY TypedParts DEF Inv, TypeOK
<1>2. /\ call \in Calls
      /\ \A j \in Call : call[j].pc # "idle" => call[j].cmd \in Cmd /\ call[j].win \in issued
  BY TypedParts DEF Inv, Windowed
<1>3. CASE ensureRunner(c) /\ UNCHANGED told
           /\ call' = [call EXCEPT ![k] = [cmd |-> c, win |-> w, pc |-> "await"]]
  BY <1>1, <1>2, <1>3, EnsureRunner DEF Calls
<1>4. CASE /\ ledger[c].win = w /\ ledger[c].state \in Final
           /\ Tell(c, w, ledger[c].state)
           /\ call' = [call EXCEPT ![k] = Idle] /\ UNCHANGED runner
  <2> DEFINE n == [cmd |-> c, win |-> w, says |-> ledger[c].state]
  <2>1. told' = told \cup {n} /\ n.says \in Final /\ n.says # "reissue"
    BY <1>4 DEF Tell, Final
  <2>2. Truth(n)
    BY <1>1, <1>4, <2>1 DEF Truth, Says
  <2>3. \E m : told' = told \cup {m} /\ Truth(m)
    BY <2>1, <2>2
  <2> QED BY <1>1, <1>2, <1>4, <2>3 DEF Idle, Calls
<1>5. CASE call' = [call EXCEPT ![k] = Idle] /\ UNCHANGED <<runner, told>>
  BY <1>1, <1>2, <1>5 DEF Idle, Calls
<1> QED BY <1>3, <1>4, <1>5 DEF responseForExisting

\* The frame that says the window has expired is true.
LEMMA ExpiredFrame ==
    ASSUME CommandLedgerAssumption, Inv, NEW c \in Cmd, NEW w \in issued,
           ledger[c] = NoCommand, Expired(w), commandWindowExpiredFrame(c, w),
           UNCHANGED <<ledger, started, window, now>>
    PROVE  \E n : told' = told \cup {n} /\ Truth(n)
<1> DEFINE n == [cmd |-> c, win |-> w,
                 says |-> IF window[w] = NoWindow THEN "forgotten" ELSE "reissue"]
<1>1. told' = told \cup {n} /\ n.says \notin Final /\ n.says \in Says
  BY DEF commandWindowExpiredFrame, Tell, Final, Says
<1>2. w \in Win
  BY DEF Inv, TypeOK
<1>3. Truth(n)
  BY <1>1, <1>2 DEF Truth, Expired
<1> QED BY <1>1, <1>3

LEMMA StorageFrame ==
    ASSUME CommandLedgerAssumption, NEW c \in Cmd, NEW w \in Win, Tell(c, w, "storage")
    PROVE  \E n : told' = told \cup {n} /\ Truth(n)
<1> DEFINE n == [cmd |-> c, win |-> w, says |-> "storage"]
<1>1. told' = told \cup {n} /\ Truth(n)
  BY DEF Tell, Truth, Says, Final
<1> QED BY <1>1

LEMMA FaultType ==
    ASSUME CommandLedgerAssumption, TypeOK, Fault
    PROVE  faults' \in 0..MaxFaults
BY DEF CommandLedgerAssumption, TypeOK, Fault

LEMMA ExecuteInv ==
    ASSUME CommandLedgerAssumption, Inv, NEW k \in Call, NEW c \in Cmd, NEW w \in Win,
           execute(k, c, w)
    PROVE  Inv'
<1> DEFINE Told == told' = told \/ (\E n : told' = told \cup {n} /\ Truth(n))
<1>1. w \in issued /\ call[k] = Idle
      /\ UNCHANGED <<now, issued, window, ledger, res, query, sweep, up, started, applied>>
  BY DEF execute
<1>2. /\ issued \subseteq Win /\ runner \in Runners /\ call \in Calls
      /\ \A j \in Call : call[j].pc # "idle" => call[j].cmd \in Cmd /\ call[j].win \in issued
      /\ faults \in 0..MaxFaults
  BY TypedParts DEF Inv, TypeOK, Windowed
<1>3. /\ runner' \in Runners
      /\ \A d \in Cmd : runner'[d] = runner[d] \/ runner'[d].pc = "claim"
      /\ call' \in Calls
      /\ \A j \in Call : call'[j].pc # "idle" => call'[j].cmd \in Cmd /\ call'[j].win \in issued
      /\ faults' \in 0..MaxFaults /\ Told
  <2>1. CASE ledger[c] # NoCommand /\ responseForExisting(k, c, w) /\ UNCHANGED faults
    BY <1>1, <1>2, <2>1, ResponseForExisting
  <2>2. CASE /\ ledger[c] = NoCommand /\ Expired(w) /\ commandWindowExpiredFrame(c, w)
             /\ UNCHANGED <<call, runner, faults>>
    BY <1>1, <1>2, <2>2, ExpiredFrame
  <2>3. CASE /\ call' = [call EXCEPT ![k] = [cmd |-> c, win |-> w, pc |-> "resolve"]]
             /\ UNCHANGED <<runner, told, faults>>
    BY <1>1, <1>2, <2>3 DEF Calls
  <2>4. CASE Fault /\ Tell(c, w, "storage") /\ UNCHANGED <<call, runner>>
    BY <1>2, <2>4, StorageFrame, FaultType DEF Inv
  <2> QED BY <2>1, <2>2, <2>3, <2>4 DEF execute
<1>4. TypeOK'
  BY <1>1, <1>3 DEF Inv, TypeOK, Runners, Calls
<1>5. Windowed' /\ Outlives'
  BY <1>1, <1>3 DEF Inv, Windowed, Outlives
<1>6. NotYetRun'
  BY <1>1, <1>3 DEF Inv, NotYetRun
<1>7. AtMostOnce' /\ ReservationsAccounted'
  BY <1>1 DEF Inv, AtMostOnce, ReservationsAccounted
<1>8. Effects'
  BY <1>1, <1>3 DEF Inv, Effects
<1> QED BY <1>1, <1>3, <1>4, <1>5, <1>6, <1>7, <1>8, StillFollows, InvAfter

LEMMA PreLedgerFailureInv ==
    ASSUME CommandLedgerAssumption, Inv, NEW k \in Call, preLedgerFailure(k)
    PROVE  Inv'
<1> USE DEF preLedgerFailure
<1>1. TypeOK'
  BY DEF Inv, TypeOK, Idle
<1>2. Windowed' /\ Outlives' /\ NotYetRun'
  BY DEF Inv, Windowed, Outlives, NotYetRun, TypeOK, Idle
<1>3. AtMostOnce' /\ ReservationsAccounted' /\ Effects'
  BY DEF Inv, AtMostOnce, ReservationsAccounted, Effects
<1> QED BY <1>1, <1>2, <1>3, StillFollows, InvAfter

\* A compaction or a query reads the clock.
LEMMA ReadClockInv ==
    ASSUME CommandLedgerAssumption, Inv, compact \/ startQuery
    PROVE  Inv'
<1> USE DEF compact, startQuery
<1>1. now \in Nat /\ now \in Time
  BY Numbers DEF Inv, TypeOK
<1>2. TypeOK'
  BY <1>1 DEF Inv, TypeOK
<1>3. Windowed' /\ Outlives' /\ NotYetRun' /\ AtMostOnce' /\ ReservationsAccounted' /\ Effects'
  BY DEF Inv, Windowed, Outlives, NotYetRun, AtMostOnce, ReservationsAccounted, Effects
<1>4. query' = query \/ query'.at <= now'
  BY <1>1
<1> QED BY <1>2, <1>3, <1>4, StillFollows, InvAfter

LEMMA FinishQueryInv ==
    ASSUME CommandLedgerAssumption, Inv, NEW c \in Cmd, NEW w \in Win, finishQuery(c, w)
    PROVE  Inv'
<1>1. /\ query.pc = "read" /\ query' = NoQuery /\ queryItem(c, w)
      /\ UNCHANGED <<now, issued, window, ledger, res, call, runner, sweep, up, faults,
                     started, applied>>
  BY DEF finishQuery
<1>2. told' = told \/ (\E n : told' = told \cup {n} /\ Truth(n))
  <2>1. CASE ledger[c].win = w /\ ledger[c].state \in Final /\ Tell(c, w, ledger[c].state)
    <3> DEFINE n == [cmd |-> c, win |-> w, says |-> ledger[c].state]
    <3>1. told' = told \cup {n} /\ n.says \in Final /\ n.says # "reissue"
      BY <2>1 DEF Tell, Final
    <3>2. w \in issued
      BY <2>1 DEF Inv, Windowed, Final
    <3>3. Truth(n)
      BY <1>1, <2>1, <3>1, <3>2 DEF Truth, Says
    <3> QED BY <3>1, <3>3
  <2>2. CASE /\ ledger[c] = NoCommand /\ window[w] # NoWindow
             /\ query.at > window[w].accept /\ Tell(c, w, "reissue")
    <3> DEFINE n == [cmd |-> c, win |-> w, says |-> "reissue"]
    <3>1. told' = told \cup {n} /\ n.says \notin Final /\ n.says \in Says
      BY <2>2 DEF Tell, Final, Says
    <3>2. w \in issued
      BY <2>2 DEF Inv, Windowed
    <3>3. now \in Nat /\ query.at \in Nat /\ window[w].accept \in Nat
      BY Numbers DEF Inv, TypeOK
    <3>4. ~ClockSteps => now > window[w].accept
      BY <1>1, <2>2, <3>3 DEF Inv, Answered, StaysShut
    <3>5. Truth(n)
      BY <1>1, <2>2, <3>1, <3>2, <3>4 DEF Truth
    <3> QED BY <3>1, <3>5
  <2>3. CASE UNCHANGED told
    BY <2>3
  <2> QED BY <1>1, <2>1, <2>2, <2>3 DEF queryItem
<1>3. TypeOK'
  BY <1>1 DEF Inv, TypeOK, NoQuery
<1>4. Windowed' /\ Outlives' /\ NotYetRun' /\ AtMostOnce' /\ ReservationsAccounted' /\ Effects'
  BY <1>1 DEF Inv, Windowed, Outlives, NotYetRun, AtMostOnce, ReservationsAccounted, Effects
<1>5. query'.pc = "none"
  BY <1>1 DEF NoQuery
<1> QED BY <1>1, <1>2, <1>3, <1>4, <1>5, StillFollows, InvAfter

LEMMA CrashInv ==
    ASSUME CommandLedgerAssumption, Inv, Crash
    PROVE  Inv'
<1> USE DEF Crash
<1>1. TypeOK'
  BY FaultType DEF Inv, TypeOK, Idle, NoRunner, NoQuery
<1>2. Windowed' /\ Outlives'
  BY DEF Inv, Windowed, Outlives, Idle
<1>3. NotYetRun' /\ AtMostOnce' /\ ReservationsAccounted' /\ Effects'
  BY DEF Inv, NotYetRun, NoRunner, AtMostOnce, ReservationsAccounted, Effects
<1>4. query'.pc = "none"
  BY DEF NoQuery
<1> QED BY <1>1, <1>2, <1>3, <1>4, StillFollows, InvAfter

-----------------------------------------------------------------------------
(* Windows, the clock and reconciliation.                                  *)

LEMMA IssueInv ==
    ASSUME CommandLedgerAssumption, Inv, NEW w \in Win, issueDedupeWindow(w)
    PROVE  Inv'
<1> USE DEF issueDedupeWindow
<1>1. TypeOK'
  BY NewWindowStored DEF Inv, TypeOK
<1>2. Follows
  BY Numbers DEF Inv, TypeOK, Follows, MovesRecord
<1>3. Windowed'
  BY DEF Inv, Windowed, TypeOK
<1>4. Outlives'
  <2> SUFFICES ASSUME NEW c \in Cmd, ledger[c].state \in Final
               PROVE  \/ window'[ledger[c].win] = NoWindow
                      \/ window'[ledger[c].win].query <= ledger[c].dedupe
    BY DEF Outlives
  <2>1. ledger[c].win \in issued /\ ledger[c].win \in Win /\ ledger[c].win # w
    BY DEF Inv, Windowed, TypeOK, Final
  <2>2. window'[ledger[c].win] = window[ledger[c].win]
    BY <2>1 DEF Inv, TypeOK
  <2> QED BY <2>2 DEF Inv, Outlives
<1>5. NotYetRun' /\ AtMostOnce' /\ ReservationsAccounted' /\ Effects'
  BY DEF Inv, NotYetRun, AtMostOnce, ReservationsAccounted, Effects
<1> QED BY <1>1, <1>2, <1>3, <1>4, <1>5, InvAfter

LEMMA TickInv ==
    ASSUME CommandLedgerAssumption, Inv, Tick
    PROVE  Inv'
<1> USE DEF Tick
<1>1. now' \in 0..MaxTime /\ (~ClockSteps => now' >= now)
  BY DEF Inv, TypeOK, CommandLedgerAssumption
<1>2. TypeOK'
  BY <1>1 DEF Inv, TypeOK
<1>3. Follows
  BY <1>1 DEF Follows, MovesRecord
<1>4. Windowed' /\ Outlives' /\ NotYetRun' /\ AtMostOnce' /\ ReservationsAccounted' /\ Effects'
  BY DEF Inv, Windowed, Outlives, NotYetRun, AtMostOnce, ReservationsAccounted, Effects
<1> QED BY <1>2, <1>3, <1>4, InvAfter

LEMMA ReconcileInv ==
    ASSUME CommandLedgerAssumption, Inv, NEW c \in Cmd, NEW w \in Win,
           discoverResource(c, w) \/ applyFencedNegativeEvidence(c, w)
    PROVE  Inv'
<1>0. /\ \/ /\ res[<<c, w>>] \in {"active", "uncertain"} /\ <<c, w>> \in applied
            /\ res' = [res EXCEPT ![<<c, w>>] = "consumed"]
         \/ /\ res[<<c, w>>] = "uncertain" /\ <<c, w>> \notin applied
            /\ res' = [res EXCEPT ![<<c, w>>] = "released"]
      /\ UNCHANGED <<now, issued, window, ledger, call, runner, query, sweep, up, faults,
                     started, applied, told>>
  BY DEF discoverResource, applyFencedNegativeEvidence
<1>1. TypeOK'
  BY <1>0 DEF Inv, TypeOK
<1>2. Windowed' /\ Outlives' /\ NotYetRun' /\ AtMostOnce' /\ Effects'
  BY <1>0 DEF Inv, Windowed, Outlives, NotYetRun, AtMostOnce, Effects
<1>3. ReservationsAccounted'
  <2> SUFFICES ASSUME NEW d \in Create, NEW v \in Win PROVE Accounted(d, v)'
    BY <1>0 DEF ReservationsAccounted, Accounted
  <2>1. d \in Cmd /\ <<d, v>> \in Cmd \X Win /\ res \in [Cmd \X Win -> {"none", "active", "uncertain", "consumed", "released"}]
    BY DEF CommandLedgerAssumption, Inv, TypeOK
  <2>2. Accounted(d, v)
    BY DEF Inv, ReservationsAccounted, Accounted
  <2>3. CASE <<d, v>> = <<c, w>>
    BY <1>0, <2>1, <2>2, <2>3 DEF Accounted
  <2>4. CASE <<d, v>> # <<c, w>>
    <3>1. res'[<<d, v>>] = res[<<d, v>>]
      BY <1>0, <2>1, <2>4
    <3> QED BY <1>0, <2>2, <3>1 DEF Accounted
  <2> QED BY <2>3, <2>4
<1> QED BY <1>0, <1>1, <1>2, <1>3, StillFollows, InvAfter

-----------------------------------------------------------------------------
(* Compaction and recovery.                                                *)

\* What compaction makes of a record.
LEMMA CompactedRecord ==
    ASSUME CommandLedgerAssumption, Inv, NEW c \in Cmd, NEW t
    PROVE  LET old == ledger[c]
               new == compactTombstone(c, t)
           IN  /\ new \in Record
               /\ \/ new = old
                  \/ /\ old.state \in Final /\ new.tomb
                     /\ new.state = old.state /\ new.win = old.win
                     /\ new.result = old.result /\ new.dedupe = old.dedupe
                  \/ /\ new = NoCommand /\ old.state \in Final /\ t > old.dedupe
                     /\ ~(old.state = "in_doubt" /\ hasPendingSettlement(c, old.win))
<1>1. ledger[c] \in Record /\ (ledger[c].tomb => ledger[c].state \in Final)
  BY DEF Inv, TypeOK
<1> QED BY <1>1, TombRecord, NoCommandRecord DEF compactTombstone, Deletable

LEMMA CompactCommitInv ==
    ASSUME CommandLedgerAssumption, Inv, CompactCommit
    PROVE  Inv'
<1>1. CASE UNCHANGED <<ledger, window>> /\ Fault
  <2> USE <1>1 DEF CompactCommit
  <2>1. TypeOK'
    BY FaultType DEF Inv, TypeOK
  <2>2. Windowed' /\ Outlives' /\ NotYetRun' /\ AtMostOnce' /\ ReservationsAccounted' /\ Effects'
    BY DEF Inv, Windowed, Outlives, NotYetRun, AtMostOnce, ReservationsAccounted, Effects
  <2> QED BY <2>1, <2>2, StillFollows, InvAfter
<1>2. CASE /\ ledger' = [c \in Cmd |-> compactTombstone(c, sweep)]
           /\ window' = [w \in Win |->
                IF window[w] # NoWindow /\ sweep > window[w].query
                THEN NoWindow ELSE window[w]]
           /\ UNCHANGED faults
  <2>0. /\ sweep' = NoTime
        /\ UNCHANGED <<now, issued, res, call, runner, query, up, started, applied, told>>
    BY DEF CompactCommit
  <2>1. /\ ledger' \in [Cmd -> Record]
        /\ \A c \in Cmd :
             \/ ledger'[c] = ledger[c]
             \/ /\ ledger[c].state \in Final /\ ledger'[c].tomb
                /\ ledger'[c].state = ledger[c].state /\ ledger'[c].win = ledger[c].win
                /\ ledger'[c].result = ledger[c].result /\ ledger'[c].dedupe = ledger[c].dedupe
             \/ /\ ledger'[c] = NoCommand /\ ledger[c].state \in Final
                /\ sweep > ledger[c].dedupe
                /\ ~(ledger[c].state = "in_doubt" /\ hasPendingSettlement(c, ledger[c].win))
    BY <1>2, CompactedRecord
  <2>2. /\ window' \in [Win -> [accept : Time \cup {NoTime}, query : Time \cup {NoTime}]]
        /\ \A w \in Win : window'[w] \in {window[w], NoWindow}
    BY <1>2 DEF Inv, TypeOK, NoWindow
  <2>3. \A c \in Cmd : /\ ledger'[c].state \in Final <=> ledger'[c].result # NoTime
                       /\ ledger'[c].tomb => ledger'[c].state \in Final
    <3>1. \A c \in Cmd : /\ ledger[c].state \in Final <=> ledger[c].result # NoTime
                         /\ ledger[c].tomb => ledger[c].state \in Final
      BY DEF Inv, TypeOK
    <3>2. /\ NoCommand.state \notin Final /\ ~NoCommand.tomb
          /\ NoCommand.result = NoTime
      BY NoCommandRecord DEF Final
    <3> QED BY <2>1, <3>1, <3>2
  <2>4. TypeOK'
    BY <1>2, <2>0, <2>1, <2>2, <2>3 DEF Inv, TypeOK
  <2>5. \A c \in Cmd : ledger[c].state \in Final =>
             ledger[c].win \in issued /\ ledger[c].win \in Win
    BY DEF Inv, Windowed, TypeOK, Final
  <2>6. ASSUME NEW c \in Cmd, ledger[c].state \in Final, sweep > ledger[c].dedupe
        PROVE  window'[ledger[c].win] = NoWindow
    <3>1. ledger[c].dedupe \in Nat /\ sweep \in Nat /\ window[ledger[c].win].query \in Nat
      BY <2>5, <2>6, RecordFields, Numbers DEF Inv, TypeOK
    <3>2. \/ window[ledger[c].win] = NoWindow
          \/ window[ledger[c].win].query <= ledger[c].dedupe
      BY <2>6 DEF Inv, Outlives
    <3> QED BY <1>2, <2>5, <2>6, <3>1, <3>2
  <2>7. Follows
    <3>1. \A c \in Cmd : MovesRecord(c)
      BY <2>1, <2>6 DEF MovesRecord
    <3> QED BY <2>0, <2>2, <3>1, Numbers DEF Follows, Inv, TypeOK
  <2>8. Windowed'
    BY <2>0, <2>1, <2>2, <2>5, NoCommandRecord DEF Inv, Windowed, Final
  <2>9. Outlives'
    BY <2>1, <2>2, <2>5, NoCommandRecord DEF Inv, Outlives, Final
  <2>10. NotYetRun' /\ AtMostOnce' /\ Effects'
    BY <2>0, <2>1, NoCommandRecord DEF Inv, NotYetRun, AtMostOnce, Effects, Final
  <2>11. ReservationsAccounted'
    <3> SUFFICES ASSUME NEW d \in Create, NEW v \in Win PROVE Accounted(d, v)'
      BY <2>0 DEF ReservationsAccounted, Accounted
    <3>1. d \in Cmd
      BY DEF CommandLedgerAssumption
    <3>2. Accounted(d, v)
      BY DEF Inv, ReservationsAccounted, Accounted
    <3> QED BY <2>0, <2>1, <3>1, <3>2, NoCommandRecord DEF hasPendingSettlement, Final, Accounted
  <2> QED BY <2>0, <2>4, <2>7, <2>8, <2>9, <2>10, <2>11, InvAfter
<1> QED BY <1>1, <1>2 DEF CompactCommit

LEMMA RecoverInv ==
    ASSUME CommandLedgerAssumption, Inv, recoverInterrupted
    PROVE  Inv'
<1>1. /\ up' = TRUE
      /\ ledger' = [c \in Cmd |-> Recovered(c)]
      /\ runner' = [c \in Cmd |-> IF ledger'[c].state = "accepted"
                                  THEN [NoRunner EXCEPT !.pc = "claim"] ELSE NoRunner]
      /\ UNCHANGED <<now, issued, window, call, query, sweep, faults, started, applied, told>>
  BY DEF recoverInterrupted
<1>2. /\ res' \in [Cmd \X Win -> {"none", "active", "uncertain", "consumed", "released"}]
      /\ \A c \in Cmd, w \in Win :
           res'[<<c, w>>] = IF /\ c \in Create /\ ledger[c].state = "running"
                               /\ ledger[c].win = w /\ res[<<c, w>>] # "consumed"
                            THEN "uncertain" ELSE res[<<c, w>>]
  BY DEF recoverInterrupted, Inv, TypeOK
<1>3. \A c \in Cmd : ledger[c].state = "running" =>
           ledger[c].win \in issued /\ ledger[c].win \in Win
  BY DEF Inv, Windowed, TypeOK
<1>4. \A c \in Cmd :
        /\ ledger'[c] \in Record
        /\ \/ ledger'[c] = ledger[c] /\ ledger[c].state # "running"
           \/ /\ ledger[c].state = "running" /\ ledger'[c].state = "in_doubt"
              /\ ledger'[c].win = ledger[c].win /\ ~ledger'[c].tomb
              /\ ledger'[c].result # NoTime
              /\ \/ window[ledger[c].win] = NoWindow
                 \/ window[ledger[c].win].query <= ledger'[c].dedupe
  BY <1>1, <1>3, FinalizedRecord DEF Recovered, Inv, TypeOK, Final
<1>5. runner' \in Runners /\ \A c \in Cmd : runner'[c].pc \in {"none", "claim"}
  BY <1>1 DEF Runners, NoRunner
<1>6. \A c \in Cmd : /\ ledger'[c].state \in Final <=> ledger'[c].result # NoTime
                     /\ ledger'[c].tomb => ledger'[c].state \in Final
  BY <1>4 DEF Inv, TypeOK, Final
<1>7. ledger' \in [Cmd -> Record]
  BY <1>1, <1>4
<1>8. TypeOK'
  BY <1>1, <1>2, <1>5, <1>6, <1>7 DEF Inv, TypeOK, Runners
<1>9. Follows
  <2>1. \A c \in Cmd : MovesRecord(c)
    BY <1>4 DEF MovesRecord, Final
  <2> QED BY <1>1, <2>1, Numbers DEF Follows, Inv, TypeOK
<1>10. Windowed'
  BY <1>1, <1>3, <1>4 DEF Inv, Windowed
<1>11. Outlives'
  BY <1>1, <1>4 DEF Inv, Outlives
<1>12. NotYetRun' /\ AtMostOnce' /\ Effects'
  BY <1>1, <1>4, <1>5 DEF Inv, NotYetRun, AtMostOnce, Effects
<1>13. ReservationsAccounted'
  <2> SUFFICES ASSUME NEW d \in Create, NEW v \in Win PROVE Accounted(d, v)'
    BY DEF ReservationsAccounted, Accounted
  <2>1. d \in Cmd
    BY DEF CommandLedgerAssumption
  <2>2. res'[<<d, v>>] = IF /\ ledger[d].state = "running" /\ ledger[d].win = v
                            /\ res[<<d, v>>] # "consumed"
                         THEN "uncertain" ELSE res[<<d, v>>]
    BY <1>2, <2>1
  <2>3. Accounted(d, v)
    BY DEF Inv, ReservationsAccounted, Accounted
  <2> QED BY <1>1, <1>4, <2>1, <2>2, <2>3 DEF Accounted
<1> QED BY <1>1, <1>8, <1>9, <1>10, <1>11, <1>12, <1>13, InvAfter

-----------------------------------------------------------------------------
(* Admission.                                                              *)

\* Any step of a call that leaves the durable state alone.
LEMMA CallStepInv ==
    ASSUME CommandLedgerAssumption, Inv,
           UNCHANGED <<now, issued, window, ledger, res, query, sweep, up, started, applied>>,
           runner' \in Runners,
           \A d \in Cmd : runner'[d] = runner[d]
                          \/ runner'[d].pc \in {"none", "claim", "markInDoubt"},
           call' \in Calls,
           \A j \in Call : call'[j].pc # "idle" => call'[j].cmd \in Cmd /\ call'[j].win \in issued,
           faults' \in 0..MaxFaults,
           told' = told \/ (\E n : told' = told \cup {n} /\ Truth(n))
    PROVE  Inv'
<1>1. TypeOK'
  BY DEF Inv, TypeOK, Runners, Calls
<1>2. Windowed' /\ Outlives'
  BY DEF Inv, Windowed, Outlives
<1>3. NotYetRun'
  BY DEF Inv, NotYetRun
<1>4. AtMostOnce' /\ ReservationsAccounted' /\ Effects'
  BY DEF Inv, AtMostOnce, ReservationsAccounted, Effects
<1> QED BY <1>1, <1>2, <1>3, <1>4, StillFollows, InvAfter

\* A command is on record for the first time.
LEMMA RecordCreated ==
    ASSUME CommandLedgerAssumption, Inv, NEW c \in Cmd, NEW w \in issued, NEW new \in Record,
           ledger[c] = NoCommand, ~Expired(w), ledger' = [ledger EXCEPT ![c] = new],
           new.win = w, new.state # "none",
           new.state \in Final <=> new.result # NoTime, ~new.tomb,
           new.state \in Final => window[w].query <= new.dedupe,
           UNCHANGED <<now, issued, window, started>>
    PROVE  /\ ledger' \in [Cmd -> Record]
           /\ ledger'[c] = new /\ \A d \in Cmd \ {c} : ledger'[d] = ledger[d]
           /\ \A d \in Cmd : /\ ledger'[d].state \in Final <=> ledger'[d].result # NoTime
                             /\ ledger'[d].tomb => ledger'[d].state \in Final
                             /\ IF ledger'[d].state = "none" THEN ledger'[d] = NoCommand
                                ELSE ledger'[d].win \in issued
           /\ started[<<c, w>>] = 0
           /\ Outlives' /\ Follows
<1>1. /\ ledger' \in [Cmd -> Record]
      /\ ledger'[c] = new /\ \A d \in Cmd \ {c} : ledger'[d] = ledger[d]
  BY DEF Inv, TypeOK
<1>2. \A d \in Cmd : /\ ledger'[d].state \in Final <=> ledger'[d].result # NoTime
                     /\ ledger'[d].tomb => ledger'[d].state \in Final
                     /\ IF ledger'[d].state = "none" THEN ledger'[d] = NoCommand
                        ELSE ledger'[d].win \in issued
  BY <1>1 DEF Inv, TypeOK, Windowed
<1>3. w \in Win /\ w # NoTime /\ window[w] # NoWindow /\ NoCommand.win = NoTime
  BY Numbers, NoCommandRecord DEF Inv, TypeOK, Expired
<1>4. started[<<c, w>>] = 0
  BY <1>3 DEF Inv, RunIsRemembered
<1>5. Outlives'
  BY <1>1 DEF Inv, Outlives
<1>6. \A d \in Cmd : MovesRecord(d)
  BY <1>1, <1>3 DEF MovesRecord
<1>7. Follows
  BY <1>6, Numbers DEF Follows, Inv, TypeOK
<1> QED BY <1>1, <1>2, <1>4, <1>5, <1>7

LEMMA InsertInv ==
    ASSUME CommandLedgerAssumption, Inv, NEW k \in Call, NEW c \in Cmd, NEW w \in issued,
           call[k] = [cmd |-> c, win |-> w, pc |-> "resolve"],
           ledger[c] = NoCommand, ~Expired(w), Insert(k, c, w),
           UNCHANGED <<now, issued, window, query, sweep, up, started, applied>>
    PROVE  Inv'
<1> DEFINE new == createAcceptedRecord(w)
<1>1. /\ ledger' = [ledger EXCEPT ![c] = new] /\ reserve(c, w) /\ UNCHANGED told
      /\ w \in Win
  BY DEF Insert, Inv, TypeOK
<1>2. /\ new \in Record /\ new.state = "accepted" /\ new.win = w /\ ~new.tomb
      /\ new.result = NoTime
  BY <1>1, AcceptedRecord
<1> HIDE DEF new
<1>3. /\ ledger' \in [Cmd -> Record]
      /\ ledger'[c] = new /\ \A d \in Cmd \ {c} : ledger'[d] = ledger[d]
      /\ \A d \in Cmd : /\ ledger'[d].state \in Final <=> ledger'[d].result # NoTime
                        /\ ledger'[d].tomb => ledger'[d].state \in Final
                        /\ IF ledger'[d].state = "none" THEN ledger'[d] = NoCommand
                           ELSE ledger'[d].win \in issued
      /\ started[<<c, w>>] = 0
      /\ Outlives' /\ Follows
  BY <1>1, <1>2, RecordCreated DEF Final
<1>4. /\ runner' \in Runners
      /\ \A d \in Cmd : runner'[d] = runner[d] \/ runner'[d].pc = "claim"
      /\ call' \in Calls /\ faults' \in 0..MaxFaults
      /\ \A j \in Call : call'[j].pc # "idle" => call'[j].cmd \in Cmd /\ call'[j].win \in issued
  <2>1. /\ call \in Calls /\ runner \in Runners /\ faults \in 0..MaxFaults
        /\ \A j \in Call : call[j].pc # "idle" => call[j].cmd \in Cmd /\ call[j].win \in issued
    BY TypedParts DEF Inv, TypeOK, Windowed
  <2>2. CASE ensureRunner(c) /\ call' = [call EXCEPT ![k].pc = "await"] /\ UNCHANGED faults
    BY <2>1, <2>2, EnsureRunner DEF Calls
  <2>3. CASE Fault /\ call' = [call EXCEPT ![k] = Idle] /\ UNCHANGED runner
    BY <2>1, <2>3, FaultType DEF Calls, Idle, Inv
  <2> QED BY <2>2, <2>3 DEF Insert
<1>5. /\ res' \in [Cmd \X Win -> {"none", "active", "uncertain", "consumed", "released"}]
      /\ \A d \in Cmd, v \in Win : res'[<<d, v>>] =
            IF c \in Create /\ d = c /\ v = w THEN "active" ELSE res[<<d, v>>]
  BY <1>1 DEF reserve, Inv, TypeOK
<1>6. TypeOK'
  BY <1>3, <1>4, <1>5 DEF Inv, TypeOK, Runners, Calls
<1>7. Windowed'
  BY <1>3, <1>4 DEF Inv, Windowed
<1>8. NotYetRun'
  <2>1. runner[c].pc # "invoke"
    BY NoCommandRecord DEF Inv, NotYetRun
  <2> SUFFICES ASSUME NEW d \in Cmd
               PROVE  /\ runner'[d].pc = "invoke" =>
                           ledger'[d].state = "running" /\ started[<<d, ledger'[d].win>>] = 0
                      /\ ledger'[d].state = "accepted" => started[<<d, ledger'[d].win>>] = 0
                      /\ runner'[d].pc = "finalize" => runner'[d].outcome \in Final
    BY DEF NotYetRun
  <2>2. CASE d = c
    BY <1>2, <1>3, <1>4, <2>1, <2>2 DEF Inv, NotYetRun
  <2>3. CASE d # c
    BY <1>3, <1>4, <2>3 DEF Inv, NotYetRun
  <2> QED BY <2>2, <2>3
<1>9. AtMostOnce' /\ Effects'
  <2>1. \A d \in Cmd : ledger'[d].state = "running" => ledger'[d] = ledger[d]
    BY <1>2, <1>3
  <2>2. \A d \in Cmd : runner'[d].pc = "finalize" => runner'[d] = runner[d]
    BY <1>4
  <2> QED BY <2>1, <2>2 DEF Inv, AtMostOnce, Effects
<1>10. ReservationsAccounted'
  <2> SUFFICES ASSUME NEW d \in Create, NEW v \in Win PROVE Accounted(d, v)'
    BY DEF ReservationsAccounted, Accounted
  <2>1. d \in Cmd /\ NoCommand.state = "none"
    BY NoCommandRecord DEF CommandLedgerAssumption
  <2>2. res'[<<d, v>>] = IF d = c /\ v = w THEN "active" ELSE res[<<d, v>>]
    BY <1>5, <2>1
  <2>3. Accounted(d, v)
    BY DEF Inv, ReservationsAccounted, Accounted
  <2> QED BY <1>2, <1>3, <2>1, <2>2, <2>3 DEF Accounted
<1> QED BY <1>1, <1>3, <1>6, <1>7, <1>8, <1>9, <1>10, InvAfter

LEMMA FinalFailureInv ==
    ASSUME CommandLedgerAssumption, Inv, NEW k \in Call, NEW c \in Cmd, NEW w \in issued,
           ledger[c] = NoCommand, ~Expired(w), createFinalFailureRecord(k, c, w),
           UNCHANGED <<now, issued, window, query, sweep, up, started, applied>>
    PROVE  Inv'
<1> DEFINE new == finalizedRecord(w, "failed")
           n == [cmd |-> c, win |-> w, says |-> "failed"]
<1>1. /\ ledger' = [ledger EXCEPT ![c] = new] /\ told' = told \cup {n}
      /\ call' = [call EXCEPT ![k] = Idle] /\ UNCHANGED <<res, runner, faults>>
      /\ w \in Win /\ window[w] # NoWindow
  BY DEF createFinalFailureRecord, Tell, Inv, TypeOK, Expired
<1>2. /\ new \in Record /\ new.state = "failed" /\ new.win = w /\ ~new.tomb
      /\ new.result # NoTime /\ window[w].query <= new.dedupe
  BY <1>1, FinalizedRecord DEF Inv, Final
<1> HIDE DEF new
<1>3. /\ ledger' \in [Cmd -> Record]
      /\ ledger'[c] = new /\ \A d \in Cmd \ {c} : ledger'[d] = ledger[d]
      /\ \A d \in Cmd : /\ ledger'[d].state \in Final <=> ledger'[d].result # NoTime
                        /\ ledger'[d].tomb => ledger'[d].state \in Final
                        /\ IF ledger'[d].state = "none" THEN ledger'[d] = NoCommand
                           ELSE ledger'[d].win \in issued
      /\ Outlives' /\ Follows
  BY <1>1, <1>2, RecordCreated DEF Final
<1>4. Truth(n)
  BY <1>1, <1>2, <1>3 DEF Truth, Says, Final
<1>5. TypeOK'
  BY <1>1, <1>3 DEF Inv, TypeOK, Idle
<1>6. Windowed'
  BY <1>1, <1>3 DEF Inv, Windowed, TypeOK, Idle
<1>7. NotYetRun' /\ AtMostOnce' /\ Effects'
  BY <1>1, <1>2, <1>3, NoCommandRecord DEF Inv, NotYetRun, AtMostOnce, Effects
<1>8. ReservationsAccounted'
  <2> SUFFICES ASSUME NEW d \in Create, NEW v \in Win PROVE Accounted(d, v)'
    BY DEF ReservationsAccounted, Accounted
  <2>1. d \in Cmd /\ NoCommand.state = "none" /\ Accounted(d, v)
    BY NoCommandRecord DEF CommandLedgerAssumption, Inv, ReservationsAccounted, Accounted
  <2> QED BY <1>1, <1>2, <1>3, <2>1 DEF Accounted
<1>9. \E m : told' = told \cup {m} /\ Truth(m)
  BY <1>1, <1>4
<1> QED BY <1>3, <1>5, <1>6, <1>7, <1>8, <1>9, InvAfter

LEMMA AdmitInv ==
    ASSUME CommandLedgerAssumption, Inv, NEW k \in Call, admit(k)
    PROVE  Inv'
<1> DEFINE c == call[k].cmd
           w == call[k].win
<1>1. /\ c \in Cmd /\ w \in issued /\ w \in Win
      /\ call[k] = [cmd |-> c, win |-> w, pc |-> "resolve"]
      /\ UNCHANGED <<now, issued, window, query, sweep, up, started, applied>>
  BY DEF admit, Inv, Windowed, TypeOK
<1>2. /\ call \in Calls /\ runner \in Runners /\ faults \in 0..MaxFaults
      /\ \A j \in Call : call[j].pc # "idle" => call[j].cmd \in Cmd /\ call[j].win \in issued
  BY TypedParts DEF Inv, TypeOK, Windowed
<1>3. CASE ledger[c] # NoCommand /\ responseForExisting(k, c, w) /\ UNCHANGED <<ledger, res, faults>>
  <2>1. /\ runner' \in Runners
        /\ \A d \in Cmd : runner'[d] = runner[d] \/ runner'[d].pc = "claim"
        /\ call' \in Calls
        /\ \A j \in Call : call'[j].pc # "idle" => call'[j].cmd \in Cmd /\ call'[j].win \in issued
        /\ told' = told \/ (\E n : told' = told \cup {n} /\ Truth(n))
    BY <1>1, <1>3, ResponseForExisting
  <2> QED BY <1>1, <1>2, <1>3, <2>1, CallStepInv
<1>4. CASE /\ ledger[c] = NoCommand /\ Expired(w) /\ commandWindowExpiredFrame(c, w)
           /\ call' = [call EXCEPT ![k] = Idle]
           /\ UNCHANGED <<ledger, res, runner, faults>>
  <2>1. \E n : told' = told \cup {n} /\ Truth(n)
    BY <1>1, <1>4, ExpiredFrame
  <2>2. /\ call' \in Calls
        /\ \A j \in Call : call'[j].pc # "idle" => call'[j].cmd \in Cmd /\ call'[j].win \in issued
    BY <1>2, <1>4 DEF Calls, Idle
  <2> QED BY <1>1, <1>2, <1>4, <2>1, <2>2, CallStepInv
<1>5. CASE /\ ledger[c] = NoCommand /\ ~Expired(w)
           /\ Insert(k, c, w) \/ createFinalFailureRecord(k, c, w)
  <2> HIDE DEF c, w
  <2> QED BY <1>1, <1>5, InsertInv, FinalFailureInv
<1>6. CASE /\ Fault /\ Tell(c, w, "storage") /\ call' = [call EXCEPT ![k] = Idle]
           /\ UNCHANGED <<ledger, res, runner>>
  <2>1. \E n : told' = told \cup {n} /\ Truth(n)
    BY <1>1, <1>6, StorageFrame
  <2>2. /\ call' \in Calls /\ faults' \in 0..MaxFaults
        /\ \A j \in Call : call'[j].pc # "idle" => call'[j].cmd \in Cmd /\ call'[j].win \in issued
    BY <1>2, <1>6, FaultType DEF Calls, Idle, Inv
  <2> QED BY <1>1, <1>2, <1>6, <2>1, <2>2, CallStepInv
<1> QED BY <1>3, <1>4, <1>5, <1>6 DEF admit

-----------------------------------------------------------------------------
(* The runner.                                                             *)

LEMMA SettleFacts ==
    ASSUME CommandLedgerAssumption, Inv, NEW c \in Cmd, NEW r, Settle(c, r),
           r.state \in Final => /\ r.win \in issued /\ ledger'[c].win = r.win
                                /\ ledger'[c].state = r.state
    PROVE  /\ runner' \in Runners
           /\ \A d \in Cmd : runner'[d] = runner[d] \/ runner'[d].pc = "none"
           /\ call' \in Calls
           /\ \A j \in Call : call'[j].pc # "idle" => call'[j].cmd \in Cmd /\ call'[j].win \in issued
           /\ told' = told \/ (\E n : told' = told \cup {n} /\ Truth(n))
<1>1. /\ call \in Calls /\ runner \in Runners /\ issued \subseteq Win
      /\ \A j \in Call : call[j].pc # "idle" => call[j].cmd \in Cmd /\ call[j].win \in issued
  BY TypedParts DEF Inv, TypeOK, Windowed
<1>2. /\ runner' \in Runners
      /\ \A d \in Cmd : runner'[d] = runner[d] \/ runner'[d].pc = "none"
  BY <1>1 DEF Settle, Runners, NoRunner
<1>3. /\ call' \in Calls
      /\ \A j \in Call : call'[j].pc # "idle" => call'[j].cmd \in Cmd /\ call'[j].win \in issued
  BY <1>1 DEF Settle, Calls, Idle
<1>4. told' = told \/ (\E n : told' = told \cup {n} /\ Truth(n))
  <2>1. CASE r.state \in Final /\ Tell(c, r.win, r.state)
    <3> DEFINE n == [cmd |-> c, win |-> r.win, says |-> r.state]
    <3>1. told' = told \cup {n} /\ n.says \in Final /\ n.says # "reissue"
      BY <2>1 DEF Tell, Final
    <3>2. Truth(n)
      BY <1>1, <2>1, <3>1 DEF Truth, Says
    <3> QED BY <3>1, <3>2
  <2> QED BY <2>1 DEF Settle
<1> QED BY <1>2, <1>3, <1>4

\* The runner ends without a write: it answers from the record, or not at all.
LEMMA SettleInv ==
    ASSUME CommandLedgerAssumption, Inv, NEW c \in Cmd,
           Settle(c, ledger[c]) \/ Settle(c, NoCommand), faults' \in 0..MaxFaults,
           UNCHANGED <<now, issued, window, ledger, res, query, sweep, up, started, applied>>
    PROVE  Inv'
<1>1. /\ NoCommand.state \notin Final
      /\ ledger[c].state \in Final => ledger[c].win \in issued
  BY NoCommandRecord DEF Inv, Windowed, Final
<1>2. /\ runner' \in Runners
      /\ \A d \in Cmd : runner'[d] = runner[d] \/ runner'[d].pc = "none"
      /\ call' \in Calls
      /\ \A j \in Call : call'[j].pc # "idle" => call'[j].cmd \in Cmd /\ call'[j].win \in issued
      /\ told' = told \/ (\E n : told' = told \cup {n} /\ Truth(n))
  BY <1>1, SettleFacts
<1> QED BY <1>2, CallStepInv

LEMMA ClaimInv ==
    ASSUME CommandLedgerAssumption, Inv, NEW c \in Cmd, claimAccepted(c)
    PROVE  Inv'
<1>1. UNCHANGED <<now, issued, window, res, query, sweep, up, started, applied>>
  BY DEF claimAccepted
<1>2. faults \in 0..MaxFaults /\ (Fault => faults' \in 0..MaxFaults)
  BY FaultType DEF Inv, TypeOK
<1>3. CASE /\ ledger[c].state = "accepted"
           /\ ledger' = [ledger EXCEPT ![c].state = "running"]
           /\ \/ /\ runner' = [runner EXCEPT ![c].pc = "invoke"]
                 /\ UNCHANGED <<call, told, faults>>
              \/ Fault /\ Settle(c, NoCommand)
  <2>1. /\ ledger[c] \in Record /\ ledger[c].result = NoTime /\ ~ledger[c].tomb
        /\ ledger \in [Cmd -> Record]
        /\ runner[c].pc # "invoke" /\ started[<<c, ledger[c].win>>] = 0
    BY <1>3 DEF Inv, TypeOK, NotYetRun, Final
  <2>2. /\ ledger' \in [Cmd -> Record]
        /\ \A d \in Cmd \ {c} : ledger'[d] = ledger[d]
        /\ ledger'[c].state = "running" /\ ledger'[c].win = ledger[c].win
        /\ ledger'[c].tomb = ledger[c].tomb /\ ledger'[c].result = NoTime
    BY <1>3, <2>1, RunningRecord
  <2>3. /\ runner' \in Runners
        /\ \A d \in Cmd \ {c} : runner'[d] = runner[d] \/ runner'[d].pc = "none"
        /\ runner'[c].pc \in {"none", "invoke"}
        /\ call' \in Calls /\ faults' \in 0..MaxFaults
        /\ \A j \in Call : call'[j].pc # "idle" => call'[j].cmd \in Cmd /\ call'[j].win \in issued
        /\ told' = told \/ (\E n : told' = told \cup {n} /\ Truth(n))
    <3>1. /\ call \in Calls /\ runner \in Runners
          /\ \A j \in Call : call[j].pc # "idle" => call[j].cmd \in Cmd /\ call[j].win \in issued
      BY TypedParts DEF Inv, Windowed
    <3>2. CASE runner' = [runner EXCEPT ![c].pc = "invoke"] /\ UNCHANGED <<call, told, faults>>
      BY <1>2, <3>1, <3>2 DEF Runners
    <3>3. CASE Fault /\ Settle(c, NoCommand)
      <4>1. NoCommand.state \notin Final
        BY NoCommandRecord DEF Final
      <4>2. /\ runner' \in Runners
            /\ \A d \in Cmd : runner'[d] = runner[d] \/ runner'[d].pc = "none"
            /\ call' \in Calls
            /\ \A j \in Call : call'[j].pc # "idle" => call'[j].cmd \in Cmd /\ call'[j].win \in issued
            /\ told' = told \/ (\E n : told' = told \cup {n} /\ Truth(n))
        BY <3>3, <4>1, SettleFacts
      <4>3. runner'[c].pc = "none"
        BY <3>1, <3>3 DEF Settle, Runners, NoRunner
      <4> QED BY <1>2, <3>3, <4>2, <4>3
    <3> QED BY <1>3, <3>2, <3>3
  <2>4. \A d \in Cmd : /\ ledger'[d].state \in Final <=> ledger'[d].result # NoTime
                       /\ ledger'[d].tomb => ledger'[d].state \in Final
                       /\ IF ledger'[d].state = "none" THEN ledger'[d] = NoCommand
                          ELSE ledger'[d].win \in issued
    BY <1>3, <2>1, <2>2 DEF Inv, TypeOK, Windowed, Final
  <2>5. TypeOK'
    BY <1>1, <2>2, <2>3, <2>4 DEF Inv, TypeOK, Runners, Calls
  <2>6. Windowed'
    BY <1>1, <2>3, <2>4 DEF Inv, Windowed
  <2>7. Outlives'
    BY <1>1, <2>2 DEF Inv, Outlives, Final
  <2>8. NotYetRun'
    <3> SUFFICES ASSUME NEW d \in Cmd
                 PROVE  /\ runner'[d].pc = "invoke" =>
                             ledger'[d].state = "running" /\ started[<<d, ledger'[d].win>>] = 0
                        /\ ledger'[d].state = "accepted" => started[<<d, ledger'[d].win>>] = 0
                        /\ runner'[d].pc = "finalize" => runner'[d].outcome \in Final
      BY <1>1 DEF NotYetRun
    <3>1. CASE d = c
      BY <2>1, <2>2, <2>3, <3>1
    <3>2. CASE d # c
      BY <2>2, <2>3, <3>2 DEF Inv, NotYetRun
    <3> QED BY <3>1, <3>2
  <2>9. AtMostOnce' /\ Effects'
    <3>1. \A d \in Cmd : runner'[d].pc = "finalize" =>
             d # c /\ runner'[d] = runner[d] /\ ledger'[d] = ledger[d]
      BY <2>2, <2>3
    <3> QED BY <1>1, <3>1 DEF Inv, AtMostOnce, Effects
  <2>10. ReservationsAccounted'
    <3> SUFFICES ASSUME NEW d \in Create, NEW v \in Win PROVE Accounted(d, v)'
      BY DEF ReservationsAccounted, Accounted
    <3>1. d \in Cmd /\ Accounted(d, v)
      BY DEF CommandLedgerAssumption, Inv, ReservationsAccounted, Accounted
    <3> QED BY <1>1, <1>3, <2>2, <3>1 DEF Accounted
  <2>11. Follows
    <3>1. \A d \in Cmd : MovesRecord(d)
      BY <1>3, <2>2 DEF MovesRecord, Final
    <3> QED BY <1>1, <3>1, Numbers DEF Follows, Inv, TypeOK
  <2> QED BY <1>1, <2>3, <2>5, <2>6, <2>7, <2>8, <2>9, <2>10, <2>11, InvAfter
<1>4. CASE Settle(c, ledger[c]) /\ UNCHANGED <<ledger, faults>>
  BY <1>1, <1>2, <1>4, SettleInv
<1>5. CASE Fault /\ Settle(c, NoCommand) /\ UNCHANGED ledger
  BY <1>1, <1>2, <1>5, SettleInv
<1> QED BY <1>3, <1>4, <1>5 DEF claimAccepted

LEMMA InvokeInv ==
    ASSUME CommandLedgerAssumption, Inv, NEW c \in Cmd, invoke(c)
    PROVE  Inv'
<1> DEFINE w == ledger[c].win
<1>1. /\ runner[c].pc = "invoke" /\ started' = [started EXCEPT ![<<c, w>>] = @ + 1]
      /\ UNCHANGED <<now, issued, window, ledger, res, call, query, sweep, up, faults, told>>
  BY DEF invoke
<1>2. ledger[c].state = "running" /\ started[<<c, w>>] = 0 /\ w \in Win /\ w \in issued
  BY <1>1 DEF Inv, NotYetRun, Windowed, TypeOK
<1>3. /\ started' \in [Cmd \X Win -> 0..2]
      /\ \A d \in Cmd, v \in Win :
           started'[<<d, v>>] = IF d = c /\ v = w THEN 1 ELSE started[<<d, v>>]
  BY <1>1, <1>2 DEF Inv, TypeOK
<1>4. /\ applied' \subseteq Cmd \X Win
      /\ runner' \in Runners /\ \A d \in Cmd \ {c} : runner'[d] = runner[d]
      /\ runner'[c].pc \in {"finalize", "markInDoubt"} /\ runner'[c].outcome \in Final
      /\ \A d \in Cmd, v \in Win : d # c \/ v # w =>
           (<<d, v>> \in applied' <=> <<d, v>> \in applied)
      /\ applied \subseteq applied'
      /\ <<c, w>> \notin applied =>
           /\ runner'[c].outcome = "succeeded" => <<c, w>> \in applied'
           /\ runner'[c].outcome = "failed" => <<c, w>> \notin applied'
  <2>1. PICK outcome \in Final :
          /\ \/ outcome # "failed" /\ applied' = applied \cup {<<c, w>>}
             \/ outcome # "succeeded" /\ UNCHANGED applied
          /\ runner' = [runner EXCEPT ![c] =
                 [pc |-> IF outcome = "in_doubt" THEN "markInDoubt" ELSE "finalize",
                  outcome |-> outcome]]
    BY DEF invoke
  <2>2. runner \in Runners /\ applied \subseteq Cmd \X Win
    BY TypedParts DEF Inv, TypeOK
  <2> QED BY <1>2, <2>1, <2>2 DEF Runners
<1>5. TypeOK'
  BY <1>1, <1>3, <1>4 DEF Inv, TypeOK, Runners
<1>6. Windowed' /\ Outlives'
  BY <1>1 DEF Inv, Windowed, Outlives
<1>10. <<c, w>> \notin applied
  BY <1>2 DEF Inv, Effects
<1>11. Effects'
  <2>1. \A d \in Cmd, v \in Win : <<d, v>> \in applied' => started'[<<d, v>>] # 0
    BY <1>3, <1>4 DEF Inv, Effects
  <2>2. ASSUME NEW d \in Cmd, d # c, ledger[d].state = "running"
        PROVE  <<d, ledger[d].win>> \in applied' <=> <<d, ledger[d].win>> \in applied
    BY <1>4, <2>2 DEF Inv, Windowed, TypeOK
  <2>3. ASSUME NEW d \in Cmd, runner'[d].pc = "finalize", ledger[d].state = "running"
        PROVE  /\ runner'[d].outcome = "succeeded" => <<d, ledger[d].win>> \in applied'
               /\ runner'[d].outcome = "failed" => <<d, ledger[d].win>> \notin applied'
    <3>1. CASE d = c
      BY <1>4, <1>10, <3>1
    <3>2. CASE d # c
      BY <1>4, <2>2, <2>3, <3>2 DEF Inv, Effects
    <3> QED BY <3>1, <3>2
  <2> QED BY <1>1, <2>1, <2>3 DEF Effects
<1>12. ReservationsAccounted'
  <2> SUFFICES ASSUME NEW d \in Create, NEW v \in Win PROVE Accounted(d, v)'
    BY <1>1 DEF ReservationsAccounted, Accounted
  <2>1. d \in Cmd /\ Accounted(d, v)
    BY DEF CommandLedgerAssumption, Inv, ReservationsAccounted, Accounted
  <2>2. CASE d = c /\ v = w
    BY <1>1, <1>2, <1>4, <1>10, <2>1, <2>2 DEF Accounted
  <2>3. CASE d # c \/ v # w
    BY <1>1, <1>4, <2>1, <2>3 DEF Accounted
  <2> QED BY <2>2, <2>3
<1>7. NotYetRun'
  <2> SUFFICES ASSUME NEW d \in Cmd
               PROVE  /\ runner'[d].pc = "invoke" =>
                           ledger[d].state = "running" /\ started'[<<d, ledger[d].win>>] = 0
                      /\ ledger[d].state = "accepted" => started'[<<d, ledger[d].win>>] = 0
                      /\ runner'[d].pc = "finalize" => runner'[d].outcome \in Final
    BY <1>1 DEF NotYetRun
  <2>1. CASE d = c
    BY <1>2, <1>4, <2>1
  <2>2. CASE d # c
    <3>1. ledger[d].state \in {"accepted", "running"} =>
            started'[<<d, ledger[d].win>>] = started[<<d, ledger[d].win>>]
      BY <1>3, <2>2 DEF Inv, Windowed, TypeOK
    <3> QED BY <1>4, <2>2, <3>1 DEF Inv, NotYetRun
  <2> QED BY <2>1, <2>2
<1>8. AtMostOnce'
  <2> SUFFICES ASSUME NEW d \in Cmd, NEW v \in Win PROVE started'[<<d, v>>] <= 1
    BY DEF AtMostOnce
  <2>1. started[<<d, v>>] <= 1
    BY DEF Inv, AtMostOnce
  <2> QED BY <1>3, <2>1
<1>9. Follows
  <2>1. \A d \in Cmd : MovesRecord(d)
    BY <1>1 DEF MovesRecord
  <2> QED BY <1>1, <1>3, <2>1, Numbers DEF Follows, Inv, TypeOK
<1> QED BY <1>1, <1>5, <1>6, <1>7, <1>8, <1>9, <1>11, <1>12, InvAfter

\* The final record and the reservation are written in one transaction.
LEMMA FinalizedInv ==
    ASSUME CommandLedgerAssumption, Inv, NEW c \in Cmd, NEW s \in Final,
           ledger[c].state = "running", runner[c].pc # "invoke",
           s = "succeeded" => <<c, ledger[c].win>> \in applied,
           s = "failed" => <<c, ledger[c].win>> \notin applied,
           ledger' = [ledger EXCEPT ![c] = finalizedRecord(ledger[c].win, s)],
           res' = Settled(c, ledger[c].win, s),
           UNCHANGED <<now, issued, window, query, sweep, up, started, applied>>,
           runner' \in Runners,
           \A d \in Cmd : runner'[d] = runner[d]
                          \/ runner'[d].pc \in {"none", "claim", "markInDoubt"},
           call' \in Calls,
           \A j \in Call : call'[j].pc # "idle" => call'[j].cmd \in Cmd /\ call'[j].win \in issued,
           faults' \in 0..MaxFaults,
           told' = told \/ (\E n : told' = told \cup {n} /\ Truth(n))
    PROVE  Inv'
<1> DEFINE w == ledger[c].win
           new == finalizedRecord(w, s)
<1>1. w \in issued /\ w \in Win
  BY DEF Inv, Windowed, TypeOK
<1>2. /\ new \in Record /\ new.state = s /\ new.win = w /\ ~new.tomb /\ new.result # NoTime
      /\ window[w] = NoWindow \/ window[w].query <= new.dedupe
  BY <1>1, FinalizedRecord DEF Inv
<1>3. ledger' = [ledger EXCEPT ![c] = new]
  OBVIOUS
<1>4. /\ res' \in [Cmd \X Win -> {"none", "active", "uncertain", "consumed", "released"}]
      /\ \A d \in Cmd, v \in Win : d # c \/ v # w => res'[<<d, v>>] = res[<<d, v>>]
      /\ c \in Create => /\ res'[<<c, w>>] # "active"
                         /\ res'[<<c, w>>] = "uncertain" => s = "in_doubt"
                         /\ res'[<<c, w>>] = "consumed" =>
                              res[<<c, w>>] = "consumed" \/ s = "succeeded"
                         /\ res'[<<c, w>>] = "released" => s = "failed"
  BY <1>1 DEF Settled, Final, Inv, TypeOK
<1> HIDE DEF new
<1>5. /\ ledger' \in [Cmd -> Record]
      /\ ledger'[c] = new /\ \A d \in Cmd \ {c} : ledger'[d] = ledger[d]
  BY <1>2, <1>3 DEF Inv, TypeOK
<1>6. \A d \in Cmd : /\ ledger'[d].state \in Final <=> ledger'[d].result # NoTime
                     /\ ledger'[d].tomb => ledger'[d].state \in Final
                     /\ IF ledger'[d].state = "none" THEN ledger'[d] = NoCommand
                        ELSE ledger'[d].win \in issued
  BY <1>1, <1>2, <1>5 DEF Inv, TypeOK, Windowed, Final
<1>7. TypeOK'
  BY <1>4, <1>5, <1>6 DEF Inv, TypeOK, Runners, Calls
<1>8. Windowed'
  BY <1>6 DEF Inv, Windowed
<1>9. Outlives'
  BY <1>2, <1>5 DEF Inv, Outlives
<1>10. NotYetRun'
  <2> SUFFICES ASSUME NEW d \in Cmd
               PROVE  /\ runner'[d].pc = "invoke" =>
                           ledger'[d].state = "running" /\ started[<<d, ledger'[d].win>>] = 0
                      /\ ledger'[d].state = "accepted" => started[<<d, ledger'[d].win>>] = 0
                      /\ runner'[d].pc = "finalize" => runner'[d].outcome \in Final
    BY DEF NotYetRun
  <2>1. CASE d = c
    BY <1>2, <1>5, <2>1 DEF Inv, NotYetRun, Final
  <2>2. CASE d # c
    BY <1>5, <2>2 DEF Inv, NotYetRun
  <2> QED BY <2>1, <2>2
<1>11. AtMostOnce' /\ Effects'
  <2>1. \A d \in Cmd : ledger'[d].state = "running" => ledger'[d] = ledger[d]
    BY <1>2, <1>5 DEF Final
  <2>2. \A d \in Cmd : runner'[d].pc = "finalize" => runner'[d] = runner[d]
    OBVIOUS
  <2> QED BY <2>1, <2>2 DEF Inv, AtMostOnce, Effects
<1>12. ReservationsAccounted'
  <2> SUFFICES ASSUME NEW d \in Create, NEW v \in Win PROVE Accounted(d, v)'
    BY DEF ReservationsAccounted, Accounted
  <2>1. d \in Cmd /\ Accounted(d, v)
    BY DEF CommandLedgerAssumption, Inv, ReservationsAccounted, Accounted
  <2>2. CASE d = c /\ v = w
    BY <1>2, <1>4, <1>5, <2>1, <2>2 DEF Accounted, Final
  <2>3. CASE d # c
    BY <1>4, <1>5, <2>1, <2>3 DEF Accounted
  <2>4. CASE d = c /\ v # w
    BY <1>2, <1>4, <1>5, <2>1, <2>4 DEF Accounted
  <2> QED BY <2>2, <2>3, <2>4
<1>13. Follows
  <2>1. \A d \in Cmd : MovesRecord(d)
    BY <1>2, <1>5 DEF MovesRecord, Final
  <2> QED BY <2>1, Numbers DEF Follows, Inv, TypeOK
<1> QED BY <1>7, <1>8, <1>9, <1>10, <1>11, <1>12, <1>13, InvAfter

\* The runner ends with the record it has just written, or with an error.
LEMMA FinalizedSettleInv ==
    ASSUME CommandLedgerAssumption, Inv, NEW c \in Cmd, NEW s \in Final,
           ledger[c].state = "running", runner[c].pc # "invoke",
           s = "succeeded" => <<c, ledger[c].win>> \in applied,
           s = "failed" => <<c, ledger[c].win>> \notin applied,
           ledger' = [ledger EXCEPT ![c] = finalizedRecord(ledger[c].win, s)],
           res' = Settled(c, ledger[c].win, s),
           UNCHANGED <<now, issued, window, query, sweep, up, started, applied>>,
           Settle(c, finalizedRecord(ledger[c].win, s)) \/ Settle(c, NoCommand),
           faults' \in 0..MaxFaults
    PROVE  Inv'
<1> DEFINE new == finalizedRecord(ledger[c].win, s)
<1>1. /\ ledger[c].win \in issued /\ new.win = ledger[c].win /\ new.state = s
      /\ ledger'[c] = new /\ NoCommand.state \notin Final
  BY FinalizedRecord, NoCommandRecord DEF Inv, Windowed, TypeOK, Final
<1> HIDE DEF new
<1>2. /\ runner' \in Runners
      /\ \A d \in Cmd : runner'[d] = runner[d] \/ runner'[d].pc = "none"
      /\ call' \in Calls
      /\ \A j \in Call : call'[j].pc # "idle" => call'[j].cmd \in Cmd /\ call'[j].win \in issued
      /\ told' = told \/ (\E n : told' = told \cup {n} /\ Truth(n))
  <2>1. CASE Settle(c, new)
    BY <1>1, <2>1, SettleFacts
  <2>2. CASE Settle(c, NoCommand)
    BY <1>1, <2>2, SettleFacts
  <2> QED BY <2>1, <2>2 DEF new
<1> QED BY <1>2, FinalizedInv

LEMMA FinalizeInv ==
    ASSUME CommandLedgerAssumption, Inv, NEW c \in Cmd, finalizeRunning(c)
    PROVE  Inv'
<1> DEFINE s == runner[c].outcome
           w == ledger[c].win
           Doubt == runner' = [runner EXCEPT ![c].pc = "markInDoubt"] /\ UNCHANGED <<call, told>>
<1>1. /\ runner[c].pc = "finalize" /\ s \in Final
      /\ UNCHANGED <<now, issued, window, query, sweep, up, started, applied>>
  BY DEF finalizeRunning, Inv, NotYetRun
<1>2. faults \in 0..MaxFaults /\ (Fault => faults' \in 0..MaxFaults)
  BY FaultType DEF Inv, TypeOK
<1>3. Doubt => /\ runner' \in Runners
               /\ \A d \in Cmd : runner'[d] = runner[d] \/ runner'[d].pc = "markInDoubt"
               /\ call' \in Calls
               /\ \A j \in Call : call'[j].pc # "idle" =>
                      call'[j].cmd \in Cmd /\ call'[j].win \in issued
  BY TypedParts DEF Inv, Windowed, Runners
<1>4. CASE /\ ledger[c].state = "running"
           /\ ledger' = [ledger EXCEPT ![c] = finalizedRecord(w, s)]
           /\ res' = Settled(c, w, finalizedRecord(w, s).state)
           /\ \/ Settle(c, finalizedRecord(w, s)) /\ UNCHANGED faults
              \/ Fault /\ Doubt
  <2>1. /\ finalizedRecord(w, s).state = s
        /\ s = "succeeded" => <<c, w>> \in applied
        /\ s = "failed" => <<c, w>> \notin applied
    BY <1>1, <1>4 DEF finalizedRecord, Inv, Effects
  <2>2. CASE Settle(c, finalizedRecord(w, s)) /\ UNCHANGED faults
    BY <1>1, <1>2, <1>4, <2>1, <2>2, FinalizedSettleInv
  <2>3. CASE Fault /\ Doubt
    <3>1. \A d \in Cmd : runner'[d] = runner[d] \/ runner'[d].pc \in {"none", "claim", "markInDoubt"}
      BY <1>3, <2>3
    <3> QED BY <1>1, <1>2, <1>3, <1>4, <2>1, <2>3, <3>1, FinalizedInv
  <2> QED BY <1>4, <2>2, <2>3
<1>5. CASE Settle(c, ledger[c]) /\ UNCHANGED <<ledger, res, faults>>
  BY <1>1, <1>2, <1>5, SettleInv
<1>6. CASE Fault /\ Doubt /\ UNCHANGED <<ledger, res>>
  BY <1>1, <1>2, <1>3, <1>6, CallStepInv
<1> QED BY <1>4, <1>5, <1>6 DEF finalizeRunning

LEMMA MarkInDoubtInv ==
    ASSUME CommandLedgerAssumption, Inv, NEW c \in Cmd, markInDoubt(c)
    PROVE  Inv'
<1> DEFINE w == ledger[c].win
<1>1. /\ runner[c].pc = "markInDoubt" /\ "in_doubt" \in Final
      /\ UNCHANGED <<now, issued, window, query, sweep, up, started, applied>>
  BY DEF markInDoubt, Final
<1>2. faults \in 0..MaxFaults /\ (Fault => faults' \in 0..MaxFaults)
  BY FaultType DEF Inv, TypeOK
<1>3. CASE /\ ledger[c].state = "running"
           /\ ledger' = [ledger EXCEPT ![c] = finalizedRecord(w, "in_doubt")]
           /\ res' = Settled(c, w, "in_doubt")
           /\ \/ Settle(c, finalizedRecord(w, "in_doubt")) /\ UNCHANGED faults
              \/ Fault /\ Settle(c, NoCommand)
  BY <1>1, <1>2, <1>3, FinalizedSettleInv
<1>4. CASE Settle(c, ledger[c]) /\ UNCHANGED <<ledger, res, faults>>
  BY <1>1, <1>2, <1>4, SettleInv
<1>5. CASE Fault /\ Settle(c, NoCommand) /\ UNCHANGED <<ledger, res>>
  BY <1>1, <1>2, <1>5, SettleInv
<1> QED BY <1>3, <1>4, <1>5 DEF markInDoubt

-----------------------------------------------------------------------------
(* The theorems.                                                           *)

LEMMA StutterInv ==
    ASSUME CommandLedgerAssumption, Inv, UNCHANGED vars
    PROVE  Inv'
<1> USE DEF vars
<1>1. TypeOK' /\ Windowed' /\ Outlives' /\ NotYetRun' /\ AtMostOnce' /\ ReservationsAccounted' /\ Effects'
  BY DEF Inv, TypeOK, Windowed, Outlives, NotYetRun, AtMostOnce, ReservationsAccounted, Effects
<1> QED BY <1>1, StillFollows, InvAfter

LEMMA NextInv ==
    ASSUME CommandLedgerAssumption, Inv, [Next]_vars
    PROVE  Inv'
BY ExecuteInv, PreLedgerFailureInv, ReadClockInv, FinishQueryInv, CrashInv, IssueInv,
   TickInv, ReconcileInv, CompactCommitInv, RecoverInv, AdmitInv, ClaimInv, InvokeInv,
   FinalizeInv, MarkInDoubtInv, StutterInv DEF Next, RunnerStep

\* Every reachable state satisfies the invariant, and with it the types of all
\* tables of the command plane.
THEOREM TypeCorrect ==
    ASSUME CommandLedgerAssumption
    PROVE  Spec => []TypeOK
<1>1. Init => Inv
  BY InitInv
<1>2. Inv /\ [Next]_vars => Inv'
  BY NextInv
<1>3. Inv => TypeOK
  BY DEF Inv
<1> QED BY <1>1, <1>2, <1>3, PTL DEF Spec

\* The executor is invoked at most once for a command and all final answers
\* about it agree, for any number of calls, windows and commands, whatever
\* transactions fail, hosts restart, records expire and clocks step back; and
\* with a clock that does not, a client told to issue a command anew is told
\* the truth (execute, claimAccepted, finalizeRunning, compact, query).
THEOREM OneEffect ==
    ASSUME CommandLedgerAssumption
    PROVE  Spec => []OneEffectPerCommand
<1>1. Init => Inv
  BY InitInv
<1>2. Inv /\ [Next]_vars => Inv'
  BY NextInv
<1>3. Inv => OneEffectPerCommand
  BY InvOneEffect
<1> QED BY <1>1, <1>2, <1>3, PTL DEF Spec

\* Capacity reserved for a command is held by a record that will settle it:
\* nothing leaks over crashes, failed transactions and compaction
\* (settleCommandResource, hasPendingSettlement).
THEOREM NothingLeaks ==
    ASSUME CommandLedgerAssumption
    PROVE  Spec => []ReservationsAccounted
<1>1. Init => Inv
  BY InitInv
<1>2. Inv /\ [Next]_vars => Inv'
  BY NextInv
<1>3. Inv => ReservationsAccounted
  BY DEF Inv
<1> QED BY <1>1, <1>2, <1>3, PTL DEF Spec

=============================================================================
