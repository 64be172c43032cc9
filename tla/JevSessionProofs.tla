--------------------------- MODULE JevSessionProofs ---------------------------
(***************************************************************************)
(* Proofs about JevSession, for any set of screens and actions and any     *)
(* limits.                                                                 *)
(*                                                                         *)
(* What the session knows (repeated, history) is compared with what has    *)
(* happened on the phone (still, sent) at each place where it may stand.   *)
(*                                                                         *)
(* The other agents' half (DeviceActions, MacroReplay) follows: what the   *)
(* recorder and the player take for the screen they act on, and where an   *)
(* element is tapped.                                                      *)
(***************************************************************************)
EXTENDS JevSession, MacroReplay, FiniteSetTheorems, SequenceTheorems,
        WellFoundedInduction, TLAPS

\* The counters stay in their ranges because of where they are looked at.
Counters ==
  /\ pc \notin {"ask", "advise", "over"} => asked = 0
  /\ pc = "ask" => asked < JEV_ATTEMPTS
  /\ pc # "over" => consecutive_stale < StaleLimit
  /\ pc \in {"guards", "sleep", "check", "send", "after"} => action \in Actions
  /\ pc = "sleep" => action = Wait
  /\ pc \in {"check", "send"} => action # Wait
  /\ pc \in {"wake", "woken", "swipe", "swiped"} => observation \in LockedScreens
  /\ pc # "over" => woken = CASE pc \in {"woken", "swipe"} -> 1
                              [] pc = "swiped" -> 2
                              [] OTHER -> 0

TInv == TypeOK /\ Counters

\* Inputs sent since the phone's screen last changed are known as repeated,
\* but for those that were decided on another screen.
SentIsKnown ==
  /\ pc \notin {"after", "over"} =>
       \A sig \in still : /\ observation = phone
                          /\ sig[1] = observation => sig \in repeated
  /\ pc = "after" =>
       \A sig \in still : sig[1] = phone => phone = observation /\ sig \in repeated
  /\ pc \in {"check", "send"} => Signature \notin repeated

VInv == SentIsKnown /\ NeverInVain

\* Executions and waits, as functions of the history alone.
CountIn(h, screen, act) ==
  Cardinality({k \in DOMAIN h : h[k].on = screen /\ h[k].action = act})

WaitsIn(h) == Cardinality({k \in DOMAIN h : h[k].action = Wait})

\* An action that is about to be carried out has not used up its number.
RoomLeft ==
  /\ pc \in {"guards", "check", "send"} /\ action \in Taps =>
       CountIn(history, observation, action) < MAX_TAPS_PER_SCREEN
  /\ pc \in {"check", "send"} /\ action \in Moves =>
       CountIn(history, observation, action) < MAX_REPEATS_PER_SCREEN

NumbersKept ==
  \A screen \in Screens :
    /\ \A t \in Taps : CountIn(history, screen, t) <= MAX_TAPS_PER_SCREEN
    /\ \A m \in Moves : CountIn(history, screen, m) <= MAX_REPEATS_PER_SCREEN

EInv == RoomLeft /\ NumbersKept

\* While the session goes on all its work succeeded and was reported.
Books ==
  /\ pc # "over" => /\ outcome = NoOutcome
                    /\ sent + WaitsIn(history) = reported.success
                    /\ reported.failure = 0
                    /\ Len(history) = reported.success
  /\ pc \in {"connect", "close"} => history = <<>>
  /\ pc \in {"sleep", "check", "send"} => Len(history) < MaxSteps
  /\ Len(history) <= MaxSteps

WInv == Books /\ WorkIsReported

-----------------------------------------------------------------------------
LEMMA Limits ==
  /\ MaxSteps \in Nat \ {0} /\ StaleLimit \in Nat \ {0} /\ JEV_ATTEMPTS \in Nat \ {0}
  /\ MAX_TAPS_PER_SCREEN \in Nat \ {0} /\ MAX_REPEATS_PER_SCREEN \in Nat \ {0}
  BY JevAssumption

LEMMA TInvInit == Init => TInv
<1> SUFFICES ASSUME Init PROVE TInv
  OBVIOUS
<1> USE JevAssumption DEF Init
<1>1. Counters
  BY Limits DEF Counters
<1>2. history \in Seq([on : Screens, action : Actions])
  OBVIOUS
<1>3. outcome \in [kind : Endings \cup {"left", "cancelled", None}, steps : Nat]
  BY DEF NoOutcome
<1>4. /\ {phone, observation} \subseteq Screens /\ attempt \in 0..MaxSteps * 2 + 4
      /\ asked \in 0..JEV_ATTEMPTS /\ consecutive_stale \in 0..StaleLimit
      /\ pc \in {"connect", "close", "top", "wake", "woken", "swipe", "swiped", "ask", "advise",
                "guards", "sleep", "check", "send", "after", "over"}
  BY Limits
<1>5. /\ action \in Actions \cup {None}
      /\ repeated \subseteq Screens \X Actions /\ still \subseteq Screens \X Actions
      /\ {waiting, vain} \subseteq BOOLEAN
      /\ reported \in [success : Nat, failure : Nat] /\ sent \in Nat
  OBVIOUS
<1>6. woken \in 0..2
  OBVIOUS
<1> QED
  BY <1>1, <1>2, <1>3, <1>4, <1>5, <1>6 DEF TInv, TypeOK

Kinds == Endings \cup {"left", "cancelled", None}
Steps == [on : Screens, action : Actions]
Reports == [success : Nat, failure : Nat]
Results == [kind : Kinds, steps : Nat]
Places == {"connect", "close", "top", "wake", "woken", "swipe", "swiped", "ask", "advise",
           "guards", "sleep", "check", "send", "after", "over"}

\* The type invariant in the parts that depend on each other.
RecordTypes ==
  history \in Seq(Steps) /\ reported \in Reports /\ sent \in Nat /\ outcome \in Results
PairTypes ==
  /\ phone \in Screens /\ observation \in Screens
  /\ repeated \subseteq Screens \X Actions /\ still \subseteq Screens \X Actions
LoopTypes ==
  /\ pc \in Places /\ attempt \in 0..MaxSteps * 2 + 4 /\ asked \in 0..JEV_ATTEMPTS
  /\ action \in Actions \cup {None} /\ consecutive_stale \in 0..StaleLimit
  /\ waiting \in BOOLEAN /\ vain \in BOOLEAN /\ woken \in 0..2

LEMMA TypeParts ==
  /\ TypeOK <=> RecordTypes /\ PairTypes /\ LoopTypes
  /\ TypeOK' <=> RecordTypes' /\ PairTypes' /\ LoopTypes'
<1>1. TypeOK <=> RecordTypes /\ PairTypes /\ LoopTypes
  BY DEF TypeOK, RecordTypes, PairTypes, LoopTypes, Kinds, Steps, Reports, Results, Places
<1>2. TypeOK' <=> RecordTypes' /\ PairTypes' /\ LoopTypes'
  BY DEF TypeOK, RecordTypes, PairTypes, LoopTypes, Kinds, Steps, Reports, Results, Places
<1> QED BY <1>1, <1>2

LEMMA Taken ==
  ASSUME [Next]_vars
  PROVE  \/ Connect \/ CloseApp \/ DecisionLimit \/ NextDecision
         \/ FindsLocked \/ Wakes \/ WakeBreaks \/ SettleWake
         \/ JevAnswers \/ JevFails \/ Advise \/ Guards \/ Sleep
         \/ CheckPasses \/ CheckFails \/ Succeeds \/ Fails \/ Observe
         \/ PhoneChanges \/ Leaves \/ LeavesActing \/ UNCHANGED vars
BY DEF Next, SessionNext, Over

\* An ending is one of the results, with a number of steps.
LEMMA ResultFits ==
  ASSUME RecordTypes
  PROVE  /\ Len(history) \in Nat /\ 0 \in Nat /\ 1 \in Nat
         /\ \A kind \in Kinds, n \in Nat : Result(kind, n) => outcome' \in Results
<1>1. Len(history) \in Nat
  BY LenProperties DEF RecordTypes
<1>2. ASSUME NEW kind \in Kinds, NEW n \in Nat, Result(kind, n)
      PROVE  outcome' \in Results
  BY <1>2 DEF Result, Results
<1> QED BY <1>1, <1>2

LEMMA OutcomeKept ==
  ASSUME RecordTypes, [Next]_vars
  PROVE  outcome' \in Results
<1>1. outcome' = outcome => outcome' \in Results
  BY DEF RecordTypes
<1>2. {"done", "blocked", "needs_input", "step_limit", "stuck", "cycle", "loading_timeout",
       "unstable_screen", "input_unverified", "decision_limit", "locked", "failed", "closed",
       "left", "cancelled"} \subseteq Kinds
  BY DEF Kinds, Endings
<1>3. CASE UNCHANGED vars \/ Connect \/ NextDecision \/ Sleep \/ CheckPasses \/ Succeeds
           \/ PhoneChanges \/ FindsLocked \/ Wakes
  BY <1>1, <1>3 DEF vars, Connect, NextDecision, Sleep, CheckPasses, Succeeds, PhoneChanges,
     FindsLocked, Wakes
<1>4. CASE CloseApp \/ DecisionLimit \/ WakeBreaks \/ SettleWake \/ Leaves \/ LeavesActing
  BY <1>1, <1>2, <1>4, ResultFits
  DEF CloseApp, DecisionLimit, WakeBreaks, SettleWake, Leaves, LeavesActing
<1>5. CASE JevAnswers \/ JevFails \/ Advise
  <2>1. ASSUME NEW statuses \in SUBSET Statuses, Decides(statuses)
        PROVE  outcome' \in Results
    BY <1>1, <1>2, <2>1, ResultFits DEF Decides, Statuses
  <2>2. CASE JevAnswers
    BY <1>1, <2>1, <2>2 DEF JevAnswers, Statuses
  <2>3. CASE JevFails
    BY <1>1, <1>2, <2>3, ResultFits DEF JevFails
  <2>4. CASE Advise
    BY <1>2, <2>1, <2>4, ResultFits DEF Advise
  <2> QED BY <1>5, <2>2, <2>3, <2>4
<1>6. CASE Guards
  BY <1>1, <1>2, <1>6, ResultFits DEF Guards
<1>7. CASE CheckFails \/ Fails \/ Observe
  BY <1>1, <1>2, <1>7, ResultFits DEF CheckFails, Fails, Observe
<1> QED BY <1>3, <1>4, <1>5, <1>6, <1>7, Taken

LEMMA RecordsKept ==
  ASSUME RecordTypes, PairTypes, LoopTypes, Counters, [Next]_vars
  PROVE  RecordTypes'
<1>1. outcome' \in Results
  BY OutcomeKept
<1>2. pc \in {"sleep", "send"} =>
        Append(history, [on |-> observation, action |-> action]) \in Seq(Steps)
  <2> DEFINE e == [on |-> observation, action |-> action]
  <2>1. pc \in {"sleep", "send"} => e \in Steps
    BY DEF PairTypes, Counters, Steps
  <2> HIDE DEF e
  <2>2. e \in Steps => Append(history, e) \in Seq(Steps)
    BY AppendProperties DEF RecordTypes
  <2> QED BY <2>1, <2>2 DEF e
<1>3. /\ [reported EXCEPT !.success = @ + 1] \in Reports
      /\ [reported EXCEPT !.failure = @ + 1] \in Reports
  BY DEF RecordTypes, Reports
<1>4. history' = history \/ (Sleep \/ Succeeds)
  BY Taken DEF vars, workVars, Connect, CloseApp, DecisionLimit, NextDecision, FindsLocked, Wakes,
     WakeBreaks, SettleWake, JevAnswers, JevFails, Advise, Guards, CheckPasses, CheckFails, Fails,
     Observe, PhoneChanges, Leaves, LeavesActing
<1>5. history' \in Seq(Steps)
  <2>1. CASE history' = history
    BY <2>1 DEF RecordTypes
  <2>2. CASE Sleep \/ Succeeds
    BY <1>2, <2>2 DEF Sleep, Succeeds
  <2> QED BY <1>4, <2>1, <2>2
<1>6. reported' = reported \/ CloseApp \/ Sleep \/ Succeeds \/ Fails
  BY Taken DEF vars, workVars, Connect, DecisionLimit, NextDecision, FindsLocked, Wakes,
     WakeBreaks, SettleWake, JevAnswers, JevFails, Advise, Guards, CheckPasses, CheckFails, Observe,
     PhoneChanges, Leaves, LeavesActing
<1>7. reported' \in Reports
  <2>1. CASE reported' = reported
    BY <2>1 DEF RecordTypes
  <2>2. CASE CloseApp \/ Sleep \/ Succeeds \/ Fails
    BY <1>3, <2>2 DEF CloseApp, Sleep, Succeeds, Fails
  <2> QED BY <1>6, <2>1, <2>2
<1>8. sent' = sent \/ sent' = sent + 1
  BY Taken DEF vars, workVars, Connect, CloseApp, DecisionLimit, NextDecision, FindsLocked, Wakes,
     WakeBreaks, SettleWake, JevAnswers, JevFails, Advise, Guards, Sleep, CheckPasses, CheckFails, Succeeds, Fails, Sends,
     Observe, PhoneChanges, Leaves, LeavesActing
<1>9. sent' \in Nat
  BY <1>8 DEF RecordTypes
<1> QED BY <1>1, <1>5, <1>7, <1>9 DEF RecordTypes

LEMMA PairsKept ==
  ASSUME PairTypes, LoopTypes, Counters, [Next]_vars
  PROVE  PairTypes'
<1> DEFINE P == Screens \X Actions
<1>1. pc \in {"sleep", "send"} => Signature \in P
  BY DEF PairTypes, Counters, Signature
<1>2. phone \in Screens /\ observation \in Screens /\ repeated \subseteq P /\ still \subseteq P
  BY DEF PairTypes
<1> HIDE DEF P
<1>3. \A screen \in Screens, S \in SUBSET P :
        ShowsNow(screen, S) => phone' \in Screens /\ still' \subseteq P
  BY <1>2 DEF ShowsNow
<1>4. Sends /\ pc = "send" => phone' \in Screens /\ still' \subseteq P
  BY <1>1, <1>3 DEF Sends
<1>5. phone' \in Screens /\ still' \subseteq P
  <2>1. CASE UNCHANGED <<phone, still>>
    BY <1>2, <2>1
  <2>2. CASE CloseApp \/ Wakes \/ WakeBreaks \/ LeavesActing \/ PhoneChanges
    BY <1>3, <2>2 DEF CloseApp, Wakes, WakeBreaks, GivesWaking, LeavesActing, PhoneChanges
  <2>3. CASE Succeeds \/ Fails
    BY <1>2, <1>4, <2>3 DEF Succeeds, Fails
  <2> QED
    BY <2>1, <2>2, <2>3, Taken DEF vars, workVars, Connect, DecisionLimit, NextDecision,
       FindsLocked, SettleWake, JevAnswers, JevFails, Advise, Guards, Sleep, CheckPasses,
       CheckFails, Observe, Leaves
<1>6. repeated' \subseteq P
  <2>1. CASE repeated' = repeated \/ repeated' = {}
    BY <1>2, <2>1
  <2>2. CASE Sleep \/ Succeeds
    BY <1>1, <1>2, <2>2 DEF Sleep, Succeeds
  <2> QED
    BY <2>1, <2>2, Taken DEF vars, workVars, Connect, CloseApp, DecisionLimit, NextDecision,
       FindsLocked, Wakes, WakeBreaks, SettleWake, JevAnswers, JevFails, Advise, Guards,
       CheckPasses, CheckFails, Fails, Observe, PhoneChanges, Leaves, LeavesActing
<1>7. observation' = observation \/ observation' = phone
  BY Taken DEF vars, Connect, CloseApp, DecisionLimit, NextDecision, FindsLocked, Wakes,
     WakeBreaks, SettleWake, JevAnswers, JevFails, Advise, Guards, Sleep, CheckPasses, CheckFails,
     Succeeds, Fails, Observe, PhoneChanges, Leaves, LeavesActing
<1>8. observation' \in Screens
  BY <1>2, <1>7
<1> QED BY <1>5, <1>6, <1>8 DEF PairTypes, P

LEMMA LoopKept ==
  ASSUME LoopTypes, Counters, [Next]_vars
  PROVE  LoopTypes' /\ Counters'
<1>1. /\ MaxSteps \in Nat /\ StaleLimit \in Nat \ {0} /\ JEV_ATTEMPTS \in Nat \ {0}
      /\ Offered \subseteq Actions /\ Wait \in Actions /\ None \notin Actions
  BY JevAssumption DEF Offered, Actions
<1>a. PICK N \in Nat : N = MaxSteps * 2 + 4
  BY <1>1
<1> USE DEF LoopTypes, Counters, Places
<1>2. CASE Connect \/ NextDecision \/ CheckPasses
  BY <1>1, <1>a, <1>2 DEF Connect, NextDecision, CheckPasses, loopVars, workVars
<1>3. CASE CloseApp \/ DecisionLimit
  BY <1>1, <1>a, <1>3 DEF CloseApp, DecisionLimit, Result, loopVars, workVars
<1>4. CASE FindsLocked \/ Wakes \/ WakeBreaks
  BY <1>1, <1>a, <1>4 DEF FindsLocked, Wakes, WakeBreaks, GivesWaking, Result, loopVars, workVars
<1>16. CASE SettleWake
  BY <1>1, <1>a, <1>16 DEF SettleWake, Result, loopVars
<1>5. CASE JevAnswers
  BY <1>1, <1>a, <1>5 DEF JevAnswers, Decides, Result, workVars
<1>6. CASE JevFails
  BY <1>1, <1>a, <1>6 DEF JevFails, Result, workVars
<1>7. CASE Advise
  BY <1>1, <1>a, <1>7 DEF Advise, Decides, Result, workVars
<1>8. CASE Guards
  BY <1>1, <1>a, <1>8 DEF Guards, Result, workVars
<1>9. CASE Sleep
  BY <1>1, <1>a, <1>9 DEF Sleep
<1>10. CASE CheckFails
  BY <1>1, <1>a, <1>10 DEF CheckFails, Result, workVars
<1>11. CASE Succeeds
  BY <1>1, <1>a, <1>11 DEF Succeeds, Sends
<1>12. CASE Fails
  BY <1>1, <1>a, <1>12 DEF Fails, Sends, Result, loopVars
<1>13. CASE Observe
  BY <1>1, <1>a, <1>13 DEF Observe, Result
<1>14. CASE PhoneChanges \/ UNCHANGED vars
  BY <1>1, <1>a, <1>14 DEF PhoneChanges, loopVars, workVars, vars
<1>15. CASE Leaves \/ LeavesActing
  BY <1>1, <1>a, <1>15 DEF Leaves, LeavesActing, Result, loopVars, workVars
<1> QED
  BY <1>2, <1>3, <1>4, <1>5, <1>6, <1>7, <1>8, <1>9, <1>10, <1>11, <1>12, <1>13, <1>14, <1>15, <1>16,
     Taken

LEMMA TInvIsInductive == TInv /\ [Next]_vars => TInv'
BY TypeParts, RecordsKept, PairsKept, LoopKept DEF TInv

LEMMA VInvInit == Init => VInv
  BY DEF Init, VInv, SentIsKnown, NeverInVain

LEMMA VInvIsInductive == TInv /\ VInv /\ [Next]_vars => VInv'
<1> SUFFICES ASSUME TInv /\ VInv, [Next]_vars PROVE VInv'
  OBVIOUS
<1> USE DEF TInv, Counters, VInv, SentIsKnown, NeverInVain, loopVars, workVars,
        Signature
<1>1. CASE Connect
  BY <1>1 DEF Connect
<1>2. CASE CloseApp
  BY <1>2 DEF CloseApp, Result, ShowsNow
<1>3. CASE DecisionLimit
  BY <1>3 DEF DecisionLimit, Result
<1>4. CASE FindsLocked \/ Wakes \/ WakeBreaks
  BY <1>4 DEF FindsLocked, Wakes, WakeBreaks, GivesWaking, Result, ShowsNow
<1>20. CASE SettleWake
  BY <1>20 DEF SettleWake, Result
<1>5. CASE NextDecision
  BY <1>5 DEF NextDecision
<1>6. CASE JevAnswers
  BY <1>6 DEF JevAnswers, Decides, Result, Offered, Statuses
<1>7. CASE JevFails
  BY <1>7 DEF JevFails, Result
<1>8. CASE Advise
  BY <1>8 DEF Advise, Decides, Result, Offered, Statuses
<1>9. CASE Guards
  BY <1>9 DEF Guards, Result, Stuck
<1>10. CASE Sleep
  BY <1>10 DEF Sleep, Signature
<1>11. CASE CheckPasses
  BY <1>11 DEF CheckPasses
<1>12. CASE CheckFails
  BY <1>12 DEF CheckFails, Result
<1>13. CASE Succeeds
  <2>1. pc = "send" /\ pc' = "after" /\ observation' = observation /\ action' = action
    BY <1>13 DEF Succeeds
  <2>2. vain' = (vain \/ Signature \in still) /\ repeated' = repeated \cup {Signature}
    BY <1>13 DEF Succeeds, Sends
  <2>3. still' = {} \/ (phone' = phone /\ still' = still \cup {Signature})
    BY <1>13 DEF Succeeds, Sends, ShowsNow
  <2>4. Signature \notin still
    BY <2>1
  <2>5. ASSUME NEW sig \in still', sig[1] = phone'
        PROVE  phone' = observation' /\ sig \in repeated'
    BY <2>1, <2>2, <2>3, <2>5
  <2> QED
    BY <2>1, <2>2, <2>4, <2>5
<1>14. CASE Fails
  <2>1. pc = "send" /\ pc' = "over" /\ (Sends \/ vain' = vain)
    BY <1>14 DEF Fails, Result
  <2>2. Signature \notin still
    BY <2>1
  <2>3. ~vain'
    <3>1. CASE Sends
      BY <2>2, <3>1 DEF Sends
    <3> QED
      BY <2>1, <3>1
  <2> QED
    BY <2>1, <2>3
<1>15. CASE Observe
  BY <1>15 DEF Observe, Result
<1>16. CASE PhoneChanges
  BY <1>16 DEF PhoneChanges, ShowsNow
<1>17. CASE Leaves
  BY <1>17 DEF Leaves, Result
<1>18. CASE LeavesActing
  BY <1>18 DEF LeavesActing, Result, ShowsNow
<1>19. CASE UNCHANGED vars
  BY <1>19 DEF vars
<1> QED
  BY <1>1, <1>2, <1>3, <1>4, <1>5, <1>6, <1>7, <1>8, <1>9, <1>10,
     <1>11, <1>12, <1>13, <1>14, <1>15, <1>16, <1>17, <1>18, <1>19, <1>20
  DEF Next, SessionNext, Over

\* Every counter, of attempts, requests and stale decisions, stays in its
\* range wherever the session stands, and the history holds only decisions.
THEOREM TypeCorrect == Spec => []TypeOK
<1>1. TInv => TypeOK
  BY DEF TInv
<1> QED
  BY <1>1, TInvInit, TInvIsInductive, PTL DEF Spec

\* Nothing is sent in vain, whatever the phone does at any moment.
THEOREM NeverInVainHolds == Spec => []NeverInVain
<1>1. VInv => NeverInVain
  BY DEF VInv
<1> QED
  BY <1>1, TInvInit, TInvIsInductive, VInvInit, VInvIsInductive, PTL DEF Spec

-----------------------------------------------------------------------------
(* Counting in the history.                                                *)

LEMMA CountAfterAppend ==
  ASSUME NEW h \in Seq(Steps), NEW e \in Steps, NEW screen, NEW act
  PROVE  /\ CountIn(h, screen, act) \in Nat
         /\ CountIn(Append(h, e), screen, act) =
              IF e.on = screen /\ e.action = act THEN CountIn(h, screen, act) + 1
              ELSE CountIn(h, screen, act)
<1> DEFINE D == {k \in DOMAIN h : h[k].on = screen /\ h[k].action = act}
           g == Append(h, e)
           E == {k \in DOMAIN g : g[k].on = screen /\ g[k].action = act}
<1>1. Len(h) \in Nat /\ DOMAIN h = 1..Len(h) /\ DOMAIN g = 1..Len(h) + 1
  OBVIOUS
<1>2. (\A k \in 1..Len(h) : g[k] = h[k]) /\ g[Len(h) + 1] = e
  OBVIOUS
<1> HIDE DEF g
<1>3. IsFiniteSet(D) /\ Cardinality(D) \in Nat
  <2>1. D \in SUBSET (1..Len(h))
    BY <1>1
  <2>2. IsFiniteSet(1..Len(h))
    BY <1>1, FS_Interval
  <2> QED
    BY <2>1, <2>2, FS_Subset, FS_CardinalityType
<1>4. E = IF e.on = screen /\ e.action = act THEN D \cup {Len(h) + 1} ELSE D
  BY <1>1, <1>2
<1>5. Len(h) + 1 \notin D
  BY <1>1
<1>6. Cardinality(D \cup {Len(h) + 1}) = Cardinality(D) + 1
  <2> HIDE DEF D
  <2> QED
    BY <1>3, <1>5, FS_AddElement
<1>7. CountIn(h, screen, act) = Cardinality(D) /\ CountIn(g, screen, act) = Cardinality(E)
  BY DEF CountIn
<1> QED
  BY <1>3, <1>4, <1>6, <1>7 DEF g

LEMMA WaitsAfterAppend ==
  ASSUME NEW h \in Seq(Steps), NEW e \in Steps
  PROVE  /\ WaitsIn(h) \in Nat
         /\ WaitsIn(Append(h, e)) = IF e.action = Wait THEN WaitsIn(h) + 1 ELSE WaitsIn(h)
<1> DEFINE D == {k \in DOMAIN h : h[k].action = Wait}
           g == Append(h, e)
           E == {k \in DOMAIN g : g[k].action = Wait}
<1>1. Len(h) \in Nat /\ DOMAIN h = 1..Len(h) /\ DOMAIN g = 1..Len(h) + 1
  OBVIOUS
<1>2. (\A k \in 1..Len(h) : g[k] = h[k]) /\ g[Len(h) + 1] = e
  OBVIOUS
<1> HIDE DEF g
<1>3. IsFiniteSet(D) /\ Cardinality(D) \in Nat
  <2>1. D \in SUBSET (1..Len(h))
    BY <1>1
  <2>2. IsFiniteSet(1..Len(h))
    BY <1>1, FS_Interval
  <2> QED
    BY <2>1, <2>2, FS_Subset, FS_CardinalityType
<1>4. E = IF e.action = Wait THEN D \cup {Len(h) + 1} ELSE D
  BY <1>1, <1>2
<1>5. Len(h) + 1 \notin D
  BY <1>1
<1>6. Cardinality(D \cup {Len(h) + 1}) = Cardinality(D) + 1
  <2> HIDE DEF D
  <2> QED
    BY <1>3, <1>5, FS_AddElement
<1>7. WaitsIn(h) = Cardinality(D) /\ WaitsIn(g) = Cardinality(E)
  BY DEF WaitsIn
<1> QED
  BY <1>3, <1>4, <1>6, <1>7 DEF g

LEMMA EmptyHistory ==
  /\ WaitsIn(<<>>) = 0
  /\ \A screen, act : CountIn(<<>>, screen, act) = 0
<1>1. DOMAIN <<>> = {}
  OBVIOUS
<1>2. ASSUME NEW screen, NEW act PROVE CountIn(<<>>, screen, act) = 0
  <2>1. {k \in DOMAIN <<>> : <<>>[k].on = screen /\ <<>>[k].action = act} = {}
    BY <1>1
  <2> QED
    BY <2>1, FS_EmptySet DEF CountIn
<1>3. {k \in DOMAIN <<>> : <<>>[k].action = Wait} = {}
  BY <1>1
<1> QED
  BY <1>2, <1>3, FS_EmptySet DEF WaitsIn


LEMMA EInvInit == Init => EInv
  BY Limits, EmptyHistory DEF Init, EInv, RoomLeft, NumbersKept

\* What does not add to the history keeps the numbers.
LEMMA SameHistoryKeepsEInv ==
  ASSUME EInv, history' = history, RoomLeft'
  PROVE  EInv'
  BY DEF EInv, NumbersKept

LEMMA OfferedHasRoom ==
  ASSUME NEW t \in Taps, t \in Offered, TInv
  PROVE  CountIn(history, observation, t) < MAX_TAPS_PER_SCREEN
  BY JevAssumption DEF Offered, Actions, CountIn, Executions

LEMMA DecidedHasRoom ==
  ASSUME TInv, NEW kinds, Decides(kinds), observation' = observation, history' = history
  PROVE  RoomLeft'
<1>1. pc' = "over" \/ (pc' = "guards" /\ action' \in Offered)
  BY DEF Decides, Result
<1> QED
  BY <1>1, OfferedHasRoom DEF RoomLeft

LEMMA ExecutedKeepsNumbers ==
  ASSUME TInv, EInv, action \in Actions,
         pc \in {"sleep", "send"},
         history' = Append(history, [on |-> observation, action |-> action])
  PROVE  NumbersKept'
<1> DEFINE e == [on |-> observation, action |-> action]
<1>1. history \in Seq(Steps) /\ e \in Steps
  BY DEF TInv, TypeOK, Steps
<1>2. e.on = observation /\ e.action = action
  OBVIOUS
<1>3. pc = "sleep" => action \notin Taps \cup Moves
  BY JevAssumption DEF TInv, Counters
<1> HIDE DEF e
<1>4. history' = Append(history, e)
  BY DEF e
<1>5. ASSUME NEW screen \in Screens, NEW t \in Taps
      PROVE  CountIn(history', screen, t) <= MAX_TAPS_PER_SCREEN
  <2>1. CountIn(history, screen, t) \in Nat
    BY <1>1, CountAfterAppend
  <2>2. CountIn(history, screen, t) <= MAX_TAPS_PER_SCREEN
    BY DEF EInv, NumbersKept
  <2>3. CASE observation = screen /\ action = t
    <3>1. CountIn(history, screen, t) < MAX_TAPS_PER_SCREEN
      BY <1>3, <2>3 DEF EInv, RoomLeft
    <3>2. CountIn(history', screen, t) = CountIn(history, screen, t) + 1
      BY <1>1, <1>2, <1>4, <2>3, CountAfterAppend
    <3> QED
      BY <2>1, <3>1, <3>2, Limits
  <2>4. CASE ~(observation = screen /\ action = t)
    BY <1>1, <1>2, <1>4, <2>2, <2>4, CountAfterAppend
  <2> QED
    BY <2>3, <2>4
<1>6. ASSUME NEW screen \in Screens, NEW m \in Moves
      PROVE  CountIn(history', screen, m) <= MAX_REPEATS_PER_SCREEN
  <2>1. CountIn(history, screen, m) \in Nat
    BY <1>1, CountAfterAppend
  <2>2. CountIn(history, screen, m) <= MAX_REPEATS_PER_SCREEN
    BY DEF EInv, NumbersKept
  <2>3. CASE observation = screen /\ action = m
    <3>1. CountIn(history, screen, m) < MAX_REPEATS_PER_SCREEN
      BY <1>3, <2>3 DEF EInv, RoomLeft
    <3>2. CountIn(history', screen, m) = CountIn(history, screen, m) + 1
      BY <1>1, <1>2, <1>4, <2>3, CountAfterAppend
    <3> QED
      BY <2>1, <3>1, <3>2, Limits
  <2>4. CASE ~(observation = screen /\ action = m)
    BY <1>1, <1>2, <1>4, <2>2, <2>4, CountAfterAppend
  <2> QED
    BY <2>3, <2>4
<1> QED
  BY <1>5, <1>6 DEF NumbersKept

LEMMA EInvIsInductive == TInv /\ EInv /\ [Next]_vars => EInv'
<1> SUFFICES ASSUME TInv, EInv, [Next]_vars PROVE EInv'
  OBVIOUS
<1> USE DEF loopVars, workVars
<1>1. CASE Sleep \/ Succeeds
  <2>1. /\ pc \in {"sleep", "send"} /\ pc' = "after"
        /\ history' = Append(history, [on |-> observation, action |-> action])
    BY <1>1 DEF Sleep, Succeeds
  <2>2. action \in Actions
    BY <2>1 DEF TInv, Counters
  <2>3. NumbersKept'
    BY <2>1, <2>2, ExecutedKeepsNumbers
  <2> QED
    BY <2>1, <2>3 DEF EInv, RoomLeft
<1>2. CASE JevAnswers \/ Advise
  <2>1. observation' = observation /\ history' = history
    BY <1>2 DEF JevAnswers, Advise
  <2>2. RoomLeft'
    <3>1. CASE pc' \in {"advise", "over"}
      BY <3>1 DEF RoomLeft
    <3>2. CASE \E kinds : Decides(kinds)
      BY <2>1, <3>2, DecidedHasRoom
    <3>3. pc' \in {"advise", "over"} \/ \E kinds : Decides(kinds)
      BY <1>2 DEF JevAnswers, Advise, Result
    <3> QED
      BY <3>1, <3>2, <3>3
  <2> QED
    BY <2>1, <2>2, SameHistoryKeepsEInv
<1>3. CASE Guards
  <2>1. UNCHANGED <<observation, action, history>> /\ pc = "guards"
    BY <1>3 DEF Guards
  <2>2. pc' \in {"over", "sleep", "check"}
    BY <1>3 DEF Guards, Result
  <2>3. ASSUME pc' = "check", action \in Moves
        PROVE  CountIn(history, observation, action) < MAX_REPEATS_PER_SCREEN
    <3>1. ~Cycle
      BY <1>3, <2>3 DEF Guards, Result
    <3>2. ~(CountIn(history, observation, action) >= MAX_REPEATS_PER_SCREEN)
      BY <2>3, <3>1 DEF Cycle, Executions, CountIn
    <3>3. history \in Seq(Steps) /\ [on |-> observation, action |-> action] \in Steps
      BY <2>1 DEF TInv, TypeOK, Counters, Steps
    <3>4. CountIn(history, observation, action) \in Nat
      BY <3>3, CountAfterAppend
    <3> QED
      BY <3>2, <3>4, Limits
  <2>4. RoomLeft'
    BY <2>1, <2>2, <2>3 DEF EInv, RoomLeft
  <2> QED
    BY <2>1, <2>4, SameHistoryKeepsEInv
<1>4. CASE CheckPasses \/ PhoneChanges \/ UNCHANGED vars
  <2>1. /\ UNCHANGED <<observation, action, history>>
        /\ pc' = pc \/ (pc = "check" /\ pc' = "send")
    BY <1>4 DEF CheckPasses, PhoneChanges, ShowsNow, vars
  <2>2. RoomLeft'
    BY <2>1 DEF EInv, RoomLeft
  <2> QED
    BY <2>1, <2>2, SameHistoryKeepsEInv
<1>5. CASE \/ Connect \/ CloseApp \/ DecisionLimit \/ NextDecision \/ JevFails
           \/ FindsLocked \/ Wakes \/ WakeBreaks \/ SettleWake
           \/ CheckFails \/ Fails \/ Observe \/ Leaves \/ LeavesActing
  <2>1. history' = history
    BY <1>5 DEF Connect, CloseApp, DecisionLimit, NextDecision, JevFails, FindsLocked,
       Wakes, WakeBreaks, SettleWake, CheckFails, Fails, Observe, Leaves, LeavesActing
  <2>2. pc' \notin {"guards", "check", "send"}
    BY <1>5 DEF Connect, CloseApp, DecisionLimit, NextDecision, JevFails, FindsLocked,
       Wakes, WakeBreaks, SettleWake, CheckFails, Fails, Observe, Leaves, LeavesActing, Result
  <2>3. RoomLeft'
    BY <2>2 DEF RoomLeft
  <2> QED
    BY <2>1, <2>3, SameHistoryKeepsEInv
<1> QED
  BY <1>1, <1>2, <1>3, <1>4, <1>5 DEF Next, SessionNext, Over

\* However the models decide, no element is tapped and no other action taken
\* on one screen more often than the limits say.
THEOREM LoopsAreBrokenHolds == Spec => []LoopsAreBroken
<1>1. EInv => LoopsAreBroken
  BY DEF EInv, NumbersKept, LoopsAreBroken, CountIn, Executions
<1> QED
  BY <1>1, TInvInit, TInvIsInductive, EInvInit, EInvIsInductive, PTL DEF Spec


-----------------------------------------------------------------------------
(* The account of the work.                                                *)

LEMMA WInvInit == Init => WInv
  BY Limits, EmptyHistory, JevAssumption
  DEF Init, WInv, Books, WorkIsReported, WaitsIn, NoOutcome, Endings

\* While the session goes on its books are its report.
LEMMA BooksReport == TInv /\ Books /\ pc # "over" => WorkIsReported
<1> SUFFICES ASSUME TInv, Books, pc # "over" PROVE WorkIsReported
  OBVIOUS
<1>1. outcome.kind = None
  BY DEF Books, NoOutcome
<1>2. outcome.kind \notin Endings \cup {"cancelled", "done"}
  BY <1>1, JevAssumption DEF Endings
<1>5. woken > 0 => pc \in {"woken", "swipe", "swiped"}
  BY DEF TInv, Counters
<1>3. sent + WaitsIn(history) = reported.success /\ reported.failure = 0
  BY DEF Books
<1>4. reported.success \in Nat /\ reported.success <= MaxSteps
  BY DEF Books, TInv, TypeOK
<1> QED
  BY <1>2, <1>3, <1>4, <1>5 DEF WorkIsReported, WaitsIn

\* What a step does to the account when it neither sends nor waits.
LEMMA QuietKeepsBooks ==
  ASSUME WInv, pc # "over", TInv', UNCHANGED <<sent, history, reported, outcome>>,
         pc' \notin {"over", "connect"}, pc' = "close" => pc = "connect",
         pc' \in {"sleep", "check", "send"} =>
           pc \in {"check", "send"} \/ Len(history) < MaxSteps
  PROVE  WInv'
<1>1. Books'
  BY DEF WInv, Books
<1>2. WorkIsReported'
  <2>1. (TInv /\ Books /\ pc # "over")'
    BY <1>1
  <2> QED
    BY <2>1, BooksReport, PTL
<1> QED
  BY <1>1, <1>2 DEF WInv

LEMMA EndKeepsBooks ==
  ASSUME TInv, WInv, pc # "over", UNCHANGED <<sent, history, reported>>, pc' = "over",
         outcome'.kind # "cancelled",
         outcome'.kind \in Endings => outcome'.steps = Len(history),
         outcome'.kind # "left" => woken' = 0
  PROVE  WInv'
<1>1. /\ sent + WaitsIn(history) = reported.success /\ reported.failure = 0
      /\ Len(history) = reported.success /\ Len(history) <= MaxSteps
  BY DEF WInv, Books
<1>2. reported.success \in Nat
  BY DEF TInv, TypeOK
<1>3. Books'
  BY <1>1 DEF Books
<1>4. WorkIsReported'
  BY <1>1, <1>2 DEF WorkIsReported, WaitsIn
<1> QED
  BY <1>3, <1>4 DEF WInv

LEMMA ExecutedKeepsBooks ==
  ASSUME TInv, WInv, TInv', pc \in {"sleep", "send"}, pc' = "after",
         history' = Append(history, [on |-> observation, action |-> action]),
         sent' = (IF action = Wait THEN sent ELSE sent + 1),
         reported' = [reported EXCEPT !.success = @ + 1], outcome' = outcome
  PROVE  WInv'
<1> DEFINE e == [on |-> observation, action |-> action]
<1>1. history \in Seq(Steps) /\ e \in Steps
  BY DEF TInv, TypeOK, Counters, Steps
<1>2. e.action = action /\ history' = Append(history, e)
  OBVIOUS
<1> HIDE DEF e
<1>3. /\ WaitsIn(history) \in Nat
      /\ WaitsIn(history') = IF action = Wait THEN WaitsIn(history) + 1 ELSE WaitsIn(history)
  BY <1>1, <1>2, WaitsAfterAppend
<1>4. Len(history') = Len(history) + 1
  BY <1>1, <1>2
<1>5. /\ outcome = NoOutcome /\ sent + WaitsIn(history) = reported.success
      /\ reported.failure = 0 /\ Len(history) = reported.success /\ Len(history) < MaxSteps
  BY DEF WInv, Books
<1>6. reported \in [success : Nat, failure : Nat] /\ sent \in Nat
  BY DEF TInv, TypeOK
<1>7. reported'.success = reported.success + 1 /\ reported'.failure = reported.failure
  BY <1>6
<1>8. sent' + WaitsIn(history') = reported'.success
  BY <1>3, <1>5, <1>6, <1>7
<1>9. Len(history') = reported'.success /\ Len(history') <= MaxSteps
  BY <1>4, <1>5, <1>6, <1>7, Limits
<1>10. Books'
  BY <1>5, <1>7, <1>8, <1>9 DEF Books
<1>11. WorkIsReported'
  <2>1. (TInv /\ Books /\ pc # "over")'
    BY <1>10
  <2> QED
    BY <2>1, BooksReport, PTL
<1> QED
  BY <1>10, <1>11 DEF WInv

\* An input that may or may not have reached the phone, and the end.
LEMMA LastInputKeepsBooks ==
  ASSUME TInv, WInv, pc \in {"send", "close"}, pc' = "over",
         UNCHANGED <<history, woken>>, sent' \in {sent, sent + 1},
         \/ /\ reported' = [reported EXCEPT !.failure = @ + 1]
            /\ outcome' = [kind |-> "failed", steps |-> Len(history)]
         \/ /\ reported' = reported
            /\ outcome' = [kind |-> "cancelled", steps |-> 0]
         \/ /\ reported' = [reported EXCEPT !.success = @ + 1] /\ sent' = sent + 1
            /\ outcome' = [kind |-> "closed", steps |-> 1] /\ history = <<>>
  PROVE  WInv'
<1>1. /\ sent + WaitsIn(history) = reported.success /\ reported.failure = 0
      /\ Len(history) = reported.success /\ Len(history) <= MaxSteps
  BY DEF WInv, Books
<1>2. reported \in [success : Nat, failure : Nat] /\ sent \in Nat
  BY DEF TInv, TypeOK
<1>3. history \in Seq(Steps)
  BY DEF TInv, TypeOK, Steps
<1>10. woken' = 0
  BY DEF TInv, Counters
<1>4. WaitsIn(history) \in Nat
  <2>1. [on |-> observation, action |-> Wait] \in Steps
    BY DEF TInv, TypeOK, Steps, Actions
  <2> QED
    BY <1>3, <2>1, WaitsAfterAppend
<1>5. Books'
  BY <1>1 DEF Books
<1>6. "failed" \in Endings /\ "closed" \in Endings /\ "cancelled" \notin Endings
  BY DEF Endings
<1> USE DEF WorkIsReported, WaitsIn
<1>7. CASE reported'.failure = reported.failure + 1
  <2>1. /\ reported' = [reported EXCEPT !.failure = @ + 1]
        /\ outcome' = [kind |-> "failed", steps |-> Len(history)]
    BY <1>2, <1>7
  <2>2. /\ reported'.success = reported.success /\ reported'.failure = 1
        /\ outcome'.kind = "failed" /\ outcome'.steps = Len(history)
    BY <1>1, <1>2, <2>1
  <2>3. WorkIsReported'
    BY <1>1, <1>2, <1>4, <1>10, <2>2
  <2> QED
    BY <1>5, <2>3 DEF WInv
<1>8. CASE reported' = reported
  <2>1. outcome' = [kind |-> "cancelled", steps |-> 0]
    BY <1>2, <1>8
  <2>2. outcome'.kind = "cancelled"
    BY <2>1
  <2>3. WorkIsReported'
    BY <1>1, <1>2, <1>4, <1>6, <1>8, <1>10, <2>2
  <2> QED
    BY <1>5, <2>3 DEF WInv
<1>9. CASE /\ reported' = [reported EXCEPT !.success = @ + 1] /\ sent' = sent + 1
           /\ outcome' = [kind |-> "closed", steps |-> 1] /\ history = <<>>
  <2>1. WaitsIn(history) = 0 /\ Len(history) = 0
    BY <1>9, EmptyHistory
  <2>2. /\ reported'.success = 1 /\ reported'.failure = 0 /\ sent' = 1
        /\ outcome'.kind = "closed" /\ outcome'.steps = 1
    BY <1>1, <1>2, <1>9, <2>1
  <2>3. WorkIsReported'
    BY <1>9, <1>10, <2>1, <2>2, Limits
  <2> QED
    BY <1>5, <2>3 DEF WInv
<1> QED
  BY <1>2, <1>7, <1>8, <1>9

LEMMA WInvIsInductive == TInv /\ TInv' /\ WInv /\ [Next]_vars => WInv'
<1> SUFFICES ASSUME TInv, TInv', WInv, [Next]_vars PROVE WInv'
  OBVIOUS
<1> USE DEF loopVars, workVars
<1> DEFINE Rests == pc # "over" /\ pc \notin {"woken", "swipe", "swiped"} => woken = 0
<1>14. Rests
  BY DEF TInv, Counters
<1> HIDE DEF Rests
<1>1. CASE Connect \/ NextDecision \/ CheckPasses \/ FindsLocked \/ Wakes
  BY <1>1, QuietKeepsBooks DEF Connect, NextDecision, CheckPasses, FindsLocked, Wakes, GivesWaking
<1>2. CASE DecisionLimit \/ Leaves
  BY <1>2, <1>14, EndKeepsBooks DEF DecisionLimit, Leaves, Result, Endings, Rests
<1>3. CASE CheckFails
  BY <1>3, <1>14, QuietKeepsBooks, EndKeepsBooks DEF CheckFails, Result, Rests
<1>15. CASE SettleWake
  BY <1>15, QuietKeepsBooks, EndKeepsBooks DEF SettleWake, Result
\* The only end that leaves the waking untold.
<1>16. CASE WakeBreaks
  BY <1>16, EndKeepsBooks DEF WakeBreaks, GivesWaking, Result, Endings
<1>4. CASE JevAnswers \/ JevFails \/ Advise
  BY <1>4, <1>14, QuietKeepsBooks, EndKeepsBooks
  DEF JevAnswers, JevFails, Advise, Decides, Result, Statuses, Endings, Rests
<1>5. CASE Guards
  BY <1>5, <1>14, QuietKeepsBooks, EndKeepsBooks DEF Guards, Result, Rests
<1>6. CASE Observe
  BY <1>6, <1>14, QuietKeepsBooks, EndKeepsBooks DEF Observe, Result, Rests
<1>7. CASE PhoneChanges
  BY <1>7 DEF PhoneChanges, ShowsNow, WInv, Books, WorkIsReported, WaitsIn
<1>8. CASE Sleep
  <2>1. action = Wait
    BY <1>8 DEF Sleep, TInv, Counters
  <2> QED
    BY <1>8, <2>1, ExecutedKeepsBooks DEF Sleep
<1>9. CASE Succeeds
  <2>1. action # Wait
    BY <1>9 DEF Succeeds, TInv, Counters
  <2> QED
    BY <1>9, <2>1, ExecutedKeepsBooks DEF Succeeds, Sends
<1>10. CASE Fails
  BY <1>10, LastInputKeepsBooks DEF Fails, Sends, Result
<1>11. CASE LeavesActing
  BY <1>11, LastInputKeepsBooks DEF LeavesActing, Result
<1>12. CASE CloseApp
  <2>1. history = <<>>
    BY <1>12 DEF CloseApp, WInv, Books
  <2> QED
    BY <1>12, <2>1, LastInputKeepsBooks DEF CloseApp, Result
<1>13. CASE UNCHANGED vars
  BY <1>13 DEF vars, WInv, Books, WorkIsReported, WaitsIn
<1> QED
  BY <1>1, <1>2, <1>3, <1>4, <1>5, <1>6, <1>7, <1>8, <1>9, <1>10, <1>11, <1>12, <1>13,
     <1>15, <1>16
  DEF Next, SessionNext, Over

\* Whatever fails, and wherever the session is cut off, every input for an
\* action was reported and the result counts it; what wakes the phone is told
\* before anything is decided, unless the session breaks off in the waking.
THEOREM WorkIsReportedHolds == Spec => []WorkIsReported
<1>1. WInv => WorkIsReported
  BY DEF WInv
<1> QED
  BY <1>1, TInvInit, TInvIsInductive, WInvInit, WInvIsInductive, PTL DEF Spec

-----------------------------------------------------------------------------
(* The agents of DeviceActions, and MacroReplay.                           *)

\* The model was shown the space that its points are converted from.
ImageFits ==
  /\ mode \in AllModes
  /\ mode = "plain" => image = "none"
  /\ ~blind => image = "none" \/ image = (IF ui.space = Nil THEN "native" ELSE ui.space)
  /\ mode = "shots" /\ ui # NoSnapshot => ui.space # Nil
  /\ stage \in {"pre", "act"} /\ call.tool = "point" => call.names \in Seen
  /\ touch.tool = "point" => stage = "ask"

\* What the recorder takes for the present screen is that screen.
ReadFits ==
  /\ device \in Views /\ ui.screen \in Views \cup {Nil} /\ pre.snap.screen \in Views \cup {Nil}
  /\ stage \in {"act", "type"} /\ pre.read /\ ~drift => pre.snap.screen \in {device, Nil}

\* Steps of a recording: a guard is what the provider saw of the screen met.
GuardsOf(m) == {Elements(m, s) : s \in Views} \cup {{}, Nil}
Kept(m) ==
  {e \in [act : {"drive", "secret", "wait"}, guard : GuardsOf(m), met : Views \cup {Nil}] :
     e.met # Nil => e.guard \in {{}, Elements(m, e.met)}}

RecordedFits == actions \in Seq(Kept(mode)) /\ log \in Seq(Kept(mode))

MacroKept == UNION {Kept(m) : m \in AllModes \ {"ios"}}

\* What the player goes by: the screen it has looked at is the one it acts on.
PlayerFits ==
  /\ player # "idle" => stage = "over" /\ mode = "plain"
  /\ player = "idle" => replayed = NotReplayed
  /\ macro \in Seq(MacroKept) /\ step \in Nat
  /\ player = "step" => step > 0
  /\ player \in {"look", "match", "act"} => step \in DOMAIN macro
  /\ player = "match" => drift \/ seen \in {{}, Elements("plain", device)}
  /\ player = "act" /\ macro[step].guard # Nil =>
       /\ drift \/ seen \in {{}, Elements("plain", device)}
       /\ Similar(macro[step].guard, seen)

ReplayIInv ==
  ImageFits /\ ReadFits /\ RecordedFits /\ PlayerFits /\ PointLandsWhereSeen
    /\ ReplayMeetsWhatWasMet

LEMMA ElementsFinite == \A m \in AllModes, s \in Views : IsFiniteSet(Elements(m, s))
<1> SUFFICES ASSUME NEW s \in Views PROVE IsFiniteSet(Range(Layout[s]))
  <2>1. \A m \in AllModes, s \in Views : Elements(m, s) \in SUBSET Range(Layout[s])
    BY DEF Elements, AllModes
  <2> QED BY <2>1, FS_Subset
<1> DEFINE q == Layout[s]
           R == Range(Layout[s])
<1>1. q \in Seq(R)
  BY DeviceAssumption
<1>2. Len(q) \in Nat /\ q \in [1..Len(q) -> R] /\ DOMAIN q = 1..Len(q)
  BY <1>1, LenProperties
<1>3. q \in Surjection(1..Len(q), R)
  BY <1>2 DEF Range, Surjection
<1>4. IsFiniteSet(1..Len(q))
  <2>1. 1 \in Int /\ Len(q) \in Int
    BY <1>2
  <2> QED BY <2>1, FS_Interval
<1> QED BY <1>3, <1>4, FS_Surjection

-----------------------------------------------------------------------------
(* Where an element is tapped.                                             *)

Box == Int \X Int \X Int \X Int
Proper(r) == r \in Box /\ r[1] < r[3] /\ r[2] < r[4]
Within(p, r) == r[1] <= p[1] /\ r[2] <= p[2] /\ p[3] <= r[3] /\ p[4] <= r[4]
Apart(r, c) == \A x \in Int, y \in Int : ~(Inside(<<x, y>>, r) /\ Inside(<<x, y>>, c))

LEMMA LeastOf ==
  ASSUME NEW S \in SUBSET Nat, S # {}
  PROVE  \E x \in S : \A y \in S : x <= y
<1>1. PICK x \in S : \A y \in S : ~(<<y, x>> \in OpToRel(<, Nat))
  BY NatLessThanWellFounded, WFMin, Zenon
<1>2. \A y \in S : x <= y
  <2> TAKE y \in S
  <2>1. ~(y < x) /\ x \in Nat /\ y \in Nat
    BY <1>1 DEF OpToRel
  <2> QED BY <2>1
<1> QED BY <1>2

LEMMA MaxMin ==
  \A a \in Int, b \in Int : /\ Max({a, b}) = IF a >= b THEN a ELSE b
                            /\ Min({a, b}) = IF a <= b THEN a ELSE b
<1> TAKE a \in Int, b \in Int
<1>1. \E x \in {a, b} : \A y \in {a, b} : x >= y
  OBVIOUS
<1>2. Max({a, b}) \in {a, b} /\ \A y \in {a, b} : Max({a, b}) >= y
  BY <1>1 DEF Max
<1>3. \E x \in {a, b} : \A y \in {a, b} : x <= y
  OBVIOUS
<1>4. Min({a, b}) \in {a, b} /\ \A y \in {a, b} : Min({a, b}) <= y
  BY <1>3 DEF Min
<1> QED BY <1>2, <1>4

\* What is left beside a blocker is part of the region, and none of the blocker.
LEMMA WithoutFits ==
  ASSUME NEW r, NEW b, Proper(r), b \in Box
  PROVE  \A p \in Without(r, b) : Proper(p) /\ Within(p, r) /\ Apart(p, b)
<1> DEFINE l == Max({r[1], b[1]})
           t == Max({r[2], b[2]})
           m == Min({r[3], b[3]})
           n == Min({r[4], b[4]})
<1>1. /\ r[1] \in Int /\ r[2] \in Int /\ r[3] \in Int /\ r[4] \in Int /\ r[1] < r[3] /\ r[2] < r[4]
      /\ b[1] \in Int /\ b[2] \in Int /\ b[3] \in Int /\ b[4] \in Int
  BY DEF Proper, Box
<1>2. /\ l = (IF r[1] >= b[1] THEN r[1] ELSE b[1]) /\ t = (IF r[2] >= b[2] THEN r[2] ELSE b[2])
      /\ m = (IF r[3] <= b[3] THEN r[3] ELSE b[3]) /\ n = (IF r[4] <= b[4] THEN r[4] ELSE b[4])
  BY <1>1, MaxMin
<1>3. Without(r, b) =
        IF l >= m \/ t >= n THEN {r}
        ELSE {p \in {<<r[1], r[2], r[3], t>>, <<r[1], n, r[3], r[4]>>,
                     <<r[1], t, l, n>>, <<m, t, r[3], n>>} : p[1] < p[3] /\ p[2] < p[4]}
  BY DEF Without
<1> HIDE DEF l, t, m, n
<1>4. l \in Int /\ t \in Int /\ m \in Int /\ n \in Int
  BY <1>1, <1>2
<1>5. CASE l >= m \/ t >= n
  <2>1. Apart(r, b)
    BY <1>1, <1>2, <1>5 DEF Apart, Inside
  <2>2. Within(r, r)
    BY <1>1 DEF Within
  <2> QED BY <1>3, <1>5, <2>1, <2>2
<1>6. CASE l < m /\ t < n
  <2> SUFFICES ASSUME NEW p \in {<<r[1], r[2], r[3], t>>, <<r[1], n, r[3], r[4]>>,
                                 <<r[1], t, l, n>>, <<m, t, r[3], n>>},
                      p[1] < p[3], p[2] < p[4]
               PROVE  Proper(p) /\ Within(p, r) /\ Apart(p, b)
    BY <1>1, <1>3, <1>4, <1>6
  <2>1. Proper(p)
    BY <1>1, <1>4 DEF Proper, Box
  <2>2. Within(p, r)
    BY <1>1, <1>2, <1>4, <1>6 DEF Within
  <2>3. Apart(p, b)
    BY <1>1, <1>2, <1>4, <1>6 DEF Apart, Inside
  <2> QED BY <2>1, <2>2, <2>3
<1> QED BY <1>4, <1>5, <1>6

LEMMA Listing ==
  ASSUME NEW K, IsFiniteSet(K)
  PROVE  /\ Cardinality(K) \in Nat /\ SetToSeq(K) \in [1..Cardinality(K) -> K]
         /\ \A c \in K : \E i \in 1..Cardinality(K) : SetToSeq(K)[i] = c
<1> DEFINE N == Cardinality(K)
<1>1. N \in Nat /\ \E f : f \in Bijection(1..N, K)
  BY FS_CardinalityType DEF ExistsBijection
<1>2. \E f \in [1..N -> K] : IsInjective(f)
  BY <1>1 DEF Bijection, Injection, IsInjective
<1>3. SetToSeq(K) \in [1..N -> K] /\ IsInjective(SetToSeq(K))
  BY <1>2 DEF SetToSeq
<1> DEFINE q == SetToSeq(K)
<1> HIDE DEF q
<1>4. q \in Injection(1..N, K)
  BY <1>3 DEF Injection, IsInjective, q
<1>5. Cardinality(1..N) = N
  BY <1>1, FS_Interval
<1>6. q \in Surjection(1..N, K)
  BY <1>4, <1>5, FS_Injection
<1> QED BY <1>1, <1>3, <1>6 DEF Surjection, q

\* Whether f holds what is left after each of the first n of the blockers q.
Regions(b, q, n, f) ==
  f = [i \in 0..n |-> IF i = 0 THEN {b} ELSE UNION {Without(r, q[i]) : r \in f[i - 1]}]

\* There is such a function: no least number of blockers is without one.
LEMMA RegionsExist ==
  ASSUME NEW b, NEW q
  PROVE  \A n \in Nat : \E f : Regions(b, q, n, f)
<1> DEFINE T == {n \in Nat : ~\E f : Regions(b, q, n, f)}
<1> SUFFICES ASSUME T # {} PROVE FALSE
  OBVIOUS
<1>1. T \in SUBSET Nat
  OBVIOUS
<1>2. PICK n \in T : \A k \in T : n <= k
  <2> HIDE DEF T
  <2> QED BY <1>1, LeastOf
<1>3. n \in Nat /\ ~\E f : Regions(b, q, n, f)
  BY <1>2
<1>4. n # 0
  <2> DEFINE g == [i \in 0..0 |-> {b}]
  <2>1. \A i \in 0..0 : i = 0
    OBVIOUS
  <2>2. Regions(b, q, 0, g)
    BY <2>1 DEF Regions
  <2> QED BY <1>3, <2>2
<1>5. n - 1 \in Nat /\ n - 1 \notin T
  BY <1>2, <1>3, <1>4
<1>6. PICK f : Regions(b, q, n - 1, f)
  BY <1>5
<1> DEFINE g == [i \in 0..n |-> IF i = 0 THEN {b} ELSE UNION {Without(r, q[i]) : r \in f[i - 1]}]
<1>7. \A i \in 0..n - 1 : g[i] = f[i]
  <2> TAKE i \in 0..n - 1
  <2>1. i \in 0..n
    BY <1>3
  <2>2. g[i] = IF i = 0 THEN {b} ELSE UNION {Without(r, q[i]) : r \in f[i - 1]}
    BY <2>1
  <2>3. f[i] = IF i = 0 THEN {b} ELSE UNION {Without(r, q[i]) : r \in f[i - 1]}
    BY <1>6 DEF Regions
  <2> QED BY <2>2, <2>3
<1>8. \A i \in 0..n : i # 0 => f[i - 1] = g[i - 1]
  <2> TAKE i \in 0..n
  <2> HAVE i # 0
  <2>1. i - 1 \in 0..n - 1
    BY <1>3
  <2> HIDE DEF g
  <2> QED BY <1>7, <2>1
<1>9. Regions(b, q, n, g)
  <2>1. g = [i \in 0..n |-> IF i = 0 THEN {b} ELSE UNION {Without(r, q[i]) : r \in g[i - 1]}]
    <3> DEFINE h == [i \in 0..n |-> IF i = 0 THEN {b}
                                    ELSE UNION {Without(r, q[i]) : r \in g[i - 1]}]
    <3>1. ASSUME NEW i \in 0..n PROVE g[i] = h[i]
      <4>1. CASE i = 0
        BY <4>1
      <4>2. CASE i # 0
        <5>1. f[i - 1] = g[i - 1]
          BY <1>8, <4>2
        <5>2. g[i] = UNION {Without(r, q[i]) : r \in f[i - 1]}
          BY <4>2
        <5>3. h[i] = UNION {Without(r, q[i]) : r \in g[i - 1]}
          <6> HIDE DEF g
          <6> QED BY <4>2
        <5> HIDE DEF g, h
        <5> QED BY <5>1, <5>2, <5>3
      <4> QED BY <4>1, <4>2
    <3>2. g = [i \in 0..n |-> g[i]] /\ h = [i \in 0..n |-> h[i]]
      OBVIOUS
    <3>3. g = h
      <4> HIDE DEF g, h
      <4> QED BY <3>1, <3>2
    <3> QED BY <3>3
  <2> HIDE DEF g
  <2> QED BY <2>1 DEF Regions
<1> QED BY <1>3, <1>9

\* Whether f holds the elements of S among the first n that are drawn.
Parts(s, S, n, f) ==
  f = [i \in 0..n |->
         IF i = 0 THEN <<>>
         ELSE IF Layout[s][i] \in S THEN Append(f[i - 1], Layout[s][i]) ELSE f[i - 1]]

\* There is such a function, by the same argument.
LEMMA PartsExist ==
  ASSUME NEW s, NEW S
  PROVE  \A n \in Nat : \E f : Parts(s, S, n, f)
<1> DEFINE T == {n \in Nat : ~\E f : Parts(s, S, n, f)}
           Step(i, q) == IF Layout[s][i] \in S THEN Append(q, Layout[s][i]) ELSE q
<1> SUFFICES ASSUME T # {} PROVE FALSE
  OBVIOUS
<1>1. T \in SUBSET Nat
  OBVIOUS
<1>2. PICK n \in T : \A k \in T : n <= k
  <2> HIDE DEF T
  <2> QED BY <1>1, LeastOf
<1>3. n \in Nat /\ ~\E f : Parts(s, S, n, f)
  BY <1>2
<1>a. \A k, f : Parts(s, S, k, f) <=>
        f = [i \in 0..k |-> IF i = 0 THEN <<>> ELSE Step(i, f[i - 1])]
  BY DEF Parts
<1>4. n # 0
  <2> DEFINE g == [i \in 0..0 |-> <<>>]
  <2>1. \A i \in 0..0 : i = 0
    OBVIOUS
  <2>2. Parts(s, S, 0, g)
    BY <2>1 DEF Parts
  <2> QED BY <1>3, <2>2
<1>5. n - 1 \in Nat /\ n - 1 \notin T
  BY <1>2, <1>3, <1>4
<1>6. PICK f : Parts(s, S, n - 1, f)
  BY <1>5
<1> HIDE DEF Step, T
<1> DEFINE g == [i \in 0..n |-> IF i = 0 THEN <<>> ELSE Step(i, f[i - 1])]
<1>7. \A i \in 0..n - 1 : g[i] = f[i]
  <2> TAKE i \in 0..n - 1
  <2>1. i \in 0..n
    BY <1>3
  <2>2. g[i] = IF i = 0 THEN <<>> ELSE Step(i, f[i - 1])
    BY <2>1
  <2>3. f = [k \in 0..n - 1 |-> IF k = 0 THEN <<>> ELSE Step(k, f[k - 1])]
    BY <1>6, <1>a
  <2>4. f[i] = [k \in 0..n - 1 |-> IF k = 0 THEN <<>> ELSE Step(k, f[k - 1])][i]
    <3> HIDE DEF g
    <3> QED BY <2>3
  <2>5. f[i] = IF i = 0 THEN <<>> ELSE Step(i, f[i - 1])
    <3> HIDE DEF g
    <3> QED BY <2>4
  <2> QED BY <2>2, <2>5
<1>8. \A i \in 0..n : i # 0 => f[i - 1] = g[i - 1]
  <2> TAKE i \in 0..n
  <2> HAVE i # 0
  <2>1. i - 1 \in 0..n - 1
    BY <1>3
  <2> HIDE DEF g
  <2> QED BY <1>7, <2>1
<1> DEFINE h == [i \in 0..n |-> IF i = 0 THEN <<>> ELSE Step(i, g[i - 1])]
<1>9. g = h
  <2>1. ASSUME NEW i \in 0..n PROVE g[i] = h[i]
    <3>1. CASE i = 0
      BY <3>1
    <3>2. CASE i # 0
      <4>1. f[i - 1] = g[i - 1]
        BY <1>8, <3>2
      <4>2. g[i] = Step(i, f[i - 1])
        BY <3>2
      <4>3. h[i] = Step(i, g[i - 1])
        <5> HIDE DEF g
        <5> QED BY <3>2
      <4> HIDE DEF g, h
      <4> QED BY <4>1, <4>2, <4>3
    <3> QED BY <3>1, <3>2
  <2>2. g = [i \in 0..n |-> g[i]] /\ h = [i \in 0..n |-> h[i]]
    OBVIOUS
  <2> HIDE DEF g, h
  <2> QED BY <2>1, <2>2
<1>10. Parts(s, S, n, g)
  <2> HIDE DEF g
  <2> QED BY <1>9, <1>a
<1> QED BY <1>3, <1>10

\* A list of elements has elements of the screen, and of the set, alone.
LEMMA DrawnFits ==
  ASSUME NEW s \in Views, NEW S
  PROVE  Drawn(s, S) \in Seq(Range(Layout[s]))
<1> DEFINE q == Layout[s]
           R == Range(Layout[s])
           N == Len(Layout[s])
<1>1. q \in Seq(R)
  BY DeviceAssumption
<1>2. N \in Nat /\ \A i \in 1..N : q[i] \in R
  BY <1>1, LenProperties
<1>3. PICK part : part = (CHOOSE f : Parts(s, S, N, f)) /\ Parts(s, S, N, part)
  BY <1>2, PartsExist
<1>4. Drawn(s, S) = part[N]
  BY <1>3 DEF Drawn, Parts
<1>5. \A i \in 0..N : part[i] = IF i = 0 THEN <<>>
                                ELSE IF q[i] \in S THEN Append(part[i - 1], q[i]) ELSE part[i - 1]
  BY <1>3 DEF Parts
<1> HIDE DEF q, R, N
<1> DEFINE Bad == {n \in 0..N : part[n] \notin Seq(R)}
<1>6. Bad = {}
  <2> SUFFICES ASSUME Bad # {} PROVE FALSE
    OBVIOUS
  <2>1. PICK n \in Bad : \A k \in Bad : n <= k
    <3>1. Bad \in SUBSET Nat
      BY <1>2
    <3> QED BY <3>1, LeastOf
  <2>2. part[0] = <<>> /\ <<>> \in Seq(R)
    BY <1>2, <1>5
  <2>a. n \in 0..N /\ n # 0 /\ n - 1 \in 0..N /\ ~(n <= n - 1)
    <3>1. n \in 0..N /\ part[n] \notin Seq(R)
      BY <2>1
    <3>2. n # 0
      BY <2>2, <3>1
    <3> QED BY <1>2, <3>1, <3>2
  <2>3. n \in 1..N /\ part[n - 1] \in Seq(R)
    <3>1. n - 1 \notin Bad
      BY <2>1, <2>a
    <3>2. n \in 1..N
      BY <1>2, <2>a
    <3> QED BY <2>a, <3>1, <3>2
  <2>4. part[n] = part[n - 1] \/ part[n] = Append(part[n - 1], q[n])
    <3>1. part[n] = IF n = 0 THEN <<>>
                    ELSE IF q[n] \in S THEN Append(part[n - 1], q[n]) ELSE part[n - 1]
      BY <1>5, <2>a
    <3> QED BY <2>a, <3>1
  <2>5. Append(part[n - 1], q[n]) \in Seq(R)
    BY <1>2, <2>3, AppendProperties
  <2> QED BY <2>1, <2>3, <2>4, <2>5
<1> QED BY <1>2, <1>4, <1>6 DEF R

LEMMA ListedFits ==
  ASSUME NEW s \in Views, NEW m
  PROVE  Listed(m, s) \in Seq(Range(Layout[s]))
<1>1. \A S : Drawn(s, S) \in Seq(Range(Layout[s]))
  BY DrawnFits
<1>2. Drawn(s, Elements(m, s) \ Keyboard) \o Drawn(s, Keyboard) \in Seq(Range(Layout[s]))
  BY <1>1, ConcatProperties
<1> QED BY <1>1, <1>2 DEF Listed

\* The recursion over the blockers defines what its equation says.
LeftBeside(b, q, N, left) ==
  left[0] = {b} /\ \A i \in 1..N : left[i] = UNION {Without(r, q[i]) : r \in left[i - 1]}

LEMMA UncoveredSteps ==
  ASSUME NEW b, NEW K, IsFiniteSet(K), NEW N, N = Cardinality(K), NEW q, q = SetToSeq(K)
  PROVE  \E left : Uncovered(b, K) = left[N] /\ LeftBeside(b, q, N, left)
<1>2. N \in Nat
  BY Listing
<1>3. PICK left : left = (CHOOSE f : Regions(b, q, N, f)) /\ Regions(b, q, N, left)
  BY <1>2, RegionsExist
<1>4. Uncovered(b, K) = left[N]
  BY <1>3 DEF Uncovered, Regions
<1>5. \A i \in 0..N : left[i] = IF i = 0 THEN {b}
                                ELSE UNION {Without(r, q[i]) : r \in left[i - 1]}
  BY <1>3 DEF Regions
<1>6. left[0] = {b}
  <2>1. 0 \in 0..N
    BY <1>2
  <2>2. left[0] = IF 0 = 0 THEN {b} ELSE UNION {Without(r, q[0]) : r \in left[0 - 1]}
    BY <1>5, <2>1
  <2> QED BY <2>2
<1>7. \A i \in 1..N : left[i] = UNION {Without(r, q[i]) : r \in left[i - 1]}
  <2> TAKE i \in 1..N
  <2>1. i \in 0..N /\ i # 0
    BY <1>2
  <2> QED BY <1>5, <2>1
<1>8. LeftBeside(b, q, N, left)
  BY <1>6, <1>7 DEF LeftBeside
<1> QED BY <1>4, <1>8

LEMMA UncoveredFits ==
  ASSUME NEW b, Proper(b), NEW K, IsFiniteSet(K), K \subseteq Box
  PROVE  \A r \in Uncovered(b, K) : Proper(r) /\ Within(r, b) /\ \A c \in K : Apart(r, c)
<1>0. PICK N, q : N = Cardinality(K) /\ q = SetToSeq(K)
  OBVIOUS
<1>1. N \in Nat /\ (\A i \in 1..N : q[i] \in K) /\ \A c \in K : \E i \in 1..N : q[i] = c
  BY <1>0, Listing
<1>2. \E left : Uncovered(b, K) = left[N] /\ LeftBeside(b, q, N, left)
  BY <1>0, UncoveredSteps
<1>3. PICK left : Uncovered(b, K) = left[N] /\ LeftBeside(b, q, N, left)
  BY <1>2
<1>4. left[0] = {b} /\ \A i \in 1..N : left[i] = UNION {Without(r, q[i]) : r \in left[i - 1]}
  BY <1>3 DEF LeftBeside
<1> DEFINE Clear(n) == \A r \in left[n] : /\ Proper(r) /\ Within(r, b)
                                          /\ \A i \in 1..n : Apart(r, q[i])
           Bad == {n \in 0..N : ~Clear(n)}
<1>5. Bad = {}
  <2> SUFFICES ASSUME Bad # {} PROVE FALSE
    OBVIOUS
  <2>1. PICK n \in Bad : \A k \in Bad : n <= k
    <3>1. Bad \in SUBSET Nat
      BY <1>1
    <3> QED BY <3>1, LeastOf
  <2>2. Clear(0)
    <3>1. Within(b, b)
      BY DEF Within, Proper, Box
    <3> QED BY <1>4, <3>1
  <2>3. n \in 1..N /\ Clear(n - 1)
    BY <1>1, <2>1, <2>2
  <2>4. Clear(n)
    <3> SUFFICES ASSUME NEW p \in left[n]
                 PROVE  Proper(p) /\ Within(p, b) /\ \A i \in 1..n : Apart(p, q[i])
      OBVIOUS
    <3>1. PICK r \in left[n - 1] : p \in Without(r, q[n])
      BY <1>4, <2>3
    <3>2. Proper(r) /\ Within(r, b) /\ \A i \in 1..n - 1 : Apart(r, q[i])
      BY <2>3
    <3>3. Proper(p) /\ Within(p, r) /\ Apart(p, q[n])
      BY <1>1, <2>3, <3>1, <3>2, WithoutFits
    <3>4. Within(p, b)
      BY <3>2, <3>3 DEF Within, Proper, Box
    <3>5. ASSUME NEW i \in 1..n - 1 PROVE Apart(p, q[i])
      <4>1. Apart(r, q[i])
        BY <3>2
      <4>2. \A x \in Int, y \in Int : Inside(<<x, y>>, p) => Inside(<<x, y>>, r)
        BY <3>2, <3>3 DEF Inside, Within, Proper, Box
      <4> QED BY <4>1, <4>2 DEF Apart
    <3>6. \A i \in 1..n : i = n \/ i \in 1..n - 1
      BY <2>3
    <3> QED BY <3>3, <3>4, <3>5, <3>6
  <2> QED BY <2>1, <2>4
<1>6. Clear(N)
  BY <1>1, <1>5
<1> QED BY <1>0, <1>1, <1>3, <1>6

LEMMA CentreInside == \A r : Proper(r) => /\ Centre(r)[1] \in Int /\ Centre(r)[2] \in Int
                                          /\ Centre(r) = <<Centre(r)[1], Centre(r)[2]>>
                                          /\ Inside(Centre(r), r)
<1> SUFFICES ASSUME NEW r, Proper(r)
             PROVE  /\ Centre(r)[1] \in Int /\ Centre(r)[2] \in Int
                    /\ Centre(r) = <<Centre(r)[1], Centre(r)[2]>> /\ Inside(Centre(r), r)
  OBVIOUS
<1>1. \A x \in Int, y \in Int : x < y => x <= (x + y) \div 2 /\ (x + y) \div 2 < y
  OBVIOUS
<1> QED BY <1>1 DEF Proper, Box, Centre, Inside

\* No region is larger than the element, so that one is the largest.
LEMMA LargestExists ==
  ASSUME NEW b, Proper(b), NEW free, free # {}, \A r \in free : Proper(r) /\ Within(r, b)
  PROVE  \E r \in free : \A o \in free : Area(o) <= Area(r)
<1>1. \A x \in Nat, y \in Nat, u \in Nat, v \in Nat :
        x <= u /\ y <= v => x * y \in Nat /\ x * y <= u * v
  <2> TAKE x \in Nat, y \in Nat, u \in Nat, v \in Nat
  <2> SUFFICES ASSUME x <= u, y <= v PROVE x * y \in Nat /\ x * y <= u * v
    OBVIOUS
  <2>1. x * y \in Nat /\ (u - x) * y \in Nat /\ u * (v - y) \in Nat
    OBVIOUS
  <2>2. u * v = x * y + (u - x) * y + u * (v - y)
    OBVIOUS
  <2> QED BY <2>1, <2>2
<1>2. ASSUME NEW r \in free PROVE Area(r) \in Nat /\ Area(r) <= Area(b) /\ Area(b) \in Nat
  <2>1. /\ r[3] - r[1] \in Nat /\ r[4] - r[2] \in Nat /\ b[3] - b[1] \in Nat /\ b[4] - b[2] \in Nat
        /\ r[3] - r[1] <= b[3] - b[1] /\ r[4] - r[2] <= b[4] - b[2]
    BY <1>2 DEF Proper, Within, Box
  <2> QED BY <1>1, <2>1 DEF Area
<1> DEFINE D == {Area(b) - Area(r) : r \in free}
<1>3. D \in SUBSET Nat /\ D # {}
  BY <1>2
<1>4. PICK d \in D : \A e \in D : d <= e
  BY <1>3, LeastOf
<1>5. PICK r \in free : d = Area(b) - Area(r)
  BY <1>4
<1>6. \A o \in free : Area(b) - Area(r) <= Area(b) - Area(o)
  BY <1>4, <1>5
<1> QED BY <1>2, <1>5, <1>6

\* get_element_coords: a point of the element, and of nothing that is drawn over it.
LEMMA TapPointHits ==
  ASSUME NEW s \in Views, NEW e \in Range(Layout[s]), TapPoint(s, e) # Nil
  PROVE  /\ Inside(TapPoint(s, e), BoundsOf[s][e])
         /\ mode # "ios" => \A c \in Blockers(s, e) : ~Inside(TapPoint(s, e), c)
<1> DEFINE b == BoundsOf[s][e]
           K == IF mode = "ios" THEN {} ELSE Blockers(s, e)
           free == Uncovered(b, K)
<1>1. \A d \in Range(Layout[s]) : Proper(BoundsOf[s][d])
  BY DeviceAssumption DEF Proper, Box
<1>2. Proper(b)
  BY <1>1
<1>3. K \subseteq {BoundsOf[s][d] : d \in Range(Layout[s])}
  BY DEF Blockers
<1>4. K \subseteq Box
  BY <1>1, <1>3 DEF Proper
<1>5. IsFiniteSet(K)
  <2> DEFINE R == Range(Layout[s])
             f == [d \in R |-> BoundsOf[s][d]]
             I == {BoundsOf[s][d] : d \in R}
  <2>1. IsFiniteSet(R)
    <3>1. R = Elements("vision", s) /\ "vision" \in AllModes
      BY DEF Elements, AllModes
    <3> QED BY <3>1, ElementsFinite
  <2>2. f \in Surjection(R, I)
    BY DEF Surjection
  <2> HIDE DEF f, R
  <2>3. IsFiniteSet(I)
    BY <2>1, <2>2, FS_Surjection
  <2>4. K \in SUBSET I
    BY <1>3 DEF R
  <2> HIDE DEF K, I
  <2> QED BY <2>3, <2>4, FS_Subset
<1>6. TapPoint(s, e) = IF \A c \in K : ~Inside(Centre(b), c) THEN Centre(b)
                       ELSE IF free = {} THEN Nil
                       ELSE Centre(CHOOSE r \in free : \A o \in free : Area(o) <= Area(r))
  BY DEF TapPoint
<1>7. mode # "ios" => K = Blockers(s, e)
  OBVIOUS
<1> HIDE DEF K, b
<1>8. CASE \A c \in K : ~Inside(Centre(b), c)
  BY <1>2, <1>6, <1>7, <1>8, CentreInside DEF b
<1>9. CASE ~\A c \in K : ~Inside(Centre(b), c)
  <2>1. \A r \in free : Proper(r) /\ Within(r, b) /\ \A c \in K : Apart(r, c)
    BY <1>2, <1>4, <1>5, UncoveredFits
  <2> HIDE DEF free
  <2>2. free # {}
    BY <1>6, <1>9
  <2>3. \E r \in free : \A o \in free : Area(o) <= Area(r)
    BY <1>2, <2>1, <2>2, LargestExists
  <2>4. PICK r \in free : TapPoint(s, e) = Centre(r)
    BY <1>6, <1>9, <2>2, <2>3
  <2>5. PICK x \in Int, y \in Int : Centre(r) = <<x, y>> /\ Inside(<<x, y>>, r)
    BY <2>1, CentreInside
  <2>6. Inside(<<x, y>>, b)
    BY <1>2, <2>1, <2>5 DEF Inside, Within, Proper, Box
  <2>7. \A c \in K : ~Inside(<<x, y>>, c)
    BY <2>1, <2>5 DEF Apart
  <2> QED BY <1>7, <2>4, <2>5, <2>6, <2>7 DEF b
<1> QED BY <1>8, <1>9

\* A guard of a recording with the keyboard is met by a screen without.
LEMMA SimilarWithoutKeys ==
  ASSUME NEW m \in AllModes \ {"ios"}, NEW met \in Views, NEW shown \in Views,
         Elements(m, met) # {}, Similar(Elements(m, met), Elements("plain", shown))
  PROVE  Similar(Elements("plain", shown), Elements("plain", met))
<1> DEFINE A == Elements(m, met)
           B == Elements("plain", shown)
           P == Elements("plain", met)
<1>1. m \in {"plain", "vision"} /\ m \in AllModes /\ "plain" \in AllModes
  BY DEF AllModes, Elements
<1>2. IsFiniteSet(A) /\ IsFiniteSet(B) /\ IsFiniteSet(P)
  BY <1>1, ElementsFinite
<1>3. P \subseteq A /\ A \ P \subseteq Keyboard /\ B \cap Keyboard = {}
  BY <1>1 DEF Elements
<1>4. A \cap B = B \cap P /\ B \cup P \in SUBSET (A \cup B)
  BY <1>3
<1>5. Similar(A, B)
  OBVIOUS
<1> HIDE DEF A, B, P
<1>6. IsFiniteSet(A \cup B) /\ IsFiniteSet(A \cap B)
  BY <1>2, FS_Union, FS_Subset
<1>7. IsFiniteSet(B \cup P) /\ Cardinality(B \cup P) <= Cardinality(A \cup B)
  BY <1>4, <1>6, FS_Subset
<1>8. /\ Cardinality(A \cup B) \in Nat /\ Cardinality(B \cup P) \in Nat
      /\ Cardinality(B \cap P) \in Nat /\ Cardinality(A \cap B) = Cardinality(B \cap P)
  BY <1>4, <1>6, <1>7, FS_CardinalityType
<1>9. Similar(B, P)
  BY <1>5, <1>7, <1>8 DEF Similar
<1> QED BY <1>9 DEF B, P

\* A screen in which no element was found meets no guard that has one.
LEMMA NothingIsSimilar ==
  ASSUME NEW A, IsFiniteSet(A), A # {}
  PROVE  ~Similar(A, {})
<1>1. A \cap {} = {} /\ A \cup {} = A
  OBVIOUS
<1>2. Cardinality({}) = 0 /\ Cardinality(A) \in Nat /\ Cardinality(A) # 0
  BY FS_EmptySet, FS_CardinalityType
<1> QED BY <1>1, <1>2 DEF Similar

LEMMA ReplayInitInvariant == ReplayInit => ReplayIInv
<1> SUFFICES ASSUME ReplayInit PROVE ReplayIInv
  OBVIOUS
<1> USE DEF ReplayInit, DeviceInit
<1>1. ImageFits /\ ReadFits /\ PointLandsWhereSeen
  BY DeviceAssumption DEF ImageFits, ReadFits, PointLandsWhereSeen, NoSnapshot, NoPre, NoTouch
<1>2. RecordedFits
  BY DEF RecordedFits
<1>3. PlayerFits /\ ReplayMeetsWhatWasMet
  BY DEF PlayerFits, ReplayMeetsWhatWasMet
<1> QED BY <1>1, <1>2, <1>3 DEF ReplayIInv

-----------------------------------------------------------------------------
(* The run that is recorded.                                               *)

\* A step of the run leaves the player alone.
LEMMA PlayerRests ==
  ASSUME PlayerFits, ReplayMeetsWhatWasMet, stage # "over", UNCHANGED playerVars
  PROVE  PlayerFits' /\ ReplayMeetsWhatWasMet'
<1>1. player = "idle"
  BY DEF PlayerFits
<1> QED BY <1>1 DEF playerVars, PlayerFits, ReplayMeetsWhatWasMet

DeviceIInv == ImageFits /\ ReadFits /\ RecordedFits /\ PointLandsWhereSeen

LEMMA EntryKept ==
  ASSUME ReadFits, stage \in {"act", "type"}, NEW act \in {"drive", "secret", "wait"}
  PROVE  Entry(act) \in Kept(mode) /\ Raw(act) \in Kept(mode)
<1>1. Nodes(pre.snap) \in GuardsOf(mode)
  BY DEF ReadFits, Nodes, GuardsOf
<1>2. LET met == IF pre.read /\ ~drift THEN device ELSE Nil
      IN  met \in Views \cup {Nil} /\ (met # Nil => Nodes(pre.snap) \in {{}, Elements(mode, met)})
  BY DEF ReadFits, Nodes
<1>3. Nil \in GuardsOf(mode) /\ Nil \in Views \cup {Nil}
  BY DEF GuardsOf
<1> QED BY <1>1, <1>2, <1>3 DEF Entry, Raw, Kept

\* A call of the driver, and what is recorded of it.
LEMMA RecordKeeps ==
  ASSUME RecordedFits, ReadFits, stage \in {"act", "type"}, NEW act \in {"drive", "secret", "wait"},
         mode' = mode, Record(Entry(act)) \/ LogOnly(Raw(act)) \/ UNCHANGED recorded
  PROVE  RecordedFits'
<1> DEFINE K == Kept(mode)
<1>1. Entry(act) \in K /\ Raw(act) \in K /\ actions \in Seq(K) /\ log \in Seq(K) /\ <<>> \in Seq(K)
  BY EntryKept DEF RecordedFits
<1> HIDE DEF K
<1>2. Append(actions, Entry(act)) \in Seq(K) /\ Append(log, Raw(act)) \in Seq(K)
  BY <1>1, AppendProperties
<1>3. actions' \in Seq(K) /\ log' \in Seq(K)
  BY <1>1, <1>2 DEF Record, LogOnly, recorded
<1> QED BY <1>3 DEF RecordedFits, Kept, GuardsOf, K

\* After an action the agent is asked again, and has no screen at hand.
LEMMA DriveKeeps ==
  ASSUME DeviceIInv, stage \in {"act", "type"}, NEW act \in {"drive", "secret"}, Drive(act, Back),
         PointLandsWhereSeen'
  PROVE  DeviceIInv'
<1>1. RecordedFits'
  BY RecordKeeps DEF Drive, setting, recorded, DeviceIInv
<1>2. /\ stage' = "ask" /\ pre' = NoPre /\ device' \in Views
      /\ UNCHANGED <<mode, ui, image, blind, flags, call>>
  BY DEF Drive, Back, setting, prompt, agent
<1>3. ImageFits' /\ ReadFits'
  BY <1>2 DEF DeviceIInv, ImageFits, ReadFits, Seen, NoPre, NoSnapshot
<1> QED BY <1>1, <1>3 DEF DeviceIInv

\* The same where nothing was done.
LEMMA BackKeeps ==
  ASSUME DeviceIInv, stage \in {"act", "type"}, Back,
         UNCHANGED <<setting, phoneVars, prompt, touch>>, call' = call, RecordedFits'
  PROVE  DeviceIInv'
<1>1. ImageFits' /\ ReadFits' /\ PointLandsWhereSeen'
  BY DEF Back, DeviceIInv, ImageFits, ReadFits, PointLandsWhereSeen, setting, phoneVars, prompt,
     Seen,
     NoPre, NoSnapshot
<1> QED BY <1>1 DEF DeviceIInv

LEMMA RecordedStays ==
  ASSUME RecordedFits, mode' = mode, UNCHANGED recorded
  PROVE  RecordedFits'
BY DEF RecordedFits, recorded, Kept, GuardsOf

\* A read that returns: its snapshot is of the screen the phone shows.
LEMMA DeliverKeeps ==
  ASSUME DeviceIInv, stage \in Reading, NEW snap, Deliver(snap),
         snap.screen \in {device, Nil}, mode = "shots" => snap.space # Nil,
         stage' = AfterRead[stage], UNCHANGED <<mode, device, call, touch, recorded>>
  PROVE  DeviceIInv'
<1>1. RecordedFits'
  BY RecordedStays DEF DeviceIInv
<1>2. CASE stage = "read"
  <2>1. /\ ui' = snap /\ blind' = FALSE /\ image' \in Attached(snap.space) /\ pre' = pre
        /\ stage' = "ask"
    BY <1>2 DEF Deliver, AfterRead, Reading
  <2>2. ImageFits' /\ PointLandsWhereSeen'
    BY <1>2, <2>1 DEF DeviceIInv, ImageFits, Attached, PointLandsWhereSeen
  <2>3. ReadFits'
    BY <2>1 DEF DeviceIInv, ReadFits
  <2> QED BY <1>1, <2>2, <2>3 DEF DeviceIInv
<1>3. CASE stage \in {"pre", "focus"}
  <2>1. /\ pre' = [snap |-> snap, read |-> TRUE] /\ UNCHANGED prompt
        /\ stage' = IF stage = "pre" THEN "act" ELSE "type"
    BY <1>3 DEF Deliver, AfterRead, Reading
  <2>2. ImageFits' /\ PointLandsWhereSeen'
    BY <1>3, <2>1 DEF DeviceIInv, ImageFits, Seen, prompt, PointLandsWhereSeen
  <2>3. ReadFits'
    BY <2>1 DEF DeviceIInv, ReadFits, prompt
  <2> QED BY <1>1, <2>2, <2>3 DEF DeviceIInv
<1> QED BY <1>2, <1>3 DEF Reading

LEMMA ReadWorksKeeps == DeviceIInv /\ ReadWorks => DeviceIInv'
<1> SUFFICES ASSUME DeviceIInv, ReadWorks PROVE DeviceIInv'
  OBVIOUS
<1>1. PICK snap \in Snapshots(mode, device) : Deliver(snap)
  BY DEF ReadWorks
<1>2. mode \in AllModes /\ device \in Views
  BY DeviceAssumption DEF DeviceIInv, ImageFits, ReadFits
<1>3. PICK p \in Spaces(mode, device) :
        snap = [screen |-> device, list |-> Listed(mode, device), space |-> p]
  BY DEF Snapshots
<1>4. snap.screen = device /\ (mode = "shots" => snap.space # Nil)
  BY <1>2, <1>3, DeviceAssumption DEF Spaces
<1> QED
  BY <1>1, <1>4, DeliverKeeps DEF ReadWorks, setting, phoneVars, agent

LEMMA ReadFailsKeeps == DeviceIInv /\ ReadFails => DeviceIInv'
<1> SUFFICES ASSUME DeviceIInv, ReadFails PROVE DeviceIInv'
  OBVIOUS
<1>1. /\ stage \in Reading /\ UNCHANGED <<setting, device, agent, recorded, touch>>
      /\ \/ UNCHANGED <<drift, prompt, flags, stage, pre>>
         \/ GiveUp /\ stage' = AfterRead[stage]
         \/ mode = "ios" /\ Deliver(NoSnapshot) /\ stage' = AfterRead[stage]
  BY DEF ReadFails
<1>2. CASE UNCHANGED <<drift, prompt, flags, stage, pre>>
  BY <1>1, <1>2, RecordedStays DEF DeviceIInv, ImageFits, ReadFits, PointLandsWhereSeen, setting,
     agent,
     prompt, Seen
<1>3. CASE GiveUp /\ stage' = AfterRead[stage]
  <2>1. RecordedFits'
    BY <1>1, RecordedStays DEF DeviceIInv, setting
  <2>2. CASE stage = "read"
    <3>1. blind' = TRUE /\ image' \in Attached(flags) /\ UNCHANGED <<ui, pre>> /\ stage' = "ask"
      BY <1>3, <2>2 DEF GiveUp, AfterRead, Reading
    <3> QED BY <1>1, <2>1, <3>1 DEF DeviceIInv, ImageFits, ReadFits, Attached, PointLandsWhereSeen,
            setting, agent
  <2>3. CASE stage \in {"pre", "focus"}
    <3>1. /\ pre' = [snap |-> ui, read |-> FALSE] /\ UNCHANGED prompt
          /\ stage' = IF stage = "pre" THEN "act" ELSE "type"
      BY <1>3, <2>3 DEF GiveUp, AfterRead, Reading
    <3>2. ImageFits' /\ PointLandsWhereSeen'
      BY <1>1, <2>3, <3>1 DEF DeviceIInv, ImageFits, Seen, prompt, PointLandsWhereSeen, setting,
         agent
    <3>3. ReadFits'
      BY <1>1, <3>1 DEF DeviceIInv, ReadFits, prompt
    <3> QED BY <2>1, <3>2, <3>3 DEF DeviceIInv
  <2> QED BY <1>1, <2>2, <2>3 DEF Reading
<1>4. CASE mode = "ios" /\ Deliver(NoSnapshot) /\ stage' = AfterRead[stage]
  <2>1. NoSnapshot.screen = Nil
    BY DEF NoSnapshot
  <2> QED BY <1>1, <1>4, <2>1, DeliverKeeps DEF setting, agent
<1> QED BY <1>1, <1>2, <1>3, <1>4

LEMMA DecideKeeps == DeviceIInv /\ (BeginTurn \/ Decide) => DeviceIInv'
<1> SUFFICES ASSUME DeviceIInv, BeginTurn \/ Decide PROVE DeviceIInv'
  OBVIOUS
<1>1. CASE BeginTurn
  BY <1>1, RecordedStays DEF BeginTurn, DeviceIInv, ImageFits, ReadFits, PointLandsWhereSeen,
     setting,
     phoneVars, prompt, recorded, Seen
<1>2. CASE Decide
  <2>1. /\ stage = "ask" /\ UNCHANGED <<setting, phoneVars, drift, prompt, flags, recorded>>
        /\ touch' = NoTouch
        /\ \/ /\ stage' \in {"observe", "over"} /\ UNCHANGED pre
           \/ \E c \in Calls : call' = c /\ \/ stage' = "ask" /\ UNCHANGED pre
                                            \/ ReadFirst(<<"pre", "act">>)
    BY <1>2 DEF Decide, Choose, recorded
  <2>2. RecordedFits'
    BY <2>1, RecordedStays DEF DeviceIInv, setting
  <2>3. PointLandsWhereSeen' /\ touch'.tool # "point"
    BY <2>1 DEF NoTouch, PointLandsWhereSeen
  <2>4. CASE stage' \in {"observe", "over", "ask"} /\ UNCHANGED pre
    <3>1. ImageFits' /\ ReadFits'
      BY <2>1, <2>3, <2>4 DEF DeviceIInv, ImageFits, ReadFits, setting, phoneVars, prompt
    <3> QED BY <2>2, <2>3, <3>1 DEF DeviceIInv
  <2>5. CASE \E c \in Calls : call' = c /\ ReadFirst(<<"pre", "act">>)
    <3>1. PICK c \in Calls : call' = c /\ ReadFirst(<<"pre", "act">>)
      BY <2>5
    <3>2. c.tool = "point" => c.names \in Seen
      BY DEF Calls
    <3>3. \/ stage' = "pre" /\ UNCHANGED pre
          \/ stage' = "act" /\ pre' = [snap |-> ui, read |-> FALSE]
      BY <3>1 DEF ReadFirst
    <3>4. ImageFits'
      BY <2>1, <2>3, <3>1, <3>2, <3>3 DEF DeviceIInv, ImageFits, setting, prompt, Seen
    <3>5. ReadFits'
      BY <2>1, <3>3 DEF DeviceIInv, ReadFits, phoneVars, prompt
    <3> QED BY <2>2, <2>3, <3>4, <3>5 DEF DeviceIInv
  <2> QED BY <2>1, <2>4, <2>5
<1> QED BY <1>1, <1>2

\* A point is converted from the space that the image had.
LEMMA PointConverted ==
  ASSUME ImageFits, stage = "act", call.tool = "point", MayPoint, ~blind
  PROVE  Converted(call) = Meant(call)
<1>1. call.names = "bounds" \/ (call.names = "image" /\ image # "none")
  BY DEF ImageFits, Seen
<1>2. CASE call.names = "image" /\ image # "none"
  <2>1. mode \in {"vision", "ios", "shots"}
    BY <1>2, DeviceAssumption DEF ImageFits, AllModes
  <2>2. ui.space # Nil
    BY <2>1 DEF ImageFits, MayPoint
  <2> QED BY <1>2, <2>2 DEF ImageFits, Converted
<1> QED BY <1>1, <1>2 DEF Converted

LEMMA ActKeeps ==
  DeviceIInv /\ (Click \/ Point \/ Focus \/ TypeText \/ Press \/ Open \/ WaitFor) => DeviceIInv'
<1> SUFFICES ASSUME DeviceIInv, Click \/ Point \/ Focus \/ TypeText \/ Press \/ Open \/ WaitFor
             PROVE  DeviceIInv'
  OBVIOUS
<1>a. stage \in {"act", "type"}
  BY DEF Click, Point, Focus, TypeText, Press, Open, WaitFor
<1>b. touch.tool # "point"
  BY <1>a DEF DeviceIInv, ImageFits
<1>1. CASE Fail
  BY <1>1, <1>a, BackKeeps, RecordedStays DEF Fail, DeviceIInv, setting, agent
<1>2. CASE \E act \in {"drive", "secret"} : Drive(act, Back) /\ UNCHANGED touch
  BY <1>2, <1>a, <1>b, DriveKeeps DEF PointLandsWhereSeen
<1>3. CASE Declined /\ UNCHANGED touch
  <2>1. RecordedFits'
    BY <1>3, <1>a, RecordKeeps DEF Declined, DeviceIInv, setting
  <2> QED BY <1>3, <1>a, <2>1, BackKeeps DEF Declined, agent
<1>4. CASE Click
  <2>1. Fail \/ (touch'.tool = "click" /\ Drive("drive", Back))
    BY <1>4 DEF Click
  <2>2. CASE touch'.tool = "click" /\ Drive("drive", Back)
    BY <1>a, <2>2, DriveKeeps DEF PointLandsWhereSeen
  <2> QED BY <1>1, <2>1, <2>2
<1>5. CASE Point
  <2>1. CASE ~MayPoint
    BY <1>1, <1>5, <2>1 DEF Point
  <2>2. CASE MayPoint
    <3>1. /\ touch' = [tool |-> "point", wants |-> Meant(call), at |-> Converted(call),
                       met |-> device]
          /\ Drive("drive", Back) /\ stage = "act" /\ call.tool = "point"
      BY <1>5, <2>2 DEF Point
    <3>2. blind' = blind
      BY <3>1 DEF Drive, prompt
    <3>3. PointLandsWhereSeen'
      BY <2>2, <3>1, <3>2, PointConverted DEF DeviceIInv, PointLandsWhereSeen
    <3> QED BY <1>a, <3>1, <3>3, DriveKeeps
  <2> QED BY <2>1, <2>2
<1>6. CASE Focus
  <2>1. CASE call.index = 0
    <3>1. /\ stage = "act" /\ stage' = "type" /\ call.tool # "point"
          /\ UNCHANGED <<setting, phoneVars, drift, prompt, agent, pre, recorded, touch>>
      BY <1>6, <2>1 DEF Focus
    <3>2. RecordedFits'
      BY <3>1, RecordedStays DEF DeviceIInv, setting
    <3>3. ImageFits' /\ ReadFits' /\ PointLandsWhereSeen'
      BY <3>1 DEF DeviceIInv, ImageFits, ReadFits, PointLandsWhereSeen, setting, phoneVars,
         prompt, agent
    <3> QED BY <3>2, <3>3 DEF DeviceIInv
  <2>2. CASE Drive("drive", ReadFirst(<<"focus", "type">>)) /\ UNCHANGED touch
    <3>1. RecordedFits'
      BY <1>a, <2>2, RecordKeeps DEF Drive, setting, recorded, DeviceIInv
    <3>2. /\ device' \in Views /\ UNCHANGED <<mode, ui, image, blind, call, touch>>
          /\ \/ stage' = "ask" /\ pre' = NoPre
             \/ stage' = "focus" /\ pre' = pre
             \/ stage' = "type" /\ pre' = [snap |-> ui, read |-> FALSE]
      BY <2>2 DEF Drive, ReadFirst, setting, prompt, agent
    <3>3. ImageFits' /\ PointLandsWhereSeen'
      BY <1>b, <3>2 DEF DeviceIInv, ImageFits, PointLandsWhereSeen
    <3>4. ReadFits'
      BY <3>2 DEF DeviceIInv, ReadFits, NoPre, NoSnapshot
    <3> QED BY <3>1, <3>3, <3>4 DEF DeviceIInv
  <2> QED BY <1>1, <1>6, <2>1, <2>2 DEF Focus
<1>7. CASE TypeText
  <2>1. \/ \E act \in {"drive", "secret"} : Drive(act, Back) /\ UNCHANGED touch
        \/ Declined /\ UNCHANGED touch
    <3>1. CASE call.tool = "type"
      BY <1>7, <3>1 DEF TypeText
    <3>2. CASE call.tool # "type"
      BY <1>7, <3>2 DEF TypeText
    <3> QED BY <3>1, <3>2
  <2> QED BY <1>2, <1>3, <2>1
<1>8. CASE Press \/ Open
  BY <1>1, <1>2, <1>3, <1>8 DEF Press, Open
<1>9. CASE WaitFor
  <2>1. RecordedFits'
    BY <1>9, <1>a, RecordKeeps DEF WaitFor, DeviceIInv, setting
  <2> QED BY <1>9, <1>a, <2>1, BackKeeps DEF WaitFor, agent
<1> QED BY <1>4, <1>5, <1>6, <1>7, <1>8, <1>9

\* The phone moves by itself, or its service dies.
LEMMA PhoneKeeps ==
  ASSUME DeviceIInv, PhoneMoves \/ ServiceDies
  PROVE  DeviceIInv'
<1>1. RecordedFits'
  BY RecordedStays DEF DeviceIInv, PhoneMoves, ServiceDies, setting
<1>2. ImageFits' /\ PointLandsWhereSeen'
  BY DEF DeviceIInv, ImageFits, PointLandsWhereSeen, PhoneMoves, ServiceDies, setting, prompt,
     agent, Seen
<1>3. ReadFits'
  BY DEF DeviceIInv, ReadFits, PhoneMoves, ServiceDies, prompt
<1> QED BY <1>1, <1>2, <1>3 DEF DeviceIInv

-----------------------------------------------------------------------------
(* The replay.                                                             *)

\* What the player does leaves what was recorded, and the last touch, alone.
LEMMA RunRests ==
  ASSUME DeviceIInv, stage = "over", device' \in Views,
         UNCHANGED <<mode, prompt, stage, call, pre, recorded, touch>>
  PROVE  DeviceIInv'
<1>1. RecordedFits'
  BY RecordedStays DEF DeviceIInv
<1>2. ImageFits' /\ ReadFits' /\ PointLandsWhereSeen'
  BY DEF DeviceIInv, ImageFits, ReadFits, PointLandsWhereSeen, prompt
<1> QED BY <1>1, <1>2 DEF DeviceIInv

LEMMA LoadKeeps ==
  ASSUME DeviceIInv, PlayerFits, Load
  PROVE  DeviceIInv' /\ PlayerFits' /\ ReplayMeetsWhatWasMet'
<1>1. /\ stage = "over" /\ stage' = "over" /\ mode' = "plain" /\ mode # "ios"
      /\ ui' = NoSnapshot /\ image' = "none" /\ blind' = FALSE /\ actions' = <<>> /\ log' = <<>>
      /\ player = "idle" /\ player' = "step" /\ step' = 1
      /\ UNCHANGED <<phoneVars, call, pre, touch, replayed>>
  BY DEF Load
<1>2. DeviceIInv'
  <2>1. ImageFits' /\ PointLandsWhereSeen'
    BY <1>1 DEF DeviceIInv, ImageFits, PointLandsWhereSeen, AllModes
  <2>2. ReadFits' /\ RecordedFits'
    BY <1>1 DEF DeviceIInv, ReadFits, RecordedFits, NoSnapshot, phoneVars
  <2> QED BY <2>1, <2>2 DEF DeviceIInv
<1>3. macro' \in Seq(MacroKept)
  <2>1. PICK first \in 1..Len(Saved) + 1, last \in 0..Len(Saved) :
          macro' = SubSeq(Saved, first, last)
    BY DEF Load
  <2>2. Saved \in Seq(Kept(mode)) /\ mode \in AllModes
    BY DEF DeviceIInv, RecordedFits, ImageFits, Saved
  <2>3. Kept(mode) \subseteq MacroKept
    BY <1>1, <2>2 DEF MacroKept
  <2> DEFINE K == Kept(mode)
             q == Saved
  <2>4. q \in Seq(K) /\ K \subseteq MacroKept
    BY <2>2, <2>3
  <2> HIDE DEF K, q
  <2>5. Len(q) \in Nat /\ \A i \in 1..Len(q) : q[i] \in MacroKept
    BY <2>4, LenProperties
  <2>6. first \in Int /\ last \in Int /\ 1 <= first /\ last <= Len(q)
    BY <2>5 DEF q
  <2>7. \A i \in first..last : q[i] \in MacroKept
    BY <2>5, <2>6
  <2>8. SubSeq(q, first, last) \in Seq(MacroKept)
    BY <2>6, <2>7, SubSeqProperties
  <2> QED BY <2>1, <2>8 DEF q
<1>4. PlayerFits'
  BY <1>1, <1>3 DEF PlayerFits, Kept
<1>5. ReplayMeetsWhatWasMet'
  <2>1. replayed'.step = 0
    BY <1>1 DEF PlayerFits, NotReplayed
  <2>2. 0 \notin DOMAIN macro'
    BY <1>3, LenProperties
  <2> QED BY <2>1, <2>2 DEF ReplayMeetsWhatWasMet
<1> QED BY <1>2, <1>4, <1>5

LEMMA PlayerKeeps ==
  ASSUME DeviceIInv, PlayerFits, ReplayMeetsWhatWasMet,
         NextStep \/ Look \/ LookFails \/ Match \/ HandOver
  PROVE  DeviceIInv' /\ PlayerFits' /\ ReplayMeetsWhatWasMet'
<1>a. /\ player # "idle" /\ stage = "over" /\ mode = "plain"
      /\ macro \in Seq(MacroKept) /\ Len(macro) \in Nat /\ DOMAIN macro = 1..Len(macro)
      /\ step \in Nat
  BY LenProperties DEF PlayerFits, NextStep, Look, LookFails, Match, HandOver
<1>b. /\ device' \in Views /\ UNCHANGED <<mode, prompt, stage, call, pre, recorded, touch>>
      /\ UNCHANGED <<macro, step, replayed>>
  BY DEF NextStep, Look, LookFails, Match, HandOver, deviceVars, setting, phoneVars, agent,
     recorded,
     DeviceIInv, ReadFits, course
<1>c. DeviceIInv' /\ ReplayMeetsWhatWasMet'
  BY <1>a, <1>b, RunRests DEF ReplayMeetsWhatWasMet
<1> SUFFICES PlayerFits'
  BY <1>c
<1>1. CASE NextStep
  BY <1>a, <1>b, <1>1 DEF NextStep, Finish, PlayerFits, deviceVars
<1>2. CASE Look
  BY <1>a, <1>b, <1>2 DEF Look, PlayerFits, phoneVars
<1>3. CASE LookFails
  BY <1>a, <1>b, <1>3 DEF LookFails, Finish, PlayerFits
<1>4. CASE Match
  BY <1>a, <1>b, <1>4 DEF Match, Finish, PlayerFits, deviceVars, phoneVars
<1>5. CASE HandOver
  BY <1>a, <1>b, <1>5 DEF HandOver, Finish, PlayerFits
<1> QED BY <1>1, <1>2, <1>3, <1>4, <1>5

\* The action that is begun meets what its guard has let through.
LEMMA ReplayedMeets ==
  ASSUME DeviceIInv, PlayerFits, player = "act", ~drift,
         macro[step].met # Nil, macro[step].guard # {}
  PROVE  Similar(Elements("plain", device), Elements("plain", macro[step].met))
<1> DEFINE e == macro[step]
<1>1. e \in MacroKept
  BY LenProperties DEF PlayerFits
<1>2. PICK m \in AllModes \ {"ios"} : e \in Kept(m)
  BY <1>1 DEF MacroKept
<1>3. e.met \in Views /\ e.guard = Elements(m, e.met)
  BY <1>2 DEF Kept
<1>4. Elements(m, e.met) \in SUBSET Range(Layout[e.met])
  BY <1>2 DEF Elements, AllModes
<1>5. e.guard # Nil
  BY <1>3, <1>4, DeviceAssumption
<1>6. seen \in {{}, Elements("plain", device)} /\ Similar(e.guard, seen)
  BY <1>5 DEF PlayerFits
<1>7. seen # {}
  <2>1. IsFiniteSet(e.guard)
    BY <1>2, <1>3, ElementsFinite
  <2> QED BY <1>6, <2>1, NothingIsSimilar
<1>8. device \in Views
  BY DEF DeviceIInv, ReadFits
<1> QED BY <1>2, <1>3, <1>6, <1>7, <1>8, SimilarWithoutKeys

LEMMA ActionReplayed ==
  ASSUME DeviceIInv, PlayerFits, ReplayMeetsWhatWasMet, Act
  PROVE  DeviceIInv' /\ PlayerFits' /\ ReplayMeetsWhatWasMet'
<1>1. /\ player = "act" /\ player' = "step" /\ step' = step + 1
      /\ replayed' = [step |-> step, screen |-> device, drift |-> drift]
      /\ device' \in {device} \cup Views
      /\ UNCHANGED <<mode, prompt, stage, call, pre, recorded, touch, macro>>
  BY DEF Act, setting, agent, recorded
<1>2. stage = "over" /\ mode = "plain" /\ device \in Views
  BY <1>1 DEF PlayerFits, DeviceIInv, ReadFits
<1>3. DeviceIInv'
  BY <1>1, <1>2, RunRests
<1>4. PlayerFits'
  BY <1>1, <1>2 DEF PlayerFits
<1>5. ReplayMeetsWhatWasMet'
  BY <1>1, ReplayedMeets DEF ReplayMeetsWhatWasMet
<1> QED BY <1>3, <1>4, <1>5

LEMMA ReplayNextInvariant == ReplayIInv /\ [ReplayNext]_replayVars => ReplayIInv'
<1> SUFFICES ASSUME DeviceIInv, PlayerFits, ReplayMeetsWhatWasMet, [ReplayNext]_replayVars
             PROVE  DeviceIInv' /\ PlayerFits' /\ ReplayMeetsWhatWasMet'
  BY DEF ReplayIInv, DeviceIInv
<1>1. CASE UNCHANGED replayVars
  <2>1. RecordedFits'
    BY <1>1, RecordedStays DEF DeviceIInv, replayVars, deviceVars, setting, recorded
  <2>2. DeviceIInv'
    BY <1>1, <2>1 DEF DeviceIInv, ImageFits, ReadFits, PointLandsWhereSeen, replayVars, deviceVars,
       setting, phoneVars, prompt, agent, Seen
  <2>3. PlayerFits' /\ ReplayMeetsWhatWasMet'
    BY <1>1 DEF PlayerFits, ReplayMeetsWhatWasMet, replayVars, deviceVars, setting, phoneVars,
       playerVars
  <2> QED BY <2>2, <2>3
<1>2. CASE DeviceNext /\ UNCHANGED playerVars
  <2>1. stage # "over"
    BY <1>2 DEF DeviceNext, AgentActs, BeginTurn, ReadWorks, ReadFails, Decide, Click, Point, Focus,
       TypeText, Press, Open, WaitFor, Reading
  <2>2. DeviceIInv'
    BY <1>2, ReadWorksKeeps, ReadFailsKeeps, DecideKeeps, ActKeeps, PhoneKeeps
       DEF DeviceNext, AgentActs
  <2> QED BY <1>2, <2>1, <2>2, PlayerRests
<1>3. CASE Load
  BY <1>3, LoadKeeps
<1>4. CASE Player
  BY <1>4, PlayerKeeps, ActionReplayed DEF Player
<1>5. CASE player \notin {"idle", "done"} /\ (PhoneMoves \/ ServiceDies) /\ UNCHANGED playerVars
  <2>1. DeviceIInv'
    BY <1>5, PhoneKeeps
  <2>2. PlayerFits'
    BY <1>5 DEF PlayerFits, PhoneMoves, ServiceDies, playerVars, setting
  <2>3. ReplayMeetsWhatWasMet'
    BY <1>5 DEF ReplayMeetsWhatWasMet, playerVars
  <2> QED BY <2>1, <2>2, <2>3
<1> QED BY <1>1, <1>2, <1>3, <1>4, <1>5 DEF ReplayNext

\* Recorder and player know the screens they act on: the first has read them
\* for the entry, the second has compared them with it (_macro_pre_ui,
\* wait_for_pre_state).
THEOREM ReplayInvariant == ReplaySpec => []ReplayIInv
  BY ReplayInitInvariant, ReplayNextInvariant, PTL DEF ReplaySpec

\* A point is tapped where the model saw it, whatever the recorder has read in
\* between (convert_point).
THEOREM PointLandsWhereSeenHolds == ReplaySpec => []PointLandsWhereSeen
<1>1. ReplayIInv => PointLandsWhereSeen
  BY DEF ReplayIInv
<1> QED BY <1>1, ReplayInvariant, PTL

\* An action is replayed on a screen like the one that was recorded, also when
\* the recording had the keyboard and the player does not see it
\* (compare_states).
THEOREM ReplayMeetsWhatWasMetHolds == ReplaySpec => []ReplayMeetsWhatWasMet
<1>1. ReplayIInv => ReplayMeetsWhatWasMet
  BY DEF ReplayIInv
<1> QED BY <1>1, ReplayInvariant, PTL

-----------------------------------------------------------------------------
(* The taps.                                                               *)

\* The turn's numbers are those of its screen.
ListFits == ui = NoSnapshot \/ (ui.screen \in Views /\ ui.list = Listed(mode, ui.screen))

\* A call that is about to click is meant for the turn's screen, and a label it quotes matches
\* the element whose number it gives.
CallFits ==
  stage \in {"pre", "act"} /\ call.tool = "click" =>
    /\ call.on = ui.screen
    /\ call.names # Nil /\ call.index \in DOMAIN ui.list => ui.list[call.index] \in Fits[call.names]

\* The last touch is forgotten before the next call or turn.
TapIInv == (touch.tool # "none" => stage = "ask") /\ ListFits /\ CallFits /\ TapHitsWhatWasRead

LEMMA TapInitInvariant == ReplayInit => TapIInv
BY DEF ReplayInit, DeviceInit, TapIInv, ListFits, CallFits, TapHitsWhatWasRead, NoTouch

\* While nothing is touched there is the call alone.
LEMMA NothingTouched ==
  ASSUME touch'.tool = "none", ListFits', CallFits'
  PROVE  TapIInv'
BY DEF TapIInv, TapHitsWhatWasRead

\* The call goes on as it was chosen, or there is none to go on with.
LEMMA CallStays ==
  ASSUME TapIInv, stage # "ask", touch' = touch,
         ListFits',
         \/ stage' \notin {"pre", "act"}
         \/ stage \in {"pre", "act"} /\ UNCHANGED <<ui, call>>
  PROVE  TapIInv'
<1>1. touch'.tool = "none"
  BY DEF TapIInv
<1>2. CallFits'
  BY DEF TapIInv, CallFits
<1> QED BY <1>1, <1>2, NothingTouched

\* The list goes with the snapshot, which is replaced as a whole.
LEMMA ListStays ==
  ASSUME ListFits, UNCHANGED <<mode, ui>> \/ ui' = NoSnapshot
  PROVE  ListFits'
BY DEF ListFits

LEMMA DecideTouches == TapIInv /\ Decide => TapIInv'
<1> SUFFICES ASSUME TapIInv, Decide PROVE TapIInv'
  OBVIOUS
<1>1. /\ touch' = NoTouch /\ UNCHANGED <<mode, ui>>
      /\ \/ stage' \in {"ask", "observe", "over"}
         \/ \E c \in Calls : call' = c /\ ~Refused(c)
  BY DEF Decide, Choose, setting, prompt
<1>2. CallFits'
  <2>1. CASE stage' \in {"ask", "observe", "over"}
    BY <2>1 DEF CallFits
  <2>2. CASE \E c \in Calls : call' = c /\ ~Refused(c)
    <3>1. PICK c \in Calls : call' = c /\ ~Refused(c)
      BY <2>2
    <3>2. c.tool = "click" => c.on = ui.screen
      BY DEF Calls
    <3>3. c.tool = "click" /\ c.names # Nil /\ c.index \in DOMAIN ui.list =>
            ui.list[c.index] \in Fits[c.names]
      BY <3>1 DEF Refused
    <3> QED BY <1>1, <3>1, <3>2, <3>3 DEF CallFits
  <2> QED BY <1>1, <2>1, <2>2
<1>3. ListFits'
  BY <1>1, ListStays DEF TapIInv
<1> QED BY <1>1, <1>2, <1>3, NothingTouched DEF NoTouch

\* The point of the element is looked up on the screen of the call, and met on the same.
LEMMA ClickTouches == ReplayIInv /\ TapIInv /\ Click => TapIInv'
<1> SUFFICES ASSUME ReplayIInv, TapIInv, Click PROVE TapIInv'
  OBVIOUS
<1>1. stage = "act" /\ call.tool = "click"
  BY DEF Click
<1>4. UNCHANGED <<mode, ui, call>> /\ ListFits'
  <2>1. UNCHANGED <<mode, ui, call>>
    BY DEF Click, Fail, Drive, setting, prompt, agent
  <2> QED BY <2>1, ListStays DEF TapIInv
<1>2. CASE Fail
  BY <1>1, <1>2, <1>4, CallStays DEF Fail, Back
<1>3. CASE ~Fail
  <2> DEFINE e == ui.list[call.index]
             p == TapPoint(ui.screen, e)
  <2>1. /\ call.index \in DOMAIN ui.list /\ p # Nil /\ Drive("drive", Back)
        /\ touch' = [tool |-> "click", wants |-> Nil, at |-> p, met |-> device]
    BY <1>3 DEF Click
  <2>2. stage' = "ask"
    BY <2>1 DEF Drive, Back
  <2>3. TapHitsWhatWasRead'
    <3> SUFFICES ASSUME device = call.on
                 PROVE  LET q == Listed(mode, device)
                            d == q[call.index]
                        IN  /\ call.index \in DOMAIN q
                            /\ call.names # Nil => d \in Fits[call.names]
                            /\ Inside(p, BoundsOf[device][d])
                            /\ mode # "ios" => \A b \in Blockers(device, d) : ~Inside(p, b)
      <4> HIDE DEF p
      <4> QED BY <1>4, <2>1 DEF TapHitsWhatWasRead
    <3>1. ui.screen = device /\ (call.names # Nil => e \in Fits[call.names])
      BY <1>1, <2>1 DEF TapIInv, CallFits
    <3>2. device \in Views /\ device # Nil
      BY DeviceAssumption DEF ReplayIInv, ReadFits
    <3>3. ui.list = Listed(mode, device)
      BY <3>1, <3>2 DEF TapIInv, ListFits, NoSnapshot
    <3>4. e \in Range(Layout[device])
      <4>1. Listed(mode, device) \in Seq(Range(Layout[device]))
        BY <3>2, ListedFits
      <4> QED BY <2>1, <3>3, <4>1, ElementOfSeq, LenProperties
    <3>5. /\ Inside(p, BoundsOf[device][e])
          /\ mode # "ios" => \A b \in Blockers(device, e) : ~Inside(p, b)
      BY <2>1, <3>1, <3>2, <3>4, TapPointHits
    <3> HIDE DEF p
    <3> QED BY <2>1, <3>1, <3>3, <3>5
  <2> QED BY <1>4, <2>1, <2>2, <2>3 DEF TapIInv, CallFits
<1> QED BY <1>2, <1>3

LEMMA RunTouches ==
  ASSUME ReplayIInv, TapIInv, DeviceNext
  PROVE  TapIInv'
<1>a. ListFits
  BY DEF TapIInv
<1>1. CASE BeginTurn
  BY <1>1, <1>a, ListStays, CallStays DEF BeginTurn, setting, prompt
<1>2. CASE ReadWorks \/ ReadFails
  <2>1. /\ stage \in Reading /\ UNCHANGED <<mode, call, touch>>
        /\ \/ stage' = stage /\ ui' = ui
           \/ stage' = AfterRead[stage] /\ (stage = "read" \/ ui' = ui)
    BY <1>2 DEF ReadWorks, ReadFails, Deliver, GiveUp, setting, agent, prompt
  <2>2. \/ stage' \notin {"pre", "act"}
        \/ stage \in {"pre", "act"} /\ ui' = ui
    BY <2>1 DEF Reading, AfterRead
  <2>3. stage # "ask"
    BY <2>1 DEF Reading
  <2>4. \/ ui' \in {ui, NoSnapshot}
        \/ \E snap \in Snapshots(mode, device) : ui' = snap
    BY <1>2 DEF ReadWorks, ReadFails, Deliver, GiveUp, prompt
  <2>5. ListFits'
    <3>1. CASE ui' \in {ui, NoSnapshot}
      BY <1>a, <2>1, <3>1, ListStays
    <3>2. CASE \E snap \in Snapshots(mode, device) : ui' = snap
      <4>1. device \in Views
        BY DEF ReplayIInv, ReadFits
      <4>2. ui'.screen = device /\ ui'.list = Listed(mode, device)
        BY <3>2 DEF Snapshots
      <4> QED BY <2>1, <4>1, <4>2 DEF ListFits
    <3> QED BY <2>4, <3>1, <3>2
  <2> QED BY <2>1, <2>2, <2>3, <2>5, CallStays
<1>3. CASE Decide
  BY <1>3, DecideTouches
<1>4. CASE Click
  BY <1>4, ClickTouches
<1>5. CASE Point
  <2>1. stage = "act"
    BY <1>5 DEF Point
  <2>2. CASE ~MayPoint
    BY <1>5, <1>a, <2>1, <2>2, ListStays, CallStays DEF Point, Fail, Back, setting, prompt
  <2>3. CASE MayPoint
    <3>1. touch'.tool = "point" /\ stage' = "ask" /\ UNCHANGED <<mode, ui>>
      BY <1>5, <2>3 DEF Point, Drive, Back, setting, prompt
    <3>2. ListFits'
      BY <1>a, <3>1, ListStays
    <3> QED BY <3>1, <3>2 DEF TapIInv, CallFits, TapHitsWhatWasRead
  <2> QED BY <2>2, <2>3
<1>6. CASE Focus \/ TypeText \/ Press \/ Open \/ WaitFor
  <2>1. stage \in {"act", "type"} /\ touch' = touch /\ UNCHANGED <<mode, ui>>
    BY <1>6 DEF Focus, TypeText, Press, Open, WaitFor, Fail, Drive, Declined, setting, prompt
  <2>2. stage' \in {"ask", "focus", "type"}
    BY <1>6 DEF Focus, TypeText, Press, Open, WaitFor, Fail, Back, Drive, Declined, ReadFirst
  <2>3. ListFits'
    BY <1>a, <2>1, ListStays
  <2> QED BY <2>1, <2>2, <2>3, CallStays
<1>7. CASE PhoneMoves \/ ServiceDies
  BY <1>7 DEF PhoneMoves, ServiceDies, TapIInv, ListFits, CallFits, TapHitsWhatWasRead, setting,
     prompt, agent
<1> QED BY <1>1, <1>2, <1>3, <1>4, <1>5, <1>6, <1>7 DEF DeviceNext, AgentActs

LEMMA TapNextInvariant == ReplayIInv /\ TapIInv /\ [ReplayNext]_replayVars => TapIInv'
<1> SUFFICES ASSUME ReplayIInv, TapIInv, [ReplayNext]_replayVars PROVE TapIInv'
  OBVIOUS
<1>1. CASE DeviceNext
  BY <1>1, RunTouches
<1>a. ListFits
  BY DEF TapIInv
<1>2. CASE Load
  BY <1>2, <1>a, ListStays, CallStays DEF Load
<1>3. CASE Player
  <2>1. stage = "over"
    BY <1>3 DEF Player, NextStep, Look, LookFails, Match, Act, HandOver, ReplayIInv, PlayerFits
  <2>2. stage' = stage /\ touch' = touch
    BY <1>3 DEF Player, NextStep, Look, LookFails, Match, Act, HandOver, deviceVars
  <2>3. ListFits'
    <3>1. UNCHANGED <<mode, ui>>
      BY <1>3 DEF Player, NextStep, Look, LookFails, Match, Act, HandOver, deviceVars, setting,
         prompt
    <3> QED BY <1>a, <3>1, ListStays
  <2> QED BY <2>1, <2>2, <2>3, CallStays
<1>4. CASE (PhoneMoves \/ ServiceDies) \/ UNCHANGED replayVars
  <2>1. UNCHANGED <<mode, ui, call, stage, touch>>
    BY <1>4 DEF PhoneMoves, ServiceDies, replayVars, deviceVars, setting, prompt, agent
  <2> QED BY <2>1 DEF TapIInv, ListFits, CallFits, TapHitsWhatWasRead
<1> QED BY <1>1, <1>2, <1>3, <1>4 DEF ReplayNext

\* A click on the screen the model read taps the element that had the number
\* there, one that carries the quoted label, and nothing of its window that is
\* drawn over it, whatever the recorder has read in between: number and label
\* are looked up in the turn's list, and the point is one that no blocker has
\* (_verify_target, get_element_coords).
THEOREM TapHitsWhatWasReadHolds == ReplaySpec => []TapHitsWhatWasRead
<1>1. ReplayInit => TapIInv
  BY TapInitInvariant
<1>2. ReplayIInv /\ TapIInv /\ [ReplayNext]_replayVars => TapIInv'
  BY TapNextInvariant
<1>3. TapIInv => TapHitsWhatWasRead
  BY DEF TapIInv
<1> QED BY <1>1, <1>2, <1>3, ReplayInvariant, PTL DEF ReplaySpec
===============================================================================
