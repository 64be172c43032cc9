--------------------------- MODULE RunManagerProofs ---------------------------
(***************************************************************************)
(* Theorems about RunManager for any set of runs and phones: one run       *)
(* drives a phone, a live run is registered, a run has one ending, and the *)
(* manager implements Executor.                                            *)
(***************************************************************************)
EXTENDS RunManager, TLAPS

\* Phases of a run that is being started or driven.
Alive == Running \cup {"listing", "created", "stranded"}

\* What the phase of a run says of its registration and its ending.
PhasesMatch ==
  \A r \in Runs :
    /\ phase[r] \in Alive => r \in runs /\ published[r] = <<>>
    /\ phase[r] \in {"new", "withdrawn"} => r \notin runs /\ published[r] = <<>>
    /\ phase[r] \in {"restoring", "over"} =>
         \E e \in Endings : published[r] = <<e>>
    /\ phase[r] = "restoring" => previous[r] # "none"
    /\ expired[r] => Done(r)

\* What a stop has left: only a run with a task is cancelled, and only one
\* whose agent was there is still being stopped.
StopsMatch ==
  \A r \in Runs :
    /\ cancelled[r] \/ stopping[r] \/ phase[r] = "stranded" => cancelAsked[r]
    /\ cancelAsked[r] => HasTask(r)
    /\ stopping[r] => phase[r] \in {"goal", "end", "restoring", "over"}

\* One run of a phone is registered and not done.
OneLivePerDevice ==
  \A r, o \in runs : Dev(r) = Dev(o) /\ ~Done(r) /\ ~Done(o) => r = o

IInv == /\ TypeOK /\ PhasesMatch /\ StopsMatch /\ EndedIsKept
        /\ OneLivePerDevice

-----------------------------------------------------------------------------
(* Preservation, one part of IInv at a time.                               *)

\* The first ending a run publishes is the only one: "cancelled" if a stop was
\* asked for.
LEMMA PublishFirst ==
  ASSUME NEW r \in Runs, NEW e \in Endings, Publish(r, e),
         published \in [Runs -> Seq(Endings)], published[r] = <<>>
  PROVE  \E f \in Endings :
           /\ f = IF cancelAsked[r] THEN "cancelled" ELSE e
           /\ published' = [published EXCEPT ![r] = <<f>>]
<1>1. Append(published[r], IF cancelAsked[r] THEN "cancelled" ELSE e)
        = <<IF cancelAsked[r] THEN "cancelled" ELSE e>>
  OBVIOUS
<1>2. "cancelled" \in Endings
  BY DEF Endings
<1> QED BY <1>1, <1>2 DEF Publish

\* Values keep their types; an ending is a member of Endings.
LEMMA TypeStep ==
  ASSUME IInv, [Next]_vars
  PROVE  TypeOK'
<1> USE ManagerAssumption
        DEF taskVars, stopVars, phoneVars, Goes, Step, Dev, Done, Running,
            IInv, TypeOK, Phases
<1>1. ASSUME NEW r \in Runs,
              \/ Start(r) \/ StartGoesOn(r) \/ Stop(r) \/ StopTask(r)
              \/ Expire(r)
      PROVE  TypeOK'
  <2>1. CASE Start(r)
    <3>1. runs' \subseteq Runs
      BY <2>1 DEF Start, Swept
    <3>2. phase' = phase \/ phase' = [phase EXCEPT ![r] = "listing"]
      BY <2>1 DEF Start
    <3>3. phase' \in [Runs -> Phases]
      BY <3>2
    <3> QED BY <2>1, <3>1, <3>3 DEF Start
  <2>2. CASE Admit(r)
    BY <2>2 DEF Admit
  <2>3. CASE Withdraw(r)
    BY <2>3 DEF Withdraw
  <2>4. CASE Stop(r)
    BY <2>4 DEF Stop, Swept, HasTask, TaskDone
  <2>5. CASE StopTask(r)
    BY <2>5 DEF StopTask, TaskDone
  <2>6. CASE Expire(r)
    BY <2>6 DEF Expire
  <2> QED BY <1>1, <2>1, <2>2, <2>3, <2>4, <2>5, <2>6 DEF StartGoesOn, Task
<1>2. ASSUME NEW r \in Runs,
             Task(r)
      PROVE  TypeOK'
  <2>1. CASE Begin(r)
    BY <2>1 DEF Begin
  <2>2. CASE NeverBegins(r)
    BY <2>2 DEF NeverBegins
  <2>3. CASE Prepared(r)
    BY <2>3 DEF Prepared
  <2>4. CASE SwitchFails(r)
    <3>1. PICK e \in Endings : Publish(r, e)
      BY <2>4 DEF SwitchFails, Endings
    <3>2. published[r] = <<>>
      BY <2>4 DEF SwitchFails, PhasesMatch, Alive
    <3>3. PICK f \in Endings : published' = [published EXCEPT ![r] = <<f>>]
      BY <3>1, <3>2, PublishFirst DEF TypeOK
    <3>4. <<f>> \in Seq(Endings) /\ <<f>> # <<>>
      OBVIOUS
    <3> QED BY <2>4, <3>3, <3>4 DEF SwitchFails
  <2>5. CASE ReadSetting(r)
    BY <2>5 DEF ReadSetting
  <2>6. CASE PowerOn(r)
    BY <2>6 DEF PowerOn
  <2>7. CASE KeptAwake(r)
    BY <2>7 DEF KeptAwake
  <2>8. CASE KeepAwakeFails(r)
    BY <2>8 DEF KeepAwakeFails
  <2>9. CASE GoalEnds(r)
    <3>1. PICK e \in Endings : Publish(r, e)
      BY <2>9 DEF GoalEnds, Endings
    <3>2. published[r] = <<>>
      BY <2>9 DEF GoalEnds, PhasesMatch, Alive
    <3>3. PICK f \in Endings : published' = [published EXCEPT ![r] = <<f>>]
      BY <3>1, <3>2, PublishFirst DEF TypeOK
    <3>4. <<f>> \in Seq(Endings) /\ <<f>> # <<>>
      OBVIOUS
    <3> QED BY <2>9, <3>3, <3>4 DEF GoalEnds, Finally
  <2>10. CASE EndStep(r)
    BY <2>10 DEF EndStep
  <2>11. CASE EndStepEnds(r)
    <3>1. PICK e \in Endings : Publish(r, e)
      BY <2>11 DEF EndStepEnds, Endings
    <3>2. published[r] = <<>>
      BY <2>11 DEF EndStepEnds, PhasesMatch, Alive
    <3>3. PICK f \in Endings : published' = [published EXCEPT ![r] = <<f>>]
      BY <3>1, <3>2, PublishFirst DEF TypeOK
    <3>4. <<f>> \in Seq(Endings) /\ <<f>> # <<>>
      OBVIOUS
    <3> QED BY <2>11, <3>3, <3>4 DEF EndStepEnds, Finally
  <2>12. CASE Cancelled(r)
    <3>1. PICK e \in Endings : Publish(r, e)
      BY <2>12 DEF Cancelled, Endings
    <3>2. published[r] = <<>>
      BY <2>12 DEF Cancelled, PhasesMatch, Alive
    <3>3. PICK f \in Endings : published' = [published EXCEPT ![r] = <<f>>]
      BY <3>1, <3>2, PublishFirst DEF TypeOK
    <3>4. <<f>> \in Seq(Endings) /\ <<f>> # <<>>
      OBVIOUS
    <3> QED BY <2>12, <3>3, <3>4 DEF Cancelled, Finally
  <2>13. CASE Restore(r)
    BY <2>13 DEF Restore, PhasesMatch
  <2>14. CASE RestoreFails(r)
    BY <2>14 DEF RestoreFails
  <2>15. CASE RestoreCut(r)
    BY <2>15 DEF RestoreCut
  <2> QED BY <1>2, <2>1, <2>2, <2>3, <2>4, <2>5, <2>6, <2>7, <2>8, <2>9,
             <2>10, <2>11, <2>12, <2>13, <2>14, <2>15 DEF StartGoesOn, Task
<1>3. CASE Look
  BY <1>3 DEF Look, Swept
<1>4. CASE UNCHANGED vars
  BY <1>4 DEF vars
<1> QED BY <1>1, <1>2, <1>3, <1>4 DEF Next

\* A run is registered before its task exists, and ends once.
LEMMA PhasesStep ==
  ASSUME IInv, [Next]_vars
  PROVE  PhasesMatch'
<1> USE ManagerAssumption
        DEF taskVars, stopVars, phoneVars, Goes, Step, Dev, Done, Running,
            IInv, TypeOK, Phases, PhasesMatch, StopsMatch, HasTask, Alive
<1>1. ASSUME NEW r \in Runs,
              \/ Start(r) \/ StartGoesOn(r) \/ Stop(r) \/ StopTask(r)
              \/ Expire(r)
      PROVE  PhasesMatch'
  <2>1. CASE Start(r)
    BY <2>1 DEF Start, Busy, Swept
  <2>2. CASE Admit(r)
    BY <2>2 DEF Admit
  <2>3. CASE Withdraw(r)
    BY <2>3 DEF Withdraw
  <2>4. CASE Stop(r)
    BY <2>4 DEF Stop, Swept, HasTask, TaskDone
  <2>5. CASE StopTask(r)
    BY <2>5 DEF StopTask, TaskDone
  <2>6. CASE Expire(r)
    BY <2>6 DEF Expire
  <2> QED BY <1>1, <2>1, <2>2, <2>3, <2>4, <2>5, <2>6 DEF StartGoesOn, Task
<1>2. ASSUME NEW r \in Runs,
             Task(r)
      PROVE  PhasesMatch'
  <2>1. CASE Begin(r)
    BY <2>1 DEF Begin
  <2>2. CASE NeverBegins(r)
    BY <2>2 DEF NeverBegins
  <2>3. CASE Prepared(r)
    BY <2>3 DEF Prepared
  <2>4. CASE SwitchFails(r)
    <3>1. PICK e \in Endings : Publish(r, e)
      BY <2>4 DEF SwitchFails, Endings
    <3>2. published[r] = <<>>
      BY <2>4 DEF SwitchFails, PhasesMatch, Alive
    <3>3. PICK f \in Endings : published' = [published EXCEPT ![r] = <<f>>]
      BY <3>1, <3>2, PublishFirst DEF TypeOK
    <3>4. <<f>> \in Seq(Endings) /\ <<f>> # <<>>
      OBVIOUS
    <3> QED BY <2>4, <3>3, <3>4 DEF SwitchFails
  <2>5. CASE ReadSetting(r)
    BY <2>5 DEF ReadSetting
  <2>6. CASE PowerOn(r)
    BY <2>6 DEF PowerOn
  <2>7. CASE KeptAwake(r)
    BY <2>7 DEF KeptAwake
  <2>8. CASE KeepAwakeFails(r)
    BY <2>8 DEF KeepAwakeFails
  <2>9. CASE GoalEnds(r)
    <3>1. PICK e \in Endings : Publish(r, e)
      BY <2>9 DEF GoalEnds, Endings
    <3>2. published[r] = <<>>
      BY <2>9 DEF GoalEnds, PhasesMatch, Alive
    <3>3. PICK f \in Endings : published' = [published EXCEPT ![r] = <<f>>]
      BY <3>1, <3>2, PublishFirst DEF TypeOK
    <3>4. <<f>> \in Seq(Endings) /\ <<f>> # <<>>
      OBVIOUS
    <3> QED BY <2>9, <3>3, <3>4 DEF GoalEnds, Finally
  <2>10. CASE EndStep(r)
    BY <2>10 DEF EndStep
  <2>11. CASE EndStepEnds(r)
    <3>1. PICK e \in Endings : Publish(r, e)
      BY <2>11 DEF EndStepEnds, Endings
    <3>2. published[r] = <<>>
      BY <2>11 DEF EndStepEnds, PhasesMatch, Alive
    <3>3. PICK f \in Endings : published' = [published EXCEPT ![r] = <<f>>]
      BY <3>1, <3>2, PublishFirst DEF TypeOK
    <3>4. <<f>> \in Seq(Endings) /\ <<f>> # <<>>
      OBVIOUS
    <3> QED BY <2>11, <3>3, <3>4 DEF EndStepEnds, Finally
  <2>12. CASE Cancelled(r)
    <3>1. PICK e \in Endings : Publish(r, e)
      BY <2>12 DEF Cancelled, Endings
    <3>2. published[r] = <<>>
      BY <2>12 DEF Cancelled, PhasesMatch, Alive
    <3>3. PICK f \in Endings : published' = [published EXCEPT ![r] = <<f>>]
      BY <3>1, <3>2, PublishFirst DEF TypeOK
    <3>4. <<f>> \in Seq(Endings) /\ <<f>> # <<>>
      OBVIOUS
    <3> QED BY <2>12, <3>3, <3>4 DEF Cancelled, Finally
  <2>13. CASE Restore(r)
    BY <2>13 DEF Restore
  <2>14. CASE RestoreFails(r)
    BY <2>14 DEF RestoreFails
  <2>15. CASE RestoreCut(r)
    BY <2>15 DEF RestoreCut
  <2> QED BY <1>2, <2>1, <2>2, <2>3, <2>4, <2>5, <2>6, <2>7, <2>8, <2>9,
             <2>10, <2>11, <2>12, <2>13, <2>14, <2>15 DEF StartGoesOn, Task
<1>3. CASE Look
  BY <1>3 DEF Look, Swept
<1>4. CASE UNCHANGED vars
  BY <1>4 DEF vars
<1> QED BY <1>1, <1>2, <1>3, <1>4 DEF Next

\* A cancellation is always one that was asked for.
LEMMA StopsStep ==
  ASSUME IInv, [Next]_vars
  PROVE  StopsMatch'
<1> USE ManagerAssumption
        DEF taskVars, stopVars, phoneVars, Goes, Step, Dev, Done, Running,
            IInv, TypeOK, Phases, StopsMatch, HasTask
<1>1. ASSUME NEW r \in Runs,
              \/ Start(r) \/ StartGoesOn(r) \/ Stop(r) \/ StopTask(r)
              \/ Expire(r)
      PROVE  StopsMatch'
  <2>1. CASE Start(r)
    BY <2>1 DEF Start, Busy, Swept
  <2>2. CASE Admit(r)
    BY <2>2 DEF Admit
  <2>3. CASE Withdraw(r)
    BY <2>3 DEF Withdraw
  <2>4. CASE Stop(r)
    <3>1. UNCHANGED phase
      BY <2>4 DEF Stop
    <3>2. CASE Done(r) \/ ~HasTask(r)
      BY <2>4, <3>1, <3>2 DEF Stop
    <3>3. CASE ~Done(r) /\ HasTask(r)
      <4>1. cancelAsked' = [cancelAsked EXCEPT ![r] = TRUE]
        BY <2>4, <3>3 DEF Stop
      <4>2. CASE /\ cancelled' = [cancelled EXCEPT ![r] = ~TaskDone(r)]
                 /\ UNCHANGED stopping
        BY <3>1, <3>3, <4>1, <4>2
      <4>3. CASE /\ phase[r] \in {"goal", "end"}
                 /\ stopping' = [stopping EXCEPT ![r] = TRUE]
                 /\ UNCHANGED cancelled
        BY <3>1, <3>3, <4>1, <4>3
      <4> QED BY <2>4, <3>3, <4>2, <4>3 DEF Stop
    <3> QED BY <3>2, <3>3
  <2>5. CASE StopTask(r)
    BY <2>5 DEF StopTask, TaskDone
  <2>6. CASE Expire(r)
    BY <2>6 DEF Expire
  <2> QED BY <1>1, <2>1, <2>2, <2>3, <2>4, <2>5, <2>6 DEF StartGoesOn, Task
<1>2. ASSUME NEW r \in Runs,
             Task(r)
      PROVE  StopsMatch'
  <2>1. CASE Begin(r)
    BY <2>1 DEF Begin
  <2>2. CASE NeverBegins(r)
    BY <2>2 DEF NeverBegins
  <2>3. CASE Prepared(r)
    BY <2>3 DEF Prepared
  <2>4. CASE SwitchFails(r)
    BY <2>4 DEF SwitchFails, Publish
  <2>5. CASE ReadSetting(r)
    BY <2>5 DEF ReadSetting
  <2>6. CASE PowerOn(r)
    BY <2>6 DEF PowerOn
  <2>7. CASE KeptAwake(r)
    BY <2>7 DEF KeptAwake
  <2>8. CASE KeepAwakeFails(r)
    BY <2>8 DEF KeepAwakeFails
  <2>9. CASE GoalEnds(r)
    BY <2>9 DEF GoalEnds, Publish, Finally
  <2>10. CASE EndStep(r)
    BY <2>10 DEF EndStep
  <2>11. CASE EndStepEnds(r)
    BY <2>11 DEF EndStepEnds, Publish, Finally
  <2>12. CASE Cancelled(r)
    BY <2>12 DEF Cancelled, Publish, Finally
  <2>13. CASE Restore(r)
    BY <2>13 DEF Restore
  <2>14. CASE RestoreFails(r)
    BY <2>14 DEF RestoreFails
  <2>15. CASE RestoreCut(r)
    BY <2>15 DEF RestoreCut
  <2> QED BY <1>2, <2>1, <2>2, <2>3, <2>4, <2>5, <2>6, <2>7, <2>8, <2>9,
             <2>10, <2>11, <2>12, <2>13, <2>14, <2>15 DEF StartGoesOn, Task
<1>3. CASE Look
  BY <1>3 DEF Look, Swept
<1>4. CASE UNCHANGED vars
  BY <1>4 DEF vars
<1> QED BY <1>1, <1>2, <1>3, <1>4 DEF Next

\* Only what has expired is swept.
LEMMA KeptStep ==
  ASSUME IInv, [Next]_vars
  PROVE  EndedIsKept'
<1> USE ManagerAssumption
        DEF taskVars, stopVars, phoneVars, Goes, Step, Dev, Done, Running,
            IInv, TypeOK, EndedIsKept, PhasesMatch, Alive
<1>1. ASSUME NEW r \in Runs,
              \/ Start(r) \/ StartGoesOn(r) \/ Stop(r) \/ StopTask(r)
              \/ Expire(r)
      PROVE  EndedIsKept'
  <2>1. CASE Start(r)
    BY <2>1 DEF Start, Busy, Swept
  <2>2. CASE Admit(r)
    BY <2>2 DEF Admit
  <2>3. CASE Withdraw(r)
    BY <2>3 DEF Withdraw
  <2>4. CASE Stop(r)
    BY <2>4 DEF Stop, Swept, HasTask, TaskDone
  <2>5. CASE StopTask(r)
    BY <2>5 DEF StopTask, TaskDone
  <2>6. CASE Expire(r)
    BY <2>6 DEF Expire
  <2> QED BY <1>1, <2>1, <2>2, <2>3, <2>4, <2>5, <2>6 DEF StartGoesOn, Task
<1>2. ASSUME NEW r \in Runs,
             Task(r)
      PROVE  EndedIsKept'
  <2>1. CASE Begin(r)
    BY <2>1 DEF Begin
  <2>2. CASE NeverBegins(r)
    BY <2>2 DEF NeverBegins
  <2>3. CASE Prepared(r)
    BY <2>3 DEF Prepared
  <2>4. CASE SwitchFails(r)
    BY <2>4 DEF SwitchFails, Publish
  <2>5. CASE ReadSetting(r)
    BY <2>5 DEF ReadSetting
  <2>6. CASE PowerOn(r)
    BY <2>6 DEF PowerOn
  <2>7. CASE KeptAwake(r)
    BY <2>7 DEF KeptAwake
  <2>8. CASE KeepAwakeFails(r)
    BY <2>8 DEF KeepAwakeFails
  <2>9. CASE GoalEnds(r)
    BY <2>9 DEF GoalEnds, Publish, Finally
  <2>10. CASE EndStep(r)
    BY <2>10 DEF EndStep
  <2>11. CASE EndStepEnds(r)
    BY <2>11 DEF EndStepEnds, Publish, Finally
  <2>12. CASE Cancelled(r)
    BY <2>12 DEF Cancelled, Publish, Finally
  <2>13. CASE Restore(r)
    BY <2>13 DEF Restore
  <2>14. CASE RestoreFails(r)
    BY <2>14 DEF RestoreFails
  <2>15. CASE RestoreCut(r)
    BY <2>15 DEF RestoreCut
  <2> QED BY <1>2, <2>1, <2>2, <2>3, <2>4, <2>5, <2>6, <2>7, <2>8, <2>9,
             <2>10, <2>11, <2>12, <2>13, <2>14, <2>15 DEF StartGoesOn, Task
<1>3. CASE Look
  BY <1>3 DEF Look, Swept
<1>4. CASE UNCHANGED vars
  BY <1>4 DEF vars
<1> QED BY <1>1, <1>2, <1>3, <1>4 DEF Next

\* A start is refused while the phone has a live run.
LEMMA OneLiveStep ==
  ASSUME IInv, [Next]_vars
  PROVE  OneLivePerDevice'
<1> USE ManagerAssumption
        DEF taskVars, stopVars, phoneVars, Goes, Step, Dev, Done, Running,
            IInv, TypeOK, PhasesMatch, OneLivePerDevice, Alive
<1>1. ASSUME NEW r \in Runs,
              \/ Start(r) \/ StartGoesOn(r) \/ Stop(r) \/ StopTask(r)
              \/ Expire(r)
      PROVE  OneLivePerDevice'
  <2>1. CASE Start(r)
    BY <2>1 DEF Start, Busy, Swept
  <2>2. CASE Admit(r)
    BY <2>2 DEF Admit
  <2>3. CASE Withdraw(r)
    BY <2>3 DEF Withdraw
  <2>4. CASE Stop(r)
    BY <2>4 DEF Stop, Swept, HasTask, TaskDone
  <2>5. CASE StopTask(r)
    BY <2>5 DEF StopTask, TaskDone
  <2>6. CASE Expire(r)
    BY <2>6 DEF Expire
  <2> QED BY <1>1, <2>1, <2>2, <2>3, <2>4, <2>5, <2>6 DEF StartGoesOn, Task
<1>2. ASSUME NEW r \in Runs,
             Task(r)
      PROVE  OneLivePerDevice'
  <2>1. CASE Begin(r)
    BY <2>1 DEF Begin
  <2>2. CASE NeverBegins(r)
    BY <2>2 DEF NeverBegins
  <2>3. CASE Prepared(r)
    BY <2>3 DEF Prepared
  <2>4. CASE SwitchFails(r)
    BY <2>4 DEF SwitchFails, Publish
  <2>5. CASE ReadSetting(r)
    BY <2>5 DEF ReadSetting
  <2>6. CASE PowerOn(r)
    BY <2>6 DEF PowerOn
  <2>7. CASE KeptAwake(r)
    BY <2>7 DEF KeptAwake
  <2>8. CASE KeepAwakeFails(r)
    BY <2>8 DEF KeepAwakeFails
  <2>9. CASE GoalEnds(r)
    BY <2>9 DEF GoalEnds, Publish, Finally
  <2>10. CASE EndStep(r)
    BY <2>10 DEF EndStep
  <2>11. CASE EndStepEnds(r)
    BY <2>11 DEF EndStepEnds, Publish, Finally
  <2>12. CASE Cancelled(r)
    BY <2>12 DEF Cancelled, Publish, Finally
  <2>13. CASE Restore(r)
    BY <2>13 DEF Restore
  <2>14. CASE RestoreFails(r)
    BY <2>14 DEF RestoreFails
  <2>15. CASE RestoreCut(r)
    BY <2>15 DEF RestoreCut
  <2> QED BY <1>2, <2>1, <2>2, <2>3, <2>4, <2>5, <2>6, <2>7, <2>8, <2>9,
             <2>10, <2>11, <2>12, <2>13, <2>14, <2>15 DEF StartGoesOn, Task
<1>3. CASE Look
  BY <1>3 DEF Look, Swept
<1>4. CASE UNCHANGED vars
  BY <1>4 DEF vars
<1> QED BY <1>1, <1>2, <1>3, <1>4 DEF Next

-----------------------------------------------------------------------------
(***************************************************************************)
(* The theorems.                                                           *)
(***************************************************************************)

\* Phases, registry, stops and endings determine each other.
THEOREM Inductive == Spec => []IInv
<1>1. Init => IInv
  <2> SUFFICES ASSUME Init
               PROVE  IInv
    OBVIOUS
  <2> USE ManagerAssumption DEF Init
  <2>1. TypeOK
    <3>1. 0 \in 0..MaxFaults /\ <<>> \in Seq(Endings)
      OBVIOUS
    <3> QED BY <3>1 DEF TypeOK, Phases
  <2>2. PhasesMatch /\ StopsMatch
    BY DEF PhasesMatch, StopsMatch, Alive, Running, HasTask
  <2>3. EndedIsKept /\ OneLivePerDevice
    BY DEF EndedIsKept, OneLivePerDevice, Done
  <2> QED BY <2>1, <2>2, <2>3 DEF IInv
<1>2. IInv /\ [Next]_vars => IInv'
  BY TypeStep, PhasesStep, StopsStep, KeptStep, OneLiveStep DEF IInv
<1> QED BY <1>1, <1>2, PTL DEF Spec

\* Type correctness of the registry and the tasks.
THEOREM TypeCorrect == Spec => []TypeOK
<1>1. IInv => TypeOK
  BY DEF IInv
<1> QED BY <1>1, Inductive, PTL

\* A phone is driven by one run, although start awaits adb between its check
\* and the creation of the task (RunManager.start, _busy_run_for).
THEOREM DevicesAreExclusive == Spec => []DeviceIsExclusive
<1>1. IInv => DeviceIsExclusive
  BY DEF IInv, PhasesMatch, OneLivePerDevice, DeviceIsExclusive, Alive, Done
<1> QED BY <1>1, Inductive, PTL

\* A live run can be looked up and stopped, and makes its phone busy.
THEOREM LiveAreRegistered == Spec => []LiveIsRegistered
<1>1. IInv => LiveIsRegistered
  BY DEF IInv, PhasesMatch, LiveIsRegistered, Alive
<1> QED BY <1>1, Inductive, PTL

\* The sweep never takes a run too early (_sweep).
THEOREM EndedAreKept == Spec => []EndedIsKept
<1>1. IInv => EndedIsKept
  BY DEF IInv
<1> QED BY <1>1, Inductive, PTL

\* A run has one ending, whatever stops and failures cross (publish,
\* _execute_traced).
THEOREM EndsOnce == Spec => []OneEnding
<1>1. ASSUME IInv, NEW r \in Runs
      PROVE  /\ Len(published[r]) <= 1
             /\ phase[r] \in {"restoring", "over"} => Done(r)
             /\ phase[r] = "stranded" => cancelAsked[r] /\ ~Done(r)
  <2>1. published[r] = <<>> \/ \E e \in Endings : published[r] = <<e>>
    BY <1>1 DEF IInv, TypeOK, Phases, PhasesMatch, Alive
  <2>2. Len(published[r]) <= 1
    <3>1. Len(<<>>) = 0 /\ \A e \in Endings : Len(<<e>>) = 1
      OBVIOUS
    <3>2. CASE published[r] = <<>>
      BY <3>1, <3>2
    <3>3. ASSUME NEW e \in Endings, published[r] = <<e>>
          PROVE  Len(published[r]) <= 1
      BY <3>1, <3>3
    <3> QED BY <2>1, <3>2, <3>3
  <2>3. phase[r] \in {"restoring", "over"} => Done(r)
    BY <1>1 DEF IInv, PhasesMatch, Done
  <2>4. phase[r] = "stranded" => cancelAsked[r] /\ ~Done(r)
    BY <1>1 DEF IInv, PhasesMatch, StopsMatch, Alive, Done
  <2> QED BY <2>2, <2>3, <2>4
<1>2. IInv => OneEnding
  BY <1>1 DEF OneEnding
<1> QED BY <1>2, Inductive, PTL

-----------------------------------------------------------------------------
(***************************************************************************)
(* RunManager implements Executor.                                         *)
(***************************************************************************)

\* What Executor is shown of a step.
Shown == <<execOf, cancelAsked, endingOf>>

LEMMA InitRefines == Init => Promise!ExecInit
BY DEF Init, Promise!ExecInit, execOf, endingOf, Done

\* The phases say what Executor is shown of a run.
Shows(r) ==
  /\ phase[r] \in {"new", "withdrawn"} => execOf[r] = "absent"
  /\ phase[r] = "listing" => execOf[r] = "starting"
  /\ phase[r] = "created" =>
       execOf[r] = IF cancelled[r] THEN "stranded" ELSE "driving"
  /\ phase[r] = "stranded" => execOf[r] = "stranded"
  /\ phase[r] \in Running => execOf[r] = "driving"
  /\ phase[r] \in {"restoring", "over"} =>
       execOf[r] = IF expired[r] THEN "absent" ELSE "over"
  /\ endingOf[r] = IF Done(r) THEN Head(published[r]) ELSE "none"

AllShown == Promise!ExecTypeOK /\ \A r \in Runs : Shows(r)

LEMMA ShownStates == IInv => AllShown
<1> SUFFICES ASSUME IInv
             PROVE  AllShown
  OBVIOUS
<1>1. ASSUME NEW r \in Runs
      PROVE  Shows(r) /\ endingOf[r] \in Endings \cup {"none"}
  <2>1. published[r] = <<>> \/ \E e \in Endings : published[r] = <<e>>
    BY DEF IInv, TypeOK, Phases, PhasesMatch, Alive
  <2>2. \A e \in Endings : <<e>> # <<>> /\ Head(<<e>>) = e
    OBVIOUS
  <2> QED BY <2>1, <2>2
         DEF IInv, PhasesMatch, Alive, Running, execOf, endingOf, Done, Shows
<1>2. execOf \in [Runs -> Promise!ExecStates]
  BY DEF execOf, Promise!ExecStates
<1>3. endingOf \in [Runs -> Endings \cup {"none"}]
  BY <1>1 DEF endingOf
<1>4. cancelAsked \in [Runs -> BOOLEAN]
  BY DEF IInv, TypeOK
<1> QED BY <1>1, <1>2, <1>3, <1>4
       DEF AllShown, Promise!ExecTypeOK, Promise!Endings, Endings

\* A step of one run changes nothing in what is shown of the others.
LEMMA OthersStay ==
  ASSUME NEW r \in Runs,
         \A q \in Runs \ {r} :
           /\ phase'[q] = phase[q] /\ published'[q] = published[q]
           /\ expired'[q] = expired[q] /\ cancelled'[q] = cancelled[q]
  PROVE  \A q \in Runs \ {r} :
           execOf'[q] = execOf[q] /\ endingOf'[q] = endingOf[q]
BY DEF execOf, endingOf, Done

\* Every step is a step of Executor or shows nothing.
LEMMA StepRefines ==
  IInv /\ IInv' /\ AllShown /\ AllShown' /\ [Next]_vars
    => [Promise!ExecNext]_Shown
<1> SUFFICES ASSUME IInv, IInv', AllShown, AllShown', [Next]_vars
             PROVE  [Promise!ExecNext]_Shown
  OBVIOUS
<1> USE DEF taskVars, stopVars, phoneVars, Goes, Step, Running
<1>1. ASSUME NEW r \in Runs, Begin(r)
      PROVE  UNCHANGED Shown
  <2>1. \A q \in Runs \ {r} :
          execOf'[q] = execOf[q] /\ endingOf'[q] = endingOf[q]
    BY <1>1, OthersStay DEF Begin, IInv, TypeOK
  <2>2. execOf'[r] = execOf[r] /\ endingOf'[r] = endingOf[r]
    BY <1>1 DEF Begin, AllShown, Shows, IInv, TypeOK, PhasesMatch,
       StopsMatch, Alive, HasTask, Done
  <2>3. UNCHANGED cancelAsked
    BY <1>1 DEF Begin
  <2> QED BY <2>1, <2>2, <2>3 DEF Shown, AllShown, Promise!ExecTypeOK
<1>2. ASSUME NEW r \in Runs, NeverBegins(r)
      PROVE  UNCHANGED Shown
  <2>1. \A q \in Runs \ {r} :
          execOf'[q] = execOf[q] /\ endingOf'[q] = endingOf[q]
    BY <1>2, OthersStay DEF NeverBegins, IInv, TypeOK
  <2>2. execOf'[r] = execOf[r] /\ endingOf'[r] = endingOf[r]
    BY <1>2 DEF NeverBegins, AllShown, Shows, IInv, TypeOK, PhasesMatch,
       StopsMatch, Alive, HasTask, Done
  <2>3. UNCHANGED cancelAsked
    BY <1>2 DEF NeverBegins
  <2> QED BY <2>1, <2>2, <2>3 DEF Shown, AllShown, Promise!ExecTypeOK
<1>3. ASSUME NEW r \in Runs, Prepared(r)
      PROVE  UNCHANGED Shown
  <2>1. \A q \in Runs \ {r} :
          execOf'[q] = execOf[q] /\ endingOf'[q] = endingOf[q]
    BY <1>3, OthersStay DEF Prepared, IInv, TypeOK
  <2>2. execOf'[r] = execOf[r] /\ endingOf'[r] = endingOf[r]
    BY <1>3 DEF Prepared, AllShown, Shows, IInv, TypeOK, PhasesMatch,
       StopsMatch, Alive, HasTask, Done
  <2>3. UNCHANGED cancelAsked
    BY <1>3 DEF Prepared
  <2> QED BY <2>1, <2>2, <2>3 DEF Shown, AllShown, Promise!ExecTypeOK
<1>4. ASSUME NEW r \in Runs, ReadSetting(r)
      PROVE  UNCHANGED Shown
  <2>1. \A q \in Runs \ {r} :
          execOf'[q] = execOf[q] /\ endingOf'[q] = endingOf[q]
    BY <1>4, OthersStay DEF ReadSetting, IInv, TypeOK
  <2>2. execOf'[r] = execOf[r] /\ endingOf'[r] = endingOf[r]
    BY <1>4 DEF ReadSetting, AllShown, Shows, IInv, TypeOK, PhasesMatch,
       StopsMatch, Alive, HasTask, Done
  <2>3. UNCHANGED cancelAsked
    BY <1>4 DEF ReadSetting
  <2> QED BY <2>1, <2>2, <2>3 DEF Shown, AllShown, Promise!ExecTypeOK
<1>5. ASSUME NEW r \in Runs, PowerOn(r)
      PROVE  UNCHANGED Shown
  <2>1. \A q \in Runs \ {r} :
          execOf'[q] = execOf[q] /\ endingOf'[q] = endingOf[q]
    BY <1>5, OthersStay DEF PowerOn, IInv, TypeOK
  <2>2. execOf'[r] = execOf[r] /\ endingOf'[r] = endingOf[r]
    BY <1>5 DEF PowerOn, AllShown, Shows, IInv, TypeOK, PhasesMatch,
       StopsMatch, Alive, HasTask, Done
  <2>3. UNCHANGED cancelAsked
    BY <1>5 DEF PowerOn
  <2> QED BY <2>1, <2>2, <2>3 DEF Shown, AllShown, Promise!ExecTypeOK
<1>6. ASSUME NEW r \in Runs, KeptAwake(r)
      PROVE  UNCHANGED Shown
  <2>1. \A q \in Runs \ {r} :
          execOf'[q] = execOf[q] /\ endingOf'[q] = endingOf[q]
    BY <1>6, OthersStay DEF KeptAwake, IInv, TypeOK
  <2>2. execOf'[r] = execOf[r] /\ endingOf'[r] = endingOf[r]
    BY <1>6 DEF KeptAwake, AllShown, Shows, IInv, TypeOK, PhasesMatch,
       StopsMatch, Alive, HasTask, Done
  <2>3. UNCHANGED cancelAsked
    BY <1>6 DEF KeptAwake
  <2> QED BY <2>1, <2>2, <2>3 DEF Shown, AllShown, Promise!ExecTypeOK
<1>7. ASSUME NEW r \in Runs, KeepAwakeFails(r)
      PROVE  UNCHANGED Shown
  <2>1. \A q \in Runs \ {r} :
          execOf'[q] = execOf[q] /\ endingOf'[q] = endingOf[q]
    BY <1>7, OthersStay DEF KeepAwakeFails, IInv, TypeOK
  <2>2. execOf'[r] = execOf[r] /\ endingOf'[r] = endingOf[r]
    BY <1>7 DEF KeepAwakeFails, AllShown, Shows, IInv, TypeOK, PhasesMatch,
       StopsMatch, Alive, HasTask, Done
  <2>3. UNCHANGED cancelAsked
    BY <1>7 DEF KeepAwakeFails
  <2> QED BY <2>1, <2>2, <2>3 DEF Shown, AllShown, Promise!ExecTypeOK
<1>8. ASSUME NEW r \in Runs, EndStep(r)
      PROVE  UNCHANGED Shown
  <2>1. \A q \in Runs \ {r} :
          execOf'[q] = execOf[q] /\ endingOf'[q] = endingOf[q]
    BY <1>8, OthersStay DEF EndStep, IInv, TypeOK
  <2>2. execOf'[r] = execOf[r] /\ endingOf'[r] = endingOf[r]
    BY <1>8 DEF EndStep, AllShown, Shows, IInv, TypeOK, PhasesMatch,
       StopsMatch, Alive, HasTask, Done
  <2>3. UNCHANGED cancelAsked
    BY <1>8 DEF EndStep
  <2> QED BY <2>1, <2>2, <2>3 DEF Shown, AllShown, Promise!ExecTypeOK
<1>9. ASSUME NEW r \in Runs, Restore(r)
      PROVE  UNCHANGED Shown
  <2>1. \A q \in Runs \ {r} :
          execOf'[q] = execOf[q] /\ endingOf'[q] = endingOf[q]
    BY <1>9, OthersStay DEF Restore, IInv, TypeOK
  <2>2. execOf'[r] = execOf[r] /\ endingOf'[r] = endingOf[r]
    BY <1>9 DEF Restore, AllShown, Shows, IInv, TypeOK, PhasesMatch,
       StopsMatch, Alive, HasTask, Done
  <2>3. UNCHANGED cancelAsked
    BY <1>9 DEF Restore
  <2> QED BY <2>1, <2>2, <2>3 DEF Shown, AllShown, Promise!ExecTypeOK
<1>10. ASSUME NEW r \in Runs, RestoreFails(r)
      PROVE  UNCHANGED Shown
  <2>1. \A q \in Runs \ {r} :
          execOf'[q] = execOf[q] /\ endingOf'[q] = endingOf[q]
    BY <1>10, OthersStay DEF RestoreFails, IInv, TypeOK
  <2>2. execOf'[r] = execOf[r] /\ endingOf'[r] = endingOf[r]
    BY <1>10 DEF RestoreFails, AllShown, Shows, IInv, TypeOK, PhasesMatch,
       StopsMatch, Alive, HasTask, Done
  <2>3. UNCHANGED cancelAsked
    BY <1>10 DEF RestoreFails
  <2> QED BY <2>1, <2>2, <2>3 DEF Shown, AllShown, Promise!ExecTypeOK
<1>11. ASSUME NEW r \in Runs, RestoreCut(r)
      PROVE  UNCHANGED Shown
  <2>1. \A q \in Runs \ {r} :
          execOf'[q] = execOf[q] /\ endingOf'[q] = endingOf[q]
    BY <1>11, OthersStay DEF RestoreCut, IInv, TypeOK
  <2>2. execOf'[r] = execOf[r] /\ endingOf'[r] = endingOf[r]
    BY <1>11 DEF RestoreCut, AllShown, Shows, IInv, TypeOK, PhasesMatch,
       StopsMatch, Alive, HasTask, Done
  <2>3. UNCHANGED cancelAsked
    BY <1>11 DEF RestoreCut
  <2> QED BY <2>1, <2>2, <2>3 DEF Shown, AllShown, Promise!ExecTypeOK
<1>12. ASSUME NEW r \in Runs, StopTask(r)
      PROVE  UNCHANGED Shown
  <2>1. \A q \in Runs \ {r} :
          execOf'[q] = execOf[q] /\ endingOf'[q] = endingOf[q]
    BY <1>12, OthersStay DEF StopTask, TaskDone, IInv, TypeOK
  <2>2. execOf'[r] = execOf[r] /\ endingOf'[r] = endingOf[r]
    <3>1. UNCHANGED <<phase, expired, published>>
      BY <1>12 DEF StopTask
    <3>2. phase[r] \in {"goal", "end", "restoring", "over"}
      BY <1>12 DEF StopTask, IInv, StopsMatch
    <3> QED BY <3>1, <3>2 DEF AllShown, Shows, Done
  <2>3. UNCHANGED cancelAsked
    BY <1>12 DEF StopTask, TaskDone
  <2> QED BY <2>1, <2>2, <2>3 DEF Shown, AllShown, Promise!ExecTypeOK
<1>13. ASSUME NEW r \in Runs, Admit(r)
      PROVE  Promise!Admit(r)
  <2>1. \A q \in Runs \ {r} :
          execOf'[q] = execOf[q] /\ endingOf'[q] = endingOf[q]
    BY <1>13, OthersStay DEF Admit, IInv, TypeOK
  <2>2. execOf[r] = "starting" /\ execOf'[r] = "driving"
    BY <1>13 DEF Admit, AllShown, Shows, IInv, TypeOK, PhasesMatch,
       StopsMatch, Alive, HasTask, Done
  <2>3. endingOf'[r] = endingOf[r]
    BY <1>13 DEF Admit, AllShown, Shows, IInv, TypeOK, PhasesMatch,
       StopsMatch, Alive, HasTask, Done
  <2>4. UNCHANGED cancelAsked
    BY <1>13 DEF Admit
  <2> QED BY <2>1, <2>2, <2>3, <2>4 DEF Promise!Admit, AllShown,
             Promise!ExecTypeOK
<1>14. ASSUME NEW r \in Runs, Withdraw(r)
      PROVE  Promise!Withdraw(r)
  <2>1. \A q \in Runs \ {r} :
          execOf'[q] = execOf[q] /\ endingOf'[q] = endingOf[q]
    BY <1>14, OthersStay DEF Withdraw, IInv, TypeOK
  <2>2. execOf[r] = "starting" /\ execOf'[r] = "absent"
    BY <1>14 DEF Withdraw, AllShown, Shows, IInv, TypeOK, PhasesMatch,
       StopsMatch, Alive, HasTask, Done
  <2>3. endingOf'[r] = endingOf[r]
    BY <1>14 DEF Withdraw, AllShown, Shows, IInv, TypeOK, PhasesMatch,
       StopsMatch, Alive, HasTask, Done
  <2>4. UNCHANGED cancelAsked
    BY <1>14 DEF Withdraw
  <2> QED BY <2>1, <2>2, <2>3, <2>4 DEF Promise!Withdraw, AllShown,
             Promise!ExecTypeOK
<1>15. ASSUME NEW r \in Runs, Expire(r)
      PROVE  Promise!Sweep(r)
  <2>1. \A q \in Runs \ {r} :
          execOf'[q] = execOf[q] /\ endingOf'[q] = endingOf[q]
    BY <1>15, OthersStay DEF Expire, IInv, TypeOK
  <2>2. execOf[r] = "over" /\ execOf'[r] = "absent"
    <3>1. phase[r] \in {"restoring", "over"} /\ ~expired[r]
      BY <1>15 DEF Expire, Phases, IInv, TypeOK, PhasesMatch, StopsMatch,
         Alive, HasTask, Done
    <3>2. UNCHANGED phase /\ expired'[r]
      BY <1>15 DEF Expire, IInv, TypeOK
    <3> QED BY <3>1, <3>2 DEF AllShown, Shows
  <2>3. endingOf'[r] = endingOf[r]
    BY <1>15 DEF Expire, AllShown, Shows, IInv, TypeOK, PhasesMatch,
       StopsMatch, Alive, HasTask, Done
  <2>4. UNCHANGED cancelAsked
    BY <1>15 DEF Expire
  <2> QED BY <2>1, <2>2, <2>3, <2>4 DEF Promise!Sweep, AllShown,
             Promise!ExecTypeOK
<1>16. ASSUME NEW r \in Runs, SwitchFails(r)
      PROVE  Promise!Finish(r)
  <2>1. \A q \in Runs \ {r} :
          execOf'[q] = execOf[q] /\ endingOf'[q] = endingOf[q]
    BY <1>16, OthersStay DEF SwitchFails, Publish, IInv, TypeOK
  <2>2. published[r] = <<>> /\ ~expired[r]
    BY <1>16 DEF SwitchFails, Publish, IInv, TypeOK, PhasesMatch,
       StopsMatch, Alive, HasTask, Done
  <2>3. PICK e \in {"succeeded", "failed"} : Publish(r, e)
    BY <1>16 DEF SwitchFails
  <2>4. PICK f \in Endings :
          /\ f = IF cancelAsked[r] THEN "cancelled" ELSE e
          /\ published' = [published EXCEPT ![r] = <<f>>]
    BY <2>2, <2>3, PublishFirst DEF IInv, TypeOK, Endings
  <2>5. endingOf'[r] = f
    <3>1. published'[r] = <<f>> /\ <<f>> # <<>> /\ Head(<<f>>) = f
      BY <2>4 DEF IInv, TypeOK
    <3> QED BY <3>1 DEF AllShown, Shows, Done
  <2>6. execOf[r] = "driving" /\ execOf'[r] = "over"
    BY <1>16, <2>2 DEF SwitchFails, Publish, AllShown, Shows, IInv, TypeOK,
       PhasesMatch, StopsMatch, Alive, HasTask, Done
  <2>7. UNCHANGED cancelAsked
    BY <1>16 DEF SwitchFails
  <2> QED BY <2>1, <2>3, <2>4, <2>5, <2>6, <2>7 DEF Promise!Finish,
             AllShown, Promise!ExecTypeOK
<1>17. ASSUME NEW r \in Runs, GoalEnds(r)
      PROVE  Promise!Finish(r)
  <2>1. \A q \in Runs \ {r} :
          execOf'[q] = execOf[q] /\ endingOf'[q] = endingOf[q]
    BY <1>17, OthersStay DEF GoalEnds, Publish, Finally, IInv, TypeOK
  <2>2. published[r] = <<>> /\ ~expired[r]
    BY <1>17 DEF GoalEnds, Publish, Finally, IInv, TypeOK, PhasesMatch,
       StopsMatch, Alive, HasTask, Done
  <2>3. PICK e \in {"succeeded", "failed"} : Publish(r, e)
    BY <1>17 DEF GoalEnds
  <2>4. PICK f \in Endings :
          /\ f = IF cancelAsked[r] THEN "cancelled" ELSE e
          /\ published' = [published EXCEPT ![r] = <<f>>]
    BY <2>2, <2>3, PublishFirst DEF IInv, TypeOK, Endings
  <2>5. endingOf'[r] = f
    <3>1. published'[r] = <<f>> /\ <<f>> # <<>> /\ Head(<<f>>) = f
      BY <2>4 DEF IInv, TypeOK
    <3> QED BY <3>1 DEF AllShown, Shows, Done
  <2>6. execOf[r] = "driving" /\ execOf'[r] = "over"
    BY <1>17, <2>2 DEF GoalEnds, Publish, Finally, AllShown, Shows, IInv,
       TypeOK, PhasesMatch, StopsMatch, Alive, HasTask, Done
  <2>7. UNCHANGED cancelAsked
    BY <1>17 DEF GoalEnds
  <2> QED BY <2>1, <2>3, <2>4, <2>5, <2>6, <2>7 DEF Promise!Finish,
             AllShown, Promise!ExecTypeOK
<1>18. ASSUME NEW r \in Runs, EndStepEnds(r)
      PROVE  Promise!Finish(r)
  <2>1. \A q \in Runs \ {r} :
          execOf'[q] = execOf[q] /\ endingOf'[q] = endingOf[q]
    BY <1>18, OthersStay DEF EndStepEnds, Publish, Finally, IInv, TypeOK
  <2>2. published[r] = <<>> /\ ~expired[r]
    BY <1>18 DEF EndStepEnds, Publish, Finally, IInv, TypeOK, PhasesMatch,
       StopsMatch, Alive, HasTask, Done
  <2>3. PICK e \in {"succeeded", "failed"} : Publish(r, e)
    BY <1>18 DEF EndStepEnds
  <2>4. PICK f \in Endings :
          /\ f = IF cancelAsked[r] THEN "cancelled" ELSE e
          /\ published' = [published EXCEPT ![r] = <<f>>]
    BY <2>2, <2>3, PublishFirst DEF IInv, TypeOK, Endings
  <2>5. endingOf'[r] = f
    <3>1. published'[r] = <<f>> /\ <<f>> # <<>> /\ Head(<<f>>) = f
      BY <2>4 DEF IInv, TypeOK
    <3> QED BY <3>1 DEF AllShown, Shows, Done
  <2>6. execOf[r] = "driving" /\ execOf'[r] = "over"
    BY <1>18, <2>2 DEF EndStepEnds, Publish, Finally, AllShown, Shows, IInv,
       TypeOK, PhasesMatch, StopsMatch, Alive, HasTask, Done
  <2>7. UNCHANGED cancelAsked
    BY <1>18 DEF EndStepEnds
  <2> QED BY <2>1, <2>3, <2>4, <2>5, <2>6, <2>7 DEF Promise!Finish,
             AllShown, Promise!ExecTypeOK
<1>19. ASSUME NEW r \in Runs, Cancelled(r)
      PROVE  Promise!Finish(r)
  <2>1. \A q \in Runs \ {r} :
          execOf'[q] = execOf[q] /\ endingOf'[q] = endingOf[q]
    <3>1. PICK p \in Phases : phase' = [phase EXCEPT ![r] = p]
      BY <1>19 DEF Cancelled, Finally, Phases
    <3>2. /\ UNCHANGED expired
          /\ cancelled' = [cancelled EXCEPT ![r] = FALSE]
          /\ \E s : published' = [published EXCEPT ![r] = s]
      BY <1>19 DEF Cancelled, Publish
    <3> QED BY <3>1, <3>2, OthersStay DEF IInv, TypeOK
  <2>2. published[r] = <<>> /\ ~expired[r]
    BY <1>19 DEF Cancelled, Publish, Finally, IInv, TypeOK, PhasesMatch,
       StopsMatch, Alive, HasTask, Done
  <2>3. PICK e \in Endings : Publish(r, e) /\ cancelAsked[r]
    BY <1>19 DEF Cancelled, Endings, IInv, StopsMatch
  <2>4. PICK f \in Endings :
          /\ f = IF cancelAsked[r] THEN "cancelled" ELSE e
          /\ published' = [published EXCEPT ![r] = <<f>>]
    BY <2>2, <2>3, PublishFirst DEF IInv, TypeOK
  <2>5. endingOf'[r] = f
    <3>1. published'[r] = <<f>> /\ <<f>> # <<>> /\ Head(<<f>>) = f
      BY <2>4 DEF IInv, TypeOK
    <3> QED BY <3>1 DEF AllShown, Shows, Done
  <2>6. execOf[r] = "driving" /\ execOf'[r] = "over"
    BY <1>19, <2>2 DEF Cancelled, Publish, Finally, AllShown, Shows, IInv,
       TypeOK, PhasesMatch, StopsMatch, Alive, HasTask, Done
  <2>7. UNCHANGED cancelAsked
    BY <1>19 DEF Cancelled
  <2> QED BY <2>1, <2>3, <2>4, <2>5, <2>6, <2>7 DEF Promise!Finish,
             AllShown, Promise!ExecTypeOK
<1>20. ASSUME NEW r \in Runs, Start(r)
      PROVE  Promise!Start(r) \/ UNCHANGED Shown
  <2>1. \A q \in Runs \ {r} :
          execOf'[q] = execOf[q] /\ endingOf'[q] = endingOf[q]
    BY <1>20, OthersStay DEF Start, Swept, Busy, IInv, TypeOK
  <2>2. UNCHANGED cancelAsked /\ ~cancelAsked[r] /\ endingOf[r] = "none"
    BY <1>20 DEF Start, AllShown, Shows, IInv, TypeOK, PhasesMatch,
       StopsMatch, Alive, HasTask, Done
  <2>3. CASE Busy(r)
    <3>1. execOf'[r] = execOf[r] /\ endingOf'[r] = endingOf[r]
      BY <1>20, <2>3 DEF Start, AllShown, Shows, IInv, TypeOK, PhasesMatch,
         StopsMatch, Alive, HasTask, Done
    <3> QED BY <2>1, <2>2, <3>1 DEF Shown, AllShown, Promise!ExecTypeOK
  <2>4. CASE ~Busy(r)
    <3>1. ~Promise!DeviceBusy(r)
      <4> SUFFICES ASSUME NEW o \in Runs, Dev(o) = Dev(r), Promise!Live(o)
                   PROVE  FALSE
        BY DEF Promise!DeviceBusy, Dev
      <4>1. phase[o] \in Alive
        BY DEF Promise!Live, AllShown, Shows, Alive, Phases, IInv, TypeOK
      <4>2. o \in Swept /\ ~Done(o)
        BY <4>1 DEF Swept, Done, IInv, PhasesMatch
      <4> QED BY <2>4, <4>2 DEF Busy
    <3>2. execOf'[r] = "starting" /\ endingOf'[r] = "none"
      BY <1>20, <2>4 DEF Start, AllShown, Shows, IInv, TypeOK, PhasesMatch,
         StopsMatch, Alive, HasTask, Done
    <3> QED BY <2>1, <2>2, <3>1, <3>2 DEF Promise!Start, AllShown,
       Promise!ExecTypeOK
  <2> QED BY <2>3, <2>4
<1>21. ASSUME NEW r \in Runs, Stop(r)
      PROVE  Promise!Stop(r)
  <2>1. \A q \in Runs \ {r} :
          execOf'[q] = execOf[q] /\ endingOf'[q] = endingOf[q]
    BY <1>21, OthersStay DEF Stop, Swept, HasTask, TaskDone, IInv, TypeOK
  <2>2. Promise!Known(r) /\ endingOf'[r] = endingOf[r]
    <3>1. r \in runs /\ (Done(r) => ~expired[r])
      BY <1>21 DEF Stop, Swept
    <3>2. phase[r] \notin {"new", "withdrawn"}
      BY <3>1 DEF IInv, PhasesMatch
    <3>3. phase[r] \in {"restoring", "over"} => Done(r)
      BY DEF IInv, PhasesMatch, Done
    <3>4. execOf[r] # "absent"
      BY <3>1, <3>2, <3>3 DEF AllShown, Shows, Phases, IInv, TypeOK
    <3>5. UNCHANGED published
      BY <1>21 DEF Stop
    <3> QED BY <3>4, <3>5 DEF Promise!Known, AllShown, Shows, Done
  <2>3. CASE execOf[r] = "driving"
    <3>1. cancelAsked' = [cancelAsked EXCEPT ![r] = TRUE]
      <4>1. HasTask(r) /\ phase[r] \notin {"restoring", "over"}
        BY <2>3 DEF HasTask, Phases, AllShown, Shows, IInv, TypeOK
      <4>2. phase[r] \in Alive
        BY <4>1 DEF Alive, Running, Phases, HasTask, IInv, TypeOK
      <4>3. ~Done(r)
        BY <4>2 DEF IInv, PhasesMatch, Done
      <4> QED BY <1>21, <4>1, <4>3 DEF Stop
    <3>2. execOf'[r] \in {"driving", "stranded"}
      BY <1>21, <2>3 DEF Stop, TaskDone, Phases, AllShown, Shows, IInv,
         TypeOK, PhasesMatch, StopsMatch, Alive, HasTask, Done
    <3>3. execOf' \in {execOf, [execOf EXCEPT ![r] = "stranded"]}
      BY <2>1, <2>3, <3>2 DEF AllShown, Promise!ExecTypeOK
    <3>4. UNCHANGED endingOf
      BY <2>1, <2>2 DEF AllShown, Promise!ExecTypeOK
    <3> QED BY <2>2, <2>3, <3>1, <3>3, <3>4 DEF Promise!Stop
  <2>4. CASE execOf[r] # "driving"
    <3>1. UNCHANGED cancelAsked
      <4>1. CASE Done(r) \/ ~HasTask(r)
        BY <1>21, <4>1 DEF Stop
      <4>2. CASE ~Done(r) /\ HasTask(r)
        <5>1. phase[r] \in {"created", "stranded"}
          <6>1. phase[r] \notin {"restoring", "over"}
            BY <4>2 DEF IInv, PhasesMatch, Done
          <6> QED BY <2>4, <4>2, <6>1 DEF Phases, HasTask, AllShown, Shows,
             IInv, TypeOK
        <5>2. cancelAsked[r]
          BY <2>4, <5>1 DEF AllShown, Shows, IInv, StopsMatch
        <5>3. cancelAsked' = [cancelAsked EXCEPT ![r] = TRUE]
          BY <1>21, <4>2 DEF Stop
        <5> QED BY <5>2, <5>3 DEF IInv, TypeOK
      <4> QED BY <4>1, <4>2
    <3>2. execOf'[r] = execOf[r]
      BY <1>21, <2>4 DEF Stop, TaskDone, Phases, AllShown, Shows, IInv,
         TypeOK, PhasesMatch, StopsMatch, Alive, HasTask, Done
    <3>3. UNCHANGED <<execOf, endingOf>>
      BY <2>1, <2>2, <3>2 DEF AllShown, Promise!ExecTypeOK
    <3> QED BY <2>2, <2>4, <3>1, <3>3 DEF Promise!Stop
  <2> QED BY <2>3, <2>4
<1>22. CASE Look
  BY <1>22 DEF Look, Shown, execOf, endingOf, Done
<1>23. CASE UNCHANGED vars
  BY <1>23 DEF vars, Shown, execOf, endingOf, Done
<1> QED BY <1>1, <1>2, <1>3, <1>4, <1>5, <1>6, <1>7, <1>8, <1>9, <1>10,
           <1>11, <1>12, <1>13, <1>14, <1>15, <1>16, <1>17, <1>18, <1>19,
           <1>20, <1>21, <1>22, <1>23 DEF Next, StartGoesOn, Task,
           Promise!ExecNext

\* What RunLifecycle takes from Executor is what the manager does.
THEOREM ManagerImplementsExecutor == Spec => KeepsPromise
<1>1. IInv' => AllShown'
  BY ShownStates, PTL
<1>2. IInv /\ IInv' /\ [Next]_vars => [Promise!ExecNext]_Shown
  BY <1>1, ShownStates, StepRefines
<1> QED BY <1>2, Inductive, InitRefines, PTL
       DEF Spec, KeepsPromise, Promise!ExecSpec, Promise!execState, Shown

=============================================================================
