-------------------------- MODULE RunLifecycleProofs --------------------------
(***************************************************************************)
(* Theorems about RunLifecycle for any set of runs, devices, number of     *)
(* reconnects and number of faults.                                        *)
(*                                                                         *)
(* The safety properties of RunLifecycle are not inductive: that a running *)
(* run holds its lock depends on where its job, its stop request and a     *)
(* boot in progress stand.  The parts of IInv below say where they stand;  *)
(* each is preserved by every step given the parts before it.              *)
(***************************************************************************)
EXTENDS RunLifecycle, TLAPS

\* The reconnect budget is only spent while the job tails the stream.
AttemptsBounded ==
  \A r \in Runs :
    /\ job[r] \in {"tail", "attached"} => attempt[r] < ReconnectAttempts
    /\ job[r] \in Parked \cup BeforeStart \cup {"post", "posting", "resume"}
         => attempt[r] = 0

\* While the process is down nothing executes, and once the jobs are
\* re-armed every run in flight has one.
QuietWhenDown ==
  /\ app # "up" => \A r \in Runs : /\ job[r] \in Parked
                                   /\ creating[r] = "idle"
                                   /\ stopping[r] = "idle"
  /\ app = "rearmed" =>
       \A r \in Runs : status[r] \in InFlight => job[r] = "ready"

\* How the request that creates a run, its job, its stop and its status go
\* together.
StepsMatchStatus ==
  \A r \in Runs :
    /\ status[r] = "none" => job[r] = "none" /\ stopping[r] = "idle"
    /\ creating[r] \in {"runs", "insert"} => status[r] = "none"
    /\ creating[r] = "enqueue" => status[r] # "none" /\ job[r] = "none"
    /\ job[r] \in BeforeStart => status[r] # "running"
    /\ job[r] \in Driving \cup {"resume", "fail", "lost"}
         => status[r] \notin {"none", "queued"}
    /\ job[r] = "release" => status[r] \in Settled
    /\ stopping[r] = "release" => status[r] \in Settled

\* Who holds which lock.
LocksMatchRuns ==
  /\ \A d \in Devices : holder[d] # None => Dev(holder[d]) = d
  /\ \A r \in Runs : job[r] \in {"prepare", "skip", "begin"} /\
                       status[r] = "queued" => holder[Dev(r)] = r
  /\ RunningHoldsLock

\* A run is posted at most once, because only a queued run gets to post.
PostedOnce ==
  \A r \in Runs :
    /\ starts[r] = 0 \/ starts[r] = 1
    /\ starts[r] = 1 => status[r] \notin {"none", "queued"} /\ job[r] # "post"
    /\ status[r] = "skipped" => starts[r] = 0 /\ job[r] # "post"

\* What is stored and what the executor knows, against the job's step.
OutcomeMatchesJob ==
  \A r \in Runs :
    /\ stored[r] # "none" => /\ status[r] \notin {"none", "queued"}
                             /\ job[r] \in Parked \cup
                                            {"record", "resume", "release"}
    /\ job[r] = "record" => stored[r] # "none"
    /\ job[r] = "lost" => exec[r] = "absent"
    /\ status[r] = "lost" => exec[r] = "absent" /\ job[r] # "post"
    /\ status[r] = "succeeded" => stored[r] = "succeeded"

IInv ==
  /\ TypeOK /\ AttemptsBounded
  /\ QuietWhenDown /\ StepsMatchStatus
  /\ LocksMatchRuns
  /\ PostedOnce
  /\ OutcomeMatchesJob

-----------------------------------------------------------------------------
(***************************************************************************)
(* Preservation, one part of IInv at a time and one section of the module  *)
(* at a time; where a part is disturbed by many of the job's steps, these    *)
(* are taken one by one.                                                   *)
(***************************************************************************)

\* The executor's steps that others take part in keep its variables' types.
LEMMA StartTypes ==
  ASSUME Phone!ExecTypeOK, NEW r \in Runs, Phone!Start(r)
  PROVE  Phone!ExecTypeOK'
BY DEF Phone!ExecTypeOK, Phone!ExecStates, Phone!Endings, Phone!Start

LEMMA StopTypes ==
  ASSUME Phone!ExecTypeOK, NEW r \in Runs,
         Phone!Stop(r) \/ UNCHANGED phoneVars
  PROVE  Phone!ExecTypeOK'
<1>1. CASE Phone!Stop(r)
  BY <1>1 DEF Phone!ExecTypeOK, Phone!ExecStates, Phone!Stop
<1>2. CASE UNCHANGED phoneVars
  BY <1>2 DEF Phone!ExecTypeOK, phoneVars
<1> QED BY <1>1, <1>2

\* Values keep their types; the only arithmetic is in starts and attempt.
LEMMA TypeStep ==
  ASSUME IInv, [Next]_vars
  PROVE  TypeOK'
<1> USE RunsAssumption, BoundsAssumption
        DEF Dev, JobGoes, StopGoes, requests, tailVars, execVars, phoneVars,
               Parked, BeforeStart, Driving, JobSteps, Endings, Phone!Endings,
               InFlight, Terminal, Settled, IInv, TypeOK, Phone!ExecTypeOK,
               Phone!ExecStates, AttemptsBounded, OutcomeMatchesJob
<1>1. ASSUME NEW r \in Runs, CreateReadDevice(r) \/ CreateRun(r)
      PROVE  TypeOK'
  <2>1. CASE CreateReadDevice(r)
    BY <2>1 DEF CreateReadDevice
  <2>2. CASE CreateReadRuns(r)
    BY <2>2 DEF CreateReadRuns
  <2>3. CASE CreateInsert(r)
    BY <2>3 DEF CreateInsert, InsertRun
  <2>4. CASE CreateEnqueue(r)
    BY <2>4 DEF CreateEnqueue
  <2> QED BY <1>1, <2>1, <2>2, <2>3, <2>4
         DEF CreateRun
<1>2. ASSUME NEW r \in Runs, ExecuteRun(r)
      PROVE  TypeOK'
  <2>1. CASE JobStart(r)
    BY <2>1 DEF JobStart, Dispatch
  <2>2. CASE JobLock(r)
    BY <2>2 DEF JobLock, LockFree, TakeLock
  <2>3. CASE JobBusy(r)
    BY <2>3 DEF JobBusy, FinishRun
  <2>4. CASE JobPrepare(r)
    BY <2>4 DEF JobPrepare
  <2>5. CASE JobThrows(r)
    BY <2>5 DEF JobThrows, Fault
  <2>6. CASE JobSkip(r)
    BY <2>6 DEF JobSkip, FinishRun
  <2>7. CASE JobBegin(r)
    <3>1. \/ status' = [status EXCEPT ![r] = "running"] /\ JobGoes(r, "post")
          \/ UNCHANGED status /\ JobGoes(r, "release")
      BY <2>7 DEF JobBegin, BeginRun
    <3>2. status' \in [Runs -> {"none"} \cup InFlight \cup Settled]
      BY <3>1
    <3>3. job' \in [Runs -> JobSteps]
      BY <3>1
    <3> QED BY <2>7, <3>2, <3>3 DEF JobBegin
  <2>8. CASE JobPost(r)
    <3>1. CASE Phone!DeviceBusy(r)
      BY <2>8, <3>1 DEF JobPost
    <3>2. CASE ~Phone!DeviceBusy(r)
      <4>1. Phone!ExecTypeOK'
        BY <2>8, <3>2, StartTypes DEF JobPost
      <4>2. starts[r] + 1 \in Nat
        OBVIOUS
      <4>3. starts' \in [Runs -> Nat]
        BY <2>8, <3>2, <4>2 DEF JobPost
      <4>4. job' \in [Runs -> JobSteps]
        BY <2>8, <3>2 DEF JobPost
      <4>5. UNCHANGED <<app, status, holder, requests, tailVars, faults>>
        BY <2>8 DEF JobPost
      <4> QED BY <4>1, <4>3, <4>4, <4>5
    <3> QED BY <3>1, <3>2
  <2>9. CASE JobPostFails(r)
    BY <2>9 DEF JobPostFails, Fault
  <2>10. CASE JobResume(r)
    BY <2>10 DEF JobResume, FinishFromEvent, FinishRun, LockFree, TakeLock
  <2>11. CASE JobConnect(r)
    BY <2>11 DEF JobConnect, Attach
  <2>12. CASE JobStreamBreaks(r)
    <3>1. PICK base \in {attempt[r]} \cup
                           (IF job[r] = "attached" THEN {0} ELSE {}) :
             /\ attempt' = [attempt EXCEPT ![r] = base + 1]
             /\ JobGoes(r, AfterGap(r, base))
      BY <2>12 DEF JobStreamBreaks
    <3>2. base \in Nat /\ base < ReconnectAttempts
      BY <2>12, <3>1 DEF JobStreamBreaks
    <3>3. attempt' \in [Runs -> 0..ReconnectAttempts]
      BY <3>1, <3>2
    <3>4. job' \in [Runs -> JobSteps]
      BY <3>1 DEF AfterGap
    <3>5. faults' \in 0..MaxFaults
      BY <2>12 DEF JobStreamBreaks, Fault
    <3> QED BY <2>12, <3>3, <3>4, <3>5 DEF JobStreamBreaks
  <2>13. CASE JobStore(r)
    BY <2>13 DEF JobStore
  <2>14. CASE JobRecord(r)
    BY <2>14 DEF JobRecord, FinishFromEvent, FinishRun
  <2>15. CASE JobGiveUp(r)
    <3>1. Phone!ExecTypeOK'
      BY <2>15, StopTypes DEF JobGiveUp
    <3>2. faults' \in 0..MaxFaults
      BY <2>15 DEF JobGiveUp, Fault, NoFault
    <3>3. job' \in [Runs -> JobSteps]
      BY <2>15 DEF JobGiveUp
    <3> QED BY <2>15, <3>1, <3>2, <3>3 DEF JobGiveUp
  <2>16. CASE JobFail(r)
    BY <2>16 DEF JobFail, FinishRun
  <2>17. CASE JobRelease(r)
    BY <2>17 DEF JobRelease, ReleaseDeviceLock
  <2> QED BY <1>2, <2>1, <2>2, <2>3, <2>4, <2>5, <2>6, <2>7, <2>8, <2>9,
         <2>10, <2>11, <2>12, <2>13, <2>14, <2>15, <2>16, <2>17
         DEF ExecuteRun
<1>3. ASSUME NEW r \in Runs, StopRead(r) \/ StopRun(r) \/ DeleteRun(r)
      PROVE  TypeOK'
  <2>1. CASE StopRead(r)
    BY <2>1 DEF StopRead
  <2>2. CASE StopCas(r)
    BY <2>2 DEF StopCas
  <2>3. CASE StopCall(r)
    <3>1. Phone!ExecTypeOK'
      BY <2>3, StopTypes DEF StopCall
    <3> QED BY <2>3, <3>1 DEF StopCall
  <2>4. CASE StopUnreachable(r)
    BY <2>4 DEF StopUnreachable, Fault
  <2>5. CASE StopForgotten(r)
    BY <2>5 DEF StopForgotten, FinishRun
  <2>6. CASE StopRelease(r)
    BY <2>6 DEF StopRelease, ReleaseDeviceLock
  <2>7. CASE DeleteRun(r)
    BY <2>7 DEF DeleteRun
  <2> QED BY <1>3, <2>1, <2>2, <2>3, <2>4, <2>5, <2>6, <2>7
         DEF StopRun
<1>4. ASSUME NEW r \in Runs, Executor(r) \/ ExecSweep(r)
      PROVE  TypeOK'
  <2>1. CASE ExecAdmit(r)
    BY <2>1 DEF ExecAdmit, Phone!Admit
  <2>2. CASE ExecRefuse(r)
    BY <2>2 DEF ExecRefuse, Phone!Withdraw
  <2>3. CASE ExecFinish(r)
    BY <2>3 DEF ExecFinish, Phone!Finish
  <2>4. CASE ExecSweep(r)
    BY <2>4 DEF ExecSweep, Phone!Sweep
  <2> QED BY <1>4, <2>1, <2>2, <2>3, <2>4
         DEF Executor
<1>5. CASE ExecRestart
  BY <1>5 DEF ExecRestart, Fault, AfterGap
<1>6. CASE AppCrash
  BY <1>6 DEF AppCrash, Fault
<1>7. CASE BootRearm
  BY <1>7 DEF BootRearm, RearmJobs
<1>8. CASE BootFree
  BY <1>8 DEF BootFree, FreeLocks
<1>9. CASE UNCHANGED vars
  BY <1>9 DEF vars
<1> QED BY <1>1, <1>2, <1>3, <1>4, <1>5, <1>6, <1>7, <1>8, <1>9
         DEF Next, Boot

\* A gap counts one attempt and stops tailing when the budget is spent.
LEMMA AttemptsStep ==
  ASSUME IInv, [Next]_vars
  PROVE  AttemptsBounded'
<1> USE RunsAssumption, BoundsAssumption
        DEF Dev, JobGoes, StopGoes, requests, tailVars, execVars, phoneVars,
               Parked, BeforeStart, Driving, JobSteps, Endings, Phone!Endings,
               InFlight, Terminal, Settled, IInv, TypeOK, Phone!ExecTypeOK,
               Phone!ExecStates, AttemptsBounded, QuietWhenDown,
               StepsMatchStatus
<1>1. ASSUME NEW r \in Runs, CreateReadDevice(r) \/ CreateRun(r)
      PROVE  AttemptsBounded'
  BY <1>1 DEF CreateRun, CreateReadDevice, CreateReadRuns, CreateInsert,
         InsertRun, CreateEnqueue
<1>2. ASSUME NEW r \in Runs, ExecuteRun(r)
      PROVE  AttemptsBounded'
  BY <1>2 DEF ExecuteRun, JobStart, Dispatch, JobLock, LockFree, TakeLock,
         JobBusy, FinishRun, JobPrepare, JobThrows, Fault, JobSkip, JobBegin,
         BeginRun, JobPost, Phone!Start, Phone!DeviceBusy, Phone!Live,
         JobPostFails, JobResume, FinishFromEvent, JobConnect, Attach,
         JobStreamBreaks, AfterGap, JobStore, JobRecord, JobGiveUp,
         Phone!Stop, Phone!Known, NoFault, JobFail, JobRelease,
         ReleaseDeviceLock
<1>3. ASSUME NEW r \in Runs, StopRead(r) \/ StopRun(r) \/ DeleteRun(r)
      PROVE  AttemptsBounded'
  BY <1>3 DEF StopRun, StopRead, StopCas, StopCall, Phone!Stop, Phone!Known,
         StopUnreachable, Fault, StopForgotten, FinishRun, StopRelease,
         ReleaseDeviceLock, DeleteRun
<1>4. ASSUME NEW r \in Runs, Executor(r) \/ ExecSweep(r)
      PROVE  AttemptsBounded'
  BY <1>4 DEF Executor, ExecAdmit, Phone!Admit, ExecRefuse, Phone!Withdraw,
         ExecFinish, Phone!Finish, ExecSweep, Phone!Sweep
<1>5. CASE ExecRestart
  BY <1>5 DEF ExecRestart, Fault, AfterGap
<1>6. CASE AppCrash
  BY <1>6 DEF AppCrash, Fault
<1>7. CASE BootRearm
  BY <1>7 DEF BootRearm, RearmJobs
<1>8. CASE BootFree
  BY <1>8 DEF BootFree, FreeLocks
<1>9. CASE UNCHANGED vars
  BY <1>9 DEF vars
<1> QED BY <1>1, <1>2, <1>3, <1>4, <1>5, <1>6, <1>7, <1>8, <1>9
         DEF Next, Boot

\* A crash parks every job; only the last step of the boot lets code run.
LEMMA QuietStep ==
  ASSUME IInv, [Next]_vars
  PROVE  QuietWhenDown'
<1> USE RunsAssumption, BoundsAssumption
        DEF Dev, JobGoes, StopGoes, requests, tailVars, execVars, phoneVars,
               Parked, BeforeStart, Driving, JobSteps, Endings, Phone!Endings,
               InFlight, Terminal, Settled, IInv, TypeOK, Phone!ExecTypeOK,
               Phone!ExecStates, QuietWhenDown
<1>1. ASSUME NEW r \in Runs, CreateReadDevice(r) \/ CreateRun(r)
      PROVE  QuietWhenDown'
  BY <1>1 DEF CreateRun, CreateReadDevice, CreateReadRuns, CreateInsert,
         InsertRun, CreateEnqueue
<1>2. ASSUME NEW r \in Runs, ExecuteRun(r)
      PROVE  QuietWhenDown'
  BY <1>2 DEF ExecuteRun, JobStart, Dispatch, JobLock, LockFree, TakeLock,
         JobBusy, FinishRun, JobPrepare, JobThrows, Fault, JobSkip, JobBegin,
         BeginRun, JobPost, Phone!Start, Phone!DeviceBusy, Phone!Live,
         JobPostFails, JobResume, FinishFromEvent, JobConnect, Attach,
         JobStreamBreaks, AfterGap, JobStore, JobRecord, JobGiveUp,
         Phone!Stop, Phone!Known, NoFault, JobFail, JobRelease,
         ReleaseDeviceLock
<1>3. ASSUME NEW r \in Runs, StopRead(r) \/ StopRun(r) \/ DeleteRun(r)
      PROVE  QuietWhenDown'
  BY <1>3 DEF StopRun, StopRead, StopCas, StopCall, Phone!Stop, Phone!Known,
         StopUnreachable, Fault, StopForgotten, FinishRun, StopRelease,
         ReleaseDeviceLock, DeleteRun
<1>4. ASSUME NEW r \in Runs, Executor(r) \/ ExecSweep(r)
      PROVE  QuietWhenDown'
  BY <1>4 DEF Executor, ExecAdmit, Phone!Admit, ExecRefuse, Phone!Withdraw,
         ExecFinish, Phone!Finish, ExecSweep, Phone!Sweep
<1>5. CASE ExecRestart
  BY <1>5 DEF ExecRestart, Fault, AfterGap
<1>6. CASE AppCrash
  BY <1>6 DEF AppCrash, Fault
<1>7. CASE BootRearm
  BY <1>7 DEF BootRearm, RearmJobs
<1>8. CASE BootFree
  BY <1>8 DEF BootFree, FreeLocks
<1>9. CASE UNCHANGED vars
  BY <1>9 DEF vars
<1> QED BY <1>1, <1>2, <1>3, <1>4, <1>5, <1>6, <1>7, <1>8, <1>9
         DEF Next, Boot

\* A job leaves its waiting steps only with the status it has checked.
LEMMA StepsStep ==
  ASSUME IInv, [Next]_vars
  PROVE  StepsMatchStatus'
<1> USE RunsAssumption, BoundsAssumption
        DEF Dev, JobGoes, StopGoes, requests, tailVars, execVars, phoneVars,
               Parked, BeforeStart, Driving, JobSteps, Endings, Phone!Endings,
               InFlight, Terminal, Settled, IInv, TypeOK, Phone!ExecTypeOK,
               Phone!ExecStates, QuietWhenDown, StepsMatchStatus,
               OutcomeMatchesJob
<1>1. ASSUME NEW r \in Runs, CreateReadDevice(r) \/ CreateRun(r)
      PROVE  StepsMatchStatus'
  BY <1>1 DEF CreateRun, CreateReadDevice, CreateReadRuns, CreateInsert,
         InsertRun, CreateEnqueue
<1>2. ASSUME NEW r \in Runs, ExecuteRun(r)
      PROVE  StepsMatchStatus'
  BY <1>2 DEF ExecuteRun, JobStart, Dispatch, JobLock, LockFree, TakeLock,
         JobBusy, FinishRun, JobPrepare, JobThrows, Fault, JobSkip, JobBegin,
         BeginRun, JobPost, Phone!Start, Phone!DeviceBusy, Phone!Live,
         JobPostFails, JobResume, FinishFromEvent, JobConnect, Attach,
         JobStreamBreaks, AfterGap, JobStore, JobRecord, JobGiveUp,
         Phone!Stop, Phone!Known, NoFault, JobFail, JobRelease,
         ReleaseDeviceLock
<1>3. ASSUME NEW r \in Runs, StopRead(r) \/ StopRun(r) \/ DeleteRun(r)
      PROVE  StepsMatchStatus'
  BY <1>3 DEF StopRun, StopRead, StopCas, StopCall, Phone!Stop, Phone!Known,
         StopUnreachable, Fault, StopForgotten, FinishRun, StopRelease,
         ReleaseDeviceLock, DeleteRun
<1>4. ASSUME NEW r \in Runs, Executor(r) \/ ExecSweep(r)
      PROVE  StepsMatchStatus'
  BY <1>4 DEF Executor, ExecAdmit, Phone!Admit, ExecRefuse, Phone!Withdraw,
         ExecFinish, Phone!Finish, ExecSweep, Phone!Sweep
<1>5. CASE ExecRestart
  BY <1>5 DEF ExecRestart, Fault, AfterGap
<1>6. CASE AppCrash
  BY <1>6 DEF AppCrash, Fault
<1>7. CASE BootRearm
  BY <1>7 DEF BootRearm, RearmJobs
<1>8. CASE BootFree
  BY <1>8 DEF BootFree, FreeLocks
<1>9. CASE UNCHANGED vars
  BY <1>9 DEF vars
<1> QED BY <1>1, <1>2, <1>3, <1>4, <1>5, <1>6, <1>7, <1>8, <1>9
         DEF Next, Boot

\* The lock is taken before the start and given back only by a settled run.
LEMMA LocksStep ==
  ASSUME IInv, [Next]_vars
  PROVE  LocksMatchRuns'
<1> USE RunsAssumption, BoundsAssumption
        DEF Dev, JobGoes, StopGoes, requests, tailVars, execVars, phoneVars,
               Parked, BeforeStart, Driving, JobSteps, Endings, Phone!Endings,
               InFlight, Terminal, Settled, IInv, TypeOK, Phone!ExecTypeOK,
               Phone!ExecStates, QuietWhenDown, StepsMatchStatus,
               LocksMatchRuns, RunningHoldsLock
<1>1. ASSUME NEW r \in Runs, CreateReadDevice(r) \/ CreateRun(r)
      PROVE  LocksMatchRuns'
  BY <1>1 DEF CreateRun, CreateReadDevice, CreateReadRuns, CreateInsert,
         InsertRun, CreateEnqueue
<1>2. ASSUME NEW r \in Runs, ExecuteRun(r)
      PROVE  LocksMatchRuns'
  <2>1. CASE JobStart(r)
    BY <2>1 DEF JobStart, Dispatch
  <2>2. CASE JobLock(r)
    BY <2>2 DEF JobLock, LockFree, TakeLock
  <2>3. CASE JobBusy(r)
    BY <2>3 DEF JobBusy, FinishRun
  <2>4. CASE JobPrepare(r)
    BY <2>4 DEF JobPrepare
  <2>5. CASE JobThrows(r)
    BY <2>5 DEF JobThrows, Fault
  <2>6. CASE JobSkip(r)
    BY <2>6 DEF JobSkip, FinishRun
  <2>7. CASE JobBegin(r)
    BY <2>7 DEF JobBegin, BeginRun
  <2>8. CASE JobPost(r)
    BY <2>8 DEF JobPost, Phone!Start, Phone!DeviceBusy, Phone!Live
  <2>9. CASE JobPostFails(r)
    BY <2>9 DEF JobPostFails, Fault
  <2>10. CASE JobResume(r)
    BY <2>10 DEF JobResume, FinishFromEvent, FinishRun, LockFree, TakeLock
  <2>11. CASE JobConnect(r)
    BY <2>11 DEF JobConnect, Attach
  <2>12. CASE JobStreamBreaks(r)
    BY <2>12 DEF JobStreamBreaks, Fault, AfterGap
  <2>13. CASE JobStore(r)
    BY <2>13 DEF JobStore
  <2>14. CASE JobRecord(r)
    BY <2>14 DEF JobRecord, FinishFromEvent, FinishRun
  <2>15. CASE JobGiveUp(r)
    BY <2>15 DEF JobGiveUp, Phone!Stop, Phone!Known, Fault, NoFault
  <2>16. CASE JobFail(r)
    BY <2>16 DEF JobFail, FinishRun
  <2>17. CASE JobRelease(r)
    BY <2>17 DEF JobRelease, ReleaseDeviceLock
  <2> QED BY <1>2, <2>1, <2>2, <2>3, <2>4, <2>5, <2>6, <2>7, <2>8, <2>9,
         <2>10, <2>11, <2>12, <2>13, <2>14, <2>15, <2>16, <2>17
         DEF ExecuteRun
<1>3. ASSUME NEW r \in Runs, StopRead(r) \/ StopRun(r) \/ DeleteRun(r)
      PROVE  LocksMatchRuns'
  <2>1. CASE StopRead(r)
    BY <2>1 DEF StopRead
  <2>2. CASE StopCas(r)
    BY <2>2 DEF StopCas
  <2>3. CASE StopCall(r)
    BY <2>3 DEF StopCall, Phone!Stop, Phone!Known
  <2>4. CASE StopUnreachable(r)
    BY <2>4 DEF StopUnreachable, Fault
  <2>5. CASE StopForgotten(r)
    BY <2>5 DEF StopForgotten, FinishRun
  <2>6. CASE StopRelease(r)
    BY <2>6 DEF StopRelease, ReleaseDeviceLock
  <2>7. CASE DeleteRun(r)
    BY <2>7 DEF DeleteRun
  <2> QED BY <1>3, <2>1, <2>2, <2>3, <2>4, <2>5, <2>6, <2>7
         DEF StopRun
<1>4. ASSUME NEW r \in Runs, Executor(r) \/ ExecSweep(r)
      PROVE  LocksMatchRuns'
  BY <1>4 DEF Executor, ExecAdmit, Phone!Admit, ExecRefuse, Phone!Withdraw,
         ExecFinish, Phone!Finish, ExecSweep, Phone!Sweep
<1>5. CASE ExecRestart
  BY <1>5 DEF ExecRestart, Fault, AfterGap
<1>6. CASE AppCrash
  BY <1>6 DEF AppCrash, Fault
<1>7. CASE BootRearm
  BY <1>7 DEF BootRearm, RearmJobs
<1>8. CASE BootFree
  BY <1>8 DEF BootFree, FreeLocks
<1>9. CASE UNCHANGED vars
  BY <1>9 DEF vars
<1> QED BY <1>1, <1>2, <1>3, <1>4, <1>5, <1>6, <1>7, <1>8, <1>9
         DEF Next, Boot

\* Only JobPost starts a run, and only JobBegin of a queued run leads there.
LEMMA PostedStep ==
  ASSUME IInv, [Next]_vars
  PROVE  PostedOnce'
<1> USE RunsAssumption, BoundsAssumption
        DEF Dev, JobGoes, StopGoes, requests, tailVars, execVars, phoneVars,
               Parked, BeforeStart, Driving, JobSteps, Endings, Phone!Endings,
               InFlight, Terminal, Settled, IInv, TypeOK, Phone!ExecTypeOK,
               Phone!ExecStates, StepsMatchStatus, PostedOnce, QuietWhenDown,
               OutcomeMatchesJob
<1>1. ASSUME NEW r \in Runs, CreateReadDevice(r) \/ CreateRun(r)
      PROVE  PostedOnce'
  BY <1>1 DEF CreateRun, CreateReadDevice, CreateReadRuns, CreateInsert,
         InsertRun, CreateEnqueue
<1>2. ASSUME NEW r \in Runs, ExecuteRun(r)
      PROVE  PostedOnce'
  <2>1. CASE JobStart(r)
    BY <2>1 DEF JobStart, Dispatch
  <2>2. CASE JobLock(r)
    BY <2>2 DEF JobLock, LockFree, TakeLock
  <2>3. CASE JobBusy(r)
    BY <2>3 DEF JobBusy, FinishRun
  <2>4. CASE JobPrepare(r)
    BY <2>4 DEF JobPrepare
  <2>5. CASE JobThrows(r)
    BY <2>5 DEF JobThrows, Fault
  <2>6. CASE JobSkip(r)
    BY <2>6 DEF JobSkip, FinishRun
  <2>7. CASE JobBegin(r)
    BY <2>7 DEF JobBegin, BeginRun
  <2>8. CASE JobPost(r)
    BY <2>8 DEF JobPost, Phone!Start, Phone!DeviceBusy, Phone!Live
  <2>9. CASE JobPostFails(r)
    BY <2>9 DEF JobPostFails, Fault
  <2>10. CASE JobResume(r)
    BY <2>10 DEF JobResume, FinishFromEvent, FinishRun, LockFree, TakeLock
  <2>11. CASE JobConnect(r)
    BY <2>11 DEF JobConnect, Attach
  <2>12. CASE JobStreamBreaks(r)
    BY <2>12 DEF JobStreamBreaks, Fault, AfterGap
  <2>13. CASE JobStore(r)
    BY <2>13 DEF JobStore
  <2>14. CASE JobRecord(r)
    BY <2>14 DEF JobRecord, FinishFromEvent, FinishRun
  <2>15. CASE JobGiveUp(r)
    BY <2>15 DEF JobGiveUp, Phone!Stop, Phone!Known, Fault, NoFault
  <2>16. CASE JobFail(r)
    BY <2>16 DEF JobFail, FinishRun
  <2>17. CASE JobRelease(r)
    BY <2>17 DEF JobRelease, ReleaseDeviceLock
  <2> QED BY <1>2, <2>1, <2>2, <2>3, <2>4, <2>5, <2>6, <2>7, <2>8, <2>9,
         <2>10, <2>11, <2>12, <2>13, <2>14, <2>15, <2>16, <2>17
         DEF ExecuteRun
<1>3. ASSUME NEW r \in Runs, StopRead(r) \/ StopRun(r) \/ DeleteRun(r)
      PROVE  PostedOnce'
  BY <1>3 DEF StopRun, StopRead, StopCas, StopCall, Phone!Stop, Phone!Known,
         StopUnreachable, Fault, StopForgotten, FinishRun, StopRelease,
         ReleaseDeviceLock, DeleteRun
<1>4. ASSUME NEW r \in Runs, Executor(r) \/ ExecSweep(r)
      PROVE  PostedOnce'
  BY <1>4 DEF Executor, ExecAdmit, Phone!Admit, ExecRefuse, Phone!Withdraw,
         ExecFinish, Phone!Finish, ExecSweep, Phone!Sweep
<1>5. CASE ExecRestart
  BY <1>5 DEF ExecRestart, Fault, AfterGap
<1>6. CASE AppCrash
  BY <1>6 DEF AppCrash, Fault
<1>7. CASE BootRearm
  BY <1>7 DEF BootRearm, RearmJobs
<1>8. CASE BootFree
  BY <1>8 DEF BootFree, FreeLocks
<1>9. CASE UNCHANGED vars
  BY <1>9 DEF vars
<1> QED BY <1>1, <1>2, <1>3, <1>4, <1>5, <1>6, <1>7, <1>8, <1>9
         DEF Next, Boot

\* The stored event decides the status; a run reported lost is not posted.
LEMMA OutcomeStep ==
  ASSUME IInv, [Next]_vars
  PROVE  OutcomeMatchesJob'
<1> USE RunsAssumption, BoundsAssumption
        DEF Dev, JobGoes, StopGoes, requests, tailVars, execVars, phoneVars,
               Parked, BeforeStart, Driving, JobSteps, Endings, Phone!Endings,
               InFlight, Terminal, Settled, IInv, TypeOK, Phone!ExecTypeOK,
               Phone!ExecStates, QuietWhenDown, StepsMatchStatus,
               OutcomeMatchesJob
<1>1. ASSUME NEW r \in Runs, CreateReadDevice(r) \/ CreateRun(r)
      PROVE  OutcomeMatchesJob'
  BY <1>1 DEF CreateRun, CreateReadDevice, CreateReadRuns, CreateInsert,
         InsertRun, CreateEnqueue
<1>2. ASSUME NEW r \in Runs, ExecuteRun(r)
      PROVE  OutcomeMatchesJob'
  <2>1. CASE JobStart(r)
    BY <2>1 DEF JobStart, Dispatch
  <2>2. CASE JobLock(r)
    BY <2>2 DEF JobLock, LockFree, TakeLock
  <2>3. CASE JobBusy(r)
    BY <2>3 DEF JobBusy, FinishRun
  <2>4. CASE JobPrepare(r)
    BY <2>4 DEF JobPrepare
  <2>5. CASE JobThrows(r)
    BY <2>5 DEF JobThrows, Fault
  <2>6. CASE JobSkip(r)
    BY <2>6 DEF JobSkip, FinishRun
  <2>7. CASE JobBegin(r)
    BY <2>7 DEF JobBegin, BeginRun
  <2>8. CASE JobPost(r)
    BY <2>8 DEF JobPost, Phone!Start, Phone!DeviceBusy, Phone!Live
  <2>9. CASE JobPostFails(r)
    BY <2>9 DEF JobPostFails, Fault
  <2>10. CASE JobResume(r)
    BY <2>10 DEF JobResume, FinishFromEvent, FinishRun, LockFree, TakeLock
  <2>11. CASE JobConnect(r)
    BY <2>11 DEF JobConnect, Attach
  <2>12. CASE JobStreamBreaks(r)
    BY <2>12 DEF JobStreamBreaks, Fault, AfterGap
  <2>13. CASE JobStore(r)
    BY <2>13 DEF JobStore
  <2>14. CASE JobRecord(r)
    BY <2>14 DEF JobRecord, FinishFromEvent, FinishRun
  <2>15. CASE JobGiveUp(r)
    BY <2>15 DEF JobGiveUp, Phone!Stop, Phone!Known, Fault, NoFault
  <2>16. CASE JobFail(r)
    BY <2>16 DEF JobFail, FinishRun
  <2>17. CASE JobRelease(r)
    BY <2>17 DEF JobRelease, ReleaseDeviceLock
  <2> QED BY <1>2, <2>1, <2>2, <2>3, <2>4, <2>5, <2>6, <2>7, <2>8, <2>9,
         <2>10, <2>11, <2>12, <2>13, <2>14, <2>15, <2>16, <2>17
         DEF ExecuteRun
<1>3. ASSUME NEW r \in Runs, StopRead(r) \/ StopRun(r) \/ DeleteRun(r)
      PROVE  OutcomeMatchesJob'
  BY <1>3 DEF StopRun, StopRead, StopCas, StopCall, Phone!Stop, Phone!Known,
         StopUnreachable, Fault, StopForgotten, FinishRun, StopRelease,
         ReleaseDeviceLock, DeleteRun
<1>4. ASSUME NEW r \in Runs, Executor(r) \/ ExecSweep(r)
      PROVE  OutcomeMatchesJob'
  BY <1>4 DEF Executor, ExecAdmit, Phone!Admit, ExecRefuse, Phone!Withdraw,
         ExecFinish, Phone!Finish, ExecSweep, Phone!Sweep
<1>5. CASE ExecRestart
  BY <1>5 DEF ExecRestart, Fault, AfterGap
<1>6. CASE AppCrash
  BY <1>6 DEF AppCrash, Fault
<1>7. CASE BootRearm
  BY <1>7 DEF BootRearm, RearmJobs
<1>8. CASE BootFree
  BY <1>8 DEF BootFree, FreeLocks
<1>9. CASE UNCHANGED vars
  BY <1>9 DEF vars
<1> QED BY <1>1, <1>2, <1>3, <1>4, <1>5, <1>6, <1>7, <1>8, <1>9
         DEF Next, Boot

\* Whoever may drop the lock drops it, or leaves the run to someone who will.
LEMMA KeeperStep ==
  ASSUME IInv, LockHasKeeper, [Next]_vars
  PROVE  LockHasKeeper'
<1> USE RunsAssumption, BoundsAssumption
        DEF Dev, JobGoes, StopGoes, requests, tailVars, execVars, phoneVars,
               Parked, BeforeStart, Driving, JobSteps, Endings, Phone!Endings,
               InFlight, Terminal, Settled, IInv, TypeOK, Phone!ExecTypeOK,
               Phone!ExecStates, QuietWhenDown, StepsMatchStatus,
               LocksMatchRuns, LockHasKeeper
<1>1. ASSUME NEW r \in Runs, CreateReadDevice(r) \/ CreateRun(r)
      PROVE  LockHasKeeper'
  BY <1>1 DEF CreateRun, CreateReadDevice, CreateReadRuns, CreateInsert,
         InsertRun, CreateEnqueue
<1>2. ASSUME NEW r \in Runs, ExecuteRun(r)
      PROVE  LockHasKeeper'
  BY <1>2 DEF ExecuteRun, JobStart, Dispatch, JobLock, LockFree, TakeLock,
         JobBusy, FinishRun, JobPrepare, JobThrows, Fault, JobSkip, JobBegin,
         BeginRun, JobPost, Phone!Start, Phone!DeviceBusy, Phone!Live,
         JobPostFails, JobResume, FinishFromEvent, JobConnect, Attach,
         JobStreamBreaks, AfterGap, JobStore, JobRecord, JobGiveUp,
         Phone!Stop, Phone!Known, NoFault, JobFail, JobRelease,
         ReleaseDeviceLock
<1>3. ASSUME NEW r \in Runs, StopRead(r) \/ StopRun(r) \/ DeleteRun(r)
      PROVE  LockHasKeeper'
  BY <1>3 DEF StopRun, StopRead, StopCas, StopCall, Phone!Stop, Phone!Known,
         StopUnreachable, Fault, StopForgotten, FinishRun, StopRelease,
         ReleaseDeviceLock, DeleteRun
<1>4. ASSUME NEW r \in Runs, Executor(r) \/ ExecSweep(r)
      PROVE  LockHasKeeper'
  BY <1>4 DEF Executor, ExecAdmit, Phone!Admit, ExecRefuse, Phone!Withdraw,
         ExecFinish, Phone!Finish, ExecSweep, Phone!Sweep
<1>5. CASE ExecRestart
  BY <1>5 DEF ExecRestart, Fault, AfterGap
<1>6. CASE AppCrash
  BY <1>6 DEF AppCrash, Fault
<1>7. CASE BootRearm
  BY <1>7 DEF BootRearm, RearmJobs
<1>8. CASE BootFree
  BY <1>8 DEF BootFree, FreeLocks
<1>9. CASE UNCHANGED vars
  BY <1>9 DEF vars
<1> QED BY <1>1, <1>2, <1>3, <1>4, <1>5, <1>6, <1>7, <1>8, <1>9
         DEF Next, Boot

\* A run in flight is never left without a job by anything but a crash.
LEMMA WorkerStep ==
  ASSUME IInv, RunHasWorker, [Next]_vars
  PROVE  RunHasWorker'
<1> USE RunsAssumption, BoundsAssumption
        DEF Dev, JobGoes, StopGoes, requests, tailVars, execVars, phoneVars,
               Parked, BeforeStart, Driving, JobSteps, Endings, Phone!Endings,
               InFlight, Terminal, Settled, IInv, TypeOK, Phone!ExecTypeOK,
               Phone!ExecStates, QuietWhenDown, StepsMatchStatus,
               RunHasWorker, OutcomeMatchesJob
<1>1. ASSUME NEW r \in Runs, CreateReadDevice(r) \/ CreateRun(r)
      PROVE  RunHasWorker'
  BY <1>1 DEF CreateRun, CreateReadDevice, CreateReadRuns, CreateInsert,
         InsertRun, CreateEnqueue
<1>2. ASSUME NEW r \in Runs, ExecuteRun(r)
      PROVE  RunHasWorker'
  BY <1>2 DEF ExecuteRun, JobStart, Dispatch, JobLock, LockFree, TakeLock,
         JobBusy, FinishRun, JobPrepare, JobThrows, Fault, JobSkip, JobBegin,
         BeginRun, JobPost, Phone!Start, Phone!DeviceBusy, Phone!Live,
         JobPostFails, JobResume, FinishFromEvent, JobConnect, Attach,
         JobStreamBreaks, AfterGap, JobStore, JobRecord, JobGiveUp,
         Phone!Stop, Phone!Known, NoFault, JobFail, JobRelease,
         ReleaseDeviceLock
<1>3. ASSUME NEW r \in Runs, StopRead(r) \/ StopRun(r) \/ DeleteRun(r)
      PROVE  RunHasWorker'
  BY <1>3 DEF StopRun, StopRead, StopCas, StopCall, Phone!Stop, Phone!Known,
         StopUnreachable, Fault, StopForgotten, FinishRun, StopRelease,
         ReleaseDeviceLock, DeleteRun
<1>4. ASSUME NEW r \in Runs, Executor(r) \/ ExecSweep(r)
      PROVE  RunHasWorker'
  BY <1>4 DEF Executor, ExecAdmit, Phone!Admit, ExecRefuse, Phone!Withdraw,
         ExecFinish, Phone!Finish, ExecSweep, Phone!Sweep
<1>5. CASE ExecRestart
  BY <1>5 DEF ExecRestart, Fault, AfterGap
<1>6. CASE AppCrash
  BY <1>6 DEF AppCrash, Fault
<1>7. CASE BootRearm
  BY <1>7 DEF BootRearm, RearmJobs
<1>8. CASE BootFree
  BY <1>8 DEF BootFree, FreeLocks
<1>9. CASE UNCHANGED vars
  BY <1>9 DEF vars
<1> QED BY <1>1, <1>2, <1>3, <1>4, <1>5, <1>6, <1>7, <1>8, <1>9
         DEF Next, Boot

\* The unique index refuses the second queued run of a device.
LEMMA OneQueuedStep ==
  ASSUME IInv, OneQueuedPerDevice, [Next]_vars
  PROVE  OneQueuedPerDevice'
<1> USE RunsAssumption, BoundsAssumption
        DEF Dev, JobGoes, StopGoes, requests, tailVars, execVars, phoneVars,
               Parked, BeforeStart, Driving, JobSteps, Endings, Phone!Endings,
               InFlight, Terminal, Settled, IInv, TypeOK, Phone!ExecTypeOK,
               Phone!ExecStates, StepsMatchStatus, OneQueuedPerDevice,
               OutcomeMatchesJob
<1>1. ASSUME NEW r \in Runs, CreateReadDevice(r) \/ CreateRun(r)
      PROVE  OneQueuedPerDevice'
  BY <1>1 DEF CreateRun, CreateReadDevice, CreateReadRuns, CreateInsert,
         InsertRun, CreateEnqueue
<1>2. ASSUME NEW r \in Runs, ExecuteRun(r)
      PROVE  OneQueuedPerDevice'
  BY <1>2 DEF ExecuteRun, JobStart, Dispatch, JobLock, LockFree, TakeLock,
         JobBusy, FinishRun, JobPrepare, JobThrows, Fault, JobSkip, JobBegin,
         BeginRun, JobPost, Phone!Start, Phone!DeviceBusy, Phone!Live,
         JobPostFails, JobResume, FinishFromEvent, JobConnect, Attach,
         JobStreamBreaks, AfterGap, JobStore, JobRecord, JobGiveUp,
         Phone!Stop, Phone!Known, NoFault, JobFail, JobRelease,
         ReleaseDeviceLock
<1>3. ASSUME NEW r \in Runs, StopRead(r) \/ StopRun(r) \/ DeleteRun(r)
      PROVE  OneQueuedPerDevice'
  BY <1>3 DEF StopRun, StopRead, StopCas, StopCall, Phone!Stop, Phone!Known,
         StopUnreachable, Fault, StopForgotten, FinishRun, StopRelease,
         ReleaseDeviceLock, DeleteRun
<1>4. ASSUME NEW r \in Runs, Executor(r) \/ ExecSweep(r)
      PROVE  OneQueuedPerDevice'
  BY <1>4 DEF Executor, ExecAdmit, Phone!Admit, ExecRefuse, Phone!Withdraw,
         ExecFinish, Phone!Finish, ExecSweep, Phone!Sweep
<1>5. CASE ExecRestart
  BY <1>5 DEF ExecRestart, Fault, AfterGap
<1>6. CASE AppCrash
  BY <1>6 DEF AppCrash, Fault
<1>7. CASE BootRearm
  BY <1>7 DEF BootRearm, RearmJobs
<1>8. CASE BootFree
  BY <1>8 DEF BootFree, FreeLocks
<1>9. CASE UNCHANGED vars
  BY <1>9 DEF vars
<1> QED BY <1>1, <1>2, <1>3, <1>4, <1>5, <1>6, <1>7, <1>8, <1>9
         DEF Next, Boot

\* Statuses change through compare-and-set only.
LEMMA FinalStep ==
  ASSUME IInv, [Next]_vars
  PROVE  FinalStatusStep
<1> USE RunsAssumption, BoundsAssumption
        DEF Dev, JobGoes, StopGoes, requests, tailVars, execVars, phoneVars,
               Parked, BeforeStart, Driving, JobSteps, Endings, Phone!Endings,
               InFlight, Terminal, Settled, IInv, TypeOK, Phone!ExecTypeOK,
               Phone!ExecStates, StepsMatchStatus, FinalStatusStep
<1>1. ASSUME NEW r \in Runs, CreateReadDevice(r) \/ CreateRun(r)
      PROVE  FinalStatusStep
  BY <1>1 DEF CreateRun, CreateReadDevice, CreateReadRuns, CreateInsert,
         InsertRun, CreateEnqueue
<1>2. ASSUME NEW r \in Runs, ExecuteRun(r)
      PROVE  FinalStatusStep
  BY <1>2 DEF ExecuteRun, JobStart, Dispatch, JobLock, LockFree, TakeLock,
         JobBusy, FinishRun, JobPrepare, JobThrows, Fault, JobSkip, JobBegin,
         BeginRun, JobPost, Phone!Start, Phone!DeviceBusy, Phone!Live,
         JobPostFails, JobResume, FinishFromEvent, JobConnect, Attach,
         JobStreamBreaks, AfterGap, JobStore, JobRecord, JobGiveUp,
         Phone!Stop, Phone!Known, NoFault, JobFail, JobRelease,
         ReleaseDeviceLock
<1>3. ASSUME NEW r \in Runs, StopRead(r) \/ StopRun(r) \/ DeleteRun(r)
      PROVE  FinalStatusStep
  BY <1>3 DEF StopRun, StopRead, StopCas, StopCall, Phone!Stop, Phone!Known,
         StopUnreachable, Fault, StopForgotten, FinishRun, StopRelease,
         ReleaseDeviceLock, DeleteRun
<1>4. ASSUME NEW r \in Runs, Executor(r) \/ ExecSweep(r)
      PROVE  FinalStatusStep
  BY <1>4 DEF Executor, ExecAdmit, Phone!Admit, ExecRefuse, Phone!Withdraw,
         ExecFinish, Phone!Finish, ExecSweep, Phone!Sweep
<1>5. CASE ExecRestart
  BY <1>5 DEF ExecRestart, Fault, AfterGap
<1>6. CASE AppCrash
  BY <1>6 DEF AppCrash, Fault
<1>7. CASE BootRearm
  BY <1>7 DEF BootRearm, RearmJobs
<1>8. CASE BootFree
  BY <1>8 DEF BootFree, FreeLocks
<1>9. CASE UNCHANGED vars
  BY <1>9 DEF vars
<1> QED BY <1>1, <1>2, <1>3, <1>4, <1>5, <1>6, <1>7, <1>8, <1>9
         DEF Next, Boot

\* Locks are taken when free and released by the run they name.
LEMMA HandoverStep ==
  ASSUME IInv, [Next]_vars
  PROVE  LockHandoverStep
<1> USE RunsAssumption, BoundsAssumption
        DEF Dev, JobGoes, StopGoes, requests, tailVars, execVars, phoneVars,
               Parked, BeforeStart, Driving, JobSteps, Endings, Phone!Endings,
               InFlight, Terminal, Settled, IInv, TypeOK, Phone!ExecTypeOK,
               Phone!ExecStates, StepsMatchStatus, LockHandoverStep
<1>1. ASSUME NEW r \in Runs, CreateReadDevice(r) \/ CreateRun(r)
      PROVE  LockHandoverStep
  BY <1>1 DEF CreateRun, CreateReadDevice, CreateReadRuns, CreateInsert,
         InsertRun, CreateEnqueue
<1>2. ASSUME NEW r \in Runs, ExecuteRun(r)
      PROVE  LockHandoverStep
  BY <1>2 DEF ExecuteRun, JobStart, Dispatch, JobLock, LockFree, TakeLock,
         JobBusy, FinishRun, JobPrepare, JobThrows, Fault, JobSkip, JobBegin,
         BeginRun, JobPost, Phone!Start, Phone!DeviceBusy, Phone!Live,
         JobPostFails, JobResume, FinishFromEvent, JobConnect, Attach,
         JobStreamBreaks, AfterGap, JobStore, JobRecord, JobGiveUp,
         Phone!Stop, Phone!Known, NoFault, JobFail, JobRelease,
         ReleaseDeviceLock
<1>3. ASSUME NEW r \in Runs, StopRead(r) \/ StopRun(r) \/ DeleteRun(r)
      PROVE  LockHandoverStep
  BY <1>3 DEF StopRun, StopRead, StopCas, StopCall, Phone!Stop, Phone!Known,
         StopUnreachable, Fault, StopForgotten, FinishRun, StopRelease,
         ReleaseDeviceLock, DeleteRun
<1>4. ASSUME NEW r \in Runs, Executor(r) \/ ExecSweep(r)
      PROVE  LockHandoverStep
  BY <1>4 DEF Executor, ExecAdmit, Phone!Admit, ExecRefuse, Phone!Withdraw,
         ExecFinish, Phone!Finish, ExecSweep, Phone!Sweep
<1>5. CASE ExecRestart
  BY <1>5 DEF ExecRestart, Fault, AfterGap
<1>6. CASE AppCrash
  BY <1>6 DEF AppCrash, Fault
<1>7. CASE BootRearm
  BY <1>7 DEF BootRearm, RearmJobs
<1>8. CASE BootFree
  BY <1>8 DEF BootFree, FreeLocks
<1>9. CASE UNCHANGED vars
  BY <1>9 DEF vars
<1> QED BY <1>1, <1>2, <1>3, <1>4, <1>5, <1>6, <1>7, <1>8, <1>9
         DEF Next, Boot

-----------------------------------------------------------------------------
(* The theorems                                                            *)

\* The inductive invariant holds throughout: every part is true of an empty
\* database and preserved by each step of the app, the executor and a restart.
THEOREM Inductive == Spec => []IInv
<1>1. Init => IInv
  BY RunsAssumption, BoundsAssumption
     DEF Init, Phone!ExecInit, IInv, TypeOK, Phone!ExecTypeOK,
         Phone!ExecStates, Phone!Endings, AttemptsBounded, QuietWhenDown,
         StepsMatchStatus, LocksMatchRuns, RunningHoldsLock, PostedOnce,
         OutcomeMatchesJob, Parked, BeforeStart, Driving, JobSteps, InFlight,
         Terminal, Settled, Endings
<1>2. IInv /\ [Next]_vars => IInv'
  BY TypeStep, AttemptsStep, QuietStep, StepsStep, LocksStep, PostedStep,
     OutcomeStep DEF IInv
<1> QED BY <1>1, <1>2, PTL DEF Spec

\* Type correctness of the run lifecycle.
THEOREM TypeCorrect == Spec => []TypeOK
<1>1. IInv => TypeOK
  BY DEF IInv
<1> QED BY <1>1, Inductive, PTL

\* The device lock: a running run holds it (acquireDeviceLock, finishRun
\* before releaseDeviceLock, reconcileOnBoot).
THEOREM RunningHolds == Spec => []RunningHoldsLock
<1>1. IInv => RunningHoldsLock
  BY DEF IInv, LocksMatchRuns
<1> QED BY <1>1, Inductive, PTL

\* Hence no two running runs share a device, whatever crashes or is stopped.
THEOREM OneRunningPerDevice ==
  Spec => [](\A r, o \in Runs : /\ status[r] = "running"
                                /\ status[o] = "running"
                                /\ Dev(r) = Dev(o)
                                => r = o)
<1>1. RunningHoldsLock => \A r, o \in Runs : /\ status[r] = "running"
                                             /\ status[o] = "running"
                                             /\ Dev(r) = Dev(o)
                                             => r = o
  BY DEF RunningHoldsLock
<1> QED BY <1>1, RunningHolds, PTL

\* No lock is leaked (the finally blocks, stopRun's release, FreeLocks).
THEOREM LocksHaveKeepers == Spec => []LockHasKeeper
<1>1. Init => LockHasKeeper
  BY DEF Init, LockHasKeeper
<1>2. IInv /\ LockHasKeeper /\ [Next]_vars => LockHasKeeper'
  BY KeeperStep
<1> QED BY <1>1, <1>2, Inductive, PTL DEF Spec

\* No run in flight is stranded (enqueueRun, reconcileOnBoot's re-arming).
THEOREM RunsHaveWorkers == Spec => []RunHasWorker
<1>1. Init => RunHasWorker
  BY DEF Init, RunHasWorker, InFlight
<1>2. IInv /\ RunHasWorker /\ [Next]_vars => RunHasWorker'
  BY WorkerStep
<1> QED BY <1>1, <1>2, Inductive, PTL DEF Spec

\* The unique index keeps its promise.
THEOREM OneQueued == Spec => []OneQueuedPerDevice
<1>1. Init => OneQueuedPerDevice
  BY DEF Init, OneQueuedPerDevice
<1>2. IInv /\ OneQueuedPerDevice /\ [Next]_vars => OneQueuedPerDevice'
  BY OneQueuedStep
<1> QED BY <1>1, <1>2, Inductive, PTL DEF Spec

\* No restart makes the phone do a task twice.
THEOREM DrivenOnce == Spec => []DrivenAtMostOnce
<1>1. ASSUME IInv, NEW r \in Runs
      PROVE  starts[r] <= 1
  <2>1. starts[r] = 0 \/ starts[r] = 1
    BY <1>1 DEF IInv, PostedOnce
  <2> QED BY <2>1
<1>2. IInv => DrivenAtMostOnce
  BY <1>1 DEF DrivenAtMostOnce
<1> QED BY <1>2, Inductive, PTL

\* succeeded, lost and skipped say what the executor did.
THEOREM StatusIsTrue == Spec => []StatusTellsTruth
<1>1. IInv => StatusTellsTruth
  BY DEF IInv, PostedOnce, OutcomeMatchesJob, StatusTellsTruth
<1> QED BY <1>1, Inductive, PTL

\* finishRun and transitionRun never overwrite a final status.
THEOREM FinalStands == Spec => FinalStatusStands
<1>1. IInv /\ [Next]_vars => [FinalStatusStep]_vars
  BY FinalStep
<1> QED BY <1>1, Inductive, PTL DEF Spec, FinalStatusStands

\* acquireDeviceLock, releaseDeviceLock and the boot never take a lock from a
\* running run.
THEOREM LockNotStolen == Spec => LockIsNotStolen
<1>1. IInv /\ [Next]_vars => [LockHandoverStep]_vars
  BY HandoverStep
<1> QED BY <1>1, Inductive, PTL DEF Spec, LockIsNotStolen

=============================================================================
