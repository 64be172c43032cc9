----------------------------- MODULE RunManager -----------------------------
(***************************************************************************)
(* The executor's registry of runs and the task that drives each of them   *)
(* (api/executor/runs.py): start, stop, sweep, _execute with its phases,   *)
(* and the stay-awake setting a run changes on its phone and owes it back. *)
(*                                                                         *)
(* The executor is one asyncio loop: code between two awaits is one step,  *)
(* and a cancelled task meets CancelledError at the await it stands at.    *)
(* The app posts a run at most once (RunLifecycle, DrivenAtMostOnce), so a *)
(* run has one ActiveRun.                                                  *)
(***************************************************************************)
EXTENDS Naturals, Sequences

CONSTANTS
  Runs,      \* run ids
  Devices,   \* device serials
  DeviceOf,  \* the device of each run
  MaxFaults  \* bound: adb commands of keep_awake and restore_sleep that fail

ASSUME ManagerAssumption == /\ DeviceOf \in [Runs -> Devices]
                            /\ MaxFaults \in Nat

VARIABLES
  runs,       \* RunManager._runs: the runs registered
  phase,      \* the await at which start or the run's task stands
  cancelAsked,\* ActiveRun.cancel_requested
  cancelled,  \* task.cancel() was called and not delivered yet
  published,  \* the terminal events published, in order
  expired,    \* finished longer ago than FINISHED_RETENTION_SECONDS
  stopping,   \* a stop that awaits agent_run.cancel()
  told,       \* history: a stop was answered 202 while the run was not done
  setting,    \* stay_on_while_plugged_in of each phone
  previous,   \* the setting keep_awake read, "none" when nothing is owed
  faults      \* adb commands that failed so far

taskVars == <<cancelAsked, cancelled, told>>
stopVars == <<stopping, told>>
phoneVars == <<setting, previous>>
vars == <<runs, phase, cancelAsked, cancelled, published, expired, stopVars,
          phoneVars, faults>>

Endings == {"succeeded", "failed", "cancelled"}

\* Awaits of _execute_traced up to the terminal event: profile and HOME, the
\* two commands of keep_awake ("set": done on the phone, not answered yet),
\* the goal with its start URL, the end step.
Running == {"profile", "reading", "setting", "set", "goal", "end"}
Phases == Running \cup {"new", "listing", "created", "restoring", "over",
                        "stranded", "withdrawn"}

Dev(r) == DeviceOf[r]
Done(r) == published[r] # <<>>                      \* ActiveRun.done
HasTask(r) == phase[r] \notin {"new", "listing", "withdrawn"}
TaskDone(r) == phase[r] \in {"over", "stranded"}

TypeOK ==
  /\ runs \subseteq Runs
  /\ phase \in [Runs -> Phases]
  /\ cancelAsked \in [Runs -> BOOLEAN]
  /\ cancelled \in [Runs -> BOOLEAN]
  /\ published \in [Runs -> Seq(Endings)]
  /\ expired \in [Runs -> BOOLEAN]
  /\ stopping \in [Runs -> BOOLEAN]
  /\ told \in [Runs -> BOOLEAN]
  /\ setting \in [Devices -> {"off", "on"}]
  /\ previous \in [Runs -> {"none", "off", "on"}]
  /\ faults \in 0..MaxFaults

Init ==
  /\ runs = {}
  /\ phase = [r \in Runs |-> "new"]
  /\ cancelAsked = [r \in Runs |-> FALSE]
  /\ cancelled = [r \in Runs |-> FALSE]
  /\ published = [r \in Runs |-> <<>>]
  /\ expired = [r \in Runs |-> FALSE]
  /\ stopping = [r \in Runs |-> FALSE]
  /\ told = [r \in Runs |-> FALSE]
  /\ setting = [d \in Devices |-> "off"]
  /\ previous = [r \in Runs |-> "none"]
  /\ faults = 0

Goes(r, p) == phase' = [phase EXCEPT ![r] = p]

-----------------------------------------------------------------------------
(* RunManager: start, stop, get                                            *)

\* _sweep, at the head of every call: runs that ended long ago are dropped.
Swept == runs \ {o \in runs : Done(o) /\ expired[o]}

\* Faulty variant: only the run's own id is looked up.
NeverBusy(r) == r \in Swept /\ ~Done(r)

\* _busy_run_for: a registered run of the device is not done.
Busy(r) == \E o \in Swept : Dev(o) = Dev(r) /\ ~Done(o)

Start(r) ==
  /\ phase[r] = "new"
  /\ IF Busy(r) THEN runs' = Swept /\ UNCHANGED phase
                ELSE runs' = Swept \cup {r} /\ Goes(r, "listing")
  /\ UNCHANGED <<taskVars, published, expired, stopping, phoneVars, faults>>

\* The device list names the device: the task is created.
Admit(r) ==
  /\ phase[r] = "listing"
  /\ Goes(r, "created")
  /\ UNCHANGED <<runs, taskVars, published, expired, stopping, phoneVars,
                 faults>>

\* It does not, or listing failed: the run is withdrawn.
Withdraw(r) ==
  /\ phase[r] = "listing"
  /\ runs' = runs \ {r}
  /\ Goes(r, "withdrawn")
  /\ UNCHANGED <<taskVars, published, expired, stopping, phoneVars, faults>>

\* A GET that looks the run up.
Look ==
  /\ runs' = Swept
  /\ UNCHANGED <<phase, taskVars, published, expired, stopping, phoneVars,
                 faults>>

\* stop: nothing for a run that is done or has no task; otherwise the agent is
\* cancelled, which may take a while once there is one, and then the task.
Stop(r) ==
  /\ r \in Swept /\ ~stopping[r]
  /\ runs' = Swept
  /\ told' = [told EXCEPT ![r] = @ \/ ~Done(r)]
  /\ IF Done(r) \/ ~HasTask(r)
     THEN UNCHANGED <<cancelAsked, cancelled, stopping>>
     ELSE /\ cancelAsked' = [cancelAsked EXCEPT ![r] = TRUE]
          /\ \/ cancelled' = [cancelled EXCEPT ![r] = ~TaskDone(r)]
                /\ UNCHANGED stopping
             \/ phase[r] \in {"goal", "end"}
                /\ stopping' = [stopping EXCEPT ![r] = TRUE]
                /\ UNCHANGED cancelled
  /\ UNCHANGED <<phase, published, expired, phoneVars, faults>>

\* agent_run.cancel() returned: task.cancel(), whatever the task does by now.
StopTask(r) ==
  /\ stopping[r]
  /\ stopping' = [stopping EXCEPT ![r] = FALSE]
  /\ cancelled' = [cancelled EXCEPT ![r] = ~TaskDone(r)]
  /\ UNCHANGED <<runs, phase, cancelAsked, told, published, expired,
                 phoneVars, faults>>

\* FINISHED_RETENTION_SECONDS pass.
Expire(r) ==
  /\ Done(r) /\ ~expired[r]
  /\ expired' = [expired EXCEPT ![r] = TRUE]
  /\ UNCHANGED <<runs, phase, taskVars, published, stopping, phoneVars,
                 faults>>

-----------------------------------------------------------------------------
(* The task: _execute_traced                                               *)

\* Faulty variant: what the agent reports is published as it is.
PublishAsReported(r, e) ==
  published' = [published EXCEPT ![r] = Append(@, e)]

\* publish: a stop request wins over the ending the agent reports.
Publish(r, e) ==
  published' = [published EXCEPT ![r] =
                  Append(@, IF cancelAsked[r] THEN "cancelled" ELSE e)]

\* The finally block restores the setting when keep_awake returned one.
Finally(r) == Goes(r, IF previous[r] = "none" THEN "over" ELSE "restoring")

Step(r, p) == phase[r] = p /\ ~cancelled[r]

Begin(r) ==
  /\ Step(r, "created")
  /\ Goes(r, "profile")
  /\ UNCHANGED <<runs, taskVars, published, expired, stopping, phoneVars,
                 faults>>

\* A task cancelled before its first step never enters the try block.
NeverBegins(r) ==
  /\ phase[r] = "created" /\ cancelled[r]
  /\ Goes(r, "stranded")
  /\ cancelled' = [cancelled EXCEPT ![r] = FALSE]
  /\ UNCHANGED <<runs, cancelAsked, published, expired, stopVars, phoneVars,
                 faults>>

\* The phone is on the profile and HOME was pressed, or pressing it failed.
Prepared(r) ==
  /\ Step(r, "profile")
  /\ Goes(r, "reading")
  /\ UNCHANGED <<runs, taskVars, published, expired, stopping, phoneVars,
                 faults>>

\* The profile switch failed: the run ends before anything else.
SwitchFails(r) ==
  /\ Step(r, "profile")
  /\ Publish(r, "failed") /\ Goes(r, "over")
  /\ UNCHANGED <<runs, taskVars, expired, stopping, phoneVars, faults>>

\* keep_awake: the setting as found is read ...
ReadSetting(r) ==
  /\ Step(r, "reading")
  /\ previous' = [previous EXCEPT ![r] = setting[Dev(r)]]
  /\ Goes(r, "setting")
  /\ UNCHANGED <<runs, taskVars, published, expired, stopping, setting,
                 faults>>

\* ... the phone executes the command that keeps its screen on ...
PowerOn(r) ==
  /\ phase[r] = "setting"
  /\ setting' = [setting EXCEPT ![Dev(r)] = "on"]
  /\ Goes(r, "set")
  /\ UNCHANGED <<runs, taskVars, published, expired, stopping, previous,
                 faults>>

\* ... and answers.
KeptAwake(r) ==
  /\ Step(r, "set")
  /\ Goes(r, "goal")
  /\ UNCHANGED <<runs, taskVars, published, expired, stopping, phoneVars,
                 faults>>

\* An adb command of keep_awake fails: logged, nothing to restore.
KeepAwakeFails(r) ==
  /\ phase[r] \in {"reading", "setting", "set"} /\ ~cancelled[r]
  /\ faults < MaxFaults /\ faults' = faults + 1
  /\ previous' = [previous EXCEPT ![r] = "none"]
  /\ Goes(r, "goal")
  /\ UNCHANGED <<runs, taskVars, published, expired, stopping, setting>>

\* The goal's agent ended and the task has no end step, or a stop was asked,
\* or opening the start URL failed.
GoalEnds(r) ==
  /\ Step(r, "goal")
  /\ \E e \in {"succeeded", "failed"} : Publish(r, e)
  /\ Finally(r)
  /\ UNCHANGED <<runs, taskVars, expired, stopping, phoneVars, faults>>

\* The end step follows the goal, however it ended but for a stop.
EndStep(r) ==
  /\ Step(r, "goal") /\ ~cancelAsked[r]
  /\ Goes(r, "end")
  /\ UNCHANGED <<runs, taskVars, published, expired, stopping, phoneVars,
                 faults>>

EndStepEnds(r) ==
  /\ Step(r, "end")
  /\ \E e \in {"succeeded", "failed"} : Publish(r, e)
  /\ Finally(r)
  /\ UNCHANGED <<runs, taskVars, expired, stopping, phoneVars, faults>>

\* Faulty variant: CancelledError passes through without an ending.
CancelledSilently(r) ==
  /\ phase[r] \in Running /\ cancelled[r]
  /\ cancelled' = [cancelled EXCEPT ![r] = FALSE]
  /\ Goes(r, "over")
  /\ UNCHANGED <<runs, cancelAsked, published, expired, stopVars, phoneVars,
                 faults>>

\* CancelledError at an await of the try block. Inside keep_awake it takes the
\* setting that was read along.
Cancelled(r) ==
  /\ phase[r] \in Running /\ cancelled[r]
  /\ cancelled' = [cancelled EXCEPT ![r] = FALSE]
  /\ Publish(r, "cancelled")
  /\ IF phase[r] \in {"goal", "end"}
     THEN Finally(r) /\ UNCHANGED previous
     ELSE Goes(r, "over") /\ previous' = [previous EXCEPT ![r] = "none"]
  /\ UNCHANGED <<runs, cancelAsked, expired, stopVars, setting, faults>>

\* restore_sleep
Restore(r) ==
  /\ Step(r, "restoring")
  /\ setting' = [setting EXCEPT ![Dev(r)] = previous[r]]
  /\ Goes(r, "over")
  /\ UNCHANGED <<runs, taskVars, published, expired, stopping, previous,
                 faults>>

\* restore_sleep fails: "the device keeps its screen on, nothing worse".
RestoreFails(r) ==
  /\ Step(r, "restoring")
  /\ faults < MaxFaults /\ faults' = faults + 1
  /\ Goes(r, "over")
  /\ UNCHANGED <<runs, taskVars, published, expired, stopping, phoneVars>>

\* A stop that waited for the agent cancels the task in its finally block.
RestoreCut(r) ==
  /\ phase[r] = "restoring" /\ cancelled[r]
  /\ cancelled' = [cancelled EXCEPT ![r] = FALSE]
  /\ Goes(r, "over")
  /\ UNCHANGED <<runs, cancelAsked, published, expired, stopVars, phoneVars,
                 faults>>

-----------------------------------------------------------------------------
StartGoesOn(r) == Admit(r) \/ Withdraw(r)

Task(r) ==
  \/ Begin(r) \/ NeverBegins(r) \/ Prepared(r) \/ SwitchFails(r)
  \/ ReadSetting(r) \/ PowerOn(r) \/ KeptAwake(r) \/ KeepAwakeFails(r)
  \/ GoalEnds(r) \/ EndStep(r) \/ EndStepEnds(r) \/ Cancelled(r)
  \/ Restore(r) \/ RestoreFails(r) \/ RestoreCut(r)

Next ==
  \/ \E r \in Runs : \/ Start(r) \/ StartGoesOn(r) \/ Stop(r) \/ StopTask(r)
                     \/ Expire(r) \/ Task(r)
  \/ Look

Spec == Init /\ [][Next]_vars

\* The loop runs what is ready: adb and the agent answer or time out.
Fairness == \A r \in Runs : /\ WF_vars(StartGoesOn(r))
                            /\ WF_vars(StopTask(r))
                            /\ WF_vars(Task(r))

FairSpec == Spec /\ Fairness

-----------------------------------------------------------------------------
(* Safety                                                                  *)

\* Two runs never drive one phone at the same time, although starting one
\* awaits the device list in the middle.
DeviceIsExclusive ==
  \A r, o \in Runs : /\ Dev(r) = Dev(o)
                     /\ phase[r] \in Running /\ phase[o] \in Running
                     => r = o

\* A run that is being started or driven can be looked up, so it can be
\* stopped and makes its device busy.
LiveIsRegistered ==
  \A r \in Runs : phase[r] \in Running \cup {"listing", "created"} => r \in runs

\* A run that ended stays for replay until its retention has passed.
EndedIsKept == \A r \in Runs : Done(r) /\ ~expired[r] => r \in runs

\* A run has one ending, and it is published before its task has restored the
\* phone; only a run whose stop came before its first step has none.
OneEnding ==
  \A r \in Runs : /\ Len(published[r]) <= 1
                  /\ phase[r] \in {"restoring", "over"} => Done(r)
                  /\ phase[r] = "stranded" => cancelAsked[r] /\ ~Done(r)

\* "The stay-awake setting as found on the device, put back when the run
\* ends": once no run is left on a phone, it has the setting it had at first.
SettingIsPutBack ==
  \A d \in Devices :
    (\A r \in Runs : Dev(r) = d => TaskDone(r) \/ ~HasTask(r))
      => setting[d] = "off"

-----------------------------------------------------------------------------
(* Refinement of Executor                                                  *)

execOf ==
  [r \in Runs |->
    CASE phase[r] \in {"new", "withdrawn"} -> "absent"
      [] phase[r] = "listing" -> "starting"
      [] Done(r) -> IF expired[r] THEN "absent" ELSE "over"
      [] phase[r] = "stranded" \/ (phase[r] = "created" /\ cancelled[r]) ->
           "stranded"
      [] OTHER -> "driving"]

endingOf == [r \in Runs |-> IF Done(r) THEN Head(published[r]) ELSE "none"]

Promise == INSTANCE Executor WITH exec <- execOf,
                                  stopAsked <- cancelAsked,
                                  ending <- endingOf

\* What RunLifecycle relies on: the registry, its sweeps and its tasks show
\* the app nothing but the steps of Executor.
KeepsPromise == Promise!ExecSpec

-----------------------------------------------------------------------------
(* Liveness                                                                *)

\* A run that is being started is withdrawn or ends, unless its task was
\* stopped before its first step.
StartedRunsEnd ==
  \A r \in Runs :
    phase[r] = "listing" ~>
      phase[r] \in {"withdrawn", "stranded"} \/ Done(r)

\* The contract of POST /runs/{id}/stop: 202, the task is cancelled and
\* "cancelled" is emitted, for a run that was not done when it was called (and
\* was not withdrawn after all).
StopsAreHonoured ==
  \A r \in Runs :
    told[r] ~> published[r] = <<"cancelled">> \/ phase[r] = "withdrawn"

=============================================================================
