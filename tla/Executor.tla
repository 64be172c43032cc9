------------------------------ MODULE Executor ------------------------------
(***************************************************************************)
(* What the executor promises about the runs it is told to drive, as seen  *)
(* over its HTTP interface: one run per device, a run that is known until  *)
(* some time after it ended, one ending per run, and a stop that turns     *)
(* whatever ending follows into "cancelled".                               *)
(*                                                                         *)
(* RunLifecycle takes its executor steps from here; RunManager is shown to *)
(* implement them.                                                         *)
(***************************************************************************)
CONSTANTS
  Runs,      \* runs the executor may be told to drive
  DeviceOf   \* the device of each run

VARIABLES
  exec,       \* what the executor knows of the run
  stopAsked,  \* ActiveRun.cancel_requested
  ending      \* terminal event published for the run

execState == <<exec, stopAsked, ending>>

Endings == {"succeeded", "failed", "cancelled"}

\* "starting": registered, the device list is awaited; "driving": its task
\* exists; "stranded": its task was cancelled before it ran, so the run never
\* ends; "over": ended, kept for replay.
ExecStates == {"absent", "starting", "driving", "stranded", "over"}

ExecTypeOK == /\ exec \in [Runs -> ExecStates]
              /\ stopAsked \in [Runs -> BOOLEAN]
              /\ ending \in [Runs -> Endings \cup {"none"}]

ExecInit == /\ exec = [r \in Runs |-> "absent"]
            /\ stopAsked = [r \in Runs |-> FALSE]
            /\ ending = [r \in Runs |-> "none"]

Known(r) == exec[r] # "absent"
Live(r) == exec[r] \in {"starting", "driving", "stranded"}

\* A run of the device is known and not done: another one is refused.
DeviceBusy(r) == \E o \in Runs : DeviceOf[o] = DeviceOf[r] /\ Live(o)

\* POST /runs: registered before the device list is awaited.
Start(r) ==
  /\ ~DeviceBusy(r)
  /\ exec' = [exec EXCEPT ![r] = "starting"]
  /\ stopAsked' = [stopAsked EXCEPT ![r] = FALSE]
  /\ ending' = [ending EXCEPT ![r] = "none"]

\* The device is connected: the task is created and POST /runs answered.
Admit(r) ==
  /\ exec[r] = "starting"
  /\ exec' = [exec EXCEPT ![r] = "driving"]
  /\ UNCHANGED <<stopAsked, ending>>

\* The device is not connected: the run is withdrawn.
Withdraw(r) ==
  /\ exec[r] = "starting"
  /\ exec' = [exec EXCEPT ![r] = "absent"]
  /\ UNCHANGED <<stopAsked, ending>>

\* POST /runs/{id}/stop on a known run: only one with a task is cancelled, and
\* a task cancelled before its first step publishes nothing.
Stop(r) ==
  /\ Known(r)
  /\ IF exec[r] = "driving"
     THEN /\ stopAsked' = [stopAsked EXCEPT ![r] = TRUE]
          /\ exec' \in {exec, [exec EXCEPT ![r] = "stranded"]}
     ELSE UNCHANGED <<exec, stopAsked>>
  /\ UNCHANGED ending

\* The agent ends; a stop request turns whatever it reports into cancelled.
Finish(r) ==
  /\ exec[r] = "driving"
  /\ \E e \in IF stopAsked[r] THEN {"cancelled"} ELSE {"succeeded", "failed"} :
       ending' = [ending EXCEPT ![r] = e]
  /\ exec' = [exec EXCEPT ![r] = "over"]
  /\ UNCHANGED stopAsked

\* Kept for replay for a while, then forgotten.
Sweep(r) ==
  /\ exec[r] = "over"
  /\ exec' = [exec EXCEPT ![r] = "absent"]
  /\ UNCHANGED <<stopAsked, ending>>

ExecNext ==
  \E r \in Runs : \/ Start(r) \/ Admit(r) \/ Withdraw(r)
                  \/ Stop(r) \/ Finish(r) \/ Sweep(r)

ExecSpec == ExecInit /\ [][ExecNext]_execState
=============================================================================
