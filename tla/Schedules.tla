------------------------------ MODULE Schedules ------------------------------
(***************************************************************************)
(* The schedules of one device (lib/schedules.ts). An interval schedule    *)
(* owns a job in the agendaJobs collection, its tick: the tick runs the    *)
(* task inline and is planned again when the run has been counted. A queue *)
(* schedule owns none: the dispatch poll starts the one whose turn it is   *)
(* while the device is free.                                               *)
(*                                                                         *)
(* A step is one database operation with the code up to the next one. A    *)
(* run is reduced to what schedules see of it: whether it keeps the device *)
(* busy, and how it ended (RunLifecycle has the rest). Time is left out: a *)
(* planned tick may fire at any moment, and nextRunAt, which only tells    *)
(* the poll that a tick is due, is not kept.                               *)
(***************************************************************************)
EXTENDS Naturals, FiniteSets

CONSTANTS
  Schedules,  \* schedules of the device
  Order,      \* position of each in the rotation
  Ticks,      \* schedule-tick jobs
  Runs,       \* runs, by the dispatch poll, a tick or an operator
  Creates,    \* requests of operators that create a schedule
  Changes,    \* requests of operators that update or delete one
  Of,         \* the schedule a tick, a run or a request is of
  None,       \* no run
  Budgets,    \* values of maxRuns; one no count reaches stands for null
  MaxFails,   \* maxFails
  MaxCrashes  \* bound: crashes of the app

Edits == Creates \cup Changes
Actors == Ticks \cup Runs \cup Edits

ASSUME ScheduleAssumption ==
  /\ Order \in [Schedules -> Nat]
  /\ Of \in [Actors -> Schedules]
  /\ \A s \in Schedules : \E t \in Ticks : Of[t] = s
  /\ Ticks \cap Runs = {} /\ Ticks \cap Edits = {} /\ Runs \cap Edits = {}
  /\ Creates \cap Changes = {}
  /\ None \notin Runs
  /\ Budgets \subseteq Nat \ {0} /\ MaxFails \in Nat \ {0}
  /\ MaxCrashes \in Nat

VARIABLES
  mode,      \* Schedule.mode, with none before and deleted after its life
  enabled,   \* Schedule.enabled
  budget,    \* Schedule.maxRuns
  count,     \* Schedule.runCount
  streak,    \* Schedule.failStreak
  lastRun,   \* Schedule.lastRunId
  turn,      \* Schedule.lastRunAt, 0 for null
  now,       \* time, as far as lastRunAt shows it: runs counted so far
  status,    \* Run.status; dropped never started, bad extends the streak,
             \* counted is any of them once its bookkeeping is over
  manual,    \* runs whose trigger is runScheduleNow; they do not count
  at,        \* the step an actor takes next
  seen,      \* the document an updateSchedule read first
  carries,   \* the run a tick executes inline
  crashes,   \* crashes so far
  touched,   \* history: schedules that a request or a crash came upon
  lost       \* history: schedules that a mode change or a boot left no tick

docVars == <<mode, enabled, budget, count, streak, lastRun, turn, now>>
history == <<touched, lost>>
vars == <<docVars, status, manual, at, seen, carries, crashes, history>>

Modes == {"interval", "queue"}
InFlight == {"queued", "running"}
Ended == {"good", "bad", "kept"}

\* planNextTick, disableSchedule, and the steps of a run, a tick, a request.
Planning == {"cancel", "arm"}
Stopping == {"stop", "off"}
RunSteps == {"create", "insert", "release", "count", "inc"}
TickSteps == {"pending", "fired", "look", "insert", "run", "ensure", "tally"}
EditSteps == {"new", "write", "drop", "done"}

Unread == [enabled |-> FALSE, mode |-> "none"]

TypeOK ==
  /\ mode \in [Schedules -> Modes \cup {"none", "deleted"}]
  /\ enabled \in [Schedules -> BOOLEAN]
  /\ budget \in [Schedules -> Budgets]
  /\ count \in [Schedules -> Nat] /\ streak \in [Schedules -> Nat]
  /\ \A s \in Schedules : mode[s] \in {"none", "deleted"} =>
                            ~enabled[s] /\ count[s] = 0 /\ lastRun[s] = None
  /\ lastRun \in [Schedules -> Runs \cup {None}]
  /\ turn \in [Schedules -> Nat] /\ now \in Nat
  /\ status \in [Runs -> {"none", "dropped", "counted"}
                            \cup InFlight \cup Ended]
  /\ manual \subseteq Runs
  /\ at \in [Actors -> {"none"} \cup Planning \cup Stopping \cup RunSteps
                               \cup TickSteps \cup EditSteps]
  /\ \A t \in Ticks : at[t] \in {"none"} \cup Planning \cup TickSteps
  /\ \A r \in Runs :
       at[r] \in {"none"} \cup Planning \cup Stopping \cup RunSteps
  /\ \A e \in Edits : at[e] \in Planning \cup Stopping \cup EditSteps
  /\ seen \in [Edits -> [enabled : BOOLEAN, mode : Modes \cup {"none"}]]
  /\ carries \in [Ticks -> Runs \cup {None}]
  /\ crashes \in 0..MaxCrashes
  /\ touched \subseteq Schedules /\ lost \subseteq Schedules

Init ==
  /\ mode = [s \in Schedules |-> "none"]
  /\ enabled = [s \in Schedules |-> FALSE]
  /\ budget \in [Schedules -> Budgets]
  /\ count = [s \in Schedules |-> 0] /\ streak = [s \in Schedules |-> 0]
  /\ lastRun = [s \in Schedules |-> None]
  /\ turn = [s \in Schedules |-> 0] /\ now = 0
  /\ status = [r \in Runs |-> "none"]
  /\ manual = {}
  /\ at = [a \in Actors |-> IF a \in Edits THEN "new" ELSE "none"]
  /\ seen = [e \in Edits |-> Unread]
  /\ carries = [t \in Ticks |-> None]
  /\ crashes = 0 /\ touched = {} /\ lost = {}

Goes(a, step) == at' = [at EXCEPT ![a] = step]
Ends(a) == Goes(a, IF a \in Edits THEN "done" ELSE "none")

Exists(s) == mode[s] \in Modes
Exhausted(s) == count[s] >= budget[s]                      \* isExhausted
Failing(s) == streak[s] >= MaxFails                        \* isFailing
Runnable(s) == enabled[s] /\ ~Exhausted(s) /\ ~Failing(s)  \* isRunnable

\* An interval schedule that should have a tick.
Wants(s) == mode[s] = "interval" /\ Runnable(s)

\* deviceBusy: a run holds the device, or is queued to take it.
Busy == \E r \in Runs : status[r] \in InFlight \/ at[r] = "release"

\* Jobs of a schedule that have not begun; those that are not locked yet.
Waiting(s) == {t \in Ticks : Of[t] = s /\ at[t] \in {"pending", "fired"}}
Unlocked(s) == {t \in Waiting(s) : at[t] = "pending"}

\* A new job; which one it is makes no difference.
Free(s) == {t \in Ticks : Of[t] = s /\ at[t] = "none"}
NewTick(s) == CHOOSE t \in Ticks : t \in Free(s)

\* cancelPendingTicks, after which the actor takes this step.
CancelTicks(a, step) ==
  at' = [x \in Actors |-> IF x = a THEN step
                          ELSE IF x \in Unlocked(Of[a]) THEN "none" ELSE at[x]]

-----------------------------------------------------------------------------
(* planNextTick and disableSchedule, whoever calls them                    *)

PlanCancel(a) ==
  /\ at[a] = "cancel"
  /\ CancelTicks(a, "arm")
  /\ UNCHANGED <<docVars, status, seen, carries, manual, crashes, history>>

PlanArm(a) ==
  /\ at[a] = "arm" /\ Free(Of[a]) # {}
  /\ at' = [at EXCEPT ![NewTick(Of[a])] = "pending",
                         ![a] = IF a \in Edits THEN "done" ELSE "none"]
  /\ lost' = lost \ {Of[a]}
  /\ UNCHANGED <<docVars, status, seen, carries, manual, crashes, touched>>

StopCancel(a) ==
  /\ at[a] = "stop"
  /\ CancelTicks(a, "off")
  /\ UNCHANGED <<docVars, status, seen, carries, manual, crashes, history>>

StopWrite(a) ==
  /\ at[a] = "off"
  /\ enabled' = [enabled EXCEPT ![Of[a]] = FALSE]
  /\ Ends(a)
  /\ UNCHANGED <<mode, budget, count, streak, lastRun, turn, now, status, seen,
                 carries, manual, crashes, history>>

-----------------------------------------------------------------------------
(* Requests of operators                                                   *)

\* createSchedule
Create(e) ==
  /\ e \in Creates /\ at[e] = "new" /\ mode[Of[e]] = "none"
  /\ \E m \in Modes, on \in BOOLEAN :
       /\ mode' = [mode EXCEPT ![Of[e]] = m]
       /\ enabled' = [enabled EXCEPT ![Of[e]] = on]
       /\ Goes(e, IF on /\ m = "interval" THEN "cancel" ELSE "done")
  /\ UNCHANGED <<budget, count, streak, lastRun, turn, now, status, carries,
                 seen, manual, crashes, history>>

\* updateSchedule reads the document, and checks the patch against it.
UpdateRead(e) ==
  /\ e \in Changes /\ at[e] = "new" /\ Exists(Of[e])
  /\ seen' = [seen EXCEPT ![e] = [enabled |-> enabled[Of[e]],
                                  mode |-> mode[Of[e]]]]
  /\ Goes(e, "write")
  /\ UNCHANGED <<docVars, status, carries, manual, crashes, history>>

\* Faulty variant: a schedule that is turned on is not planned.
BranchNoPlan(e, touch) ==
  IF ~Runnable(Of[e])' THEN "stop"
  ELSE IF mode'[Of[e]] # "interval" THEN "drop"
  ELSE IF touch THEN "cancel"
  ELSE "done"

\* What updateSchedule does once it has written the document: touch says that
\* the patch has an interval, a device or a budget.
Branch(e, touch) ==
  IF ~Runnable(Of[e])' THEN "stop"
  ELSE IF mode'[Of[e]] # "interval" THEN "drop"
  ELSE IF touch \/ ~seen[e].enabled \/ seen[e].mode # "interval" THEN "cancel"
  ELSE "done"

\* The document had a tick when it was read, and has none any more.
Overtaken(e) == seen[e].enabled /\ seen[e].mode = "interval"

\* The patch, with the mode of the document as it was read: "Turning a
\* schedule back on forgives its failures".
UpdateWrite(e) ==
  LET s == Of[e] IN
  /\ at[e] = "write" /\ Exists(s)
  /\ \E on \in {"keep", "on", "off"}, m \in Modes, b \in Budgets,
       touch \in BOOLEAN :
       /\ b # budget[s] => touch
       /\ mode' = [mode EXCEPT ![s] = m]
       /\ enabled' = [enabled EXCEPT ![s] = on = "on" \/ (on = "keep" /\ @)]
       /\ budget' = [budget EXCEPT ![s] = b]
       /\ streak' = [streak EXCEPT ![s] =
                       IF on = "on" /\ ~seen[e].enabled THEN 0 ELSE @]
       /\ UNCHANGED <<count, lastRun, turn, now>>
       /\ Goes(e, Branch(e, touch))
  /\ seen' = [seen EXCEPT ![e] = Unread]
  /\ lost' = IF at'[e] = "done" /\ Overtaken(e) /\ Wants(s)' /\ ~Wants(s)
             THEN lost \cup {s} ELSE lost
  /\ touched' = touched \cup {s}
  /\ UNCHANGED <<status, carries, manual, crashes>>

UpdateGone(e) ==
  /\ at[e] = "write" /\ ~Exists(Of[e])
  /\ Goes(e, "done")
  /\ UNCHANGED <<docVars, status, seen, carries, manual, crashes, history>>

\* The schedule is in queue mode now: its tick goes. By then another request
\* may have it back in interval mode.
DropTick(e) ==
  /\ at[e] = "drop"
  /\ CancelTicks(e, "done")
  /\ lost' = IF Wants(Of[e]) THEN lost \cup {Of[e]} ELSE lost
  /\ UNCHANGED <<docVars, status, seen, carries, manual, crashes, touched>>

\* Bound: who created the schedule deletes it only under an update's feet.
MayDelete(e) ==
  IF e \in Changes THEN at[e] = "new"
                   ELSE at[e] = "done" /\ \E o \in Changes : at[o] = "write"

\* deleteSchedule, whose ticks are then removed like those of a queue
\* schedule. Nothing is left of the document.
Delete(e) ==
  LET s == Of[e] IN
  /\ MayDelete(e) /\ Exists(s)
  /\ mode' = [mode EXCEPT ![s] = "deleted"]
  /\ enabled' = [enabled EXCEPT ![s] = FALSE]
  /\ count' = [count EXCEPT ![s] = 0] /\ streak' = [streak EXCEPT ![s] = 0]
  /\ lastRun' = [lastRun EXCEPT ![s] = None]
  /\ turn' = [turn EXCEPT ![s] = 0]
  /\ Goes(e, "drop")
  /\ touched' = touched \cup {s} /\ lost' = lost \ {s}
  /\ UNCHANGED <<budget, now, status, seen, carries, manual, crashes>>

-----------------------------------------------------------------------------
(* executeScheduleTick                                                     *)

\* Agenda locks the job.
Fire(t) ==
  /\ at[t] = "pending"
  /\ Goes(t, "fired")
  /\ UNCHANGED <<docVars, status, seen, carries, manual, crashes, history>>

TickReads(t) ==
  /\ at[t] = "fired"
  /\ Goes(t, IF enabled[Of[t]] /\ mode[Of[t]] = "interval" THEN "look"
                                                          ELSE "none")
  /\ UNCHANGED <<docVars, status, seen, carries, manual, crashes, history>>

\* The device is busy or off the list (waitFor), is cooling, the executor
\* cannot be reached, or schedules are paused.
TickPutsOff(t) ==
  /\ at[t] = "look"
  /\ Goes(t, "cancel")
  /\ UNCHANGED <<docVars, status, seen, carries, manual, crashes, history>>

\* createRun looks at the device again, so that its look is the one to keep.
TickChecks(t) ==
  /\ at[t] = "look" /\ ~Busy
  /\ Goes(t, "insert")
  /\ UNCHANGED <<docVars, status, seen, carries, manual, crashes, history>>

\* createRun fails: it lost the device to another run, or a skipped run is
\* recorded.
TickSkips(t) ==
  /\ at[t] = "insert"
  /\ Goes(t, "cancel")
  /\ UNCHANGED <<docVars, status, seen, carries, manual, crashes, history>>

\* The unique index allows one queued run.
Queued == \E r \in Runs : status[r] = "queued"

\* A run not created yet; which one makes no difference.
Fresh(s) == {r \in Runs : Of[r] = s /\ status[r] = "none"
                                    /\ at[r] = "none" /\ r \notin manual}
NewRun(s) == CHOOSE r \in Runs : r \in Fresh(s)

TickInserts(t) ==
  /\ at[t] = "insert" /\ ~Queued /\ Fresh(Of[t]) # {}
  /\ status' = [status EXCEPT ![NewRun(Of[t])] = "queued"]
  /\ carries' = [carries EXCEPT ![t] = NewRun(Of[t])]
  /\ Goes(t, "run")
  /\ UNCHANGED <<docVars, seen, manual, crashes, history>>

\* executeRun has returned. A run skipped for heat comes back when the device
\* has cooled; any other left the planning to its bookkeeping.
TickReturns(t) ==
  /\ at[t] = "run" /\ status[carries[t]] \notin InFlight
  /\ at[carries[t]] = "none"
  /\ carries' = [carries EXCEPT ![t] = None]
  /\ \/ status[carries[t]] = "dropped" /\ Goes(t, "cancel")
     \/ Goes(t, "ensure")
  /\ UNCHANGED <<docVars, status, seen, manual, crashes, history>>

\* ensureIntervalTick, the safety net
TickEnsures(t) ==
  /\ at[t] = "ensure"
  /\ Goes(t, IF Wants(Of[t]) THEN "tally" ELSE "none")
  /\ UNCHANGED <<docVars, status, seen, carries, manual, crashes, history>>

TickTallies(t) ==
  /\ at[t] = "tally"
  /\ Goes(t, IF Waiting(Of[t]) = {} THEN "cancel" ELSE "none")
  /\ UNCHANGED <<docVars, status, seen, carries, manual, crashes, history>>

-----------------------------------------------------------------------------
(* dispatchDevice and runScheduleNow                                       *)

\* Whose turn it is among the queue schedules.
Dispatchable(s) == mode[s] = "queue" /\ Runnable(s)
Precedes(s, o) == \/ turn[s] < turn[o]
                  \/ turn[s] = turn[o] /\ Order[s] < Order[o]
NextUp(s) == /\ Dispatchable(s)
             /\ \A o \in Schedules \ {s} : Dispatchable(o) => Precedes(s, o)

\* The run that the poll, of which there is one, is creating.
Polling == {r \in Runs \ manual : at[r] \in {"create", "insert"}}

\* The poll may find an interval schedule due, and pass.
DispatchPicks(s) ==
  /\ Polling = {} /\ ~Busy /\ NextUp(s) /\ Fresh(s) # {}
  /\ Goes(NewRun(s), "create")
  /\ UNCHANGED <<docVars, status, seen, carries, manual, crashes, history>>

ManualStart(s) ==
  /\ Exists(s) /\ Fresh(s) # {}
  /\ manual' = manual \cup {NewRun(s)}
  /\ Goes(NewRun(s), "create")
  /\ UNCHANGED <<docVars, status, seen, carries, crashes, history>>

RunChecks(r) ==
  /\ at[r] = "create"
  /\ IF Busy THEN Goes(r, "none") /\ manual' = manual \ {r}
             ELSE Goes(r, "insert") /\ UNCHANGED manual
  /\ UNCHANGED <<docVars, status, seen, carries, crashes, history>>

RunInserts(r) ==
  /\ at[r] = "insert"
  /\ \/ Queued /\ manual' = manual \ {r} /\ UNCHANGED status
     \/ ~Queued /\ status' = [status EXCEPT ![r] = "queued"]
                /\ UNCHANGED manual
  /\ Goes(r, "none")
  /\ UNCHANGED <<docVars, seen, carries, crashes, history>>

-----------------------------------------------------------------------------
(* The run, and afterScheduledRunFinished                                  *)

\* The device is locked or too hot, or the run was stopped: it never started.
RunDropped(r) ==
  /\ status[r] = "queued"
  /\ status' = [status EXCEPT ![r] = "dropped"]
  /\ UNCHANGED <<docVars, at, seen, carries, manual, crashes, history>>

RunBegins(r) ==
  /\ status[r] = "queued"
  /\ \A o \in Runs : status[o] # "running" /\ at[o] # "release"
  /\ status' = [status EXCEPT ![r] = "running"]
  /\ UNCHANGED <<docVars, at, seen, carries, manual, crashes, history>>

RunEnds(r) ==
  /\ status[r] = "running"
  /\ \E how \in Ended : status' = [status EXCEPT ![r] = how]
  /\ Goes(r, "release")
  /\ UNCHANGED <<docVars, seen, carries, manual, crashes, history>>

\* The device is free. The retention of screenshots comes before ...
RunReleases(r) ==
  /\ at[r] = "release"
  /\ Goes(r, "count")
  /\ UNCHANGED <<docVars, status, seen, carries, manual, crashes, history>>

\* Faulty variant: a manual run counts.
AlsoManual(r) == lastRun[Of[r]] # r

Counts(r) == r \notin manual /\ lastRun[Of[r]] # r

\* ... the bookkeeping reads the run and its schedule, ...
RunReads(r) ==
  /\ at[r] = "count"
  /\ IF Exists(Of[r]) /\ enabled[Of[r]] /\ Counts(r)
     THEN Goes(r, "inc") /\ UNCHANGED status
     ELSE Goes(r, "none") /\ status' = [status EXCEPT ![r] = "counted"]
  /\ UNCHANGED <<docVars, seen, carries, manual, crashes, history>>

Over(s) == Exhausted(s)' \/ Failing(s)'

\* ... and counts it: recordScheduledRun.
RunCounts(r) ==
  LET s == Of[r] IN
  /\ at[r] = "inc"
  /\ UNCHANGED <<mode, enabled, budget, seen, carries, manual, crashes,
                 history>>
  /\ status' = [status EXCEPT ![r] = "counted"]
  /\ IF ~Exists(s)
     THEN Ends(r) /\ UNCHANGED <<count, streak, lastRun, turn, now>>
     ELSE /\ count' = [count EXCEPT ![s] = @ + 1]
          /\ streak' = [streak EXCEPT ![s] =
                          CASE status[r] = "bad" -> @ + 1
                            [] status[r] = "good" -> 0
                            [] OTHER -> @]
          /\ lastRun' = [lastRun EXCEPT ![s] = r]
          /\ now' = now + 1 /\ turn' = [turn EXCEPT ![s] = now + 1]
          /\ Goes(r, IF enabled[s] /\ Over(s) THEN "stop"
                     ELSE IF enabled[s] /\ mode[s] = "interval" THEN "cancel"
                     ELSE "none")

-----------------------------------------------------------------------------
(* A crash of the app, and its boot                                        *)

\* reconcileOnBoot keeps the ticks that were not locked.
Kept(s) == Unlocked(s) # {}

\* A run of the schedule is being resumed, whoever started it.
Resuming(s) == \E r \in Runs : Of[r] = s /\ status[r] = "running"

\* Faulty variant: only schedules that never ran get a tick.
OnlyNew(s) == Wants(s) /\ count[s] = 0 /\ ~Resuming(s) /\ ~Kept(s)

\* reconcileSchedules: the schedules that get a tick.
Replanned(s) == Wants(s) /\ ~Resuming(s) /\ ~Kept(s)

\* ... and those that are over budget.
Retired(s) == Exists(s) /\ enabled[s] /\ ~Runnable(s)

Armed == {CHOOSE t \in Ticks : Of[t] = s :
            s \in {o \in Schedules : Replanned(o)}}

\* Nothing else runs until the boot is over, so both are one step. Queued
\* and running runs are taken further by their jobs.
Crash ==
  /\ crashes < MaxCrashes /\ crashes' = crashes + 1
  /\ at' = [a \in Actors |->
              IF a \in Armed THEN "pending"
              ELSE IF a \in Edits THEN IF at[a] = "new" THEN "new" ELSE "done"
              ELSE IF at[a] = "pending" /\ ~Retired(Of[a]) THEN "pending"
              ELSE "none"]
  /\ enabled' = [s \in Schedules |-> enabled[s] /\ ~Retired(s)]
  /\ carries' = [t \in Ticks |-> None]
  /\ lost' = {s \in Schedules : s \in lost /\ ~Replanned(s)}
               \cup {s \in Schedules :
                       /\ Wants(s) /\ Resuming(s) /\ ~Kept(s)
                       /\ \A r \in Runs \ manual :
                            Of[r] = s => status[r] # "running"}
  /\ seen' = [e \in Edits |-> Unread]
  /\ manual' = {r \in manual : status[r] # "none"}
  /\ touched' = Schedules
  /\ UNCHANGED <<mode, budget, count, streak, lastRun, turn, now, status>>

-----------------------------------------------------------------------------
Plan(a) == PlanCancel(a) \/ PlanArm(a) \/ StopCancel(a) \/ StopWrite(a)

Update(e) == UpdateWrite(e) \/ UpdateGone(e) \/ DropTick(e)

Tick(t) == Fire(t) \/ TickReads(t) \/ TickPutsOff(t) \/ TickChecks(t)
             \/ TickSkips(t) \/ TickInserts(t) \/ TickReturns(t)
             \/ TickEnsures(t) \/ TickTallies(t)

Run(r) == RunChecks(r) \/ RunInserts(r) \/ RunDropped(r) \/ RunBegins(r)
            \/ RunEnds(r) \/ RunReleases(r) \/ RunReads(r) \/ RunCounts(r)

Next ==
  \/ \E a \in Actors : Plan(a)
  \/ \E e \in Edits : Create(e) \/ UpdateRead(e) \/ Delete(e) \/ Update(e)
  \/ \E s \in Schedules : DispatchPicks(s) \/ ManualStart(s)
  \/ \E t \in Ticks : Tick(t)
  \/ \E r \in Runs : Run(r)
  \/ Crash

Spec == Init /\ [][Next]_vars

\* Requests, ticks and runs go on while the app lives.
\* Operators do not have to come, nor the poll.
Fairness == /\ \A e \in Edits : WF_vars(Plan(e) \/ Update(e))
            /\ \A t \in Ticks : WF_vars(Plan(t) \/ Tick(t))
            /\ \A r \in Runs : WF_vars(Plan(r) \/ Run(r))

FairSpec == Spec /\ Fairness

-----------------------------------------------------------------------------
(* Safety                                                                  *)

\* "Ensures every enabled interval schedule has a pending tick": one that is
\* within its budgets has a tick that will fire or is at work, or somebody
\* who is about to plan one. It loses it where a mode change meets another
\* one, or where a boot takes the resumed run of an operator for its own.
ScheduleIsAlive ==
  \A s \in Schedules : Wants(s) /\ s \notin lost =>
    \/ \E t \in Ticks : Of[t] = s /\ at[t] # "none"
    \/ \E a \in Runs \cup Edits :
         Of[a] = s /\ at[a] \in {"cancel", "arm"} \cup Stopping
    \/ \E r \in Runs \ manual :
         /\ Of[r] = s
         /\ status[r] = "running" \/ at[r] \in {"release", "count", "inc"}

\* No crash, and nobody has changed the schedule since it was created.
Untouched(s) == s \notin touched

\* Scheduled runs of the schedule that have started.
StartedRuns(s) == {r \in Runs \ manual :
                     /\ Of[r] = s
                     /\ status[r] \in {"running", "counted"} \cup Ended}

\* "Runs that actually started": each is counted once, however it ends and
\* whoever ran it, from the moment its bookkeeping is over.
RunsAreCounted ==
  \A s \in Schedules : Untouched(s) /\ enabled[s] =>
    count[s] = Cardinality({r \in StartedRuns(s) : at[r] \notin RunSteps
                                                  /\ status[r] # "running"})

\* "A schedule that has used up its run budget must not be planned again",
\* nor one whose latest runs all failed: no run of it is still going on.
WithinBudget(s) == Untouched(s) =>
  /\ Cardinality(StartedRuns(s)) <= budget[s]
  /\ Failing(s) => \A r \in StartedRuns(s) : status[r] = "counted"

\* "until `maxRuns` or `maxFails` retires one": no schedule does.
BudgetKept == \A s \in Schedules : WithinBudget(s)

-----------------------------------------------------------------------------
(* Liveness                                                                *)

HasPending(s) == \E t \in Ticks : Of[t] = s /\ at[t] = "pending"

\* An interval schedule always comes to the point where its next tick is
\* planned, or it is retired, or has lost its tick, or the instance is out of
\* jobs, of which the code has any number.
KeepsTicking ==
  \A s \in Schedules :
    Wants(s) ~> HasPending(s) \/ ~Wants(s) \/ s \in lost \/ Free(s) = {}

=============================================================================
