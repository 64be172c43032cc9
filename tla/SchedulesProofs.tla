---------------------------- MODULE SchedulesProofs ----------------------------
(***************************************************************************)
(* Proofs about Schedules.                                                 *)
(***************************************************************************)
EXTENDS Schedules, FiniteSetTheorems, TLAPS

\* Where a tick, a run and a request can be.
TickAt == {"none"} \cup Planning \cup TickSteps
RunAt == {"none"} \cup Planning \cup Stopping \cup RunSteps
EditAt == Planning \cup Stopping \cup EditSteps

AtOK ==
  /\ at = [a \in Actors |-> at[a]]
  /\ \A t \in Ticks : at[t] \in TickAt
  /\ \A r \in Runs : at[r] \in RunAt
  /\ \A e \in Edits : at[e] \in EditAt

DocsOK ==
  /\ mode \in [Schedules -> Modes \cup {"none", "deleted"}]
  /\ enabled \in [Schedules -> BOOLEAN]
  /\ budget \in [Schedules -> Budgets]
  /\ count \in [Schedules -> Nat] /\ streak \in [Schedules -> Nat]
  /\ lastRun \in [Schedules -> Runs \cup {None}]
  /\ turn \in [Schedules -> Nat] /\ now \in Nat
  /\ \A s \in Schedules : mode[s] \in {"none", "deleted"} =>
                            ~enabled[s] /\ count[s] = 0 /\ lastRun[s] = None

RestOK ==
  /\ status \in [Runs -> {"none", "dropped", "counted"} \cup InFlight \cup Ended]
  /\ manual \subseteq Runs
  /\ seen \in [Edits -> [enabled : BOOLEAN, mode : Modes \cup {"none"}]]
  /\ carries \in [Ticks -> Runs \cup {None}]
  /\ crashes \in 0..MaxCrashes
  /\ touched \subseteq Schedules /\ lost \subseteq Schedules

Types == AtOK /\ DocsOK /\ RestOK

LEMMA TypesAreTypeOK == Types <=> TypeOK
<1> USE DEF TickAt, RunAt, EditAt, Planning, Stopping, RunSteps, TickSteps, EditSteps, Actors
<1>1. AtOK => at \in [Actors -> {"none"} \cup Planning \cup Stopping \cup RunSteps
                               \cup TickSteps \cup EditSteps]
  BY DEF AtOK
<1>2. at \in [Actors -> {"none"} \cup Planning \cup Stopping \cup RunSteps
                               \cup TickSteps \cup EditSteps] => at = [a \in Actors |-> at[a]]
  OBVIOUS
<1> QED
  BY <1>1, <1>2, Zenon DEF Types, AtOK, DocsOK, RestOK, TypeOK

LEMMA TypesInit == Init => Types
<1> USE ScheduleAssumption
<1> SUFFICES ASSUME Init PROVE Types
  OBVIOUS
<1>1. AtOK
  BY DEF Init, AtOK, TickAt, RunAt, EditAt, TickSteps, EditSteps, Actors, Edits
<1>2. DocsOK
  BY DEF Init, DocsOK
<1>3. RestOK
  BY DEF Init, RestOK, Unread
<1> QED
  BY <1>1, <1>2, <1>3 DEF Types

\* Tick by tick, run by run and request by request, the kinds do not overlap.
LEMMA Kinds ==
  /\ \A t \in Ticks : t \in Actors /\ t \notin Runs /\ t \notin Edits
  /\ \A r \in Runs : r \in Actors /\ r \notin Ticks /\ r \notin Edits
  /\ \A e \in Edits : e \in Actors /\ e \notin Ticks /\ e \notin Runs
  /\ \A a \in Actors : Of[a] \in Schedules /\ (a \in Ticks \/ a \in Runs \/ a \in Edits)
  /\ \A e \in Creates \cup Changes : e \in Edits
  BY ScheduleAssumption DEF Actors, Edits

LEMMA PlanKeepsTypes ==
  ASSUME Types, NEW a \in Actors, Plan(a)
  PROVE  Types'
<1> USE Kinds DEF Types, docVars, history
<1>1. CASE PlanCancel(a)
  <2>1. AtOK'
    BY <1>1 DEF PlanCancel, CancelTicks, AtOK, TickAt, RunAt, EditAt, Planning, Unlocked, Waiting
  <2> QED
    BY <1>1, <2>1 DEF PlanCancel, DocsOK, RestOK
<1>2. CASE PlanArm(a)
  <2>1. NewTick(Of[a]) \in Free(Of[a])
    BY <1>2 DEF PlanArm, NewTick, Free
  <2>2. AtOK'
    BY <1>2, <2>1 DEF PlanArm, Free, AtOK, TickAt, RunAt, EditAt, TickSteps, EditSteps
  <2> QED
    BY <1>2, <2>2 DEF PlanArm, DocsOK, RestOK
<1>3. CASE StopCancel(a)
  <2>1. a \in Runs \cup Edits
    BY <1>3 DEF StopCancel, AtOK, TickAt, Planning, TickSteps
  <2>2. AtOK'
    BY <1>3, <2>1 DEF StopCancel, CancelTicks, AtOK, TickAt, RunAt, EditAt, Stopping, Unlocked, Waiting
  <2> QED
    BY <1>3, <2>2 DEF StopCancel, DocsOK, RestOK
<1>4. CASE StopWrite(a)
  <2>1. AtOK'
    BY <1>4 DEF StopWrite, Ends, Goes, AtOK, TickAt, RunAt, EditAt, EditSteps
  <2>2. DocsOK'
    BY <1>4 DEF StopWrite, DocsOK
  <2> QED
    BY <1>4, <2>1, <2>2 DEF StopWrite, RestOK
<1> QED
  BY <1>1, <1>2, <1>3, <1>4 DEF Plan

LEMMA EditKeepsTypes ==
  ASSUME Types, NEW e \in Edits, Create(e) \/ UpdateRead(e) \/ Delete(e) \/ Update(e)
  PROVE  Types'
<1> USE Kinds DEF Types, docVars, history
<1>1. CASE Create(e)
  <2>1. AtOK'
    <3>1. PICK step \in {"cancel", "done"} : at' = [at EXCEPT ![e] = step]
      BY <1>1 DEF Create, Goes
    <3>2. step \in EditAt
      BY DEF EditAt, EditSteps, Planning
    <3> QED
      BY <3>1, <3>2 DEF AtOK
  <2>2. DocsOK'
    BY <1>1 DEF Create, DocsOK, Modes
  <2> QED
    BY <1>1, <2>1, <2>2 DEF Create, RestOK
<1>2. CASE UpdateRead(e)
  <2>1. AtOK'
    BY <1>2 DEF UpdateRead, Goes, AtOK, TickAt, RunAt, EditAt, EditSteps
  <2>2. RestOK'
    BY <1>2 DEF UpdateRead, RestOK, DocsOK, Exists
  <2> QED
    BY <1>2, <2>1, <2>2 DEF UpdateRead, DocsOK
<1>3. CASE UpdateWrite(e)
  <2>1. AtOK'
    <3>1. \E touch \in BOOLEAN : at' = [at EXCEPT ![e] = Branch(e, touch)]
      BY <1>3 DEF UpdateWrite, Goes
    <3>2. \A touch \in BOOLEAN : Branch(e, touch) \in EditAt
      BY DEF Branch, EditAt, EditSteps, Planning, Stopping
    <3> HIDE DEF Branch
    <3> QED
      BY <3>1, <3>2 DEF AtOK
  <2>2. DocsOK'
    BY <1>3 DEF UpdateWrite, DocsOK, Modes, Exists
  <2>3. RestOK'
    BY <1>3 DEF UpdateWrite, RestOK, Unread
  <2> QED
    BY <2>1, <2>2, <2>3
<1>4. CASE UpdateGone(e)
  <2>1. AtOK'
    BY <1>4 DEF UpdateGone, Goes, AtOK, TickAt, RunAt, EditAt, EditSteps
  <2> QED
    BY <1>4, <2>1 DEF UpdateGone, DocsOK, RestOK
<1>5. CASE DropTick(e)
  <2>1. AtOK'
    BY <1>5 DEF DropTick, CancelTicks, AtOK, TickAt, RunAt, EditAt, EditSteps, Unlocked, Waiting
  <2> QED
    BY <1>5, <2>1 DEF DropTick, DocsOK, RestOK
<1>6. CASE Delete(e)
  <2>1. AtOK'
    BY <1>6 DEF Delete, Goes, AtOK, TickAt, RunAt, EditAt, EditSteps
  <2>2. DocsOK'
    BY <1>6 DEF Delete, DocsOK
  <2> QED
    BY <1>6, <2>1, <2>2 DEF Delete, RestOK
<1> QED
  BY <1>1, <1>2, <1>3, <1>4, <1>5, <1>6 DEF Update

LEMMA TickKeepsTypes ==
  ASSUME Types, NEW t \in Ticks, Tick(t)
  PROVE  Types'
<1> USE Kinds DEF Types, docVars, history
<1>1. \E v \in TickAt : at' = [at EXCEPT ![t] = v]
  BY DEF Tick, Fire, TickReads, TickPutsOff, TickChecks, TickSkips, TickInserts, TickReturns,
     TickEnsures, TickTallies, Goes, TickAt, TickSteps, Planning
<1>2. AtOK'
  BY <1>1 DEF AtOK
<1>3. DocsOK'
  BY DEF Tick, Fire, TickReads, TickPutsOff, TickChecks, TickSkips, TickInserts, TickReturns,
     TickEnsures, TickTallies, DocsOK
<1>4. CASE TickInserts(t)
  <2>1. NewRun(Of[t]) \in Fresh(Of[t])
    BY <1>4 DEF TickInserts, NewRun, Fresh
  <2>2. RestOK'
    BY <1>4, <2>1 DEF TickInserts, RestOK, InFlight, Fresh
  <2> QED
    BY <1>2, <1>3, <2>2
<1>5. CASE TickReturns(t)
  BY <1>2, <1>3, <1>5 DEF TickReturns, RestOK
<1>6. CASE ~TickInserts(t) /\ ~TickReturns(t)
  BY <1>2, <1>3, <1>6 DEF Tick, Fire, TickReads, TickPutsOff, TickChecks, TickSkips,
     TickEnsures, TickTallies, RestOK
<1> QED
  BY <1>4, <1>5, <1>6

LEMMA StartKeepsTypes ==
  ASSUME Types, NEW s \in Schedules, DispatchPicks(s) \/ ManualStart(s)
  PROVE  Types'
<1> USE Kinds DEF Types, docVars, history
<1>1. NewRun(s) \in Fresh(s)
  BY DEF DispatchPicks, ManualStart, NewRun, Fresh
<1>2. at' = [at EXCEPT ![NewRun(s)] = "create"] /\ NewRun(s) \in Runs
  BY <1>1 DEF DispatchPicks, ManualStart, Goes, Fresh
<1>3. AtOK'
  BY <1>2 DEF AtOK, RunAt, RunSteps
<1>4. manual' \in {manual, manual \cup {NewRun(s)}}
  BY DEF DispatchPicks, ManualStart
<1> QED
  BY <1>2, <1>3, <1>4 DEF DispatchPicks, ManualStart, DocsOK, RestOK

LEMMA RunKeepsTypes ==
  ASSUME Types, NEW r \in Runs, Run(r)
  PROVE  Types'
<1> USE Kinds DEF Types, docVars, history
<1>1. at' = at \/ \E v \in RunAt : at' = [at EXCEPT ![r] = v]
  BY DEF Run, RunChecks, RunInserts, RunDropped, RunBegins, RunEnds, RunReleases, RunReads,
     RunCounts, Goes, Ends, RunAt, RunSteps, Planning, Stopping
<1>2. AtOK'
  BY <1>1 DEF AtOK
<1>3. RestOK'
  BY DEF Run, RunChecks, RunInserts, RunDropped, RunBegins, RunEnds, RunReleases, RunReads,
     RunCounts, RestOK, InFlight, Ended
<1>4. CASE RunCounts(r)
  <2>1. DocsOK'
    BY <1>4 DEF RunCounts, DocsOK, Exists, Modes
  <2> QED
    BY <1>2, <1>3, <2>1
<1>5. CASE ~RunCounts(r)
  BY <1>2, <1>3, <1>5 DEF Run, RunChecks, RunInserts, RunDropped, RunBegins, RunEnds,
     RunReleases, RunReads, DocsOK
<1> QED
  BY <1>4, <1>5

LEMMA CrashKeepsTypes ==
  ASSUME Types, Crash
  PROVE  Types'
<1> USE Kinds DEF Types
<1>1. AtOK'
  <2>1. Armed \subseteq Ticks
    BY ScheduleAssumption DEF Armed
  <2>2. at' = [a \in Actors |-> at'[a]]
    BY DEF Crash
  <2>3. \A a \in Actors :
          \/ at'[a] = "pending" /\ a \notin Edits /\ (a \in Armed \/ at[a] = "pending")
          \/ at'[a] \in {"new", "done"} /\ a \in Edits
          \/ at'[a] = "none" /\ a \notin Edits
    BY <2>1 DEF Crash
  <2>4. \A r \in Runs : at[r] # "pending"
    BY DEF AtOK, RunAt, Planning, Stopping, RunSteps
  <2> QED
    BY <2>1, <2>2, <2>3, <2>4 DEF AtOK, TickAt, RunAt, EditAt, TickSteps, EditSteps
<1>2. DocsOK'
  BY DEF Crash, DocsOK, Retired
<1>3. RestOK'
  BY ScheduleAssumption DEF Crash, RestOK, Unread
<1> QED
  BY <1>1, <1>2, <1>3

LEMMA TypesSteps == Types /\ [Next]_vars => Types'
<1> SUFFICES ASSUME Types, [Next]_vars PROVE Types'
  OBVIOUS
<1>1. CASE UNCHANGED vars
  BY <1>1 DEF vars, docVars, history, Types, AtOK, DocsOK, RestOK
<1> QED
  BY <1>1, PlanKeepsTypes, EditKeepsTypes, TickKeepsTypes, StartKeepsTypes, RunKeepsTypes,
     CrashKeepsTypes DEF Next

\* Type correctness, and that nothing is left of a schedule that was deleted.
THEOREM TypeCorrect == Spec => []TypeOK
  BY TypesInit, TypesSteps, TypesAreTypeOK, PTL DEF Spec

-----------------------------------------------------------------------------
(* The inductive invariant.                                                *)

Working == {"release", "count", "inc"}

\* Where a run stands tells what it has come to; nothing has stopped halfway if
\* no crash came upon it.
RunMatches(r) ==
  /\ at[r] \in {"create", "insert"} => status[r] = "none"
  /\ at[r] \in Working => status[r] \in Ended
  /\ at[r] \in Planning \cup Stopping => status[r] = "counted"
  /\ at[r] = "inc" => r \notin manual
  /\ status[r] \in Ended /\ Untouched(Of[r]) => at[r] \in Working

RunsMatch == \A r \in Runs : RunMatches(r)

\* The run a schedule counted last is through with its bookkeeping.
LastIsCounted == \A s \in Schedules : lastRun[s] # None => status[lastRun[s]] = "counted"

\* Nobody is at work for a schedule that does not exist yet.
NothingBefore ==
  \A a \in Actors : mode[Of[a]] = "none" =>
    /\ at[a] = IF a \in Edits THEN "new" ELSE "none"
    /\ a \in Runs => status[a] = "none"

\* What runCount stands for.
CountedRuns(s) == {r \in Runs \ manual : Of[r] = s /\ status[r] = "counted"}

CountMatches(s) ==
  /\ IsFiniteSet(CountedRuns(s))
  /\ Untouched(s) /\ (enabled[s] \/ mode[s] = "none") => count[s] = Cardinality(CountedRuns(s))

CountsMatch == \A s \in Schedules : CountMatches(s)

Bookkeeping == Types /\ RunsMatch /\ LastIsCounted /\ NothingBefore

\* What a step of somebody else's does to the runs' own steps.
LEMMA RunsStay ==
  /\ \A a \in Actors : Types /\ Plan(a) =>
       /\ \A r \in Runs : \/ at'[r] = at[r]
                          \/ /\ r = a /\ at[r] \in Planning \cup Stopping
                             /\ at'[r] \in {"none", "arm", "off"}
       /\ UNCHANGED <<status, manual, lastRun, touched>>
  /\ \A e \in Edits : Types /\ (Create(e) \/ UpdateRead(e) \/ Delete(e) \/ Update(e)) =>
       /\ \A r \in Runs : at'[r] = at[r]
       /\ UNCHANGED <<status, manual>> /\ touched \subseteq touched'
  /\ \A t \in Ticks : Types /\ Tick(t) =>
       /\ \A r \in Runs : at'[r] = at[r]
       /\ UNCHANGED <<manual, lastRun, touched>>
<1> USE Kinds DEF Types, AtOK
<1>1. ASSUME NEW a \in Actors, Types, Plan(a)
      PROVE  /\ \A r \in Runs : \/ at'[r] = at[r]
                                \/ /\ r = a /\ at[r] \in Planning \cup Stopping
                                   /\ at'[r] \in {"none", "arm", "off"}
             /\ UNCHANGED <<status, manual, lastRun, touched>>
  <2>1. CASE PlanCancel(a) \/ StopCancel(a)
    BY <1>1, <2>1 DEF PlanCancel, StopCancel, CancelTicks, Unlocked, Waiting, Planning, Stopping,
       docVars, history
  <2>2. CASE PlanArm(a)
    <3>1. NewTick(Of[a]) \in Ticks
      BY <2>2 DEF PlanArm, NewTick, Free
    <3> QED
      BY <1>1, <2>2, <3>1 DEF PlanArm, Planning, docVars
  <2>3. CASE StopWrite(a)
    BY <1>1, <2>3 DEF StopWrite, Ends, Goes, Stopping, history
  <2> QED
    BY <1>1, <2>1, <2>2, <2>3 DEF Plan
<1>2. ASSUME NEW e \in Edits, Types, Create(e) \/ UpdateRead(e) \/ Delete(e) \/ Update(e)
      PROVE  /\ \A r \in Runs : at'[r] = at[r]
             /\ UNCHANGED <<status, manual>> /\ touched \subseteq touched'
  <2>1. UNCHANGED <<status, manual>> /\ touched \subseteq touched'
    BY <1>2 DEF Create, UpdateRead, Delete, Update, UpdateWrite, UpdateGone, DropTick, history
  <2>2. \/ \E v : at' = [at EXCEPT ![e] = v]
        \/ CancelTicks(e, "done")
    BY <1>2 DEF Create, UpdateRead, Delete, Update, UpdateWrite, UpdateGone, DropTick, Goes
  <2>3. \A r \in Runs : at'[r] = at[r]
    BY <1>2, <2>2 DEF CancelTicks, Unlocked, Waiting
  <2> QED
    BY <2>1, <2>3
<1>3. ASSUME NEW t \in Ticks, Types, Tick(t)
      PROVE  /\ \A r \in Runs : at'[r] = at[r]
             /\ UNCHANGED <<manual, lastRun, touched>>
  <2>1. UNCHANGED <<manual, lastRun, touched>> /\ \E v : at' = [at EXCEPT ![t] = v]
    BY <1>3 DEF Tick, Fire, TickReads, TickPutsOff, TickChecks, TickSkips, TickInserts,
       TickReturns, TickEnsures, TickTallies, Goes, docVars, history
  <2> QED
    BY <1>3, <2>1
<1> QED
  BY <1>1, <1>2, <1>3

LEMMA RunStepsMatch ==
  ASSUME Types, RunsMatch, NEW r \in Runs, Run(r)
  PROVE  RunsMatch'
<1> USE Kinds DEF Types, AtOK, RestOK
<1>1. /\ \A o \in Runs \ {r} : at'[o] = at[o] /\ status'[o] = status[o]
      /\ manual' \subseteq manual /\ touched' = touched
  BY DEF Run, RunChecks, RunInserts, RunDropped, RunBegins, RunEnds, RunReleases, RunReads,
     RunCounts, Goes, Ends, history
<1>2. \A o \in Runs \ {r} : RunMatches(o)'
  BY <1>1 DEF RunsMatch, RunMatches, Untouched
<1>3. RunMatches(r)'
  <2> USE DEF RunsMatch, RunMatches, Untouched, Working, Planning, Stopping, Ended
  <2>1. CASE RunChecks(r) \/ RunInserts(r)
    BY <1>1, <2>1 DEF RunChecks, RunInserts, Goes
  <2>2. CASE RunDropped(r) \/ RunBegins(r)
    BY <1>1, <2>2 DEF RunDropped, RunBegins
  <2>3. CASE RunEnds(r)
    BY <1>1, <2>3 DEF RunEnds, Goes
  <2>4. CASE RunReleases(r)
    BY <1>1, <2>4 DEF RunReleases, Goes
  <2>5. CASE RunReads(r)
    <3>1. /\ at[r] = "count"
          /\ \/ at'[r] = "inc" /\ Counts(r) /\ UNCHANGED status
             \/ at'[r] = "none" /\ status'[r] = "counted"
      BY <2>5 DEF RunReads, Goes
    <3>2. CASE at'[r] = "inc" /\ Counts(r) /\ UNCHANGED status
      BY <1>1, <3>1, <3>2 DEF Counts
    <3>3. CASE at'[r] = "none" /\ status'[r] = "counted"
      BY <3>3
    <3> QED
      BY <3>1, <3>2, <3>3
  <2>6. CASE RunCounts(r)
    <3>1. status'[r] = "counted" /\ at'[r] \in {"none", "stop", "cancel"}
      BY <2>6 DEF RunCounts, Goes, Ends
    <3> QED
      BY <3>1
  <2> QED
    BY <2>1, <2>2, <2>3, <2>4, <2>5, <2>6 DEF Run
<1> QED
  BY <1>2, <1>3 DEF RunsMatch

LEMMA RunsMatchSteps == Types /\ RunsMatch /\ [Next]_vars => RunsMatch'
<1> SUFFICES ASSUME Types, RunsMatch, [Next]_vars PROVE RunsMatch'
  OBVIOUS
<1> USE Kinds DEF RunsMatch, RunMatches, Untouched
<1>1. ASSUME NEW a \in Actors, Plan(a) PROVE RunsMatch'
  BY <1>1, RunsStay DEF Working, Planning, Stopping
<1>2. ASSUME NEW e \in Edits, Create(e) \/ UpdateRead(e) \/ Delete(e) \/ Update(e)
      PROVE  RunsMatch'
  BY <1>2, RunsStay
<1>3. ASSUME NEW t \in Ticks, Tick(t) PROVE RunsMatch'
  <2>1. \/ UNCHANGED status
        \/ \E o \in Runs : /\ status[o] = "none" /\ at[o] = "none"
                           /\ status' = [status EXCEPT ![o] = "queued"]
    <3>1. CASE TickInserts(t)
      <4>1. NewRun(Of[t]) \in Fresh(Of[t])
        BY <3>1 DEF TickInserts, NewRun, Fresh
      <4> QED
        BY <3>1, <4>1 DEF TickInserts, Fresh
    <3>2. CASE ~TickInserts(t)
      BY <1>3, <3>2 DEF Tick, Fire, TickReads, TickPutsOff, TickChecks, TickSkips, TickReturns,
         TickEnsures, TickTallies
    <3> QED
      BY <3>1, <3>2
  <2>2. \A o \in Runs : at'[o] = at[o] /\ (o \in manual' <=> o \in manual) /\ touched' = touched
    BY <1>3, RunsStay
  <2> QED
    BY <2>1, <2>2 DEF Types, RestOK, Working, Ended, Planning, Stopping
<1>4. ASSUME NEW s \in Schedules, DispatchPicks(s) \/ ManualStart(s) PROVE RunsMatch'
  <2>1. NewRun(s) \in Fresh(s)
    BY <1>4 DEF DispatchPicks, ManualStart, NewRun, Fresh
  <2>2. \A r \in Runs \ {NewRun(s)} : at'[r] = at[r] /\ (r \in manual' <=> r \in manual)
    BY <1>4, <2>1 DEF DispatchPicks, ManualStart, Goes, Types, AtOK
  <2>3. UNCHANGED <<status, touched>> /\ at'[NewRun(s)] = "create" /\ status[NewRun(s)] = "none"
    BY <1>4, <2>1 DEF DispatchPicks, ManualStart, Goes, Types, AtOK, Fresh, history
  <2> QED
    BY <2>2, <2>3 DEF Working, Ended, Planning, Stopping
<1>5. ASSUME NEW r \in Runs, Run(r) PROVE RunsMatch'
  BY <1>5, RunStepsMatch
<1>6. CASE Crash
  <2>1. \A r \in Runs : r \notin Armed /\ at[r] # "pending"
    <3>1. Armed \subseteq Ticks
      BY ScheduleAssumption DEF Armed
    <3> QED
      BY <3>1 DEF Types, AtOK, RunAt, Planning, Stopping, RunSteps
  <2>2. \A r \in Runs : at'[r] = "none"
    BY <1>6, <2>1 DEF Crash
  <2>3. \A r \in Runs : Of[r] \in touched'
    BY <1>6 DEF Crash
  <2> QED
    BY <2>2, <2>3 DEF Working, Planning, Stopping
<1>7. CASE UNCHANGED vars
  BY <1>7 DEF vars, history
<1> QED
  BY <1>1, <1>2, <1>3, <1>4, <1>5, <1>6, <1>7 DEF Next

LEMMA CountedStays ==
  ASSUME Types, RunsMatch, [Next]_vars, NEW r \in Runs, status[r] = "counted"
  PROVE  status'[r] = "counted"
<1> USE Kinds DEF Types, RestOK
<1>1. ASSUME NEW t \in Ticks, Tick(t) PROVE status'[r] = "counted"
  <2>1. CASE TickInserts(t)
    <3>1. NewRun(Of[t]) \in Fresh(Of[t])
      BY <2>1 DEF TickInserts, NewRun, Fresh
    <3> QED
      BY <2>1, <3>1 DEF TickInserts, Fresh
  <2>2. CASE ~TickInserts(t)
    BY <1>1, <2>2 DEF Tick, Fire, TickReads, TickPutsOff, TickChecks, TickSkips, TickReturns,
       TickEnsures, TickTallies
  <2> QED
    BY <2>1, <2>2
<1>2. ASSUME NEW o \in Runs, Run(o) PROVE status'[r] = "counted"
  BY <1>2 DEF Run, RunChecks, RunInserts, RunDropped, RunBegins, RunEnds, RunReleases, RunReads,
     RunCounts, RunsMatch, RunMatches, Working, Ended
<1>3. ASSUME UNCHANGED status PROVE status'[r] = "counted"
  BY <1>3
<1> QED
  BY <1>1, <1>2, <1>3, RunsStay
  DEF Next, Crash, DispatchPicks, ManualStart, vars

LEMMA LastIsCountedSteps ==
  Types /\ RunsMatch /\ LastIsCounted /\ [Next]_vars => LastIsCounted'
<1> SUFFICES ASSUME Types, RunsMatch, LastIsCounted, [Next]_vars PROVE LastIsCounted'
  OBVIOUS
<1> USE Kinds DEF Types
<1>1. \A s \in Schedules : \/ lastRun'[s] = lastRun[s]
                           \/ lastRun'[s] = None
                           \/ lastRun'[s] \in Runs /\ status'[lastRun'[s]] = "counted"
  <2>1. ASSUME NEW e \in Edits, Create(e) \/ UpdateRead(e) \/ Delete(e) \/ Update(e)
        PROVE  UNCHANGED lastRun \/ lastRun' = [lastRun EXCEPT ![Of[e]] = None]
    BY <2>1 DEF Create, UpdateRead, Delete, Update, UpdateWrite, UpdateGone, DropTick, docVars
  <2>2. ASSUME NEW r \in Runs, Run(r)
        PROVE  \/ UNCHANGED lastRun
               \/ lastRun' = [lastRun EXCEPT ![Of[r]] = r] /\ status'[r] = "counted"
    BY <2>2 DEF Run, RunChecks, RunInserts, RunDropped, RunBegins, RunEnds, RunReleases, RunReads,
       RunCounts, docVars, RestOK
  <2>3. CASE \E e \in Edits : Create(e) \/ UpdateRead(e) \/ Delete(e) \/ Update(e)
    BY <2>1, <2>3 DEF DocsOK
  <2>4. CASE \E r \in Runs : Run(r)
    BY <2>2, <2>4 DEF DocsOK
  <2>5. CASE UNCHANGED lastRun
    BY <2>5
  <2> QED
    BY <2>3, <2>4, <2>5, RunsStay DEF Next, Crash, DispatchPicks, ManualStart, vars, docVars
<1>2. \A s \in Schedules : lastRun[s] # None => lastRun[s] \in Runs
  BY DEF DocsOK
<1> QED
  BY <1>1, <1>2, CountedStays DEF LastIsCounted

LEMMA NothingBeforeSteps ==
  Types /\ NothingBefore /\ [Next]_vars => NothingBefore'
<1> SUFFICES ASSUME Types, NothingBefore, [Next]_vars PROVE NothingBefore'
  OBVIOUS
<1> USE Kinds DEF Types, AtOK
<1>1. \A s \in Schedules : mode'[s] = "none" => mode[s] = "none"
  <2>1. ASSUME NEW e \in Edits, Create(e) \/ UpdateRead(e) \/ Delete(e) \/ Update(e)
        PROVE  \A s \in Schedules : mode'[s] = "none" => mode[s] = "none"
    BY <2>1 DEF Create, UpdateRead, Delete, Update, UpdateWrite, UpdateGone, DropTick, docVars,
       DocsOK, Modes
  <2>2. CASE UNCHANGED mode
    BY <2>2
  <2> QED
    BY <2>1, <2>2 DEF Next, Plan, PlanCancel, PlanArm, StopCancel, StopWrite, Tick, Fire,
       TickReads, TickPutsOff, TickChecks, TickSkips, TickInserts, TickReturns, TickEnsures,
       TickTallies, Run, RunChecks, RunInserts, RunDropped, RunBegins, RunEnds, RunReleases,
       RunReads, RunCounts, Crash, DispatchPicks, ManualStart, vars, docVars
<1> SUFFICES ASSUME NEW a \in Actors, mode[Of[a]] = "none", mode'[Of[a]] = "none"
             PROVE  /\ at'[a] = IF a \in Edits THEN "new" ELSE "none"
                    /\ a \in Runs => status'[a] = "none"
  BY <1>1 DEF NothingBefore
<1>2. /\ a \in Edits => at[a] = "new"
      /\ a \notin Edits => at[a] = "none"
      /\ a \in Runs => status[a] = "none"
  BY DEF NothingBefore
<1>3. SUFFICES at'[a] = at[a] /\ (a \in Runs => status'[a] = status[a])
  BY <1>2
<1>4. ASSUME NEW b \in Actors, Plan(b) PROVE at'[a] = at[a] /\ UNCHANGED status
  <2>1. at[b] \in Planning \cup Stopping /\ b # a
    BY <1>2, <1>4 DEF Plan, PlanCancel, PlanArm, StopCancel, StopWrite, Planning, Stopping
  <2>2. CASE PlanCancel(b) \/ StopCancel(b)
    BY <1>2, <2>1, <2>2 DEF PlanCancel, StopCancel, CancelTicks, Unlocked, Waiting
  <2>3. CASE PlanArm(b)
    <3>1. NewTick(Of[b]) \in Free(Of[b])
      BY <2>3 DEF PlanArm, NewTick, Free
    <3>2. mode[Of[b]] # "none"
      BY <2>1 DEF NothingBefore, Planning, Stopping
    <3>3. NewTick(Of[b]) # a
      BY <3>1, <3>2 DEF Free
    <3> QED
      BY <2>1, <2>3, <3>3 DEF PlanArm
  <2>4. CASE StopWrite(b)
    BY <2>1, <2>4 DEF StopWrite, Ends, Goes
  <2> QED
    BY <1>4, <2>2, <2>3, <2>4 DEF Plan, PlanCancel, PlanArm, StopCancel, StopWrite
<1>5. ASSUME NEW e \in Edits, Create(e) \/ UpdateRead(e) \/ Delete(e) \/ Update(e)
      PROVE  at'[a] = at[a] /\ UNCHANGED status
  <2>1. Of[e] # Of[a]
    BY <1>2, <1>5 DEF Create, UpdateRead, Delete, Update, UpdateWrite, UpdateGone, DropTick,
       Exists, Modes, NothingBefore, DocsOK
  <2>2. \/ \E v : at' = [at EXCEPT ![e] = v]
        \/ CancelTicks(e, "done")
    BY <1>5 DEF Create, UpdateRead, Delete, Update, UpdateWrite, UpdateGone, DropTick, Goes
  <2>3. UNCHANGED status
    BY <1>5, RunsStay
  <2> QED
    BY <2>1, <2>2, <2>3 DEF CancelTicks, Unlocked, Waiting
<1>6. ASSUME NEW t \in Ticks, Tick(t)
      PROVE  at'[a] = at[a] /\ (a \in Runs => status'[a] = status[a])
  <2>1. \E v : at' = [at EXCEPT ![t] = v]
    BY <1>6 DEF Tick, Fire, TickReads, TickPutsOff, TickChecks, TickSkips, TickInserts,
       TickReturns, TickEnsures, TickTallies, Goes
  <2>2. at[t] # "none"
    BY <1>6 DEF Tick, Fire, TickReads, TickPutsOff, TickChecks, TickSkips, TickInserts,
       TickReturns, TickEnsures, TickTallies
  <2>3. mode[Of[t]] # "none"
    BY <2>2 DEF NothingBefore
  <2>4. CASE TickInserts(t)
    <3>1. NewRun(Of[t]) \in Fresh(Of[t])
      BY <2>4 DEF TickInserts, NewRun, Fresh
    <3> QED
      BY <2>1, <2>3, <2>4, <3>1 DEF TickInserts, Fresh, RestOK
  <2>5. CASE ~TickInserts(t)
    BY <1>6, <2>1, <2>3, <2>5 DEF Tick, Fire, TickReads, TickPutsOff, TickChecks, TickSkips,
       TickReturns, TickEnsures, TickTallies
  <2> QED
    BY <2>4, <2>5
<1>7. ASSUME NEW s \in Schedules, DispatchPicks(s) \/ ManualStart(s)
      PROVE  at'[a] = at[a] /\ UNCHANGED status
  <2>1. NewRun(s) \in Fresh(s)
    BY <1>7 DEF DispatchPicks, ManualStart, NewRun, Fresh
  <2>2. mode[s] # "none"
    BY <1>7 DEF DispatchPicks, ManualStart, NextUp, Dispatchable, Exists, Modes
  <2> QED
    BY <1>7, <2>1, <2>2 DEF DispatchPicks, ManualStart, Goes, Fresh
<1>8. ASSUME NEW r \in Runs, Run(r)
      PROVE  at'[a] = at[a] /\ (a \in Runs => status'[a] = status[a])
  <2>1. r # a
    BY <1>2, <1>8 DEF Run, RunChecks, RunInserts, RunDropped, RunBegins, RunEnds, RunReleases,
       RunReads, RunCounts
  <2> QED
    BY <1>8, <2>1 DEF Run, RunChecks, RunInserts, RunDropped, RunBegins, RunEnds, RunReleases,
       RunReads, RunCounts, Goes, Ends, RestOK
<1>9. CASE Crash
  <2>1. a \notin Armed
    BY ScheduleAssumption DEF Armed, Replanned, Wants
  <2> QED
    BY <1>2, <1>9, <2>1 DEF Crash
<1>10. CASE UNCHANGED vars
  BY <1>10 DEF vars
<1> QED
  BY <1>4, <1>5, <1>6, <1>7, <1>8, <1>9, <1>10 DEF Next

\* A step that counts no run.
LEMMA CountsStay ==
  ASSUME CountsMatch,
         \A s \in Schedules : CountedRuns(s)' = CountedRuns(s),
         \A s \in Schedules : Untouched(s)' /\ (enabled'[s] \/ mode'[s] = "none") =>
           /\ Untouched(s) /\ (enabled[s] \/ mode[s] = "none")
           /\ count'[s] = count[s]
  PROVE  CountsMatch'
<1>1. ASSUME NEW s \in Schedules PROVE CountMatches(s)'
  <2>1. IsFiniteSet(CountedRuns(s)') /\ Cardinality(CountedRuns(s)') = Cardinality(CountedRuns(s))
    BY <1>1 DEF CountsMatch, CountMatches
  <2> QED
    BY <2>1 DEF CountsMatch, CountMatches
<1> QED
  BY <1>1 DEF CountsMatch

\* A run that is through with its bookkeeping.
LEMMA CountedRunsGrow ==
  ASSUME Types, NEW r \in Runs, status[r] # "counted", status' = [status EXCEPT ![r] = "counted"],
         UNCHANGED manual, NEW s \in Schedules
  PROVE  CountedRuns(s)' = IF Of[r] = s /\ r \notin manual THEN CountedRuns(s) \cup {r}
                                                          ELSE CountedRuns(s)
  BY DEF Types, RestOK, CountedRuns

LEMMA ReadKeepsCounts ==
  ASSUME Bookkeeping, CountsMatch, NEW r \in Runs, RunReads(r)
  PROVE  CountsMatch'
<1> USE Kinds DEF Bookkeeping, docVars, history
<1>1. status[r] \in Ended /\ at[r] = "count" /\ mode[Of[r]] # "none"
  BY DEF RunReads, RunsMatch, RunMatches, Working, NothingBefore
<1>2. UNCHANGED <<mode, enabled, count, manual, touched, lastRun>>
  BY DEF RunReads
<1>3. CASE UNCHANGED status
  BY <1>2, <1>3, CountsStay DEF CountedRuns, Untouched
<1>4. CASE ~UNCHANGED status
  <2>1. /\ status' = [status EXCEPT ![r] = "counted"]
        /\ ~(Exists(Of[r]) /\ enabled[Of[r]] /\ Counts(r))
    BY <1>4 DEF RunReads
  <2>2. \A s \in Schedules :
          CountedRuns(s)' = IF Of[r] = s /\ r \notin manual THEN CountedRuns(s) \cup {r}
                                                            ELSE CountedRuns(s)
    BY <1>1, <1>2, <2>1, CountedRunsGrow DEF Ended
  <2>3. enabled[Of[r]] => r \in manual
    <3>1. lastRun[Of[r]] # r
      BY <1>1, ScheduleAssumption DEF LastIsCounted, Ended
    <3>2. enabled[Of[r]] => Exists(Of[r])
      BY DEF Types, DocsOK, Exists
    <3> QED
      BY <2>1, <3>1, <3>2 DEF Counts
  <2>4. ASSUME NEW s \in Schedules PROVE CountMatches(s)'
    <3>1. IsFiniteSet(CountedRuns(s)')
      BY <2>2, FS_AddElement DEF CountsMatch, CountMatches
    <3>2. CASE Of[r] = s /\ r \notin manual
      BY <1>1, <1>2, <2>3, <3>1, <3>2 DEF CountMatches
    <3>3. CASE ~(Of[r] = s /\ r \notin manual)
      <4>1. CountedRuns(s)' = CountedRuns(s)
        BY <2>2, <3>3
      <4> QED
        BY <1>2, <3>1, <4>1 DEF CountsMatch, CountMatches, Untouched
    <3> QED
      BY <3>2, <3>3
  <2> QED
    BY <2>4 DEF CountsMatch
<1> QED
  BY <1>3, <1>4

LEMMA CountKeepsCounts ==
  ASSUME Bookkeeping, CountsMatch, NEW r \in Runs, RunCounts(r)
  PROVE  CountsMatch'
<1> USE Kinds DEF Bookkeeping, history
<1> DEFINE o == Of[r]
<1>1. status[r] \in Ended /\ r \notin manual /\ mode[o] # "none"
  BY DEF RunCounts, RunsMatch, RunMatches, Working, NothingBefore
<1>2. UNCHANGED <<mode, enabled, manual, touched>> /\ status' = [status EXCEPT ![r] = "counted"]
  BY DEF RunCounts
<1>3. \A s \in Schedules :
        CountedRuns(s)' = IF o = s THEN CountedRuns(s) \cup {r} ELSE CountedRuns(s)
  BY <1>1, <1>2, CountedRunsGrow DEF Ended
<1>4. /\ enabled[o] => count'[o] = count[o] + 1
      /\ \A s \in Schedules \ {o} : count'[s] = count[s]
  BY DEF RunCounts, Types, DocsOK, Exists
<1>5. r \notin CountedRuns(o) /\ o \in Schedules
  BY <1>1 DEF CountedRuns, Ended
<1> HIDE DEF o
<1>6. ASSUME NEW s \in Schedules PROVE CountMatches(s)'
  <2>1. IsFiniteSet(CountedRuns(s)) /\ IsFiniteSet(CountedRuns(s)')
    BY <1>3, FS_AddElement DEF CountsMatch, CountMatches
  <2>2. CASE s = o
    <3>1. Cardinality(CountedRuns(o)') = Cardinality(CountedRuns(o)) + 1
      <4>1. Cardinality(CountedRuns(o) \cup {r}) = Cardinality(CountedRuns(o)) + 1
        BY <1>5, <2>1, <2>2, FS_AddElement
      <4> QED
        BY <1>3, <1>5, <4>1
    <3> QED
      BY <1>1, <1>2, <1>4, <2>1, <2>2, <3>1 DEF CountsMatch, CountMatches, Untouched
  <2>3. CASE s # o
    <3>1. CountedRuns(s)' = CountedRuns(s)
      BY <1>3, <2>3
    <3> QED
      BY <1>2, <1>4, <2>1, <2>3, <3>1 DEF CountsMatch, CountMatches, Untouched
  <2> QED
    BY <2>2, <2>3
<1> QED
  BY <1>6 DEF CountsMatch

LEMMA CountsMatchSteps == Bookkeeping /\ CountsMatch /\ [Next]_vars => CountsMatch'
<1> SUFFICES ASSUME Bookkeeping, CountsMatch, [Next]_vars PROVE CountsMatch'
  OBVIOUS
<1> USE Kinds DEF Bookkeeping, docVars, history
<1>1. ASSUME NEW a \in Actors, Plan(a) PROVE CountsMatch'
  <2>1. UNCHANGED <<status, manual, touched>>
    BY <1>1, RunsStay
  <2>2. UNCHANGED <<mode, count>> /\ \A s \in Schedules : enabled'[s] => enabled[s]
    BY <1>1 DEF Plan, PlanCancel, PlanArm, StopCancel, StopWrite, Types, DocsOK
  <2> QED
    BY <2>1, <2>2, CountsStay DEF CountedRuns, Untouched
<1>2. ASSUME NEW e \in Edits, Create(e) \/ UpdateRead(e) \/ Delete(e) \/ Update(e)
      PROVE  CountsMatch'
  <2>1. UNCHANGED <<status, manual>> /\ touched \subseteq touched'
    BY <1>2, RunsStay
  <2>2. \A s \in Schedules : s \notin touched' =>
          /\ count'[s] = count[s]
          /\ enabled'[s] \/ mode'[s] = "none" => enabled[s] \/ mode[s] = "none"
    <3>1. CASE Create(e)
      BY <3>1 DEF Create, Types, DocsOK
    <3>2. CASE UpdateWrite(e) \/ Delete(e)
      BY <3>2 DEF UpdateWrite, Delete, Types, DocsOK
    <3>3. CASE UpdateRead(e) \/ UpdateGone(e) \/ DropTick(e)
      BY <3>3 DEF UpdateRead, UpdateGone, DropTick
    <3> QED
      BY <1>2, <3>1, <3>2, <3>3 DEF Update
  <2> QED
    BY <2>1, <2>2, CountsStay DEF CountedRuns, Untouched
<1>3. ASSUME NEW t \in Ticks, Tick(t) PROVE CountsMatch'
  <2>1. UNCHANGED <<mode, enabled, count, manual, touched>>
    BY <1>3 DEF Tick, Fire, TickReads, TickPutsOff, TickChecks, TickSkips, TickInserts,
       TickReturns, TickEnsures, TickTallies
  <2>2. \A r \in Runs : status'[r] = "counted" <=> status[r] = "counted"
    <3>1. CASE TickInserts(t)
      <4>1. NewRun(Of[t]) \in Fresh(Of[t])
        BY <3>1 DEF TickInserts, NewRun, Fresh
      <4> QED
        BY <3>1, <4>1 DEF TickInserts, Fresh, Types, RestOK
    <3>2. CASE ~TickInserts(t)
      BY <1>3, <3>2 DEF Tick, Fire, TickReads, TickPutsOff, TickChecks, TickSkips, TickReturns,
         TickEnsures, TickTallies
    <3> QED
      BY <3>1, <3>2
  <2>3. \A s \in Schedules : CountedRuns(s)' = CountedRuns(s)
    BY <2>1, <2>2 DEF CountedRuns
  <2> QED
    BY <2>1, <2>3, CountsStay DEF Untouched
<1>4. ASSUME UNCHANGED <<mode, enabled, count, touched>> \/ Crash,
             \A r \in Runs : /\ status'[r] = "counted" <=> status[r] = "counted"
                             /\ status[r] = "counted" => (r \in manual' <=> r \in manual)
      PROVE  CountsMatch'
  <2>1. \A s \in Schedules : CountedRuns(s)' = CountedRuns(s)
    BY <1>4 DEF CountedRuns
  <2> QED
    BY <1>4, <2>1, CountsStay DEF Untouched, Crash
<1>5. ASSUME NEW s \in Schedules, DispatchPicks(s) \/ ManualStart(s) PROVE CountsMatch'
  <2>1. NewRun(s) \in Fresh(s)
    BY <1>5 DEF DispatchPicks, ManualStart, NewRun, Fresh
  <2> QED
    BY <1>4, <1>5, <2>1 DEF DispatchPicks, ManualStart, Fresh
<1>6. ASSUME NEW r \in Runs, Run(r) PROVE CountsMatch'
  <2>1. CASE RunReads(r)
    BY <2>1, ReadKeepsCounts
  <2>2. CASE RunCounts(r)
    BY <2>2, CountKeepsCounts
  <2>3. CASE ~RunReads(r) /\ ~RunCounts(r)
    <3>1. \A o \in Runs : /\ status'[o] = "counted" <=> status[o] = "counted"
                          /\ status[o] = "counted" => (o \in manual' <=> o \in manual)
      BY <1>6, <2>3 DEF Run, RunChecks, RunInserts, RunDropped, RunBegins, RunEnds, RunReleases,
         RunsMatch, RunMatches, Types, RestOK, Ended
    <3> QED
      BY <1>4, <1>6, <2>3, <3>1 DEF Run, RunChecks, RunInserts, RunDropped, RunBegins, RunEnds,
         RunReleases
  <2> QED
    BY <2>1, <2>2, <2>3
<1>7. CASE Crash
  BY <1>4, <1>7 DEF Crash
<1>8. CASE UNCHANGED vars
  BY <1>4, <1>8 DEF vars
<1> QED
  BY <1>1, <1>2, <1>3, <1>5, <1>6, <1>7, <1>8 DEF Next

LEMMA BookkeepingInit == Init => Bookkeeping /\ CountsMatch
<1> SUFFICES ASSUME Init PROVE Bookkeeping /\ CountsMatch
  OBVIOUS
<1> USE Kinds
<1>1. RunsMatch /\ LastIsCounted /\ NothingBefore
  BY DEF Init, RunsMatch, RunMatches, Working, Planning, Stopping, Ended, LastIsCounted,
     NothingBefore
<1>2. \A s \in Schedules : CountedRuns(s) = {}
  BY DEF Init, CountedRuns
<1>3. CountsMatch
  BY <1>2, FS_EmptySet DEF Init, CountsMatch, CountMatches
<1> QED
  BY <1>1, <1>3, TypesInit DEF Bookkeeping

LEMMA BookkeepingSteps ==
  Bookkeeping /\ CountsMatch /\ [Next]_vars => (Bookkeeping /\ CountsMatch)'
  BY TypesSteps, RunsMatchSteps, LastIsCountedSteps, NothingBeforeSteps, CountsMatchSteps
  DEF Bookkeeping

\* "Runs that actually started": whoever ran them and however they ended, the runs
\* of a schedule that were through with their bookkeeping are those it counted.
THEOREM RunsAreCountedHolds == Spec => []RunsAreCounted
<1>1. Bookkeeping /\ CountsMatch => RunsAreCounted
  <2> SUFFICES ASSUME Bookkeeping, CountsMatch, NEW s \in Schedules, Untouched(s), enabled[s]
               PROVE  count[s] = Cardinality({r \in StartedRuns(s) :
                                   at[r] \notin RunSteps /\ status[r] # "running"})
    BY DEF RunsAreCounted
  <2>1. \A r \in Runs : Of[r] = s =>
          (status[r] = "counted" <=> /\ status[r] \in {"running", "counted"} \cup Ended
                                     /\ at[r] \notin RunSteps /\ status[r] # "running")
    BY DEF Bookkeeping, RunsMatch, RunMatches, RunSteps, Working, Ended
  <2>2. {r \in StartedRuns(s) : at[r] \notin RunSteps /\ status[r] # "running"} = CountedRuns(s)
    BY <2>1 DEF StartedRuns, CountedRuns
  <2> QED
    BY <2>2 DEF CountsMatch, CountMatches
<1> QED
  BY <1>1, BookkeepingInit, BookkeepingSteps, PTL DEF Spec

-----------------------------------------------------------------------------
(* Ticks.                                                                  *)

\* Who sees to it that the schedule's next tick is planned.
Sustains(x) ==
  \/ x \in Ticks /\ at[x] # "none"
  \/ x \in Runs \cup Edits /\ at[x] \in {"cancel", "arm"} \cup Stopping
  \/ x \in Runs \ manual /\ (status[x] = "running" \/ at[x] \in Working)

Alive(s) == Wants(s) /\ s \notin lost => \E x \in Actors : Of[x] = s /\ Sustains(x)

AllAlive == \A s \in Schedules : Alive(s)

LEMMA AliveIsScheduleIsAlive == AllAlive <=> ScheduleIsAlive
<1>1. ASSUME NEW s \in Schedules
      PROVE  (\E x \in Actors : Of[x] = s /\ Sustains(x)) <=>
               \/ \E t \in Ticks : Of[t] = s /\ at[t] # "none"
               \/ \E a \in Runs \cup Edits : Of[a] = s /\ at[a] \in {"cancel", "arm"} \cup Stopping
               \/ \E r \in Runs \ manual :
                    Of[r] = s /\ (status[r] = "running" \/ at[r] \in {"release", "count", "inc"})
  BY Kinds DEF Sustains, Working
<1> QED
  BY <1>1 DEF AllAlive, Alive, ScheduleIsAlive

\* Whoever an actor's step leaves alone goes on sustaining its schedule.
LEMMA AliveStays ==
  ASSUME NEW s \in Schedules, Alive(s), Wants(s)' /\ s \notin lost' => Wants(s) /\ s \notin lost,
         \A x \in Actors : Of[x] = s /\ Sustains(x) => Sustains(x)'
  PROVE  Alive(s)'
  BY DEF Alive

LEMMA PlanKeepsAlive ==
  ASSUME Types, AllAlive, NEW a \in Actors, Plan(a)
  PROVE  AllAlive'
<1> USE Kinds DEF Types, AtOK
<1>1. UNCHANGED <<status, manual, mode, budget, count, streak>>
  BY DEF Plan, PlanCancel, PlanArm, StopCancel, StopWrite, docVars
<1>2. lost \ {Of[a]} \subseteq lost' /\ lost' \subseteq lost
  BY DEF Plan, PlanCancel, PlanArm, StopCancel, StopWrite, history
<1>3. \A s \in Schedules : enabled'[s] => enabled[s]
  BY DEF Plan, PlanCancel, PlanArm, StopCancel, StopWrite, docVars, DocsOK
<1>4. \A s \in Schedules : Wants(s)' => Wants(s)
  BY <1>1, <1>3 DEF Wants, Runnable, Exhausted, Failing
<1>5. \A x \in Actors : Of[x] # Of[a] => at'[x] = at[x]
  <2>1. CASE PlanCancel(a) \/ StopCancel(a)
    BY <2>1 DEF PlanCancel, StopCancel, CancelTicks, Unlocked, Waiting
  <2>2. CASE PlanArm(a)
    <3>1. Of[NewTick(Of[a])] = Of[a]
      BY <2>2 DEF PlanArm, NewTick, Free
    <3> QED
      BY <2>2, <3>1 DEF PlanArm
  <2>3. CASE StopWrite(a)
    BY <2>3 DEF StopWrite, Ends, Goes
  <2> QED
    BY <2>1, <2>2, <2>3 DEF Plan
<1>6. ASSUME NEW s \in Schedules, s # Of[a] PROVE Alive(s)'
  <2>1. \A x \in Actors : Of[x] = s /\ Sustains(x) => Sustains(x)'
    BY <1>1, <1>5, <1>6 DEF Sustains
  <2> QED
    BY <1>2, <1>4, <1>6, <2>1, AliveStays DEF AllAlive
<1>7. Alive(Of[a])'
  <2>1. CASE PlanCancel(a)
    <3>1. at'[a] = "arm"
      BY <2>1 DEF PlanCancel, CancelTicks
    <3>2. Sustains(a)'
      BY <3>1 DEF Sustains
    <3> QED
      BY <3>2 DEF Alive
  <2>2. CASE PlanArm(a)
    <3>1. NewTick(Of[a]) \in Free(Of[a])
      BY <2>2 DEF PlanArm, NewTick, Free
    <3>2. NewTick(Of[a]) \in Ticks /\ Of[NewTick(Of[a])] = Of[a] /\ NewTick(Of[a]) # a
      BY <2>2, <3>1 DEF Free, PlanArm
    <3>3. at'[NewTick(Of[a])] = "pending"
      BY <2>2, <3>2 DEF PlanArm
    <3> QED
      BY <3>2, <3>3 DEF Alive, Sustains
  <2>3. CASE StopCancel(a)
    <3>1. at'[a] = "off" /\ a \in Runs \cup Edits
      BY <2>3 DEF StopCancel, CancelTicks, TickAt, Planning, TickSteps
    <3>2. Sustains(a)'
      BY <3>1 DEF Sustains, Stopping
    <3> QED
      BY <3>2 DEF Alive
  <2>4. CASE StopWrite(a)
    <3>1. ~enabled'[Of[a]]
      BY <2>4 DEF StopWrite, DocsOK
    <3> QED
      BY <3>1 DEF Alive, Wants, Runnable
  <2> QED
    BY <2>1, <2>2, <2>3, <2>4 DEF Plan
<1> QED
  BY <1>6, <1>7 DEF AllAlive

LEMMA EditKeepsAlive ==
  ASSUME Types, AllAlive, NEW e \in Edits, Create(e) \/ UpdateRead(e) \/ Delete(e) \/ Update(e)
  PROVE  AllAlive'
<1> USE Kinds DEF Types, AtOK, docVars, history
<1> DEFINE o == Of[e]
<1>1. UNCHANGED <<status, manual>>
  BY RunsStay
<1>2. \A x \in Actors : Of[x] # o => at'[x] = at[x]
  <2>1. \/ \E v : at' = [at EXCEPT ![e] = v]
        \/ CancelTicks(e, "done")
    BY DEF Create, UpdateRead, Delete, Update, UpdateWrite, UpdateGone, DropTick, Goes
  <2> QED
    BY <2>1 DEF CancelTicks, Unlocked, Waiting
<1>3. \A s \in Schedules : s # o =>
        /\ mode'[s] = mode[s] /\ enabled'[s] = enabled[s] /\ budget'[s] = budget[s]
        /\ count'[s] = count[s] /\ streak'[s] = streak[s]
        /\ s \in lost' <=> s \in lost
  <2>1. CASE Create(e) \/ UpdateRead(e) \/ UpdateGone(e) \/ DropTick(e)
    BY <2>1 DEF Create, UpdateRead, UpdateGone, DropTick, DocsOK
  <2>2. CASE Delete(e)
    BY <2>2 DEF Delete, DocsOK
  <2>3. CASE UpdateWrite(e)
    BY <2>3 DEF UpdateWrite, DocsOK
  <2> QED
    BY <2>1, <2>2, <2>3 DEF Update
<1>4. ASSUME NEW s \in Schedules, s # o PROVE Alive(s)'
  <2>1. Wants(s)' <=> Wants(s)
    BY <1>3, <1>4 DEF Wants, Runnable, Exhausted, Failing
  <2>2. \A x \in Actors : Of[x] = s /\ Sustains(x) => Sustains(x)'
    BY <1>1, <1>2, <1>4 DEF Sustains
  <2> QED
    BY <1>3, <1>4, <2>1, <2>2, AliveStays DEF AllAlive
<1>5. ASSUME at'[e] \in {"cancel", "stop"} PROVE Alive(o)'
  <2>1. Sustains(e)'
    BY <1>5 DEF Sustains, Stopping
  <2> QED
    BY <2>1 DEF Alive
<1>6. Alive(o)'
  <2>1. CASE Create(e)
    <3>1. at'[e] = "cancel" \/ ~(enabled'[o] /\ mode'[o] = "interval")
      BY <2>1 DEF Create, Goes, DocsOK
    <3> QED
      BY <1>5, <3>1 DEF Alive, Wants, Runnable
  <2>2. CASE UpdateRead(e) \/ UpdateGone(e)
    <3>1. /\ at[e] \in {"new", "write"} /\ UNCHANGED <<mode, enabled, budget, count, streak, lost>>
          /\ \A x \in Actors \ {e} : at'[x] = at[x]
      BY <2>2 DEF UpdateRead, UpdateGone, Goes
    <3>2. \A x \in Actors : Sustains(x) => Sustains(x)'
      BY <1>1, <3>1 DEF Sustains, Stopping
    <3> QED
      BY <3>1, <3>2, AliveStays DEF AllAlive, Wants, Runnable, Exhausted, Failing
  <2>3. CASE UpdateWrite(e)
    <3>1. PICK touch \in BOOLEAN : at' = [at EXCEPT ![e] = Branch(e, touch)]
      BY <2>3 DEF UpdateWrite, Goes
    <3>2. /\ at[e] = "write"
          /\ lost' = IF at'[e] = "done" /\ Overtaken(e) /\ Wants(o)' /\ ~Wants(o)
                     THEN lost \cup {o} ELSE lost
      BY <2>3 DEF UpdateWrite
    <3>3. at'[e] = Branch(e, touch)
      BY <3>1
    <3>4. CASE Branch(e, touch) \in {"stop", "cancel"}
      BY <1>5, <3>3, <3>4
    <3>5. CASE Branch(e, touch) = "drop"
      BY <3>5 DEF Branch, Alive, Wants
    <3>6. CASE Branch(e, touch) = "done"
      <4>1. Overtaken(e)
        BY <3>6 DEF Branch, Overtaken
      <4>2. Wants(o)' /\ o \notin lost' => Wants(o) /\ o \notin lost
        BY <3>2, <3>3, <3>6, <4>1
      <4>3. \A x \in Actors : Sustains(x) => Sustains(x)'
        BY <1>1, <3>1, <3>2 DEF Sustains, Stopping
      <4> QED
        BY <4>2, <4>3, AliveStays DEF AllAlive
    <3>7. Branch(e, touch) \in {"stop", "drop", "cancel", "done"}
      BY DEF Branch
    <3> QED
      BY <3>4, <3>5, <3>6, <3>7
  <2>4. CASE DropTick(e)
    BY <2>4 DEF DropTick, Alive, Wants, Runnable, Exhausted, Failing
  <2>5. CASE Delete(e)
    <3>1. mode'[o] = "deleted"
      BY <2>5 DEF Delete, DocsOK
    <3> QED
      BY <3>1 DEF Alive, Wants
  <2> QED
    BY <2>1, <2>2, <2>3, <2>4, <2>5 DEF Update
<1> QED
  BY <1>4, <1>6 DEF AllAlive

LEMMA TickKeepsAlive ==
  ASSUME Types, AllAlive, NEW t \in Ticks, Tick(t)
  PROVE  AllAlive'
<1> USE Kinds DEF Types, AtOK
<1>1. UNCHANGED <<mode, enabled, budget, count, streak, manual, lost>>
  BY DEF Tick, Fire, TickReads, TickPutsOff, TickChecks, TickSkips, TickInserts, TickReturns,
     TickEnsures, TickTallies, docVars, history
<1>2. /\ \A x \in Actors \ {t} : at'[x] = at[x]
      /\ \A r \in Runs : status[r] = "running" => status'[r] = "running"
  <2>1. \E v : at' = [at EXCEPT ![t] = v]
    BY DEF Tick, Fire, TickReads, TickPutsOff, TickChecks, TickSkips, TickInserts, TickReturns,
       TickEnsures, TickTallies, Goes
  <2>2. CASE TickInserts(t)
    <3>1. NewRun(Of[t]) \in Fresh(Of[t])
      BY <2>2 DEF TickInserts, NewRun, Fresh
    <3> QED
      BY <2>1, <2>2, <3>1 DEF TickInserts, Fresh, RestOK
  <2>3. CASE ~TickInserts(t)
    BY <2>1, <2>3 DEF Tick, Fire, TickReads, TickPutsOff, TickChecks, TickSkips, TickReturns,
       TickEnsures, TickTallies
  <2> QED
    BY <2>2, <2>3
<1>3. \A x \in Actors \ {t} : Sustains(x) => Sustains(x)'
  BY <1>1, <1>2 DEF Sustains
<1>4. \A s \in Schedules : Wants(s)' <=> Wants(s)
  BY <1>1 DEF Wants, Runnable, Exhausted, Failing
<1>5. ASSUME NEW s \in Schedules, s # Of[t] PROVE Alive(s)'
  BY <1>1, <1>3, <1>4, <1>5, AliveStays DEF AllAlive
<1>6. Alive(Of[t])'
  <2>1. CASE at'[t] # "none"
    <3>1. Sustains(t)'
      BY <2>1 DEF Sustains
    <3> QED
      BY <3>1 DEF Alive
  <2>2. CASE at'[t] = "none" /\ (TickReads(t) \/ TickEnsures(t))
    <3>1. ~Wants(Of[t])
      BY <2>2 DEF TickReads, TickEnsures, Goes, Wants, Runnable
    <3> QED
      BY <1>4, <3>1 DEF Alive
  <2>3. CASE at'[t] = "none" /\ TickTallies(t)
    <3>1. PICK o \in Ticks : Of[o] = Of[t] /\ at[o] \in {"pending", "fired"}
      BY <2>3 DEF TickTallies, Goes, Waiting
    <3>2. o # t
      BY <2>3, <3>1 DEF TickTallies
    <3>3. Sustains(o)'
      BY <1>2, <3>1, <3>2 DEF Sustains
    <3> QED
      BY <3>1, <3>3 DEF Alive
  <2>4. at'[t] = "none" => TickReads(t) \/ TickEnsures(t) \/ TickTallies(t)
    BY DEF Tick, Fire, TickPutsOff, TickChecks, TickSkips, TickInserts, TickReturns, Goes
  <2> QED
    BY <2>1, <2>2, <2>3, <2>4
<1> QED
  BY <1>5, <1>6 DEF AllAlive

LEMMA RunKeepsAlive ==
  ASSUME Bookkeeping, AllAlive, NEW r \in Runs, Run(r)
  PROVE  AllAlive'
<1> USE Kinds DEF Bookkeeping, Types, AtOK
<1>1. /\ \A x \in Actors \ {r} : at'[x] = at[x]
      /\ \A x \in Runs \ {r} : status'[x] = status[x]
      /\ manual' \subseteq manual /\ UNCHANGED <<mode, enabled, budget, lost>>
  BY DEF Run, RunChecks, RunInserts, RunDropped, RunBegins, RunEnds, RunReleases, RunReads,
     RunCounts, Goes, Ends, docVars, history, RestOK
<1>2. \A x \in Actors \ {r} : Sustains(x) => Sustains(x)'
  BY <1>1 DEF Sustains
<1>3. CASE RunCounts(r)
  <2>1. ASSUME NEW s \in Schedules, s # Of[r] PROVE Alive(s)'
    <3>1. count'[s] = count[s] /\ streak'[s] = streak[s]
      BY <1>3, <2>1 DEF RunCounts, DocsOK
    <3>2. Wants(s)' <=> Wants(s)
      BY <1>1, <3>1 DEF Wants, Runnable, Exhausted, Failing
    <3> QED
      BY <1>1, <1>2, <2>1, <3>2, AliveStays DEF AllAlive
  <2>2. Alive(Of[r])'
    <3>1. CASE at'[r] \in {"stop", "cancel"}
      <4>1. Sustains(r)'
        BY <3>1 DEF Sustains, Stopping
      <4> QED
        BY <4>1 DEF Alive
    <3>2. CASE at'[r] \notin {"stop", "cancel"}
      <4>1. ~(enabled[Of[r]] /\ mode[Of[r]] = "interval")
        BY <1>3, <3>2 DEF RunCounts, Goes, Exists, Modes
      <4> QED
        BY <1>1, <4>1 DEF Alive, Wants, Runnable
    <3> QED
      BY <3>1, <3>2
  <2> QED
    BY <2>1, <2>2 DEF AllAlive
<1>4. CASE ~RunCounts(r)
  <2>1. UNCHANGED <<count, streak>>
    BY <1>4 DEF Run, RunChecks, RunInserts, RunDropped, RunBegins, RunEnds, RunReleases, RunReads,
       docVars
  <2>2. \A s \in Schedules : Wants(s)' <=> Wants(s)
    BY <1>1, <2>1 DEF Wants, Runnable, Exhausted, Failing
  <2>3. Sustains(r) => Sustains(r)' \/ ~Wants(Of[r])
    <3> USE DEF Sustains, RunsMatch, RunMatches, Stopping, Planning, Working, Ended
    <3>1. CASE RunChecks(r) \/ RunInserts(r) \/ RunDropped(r) \/ RunBegins(r)
      BY <3>1 DEF RunChecks, RunInserts, RunDropped, RunBegins
    <3>2. CASE RunEnds(r)
      BY <3>2 DEF RunEnds, Goes
    <3>3. CASE RunReleases(r)
      BY <3>3 DEF RunReleases, Goes
    <3>4. CASE RunReads(r)
      <4>1. status[r] \in Ended /\ at[r] = "count"
        BY <3>4 DEF RunReads
      <4>2. lastRun[Of[r]] # r
        BY <4>1, ScheduleAssumption DEF LastIsCounted
      <4>3. CASE Exists(Of[r]) /\ enabled[Of[r]] /\ Counts(r)
        <5>1. at'[r] = "inc" /\ r \notin manual /\ manual' = manual
          BY <3>4, <4>3 DEF RunReads, Goes, Counts
        <5> QED
          BY <5>1
      <4>4. CASE ~(Exists(Of[r]) /\ enabled[Of[r]] /\ Counts(r))
        <5>1. Sustains(r) => r \notin manual
          BY <4>1
        <5>2. Sustains(r) => ~Exists(Of[r]) \/ ~enabled[Of[r]]
          BY <4>2, <4>4, <5>1 DEF Counts
        <5>3. Wants(Of[r]) => Exists(Of[r]) /\ enabled[Of[r]]
          BY DEF Wants, Runnable, Exists, Modes
        <5> QED
          BY <5>2, <5>3
      <4> QED
        BY <4>3, <4>4
    <3> QED
      BY <1>4, <3>1, <3>2, <3>3, <3>4 DEF Run
  <2>4. ASSUME NEW s \in Schedules PROVE Alive(s)'
    BY <1>1, <1>2, <2>2, <2>3 DEF AllAlive, Alive
  <2> QED
    BY <2>4 DEF AllAlive
<1> QED
  BY <1>3, <1>4

LEMMA CrashKeepsAlive ==
  ASSUME Types, AllAlive, Crash
  PROVE  AllAlive'
<1> USE Kinds DEF Types, AtOK
<1> SUFFICES ASSUME NEW s \in Schedules, Wants(s)', s \notin lost'
             PROVE  \E x \in Actors : Of[x] = s /\ Sustains(x)'
  BY DEF AllAlive, Alive
<1>1. Wants(s) /\ ~Retired(s)
  <2>1. /\ UNCHANGED <<mode, budget, count, streak>>
        /\ enabled' = [o \in Schedules |-> enabled[o] /\ ~Retired(o)]
    BY DEF Crash
  <2> QED
    BY <2>1 DEF Wants, Runnable, Exhausted, Failing, Retired
<1>2. CASE Kept(s)
  <2>1. PICK t \in Ticks : Of[t] = s /\ at[t] = "pending"
    BY <1>2 DEF Kept, Unlocked, Waiting
  <2>2. at'[t] = "pending"
    BY <1>1, <2>1 DEF Crash
  <2> QED
    BY <2>1, <2>2 DEF Sustains
<1>3. CASE ~Kept(s) /\ Resuming(s)
  <2>1. PICK r \in Runs \ manual : Of[r] = s /\ status[r] = "running"
    BY <1>1, <1>3 DEF Crash
  <2>2. r \notin manual' /\ status'[r] = "running"
    BY <2>1 DEF Crash
  <2> QED
    BY <2>1, <2>2 DEF Sustains
<1>4. CASE ~Kept(s) /\ ~Resuming(s)
  <2> DEFINE t == CHOOSE k \in Ticks : Of[k] = s
  <2>1. t \in Ticks /\ Of[t] = s
    BY ScheduleAssumption
  <2>2. t \in Armed
    BY <1>1, <1>4 DEF Armed, Replanned
  <2> HIDE DEF t
  <2>3. at'[t] = "pending"
    BY <2>1, <2>2 DEF Crash
  <2> QED
    BY <2>1, <2>3 DEF Sustains
<1> QED
  BY <1>2, <1>3, <1>4

LEMMA AliveSteps == Bookkeeping /\ AllAlive /\ [Next]_vars => AllAlive'
<1> SUFFICES ASSUME Bookkeeping, AllAlive, [Next]_vars PROVE AllAlive'
  OBVIOUS
<1> USE Kinds DEF Bookkeeping
<1>1. ASSUME NEW s \in Schedules, DispatchPicks(s) \/ ManualStart(s) PROVE AllAlive'
  <2>1. NewRun(s) \in Fresh(s)
    BY <1>1 DEF DispatchPicks, ManualStart, NewRun, Fresh
  <2>2. /\ \A x \in Actors \ {NewRun(s)} : at'[x] = at[x]
        /\ UNCHANGED <<mode, enabled, budget, count, streak, status, lost>>
        /\ manual' \subseteq manual \cup {NewRun(s)}
    <3>1. at' = [at EXCEPT ![NewRun(s)] = "create"]
      BY <1>1 DEF DispatchPicks, ManualStart, Goes
    <3>2. \A x \in Actors \ {NewRun(s)} : at'[x] = at[x]
      BY <3>1 DEF Types, AtOK
    <3>3. /\ UNCHANGED <<mode, enabled, budget, count, streak, status, lost>>
          /\ manual' \subseteq manual \cup {NewRun(s)}
      <4>1. CASE DispatchPicks(s)
        BY <4>1 DEF DispatchPicks, docVars, history
      <4>2. CASE ManualStart(s)
        BY <4>2 DEF ManualStart, docVars, history
      <4> QED
        BY <1>1, <4>1, <4>2
    <3> QED
      BY <3>2, <3>3
  <2>3. ~Sustains(NewRun(s))
    BY <2>1 DEF Fresh, Sustains, Stopping, Working
  <2>4. \A x \in Actors : Sustains(x) => Sustains(x)'
    BY <2>2, <2>3 DEF Sustains
  <2>5. \A o \in Schedules : Wants(o)' <=> Wants(o)
    BY <2>2 DEF Wants, Runnable, Exhausted, Failing
  <2> QED
    BY <2>2, <2>4, <2>5 DEF AllAlive, Alive
<1>2. CASE UNCHANGED vars
  BY <1>2 DEF vars, docVars, history, AllAlive, Alive, Sustains, Wants, Runnable, Exhausted,
     Failing
<1> QED
  BY <1>1, <1>2, PlanKeepsAlive, EditKeepsAlive, TickKeepsAlive, RunKeepsAlive, CrashKeepsAlive
  DEF Next

\* "Ensures every enabled interval schedule has a pending tick": one within its
\* budgets has a tick, or somebody who is about to plan one, whatever requests,
\* runs and crashes come together, unless it is among those that are lost.
THEOREM ScheduleIsAliveHolds == Spec => []ScheduleIsAlive
<1>1. Init => AllAlive
  BY DEF Init, AllAlive, Alive, Wants, Runnable
<1> QED
  BY <1>1, BookkeepingInit, BookkeepingSteps, AliveSteps, AliveIsScheduleIsAlive, PTL DEF Spec
===============================================================================
