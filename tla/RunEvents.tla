------------------------------ MODULE RunEvents ------------------------------
(***************************************************************************)
(* The way of one run's events: from the agent and its memory tools into   *)
(* the executor's replay buffer (api/executor/runs.py, framework.py,       *)
(* memory.py), over the event stream to the run-task job, which stores     *)
(* them (lib/jobs/run-task.ts), and over the in-process bus or the         *)
(* database to a browser (lib/runs/bus.ts, app/api/runs/[id]/events).      *)
(*                                                                         *)
(* Streams break, writes fail or lose their answer, the app and the        *)
(* executor restart, a browser drops: MaxFaults of them.  An event is its  *)
(* kind and, for a memory event, the number of the fact it stores.  A run  *)
(* has one phase: the end step, whose agent has a memory of its own, is    *)
(* left out.                                                               *)
(***************************************************************************)
EXTENDS Integers, Sequences, FiniteSets

CONSTANTS
  MaxEvents,          \* events before the ending, of which one is left to late edits
  MaxFacts,           \* edits the agent makes to its memory
  RECONNECT_ATTEMPTS, \* connections in vain before the job gives up
  MaxFaults

ASSUME EventsAssumption ==
  /\ MaxEvents \in Nat \ {0}
  /\ MaxFacts \in Nat
  /\ RECONNECT_ATTEMPTS \in Nat \ {0}
  /\ MaxFaults \in Nat

VARIABLES
  fact,     \* edits the agent has made, which is also the newest fact
  unsaid,   \* edits not streamed yet
  buffer,   \* the replay buffer: an event's seq is its place, from 0
  known,    \* whether the executor's registry has the run
  sub,      \* the generator behind the job's connection
  wire,     \* events sent and not read yet
  job,      \* the run-task job
  stored,   \* seqs of the run's stored events
  memory,   \* the fact in the task's memory
  status,   \* the run's status in the database
  page,     \* the route serving the browser
  seen,     \* seqs the browser has
  faults,
  failed,   \* whether a memory change could not be applied
  missed,   \* seqs that were stored without a message on the bus
  rewound   \* whether a crash found the memory older than a stored change

vars == <<fact, unsaid, buffer, known, sub, wire, job, stored, memory, status, page, seen,
          faults, failed, missed, rewound>>

agent == <<fact, unsaid>>
stream == <<known, sub, wire>>
database == <<stored, memory, status>>
browser == <<page, seen>>

Endings == {"result", "error", "cancelled"}
Hidden == {"llm_call"}                 \* kept for the export, never shown
StatusOf(kind) == CASE kind = "result" -> "succeeded"
                    [] kind = "error" -> "failed"
                    [] kind = "cancelled" -> "cancelled"

Event(kind) == [kind |-> kind, fact |-> 0]
Kind(s) == buffer[s + 1].kind
Done == \E k \in 1..Len(buffer) : buffer[k].kind \in Endings
Shown(S) == {s \in S : Kind(s) \notin Hidden}
LastOf(S) == IF S = {} THEN -1 ELSE CHOOSE s \in S : \A t \in S : t <= s
NoStream(st) == [st |-> st, replay |-> <<>>, queue |-> <<>>, last |-> -1]
NoJob(st) == [st |-> st, after |-> -1, last |-> -1, item |-> -1, attempt |-> 0, idle |-> 0,
              ends |-> "running", resumed |-> FALSE]
Closed == -2                           \* the None a subscriber's queue ends with

NoPage(st) == [st |-> st, from |-> -1, after |-> -1, run |-> "running", pending |-> {},
               ending |-> FALSE]

Init ==
  /\ fact = 0 /\ unsaid = <<>> /\ buffer = <<>> /\ known = TRUE
  /\ sub = NoStream("none") /\ wire = <<>>
  /\ job = NoJob("connect")
  /\ stored = {} /\ memory = 0 /\ status = "running"
  /\ page = NoPage("away") /\ seen = {}
  /\ faults = 0 /\ failed = FALSE /\ missed = {} /\ rewound = FALSE

Fault == faults < MaxFaults /\ faults' = faults + 1

\* The browser's connection drops, with some of the last events on it; the
\* browser opens it again after the last one it has, or asks for the page again.
Drops ==
  IF page.st \in {"away", "off", "over", "greeted"} THEN UNCHANGED browser
  ELSE IF page.st = "load" THEN page' = NoPage("away") /\ UNCHANGED seen
  ELSE /\ page' = NoPage("off")
       /\ \E k \in {page.from} \cup {s \in seen : s > page.from} :
            seen' = {s \in seen : s <= k}

-----------------------------------------------------------------------------
(* The executor.                                                           *)

\* Mutant of Queued: the ending wakes nobody.
QueuedSilently(es) ==
  [k \in 1..Cardinality({i \in 1..Len(es) : es[i].kind \notin Endings}) |-> Len(buffer) + k - 1]

\* What the events leave in a subscriber's queue: an ending, which is the last of
\* them, is followed by None.
Queued(es) ==
  [k \in 1..Len(es) |-> Len(buffer) + k - 1]
  \o (IF es # <<>> /\ es[Len(es)].kind \in Endings THEN <<Closed>> ELSE <<>>)

\* A publication of the events es, in order.
Publish(es) ==
  /\ buffer' = buffer \o es
  /\ sub' = IF sub.st \in {"replay", "live", "drain"}
              THEN [sub EXCEPT !.queue = @ \o Queued(es)] ELSE sub

Running == known /\ ~Done
Drained == [k \in 1..Len(unsaid) |-> [kind |-> "memory", fact |-> unsaid[k]]]

\* A memory tool edits the working copy and queues the edit.
AgentRemembers ==
  /\ Running /\ fact < MaxFacts /\ Len(buffer) + Len(unsaid) < MaxEvents
  /\ fact' = fact + 1
  /\ unsaid' = Append(unsaid, fact + 1)
  /\ UNCHANGED <<buffer, stream, job, database, browser, faults, failed, missed, rewound>>

\* The framework emits an event, shown or not, and the edits made before it are
\* streamed right after it.
AgentEmits ==
  /\ Running
  /\ \E es \in {<<>>, <<Event("action")>>} :
       /\ Len(buffer) + Len(es) + Len(unsaid) < MaxEvents
       /\ Publish(es \o Drained)
  /\ unsaid' = <<>>
  /\ UNCHANGED <<fact, known, wire, job, database, browser, faults, failed, missed, rewound>>

\* The tracer delivers a finished model call while the run is alive.
RecordLlmCall ==
  /\ Running /\ Len(buffer) + 1 < MaxEvents
  /\ Publish(<<Event("llm_call")>>)
  /\ UNCHANGED <<agent, known, wire, job, database, browser, faults, failed, missed, rewound>>

\* Mutant of AgentEnds: edits since the last event stay in the store.
AgentEndsAtOnce ==
  /\ Running
  /\ \E kind \in {"result", "cancelled"} : Publish(<<Event(kind)>>)
  /\ unsaid' = <<>>
  /\ UNCHANGED <<fact, known, wire, job, database, browser, faults, failed, missed, rewound>>

\* The agent comes to its result, the last edits before it; a stop that was
\* requested meanwhile turns it into a cancellation.
AgentEnds ==
  /\ Running
  /\ \E kind \in {"result", "cancelled"} : Publish(Drained \o <<Event(kind)>>)
  /\ unsaid' = <<>>
  /\ UNCHANGED <<fact, known, wire, job, database, browser, faults, failed, missed, rewound>>

\* The agent raises or is stopped: edits since its last event are dropped.
AgentBreaks ==
  /\ Running
  /\ \E kind \in {"error", "cancelled"} : Publish(<<Event(kind)>>)
  /\ unsaid' = <<>>
  /\ UNCHANGED <<fact, known, wire, job, database, browser, faults, failed, missed, rewound>>

\* The replay is through: a run that ended meanwhile is drained, another one
\* is followed.
StreamTurns ==
  /\ sub.st = "replay" /\ sub.replay = <<>>
  /\ sub' = [sub EXCEPT !.st = IF Done THEN "drain" ELSE "live"]
  /\ UNCHANGED <<agent, buffer, known, wire, job, database, browser, faults, failed, missed, rewound>>

StreamReplays ==
  /\ sub.st = "replay" /\ sub.replay # <<>> /\ wire = <<>>
  /\ wire' = <<Head(sub.replay)>>
  /\ sub' = [sub EXCEPT !.replay = Tail(@), !.last = Head(sub.replay)]
  /\ UNCHANGED <<agent, buffer, known, job, database, browser, faults, failed, missed, rewound>>

\* The next item of the queue: None closes a stream that is followed and is
\* skipped by one that is drained, and what was replayed is not sent again.
StreamFollows ==
  /\ sub.st \in {"live", "drain"} /\ sub.queue # <<>> /\ wire = <<>>
  /\ LET s == Head(sub.queue)
         rest == [sub EXCEPT !.queue = Tail(@)]
     IN  IF s > sub.last
           THEN wire' = <<s>> /\ sub' = [rest EXCEPT !.last = s]
           ELSE /\ sub' = IF s = Closed /\ sub.st = "live" THEN NoStream("closed") ELSE rest
                /\ UNCHANGED wire
  /\ UNCHANGED <<agent, buffer, known, job, database, browser, faults, failed, missed, rewound>>

StreamDrained ==
  /\ sub.st = "drain" /\ sub.queue = <<>>
  /\ sub' = NoStream("closed")
  /\ UNCHANGED <<agent, buffer, known, wire, job, database, browser, faults, failed, missed, rewound>>

\* The executor restarts, and the run with it.
ExecutorRestarts ==
  /\ known /\ Fault
  /\ known' = FALSE /\ unsaid' = <<>> /\ wire' = <<>>
  /\ sub' = IF sub.st = "none" THEN sub ELSE NoStream("broken")
  /\ UNCHANGED <<fact, buffer, job, database, browser, failed, missed, rewound>>

\* The registry drops a run that ended a while ago; a stream still has it.
ExecutorSweeps ==
  /\ known /\ Done /\ Fault
  /\ known' = FALSE
  /\ UNCHANGED <<agent, buffer, sub, wire, job, database, browser, failed, missed, rewound>>

\* The connection breaks, with what was on it.
ConnectionBreaks ==
  /\ sub.st \in {"replay", "live", "drain"} /\ Fault
  /\ sub' = NoStream("broken") /\ wire' = <<>>
  /\ UNCHANGED <<agent, buffer, known, job, database, browser, failed, missed, rewound>>

-----------------------------------------------------------------------------
(* The run-task job.                                                       *)

UnchangedByJob == UNCHANGED <<agent, buffer, known, faults, failed, missed, rewound>>

\* Mutant of Replayed: the event after the last one is taken for known.
ReplayedFromNext(after) == [k \in 1..Len(buffer) - after - 2 |-> after + k + 1]

\* What the executor replays to a connection that has seen everything to after.
Replayed(after) == [k \in 1..Len(buffer) - after - 1 |-> after + k]

\* A connection that is over: progress makes the budget new, but only when the
\* stream ended rather than threw, and a thrown one goes back to where the
\* connection began.  idle counts what the comment promises, a budget per gap.
AfterGap(j, threw) ==
  LET progress == j.last > j.after
      attempt == (IF progress /\ ~threw THEN 0 ELSE j.attempt) + 1
  IN  [j EXCEPT !.attempt = attempt, !.item = -1,
                !.idle = (IF progress THEN 0 ELSE @) + 1,
                !.after = IF threw THEN @ ELSE j.last,
                !.st = IF attempt < RECONNECT_ATTEMPTS THEN "connect" ELSE "finish",
                !.ends = IF attempt < RECONNECT_ATTEMPTS THEN @ ELSE "failed"]

JobConnects ==
  /\ job.st = "connect"
  /\ IF known
       THEN /\ sub' = [NoStream("replay") EXCEPT !.replay = Replayed(job.after), !.last = job.after]
            /\ job' = [job EXCEPT !.st = "read", !.last = job.after]
       ELSE /\ job' = [job EXCEPT !.st = "finish", !.ends = IF job.resumed THEN "lost" ELSE "failed"]
            /\ UNCHANGED sub
  /\ wire' = <<>>
  /\ UnchangedByJob /\ UNCHANGED <<database, browser>>

JobCannotConnect ==
  /\ job.st = "connect" /\ Fault
  /\ job' = AfterGap([job EXCEPT !.last = job.after], TRUE)
  /\ UNCHANGED <<agent, buffer, stream, database, browser, failed, missed, rewound>>

JobReads ==
  /\ job.st = "read" /\ wire # <<>>
  /\ wire' = <<>>
  /\ job' = [job EXCEPT !.item = Head(wire),
                        !.st = IF Kind(Head(wire)) = "memory" THEN "apply" ELSE "store"]
  /\ UnchangedByJob /\ UNCHANGED <<known, sub, database, browser>>

\* A memory change is applied before its event is stored; a failure is logged.
JobApplies ==
  /\ job.st = "apply"
  /\ \/ memory' = buffer[job.item + 1].fact /\ UNCHANGED <<faults, failed>>
     \/ Fault /\ failed' = TRUE /\ UNCHANGED memory
  /\ job' = [job EXCEPT !.st = "store"]
  /\ UNCHANGED <<agent, buffer, stream, stored, status, browser, missed, rewound>>

\* An event has been stored: the next one is read, or its ending applied.
Past(j) == [j EXCEPT !.last = j.item, !.item = -1,
                     !.st = IF Kind(j.item) \in Endings THEN "finish" ELSE "read",
                     !.ends = IF Kind(j.item) \in Endings THEN StatusOf(Kind(j.item)) ELSE @]

\* An event that is stored already is passed over without a message.
JobStores ==
  /\ job.st = "store"
  /\ stored' = stored \cup {job.item}
  /\ job' = IF job.item \in stored \/ Kind(job.item) \in Hidden
              THEN Past(job) ELSE [job EXCEPT !.st = "emit"]
  /\ UnchangedByJob /\ UNCHANGED <<stream, memory, status, browser>>

\* The database fails, or stores the event and its answer is lost.
JobCannotStore ==
  /\ job.st = "store" /\ Fault
  /\ \/ UNCHANGED <<stored, missed>>
     \/ /\ job.item \notin stored
        /\ stored' = stored \cup {job.item} /\ missed' = missed \cup {job.item}
  /\ job' = AfterGap(job, TRUE)
  /\ sub' = NoStream("none") /\ wire' = <<>>
  /\ UNCHANGED <<agent, buffer, known, memory, status, browser, failed, rewound>>

\* The bus: a page that is still replaying keeps the message for later.
Send(p, S) == [p EXCEPT !.after = LastOf({@} \cup S)]
New(p, S) == {s \in S : s > p.after}

JobEmits ==
  /\ job.st = "emit"
  /\ job' = Past(job)
  /\ CASE page.st \in {"list", "check"} ->
            page' = [page EXCEPT !.pending = @ \cup {job.item}] /\ UNCHANGED seen
       [] page.st \in {"wait", "again", "fin"} ->
            page' = Send(page, {job.item}) /\ seen' = seen \cup New(page, {job.item})
       [] OTHER -> UNCHANGED browser
  /\ UnchangedByJob /\ UNCHANGED <<stream, database>>

JobFinishes ==
  /\ job.st = "finish"
  /\ status' = IF status = "running" THEN job.ends ELSE status
  /\ job' = NoJob("announce")
  /\ sub' = NoStream("none") /\ wire' = <<>>
  /\ UnchangedByJob /\ UNCHANGED <<known, stored, memory, browser>>

JobAnnounces ==
  /\ job.st = "announce"
  /\ job' = NoJob("over")
  /\ page' = IF page.st \in {"list", "check", "wait", "again", "fin"}
               THEN [page EXCEPT !.ending = TRUE] ELSE page
  /\ UnchangedByJob /\ UNCHANGED <<stream, database, seen>>

\* The stream ended without an ending, or threw.
JobLosesStream ==
  /\ job.st = "read" /\ wire = <<>> /\ sub.st \in {"closed", "broken"}
  /\ job' = AfterGap(job, sub.st = "broken")
  /\ sub' = NoStream("none")
  /\ UnchangedByJob /\ UNCHANGED <<known, wire, database, browser>>

\* The job was taking a connection's events again from its beginning, and has
\* set the task's memory back to a change it had got past before.
Rewound == \E s \in stored : Kind(s) = "memory" /\ buffer[s + 1].fact > memory

\* The app goes down with its job, its bus and the browser's connection.
AppCrashes ==
  /\ job.st \notin {"over", "boot"} /\ Fault
  /\ job' = NoJob("boot")
  /\ rewound' = (rewound \/ Rewound)
  /\ sub' = NoStream("none") /\ wire' = <<>>
  /\ Drops
  /\ UNCHANGED <<agent, buffer, known, database, failed, missed>>

\* The boot runs the job again, and a run in flight is resumed: from a stored
\* ending, or from the executor after the last stored event.
JobResumes ==
  /\ job.st = "boot"
  /\ LET last == LastOf(stored)
         j == [job EXCEPT !.after = last, !.last = last, !.resumed = TRUE]
     IN  job' = CASE status # "running" -> NoJob("over")
                  [] status = "running" /\ last >= 0 /\ Kind(last) \in Endings ->
                       [j EXCEPT !.st = "finish", !.ends = StatusOf(Kind(last))]
                  [] OTHER -> [j EXCEPT !.st = "connect"]
  /\ UnchangedByJob /\ UNCHANGED <<stream, database, browser>>

-----------------------------------------------------------------------------
(* The route that serves a browser, and the browser's EventSource.         *)

UnchangedByPage == UNCHANGED <<agent, buffer, stream, job, database, failed, missed, rewound>>

\* The page of the run is rendered: the run is read, then its events.
BrowserAsks ==
  /\ page.st = "away"
  /\ page' = [NoPage("load") EXCEPT !.run = status]
  /\ UnchangedByPage /\ UNCHANGED <<seen, faults>>

\* A page that shows a final status opens no stream.
BrowserLoads ==
  /\ page.st = "load"
  /\ page' = NoPage(IF page.run = "running" THEN "off" ELSE "over")
  /\ seen' = Shown(stored)
  /\ UnchangedByPage /\ UNCHANGED faults

\* The browser asks for what follows its last event; the route reads the run.
BrowserOpens ==
  /\ page.st = "off"
  /\ page' = [NoPage("get") EXCEPT !.from = LastOf(seen), !.after = LastOf(seen), !.run = status]
  /\ UnchangedByPage /\ UNCHANGED <<seen, faults>>

\* The route subscribes to the bus and sends the run, whose final status makes
\* the browser close the stream.
BrowserSubscribes ==
  /\ page.st = "get"
  /\ page' = IF page.run = "running" THEN [page EXCEPT !.st = "list"] ELSE NoPage("greeted")
  /\ UnchangedByPage /\ UNCHANGED <<seen, faults>>

\* The stored events after the last one sent are read and sent.
Stored(p) == Shown({s \in stored : s > p.after})
ListAndSend(next) ==
  /\ page' = [Send(page, Stored(page)) EXCEPT !.st = next]
  /\ seen' = seen \cup Stored(page)
  /\ UnchangedByPage /\ UNCHANGED faults

BrowserReplays == page.st = "list" /\ ListAndSend("check")

\* The run is read again; what the bus has told meanwhile is sent now.
BrowserChecks ==
  /\ page.st = "check"
  /\ IF status # "running"
       THEN page' = [page EXCEPT !.st = "fin"] /\ UNCHANGED seen
       ELSE /\ page' = [Send(page, page.pending) EXCEPT !.st = "wait", !.pending = {}]
            /\ seen' = seen \cup New(page, page.pending)
  /\ UnchangedByPage /\ UNCHANGED faults

BrowserResyncs == page.st = "wait" /\ ListAndSend("again")

BrowserRechecks ==
  /\ page.st = "again"
  /\ page' = [page EXCEPT !.st = IF status = "running" THEN "wait" ELSE "fin"]
  /\ UnchangedByPage /\ UNCHANGED <<seen, faults>>

\* Mutant of BrowserFinishes: the final status is sent at once.
BrowserFinishesAtOnce ==
  /\ \/ page.st = "fin"
     \/ page.ending /\ page.st \in {"wait", "again"}
  /\ page' = [page EXCEPT !.st = "over"]
  /\ UnchangedByPage /\ UNCHANGED <<seen, faults>>

\* finish, called by the loop or for a message of the bus: what is stored and
\* not sent yet, then the final status, on which the browser closes.
BrowserFinishes ==
  /\ \/ page.st = "fin"
     \/ page.ending /\ page.st \in {"wait", "again"}
  /\ ListAndSend("over")

BrowserDrops == page.st \notin {"away", "off", "over", "greeted"} /\ Fault /\ Drops /\ UnchangedByPage

-----------------------------------------------------------------------------

AgentSteps == AgentRemembers \/ AgentEmits \/ RecordLlmCall \/ AgentBreaks
StreamSteps == StreamTurns \/ StreamReplays \/ StreamFollows \/ StreamDrained
JobSteps == \/ JobConnects \/ JobReads \/ JobApplies \/ JobStores \/ JobEmits \/ JobFinishes
            \/ JobAnnounces \/ JobLosesStream \/ JobResumes
BrowserSteps == \/ BrowserAsks \/ BrowserLoads \/ BrowserOpens \/ BrowserSubscribes \/ BrowserReplays \/ BrowserChecks
                \/ BrowserResyncs \/ BrowserRechecks \/ BrowserFinishes
Faults == \/ ExecutorRestarts \/ ExecutorSweeps \/ ConnectionBreaks \/ JobCannotConnect
          \/ JobCannotStore \/ AppCrashes \/ BrowserDrops

Next == AgentSteps \/ AgentEnds \/ StreamSteps \/ JobSteps \/ BrowserSteps \/ Faults

Spec == Init /\ [][Next]_vars

\* The agent's step limit ends it, and the event loops of both processes run what
\* is ready; so does the browser, of which no more is asked than to come through
\* once the job is over.  Nothing is assumed of faults.
FairSpec == /\ Spec
            /\ WF_vars(\/ AgentEnds \/ StreamSteps \/ JobSteps
                       \/ job.st = "over" /\ BrowserSteps)

-----------------------------------------------------------------------------

TypeOK ==
  /\ fact \in 0..MaxFacts /\ memory \in 0..MaxFacts
  /\ \A k \in 1..Len(buffer) :
       /\ buffer[k].kind \in Endings \cup Hidden \cup {"action", "memory"}
       /\ buffer[k].fact \in 0..MaxFacts
  /\ sub.st \in {"none", "replay", "live", "drain", "closed", "broken"}
  /\ Len(wire) <= 1
  /\ job.attempt \in 0..RECONNECT_ATTEMPTS
  /\ stored \subseteq 0..Len(buffer) - 1 /\ seen \subseteq stored
  /\ status \in {"running", "succeeded", "failed", "cancelled", "lost"}

\* What is stored has no hole, whatever breaks, is repeated or is resumed: a hole
\* would stay for ever, since every connection begins after the last event.
NoHoleInStore == stored = 0..LastOf(stored)

\* A run that brought its result has left every fact its agent stored: the edits
\* made after the last event come before the result, and a change whose event
\* was not stored is applied again.  Not when the app went down in the middle of
\* a replay: it resumes after the last stored event, and what had been set back
\* before is not set again.
FactsArrive ==
  job.st = "over" /\ status = "succeeded" /\ ~failed /\ ~rewound => memory = fact

\* "A crash in between replays the (idempotent) change on resume instead of
\* losing it" (run-task.ts:248-250): no crash leaves an older fact than the agent's.
FactsOutliveCrashes ==
  job.st = "over" /\ status = "succeeded" /\ ~failed => memory = fact

\* A browser that followed a run to its final status has every event that is
\* shown, across the page, replay, bus, resync and its own reconnects.
BrowserHasAll == page.st = "over" => Shown(stored) \ missed \subseteq seen

\* A browser that is through with a run has every event of it that is shown.
BrowserMissesNothing ==
  page.st \in {"over", "greeted"} /\ job.st = "over" => Shown(stored) \subseteq seen

\* The job gives a run up only after RECONNECT_ATTEMPTS connections that brought
\* nothing new.
BudgetIsPerGap ==
  job.st = "finish" /\ job.attempt = RECONNECT_ATTEMPTS => job.idle >= RECONNECT_ATTEMPTS

\* The run ends in the database, and the browser gets to know.
EveryoneHears == <>(job.st = "over" /\ page.st \in {"over", "greeted"})
=============================================================================
