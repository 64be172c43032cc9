------------------------------ MODULE AgentRun ------------------------------
(***************************************************************************)
(* One run of the agent framework: the MobileAgent workflow                *)
(* (agent/droid/droid_agent.py) and the child workflow it drives, either   *)
(* the FastAgent (agent/fast_agent) or a Manager and an Executor           *)
(* (agent/manager, agent/executor), over the state they share              *)
(* (agent/droid/state.py).                                                 *)
(*                                                                         *)
(* Everything between two awaits of a workflow step is one action.  Other  *)
(* tasks run at the awaits: a caller queues a message for the agent        *)
(* (send_user_message), or the run is cancelled or times out.  Prompts,    *)
(* plans and screens are left out; a response of the model is what the     *)
(* parser makes of it.                                                     *)
(***************************************************************************)
EXTENDS Naturals, Sequences, FiniteSets

CONSTANTS
  Modes,           \* agent configurations: "fast", "manager", "stateless", "external"
  MaxSteps,        \* agent.max_steps
  Messages,        \* messages the caller may queue
  Calls,           \* device tool calls the model may make
  Complete,        \* the call of the complete tool
  None,
  MaxBatch,        \* bound: tool calls in one response
  MalformedLimit,  \* _MALFORMED_TOOL_CALL_LIMIT
  FailureLimit,    \* CONSECUTIVE_FAILURE_LIMIT
  KeepSteps,       \* fast_agent.history_steps
  ErrThresh,       \* err_to_manager_thresh
  ManagerRetries   \* max_retries of _validate_and_retry

ASSUME AgentAssumption ==
  /\ Modes \subseteq {"fast", "manager", "stateless", "external"}
  /\ Complete \notin Calls /\ None \notin Calls \cup {Complete}
  /\ {MaxSteps, MalformedLimit, FailureLimit, ErrThresh, ManagerRetries}
       \subseteq Nat \ {0}
  /\ {MaxBatch, KeepSteps} \subseteq Nat

VARIABLES
  mode,          \* reasoning off, reasoning (with a stateless Manager), or external
  pc,            \* the workflow step that runs next
  run,           \* the MobileAgent run: "live", "cancelled", "raised", "done"
  child,         \* nested workflow that is running, or "none"
  childAsked,    \* its cancellation has been requested
  step_number,
  accepted,      \* history: messages queue_user_message took
  pending,       \* pending_user_messages
  applied,       \* history: messages reported as applied
  dropped,       \* history: messages reported as dropped
  workflow_completed,
  message_history,
  malformed,     \* _consecutive_malformed_tool_calls
  response,      \* what the parser found in the last response
  batch,         \* pending_tool_calls of the workflow context
  todo,          \* calls of the batch execute_code has still to make
  guard,         \* RepeatGuard: the last failed call and its failures in a row
  failedInARow,  \* failed outcomes at the end of action_outcomes
  error_flag_plan,
  retries,       \* retry_count of the Manager's validation loop
  outcome,       \* how the run ended and what it reports
  seen,          \* history: messages accepted when the agent decided to finish
  streak         \* history: identical failed calls dispatched in a row

messageVars == <<accepted, pending, applied, dropped>>
fastVars == <<malformed, response, batch, todo, guard, streak>>
managerVars == <<failedInARow, error_flag_plan, retries>>
endVars == <<workflow_completed, outcome, seen>>
parentVars == <<mode, run, child, childAsked>>
vars == <<pc, parentVars, step_number, messageVars, endVars, message_history,
          fastVars, managerVars>>

Kinds == {"completed", "answered", "external", "max_steps", "malformed", "repeating",
          "disconnected", "invalid", "error"}
NoOutcome == [kind |-> None, success |-> FALSE]
Batches == UNION {[1..n -> Calls \cup {Complete}] : n \in 1..MaxBatch}
Responses == {"calls", "none", "malformed"}
Entry == [role : {"user", "assistant"}, messages : SUBSET Messages]
User(messages) == [role |-> "user", messages |-> messages]
Assistant == [role |-> "assistant", messages |-> {}]

FastSteps == {"prepare_chat", "input", "llm", "output", "execute", "result",
              "fast_end"}
ManagerSteps == {"prepare_manager", "manager_llm", "validate"}
ExecutorSteps == {"executor_llm", "executor_act"}
ChildSteps == FastSteps \cup ManagerSteps \cup ExecutorSteps
ParentSteps == {"start", "wire", "execute_task", "fast_result", "run_manager", "plan",
                "run_executor", "executor_result", "finalize", "over"}

Init ==
  /\ mode \in Modes
  /\ pc = "start" /\ run = "live" /\ child = "none" /\ childAsked = FALSE
  /\ step_number = 0
  /\ accepted = {} /\ pending = {} /\ applied = {} /\ dropped = {}
  /\ workflow_completed = FALSE
  /\ message_history = <<>>
  /\ malformed = 0
  /\ response = "none" /\ todo = <<>>
  /\ batch = [step |-> 0, calls |-> <<>>]
  /\ guard = [call |-> None, failures |-> 0]
  /\ failedInARow = 0 /\ error_flag_plan = FALSE /\ retries = 0
  /\ outcome = NoOutcome /\ seen = {}
  /\ streak = [call |-> None, length |-> 0]

-----------------------------------------------------------------------------
(* Messages of the caller.                                                 *)

\* send_user_message; after finalize has begun it raises instead.
SendUserMessage(m) ==
  /\ m \notin accepted
  /\ ~workflow_completed
  /\ accepted' = accepted \cup {m}
  /\ pending' = pending \cup {m}
  /\ UNCHANGED <<pc, parentVars, step_number, applied, dropped, endVars,
                 message_history, fastVars, managerVars>>

\* drain_user_messages, then ExternalUserMessageAppliedEvent for what it took.
ApplyMessages ==
  /\ pending' = {}
  /\ applied' = applied \cup pending
  /\ UNCHANGED <<accepted, dropped>>

\* drain_user_messages, then ExternalUserMessageDroppedEvent for what it took.
DropMessages ==
  /\ pending' = {}
  /\ dropped' = dropped \cup pending
  /\ UNCHANGED <<accepted, applied>>

-----------------------------------------------------------------------------
(* What the model is shown: window_history and its recap.                  *)

StepStarts(history) ==
  {i \in DOMAIN history : history[i].role = "assistant"}

\* Mutant of Recap: only the entry next to the assistant's is folded in.
RecapFirst(folded) ==
  UNION {folded[i].messages : i \in {j \in DOMAIN folded \ {1} :
    folded[j].role = "user" /\ folded[j - 1].role = "assistant"}}

\* The recap keeps the messages of every step it folds: the user entries
\* after the step's assistant entry.
Recap(folded) ==
  UNION {folded[i].messages : i \in {j \in DOMAIN folded :
    folded[j].role = "user" /\ \E k \in 1..j : folded[k].role = "assistant"}}

\* The messages of the caller in the prompt built from history.
WindowHistory(history) ==
  LET starts == StepStarts(history)
      verbatim(entries) == UNION {entries[i].messages : i \in DOMAIN entries}
  IN IF KeepSteps = 0 \/ Cardinality(starts) <= KeepSteps THEN verbatim(history)
     ELSE LET first == CHOOSE s \in starts :
                Cardinality({t \in starts : t >= s}) = KeepSteps
          IN history[1].messages
             \cup Recap(SubSeq(history, 2, first - 1))
             \cup verbatim(SubSeq(history, first, Len(history)))

-----------------------------------------------------------------------------
(* start_handler.  An error here fails the workflow: finalize is not run.  *)

\* Mutant of Abandon: the child is left to itself.
AbandonAlone(how) ==
  /\ run' = how
  /\ childAsked' = FALSE
  /\ pc' = "over"
  /\ UNCHANGED <<mode, child>>

\* WorkflowFailedError, a timeout of the workflow or its cancellation: the
\* run is over without finalize.  A child that is driven at that moment is
\* asked to stop (_cancel_child_on_exit).
Abandon(how) ==
  /\ run' = how
  /\ childAsked' = (child # "none")
  /\ pc' = IF child = "none" THEN "over" ELSE pc
  /\ UNCHANGED <<mode, child>>

Raise == run = "live" /\ Abandon("raised")

FinalizeEvent(kind, success) ==
  /\ outcome' = [kind |-> kind, success |-> success]
  /\ seen' = accepted
  /\ UNCHANGED workflow_completed

\* An agent of somebody else does the whole task; a missing one is an error.
ExternalAgent ==
  /\ pc = "start"
  /\ mode = "external"
  /\ \/ /\ pc' = "finalize"
        /\ \E told \in BOOLEAN : FinalizeEvent("external", told)
        /\ UNCHANGED parentVars
     \/ Raise /\ UNCHANGED endVars
  /\ UNCHANGED <<step_number, messageVars, message_history, fastVars, managerVars>>

\* The driver is created and connected.
ConnectDevice ==
  /\ pc = "start"
  /\ mode # "external"
  /\ \/ pc' = "wire" /\ UNCHANGED parentVars
     \/ Raise
  /\ UNCHANGED <<step_number, messageVars, endVars, message_history, fastVars,
                 managerVars>>

\* Tools, context and sub-agents are built and the device's date is read.
WireAgents ==
  /\ pc = "wire"
  /\ \/ /\ pc' = IF mode = "fast" THEN "execute_task" ELSE "run_manager"
        /\ UNCHANGED parentVars
     \/ Raise
  /\ UNCHANGED <<step_number, messageVars, endVars, message_history, fastVars,
                 managerVars>>

-----------------------------------------------------------------------------
(* Nested workflows.                                                       *)

StartChild(kind, first) ==
  /\ run = "live"
  /\ child' = kind /\ pc' = first
  /\ UNCHANGED <<mode, run, childAsked>>

\* The child's StopEvent or exception reaches the step that awaits it, if the
\* run is still there to receive it.
ChildReturns(next) ==
  /\ child' = "none"
  /\ pc' = IF run = "live" THEN next ELSE "over"
  /\ UNCHANGED <<mode, run, childAsked>>

\* The child's exception is not caught by the step: the run fails with it.
ChildRaises ==
  /\ child' = "none" /\ pc' = "over"
  /\ run' = IF run = "live" THEN "raised" ELSE run
  /\ UNCHANGED <<mode, childAsked>>

\* cancel_run of the child takes effect at the child's next await.
ChildStops ==
  /\ child # "none" /\ childAsked
  /\ child' = "none" /\ pc' = "over"
  /\ UNCHANGED <<mode, run, childAsked, step_number, messageVars, endVars,
                 message_history, fastVars, managerVars>>

\* The run is cancelled by its caller or reaches the workflow timeout.
Cancel ==
  /\ run = "live" /\ pc # "over"
  /\ Abandon("cancelled")
  /\ UNCHANGED <<step_number, messageVars, endVars, message_history, fastVars,
                 managerVars>>

-----------------------------------------------------------------------------
(* FastAgent.                                                              *)

\* execute_task: the FastAgent is created and run.
ExecuteTask ==
  /\ pc = "execute_task"
  /\ StartChild("fast", "prepare_chat")
  /\ UNCHANGED <<step_number, messageVars, endVars, message_history, fastVars,
                 managerVars>>

\* prepare_chat: the history holds the goal alone.
PrepareChat ==
  /\ pc = "prepare_chat"
  /\ pc' = "input"
  /\ malformed' = 0
  /\ guard' = [call |-> None, failures |-> 0]
  /\ message_history' = <<User({})>>
  /\ UNCHANGED <<parentVars, step_number, messageVars, endVars, response, batch,
                 todo, streak, managerVars>>

\* FastAgentEndEvent; FastAgent.finalize turns it into the child's result.
EndFast(kind, success) ==
  /\ pc' = "fast_end"
  /\ outcome' = [kind |-> kind, success |-> success]
  /\ seen' = accepted
  /\ UNCHANGED workflow_completed

\* The task fails with an exception that execute_task turns into a result.
FailFast(kind) ==
  /\ ChildReturns("fast_result")
  /\ outcome' = [kind |-> kind, success |-> FALSE]
  /\ seen' = accepted
  /\ UNCHANGED workflow_completed

\* handle_llm_input at the step limit.
StepLimit ==
  /\ pc = "input"
  /\ step_number >= MaxSteps
  /\ DropMessages
  /\ EndFast("max_steps", FALSE)
  /\ UNCHANGED <<parentVars, step_number, message_history, fastVars, managerVars>>

\* handle_llm_input up to the call of the model: the screen is read, and kept
\* as it was when reading it fails with anything but a lost device.
Observe ==
  /\ pc = "input"
  /\ step_number < MaxSteps
  /\ step_number' = step_number + 1
  /\ \/ /\ pc' = "llm"
        /\ UNCHANGED <<parentVars, endVars>>
     \/ FailFast("disconnected")
  /\ UNCHANGED <<messageVars, message_history, fastVars, managerVars>>

\* The model answers: its response enters the history, the tool calls it
\* holds the workflow context.  Markup that is no call at all is malformed.
Respond(found, calls) ==
  /\ pc = "llm"
  /\ (found = "calls") = (calls # <<>>)
  /\ pc' = "output"
  /\ response' = found
  /\ message_history' = Append(message_history, Assistant)
  /\ batch' = IF calls = <<>> THEN batch
              ELSE [step |-> step_number, calls |-> calls]
  /\ UNCHANGED <<parentVars, step_number, messageVars, endVars, malformed, todo,
                 guard, streak, managerVars>>

\* acall_with_retries gives up.
RespondFails ==
  /\ pc = "llm"
  /\ FailFast("error")
  /\ UNCHANGED <<step_number, messageVars, message_history, fastVars, managerVars>>

\* handle_llm_output: markup that could not be parsed is asked for again.
Malformed ==
  /\ pc = "output"
  /\ response = "malformed"
  /\ malformed' = malformed + 1
  /\ IF malformed' >= MalformedLimit
     THEN DropMessages /\ EndFast("malformed", FALSE) /\ UNCHANGED message_history
     ELSE /\ pc' = "input"
          /\ message_history' = Append(message_history, User({}))
          /\ UNCHANGED <<messageVars, endVars>>
  /\ UNCHANGED <<parentVars, step_number, response, batch, todo, guard, streak,
                 managerVars>>

\* Mutant of Route: what is in the context is executed.
RouteFromContext(thought) ==
  /\ pc = "output"
  /\ response # "malformed"
  /\ malformed' = 0
  /\ IF batch.calls # <<>>
     THEN pc' = "execute" /\ todo' = batch.calls /\ UNCHANGED message_history
     ELSE /\ pc' = "input" /\ UNCHANGED todo
          /\ message_history' = Append(message_history, User({}))
  /\ UNCHANGED <<parentVars, step_number, messageVars, endVars, response, batch,
                 guard, streak, managerVars>>

\* handle_llm_output: tool calls go to execute_code, which reads them from
\* the context; without any they are asked for.  A response without a thought
\* draws a remark first.
Route(thought) ==
  /\ pc = "output"
  /\ response # "malformed"
  /\ malformed' = 0
  /\ LET remarked == IF thought THEN message_history
                     ELSE Append(message_history, User({}))
     IN \/ /\ response = "calls"
           /\ pc' = "execute" /\ todo' = batch.calls
           /\ message_history' = remarked
        \/ /\ response = "none"
           /\ pc' = "input" /\ UNCHANGED todo
           /\ message_history' = Append(remarked, User({}))
  /\ UNCHANGED <<parentVars, step_number, messageVars, endVars, response, batch,
                 guard, streak, managerVars>>

\* Mutant of Record: the first failure is not counted.
RecordLate(call, success) ==
  guard' = IF success THEN [call |-> None, failures |-> 0]
           ELSE [call |-> call,
                 failures |-> IF call = guard.call THEN guard.failures + 1 ELSE 0]

\* RepeatGuard.record; its notes to the model are left out.
Record(call, success) ==
  guard' = IF success THEN [call |-> None, failures |-> 0]
           ELSE [call |-> call,
                 failures |-> IF call = guard.call THEN guard.failures + 1 ELSE 1]

\* Mutant of ExecuteCall: complete() ends the task whoever waits.
ExecuteCallAtOnce(success) ==
  LET call == Head(todo)
      rest == Tail(todo)
  IN /\ pc = "execute"
     /\ Record(call, success)
     /\ UNCHANGED streak
     /\ todo' = rest
     /\ IF call = Complete /\ success THEN EndFast("completed", TRUE)
        ELSE /\ pc' = IF rest = <<>> THEN "result" ELSE "execute"
             /\ UNCHANGED endVars
     /\ UNCHANGED <<parentVars, step_number, messageVars, message_history,
                    malformed, response, batch, managerVars>>

\* execute_code: the next call of the batch.  A successful complete ends the
\* task unless messages are waiting, an identical failure repeated to the
\* limit ends it too, and the remaining calls are then not made.
ExecuteCall(success) ==
  LET call == Head(todo)
      finished == call = Complete /\ success
      rest == Tail(todo)
  IN /\ pc = "execute"
     /\ Record(call, success)
     /\ streak' = IF success THEN [call |-> None, length |-> 0]
                  ELSE [call |-> call, length |->
                          IF call = streak.call THEN streak.length + 1 ELSE 1]
     /\ todo' = rest
     /\ \/ /\ finished /\ pending # {}
           /\ pc' = "result" /\ UNCHANGED endVars
        \/ /\ finished /\ pending = {}
           /\ \E told \in BOOLEAN : EndFast("completed", told)
        \/ /\ ~finished /\ guard'.failures >= FailureLimit
           /\ EndFast("repeating", FALSE)
        \/ /\ ~finished /\ guard'.failures < FailureLimit
           /\ pc' = IF rest = <<>> THEN "result" ELSE "execute"
           /\ UNCHANGED endVars
     /\ UNCHANGED <<parentVars, step_number, messageVars, message_history,
                    malformed, response, batch, managerVars>>

\* handle_execution_result: the results and the waiting messages become one
\* user entry.
HandleExecutionResult ==
  /\ pc = "result"
  /\ pc' = "input"
  /\ message_history' = Append(message_history, User(pending))
  /\ ApplyMessages
  /\ UNCHANGED <<parentVars, step_number, endVars, fastVars, managerVars>>

\* FastAgent.finalize.
FastFinalize ==
  /\ pc = "fast_end"
  /\ ChildReturns("fast_result")
  /\ UNCHANGED <<step_number, messageVars, endVars, message_history, fastVars,
                 managerVars>>

\* handle_fast_agent_result.
HandleFastResult ==
  /\ pc = "fast_result"
  /\ pc' = "finalize"
  /\ UNCHANGED <<parentVars, step_number, messageVars, endVars, message_history,
                 fastVars, managerVars>>

-----------------------------------------------------------------------------
(* Manager and Executor.                                                   *)

\* run_manager at the step limit.
ManagerStepLimit ==
  /\ pc = "run_manager"
  /\ step_number >= MaxSteps
  /\ DropMessages
  /\ FinalizeEvent("max_steps", FALSE)
  /\ pc' = "finalize"
  /\ UNCHANGED <<parentVars, step_number, message_history, fastVars, managerVars>>

RunManager ==
  /\ pc = "run_manager"
  /\ step_number < MaxSteps
  /\ step_number' = step_number + 1
  /\ StartChild("manager", "prepare_manager")
  /\ UNCHANGED <<messageVars, endVars, message_history, fastVars, managerVars>>

\* prepare_context: messages that wait go into the history.
PrepareManager ==
  /\ pc = "prepare_manager" /\ mode = "manager"
  /\ pc' = "manager_llm"
  /\ retries' = 0
  /\ message_history' = Append(message_history, User(pending))
  /\ ApplyMessages
  /\ UNCHANGED <<parentVars, step_number, endVars, fastVars, failedInARow,
                 error_flag_plan>>

\* The stateless Manager keeps no history, and takes no messages.
PrepareStateless ==
  /\ pc = "prepare_manager" /\ mode = "stateless"
  /\ pc' = "manager_llm"
  /\ retries' = 0
  /\ UNCHANGED <<parentVars, step_number, messageVars, message_history, endVars,
                 fastVars, failedInARow, error_flag_plan>>

\* The device is lost while the Manager reads the screen.
ManagerDisconnected ==
  /\ pc = "prepare_manager"
  /\ ChildReturns("finalize")
  /\ FinalizeEvent("disconnected", FALSE)
  /\ UNCHANGED <<step_number, messageVars, message_history, fastVars, managerVars>>

\* Reading the screen fails otherwise, or the first call of the model does.
ManagerFails ==
  /\ pc = "prepare_manager" \/ (pc = "manager_llm" /\ retries = 0)
  /\ ChildRaises
  /\ UNCHANGED <<step_number, messageVars, endVars, message_history, fastVars,
                 managerVars>>

\* _validate_and_retry: an invalid response is asked for again.
ManagerRetry ==
  /\ pc = "manager_llm"
  /\ retries < ManagerRetries
  /\ retries' = retries + 1
  /\ UNCHANGED <<pc, parentVars, endVars, step_number, messageVars,
                 message_history, fastVars, failedInARow, error_flag_plan>>

\* _validate_and_retry: a repeated call fails, or the last one is invalid.
ManagerInvalid ==
  /\ pc = "manager_llm"
  /\ retries > 0
  /\ ChildReturns("finalize")
  /\ FinalizeEvent("invalid", FALSE)
  /\ UNCHANGED <<step_number, messageVars, message_history, fastVars, managerVars>>

\* get_response and process_response: a valid plan or a valid answer, and
\* what handle_manager_plan makes of it.
ManagerResponds(answered) ==
  /\ pc = "manager_llm" /\ mode = "manager"
  /\ message_history' = Append(message_history, Assistant)
  /\ ChildReturns(IF answered THEN "plan" ELSE "run_executor")
  /\ UNCHANGED <<step_number, messageVars, endVars, fastVars, managerVars>>

StatelessResponds(answered) ==
  /\ pc = "manager_llm" /\ mode = "stateless"
  /\ ChildReturns(IF answered THEN "plan" ELSE "run_executor")
  /\ UNCHANGED <<step_number, messageVars, endVars, message_history, fastVars, managerVars>>

\* handle_manager_plan for an answer: waiting messages send it back.
HandleAnswer ==
  /\ pc = "plan"
  /\ \/ /\ pending # {}
        /\ pc' = "run_manager" /\ UNCHANGED endVars
     \/ /\ pending = {}
        /\ pc' = "finalize"
        /\ \E told \in BOOLEAN : FinalizeEvent("answered", told)
  /\ UNCHANGED <<parentVars, step_number, messageVars, message_history, fastVars,
                 managerVars>>

\* run_executor up to the Executor's call of the model.
RunExecutor ==
  /\ pc = "run_executor"
  /\ StartChild("executor", "executor_llm")
  /\ UNCHANGED <<step_number, messageVars, endVars, message_history, fastVars,
                 managerVars>>

\* The Executor's model answers; an empty answer becomes an invalid action,
\* any other error fails the run.
ExecutorResponds ==
  /\ pc = "executor_llm"
  /\ \/ pc' = "executor_act" /\ UNCHANGED parentVars
     \/ ChildRaises
  /\ UNCHANGED <<step_number, messageVars, endVars, message_history, fastVars,
                 managerVars>>

\* execute: the action and its outcome, appended by run_executor.
ExecutorActs(success) ==
  /\ pc = "executor_act"
  /\ ChildReturns("executor_result")
  /\ failedInARow' = IF success THEN 0
                     ELSE IF failedInARow < ErrThresh THEN failedInARow + 1
                     ELSE failedInARow
  /\ UNCHANGED <<step_number, messageVars, endVars, message_history, fastVars,
                 error_flag_plan, retries>>

\* handle_executor_result: error escalation.
HandleExecutorResult ==
  /\ pc = "executor_result"
  /\ error_flag_plan' = (failedInARow >= ErrThresh)
  /\ pc' = "run_manager"
  /\ UNCHANGED <<parentVars, step_number, messageVars, endVars, message_history,
                 fastVars, failedInARow, retries>>

-----------------------------------------------------------------------------
\* finalize, as far as the run is concerned (module Epilog has its stages).
Finalize ==
  /\ pc = "finalize"
  /\ workflow_completed' = TRUE
  /\ run' = "done" /\ pc' = "over"
  /\ UNCHANGED <<mode, child, childAsked, step_number, messageVars, outcome, seen,
                 message_history, fastVars, managerVars>>

FastNext ==
  \/ ExecuteTask \/ PrepareChat \/ StepLimit \/ Observe \/ RespondFails
  \/ \E found \in Responses, calls \in Batches \cup {<<>>} : Respond(found, calls)
  \/ Malformed \/ (\E thought \in BOOLEAN : Route(thought))
  \/ (\E success \in BOOLEAN : ExecuteCall(success))
  \/ HandleExecutionResult \/ FastFinalize \/ HandleFastResult

ReasoningNext ==
  \/ ManagerStepLimit \/ RunManager \/ PrepareManager \/ PrepareStateless
  \/ ManagerDisconnected
  \/ ManagerFails \/ ManagerRetry \/ ManagerInvalid
  \/ (\E answered \in BOOLEAN : ManagerResponds(answered) \/ StatelessResponds(answered))
  \/ HandleAnswer \/ RunExecutor \/ ExecutorResponds
  \/ (\E success \in BOOLEAN : ExecutorActs(success))
  \/ HandleExecutorResult

\* The event loop runs the steps of the run and of its child.
AgentNext == ExternalAgent \/ ConnectDevice \/ WireAgents \/ FastNext \/ ReasoningNext
             \/ ChildStops \/ Finalize

\* Everything has ended.
Over == pc = "over" /\ UNCHANGED vars

Next == AgentNext \/ Cancel \/ Over \/ \E m \in Messages : SendUserMessage(m)

Spec == Init /\ [][Next]_vars /\ WF_vars(AgentNext)

-----------------------------------------------------------------------------
TypeOK ==
  /\ mode \in Modes
  /\ pc \in ChildSteps \cup ParentSteps \cup {"over"}
  /\ run \in {"live", "cancelled", "raised", "done"}
  /\ child \in {"none", "fast", "manager", "executor"} /\ childAsked \in BOOLEAN
  /\ step_number \in 0..MaxSteps
  /\ accepted \subseteq Messages /\ pending \subseteq accepted
  /\ applied \subseteq accepted /\ dropped \subseteq accepted
  /\ seen \subseteq accepted
  /\ workflow_completed \in BOOLEAN /\ error_flag_plan \in BOOLEAN
  /\ message_history \in Seq(Entry)
  /\ malformed \in 0..MalformedLimit
  /\ response \in Responses
  /\ batch \in [step : 0..MaxSteps, calls : Seq(Calls \cup {Complete})]
  /\ todo \in Seq(Calls \cup {Complete})
  /\ guard \in [call : Calls \cup {Complete, None}, failures : 0..FailureLimit]
  /\ failedInARow \in 0..ErrThresh
  /\ retries \in 0..ManagerRetries
  /\ outcome \in [kind : Kinds \cup {None}, success : BOOLEAN]
  /\ streak \in [call : Calls \cup {Complete, None}, length : 0..FailureLimit]

\* A run that ends because the agent says so has shown its model every message
\* the caller had sent by then: complete() and the Manager's answer are held
\* back while a message waits (execute_code, handle_manager_plan).
FinishHasSeenMessages ==
  outcome.kind \in {"completed", "answered"} => seen \subseteq applied

\* A correction of the caller stays before the model: every message reported
\* as applied is in the prompt of each later step, in the steps kept verbatim
\* or in the recap of the trimmed ones ("User corrections sent mid-run must
\* survive trimming verbatim", history.py).
CorrectionsSurvive == pc = "llm" => applied \subseteq WindowHistory(message_history)

\* The agent never makes the same failing call more than FailureLimit times
\* in a row, however the calls are spread over batches, steps and remarks.
NoRetryLoop ==
  /\ streak.length <= FailureLimit
  /\ streak.length = FailureLimit => pc \in {"fast_end", "fast_result", "finalize", "over"}

\* Calls are executed only in the step whose response asked for them: the
\* batch left in the workflow context is never run again after a response
\* that had none.
ExecutesWhatWasAsked == pc = "execute" => batch.step = step_number /\ todo # <<>>

\* The step budget, the retry limits and the loops between them always let
\* the run come to its end, whatever the model answers.
RunEnds == <>(pc = "over" /\ child = "none")

=============================================================================
