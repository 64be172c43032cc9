---------------------------- MODULE AgentRunProofs ----------------------------
(***************************************************************************)
(* Proofs about AgentRun, for any limits, batches and messages, and about  *)
(* Epilog, for any times, deadlines, queue and trajectory.                 *)
(*                                                                         *)
(* A run goes through Early, then either the Chat of a FastAgent or the    *)
(* loop of Manager and Executor, and then Ended, and never back.  The      *)
(* invariant says of each part what the messages (MessagesKept), the       *)
(* history of the chat (ChatKept), the batch being executed (BatchKept)    *)
(* and the count of failed calls (StreakKept) are like there.              *)
(*                                                                         *)
(* Of the epilog, TimeKept bounds the clock by the limit of where finalize *)
(* is and the time lost so far; EventsKept and ScreenshotsKept follow what *)
(* was recorded through the queue and the worker to the disk.              *)
(***************************************************************************)
EXTENDS AgentRun, Epilog, SequenceTheorems, FiniteSetTheorems, WellFoundedInduction, TLAPS

Early == {"start", "wire", "execute_task", "prepare_chat"}
Chat == {"input", "llm", "output", "execute", "result"}
Ended == {"fast_end", "fast_result", "finalize", "over"}
Finished == {"completed", "answered"}
Tool == Calls \cup {Complete}

\* A response that is malformed once too often ends the chat.
Counted == pc \in Chat => malformed < MalformedLimit

\* A message waits, has been applied or, at the very end, dropped.
MessagesKept ==
  /\ accepted \subseteq pending \cup applied \cup dropped
  /\ pc \notin Ended => dropped = {}
  /\ pc \in Early => applied = {}
  /\ outcome.kind \in Finished => seen \subseteq applied

\* The goal comes first, then the model's first response, and what was applied
\* is in a user entry.
Said(history) == UNION {history[i].messages : i \in DOMAIN history}
ChatOK(history) ==
  /\ Len(history) >= 1
  /\ Len(history) >= 2 => history[2].role = "assistant"
  /\ \A i \in 1..Len(history) : history[i].role = "assistant" => history[i].messages = {}
ChatKept ==
  /\ pc \in Chat => ChatOK(message_history) /\ applied \subseteq Said(message_history)
  /\ pc \in {"output", "execute", "result"} => Len(message_history) >= 2

BatchKept ==
  /\ pc = "output" /\ response = "calls" => batch.step = step_number /\ batch.calls # <<>>
  /\ pc = "execute" => batch.step = step_number /\ todo # <<>>

StreakKept ==
  /\ streak.call = guard.call /\ streak.length = guard.failures
  /\ pc \in Early => guard.call = None /\ guard.failures = 0
  /\ guard.failures = FailureLimit => pc \in Ended

IInv == TypeOK /\ Counted /\ MessagesKept /\ ChatKept /\ BatchKept /\ StreakKept

-----------------------------------------------------------------------------
(* The window of the history.                                              *)

LEMMA LeastOf ==
  ASSUME NEW S \in SUBSET Nat, S # {}
  PROVE  \E x \in S : \A y \in S : x <= y
<1>1. PICK x \in S : \A y \in S : ~ (<<y, x>> \in OpToRel(<, Nat))
  BY NatLessThanWellFounded, WFMin, Zenon
<1>2. \A y \in S : x <= y
  <2> TAKE y \in S
  <2>1. ~ (y < x) /\ x \in Nat /\ y \in Nat
    BY <1>1 DEF OpToRel
  <2> QED  BY <2>1
<1> QED  BY <1>2

\* Of the elements of a set of numbers, one has just n - 1 after it.
LEMMA NthFromEnd ==
  ASSUME NEW S \in SUBSET Nat, IsFiniteSet(S), NEW n \in Nat \ {0}, Cardinality(S) >= n,
         NEW b \in Nat, \A s \in S : s <= b
  PROVE  \E s \in S : Cardinality({t \in S : t >= s}) = n
<1> DEFINE After(s) == {t \in S : t >= s}
           D == {b - s : s \in {x \in S : Cardinality(After(x)) >= n}}
<1>1. \A s \in S : IsFiniteSet(After(s)) /\ Cardinality(After(s)) \in Nat
  BY FS_Subset, FS_CardinalityType
<1>2. PICK m \in S : \A y \in S : m <= y
  <2>1. S # {}
    BY FS_EmptySet
  <2> QED  BY <2>1, LeastOf
<1>3. Cardinality(After(m)) >= n
  <2>1. After(m) = S
    BY <1>2
  <2> QED  BY <2>1
<1>4. D \in SUBSET Nat /\ D # {}
  <2>1. \A s \in S : b - s \in Nat
    OBVIOUS
  <2>2. b - m \in D
    BY <1>3
  <2> QED  BY <2>1, <2>2
<1>5. PICK d \in D : \A e \in D : d <= e
  <2> HIDE DEF D
  <2> QED  BY <1>4, LeastOf
<1>6. PICK s \in S : d = b - s /\ Cardinality(After(s)) >= n
  BY <1>5
<1>7. ASSUME NEW t \in S, Cardinality(After(t)) >= n  PROVE t <= s
  <2>1. b - t \in D
    BY <1>7
  <2>2. b - s <= b - t
    BY <1>5, <1>6, <2>1
  <2>3. s \in Nat /\ t \in Nat
    OBVIOUS
  <2> QED  BY <2>2, <2>3
<1>8. CASE Cardinality(After(s)) > n
  <2> DEFINE R == After(s) \ {s}
  <2>1. s \in After(s) /\ IsFiniteSet(After(s)) /\ Cardinality(After(s)) \in Nat
    <3>1. s <= s
      OBVIOUS
    <3> QED  BY <1>1, <3>1
  <2>2. IsFiniteSet(R) /\ Cardinality(R) = Cardinality(After(s)) - 1
    <3> HIDE DEF After
    <3> QED  BY <2>1, FS_RemoveElement
  <2>3. Cardinality(R) >= n
    <3> HIDE DEF R, After
    <3> QED  BY <1>8, <2>1, <2>2
  <2>4. R \in SUBSET Nat /\ R # {}
    <3>1. R # {}
      <4> HIDE DEF R
      <4> QED  BY <2>3, FS_EmptySet
    <3> QED  BY <3>1
  <2>5. PICK r \in R : \A y \in R : r <= y
    <3> HIDE DEF R
    <3> QED  BY <2>4, LeastOf
  <2>6. After(r) = R /\ r \in S /\ ~ (r <= s)
    <3>1. \A y \in S : y \in R <=> y > s
      OBVIOUS
    <3>2. r \in S /\ r > s
      BY <2>5, <3>1
    <3>3. \A y \in S : y > s <=> y >= r
      <4> TAKE y \in S
      <4>1. y > s => y >= r
        BY <2>5, <3>1
      <4>2. y \in Nat /\ r \in Nat /\ s \in Nat
        BY <3>2
      <4> QED  BY <3>2, <4>1, <4>2
    <3> QED  BY <3>1, <3>2, <3>3
  <2> QED  BY <1>7, <2>3, <2>6
<1>9. CASE Cardinality(After(s)) = n
  BY <1>9
<1> QED
  <2>1. Cardinality(After(s)) \in Nat
    BY <1>1
  <2> HIDE DEF After
  <2> QED  BY <1>6, <1>8, <1>9, <2>1 DEF After

\* The entries from one place to another.
LEMMA SubSeqIs ==
  ASSUME NEW h, Len(h) \in Nat, NEW m \in Nat \ {0}, NEW n \in Nat, n <= Len(h)
  PROVE  /\ DOMAIN SubSeq(h, m, n) = 1..n - m + 1
         /\ \A i \in m..n : i - m + 1 \in 1..n - m + 1 /\ SubSeq(h, m, n)[i - m + 1] = h[i]
OBVIOUS

\* Trimming loses no message: what is not kept verbatim is in the recap, since
\* what follows the goal begins with a response.
LEMMA WindowKeepsAll ==
  ASSUME NEW h \in Seq(Entry), ChatOK(h)
  PROVE  Said(h) \subseteq WindowHistory(h)
<1> DEFINE starts == StepStarts(h)
           first == CHOOSE s \in starts : Cardinality({t \in starts : t >= s}) = KeepSteps
           verbatim(entries) == UNION {entries[i].messages : i \in DOMAIN entries}
<1>t. /\ KeepSteps \in Nat /\ Len(h) \in Nat /\ DOMAIN h = 1..Len(h)
      /\ \A i \in 1..Len(h) : h[i].role \in {"user", "assistant"}
  <2>1. \A i \in 1..Len(h) : h[i] \in Entry
    OBVIOUS
  <2> QED  BY <2>1, AgentAssumption DEF Entry
<1>1. CASE KeepSteps = 0 \/ Cardinality(starts) <= KeepSteps
  BY <1>1 DEF WindowHistory, Said
<1>2. CASE ~ (KeepSteps = 0 \/ Cardinality(starts) <= KeepSteps)
  <2>1. first \in starts
    <3>1. starts \in SUBSET Nat /\ \A s \in starts : s <= Len(h)
      BY <1>t DEF StepStarts
    <3>2. IsFiniteSet(starts) /\ Cardinality(starts) \in Nat
      <4> HIDE DEF starts
      <4> QED  BY <1>t, <3>1, FS_BoundedSetOfNaturals, FS_CardinalityType
    <3>3. KeepSteps \in Nat \ {0} /\ Cardinality(starts) >= KeepSteps
      BY <1>t, <1>2, <3>2
    <3>4. \E s \in starts : Cardinality({t \in starts : t >= s}) = KeepSteps
      <4> HIDE DEF starts
      <4> QED  BY <1>t, <3>1, <3>2, <3>3, NthFromEnd
    <3> HIDE DEF starts
    <3> QED  BY <3>4
  <2>2. first \in 1..Len(h) /\ first \in Nat \ {0}
    <3> HIDE DEF first
    <3>1. first \in 1..Len(h)
      BY <1>t, <2>1 DEF StepStarts
    <3> QED  BY <1>t, <3>1
  <2>3. WindowHistory(h) = h[1].messages \cup Recap(SubSeq(h, 2, first - 1))
                             \cup verbatim(SubSeq(h, first, Len(h)))
    BY <1>2 DEF WindowHistory
  <2> HIDE DEF first, starts
  <2> SUFFICES ASSUME NEW i \in 1..Len(h), NEW m \in h[i].messages
               PROVE  \/ m \in h[1].messages
                      \/ m \in Recap(SubSeq(h, 2, first - 1))
                      \/ m \in verbatim(SubSeq(h, first, Len(h)))
    BY <1>t, <2>3 DEF Said
  <2>4. CASE i = 1
    BY <2>4
  <2>5. CASE i >= first
    <3> DEFINE w == SubSeq(h, first, Len(h))
               k == i - first + 1
    <3>1. k \in DOMAIN w /\ w[k] = h[i]
      <4>1. i \in first..Len(h) /\ Len(h) <= Len(h)
        BY <1>t, <2>2, <2>5
      <4> QED  BY <1>t, <2>2, <4>1, SubSeqIs
    <3> HIDE DEF w, k
    <3> QED  BY <3>1 DEF w
  <2>6. CASE 1 < i /\ i < first
    <3> DEFINE w == SubSeq(h, 2, first - 1)
               k == i - 2 + 1
    <3>1. k \in DOMAIN w /\ w[k] = h[i] /\ 1 \in DOMAIN w /\ w[1] = h[2] /\ 1 \in 1..k /\ Len(h) >= 2
      <4>1. /\ i \in 2..first - 1 /\ 2 \in 2..first - 1 /\ first - 1 \in Nat /\ first - 1 <= Len(h)
            /\ 2 - 2 + 1 = 1 /\ 1 \in 1..k /\ Len(h) >= 2
        BY <1>t, <2>2, <2>6
      <4> QED  BY <1>t, <2>2, <4>1, SubSeqIs
    <3>2. w[k].role = "user" /\ w[1].role = "assistant"
      <4>1. h[i].role # "assistant"
        BY DEF ChatOK
      <4> HIDE DEF w, k
      <4> QED  BY <1>t, <3>1, <4>1 DEF ChatOK
    <3> HIDE DEF w, k
    <3> QED  BY <3>1, <3>2 DEF Recap, w
  <2> QED  BY <2>2, <2>4, <2>5, <2>6
<1> QED  BY <1>1, <1>2

-----------------------------------------------------------------------------
(* Who writes what.                                                        *)

\* A step that tells the chat, its messages and its calls nothing.
Quiet ==
  /\ UNCHANGED <<messageVars, message_history, fastVars>>
  /\ pc' \in Chat => pc' = pc /\ step_number' = step_number
  /\ pc' \in Early => pc \in Early
  /\ pc \in Ended => pc' \in Ended
  /\ UNCHANGED <<outcome, seen>> \/ outcome'.kind \notin Finished

Loud == \/ \E m \in Messages : SendUserMessage(m)
        \/ PrepareChat \/ StepLimit \/ Observe
        \/ \E found \in Responses, calls \in Batches \cup {<<>>} : Respond(found, calls)
        \/ Malformed \/ (\E thought \in BOOLEAN : Route(thought))
        \/ (\E success \in BOOLEAN : ExecuteCall(success))
        \/ HandleExecutionResult \/ ManagerStepLimit \/ PrepareManager
        \/ (\E answered \in BOOLEAN : ManagerResponds(answered))
        \/ HandleAnswer

LEMMA Quietness == [Next]_vars => Quiet \/ Loud
<1> SUFFICES ASSUME [Next]_vars, ~Loud  PROVE Quiet
  OBVIOUS
<1> USE DEF parentVars, messageVars, fastVars, managerVars, endVars
<1>p. /\ "start" \notin Chat \cup Ended /\ "wire" \notin Chat \cup Ended
      /\ "execute_task" \notin Chat \cup Ended /\ "prepare_chat" \notin Chat \cup Ended
      /\ "over" \notin Chat \cup Early
  BY DEF Early, Chat, Ended
<1>f. \A kind, success : FinalizeEvent(kind, success) \/ FailFast(kind) => outcome'.kind = kind
  BY DEF FinalizeEvent, FailFast
<1>1. CASE ExternalAgent \/ ConnectDevice \/ WireAgents \/ ExecuteTask
  BY <1>1, <1>f DEF Quiet, Early, Chat, Ended, Finished, ExternalAgent, ConnectDevice, WireAgents,
                    ExecuteTask, Raise, Abandon, StartChild
<1>2. CASE RespondFails \/ FastFinalize \/ HandleFastResult
  BY <1>2, <1>f DEF Quiet, Early, Chat, Ended, Finished, RespondFails, FastFinalize, HandleFastResult,
                    FailFast, ChildReturns
<1>3. CASE RunManager \/ PrepareStateless \/ ManagerRetry
  BY <1>3 DEF Quiet, Early, Chat, Ended, RunManager, PrepareStateless, ManagerRetry, StartChild
<1>4. CASE ManagerDisconnected \/ ManagerInvalid
  BY <1>4, <1>f DEF Quiet, Early, Chat, Ended, Finished, ManagerDisconnected, ManagerInvalid, ChildReturns
<1>5. CASE ManagerFails \/ ExecutorResponds \/ RunExecutor
  BY <1>5 DEF Quiet, Early, Chat, Ended, ManagerFails, ExecutorResponds, RunExecutor, ChildRaises, StartChild
<1>6. CASE \E answered \in BOOLEAN : StatelessResponds(answered)
  BY <1>6 DEF Quiet, Early, Chat, Ended, StatelessResponds, ChildReturns
<1>7. CASE (\E success \in BOOLEAN : ExecutorActs(success)) \/ HandleExecutorResult
  BY <1>7 DEF Quiet, Early, Chat, Ended, ExecutorActs, HandleExecutorResult, ChildReturns
<1>8. CASE ChildStops \/ Cancel \/ Finalize
  BY <1>8 DEF Quiet, Early, Chat, Ended, ChildStops, Cancel, Finalize, Abandon
<1>9. CASE Over \/ UNCHANGED vars
  BY <1>9 DEF Quiet, Over, vars
<1> QED  BY <1>1, <1>2, <1>3, <1>4, <1>5, <1>6, <1>7, <1>8, <1>9
         DEF Loud, Next, AgentNext, FastNext, ReasoningNext

-----------------------------------------------------------------------------
(* Types.                                                                  *)

ControlTypes ==
  /\ mode \in Modes
  /\ pc \in ChildSteps \cup ParentSteps \cup {"over"}
  /\ run \in {"live", "cancelled", "raised", "done"}
  /\ child \in {"none", "fast", "manager", "executor"} /\ childAsked \in BOOLEAN
  /\ step_number \in 0..MaxSteps
  /\ workflow_completed \in BOOLEAN /\ error_flag_plan \in BOOLEAN
  /\ failedInARow \in 0..ErrThresh
  /\ retries \in 0..ManagerRetries
MessageTypes ==
  /\ accepted \subseteq Messages /\ pending \subseteq accepted
  /\ applied \subseteq accepted /\ dropped \subseteq accepted
  /\ seen \subseteq accepted
OutcomeTypes == outcome \in [kind : Kinds \cup {None}, success : BOOLEAN]
ChatTypes ==
  /\ message_history \in Seq(Entry) /\ malformed \in 0..MalformedLimit /\ response \in Responses
CallTypes ==
  /\ batch \in [step : 0..MaxSteps, calls : Seq(Tool)] /\ todo \in Seq(Tool)
  /\ guard \in [call : Tool \cup {None}, failures : 0..FailureLimit]
  /\ streak \in [call : Tool \cup {None}, length : 0..FailureLimit]

LEMMA TypeParts == TypeOK <=> ControlTypes /\ MessageTypes /\ OutcomeTypes /\ ChatTypes /\ CallTypes
BY DEF TypeOK, ControlTypes, MessageTypes, OutcomeTypes, ChatTypes, CallTypes, Tool

LEMMA Limits ==
  /\ MaxSteps \in Nat \ {0} /\ MalformedLimit \in Nat \ {0} /\ FailureLimit \in Nat \ {0}
  /\ ErrThresh \in Nat \ {0} /\ ManagerRetries \in Nat \ {0} /\ MaxBatch \in Nat
BY AgentAssumption

LEMMA ControlTypesKept ==
  ASSUME ControlTypes, [Next]_vars
  PROVE  ControlTypes'
<1> USE DEF ControlTypes, parentVars, messageVars, fastVars, managerVars, endVars,
            ChildSteps, FastSteps, ManagerSteps, ExecutorSteps, ParentSteps
<1>1. CASE \E m \in Messages : SendUserMessage(m)
  BY <1>1 DEF SendUserMessage
<1>2. CASE ExternalAgent
  BY <1>2 DEF ExternalAgent, FinalizeEvent, Raise, Abandon
<1>18. CASE ConnectDevice \/ WireAgents
  BY <1>18 DEF ConnectDevice, WireAgents, Raise, Abandon
<1>3. CASE ExecuteTask \/ PrepareChat \/ StepLimit
  BY <1>3 DEF ExecuteTask, PrepareChat, StepLimit, StartChild, EndFast
<1>4. CASE Observe
  BY <1>4, Limits DEF Observe, FailFast, ChildReturns
<1>5. CASE RespondFails \/ \E found \in Responses, calls \in Batches \cup {<<>>} : Respond(found, calls)
  BY <1>5 DEF RespondFails, Respond, FailFast, ChildReturns
<1>6. CASE Malformed \/ (\E thought \in BOOLEAN : Route(thought))
  BY <1>6 DEF Malformed, Route, EndFast
<1>7. CASE \E success \in BOOLEAN : ExecuteCall(success)
  BY <1>7 DEF ExecuteCall, EndFast
<1>8. CASE HandleExecutionResult \/ FastFinalize \/ HandleFastResult
  BY <1>8 DEF HandleExecutionResult, FastFinalize, HandleFastResult, ChildReturns
<1>9. CASE ManagerStepLimit \/ RunManager
  BY <1>9, Limits DEF ManagerStepLimit, RunManager, FinalizeEvent, StartChild
<1>10. CASE PrepareManager \/ PrepareStateless \/ ManagerDisconnected \/ ManagerFails
  BY <1>10, Limits DEF PrepareManager, PrepareStateless, ManagerDisconnected, ManagerFails,
                       ChildReturns, ChildRaises, FinalizeEvent
<1>11. CASE ManagerRetry \/ ManagerInvalid
  BY <1>11, Limits DEF ManagerRetry, ManagerInvalid, ChildReturns, FinalizeEvent
<1>12. CASE \E answered \in BOOLEAN : ManagerResponds(answered) \/ StatelessResponds(answered)
  BY <1>12 DEF ManagerResponds, StatelessResponds, ChildReturns
<1>13. CASE HandleAnswer \/ RunExecutor \/ ExecutorResponds
  BY <1>13 DEF HandleAnswer, RunExecutor, ExecutorResponds, FinalizeEvent, StartChild, ChildRaises
<1>14. CASE \E success \in BOOLEAN : ExecutorActs(success)
  BY <1>14, Limits DEF ExecutorActs, ChildReturns
<1>15. CASE HandleExecutorResult
  BY <1>15 DEF HandleExecutorResult
<1>16. CASE ChildStops \/ Finalize \/ Cancel
  BY <1>16 DEF ChildStops, Finalize, Cancel, Abandon
<1>17. CASE Over \/ UNCHANGED vars
  BY <1>17 DEF Over, vars
<1> QED  BY <1>1, <1>2, <1>3, <1>4, <1>5, <1>6, <1>7, <1>8, <1>9, <1>10, <1>11, <1>12, <1>13, <1>14,
            <1>15, <1>16, <1>17, <1>18 DEF Next, AgentNext, FastNext, ReasoningNext

\* What the agent decides, and what it had been told by then.
Decides(kind, success) ==
  outcome' = [kind |-> kind, success |-> success] /\ seen' = accepted

LEMMA Deciding ==
  ASSUME OutcomeTypes, [Next]_vars
  PROVE  \/ UNCHANGED <<outcome, seen>>
         \/ UNCHANGED accepted /\ \E kind \in Kinds, success \in BOOLEAN : Decides(kind, success)
<1> USE DEF parentVars, messageVars, endVars, FinalizeEvent, FailFast, EndFast, Decides, Kinds
<1>1. CASE ExternalAgent \/ StepLimit \/ Observe \/ RespondFails
  BY <1>1 DEF ExternalAgent, StepLimit, Observe, RespondFails, DropMessages
<1>2. CASE Malformed
  BY <1>2 DEF Malformed, DropMessages
<1>3. CASE \E success \in BOOLEAN : ExecuteCall(success)
  BY <1>3 DEF ExecuteCall
<1>4. CASE ManagerStepLimit \/ ManagerDisconnected \/ ManagerInvalid \/ HandleAnswer
  BY <1>4 DEF ManagerStepLimit, ManagerDisconnected, ManagerInvalid, HandleAnswer, DropMessages
<1>5. CASE ConnectDevice \/ WireAgents \/ ExecuteTask \/ PrepareChat \/ HandleExecutionResult
             \/ FastFinalize \/ HandleFastResult \/ RunManager \/ PrepareManager \/ PrepareStateless
             \/ ManagerFails \/ ManagerRetry \/ RunExecutor \/ ExecutorResponds
             \/ HandleExecutorResult \/ ChildStops \/ Finalize \/ Cancel \/ Over \/ UNCHANGED vars
  BY <1>5 DEF ConnectDevice, WireAgents, ExecuteTask, PrepareChat, HandleExecutionResult,
     FastFinalize, HandleFastResult, RunManager, PrepareManager, PrepareStateless, ManagerFails,
     ManagerRetry, RunExecutor, ExecutorResponds, HandleExecutorResult, ChildStops, Finalize, Cancel,
     Over, vars
<1>6. CASE \/ \E m \in Messages : SendUserMessage(m)
           \/ \E found \in Responses, calls \in Batches \cup {<<>>} : Respond(found, calls)
           \/ \E thought \in BOOLEAN : Route(thought)
           \/ \E answered \in BOOLEAN : ManagerResponds(answered) \/ StatelessResponds(answered)
           \/ \E success \in BOOLEAN : ExecutorActs(success)
  BY <1>6 DEF SendUserMessage, Respond, Route, ManagerResponds, StatelessResponds, ExecutorActs
<1> QED  BY <1>1, <1>2, <1>3, <1>4, <1>5, <1>6 DEF Next, AgentNext, FastNext, ReasoningNext

LEMMA OutcomeTypesKept ==
  ASSUME OutcomeTypes, [Next]_vars
  PROVE  OutcomeTypes'
BY Deciding DEF OutcomeTypes, Decides

LEMMA MessageTypesKept ==
  ASSUME MessageTypes, OutcomeTypes, [Next]_vars
  PROVE  MessageTypes'
<1> USE DEF MessageTypes, messageVars
<1>s. seen' \subseteq accepted \cup seen
  BY Deciding DEF Decides
<1>1. CASE Quiet
  BY <1>s, <1>1 DEF Quiet
<1>2. CASE \E m \in Messages : SendUserMessage(m)
  BY <1>s, <1>2 DEF SendUserMessage
<1>3. CASE StepLimit \/ ManagerStepLimit \/ Malformed
  BY <1>s, <1>3 DEF StepLimit, ManagerStepLimit, Malformed, DropMessages
<1>4. CASE HandleExecutionResult \/ PrepareManager
  BY <1>s, <1>4 DEF HandleExecutionResult, PrepareManager, ApplyMessages
<1>5. CASE PrepareChat \/ Observe \/ HandleAnswer
  BY <1>s, <1>5 DEF PrepareChat, Observe, HandleAnswer
<1>6. CASE \/ \E found \in Responses, calls \in Batches \cup {<<>>} : Respond(found, calls)
           \/ \E thought \in BOOLEAN : Route(thought)
           \/ \E success \in BOOLEAN : ExecuteCall(success)
           \/ \E answered \in BOOLEAN : ManagerResponds(answered)
  BY <1>s, <1>6 DEF Respond, Route, ExecuteCall, ManagerResponds
<1> QED  BY <1>1, <1>2, <1>3, <1>4, <1>5, <1>6, Quietness DEF Loud

LEMMA Entries ==
  /\ Assistant \in Entry /\ Assistant.role = "assistant" /\ Assistant.messages = {}
  /\ \A S \in SUBSET Messages : User(S) \in Entry /\ User(S).role = "user" /\ User(S).messages = S
BY DEF Assistant, User, Entry

\* What a step adds to the history.
Adds(history, entry) == message_history' = Append(history, entry)

LEMMA HistoryGrows ==
  ASSUME MessageTypes, [Next]_vars
  PROVE  \/ message_history' = message_history
         \/ message_history' = <<User({})>>
         \/ \E e \in Entry : Adds(message_history, e)
         \/ \E e1, e2 \in Entry : message_history' = Append(Append(message_history, e1), e2)
<1> USE DEF messageVars, Adds
<1>e. User({}) \in Entry /\ Assistant \in Entry /\ User(pending) \in Entry
  BY Entries DEF MessageTypes
<1>1. CASE Quiet \/ \E m \in Messages : SendUserMessage(m)
  BY <1>1 DEF Quiet, SendUserMessage
<1>2. CASE PrepareChat \/ StepLimit \/ Observe \/ ManagerStepLimit \/ HandleAnswer
  BY <1>2 DEF PrepareChat, StepLimit, Observe, ManagerStepLimit, HandleAnswer
<1>3. CASE \E found \in Responses, calls \in Batches \cup {<<>>} : Respond(found, calls)
  BY <1>e, <1>3 DEF Respond
<1>4. CASE Malformed
  BY <1>e, <1>4 DEF Malformed
<1>5. CASE \E thought \in BOOLEAN : Route(thought)
  BY <1>e, <1>5 DEF Route
<1>6. CASE HandleExecutionResult \/ PrepareManager
  BY <1>e, <1>6 DEF HandleExecutionResult, PrepareManager
<1>7. CASE \/ \E success \in BOOLEAN : ExecuteCall(success)
           \/ \E answered \in BOOLEAN : ManagerResponds(answered)
  BY <1>e, <1>7 DEF ExecuteCall, ManagerResponds
<1> QED  BY <1>1, <1>2, <1>3, <1>4, <1>5, <1>6, <1>7, Quietness DEF Loud

LEMMA ChatTypesKept ==
  ASSUME MessageTypes, ChatTypes, Counted, [Next]_vars
  PROVE  ChatTypes' /\ Counted'
<1>1. message_history' \in Seq(Entry)
  <2>1. User({}) \in Entry
    BY Entries
  <2>2. <<User({})>> \in Seq(Entry)
    BY <2>1
  <2>3. \A h \in Seq(Entry), e \in Entry : Append(h, e) \in Seq(Entry)
    BY AppendProperties
  <2>4. message_history \in Seq(Entry)
    BY DEF ChatTypes
  <2>5. CASE \E e \in Entry : Adds(message_history, e)
    BY <2>3, <2>4, <2>5 DEF Adds
  <2>6. CASE \E e1, e2 \in Entry : message_history' = Append(Append(message_history, e1), e2)
    <3>1. PICK e1, e2 \in Entry : message_history' = Append(Append(message_history, e1), e2)
      BY <2>6
    <3>2. Append(message_history, e1) \in Seq(Entry)
      BY <2>3, <2>4
    <3> QED  BY <2>3, <3>1, <3>2
  <2> QED  BY <2>2, <2>4, <2>5, <2>6, HistoryGrows
<1>2. malformed' \in 0..MalformedLimit /\ response' \in Responses /\ Counted'
  <2> USE DEF ChatTypes, Counted, fastVars, Chat
  <2>1. CASE Quiet
    BY <2>1 DEF Quiet
  <2>2. CASE \/ (\E m \in Messages : SendUserMessage(m)) \/ StepLimit \/ ManagerStepLimit
             \/ PrepareManager \/ HandleAnswer \/ \E answered \in BOOLEAN : ManagerResponds(answered)
    BY <2>2 DEF SendUserMessage, StepLimit, ManagerStepLimit, PrepareManager, HandleAnswer,
                ManagerResponds, EndFast, FinalizeEvent, ChildReturns
  <2>3. CASE PrepareChat
    BY <2>3, Limits DEF PrepareChat
  <2>4. CASE Observe \/ HandleExecutionResult
    BY <2>4 DEF Observe, HandleExecutionResult, FailFast, ChildReturns
  <2>5. CASE \E found \in Responses, calls \in Batches \cup {<<>>} : Respond(found, calls)
    BY <2>5 DEF Respond
  <2>6. CASE Malformed
    BY <2>6, Limits DEF Malformed, EndFast
  <2>7. CASE \E thought \in BOOLEAN : Route(thought)
    BY <2>7, Limits DEF Route
  <2>8. CASE \E success \in BOOLEAN : ExecuteCall(success)
    BY <2>8 DEF ExecuteCall, EndFast
  <2> QED  BY <2>1, <2>2, <2>3, <2>4, <2>5, <2>6, <2>7, <2>8, Quietness DEF Loud
<1> QED  BY <1>1, <1>2 DEF ChatTypes

\* The calls that are left to make.
LEMMA CallsLeft ==
  ASSUME CallTypes, todo # <<>>
  PROVE  Head(todo) \in Tool /\ Tail(todo) \in Seq(Tool)
BY HeadTailProperties DEF CallTypes

\* A call that is made: the guard and the history count alike.
LEMMA CallCounted ==
  ASSUME CallTypes, StreakKept, BatchKept, pc = "execute", NEW success \in BOOLEAN, ExecuteCall(success)
  PROVE  /\ guard' \in [call : Tool \cup {None}, failures : 0..FailureLimit]
         /\ streak' \in [call : Tool \cup {None}, length : 0..FailureLimit]
         /\ streak'.call = guard'.call /\ streak'.length = guard'.failures
         /\ guard'.failures = FailureLimit => pc' \in Ended
<1>1. Head(todo) \in Tool
  BY CallsLeft DEF BatchKept
<1>2. /\ guard.failures \in Nat /\ guard.failures < FailureLimit
      /\ streak.call = guard.call /\ streak.length = guard.failures
  BY Limits DEF CallTypes, StreakKept, Ended
<1>3. CASE success
  <2>1. guard' = [call |-> None, failures |-> 0] /\ streak' = [call |-> None, length |-> 0]
    BY <1>3 DEF ExecuteCall, Record
  <2> QED  BY <2>1, Limits
<1>4. CASE ~success
  <2> DEFINE call == Head(todo)
             n == IF call = guard.call THEN guard.failures + 1 ELSE 1
  <2>1. guard' = [call |-> call, failures |-> n] /\ streak' = [call |-> call, length |-> n]
    BY <1>2, <1>4 DEF ExecuteCall, Record
  <2>2. n \in 0..FailureLimit /\ call \in Tool
    BY <1>1, <1>2, Limits
  <2>3. n >= FailureLimit => pc' \in Ended
    <3>1. guard'.failures = n
      BY <2>1
    <3>2. \/ guard'.failures >= FailureLimit /\ EndFast("repeating", FALSE)
          \/ guard'.failures < FailureLimit
      BY <1>4 DEF ExecuteCall
    <3> HIDE DEF n
    <3>3. n >= FailureLimit => ~ (n < FailureLimit)
      BY <2>2, Limits
    <3> QED  BY <3>1, <3>2, <3>3 DEF EndFast, Ended
  <2> HIDE DEF n, call
  <2> QED  BY <2>1, <2>2, <2>3, Limits
<1> QED  BY <1>3, <1>4

\* The loud steps that leave the calls and the guard alone.
Callless == \/ \E m \in Messages : SendUserMessage(m)
            \/ StepLimit \/ Observe \/ Malformed \/ HandleExecutionResult
            \/ ManagerStepLimit \/ PrepareManager
            \/ (\E answered \in BOOLEAN : ManagerResponds(answered))
            \/ HandleAnswer

LEMMA CalllessKeeps ==
  ASSUME Callless
  PROVE  /\ UNCHANGED <<batch, todo, guard, streak, response>>
         /\ pc' \in Early => pc \in Early
         /\ pc \notin Ended
            \/ UNCHANGED <<pc, message_history, applied, dropped, outcome, seen, step_number>>
         /\ pc' \notin {"output", "execute"} \/ UNCHANGED <<pc, step_number>>
<1> USE DEF Callless, fastVars, messageVars, Early, Ended
<1>1. CASE \E m \in Messages : SendUserMessage(m)
  BY <1>1 DEF SendUserMessage, endVars
<1>2. CASE StepLimit \/ Observe
  BY <1>2 DEF StepLimit, Observe, EndFast, FailFast, ChildReturns
<1>3. CASE Malformed
  BY <1>3 DEF Malformed, EndFast
<1>4. CASE HandleExecutionResult
  BY <1>4 DEF HandleExecutionResult
<1>5. CASE ManagerStepLimit \/ PrepareManager \/ HandleAnswer
  BY <1>5 DEF ManagerStepLimit, PrepareManager, HandleAnswer
<1>6. CASE \E answered \in BOOLEAN : ManagerResponds(answered)
  BY <1>6 DEF ManagerResponds, ChildReturns
<1> QED  BY <1>1, <1>2, <1>3, <1>4, <1>5, <1>6

LEMMA BatchType == ASSUME NEW calls \in Batches  PROVE calls \in Seq(Tool)
<1>1. PICK n \in 1..MaxBatch : calls \in [1..n -> Tool]
  BY DEF Batches, Tool
<1>2. n \in Nat
  BY Limits
<1> QED  BY <1>1, <1>2

LEMMA CallTypesKept ==
  ASSUME ControlTypes, CallTypes, StreakKept, BatchKept, [Next]_vars
  PROVE  CallTypes' /\ StreakKept'
<1> USE DEF fastVars
<1>1. CASE Quiet
  BY <1>1 DEF Quiet, CallTypes, StreakKept
<1>2. CASE Callless
  BY <1>2, CalllessKeeps DEF CallTypes, StreakKept
<1>3. CASE PrepareChat
  <2>1. pc = "prepare_chat" /\ pc' = "input" /\ guard' = [call |-> None, failures |-> 0]
        /\ UNCHANGED <<batch, todo, streak>>
    BY <1>3 DEF PrepareChat
  <2>2. streak.call = None /\ streak.length = 0
    BY <2>1 DEF StreakKept, Early
  <2>3. guard' \in [call : Tool \cup {None}, failures : 0..FailureLimit] /\ guard'.failures # FailureLimit
    BY <2>1, Limits
  <2> QED  BY <2>1, <2>2, <2>3 DEF CallTypes, StreakKept, Early
<1>4. CASE \E found \in Responses, calls \in Batches \cup {<<>>} : Respond(found, calls)
  <2>1. PICK found \in Responses, calls \in Batches \cup {<<>>} : Respond(found, calls)
    BY <1>4
  <2>2. pc = "llm" /\ pc' = "output" /\ UNCHANGED <<todo, guard, streak>>
        /\ batch' = (IF calls = <<>> THEN batch ELSE [step |-> step_number, calls |-> calls])
    BY <2>1 DEF Respond
  <2>3. calls # <<>> => calls \in Seq(Tool)
    BY BatchType
  <2>4. batch' \in [step : 0..MaxSteps, calls : Seq(Tool)]
    BY <2>2, <2>3 DEF CallTypes, ControlTypes
  <2> QED  BY <2>2, <2>4 DEF CallTypes, StreakKept, Early, Ended
<1>5. CASE \E thought \in BOOLEAN : Route(thought)
  <2>1. pc = "output" /\ pc' \in {"execute", "input"} /\ UNCHANGED <<batch, guard, streak>>
        /\ (todo' = batch.calls \/ todo' = todo)
    BY <1>5 DEF Route
  <2>2. batch.calls \in Seq(Tool)
    BY DEF CallTypes
  <2> QED  BY <2>1, <2>2 DEF CallTypes, StreakKept, Early, Ended
<1>6. CASE \E success \in BOOLEAN : ExecuteCall(success)
  <2>1. PICK success \in BOOLEAN : ExecuteCall(success)
    BY <1>6
  <2>2. pc = "execute" /\ todo' = Tail(todo) /\ batch' = batch /\ pc' \notin Early
    BY <2>1 DEF ExecuteCall, EndFast, Early
  <2>3. Tail(todo) \in Seq(Tool)
    BY <2>2, CallsLeft DEF BatchKept
  <2> QED  BY <2>1, <2>2, <2>3, CallCounted DEF CallTypes, StreakKept
<1> QED  BY <1>1, <1>2, <1>3, <1>4, <1>5, <1>6, Quietness DEF Loud, Callless

-----------------------------------------------------------------------------
(* The batch, the messages and the history.                                *)

LEMMA BatchStaysAsked ==
  ASSUME ControlTypes, CallTypes, BatchKept, [Next]_vars
  PROVE  BatchKept'
<1> USE DEF fastVars
<1>1. CASE Quiet
  BY <1>1 DEF Quiet, BatchKept, Chat
<1>2. CASE Callless
  BY <1>2, CalllessKeeps DEF BatchKept
<1>3. CASE PrepareChat
  BY <1>3 DEF PrepareChat, BatchKept
<1>4. CASE \E found \in Responses, calls \in Batches \cup {<<>>} : Respond(found, calls)
  <2>1. PICK found \in Responses, calls \in Batches \cup {<<>>} : Respond(found, calls)
    BY <1>4
  <2>2. pc' = "output" /\ response' = found /\ step_number' = step_number
        /\ (found = "calls" => calls # <<>>)
        /\ batch' = (IF calls = <<>> THEN batch ELSE [step |-> step_number, calls |-> calls])
    BY <2>1 DEF Respond
  <2> QED  BY <2>2 DEF BatchKept
<1>5. CASE \E thought \in BOOLEAN : Route(thought)
  BY <1>5 DEF Route, BatchKept
<1>6. CASE \E success \in BOOLEAN : ExecuteCall(success)
  <2>1. pc = "execute" /\ step_number' = step_number /\ batch' = batch /\ todo' = Tail(todo)
        /\ (pc' = "execute" => Tail(todo) # <<>>) /\ pc' # "output"
    BY <1>6 DEF ExecuteCall, EndFast
  <2> QED  BY <2>1 DEF BatchKept
<1> QED  BY <1>1, <1>2, <1>3, <1>4, <1>5, <1>6, Quietness DEF Loud, Callless

LEMMA MessagesStayKept ==
  ASSUME MessageTypes, MessagesKept, [Next]_vars
  PROVE  MessagesKept'
<1> USE DEF MessageTypes, MessagesKept, messageVars
<1>1. CASE Quiet
  BY <1>1 DEF Quiet
<1>2. CASE \E m \in Messages : SendUserMessage(m)
  BY <1>2 DEF SendUserMessage, endVars
<1>3. CASE StepLimit \/ ManagerStepLimit
  BY <1>3 DEF StepLimit, ManagerStepLimit, DropMessages, EndFast, FinalizeEvent, Ended, Early, Finished
<1>4. CASE Malformed
  BY <1>4 DEF Malformed, DropMessages, EndFast, Ended, Early, Finished, endVars
<1>5. CASE HandleExecutionResult \/ PrepareManager
  BY <1>5 DEF HandleExecutionResult, PrepareManager, ApplyMessages, Early, Ended, endVars
<1>6. CASE PrepareChat \/ Observe
  BY <1>6 DEF PrepareChat, Observe, FailFast, ChildReturns, Early, Ended, Finished, endVars
<1>7. CASE \/ \E found \in Responses, calls \in Batches \cup {<<>>} : Respond(found, calls)
           \/ \E thought \in BOOLEAN : Route(thought)
           \/ \E answered \in BOOLEAN : ManagerResponds(answered)
  BY <1>7 DEF Respond, Route, ManagerResponds, ChildReturns, Early, Ended, endVars
<1>8. CASE \E success \in BOOLEAN : ExecuteCall(success)
  BY <1>8 DEF ExecuteCall, EndFast, Early, Ended, Finished, endVars
<1>9. CASE HandleAnswer
  BY <1>9 DEF HandleAnswer, FinalizeEvent, Early, Ended, Finished, endVars
<1> QED  BY <1>1, <1>2, <1>3, <1>4, <1>5, <1>6, <1>7, <1>8, <1>9, Quietness DEF Loud

LEMMA ChatGrows ==
  ASSUME NEW h \in Seq(Entry), NEW e \in Entry, ChatOK(h),
         e.role = "assistant" => e.messages = {},
         Len(h) >= 2 \/ e.role = "assistant"
  PROVE  /\ Append(h, e) \in Seq(Entry) /\ ChatOK(Append(h, e)) /\ Len(Append(h, e)) >= 2
         /\ Said(h) \subseteq Said(Append(h, e)) /\ e.messages \subseteq Said(Append(h, e))
<1> DEFINE g == Append(h, e)
<1>1. /\ g \in Seq(Entry) /\ Len(g) = Len(h) + 1 /\ Len(h) \in Nat /\ Len(h) >= 1
      /\ \A i \in 1..Len(h) : g[i] = h[i]
      /\ g[Len(h) + 1] = e
      /\ DOMAIN g = 1..Len(h) + 1 /\ DOMAIN h = 1..Len(h)
  <2>1. /\ g \in Seq(Entry) /\ Len(g) = Len(h) + 1
        /\ \A i \in 1..Len(h) : g[i] = h[i]
        /\ g[Len(h) + 1] = e
    <3>1. h \in Seq(Entry) /\ e \in Entry
      OBVIOUS
    <3>2. Append(h, e) \in Seq(Entry) /\ Len(Append(h, e)) = Len(h) + 1
      BY <3>1, AppendProperties
    <3>3. \A i \in 1..Len(h) : Append(h, e)[i] = h[i]
      BY <3>1, AppendProperties
    <3>4. Append(h, e)[Len(h) + 1] = e
      BY <3>1, AppendProperties
    <3> QED  BY <3>2, <3>3, <3>4
  <2> HIDE DEF g
  <2> QED  BY <2>1 DEF ChatOK
<1> HIDE DEF g
<1>2. Len(g) >= 2 /\ g[2].role = "assistant"
  <2>1. CASE Len(h) = 1
    BY <1>1, <2>1
  <2>2. CASE Len(h) # 1
    <3>1. 2 \in 1..Len(h) /\ Len(h) >= 2
      BY <1>1, <2>2
    <3> QED  BY <1>1, <3>1 DEF ChatOK
  <2> QED  BY <2>1, <2>2
<1>3. \A i \in 1..Len(g) : g[i].role = "assistant" => g[i].messages = {}
  <2> TAKE i \in 1..Len(g)
  <2>1. i \in 1..Len(h) \/ i = Len(h) + 1
    BY <1>1
  <2> QED  BY <1>1, <2>1 DEF ChatOK
<1>4. Said(h) \subseteq Said(g) /\ e.messages \subseteq Said(g)
  <2>1. \A i \in DOMAIN h : i \in DOMAIN g /\ g[i] = h[i]
    BY <1>1
  <2>2. Len(h) + 1 \in DOMAIN g
    BY <1>1
  <2> QED  BY <1>1, <2>1, <2>2 DEF Said
<1> QED  BY <1>1, <1>2, <1>3, <1>4 DEF ChatOK, g

LEMMA ChatStaysKept ==
  ASSUME MessageTypes, ChatTypes, MessagesKept, ChatKept, [Next]_vars
  PROVE  ChatKept'
<1>e. /\ Assistant \in Entry /\ Assistant.role = "assistant" /\ Assistant.messages = {}
      /\ User({}) \in Entry /\ User({}).role = "user" /\ User({}).messages = {}
      /\ User(pending) \in Entry /\ User(pending).role = "user" /\ User(pending).messages = pending
  <2>1. pending \in SUBSET Messages /\ {} \in SUBSET Messages
    BY DEF MessageTypes
  <2> QED  BY <2>1, Entries
<1>h. message_history \in Seq(Entry)
  BY DEF ChatTypes
<1>c. pc \in Chat => ChatOK(message_history) /\ applied \subseteq Said(message_history)
  BY DEF ChatKept
<1>2. pc \in {"output", "execute", "result"} => Len(message_history) >= 2
  BY DEF ChatKept
<1>o. pc \in {"output", "execute", "result"} => pc \in Chat
  BY DEF Chat
<1>g. ASSUME NEW h \in Seq(Entry), ChatOK(h), Len(h) >= 2, applied \subseteq Said(h)
      PROVE  /\ Append(h, User({})) \in Seq(Entry) /\ ChatOK(Append(h, User({})))
             /\ Len(Append(h, User({}))) >= 2 /\ applied \subseteq Said(Append(h, User({})))
  <2>1. User({}).role = "assistant" => User({}).messages = {}
    BY <1>e
  <2> QED  BY <1>e, <1>g, <2>1, ChatGrows
<1> USE DEF messageVars
<1>3. CASE Quiet
  <2>1. UNCHANGED <<message_history, applied>> /\ (pc' \in Chat => pc' = pc)
    BY <1>3 DEF Quiet
  <2>2. pc' \in {"output", "execute", "result"} => pc' \in Chat
    BY DEF Chat
  <2> QED  BY <1>c, <1>2, <2>1, <2>2 DEF ChatKept
<1>4. CASE \E m \in Messages : SendUserMessage(m)
  BY <1>4, <1>c, <1>2 DEF SendUserMessage, ChatKept
<1>5. CASE PrepareChat
  <2>1. pc = "prepare_chat" /\ pc' = "input" /\ message_history' = <<User({})>> /\ applied' = applied
    BY <1>5 DEF PrepareChat
  <2>2. applied = {}
    BY <2>1 DEF MessagesKept, Early
  <2> DEFINE e == User({})
  <2>3. ChatOK(<<e>>)
    <3>1. e.messages = {}
      BY <1>e
    <3> HIDE DEF e
    <3> QED  BY <3>1 DEF ChatOK
  <2> QED  BY <2>1, <2>2, <2>3 DEF ChatKept
<1>6. CASE StepLimit \/ ManagerStepLimit \/ PrepareManager \/ HandleAnswer
             \/ \E answered \in BOOLEAN : ManagerResponds(answered)
  <2>1. pc' \notin Chat
    BY <1>6 DEF StepLimit, ManagerStepLimit, PrepareManager, HandleAnswer, ManagerResponds, EndFast,
                ChildReturns, Chat
  <2> QED  BY <2>1 DEF ChatKept, Chat
<1>7. CASE Observe
  <2>1. pc = "input" /\ pc' \in {"llm", "fast_result", "over"} /\ UNCHANGED <<message_history, applied>>
    BY <1>7 DEF Observe, FailFast, ChildReturns
  <2> QED  BY <1>c, <2>1 DEF ChatKept, Chat
<1>8. CASE \E found \in Responses, calls \in Batches \cup {<<>>} : Respond(found, calls)
  <2>1. pc = "llm" /\ pc' = "output" /\ message_history' = Append(message_history, Assistant)
        /\ applied' = applied
    BY <1>8 DEF Respond
  <2>2. ChatOK(message_history) /\ applied \subseteq Said(message_history)
    BY <1>c, <2>1 DEF Chat
  <2>3. /\ ChatOK(Append(message_history, Assistant)) /\ Len(Append(message_history, Assistant)) >= 2
        /\ Said(message_history) \subseteq Said(Append(message_history, Assistant))
    BY <1>e, <1>h, <2>2, ChatGrows
  <2> QED  BY <2>1, <2>2, <2>3 DEF ChatKept
<1>9. CASE Malformed
  <2>1. pc = "output" /\ ChatOK(message_history) /\ applied \subseteq Said(message_history)
        /\ Len(message_history) >= 2
    BY <1>9, <1>c, <1>2, <1>o DEF Malformed
  <2>2. \/ pc' = "input" /\ message_history' = Append(message_history, User({})) /\ applied' = applied
        \/ pc' \notin Chat
    BY <1>9 DEF Malformed, EndFast, Chat
  <2>3. CASE pc' = "input" /\ message_history' = Append(message_history, User({})) /\ applied' = applied
    BY <1>g, <1>h, <2>1, <2>3 DEF ChatKept
  <2>4. CASE pc' \notin Chat
    BY <2>4 DEF ChatKept, Chat
  <2> QED  BY <2>2, <2>3, <2>4
<1>10. CASE \E thought \in BOOLEAN : Route(thought)
  <2> DEFINE g == Append(message_history, User({}))
  <2>1. pc = "output" /\ ChatOK(message_history) /\ applied \subseteq Said(message_history)
        /\ Len(message_history) >= 2
    BY <1>10, <1>c, <1>2, <1>o DEF Route
  <2>2. g \in Seq(Entry) /\ ChatOK(g) /\ Len(g) >= 2 /\ applied \subseteq Said(g)
    BY <1>g, <1>h, <2>1
  <2>3. /\ Append(g, User({})) \in Seq(Entry) /\ ChatOK(Append(g, User({})))
        /\ Len(Append(g, User({}))) >= 2 /\ applied \subseteq Said(Append(g, User({})))
    <3> HIDE DEF g
    <3> QED  BY <1>g, <2>2
  <2>4. message_history' \in {message_history, g, Append(g, User({}))} /\ applied' = applied
    BY <1>10 DEF Route
  <2> HIDE DEF g
  <2> QED  BY <2>1, <2>2, <2>3, <2>4 DEF ChatKept
<1>11. CASE \E success \in BOOLEAN : ExecuteCall(success)
  <2>1. pc = "execute" /\ UNCHANGED <<message_history, applied>>
    BY <1>11 DEF ExecuteCall
  <2> QED  BY <1>c, <1>2, <1>o, <2>1 DEF ChatKept
<1>12. CASE HandleExecutionResult
  <2>1. pc = "result" /\ pc' = "input" /\ message_history' = Append(message_history, User(pending))
        /\ applied' = applied \cup pending
    BY <1>12 DEF HandleExecutionResult, ApplyMessages
  <2>2. ChatOK(message_history) /\ applied \subseteq Said(message_history) /\ Len(message_history) >= 2
    BY <1>c, <1>2, <1>o, <2>1
  <2> DEFINE e == User(pending)
             g == Append(message_history, e)
  <2>3. ChatOK(g) /\ Said(message_history) \subseteq Said(g) /\ pending \subseteq Said(g)
    <3>1. e \in Entry /\ (e.role = "assistant" => e.messages = {}) /\ e.messages = pending
      BY <1>e
    <3> HIDE DEF e
    <3> QED  BY <1>h, <2>2, <3>1, ChatGrows
  <2> QED  BY <2>1, <2>2, <2>3 DEF ChatKept
<1> QED  BY <1>3, <1>4, <1>5, <1>6, <1>7, <1>8, <1>9, <1>10, <1>11, <1>12, Quietness DEF Loud

-----------------------------------------------------------------------------
(* The theorems.                                                           *)

LEMMA InitInvariant == Init => IInv
<1> SUFFICES ASSUME Init  PROVE IInv
  OBVIOUS
<1> USE DEF Init
<1>1. ControlTypes
  <2>1. 0 \in 0..MaxSteps /\ 0 \in 0..ErrThresh /\ 0 \in 0..ManagerRetries
    BY Limits
  <2>2. "start" \in ChildSteps \cup ParentSteps \cup {"over"}
    BY DEF ParentSteps
  <2> QED  BY <2>1, <2>2 DEF ControlTypes
<1>2. MessageTypes /\ OutcomeTypes
  BY DEF MessageTypes, OutcomeTypes, NoOutcome
<1>3. ChatTypes
  BY Limits DEF ChatTypes, Responses
<1>4. CallTypes
  <2>1. <<>> \in Seq(Tool) /\ 0 \in 0..MaxSteps /\ 0 \in 0..FailureLimit
    BY Limits
  <2> QED  BY <2>1 DEF CallTypes
<1>5. Counted /\ ChatKept /\ BatchKept
  BY DEF Counted, ChatKept, BatchKept, Chat
<1>6. MessagesKept
  <2>1. None \notin Finished \/ seen \subseteq applied
    OBVIOUS
  <2> QED  BY <2>1 DEF MessagesKept, NoOutcome
<1>7. StreakKept
  BY Limits DEF StreakKept
<1> QED  BY <1>1, <1>2, <1>3, <1>4, <1>5, <1>6, <1>7, TypeParts DEF IInv

LEMMA NextInvariant == IInv /\ [Next]_vars => IInv'
<1> SUFFICES ASSUME IInv, [Next]_vars  PROVE IInv'
  OBVIOUS
<1>0. /\ ControlTypes /\ MessageTypes /\ OutcomeTypes /\ ChatTypes /\ CallTypes
      /\ Counted /\ MessagesKept /\ ChatKept /\ BatchKept /\ StreakKept
  BY TypeParts DEF IInv
<1>1. ControlTypes' /\ MessageTypes' /\ OutcomeTypes'
  BY <1>0, ControlTypesKept, MessageTypesKept, OutcomeTypesKept
<1>2. ChatTypes' /\ Counted'
  BY <1>0, ChatTypesKept
<1>3. CallTypes' /\ StreakKept'
  BY <1>0, CallTypesKept
<1>4. MessagesKept' /\ ChatKept' /\ BatchKept'
  BY <1>0, MessagesStayKept, ChatStaysKept, BatchStaysAsked
<1>5. TypeOK'
  BY <1>1, <1>2, <1>3, TypeParts, PTL
<1> QED  BY <1>2, <1>3, <1>4, <1>5 DEF IInv

THEOREM RunInvariant == Spec => []IInv
BY InitInvariant, NextInvariant, PTL DEF Spec

\* The counters stay within their limits and what is shared is well formed.
THEOREM TypeCorrect == Spec => []TypeOK
<1>1. IInv => TypeOK
  BY DEF IInv
<1> QED  BY RunInvariant, <1>1, PTL

\* An agent that decides it is finished has been told all it was sent by then.
THEOREM FinishHasSeenMessagesHolds == Spec => []FinishHasSeenMessages
<1>1. IInv => FinishHasSeenMessages
  BY DEF IInv, MessagesKept, FinishHasSeenMessages, Finished
<1> QED  BY RunInvariant, <1>1, PTL

\* Trimming the history keeps every correction before the model.
THEOREM CorrectionsSurviveHolds == Spec => []CorrectionsSurvive
<1>1. IInv => CorrectionsSurvive
  <2> SUFFICES ASSUME IInv, pc = "llm"  PROVE applied \subseteq WindowHistory(message_history)
    BY DEF CorrectionsSurvive
  <2>1. message_history \in Seq(Entry) /\ ChatOK(message_history) /\ applied \subseteq Said(message_history)
    BY TypeParts DEF IInv, ChatTypes, ChatKept, Chat
  <2>2. Said(message_history) \subseteq WindowHistory(message_history)
    BY <2>1, WindowKeepsAll
  <2> QED  BY <2>1, <2>2
<1> QED  BY RunInvariant, <1>1, PTL

\* The same call is not made again when it has failed FailureLimit times in a row.
THEOREM NoRetryLoopHolds == Spec => []NoRetryLoop
<1>1. IInv => NoRetryLoop
  <2> SUFFICES ASSUME IInv  PROVE NoRetryLoop
    OBVIOUS
  <2>1. streak.length \in 0..FailureLimit
    BY TypeParts DEF IInv, CallTypes
  <2> QED  BY <2>1, Limits DEF IInv, StreakKept, Ended, NoRetryLoop
<1> QED  BY RunInvariant, <1>1, PTL

\* Only the calls of the last response are made.
THEOREM ExecutesWhatWasAskedHolds == Spec => []ExecutesWhatWasAsked
<1>1. IInv => ExecutesWhatWasAsked
  BY DEF IInv, BatchKept, ExecutesWhatWasAsked
<1> QED  BY RunInvariant, <1>1, PTL

-----------------------------------------------------------------------------
(* The epilog: types, and the shape of what the writer is given.           *)

EventsJobs == {Events(n) : n \in Nat}
ScreenshotJob == {Screenshot(i, i + 1) : i \in Nat}
Jobs == EventsJobs \cup ScreenshotJob

PlanTypes ==
  /\ now \in Nat /\ lag \in Nat /\ workflow_deadline \in Nat
  /\ saves_trajectory \in BOOLEAN /\ has_mcp \in BOOLEAN
  /\ deadline \in Int /\ cleanup_reserve \in Int /\ observation_deadline \in Int
  /\ until \in Int
  /\ phase \in Stages \cup Gaps \cup {"running", "over"}
  /\ mcpBy \in Nat \cup {-1} /\ stopBy \in Nat \cup {-1}
  /\ ending \in {"none", "returned", "timed_out", "cancelled"}

\* The queued screenshots are the last of those taken, in their order.
TrajectoryTypes ==
  /\ events \in Nat /\ screenshot_count \in Nat
  /\ screenshot_queue \in Seq(Nat)
  /\ Len(screenshot_queue) <= screenshot_count
  /\ \A k \in 1..Len(screenshot_queue) :
       screenshot_queue[k] = screenshot_count - Len(screenshot_queue) + k

WriterTypes ==
  /\ trajectory_written \in BOOLEAN /\ saved \in BOOLEAN /\ running \in BOOLEAN
  /\ worker \in {"idle", "writing", "stopped"}
  /\ queue \in Seq(Jobs) /\ Len(queue) <= QueueSize
  /\ job \in Jobs \cup {NoJob} /\ (worker = "writing" => job \in Jobs)
  /\ disk \in [events : Int, screenshots : SUBSET (Nat \X Nat)]

LEMMA EpilogConstants ==
  /\ BUDGET \in Nat /\ RESERVE \in Nat /\ OBSERVATION \in Nat /\ TELEMETRY \in Nat
  /\ TRAJECTORY \in Nat /\ MCP \in Nat /\ QueueSize \in Nat
  /\ Deadlines \subseteq Nat
  /\ \A c \in Configs : c[1] \in BOOLEAN /\ c[2] \in BOOLEAN
<1>1. \A x \in {BUDGET, RESERVE, OBSERVATION, TELEMETRY, TRAJECTORY, MCP, QueueSize} : x \in Nat
  BY EpilogAssumption
<1>2. \A c \in Configs : c[1] \in BOOLEAN /\ c[2] \in BOOLEAN
  <2>1. Configs \subseteq BOOLEAN \X BOOLEAN
    BY EpilogAssumption
  <2>2. QED
    BY <2>1
<1>3. QED
  BY <1>1, <1>2, EpilogAssumption, Zenon

LEMMA JobIs ==
  ASSUME NEW j \in Jobs
  PROVE  \/ j.kind = "events" /\ (\E n \in Nat : j = Events(n)) /\ j.value \in Nat
         \/ j.kind # "events" /\ (\E i \in Nat : j = Screenshot(i, i + 1) /\ j.value = <<i, i + 1>>)
BY DEF Jobs, EventsJobs, ScreenshotJob, Events, Screenshot

\* What a write turns into jobs: the events, then the queued screenshots.
Writes == <<Events(events)>> \o ScreenshotJobs(screenshot_queue, screenshot_count)

LEMMA WritesAre ==
  ASSUME TrajectoryTypes
  PROVE  /\ Writes \in Seq(Jobs) /\ Len(Writes) = Len(screenshot_queue) + 1
         /\ Writes[1] = Events(events)
         /\ \A k \in 2..Len(Writes) :
              LET i == screenshot_count - Len(screenshot_queue) + k - 2
              IN i \in Nat /\ Writes[k] = Screenshot(i, i + 1)
<1> DEFINE shots == ScreenshotJobs(screenshot_queue, screenshot_count)
           i(k) == screenshot_count - Len(screenshot_queue) + k - 1
<1>1. DOMAIN screenshot_queue = 1..Len(screenshot_queue) /\ Len(screenshot_queue) \in Nat
  BY DEF TrajectoryTypes
<1>2. \A k \in 1..Len(screenshot_queue) : i(k) \in Nat /\ shots[k] = Screenshot(i(k), i(k) + 1)
  BY <1>1 DEF TrajectoryTypes, ScreenshotJobs
<1>3. \A k \in 1..Len(screenshot_queue) : shots[k] \in Jobs
  BY <1>2 DEF Jobs, ScreenshotJob
<1>4. shots = [k \in 1..Len(screenshot_queue) |-> shots[k]]
  BY <1>1 DEF ScreenshotJobs
<1>5. shots \in Seq(Jobs) /\ Len(shots) = Len(screenshot_queue)
  <2> HIDE DEF shots
  <2> QED BY <1>1, <1>3, <1>4
<1>6. Events(events) \in Jobs
  BY DEF TrajectoryTypes, Jobs, EventsJobs
<1>7. /\ Writes \in Seq(Jobs) /\ Len(Writes) = Len(screenshot_queue) + 1
      /\ Writes[1] = Events(events)
      /\ \A k \in 2..Len(Writes) : Writes[k] = shots[k - 1]
  <2>1. <<Events(events)>> \in Seq(Jobs) /\ Len(<<Events(events)>>) = 1 /\ <<Events(events)>>[1] = Events(events)
    BY <1>6
  <2>2. Writes = <<Events(events)>> \o shots
    BY DEF Writes
  <2> HIDE DEF shots
  <2> QED BY <2>1, <2>2, <1>1, <1>5
<1>8. \A k \in 2..Len(Writes) : k - 1 \in 1..Len(screenshot_queue) /\ i(k - 1) = screenshot_count - Len(screenshot_queue) + k - 2
  BY <1>1, <1>7 DEF TrajectoryTypes
<1> QED BY <1>2, <1>7, <1>8

\* Jobs are queued from the front; those that do not fit are lost.
LEMMA Submitted ==
  ASSUME NEW jobs \in Seq(Jobs), WriterTypes, Submit(jobs)
  PROVE  /\ queue' \in Seq(Jobs) /\ Len(queue') <= QueueSize
         /\ lost \subseteq lost'
         /\ \E fitting \in 0..Len(jobs) :
              /\ Len(queue') = Len(queue) + fitting
              /\ \A k \in 1..Len(queue) : queue'[k] = queue[k]
              /\ \A k \in 1..fitting : queue'[Len(queue) + k] = jobs[k]
              /\ \A k \in fitting + 1..Len(jobs) : jobs[k] \in lost'
<1> DEFINE fitting == Least(Len(jobs), QueueSize - Len(queue))
           front == SubSeq(jobs, 1, fitting)
<1>1. queue \in Seq(Jobs) /\ Len(queue) \in Nat /\ Len(jobs) \in Nat /\ QueueSize \in Nat /\ Len(queue) <= QueueSize
  BY EpilogConstants DEF WriterTypes
<1>2. fitting \in 0..Len(jobs) /\ Len(queue) + fitting <= QueueSize
  BY <1>1 DEF Least
<1>3. queue' = queue \o front /\ lost' = lost \cup {jobs[k] : k \in fitting + 1..Len(jobs)}
  BY DEF Submit
<1> HIDE DEF fitting
<1>4. front \in Seq(Jobs) /\ Len(front) = fitting /\ \A k \in 1..fitting : front[k] = jobs[k]
  BY <1>1, <1>2
<1> HIDE DEF front
<1>5. /\ queue' \in Seq(Jobs) /\ Len(queue') = Len(queue) + fitting
      /\ \A k \in 1..Len(queue) : queue'[k] = queue[k]
      /\ \A k \in 1..fitting : queue'[Len(queue) + k] = front[k]
  <2>1. queue' = queue \o front
    BY <1>3
  <2>2. queue' \in Seq(Jobs) /\ Len(queue') = Len(queue) + Len(front)
    BY <2>1, <1>1, <1>4, ConcatProperties, Zenon
  <2>3. \A k \in 1..Len(queue) + Len(front) :
          queue'[k] = IF k <= Len(queue) THEN queue[k] ELSE front[k - Len(queue)]
    BY <2>1, <1>1, <1>4, ConcatProperties, Zenon
  <2>4. \A k \in 1..Len(queue) : queue'[k] = queue[k]
    BY <2>3, <1>1, <1>2, <1>4
  <2>5. \A k \in 1..fitting : queue'[Len(queue) + k] = front[k]
    BY <2>3, <1>1, <1>2, <1>4
  <2> QED BY <2>2, <2>4, <2>5, <1>4
<1>6. \A k \in fitting + 1..Len(jobs) : jobs[k] \in lost'
  BY <1>3, Zenon
<1> QED BY <1>1, <1>2, <1>3, <1>4, <1>5, <1>6

LEMMA FollowsIs ==
  /\ Follows("structured") = "gap_telemetry" /\ Follows("telemetry") = "gap_screenshot"
  /\ Follows("screenshot") = "gap_ui" /\ Follows("ui") = "gap_trajectory"
  /\ Follows("trajectory") = "gap_mcp" /\ Follows("mcp") = "gap_return"
BY DEF Follows

\* A stage is awaited up to its limit, or skipped.
LEMMA Awaited ==
  ASSUME NEW stage \in Stages, NEW limit \in Int, NEW cap \in Nat, now \in Nat,
         Await(stage, limit, cap) \/ Skip(stage)
  PROVE  /\ until' \in Int
         /\ \/ phase' = stage /\ now < until' /\ until' <= limit
            \/ phase' = Follows(stage)
BY DEF Await, Skip, Least

LEMMA LimitsAreTimes ==
  ASSUME PlanTypes
  PROVE  /\ BeforeCleanup \in Int /\ Demand \in Nat /\ McpReserve \in Nat
         /\ WorkflowLimit \in Int
BY EpilogConstants DEF PlanTypes, BeforeCleanup, Demand, McpReserve, WorkflowLimit, Least, Most

LEMMA PlanTypesKept == PlanTypes /\ [EpilogNext]_epilogVars => PlanTypes'
<1> SUFFICES ASSUME PlanTypes, [EpilogNext]_epilogVars PROVE PlanTypes'
  OBVIOUS
<1> USE EpilogConstants
<1>a. now \in Nat
  BY DEF PlanTypes
<1>1. CASE RecordScreenshot \/ RecordEvent \/ WriteStep \/ WorkerTakes \/ WorkerWrites
           \/ UNCHANGED epilogVars
  BY <1>1 DEF PlanTypes, RecordScreenshot, RecordEvent, WriteStep, WorkerTakes,
     WorkerWrites, epilogVars, clockVars, configVars, planVars, stopVars, resultVars
<1>2. CASE BeginFinalize
  BY <1>2, LimitsAreTimes DEF PlanTypes, BeginFinalize, CleanupReserve, Least, Most, Gaps,
     clockVars, configVars, stopVars, resultVars
<1>3. CASE StartStructured
  <2>1. /\ until' \in Int /\ phase' \in {"structured", Follows("structured")}
    BY <1>3, <1>a, Awaited, LimitsAreTimes DEF StartStructured, Stages
  <2> QED BY <1>3, <2>1, FollowsIs DEF PlanTypes, StartStructured, Stages, Gaps, clockVars, configVars, planVars, stopVars, resultVars
<1>4. CASE StartTelemetry
  <2>1. /\ until' \in Int /\ phase' \in {"telemetry", Follows("telemetry")}
    BY <1>4, <1>a, Awaited, LimitsAreTimes DEF StartTelemetry, Stages
  <2> QED BY <1>4, <2>1, FollowsIs DEF PlanTypes, StartTelemetry, Stages, Gaps, clockVars, configVars, planVars, stopVars, resultVars
<1>5. CASE StartScreenshot
  <2>1. observation_deadline' \in Int
    BY <1>5, LimitsAreTimes DEF PlanTypes, StartScreenshot, Least
  <2>2. /\ until' \in Int /\ phase' \in {"screenshot", Follows("screenshot"), Follows("ui")}
    <3>1. CASE Await("screenshot", observation_deadline', OBSERVATION)
      BY <3>1, <2>1, <1>a, Awaited DEF Stages
    <3>2. CASE Skip("ui")
      BY <3>2 DEF Skip
    <3> QED BY <1>5, <3>1, <3>2 DEF StartScreenshot
  <2> QED BY <1>5, <2>1, <2>2, FollowsIs DEF PlanTypes, StartScreenshot, Stages, Gaps, clockVars, configVars, stopVars, resultVars
<1>6. CASE StartUi
  <2>1. /\ until' \in Int /\ phase' \in {"ui", Follows("ui")}
    BY <1>6, <1>a, Awaited DEF StartUi, Stages, PlanTypes
  <2> QED BY <1>6, <2>1, FollowsIs DEF PlanTypes, StartUi, Stages, Gaps, clockVars, configVars, planVars, stopVars, resultVars
<1>7. CASE StartTrajectory
  <2>1. /\ until' \in Int /\ phase' \in {"trajectory", Follows("trajectory")}
    <3>1. CASE ~saves_trajectory
      BY <1>7, <3>1 DEF StartTrajectory, Skip
    <3>2. CASE saves_trajectory
      <4>1. Await("trajectory", deadline - McpReserve, TRAJECTORY)
        BY <1>7, <3>2 DEF StartTrajectory
      <4>2. deadline - McpReserve \in Int
        BY LimitsAreTimes DEF PlanTypes
      <4> QED BY <4>1, <4>2, <1>a, Awaited DEF Stages
    <3> QED BY <3>1, <3>2
  <2>2. stopBy' \in Nat \cup {-1} /\ mcpBy' = mcpBy
    BY <1>7 DEF PlanTypes, StartTrajectory, InBackground, stopVars
  <2> QED BY <1>7, <2>1, <2>2, FollowsIs DEF PlanTypes, StartTrajectory, Stages, Gaps, clockVars, configVars, resultVars
<1>8. CASE StartMcp
  <2>1. /\ until' \in Int /\ phase' \in {"mcp", Follows("mcp")}
    <3>1. CASE has_mcp
      <4>1. Await("mcp", deadline, MCP) /\ deadline \in Int
        BY <1>8, <3>1 DEF StartMcp, PlanTypes
      <4> QED BY <4>1, <1>a, Awaited DEF Stages
    <3>2. CASE ~has_mcp
      BY <1>8, <3>2 DEF StartMcp, Skip
    <3> QED BY <3>1, <3>2
  <2>2. mcpBy' \in Nat \cup {-1}
    BY <1>8 DEF PlanTypes, StartMcp, InBackground
  <2> QED BY <1>8, <2>1, <2>2, FollowsIs DEF PlanTypes, StartMcp, Stages, Gaps, clockVars, configVars, planVars, resultVars
<1>9. CASE Return \/ (\E how \in {"timed_out", "cancelled"} : Interrupted(how))
  BY <1>9 DEF PlanTypes, Return, Interrupted, clockVars, configVars, planVars, stopVars
<1>10. CASE StageEnds \/ StageTimesOut \/ McpDisconnects
  <2>1. (phase' = phase /\ until' = until) \/ (phase \in Stages /\ phase' = Follows(phase) /\ until' = 0)
    <3>1. CASE StageEnds \/ StageTimesOut
      BY <3>1 DEF StageEnds, StageTimesOut, Skip, Stages
    <3>2. CASE McpDisconnects /\ phase = "mcp"
      BY <3>2 DEF McpDisconnects, Skip, Stages
    <3>3. CASE McpDisconnects /\ phase # "mcp"
      BY <3>3 DEF McpDisconnects
    <3> QED BY <1>10, <3>1, <3>2, <3>3
  <2>2. phase' \in Stages \cup Gaps \cup {"running", "over"} /\ until' \in Int
    BY <2>1, FollowsIs DEF PlanTypes, Stages, Gaps
  <2> QED BY <1>10, <2>2 DEF PlanTypes, StageEnds, StageTimesOut, McpDisconnects, clockVars, configVars, planVars, stopVars, resultVars
<1>11. CASE WriterStops
  <2>1. (phase' = phase /\ until' = until) \/ (phase' = Follows("trajectory") /\ until' = 0)
    <3>1. CASE phase = "trajectory"
      BY <1>11, <3>1 DEF WriterStops, Skip
    <3>2. CASE phase # "trajectory"
      BY <1>11, <3>2 DEF WriterStops
    <3> QED BY <3>1, <3>2
  <2> QED BY <1>11, <2>1, FollowsIs DEF PlanTypes, WriterStops, CutOff, Gaps, clockVars, configVars, planVars
<1>12. CASE Tick \/ Lag
  BY <1>12 DEF PlanTypes, Tick, Lag, configVars, planVars, stopVars, resultVars
<1> QED
  BY <1>1, <1>2, <1>3, <1>4, <1>5, <1>6, <1>7, <1>8, <1>9, <1>10, <1>11, <1>12
     DEF EpilogNext, RunNext, WorkerNext, LoopNext, FinalizeNext, Interruptions, EpilogOver

\* What touches neither the trajectory nor the writer.
WriterQuiet ==
  /\ UNCHANGED <<events, screenshot_queue, screenshot_count>>
  /\ UNCHANGED <<queue, worker, running, job, disk, lost>>
  /\ UNCHANGED <<trajectory_written, saved>>

\* The epilog gives the writer its last jobs.
LastWrite ==
  /\ WriteTrajectory /\ trajectory_written' = TRUE
  /\ UNCHANGED saved

LEMMA WriterSteps ==
  [EpilogNext]_epilogVars =>
    \/ WriterQuiet
    \/ RecordScreenshot \/ RecordEvent \/ WriteStep \/ WorkerTakes \/ WorkerWrites
    \/ StartTrajectory /\ LastWrite
    \/ WriterStops
<1> SUFFICES ASSUME [EpilogNext]_epilogVars
             PROVE  \/ WriterQuiet
                    \/ RecordScreenshot \/ RecordEvent \/ WriteStep \/ WorkerTakes \/ WorkerWrites
                    \/ StartTrajectory /\ LastWrite
                    \/ WriterStops
  OBVIOUS
<1>1. CASE \/ StartStructured \/ StartTelemetry \/ StartScreenshot \/ StartUi \/ StartMcp
           \/ Return \/ StageTimesOut \/ StageEnds \/ McpDisconnects \/ BeginFinalize
  BY <1>1 DEF WriterQuiet, StartStructured, StartTelemetry, StartScreenshot, StartUi, StartMcp,
     Return, StageTimesOut, StageEnds, McpDisconnects, BeginFinalize, stopVars, resultVars,
     trajectoryVars, writerVars
<1>2. CASE Tick \/ Lag \/ (\E how \in {"timed_out", "cancelled"} : Interrupted(how))
           \/ UNCHANGED epilogVars
  BY <1>2 DEF WriterQuiet, Tick, Lag, Interrupted, epilogVars, stopVars, resultVars,
     trajectoryVars, writerVars
<1>3. CASE StartTrajectory
  <2>1. CASE ~saves_trajectory
    BY <1>3, <2>1 DEF StartTrajectory, WriterQuiet, stopVars, resultVars, trajectoryVars, writerVars
  <2>2. CASE saves_trajectory
    BY <1>3, <2>2 DEF StartTrajectory, WriterQuiet, LastWrite, resultVars, trajectoryVars, writerVars
  <2> QED BY <2>1, <2>2
<1> QED
  BY <1>1, <1>2, <1>3
     DEF EpilogNext, RunNext, WorkerNext, LoopNext, FinalizeNext, Interruptions, EpilogOver

\* A write leaves its jobs in the queue, in their order, or lost.
LEMMA Wrote ==
  ASSUME TrajectoryTypes, WriterTypes, WriteTrajectory
  PROVE  /\ screenshot_queue' = <<>>
         /\ UNCHANGED <<events, screenshot_count, worker, running, job, disk>>
         /\ queue' \in Seq(Jobs) /\ Len(queue') <= QueueSize
         /\ lost \subseteq lost'
         /\ \E fitting \in 0..Len(Writes) :
              /\ Len(queue') = Len(queue) + fitting
              /\ \A k \in 1..Len(queue) : queue'[k] = queue[k]
              /\ \A k \in 1..fitting : queue'[Len(queue) + k] = Writes[k]
              /\ \A k \in fitting + 1..Len(Writes) : Writes[k] \in lost'
<1>1. Submit(Writes) /\ Writes \in Seq(Jobs)
  BY WritesAre DEF WriteTrajectory, Writes
<1>2. screenshot_queue' = <<>> /\ UNCHANGED <<events, screenshot_count, worker, running, job, disk>>
  BY DEF WriteTrajectory
<1>3. Len(queue') <= QueueSize /\ queue' \in Seq(Jobs) /\ lost \subseteq lost'
  BY <1>1, Submitted
<1> HIDE DEF Writes
<1> QED BY <1>1, <1>2, <1>3, Submitted, Zenon

LEMMA TrajectoryTypesKept ==
  PlanTypes /\ TrajectoryTypes /\ WriterTypes /\ [EpilogNext]_epilogVars => TrajectoryTypes'
<1> SUFFICES ASSUME PlanTypes, TrajectoryTypes, WriterTypes, [EpilogNext]_epilogVars
             PROVE  TrajectoryTypes'
  OBVIOUS
<1>1. CASE UNCHANGED <<events, screenshot_queue, screenshot_count>>
  BY <1>1 DEF TrajectoryTypes
<1>2. CASE RecordScreenshot
  <2>1. /\ screenshot_count' = screenshot_count + 1 /\ events' = events
        /\ screenshot_queue' = Append(screenshot_queue, screenshot_count + 1)
    BY <1>2 DEF RecordScreenshot
  <2>2. /\ screenshot_queue' \in Seq(Nat) /\ Len(screenshot_queue') = Len(screenshot_queue) + 1
        /\ \A k \in 1..Len(screenshot_queue') :
             screenshot_queue'[k] = IF k <= Len(screenshot_queue) THEN screenshot_queue[k]
                                    ELSE screenshot_count + 1
    BY <2>1 DEF TrajectoryTypes
  <2> QED BY <2>1, <2>2 DEF TrajectoryTypes
<1>3. CASE RecordEvent
  BY <1>3 DEF RecordEvent, TrajectoryTypes
<1>4. CASE WriteTrajectory
  <2>1. screenshot_queue' = <<>> /\ UNCHANGED <<events, screenshot_count>>
    BY <1>4, Wrote
  <2> QED BY <2>1 DEF TrajectoryTypes
<1> QED
  BY <1>1, <1>2, <1>3, <1>4, WriterSteps
     DEF WriterQuiet, WriteStep, WorkerTakes, WorkerWrites, WriterStops, LastWrite, trajectoryVars

LEMMA DiskTypes ==
  ASSUME WriterTypes, NEW j \in Jobs
  PROVE  /\ Written(j) \in [events : Int, screenshots : SUBSET (Nat \X Nat)]
         /\ Truncated(j) \in [events : Int, screenshots : SUBSET (Nat \X Nat)]
<1>1. disk = [events |-> disk.events, screenshots |-> disk.screenshots]
      /\ disk.events \in Int /\ disk.screenshots \in SUBSET (Nat \X Nat)
  BY DEF WriterTypes
<1>2. CASE j.kind = "events"
  <2>1. j.value \in Int
    BY <1>2, JobIs
  <2> QED BY <1>1, <1>2, <2>1 DEF Written, Truncated, Torn
<1>3. CASE j.kind # "events"
  <2>1. j.value \in Nat \X Nat
    BY <1>3, JobIs
  <2>2. {s \in disk.screenshots : s[1] # j.value[1]} \in SUBSET (Nat \X Nat)
    BY <1>1
  <2> DEFINE kept == {s \in disk.screenshots : s[1] # j.value[1]}
  <2>3. Written(j) = [disk EXCEPT !.screenshots = kept \cup {j.value}]
        /\ Truncated(j) = [disk EXCEPT !.screenshots = kept]
    BY <1>3 DEF Written, Truncated
  <2> HIDE DEF kept
  <2> QED BY <1>1, <2>1, <2>2, <2>3 DEF kept
<1> QED BY <1>2, <1>3

LEMMA WriterTypesKept ==
  TrajectoryTypes /\ WriterTypes /\ [EpilogNext]_epilogVars => WriterTypes'
<1> SUFFICES ASSUME TrajectoryTypes, WriterTypes, [EpilogNext]_epilogVars
             PROVE  WriterTypes'
  OBVIOUS
<1>1. CASE WriterQuiet
  BY <1>1 DEF WriterQuiet, WriterTypes
<1>2. CASE RecordScreenshot \/ RecordEvent
  BY <1>2 DEF RecordScreenshot, RecordEvent, writerVars, stopVars, resultVars, WriterTypes
<1>3. CASE WriteTrajectory /\ trajectory_written' \in BOOLEAN /\ saved' = saved
  BY <1>3, Wrote DEF WriterTypes
<1>4. CASE WorkerTakes
  <2>1. queue # <<>> /\ job' = Head(queue) /\ queue' = Tail(queue) /\ worker' = "writing"
        /\ UNCHANGED <<running, disk, trajectory_written, saved>>
    BY <1>4 DEF WorkerTakes, stopVars, resultVars
  <2>2. Head(queue) \in Jobs /\ Tail(queue) \in Seq(Jobs) /\ Len(Tail(queue)) <= QueueSize
    BY <2>1, EpilogConstants DEF WriterTypes
  <2> QED BY <2>1, <2>2 DEF WriterTypes
<1>5. CASE WorkerWrites
  <2>1. job \in Jobs
    BY <1>5 DEF WorkerWrites, WriterTypes
  <2>2. disk' \in {disk, Written(job), Truncated(job)}
    BY <1>5 DEF WorkerWrites
  <2>3. disk' \in [events : Int, screenshots : SUBSET (Nat \X Nat)]
    BY <2>1, <2>2, DiskTypes DEF WriterTypes
  <2> QED BY <1>5, <2>3 DEF WorkerWrites, WriterTypes, stopVars, resultVars
<1>6. CASE WriterStops
  <2>1. worker = "writing" => job \in Jobs
    BY DEF WriterTypes
  <2>2. CutOff /\ trajectory_written' = trajectory_written
    BY <1>6 DEF WriterStops
  <2>3. disk' \in [events : Int, screenshots : SUBSET (Nat \X Nat)]
    <3>1. CASE worker = "writing"
      <4>1. disk' \in {disk, Written(job), Truncated(job)}
        BY <2>2, <3>1 DEF CutOff
      <4> QED BY <4>1, <3>1, <2>1, DiskTypes DEF WriterTypes
    <3>2. CASE worker # "writing"
      BY <2>2, <3>2 DEF CutOff, WriterTypes
    <3> QED BY <3>1, <3>2
  <2>4. saved' \in BOOLEAN
    BY <1>6 DEF WriterStops, WriterTypes
  <2> QED BY <2>2, <2>3, <2>4 DEF CutOff, WriterTypes
<1> QED
  BY <1>1, <1>2, <1>3, <1>4, <1>5, <1>6, WriterSteps DEF WriteStep, LastWrite, WriterTypes, stopVars, resultVars

-----------------------------------------------------------------------------
(* The epilog's time.  A stage never outlasts its limit, so that the clock *)
(* passes a limit only by the time lost between stages.                    *)

Preparing == {"structured", "telemetry", "screenshot", "ui"}
BeforeSaving == {"gap_structured", "gap_telemetry", "gap_screenshot", "gap_ui",
                 "gap_trajectory"} \cup Preparing
Available == Most(0, deadline)
McpShare == Least(MCP, cleanup_reserve \div 2)
Planned ==
  /\ deadline <= WorkflowLimit
  /\ cleanup_reserve = Least(Demand, Available \div 2)

TimeKept ==
  /\ phase = "running" => now = 0 /\ lag = 0
  /\ phase # "running" => Planned
  /\ phase \in Stages \cup Gaps => now <= Available + lag
  /\ phase \in BeforeSaving => now <= Available - cleanup_reserve + lag
  /\ phase \in Preparing => until <= BeforeCleanup
  /\ phase \in {"screenshot", "gap_ui", "ui"} => observation_deadline <= BeforeCleanup
  /\ phase \in {"trajectory", "gap_mcp"} /\ has_mcp => now <= Available - McpShare + lag
  /\ phase = "trajectory" /\ has_mcp => until <= Available - McpShare + lag
  /\ phase \in {"trajectory", "mcp"} => until <= deadline
  /\ DecisionSurvives

LEMMA SharesFit ==
  ASSUME PlanTypes, Planned
  PROVE  /\ cleanup_reserve \in Nat /\ Available \in Nat /\ McpShare \in Nat
         /\ cleanup_reserve <= Available /\ McpShare <= cleanup_reserve
         /\ deadline <= Available /\ BeforeCleanup = deadline - cleanup_reserve
         /\ WorkflowLimit = workflow_deadline - RESERVE
         /\ (deadline < 0 => cleanup_reserve = 0)
BY EpilogConstants, LimitsAreTimes DEF PlanTypes, Planned, Available, McpShare, Least, Most,
   BeforeCleanup, WorkflowLimit

\* Where a step leaves the plan alone, so are all limits.
PlanStays == UNCHANGED <<deadline, cleanup_reserve, workflow_deadline, saves_trajectory, has_mcp>>
LEMMA LimitsStay ==
  ASSUME PlanStays
  PROVE  /\ Available' = Available /\ McpShare' = McpShare /\ BeforeCleanup' = BeforeCleanup
         /\ WorkflowLimit' = WorkflowLimit /\ Planned' = Planned
BY DEF PlanStays, Available, McpShare, BeforeCleanup, WorkflowLimit, Planned, Demand, Most, Least

LEMMA TimeAfterStage ==
  ASSUME PlanTypes, TimeKept, PlanStays, phase \in Stages, phase' = Follows(phase),
         UNCHANGED <<now, lag, observation_deadline, ending>>
  PROVE  TimeKept'
<1>1. Planned
  BY DEF TimeKept, Stages
<1>2. phase' \in Gaps
  BY FollowsIs DEF Stages, Gaps
<1>3. phase' \in BeforeSaving => phase \in BeforeSaving
  BY FollowsIs DEF Stages, BeforeSaving, Preparing
<1>4. phase' = "gap_ui" => phase = "screenshot"
  BY FollowsIs DEF Stages
<1>5. phase' = "gap_mcp" => phase = "trajectory"
  BY FollowsIs DEF Stages
<1>6. has_mcp' = has_mcp /\ (DecisionSurvives' <=> DecisionSurvives)
  BY DEF PlanStays, DecisionSurvives, Least
<1> QED
  <2>1. /\ now <= Available + lag
        /\ phase' \in BeforeSaving => now <= Available - cleanup_reserve + lag
        /\ phase' = "gap_ui" => observation_deadline <= BeforeCleanup
        /\ phase' = "gap_mcp" /\ has_mcp => now <= Available - McpShare + lag
    BY <1>3, <1>4, <1>5 DEF TimeKept
  <2>2. /\ now' <= Available' + lag'
        /\ phase' \in BeforeSaving => now' <= Available' - cleanup_reserve' + lag'
        /\ phase' = "gap_ui" => observation_deadline' <= BeforeCleanup'
        /\ phase' = "gap_mcp" /\ has_mcp' => now' <= Available' - McpShare' + lag'
    BY <2>1, <1>6, LimitsStay DEF PlanStays
  <2>3. phase' \notin Preparing \cup {"running", "screenshot", "ui", "trajectory", "mcp"}
    BY <1>2 DEF Gaps, Preparing
  <2>4. Planned' /\ DecisionSurvives'
    BY <1>1, <1>6, LimitsStay DEF TimeKept
  <2> QED BY <2>2, <2>3, <2>4 DEF TimeKept

LEMMA TimeKeptKept == PlanTypes /\ TimeKept /\ [EpilogNext]_epilogVars => TimeKept'
<1> SUFFICES ASSUME PlanTypes, TimeKept, [EpilogNext]_epilogVars PROVE TimeKept'
  OBVIOUS
<1> USE EpilogConstants
<1>a. now \in Nat /\ lag \in Nat /\ deadline \in Int /\ observation_deadline \in Int
  BY DEF PlanTypes
<1>b. phase # "running" => Planned
  BY DEF TimeKept
<1>1. CASE UNCHANGED <<clockVars, configVars, planVars, phase, until, ending>>
  <2>1. PlanStays /\ UNCHANGED <<now, lag, observation_deadline, phase, until, ending>>
    BY <1>1 DEF PlanStays, clockVars, configVars, planVars
  <2>2. DecisionSurvives' <=> DecisionSurvives
    BY <2>1 DEF DecisionSurvives, PlanStays, Least
  <2> QED BY <2>1, <2>2, LimitsStay DEF TimeKept, PlanStays
<1>2. CASE BeginFinalize
  <2>1. /\ phase = "running" /\ phase' = "gap_structured" /\ now = 0 /\ lag = 0
        /\ UNCHANGED <<now, lag, workflow_deadline, saves_trajectory, has_mcp, ending>>
    BY <1>2 DEF BeginFinalize, TimeKept, clockVars, configVars, resultVars
  <2>2. deadline' = Least(now + BUDGET, WorkflowLimit) /\ WorkflowLimit' = WorkflowLimit
        /\ cleanup_reserve' = CleanupReserve(Most(0, deadline' - now), Demand)
    BY <1>2, <2>1 DEF BeginFinalize, WorkflowLimit
  <2>3. deadline' \in Int /\ deadline' <= WorkflowLimit'
    BY <2>1, <2>2, LimitsAreTimes DEF Least
  <2>4. Available' = Most(0, deadline') /\ Demand' = Demand
    BY <2>1 DEF Available, Demand
  <2>5. cleanup_reserve' = Least(Demand, Most(0, deadline') \div 2)
    BY <2>1, <2>2, <2>3 DEF CleanupReserve
  <2>6. Planned'
    BY <2>3, <2>4, <2>5 DEF Planned
  <2>7. Available' \in Nat /\ cleanup_reserve' \in Nat /\ cleanup_reserve' <= Available'
    <3>1. \A d \in Int : /\ Most(0, d) \in Nat /\ Least(Demand, Most(0, d) \div 2) \in Nat
                         /\ Least(Demand, Most(0, d) \div 2) <= Most(0, d)
      BY LimitsAreTimes DEF Least, Most
    <3> QED BY <3>1, <2>3, <2>4, <2>5
  <2>8. DecisionSurvives'
    BY <2>1 DEF DecisionSurvives, TimeKept, Least
  <2>9. /\ now' <= Available' + lag' /\ now' <= Available' - cleanup_reserve' + lag'
    <3>1. now' = 0 /\ lag' = 0
      BY <2>1
    <3>2. \A a \in Nat, c \in Nat : c <= a => 0 <= a + 0 /\ 0 <= a - c + 0
      OBVIOUS
    <3>3. 0 <= Available' + 0 /\ 0 <= Available' - cleanup_reserve' + 0
      BY <2>7, <3>2
    <3> QED BY <3>1, <3>3
  <2>10. phase' \notin Preparing
    BY <2>1 DEF Preparing
  <2> QED BY <2>1, <2>6, <2>8, <2>9, <2>10 DEF TimeKept
<1>3. CASE StartStructured \/ StartTelemetry
  <2>1. PICK stage \in {"structured", "telemetry"}, cap \in Nat :
          /\ Await(stage, BeforeCleanup, cap) \/ Skip(stage)
          /\ phase = (IF stage = "structured" THEN "gap_structured" ELSE "gap_telemetry")
    BY <1>3 DEF StartStructured, StartTelemetry
  <2>2. PlanStays /\ UNCHANGED <<now, lag, observation_deadline, ending>>
    BY <1>3 DEF StartStructured, StartTelemetry, PlanStays, clockVars, configVars, planVars, resultVars
  <2>3. (phase' = stage /\ until' <= BeforeCleanup) \/ phase' = Follows(stage)
    BY <2>1, <1>a, Awaited, LimitsAreTimes DEF Stages
  <2>4. phase \in BeforeSaving /\ phase \in Gaps /\ phase # "running"
    BY <2>1 DEF BeforeSaving, Gaps
  <2>5. phase' \in {"structured", "telemetry", "gap_telemetry", "gap_screenshot"}
        /\ phase' \in Stages \cup Gaps /\ phase' \in BeforeSaving
        /\ (phase' \in Preparing => until' <= BeforeCleanup)
    BY <2>3, FollowsIs DEF Stages, Gaps, BeforeSaving, Preparing
  <2>6. DecisionSurvives'
    BY <2>2 DEF DecisionSurvives, PlanStays, Least, TimeKept
  <2> QED BY <2>2, <2>4, <2>5, <2>6, LimitsStay, <1>b DEF TimeKept, PlanStays
<1>4. CASE StartScreenshot
  <2>1. phase = "gap_screenshot" /\ PlanStays /\ UNCHANGED <<now, lag, ending>>
        /\ observation_deadline' = Least(BeforeCleanup, now + OBSERVATION)
    BY <1>4 DEF StartScreenshot, PlanStays, clockVars, configVars, resultVars
  <2>2. observation_deadline' \in Int /\ observation_deadline' <= BeforeCleanup
    BY <2>1, <1>a, LimitsAreTimes DEF Least
  <2>3. \/ phase' = "screenshot" /\ until' <= BeforeCleanup
        \/ phase' = "gap_ui" \/ phase' = "gap_trajectory"
    <3>1. CASE Await("screenshot", observation_deadline', OBSERVATION)
      <4>1. until' \in Int /\ ((phase' = "screenshot" /\ until' <= observation_deadline')
                               \/ phase' = Follows("screenshot"))
        BY <3>1, <2>2, <1>a, Awaited DEF Stages
      <4> QED BY <4>1, <2>2, LimitsAreTimes, FollowsIs
    <3>2. CASE Skip("ui")
      BY <3>2, FollowsIs DEF Skip
    <3> QED BY <1>4, <3>1, <3>2 DEF StartScreenshot
  <2>4. DecisionSurvives'
    BY <2>1 DEF DecisionSurvives, PlanStays, Least, TimeKept
  <2> QED BY <2>1, <2>2, <2>3, <2>4, LimitsStay, <1>b DEF TimeKept, PlanStays, Stages, Gaps, BeforeSaving, Preparing
<1>5. CASE StartUi
  <2>1. phase = "gap_ui" /\ PlanStays /\ UNCHANGED <<now, lag, observation_deadline, ending>>
        /\ Await("ui", observation_deadline, OBSERVATION) /\ observation_deadline <= BeforeCleanup
    BY <1>5 DEF StartUi, PlanStays, clockVars, configVars, planVars, resultVars, TimeKept
  <2>2. (phase' = "ui" /\ until' <= BeforeCleanup) \/ phase' = "gap_trajectory"
    <3>1. until' \in Int /\ ((phase' = "ui" /\ until' <= observation_deadline) \/ phase' = Follows("ui"))
      BY <2>1, <1>a, Awaited DEF Stages
    <3> QED BY <3>1, <2>1, <1>a, LimitsAreTimes, FollowsIs
  <2>3. DecisionSurvives'
    BY <2>1 DEF DecisionSurvives, PlanStays, Least, TimeKept
  <2> QED BY <2>1, <2>2, <2>3, LimitsStay, <1>b DEF TimeKept, PlanStays, Stages, Gaps, BeforeSaving, Preparing
<1>6. CASE StartTrajectory
  <2>1. phase = "gap_trajectory" /\ PlanStays /\ UNCHANGED <<now, lag, ending>>
    BY <1>6 DEF StartTrajectory, PlanStays, clockVars, configVars, resultVars
  <2>2. Planned /\ now <= Available - cleanup_reserve + lag
    BY <2>1, <1>b DEF TimeKept, BeforeSaving
  <2>3. until' \in Int /\ ((phase' = "trajectory" /\ until' <= deadline - McpReserve) \/ phase' = "gap_mcp")
    <3>1. CASE ~saves_trajectory
      BY <1>6, <3>1, <1>a, FollowsIs DEF StartTrajectory, Skip
    <3>2. CASE saves_trajectory
      <4>1. Await("trajectory", deadline - McpReserve, TRAJECTORY) /\ deadline - McpReserve \in Int
        BY <1>6, <3>2, <1>a, LimitsAreTimes DEF StartTrajectory
      <4> QED BY <4>1, <1>a, Awaited, FollowsIs DEF Stages
    <3> QED BY <3>1, <3>2
  <2>4. has_mcp => deadline - McpReserve <= Available - McpShare + lag
    <3> SUFFICES ASSUME has_mcp PROVE deadline - McpReserve <= Available - McpShare + lag
      OBVIOUS
    <3>1. McpReserve = Least(MCP, Most(0, deadline - now) \div 2)
      BY DEF McpReserve
    <3>2. McpShare = Least(MCP, cleanup_reserve \div 2) /\ Available = Most(0, deadline)
      BY DEF McpShare, Available
    <3> QED BY <1>a, <2>2, <3>1, <3>2, SharesFit DEF Least, Most
  <2>5. now <= Available - McpShare + lag /\ deadline - McpReserve <= deadline
        /\ Available \in Nat /\ McpShare \in Nat /\ McpReserve \in Nat
    BY <1>a, <2>2, SharesFit, LimitsAreTimes
  <2>6. DecisionSurvives'
    BY <2>1 DEF DecisionSurvives, PlanStays, Least, TimeKept
  <2>7. /\ Planned' /\ now' <= Available' + lag' /\ has_mcp' = has_mcp
        /\ now' <= Available' - McpShare' + lag'
        /\ (phase' = "trajectory" => until' <= deadline')
        /\ (phase' = "trajectory" /\ has_mcp => until' <= Available' - McpShare' + lag')
    BY <1>a, <2>1, <2>2, <2>3, <2>4, <2>5, LimitsStay DEF PlanStays
  <2>8. phase' \notin BeforeSaving /\ phase' # "running"
    BY <2>3 DEF BeforeSaving, Preparing
  <2> QED BY <2>3, <2>6, <2>7, <2>8 DEF TimeKept, BeforeSaving
<1>7. CASE StartMcp
  <2>1. phase = "gap_mcp" /\ PlanStays /\ UNCHANGED <<now, lag, ending>>
    BY <1>7 DEF StartMcp, PlanStays, clockVars, configVars, planVars, resultVars
  <2>2. until' \in Int /\ ((phase' = "mcp" /\ until' <= deadline) \/ phase' = "gap_return")
    <3>1. CASE ~has_mcp
      BY <1>7, <3>1, FollowsIs DEF StartMcp, Skip
    <3>2. CASE has_mcp
      BY <1>7, <3>2, <1>a, Awaited, FollowsIs DEF StartMcp, Stages
    <3> QED BY <3>1, <3>2
  <2>3. DecisionSurvives'
    BY <2>1 DEF DecisionSurvives, PlanStays, Least, TimeKept
  <2>4. phase' \notin BeforeSaving /\ phase' # "running"
    BY <2>2 DEF BeforeSaving, Preparing
  <2>5. Planned /\ now <= Available + lag
    BY <2>1, <1>b DEF TimeKept, Gaps
  <2> QED BY <2>1, <2>2, <2>3, <2>4, <2>5, LimitsStay DEF TimeKept, PlanStays, BeforeSaving
<1>8. CASE StageEnds \/ StageTimesOut \/ (McpDisconnects /\ phase = "mcp")
  <2>1. phase \in Stages /\ phase' = Follows(phase) /\ PlanStays
        /\ UNCHANGED <<now, lag, observation_deadline, ending>>
    BY <1>8 DEF StageEnds, StageTimesOut, McpDisconnects, Skip, Stages, PlanStays, clockVars,
       configVars, planVars, resultVars
  <2> QED BY <2>1, TimeAfterStage
<1>9. CASE WriterStops /\ phase = "trajectory"
  <2>1. phase \in Stages /\ phase' = Follows(phase) /\ PlanStays
        /\ UNCHANGED <<now, lag, observation_deadline, ending>>
    BY <1>9 DEF WriterStops, Skip, Stages, PlanStays, clockVars, configVars, planVars
  <2> QED BY <2>1, TimeAfterStage
<1>10. CASE (WriterStops /\ phase # "trajectory") \/ (McpDisconnects /\ phase # "mcp")
  <2>1. UNCHANGED <<clockVars, configVars, planVars, phase, until, ending>>
    BY <1>10 DEF WriterStops, McpDisconnects, resultVars
  <2> QED BY <2>1, <1>1
<1>11. CASE Return \/ (\E how \in {"timed_out", "cancelled"} : Interrupted(how))
  <2>1. phase \in Stages \cup Gaps /\ phase' = "over" /\ PlanStays /\ UNCHANGED <<now, lag>>
    BY <1>11 DEF Return, Interrupted, Gaps, PlanTypes, PlanStays, clockVars, configVars, planVars
  <2>2. Planned /\ now <= Available + lag
    BY <2>1, <1>b DEF TimeKept, Stages, Gaps
  <2>3. ending' = "timed_out" => now >= workflow_deadline
    BY <1>11 DEF Return, Interrupted, TimedOut
  <2>4. Available = Most(0, deadline) /\ deadline <= workflow_deadline - RESERVE /\ workflow_deadline \in Nat
    BY <2>2 DEF Available, Planned, WorkflowLimit, PlanTypes
  <2>5. ending' = "timed_out" => lag >= Least(RESERVE, workflow_deadline)
    BY <1>a, <2>2, <2>3, <2>4 DEF Most, Least
  <2>6. DecisionSurvives'
    BY <2>1, <2>5 DEF DecisionSurvives, PlanStays
  <2> QED BY <2>1, <2>2, <2>6, LimitsStay DEF TimeKept, Stages, Gaps, BeforeSaving, Preparing
<1>12. CASE Tick
  <2>1. PlanStays /\ now' = now + 1 /\ UNCHANGED <<lag, observation_deadline, phase, until, ending>>
        /\ phase \in Stages \cup {"over"} /\ (phase \in Stages => now < until)
    BY <1>12 DEF Tick, PlanStays, configVars, planVars, resultVars
  <2>2. DecisionSurvives'
    BY <2>1 DEF DecisionSurvives, PlanStays, Least, TimeKept
  <2>3. Planned /\ until \in Int /\ phase # "running"
    BY <2>1, <1>b DEF PlanTypes, Stages
  <2>4. phase \in Stages => phase \in Preparing \cup {"trajectory", "mcp"}
    BY DEF Stages, Preparing
  <2>5. phase \in Stages => until <= deadline
    BY <2>3, <2>4, <1>a, SharesFit DEF TimeKept
  <2>6. phase \in Stages => now' <= Available + lag
    BY <2>1, <2>3, <2>5, <1>a, SharesFit
  <2>7. phase \in Preparing => now' <= Available - cleanup_reserve + lag
    BY <2>1, <2>3, <1>a, SharesFit DEF TimeKept, Preparing, Stages
  <2>8. phase \in BeforeSaving => phase \in Preparing
    BY <2>1 DEF BeforeSaving, Preparing, Stages
  <2>9. phase = "trajectory" /\ has_mcp => now' <= Available - McpShare + lag
    BY <2>1, <2>3, <1>a, SharesFit DEF TimeKept, Stages
  <2>10. phase \notin Gaps
    BY <2>1 DEF Stages, Gaps
  <2> QED BY <2>1, <2>2, <2>3, <2>6, <2>7, <2>8, <2>9, <2>10, LimitsStay DEF TimeKept, PlanStays, Gaps
<1>13. CASE Lag
  <2>1. PlanStays /\ now' = now + 1 /\ lag' = lag + 1 /\ phase \in Gaps
        /\ UNCHANGED <<observation_deadline, phase, until, ending>>
    BY <1>13 DEF Lag, PlanStays, configVars, planVars, resultVars
  <2>2. DecisionSurvives'
    <3>1. RESERVE \in Int /\ workflow_deadline \in Int /\ workflow_deadline' = workflow_deadline
      BY <2>1 DEF PlanTypes, PlanStays
    <3> QED BY <2>1, <3>1, <1>a DEF DecisionSurvives, Least, TimeKept
  <2>3. Planned /\ phase # "running"
    BY <2>1, <1>b DEF Gaps
  <2> QED BY <1>a, <2>1, <2>2, <2>3, SharesFit, LimitsStay DEF TimeKept, PlanStays, Gaps, Stages, Preparing
<1> QED
  <2>1. CASE RecordScreenshot \/ RecordEvent \/ WriteStep \/ WorkerTakes \/ WorkerWrites \/ UNCHANGED epilogVars
    <3>1. UNCHANGED <<clockVars, configVars, planVars, phase, until, ending>>
      BY <2>1 DEF RecordScreenshot, RecordEvent, WriteStep, WorkerTakes, WorkerWrites, epilogVars, resultVars
    <3> QED BY <3>1, <1>1
  <2> QED BY <2>1, <1>2, <1>3, <1>4, <1>5, <1>6, <1>7, <1>8, <1>9, <1>10, <1>11, <1>12, <1>13
     DEF EpilogNext, RunNext, WorkerNext, LoopNext, FinalizeNext, Interruptions, EpilogOver

-----------------------------------------------------------------------------
(* What the run recorded is on its way to the disk, on it, or lost.        *)

AfterWrite == {"trajectory", "gap_mcp", "mcp", "gap_return", "over"}
IsEvents(j) == j.kind = "events"
NoEventsQueued == \A k \in 1..Len(queue) : ~IsEvents(queue[k])

\* The last events job there is holds them all, or it is done.
EventsOnTheWay ==
  \/ Events(events) \in lost
  \/ \E k \in 1..Len(queue) : /\ queue[k] = Events(events)
                              /\ \A m \in k + 1..Len(queue) : ~IsEvents(queue[m])
  \/ NoEventsQueued /\ worker = "writing" /\ job = Events(events)
  \/ NoEventsQueued /\ (worker = "writing" => ~IsEvents(job)) /\ disk.events = events

ScreenshotOnTheWay(i) ==
  \/ i >= screenshot_count - Len(screenshot_queue)
  \/ Screenshot(i, i + 1) \in lost
  \/ \E k \in 1..Len(queue) : queue[k] = Screenshot(i, i + 1)
  \/ worker = "writing" /\ job = Screenshot(i, i + 1)
  \/ <<i, i + 1>> \in disk.screenshots

EventsKept ==
  trajectory_written => /\ phase \in AfterWrite /\ screenshot_queue = <<>>
                        /\ EventsOnTheWay
ScreenshotsKept == \A i \in 0..screenshot_count - 1 : ScreenshotOnTheWay(i)
SavedKept == saved => trajectory_written /\ queue = <<>> /\ worker # "writing"

LEMMA DiskAfter ==
  ASSUME WriterTypes, NEW j \in Jobs
  PROVE  /\ IsEvents(j) => /\ Written(j).events = j.value
                           /\ Written(j).screenshots = disk.screenshots
                           /\ Truncated(j).screenshots = disk.screenshots
         /\ ~IsEvents(j) => Written(j).events = disk.events /\ Truncated(j).events = disk.events
         /\ \A i \in Nat :
              /\ j = Screenshot(i, i + 1) => <<i, i + 1>> \in Written(j).screenshots
              /\ <<i, i + 1>> \in disk.screenshots =>
                   /\ <<i, i + 1>> \in Written(j).screenshots
                   /\ <<i, i + 1>> \in Truncated(j).screenshots \/ j = Screenshot(i, i + 1)
<1>1. disk = [events |-> disk.events, screenshots |-> disk.screenshots]
  BY DEF WriterTypes
<1>2. CASE IsEvents(j)
  <2>1. Written(j) = [disk EXCEPT !.events = j.value] /\ Truncated(j) = [disk EXCEPT !.events = Torn]
    BY <1>2 DEF IsEvents, Written, Truncated
  <2>2. /\ Written(j).events = j.value /\ Written(j).screenshots = disk.screenshots
        /\ Truncated(j).screenshots = disk.screenshots
    BY <1>1, <2>1
  <2>3. \A i \in Nat : j # Screenshot(i, i + 1)
    BY <1>2 DEF IsEvents, Screenshot
  <2> QED BY <1>2, <2>2, <2>3
<1>3. CASE ~IsEvents(j)
  <2> DEFINE kept == {s \in disk.screenshots : s[1] # j.value[1]}
  <2>1. PICK n \in Nat : j = Screenshot(n, n + 1) /\ j.value = <<n, n + 1>>
    BY <1>3, JobIs DEF IsEvents
  <2>2. Written(j) = [disk EXCEPT !.screenshots = kept \cup {j.value}]
        /\ Truncated(j) = [disk EXCEPT !.screenshots = kept]
    BY <1>3 DEF IsEvents, Written, Truncated
  <2>3. \A i \in Nat : <<i, i + 1>> \in disk.screenshots => <<i, i + 1>> \in kept \/ i = n
    BY <2>1
  <2> HIDE DEF kept
  <2>4. /\ Written(j).events = disk.events /\ Truncated(j).events = disk.events
        /\ Written(j).screenshots = kept \cup {j.value} /\ Truncated(j).screenshots = kept
    BY <1>1, <2>2
  <2>5. \A i \in Nat : j = Screenshot(i, i + 1) => j.value = <<i, i + 1>>
    BY DEF Screenshot
  <2> QED BY <1>3, <2>1, <2>3, <2>4, <2>5
<1> QED BY <1>2, <1>3

\* After a job is done or cut off, the disk holds what it held, or the job is lost.
DiskDone == \/ disk' = Written(job) /\ UNCHANGED lost
            \/ disk' \in {disk, Written(job), Truncated(job)} /\ job \in lost' /\ lost \subseteq lost'

LEMMA JobDone ==
  ASSUME WriterTypes, worker = "writing", DiskDone
  PROVE  /\ job \in Jobs /\ lost \subseteq lost'
         /\ ~IsEvents(job) => disk'.events = disk.events
         /\ \A n \in Nat : job = Events(n) => disk'.events = n \/ Events(n) \in lost'
         /\ \A i \in Nat :
              job = Screenshot(i, i + 1) \/ <<i, i + 1>> \in disk.screenshots
                => <<i, i + 1>> \in disk'.screenshots \/ Screenshot(i, i + 1) \in lost'
<1>1. job \in Jobs
  BY DEF WriterTypes
<1>2. \A n \in Nat : job = Events(n) => IsEvents(job) /\ job.value = n
  BY DEF Events, IsEvents
<1>3. lost \subseteq lost'
  BY DEF DiskDone
<1>4. ~IsEvents(job) => disk'.events = disk.events
  BY <1>1, DiskAfter DEF DiskDone
<1>5. \A n \in Nat : job = Events(n) => disk'.events = n \/ Events(n) \in lost'
  BY <1>1, <1>2, DiskAfter DEF DiskDone
<1>6. ASSUME NEW i \in Nat, job = Screenshot(i, i + 1) \/ <<i, i + 1>> \in disk.screenshots
      PROVE  <<i, i + 1>> \in disk'.screenshots \/ Screenshot(i, i + 1) \in lost'
  <2>1. \A n \in Nat : <<n, n + 1>> \in disk.screenshots =>
          <<n, n + 1>> \in Truncated(job).screenshots \/ job = Screenshot(n, n + 1)
    BY <1>1, DiskAfter
  <2>2. <<i, i + 1>> \in Written(job).screenshots
    BY <1>1, <1>6, DiskAfter
  <2> QED BY <1>6, <2>1, <2>2 DEF DiskDone
<1> QED BY <1>1, <1>3, <1>4, <1>5, <1>6

LEMMA EventsSurvive ==
  ASSUME WriterTypes, EventsOnTheWay, events \in Nat, events' = events,
         \/ WorkerTakes
         \/ UNCHANGED queue /\ worker = "writing" /\ worker' # "writing" /\ DiskDone
         \/ UNCHANGED <<queue, disk>> /\ worker # "writing" /\ worker' # "writing" /\ lost \subseteq lost'
  PROVE  EventsOnTheWay'
<1>1. CASE WorkerTakes
  <2>1. /\ queue # <<>> /\ job' = queue[1] /\ queue' = Tail(queue) /\ worker' = "writing" /\ worker = "idle"
        /\ UNCHANGED <<disk, lost>>
    BY <1>1 DEF WorkerTakes, WriterTypes
  <2>2. Len(queue') = Len(queue) - 1 /\ Len(queue) \in Nat /\ 1 \in 1..Len(queue)
        /\ \A k \in 1..Len(queue') : queue'[k] = queue[k + 1]
    BY <2>1 DEF WriterTypes
  <2>3. CASE Events(events) \in lost
    BY <2>1, <2>3 DEF EventsOnTheWay
  <2>4. CASE \E k \in 1..Len(queue) : /\ queue[k] = Events(events)
                                      /\ \A m \in k + 1..Len(queue) : ~IsEvents(queue[m])
    <3>1. PICK k \in 1..Len(queue) : /\ queue[k] = Events(events)
                                     /\ \A m \in k + 1..Len(queue) : ~IsEvents(queue[m])
      BY <2>4
    <3>2. CASE k = 1
      <4>1. job' = Events(events') /\ NoEventsQueued'
        BY <2>1, <2>2, <3>1, <3>2 DEF NoEventsQueued
      <4> QED BY <2>1, <4>1 DEF EventsOnTheWay
    <3>3. CASE k # 1
      <4>1. k - 1 \in 1..Len(queue') /\ queue'[k - 1] = Events(events')
        BY <2>2, <3>1, <3>3
      <4>2. \A m \in (k - 1) + 1..Len(queue') : ~IsEvents(queue'[m])
        BY <2>2, <3>1
      <4> QED BY <4>1, <4>2 DEF EventsOnTheWay
    <3> QED BY <3>2, <3>3
  <2>5. CASE NoEventsQueued /\ disk.events = events
    <3>1. NoEventsQueued' /\ ~IsEvents(job')
      BY <2>1, <2>2, <2>5 DEF NoEventsQueued
    <3> QED BY <2>1, <2>5, <3>1 DEF EventsOnTheWay
  <2> QED BY <2>1, <2>3, <2>4, <2>5 DEF EventsOnTheWay
<1>2. CASE UNCHANGED queue /\ worker = "writing" /\ worker' # "writing" /\ DiskDone
  <2>1. lost \subseteq lost' /\ (~IsEvents(job) => disk'.events = disk.events)
        /\ (job = Events(events) => disk'.events = events \/ Events(events) \in lost')
    BY <1>2, JobDone
  <2> QED BY <1>2, <2>1 DEF EventsOnTheWay, NoEventsQueued
<1>3. CASE UNCHANGED <<queue, disk>> /\ worker # "writing" /\ worker' # "writing" /\ lost \subseteq lost'
  BY <1>3 DEF EventsOnTheWay, NoEventsQueued
<1> QED BY <1>1, <1>2, <1>3

LEMMA ScreenshotsSurvive ==
  ASSUME WriterTypes, NEW i \in Nat, ScreenshotOnTheWay(i),
         UNCHANGED <<screenshot_queue, screenshot_count>>,
         \/ WorkerTakes
         \/ UNCHANGED queue /\ worker = "writing" /\ worker' # "writing" /\ DiskDone
         \/ UNCHANGED <<queue, disk>> /\ worker # "writing" /\ worker' # "writing" /\ lost \subseteq lost'
  PROVE  ScreenshotOnTheWay(i)'
<1>1. CASE WorkerTakes
  <2>1. /\ queue # <<>> /\ job' = queue[1] /\ queue' = Tail(queue) /\ worker' = "writing" /\ worker = "idle"
        /\ UNCHANGED <<disk, lost>>
    BY <1>1 DEF WorkerTakes, WriterTypes
  <2>2. Len(queue') = Len(queue) - 1 /\ Len(queue) \in Nat
        /\ \A k \in 1..Len(queue') : queue'[k] = queue[k + 1]
    BY <2>1 DEF WriterTypes
  <2>3. \A k \in 1..Len(queue) : k = 1 \/ (k - 1 \in 1..Len(queue') /\ queue'[k - 1] = queue[k])
    BY <2>2
  <2> QED BY <2>1, <2>3 DEF ScreenshotOnTheWay
<1>2. CASE UNCHANGED queue /\ worker = "writing" /\ worker' # "writing" /\ DiskDone
  <2>1. /\ lost \subseteq lost'
        /\ job = Screenshot(i, i + 1) \/ <<i, i + 1>> \in disk.screenshots
                => <<i, i + 1>> \in disk'.screenshots \/ Screenshot(i, i + 1) \in lost'
    BY <1>2, JobDone
  <2> QED BY <1>2, <2>1 DEF ScreenshotOnTheWay
<1>3. CASE UNCHANGED <<queue, disk>> /\ worker # "writing" /\ worker' # "writing" /\ lost \subseteq lost'
  BY <1>3 DEF ScreenshotOnTheWay
<1> QED BY <1>1, <1>2, <1>3

\* A write puts the events last among the events jobs, and every queued screenshot.
LEMMA WriteSendsAll ==
  ASSUME TrajectoryTypes, WriterTypes, WriteTrajectory
  PROVE  /\ EventsOnTheWay'
         /\ ScreenshotsKept => ScreenshotsKept'
<1>1. PICK fitting \in 0..Len(Writes) :
              /\ Len(queue') = Len(queue) + fitting
              /\ \A k \in 1..Len(queue) : queue'[k] = queue[k]
              /\ \A k \in 1..fitting : queue'[Len(queue) + k] = Writes[k]
              /\ \A k \in fitting + 1..Len(Writes) : Writes[k] \in lost'
  BY Wrote
<1>2. /\ screenshot_queue' = <<>> /\ lost \subseteq lost'
      /\ UNCHANGED <<events, screenshot_count, worker, running, job, disk>>
  BY Wrote
<1>3. Len(queue) \in Nat /\ Len(screenshot_queue) \in Nat /\ screenshot_count \in Nat
      /\ Len(screenshot_queue) <= screenshot_count
  BY DEF TrajectoryTypes, WriterTypes
<1>4. /\ Len(Writes) = Len(screenshot_queue) + 1
      /\ Writes[1] = Events(events)
      /\ \A k \in 2..Len(Writes) :
           LET i == screenshot_count - Len(screenshot_queue) + k - 2
           IN i \in Nat /\ Writes[k] = Screenshot(i, i + 1)
  BY WritesAre
<1> HIDE DEF Writes
<1>5. EventsOnTheWay'
  <2>1. CASE fitting = 0
    <3>1. Events(events') \in lost'
      BY <1>1, <1>2, <1>3, <1>4, <2>1
    <3> QED BY <3>1 DEF EventsOnTheWay
  <2>2. CASE fitting # 0
    <3> DEFINE k == Len(queue) + 1
    <3>1. k \in 1..Len(queue') /\ queue'[k] = Events(events')
      <4>1. 1 \in 1..fitting /\ k \in 1..Len(queue')
        BY <1>1, <1>3, <2>2
      <4>2. queue'[k] = Writes[1]
        BY <1>1, <4>1
      <4> QED BY <1>2, <1>4, <4>1, <4>2
    <3>2. ASSUME NEW m \in k + 1..Len(queue') PROVE ~IsEvents(queue'[m])
      <4>1. m - Len(queue) \in 2..fitting /\ queue'[m] = Writes[m - Len(queue)]
        <5>1. m - Len(queue) \in 1..fitting /\ Len(queue) + (m - Len(queue)) = m /\ m - Len(queue) >= 2
          BY <1>1, <1>3
        <5> QED BY <1>1, <5>1
      <4>2. PICK i \in Nat : queue'[m] = Screenshot(i, i + 1)
        <5>1. m - Len(queue) \in 2..Len(Writes)
          BY <1>1, <1>3, <1>4, <4>1
        <5> QED BY <1>4, <4>1, <5>1
      <4> QED BY <4>2 DEF IsEvents, Screenshot
    <3> HIDE DEF k
    <3> QED BY <3>1, <3>2 DEF EventsOnTheWay
  <2> QED BY <2>1, <2>2
<1>6. ASSUME ScreenshotsKept, NEW i \in 0..screenshot_count' - 1
      PROVE  ScreenshotOnTheWay(i)'
  <2>1. CASE i >= screenshot_count - Len(screenshot_queue)
    <3> DEFINE k == i - (screenshot_count - Len(screenshot_queue)) + 2
    <3>1. k \in 2..Len(Writes) /\ screenshot_count - Len(screenshot_queue) + k - 2 = i
      BY <1>2, <1>3, <1>4, <1>6, <2>1
    <3>2. Writes[k] = Screenshot(i, i + 1)
      BY <1>4, <3>1
    <3>3. k \in 1..fitting \/ k \in fitting + 1..Len(Writes)
      BY <3>1, <1>1, <1>3, <1>4
    <3>4. CASE k \in 1..fitting
      <4>1. Len(queue) + k \in 1..Len(queue') /\ queue'[Len(queue) + k] = Screenshot(i, i + 1)
        BY <1>1, <1>3, <3>2, <3>4
      <4> QED BY <4>1 DEF ScreenshotOnTheWay
    <3>5. CASE k \in fitting + 1..Len(Writes)
      BY <1>1, <3>2, <3>5 DEF ScreenshotOnTheWay
    <3> QED BY <3>3, <3>4, <3>5
  <2>2. CASE ~(i >= screenshot_count - Len(screenshot_queue))
    <3>1. ScreenshotOnTheWay(i)
      BY <1>2, <1>6 DEF ScreenshotsKept
    <3>2. \A k \in 1..Len(queue) : k \in 1..Len(queue') /\ queue'[k] = queue[k]
      BY <1>1, <1>3
    <3> QED BY <1>2, <2>2, <3>1, <3>2 DEF ScreenshotOnTheWay
  <2> QED BY <2>1, <2>2
<1> QED BY <1>5, <1>6 DEF ScreenshotsKept

EpilogIInv ==
  /\ PlanTypes /\ TrajectoryTypes /\ WriterTypes
  /\ TimeKept
  /\ EventsKept /\ ScreenshotsKept /\ SavedKept

\* Once the last write was made, the epilog does not come back to it.
LEMMA AfterWriteStays ==
  ASSUME [EpilogNext]_epilogVars, phase \in AfterWrite
  PROVE  /\ phase' \in AfterWrite
         /\ ~(RecordScreenshot \/ RecordEvent \/ WriteStep \/ StartTrajectory)
<1>1. phase \notin {"running", "gap_structured", "gap_telemetry", "gap_screenshot", "gap_ui",
                    "gap_trajectory", "structured", "telemetry", "screenshot", "ui"}
  BY DEF AfterWrite
<1>2. ~(\/ RecordScreenshot \/ RecordEvent \/ WriteStep \/ BeginFinalize \/ StartStructured
        \/ StartTelemetry \/ StartScreenshot \/ StartUi \/ StartTrajectory \/ StageEnds)
  BY <1>1 DEF RecordScreenshot, RecordEvent, WriteStep, BeginFinalize, StartStructured,
     StartTelemetry, StartScreenshot, StartUi, StartTrajectory, StageEnds
<1> SUFFICES phase' \in AfterWrite
  BY <1>2
<1>3. CASE StartMcp
  BY <1>3, FollowsIs DEF StartMcp, Await, Skip, AfterWrite
<1>4. CASE StageTimesOut \/ (McpDisconnects /\ phase = "mcp")
  BY <1>1, <1>4, FollowsIs DEF StageTimesOut, McpDisconnects, Skip, Stages, AfterWrite
<1>5. CASE WriterStops /\ phase = "trajectory"
  BY <1>5, FollowsIs DEF WriterStops, Skip, AfterWrite
<1>6. CASE Return \/ (\E how \in {"timed_out", "cancelled"} : Interrupted(how))
  BY <1>6 DEF Return, Interrupted, AfterWrite
<1>7. CASE (McpDisconnects /\ phase # "mcp") \/ (WriterStops /\ phase # "trajectory")
           \/ WorkerTakes \/ WorkerWrites \/ Tick \/ Lag \/ UNCHANGED epilogVars
  BY <1>7 DEF McpDisconnects, WriterStops, WorkerTakes, WorkerWrites, Tick, Lag, epilogVars
<1> QED
  BY <1>2, <1>3, <1>4, <1>5, <1>6, <1>7
     DEF EpilogNext, RunNext, WorkerNext, LoopNext, FinalizeNext, Interruptions, EpilogOver

\* What the worker and its end do to a job, in one form.
LEMMA WorkerDone ==
  ASSUME WriterTypes, WorkerWrites \/ WriterStops
  PROVE  /\ UNCHANGED <<queue, events, screenshot_queue, screenshot_count, trajectory_written>>
         /\ worker' # "writing"
         /\ \/ worker = "writing" /\ DiskDone
            \/ worker # "writing" /\ UNCHANGED disk /\ lost \subseteq lost'
<1>1. CASE WorkerWrites
  BY <1>1 DEF WorkerWrites, DiskDone, trajectoryVars, stopVars
<1>2. CASE WriterStops
  <2>1. CutOff /\ UNCHANGED <<events, screenshot_queue, screenshot_count, trajectory_written>>
    BY <1>2 DEF WriterStops, trajectoryVars
  <2>2. CASE worker = "writing"
    BY <2>1, <2>2 DEF CutOff, DiskDone
  <2>3. CASE worker # "writing"
    BY <2>1, <2>3 DEF CutOff
  <2> QED BY <2>1, <2>2, <2>3 DEF CutOff
<1> QED BY <1>1, <1>2

LEMMA EventsKeptKept == EpilogIInv /\ [EpilogNext]_epilogVars => EventsKept'
<1> SUFFICES ASSUME EpilogIInv, [EpilogNext]_epilogVars, trajectory_written'
             PROVE  phase' \in AfterWrite /\ screenshot_queue' = <<>> /\ EventsOnTheWay'
  BY DEF EventsKept
<1>a. TrajectoryTypes /\ WriterTypes /\ EventsKept /\ events \in Nat
  BY DEF EpilogIInv, TrajectoryTypes
<1>1. CASE StartTrajectory /\ LastWrite
  <2>1. phase' \in AfterWrite
    BY <1>1, FollowsIs DEF StartTrajectory, Await, Skip, AfterWrite
  <2> QED BY <1>1, <2>1, <1>a, Wrote, WriteSendsAll DEF LastWrite
<1>2. CASE ~(StartTrajectory /\ LastWrite)
  <2>1. trajectory_written
    BY <1>2, WriterSteps DEF WriterQuiet, RecordScreenshot, RecordEvent, WriteStep, WorkerTakes,
       WorkerWrites, WriterStops, stopVars
  <2>2. phase \in AfterWrite /\ screenshot_queue = <<>> /\ EventsOnTheWay
    BY <1>a, <2>1 DEF EventsKept
  <2>3. phase' \in AfterWrite /\ ~(RecordScreenshot \/ RecordEvent \/ WriteStep)
    BY <2>2, AfterWriteStays
  <2>4. CASE WriterQuiet
    BY <2>2, <2>3, <2>4 DEF WriterQuiet, EventsOnTheWay, NoEventsQueued
  <2>5. CASE WorkerTakes
    <3>1. events' = events /\ screenshot_queue' = screenshot_queue
      BY <2>5 DEF WorkerTakes, trajectoryVars
    <3> QED BY <1>a, <2>2, <2>3, <2>5, <3>1, EventsSurvive
  <2>6. CASE WorkerWrites \/ WriterStops
    <3>1. EventsOnTheWay'
      BY <1>a, <2>2, <2>6, WorkerDone, EventsSurvive
    <3> QED BY <1>a, <2>2, <2>3, <2>6, <3>1, WorkerDone
  <2> QED BY <1>2, <2>3, <2>4, <2>5, <2>6, WriterSteps
<1> QED BY <1>1, <1>2

LEMMA ScreenshotsKeptKept == EpilogIInv /\ [EpilogNext]_epilogVars => ScreenshotsKept'
<1> SUFFICES ASSUME EpilogIInv, [EpilogNext]_epilogVars PROVE ScreenshotsKept'
  OBVIOUS
<1>a. TrajectoryTypes /\ WriterTypes /\ ScreenshotsKept
  BY DEF EpilogIInv
<1>1. CASE WriterQuiet
  BY <1>a, <1>1 DEF WriterQuiet, ScreenshotsKept, ScreenshotOnTheWay
<1>2. CASE RecordScreenshot \/ RecordEvent
  <2>1. /\ UNCHANGED <<queue, worker, job, disk, lost>>
        /\ \/ UNCHANGED <<screenshot_queue, screenshot_count>>
           \/ screenshot_count' = screenshot_count + 1 /\ screenshot_queue' = Append(screenshot_queue, screenshot_count')
    BY <1>2 DEF RecordScreenshot, RecordEvent, writerVars
  <2>2. CASE UNCHANGED <<screenshot_queue, screenshot_count>>
    BY <1>a, <2>1, <2>2 DEF ScreenshotsKept, ScreenshotOnTheWay
  <2>3. CASE screenshot_count' = screenshot_count + 1 /\ screenshot_queue' = Append(screenshot_queue, screenshot_count')
    <3>1. /\ screenshot_count \in Nat /\ Len(screenshot_queue) \in Nat
          /\ Len(screenshot_queue') = Len(screenshot_queue) + 1
      BY <1>a, <2>3 DEF TrajectoryTypes
    <3>2. ASSUME NEW i \in 0..screenshot_count' - 1 PROVE ScreenshotOnTheWay(i)'
      <4>1. CASE i \in 0..screenshot_count - 1
        <5>1. ScreenshotOnTheWay(i)
          BY <1>a, <4>1 DEF ScreenshotsKept
        <5> QED BY <2>1, <2>3, <3>1, <4>1, <5>1 DEF ScreenshotOnTheWay
      <4>2. CASE i = screenshot_count
        BY <2>3, <3>1, <4>2 DEF ScreenshotOnTheWay
      <4> QED BY <2>3, <3>1, <3>2, <4>1, <4>2
    <3> QED BY <3>2 DEF ScreenshotsKept
  <2> QED BY <2>1, <2>2, <2>3
<1>3. CASE WriteTrajectory
  BY <1>a, <1>3, WriteSendsAll
<1>4. CASE WorkerTakes \/ WorkerWrites \/ WriterStops
  <2>1. UNCHANGED <<screenshot_queue, screenshot_count>>
    BY <1>a, <1>4, WorkerDone DEF WorkerTakes, trajectoryVars
  <2>2. ASSUME NEW i \in 0..screenshot_count - 1 PROVE ScreenshotOnTheWay(i)'
    <3>1. ScreenshotOnTheWay(i) /\ i \in Nat
      BY <1>a DEF ScreenshotsKept, TrajectoryTypes
    <3> QED BY <1>a, <1>4, <2>1, <3>1, WorkerDone, ScreenshotsSurvive
  <2> QED BY <2>1, <2>2 DEF ScreenshotsKept
<1> QED BY <1>1, <1>2, <1>3, <1>4, WriterSteps DEF WriteStep, LastWrite

LEMMA SavedKeptKept == EpilogIInv /\ [EpilogNext]_epilogVars => SavedKept'
<1> SUFFICES ASSUME EpilogIInv, [EpilogNext]_epilogVars, saved'
             PROVE  trajectory_written' /\ queue' = <<>> /\ worker' # "writing"
  BY DEF SavedKept
<1>a. WriterTypes /\ EventsKept /\ SavedKept
  BY DEF EpilogIInv
<1>1. CASE saved
  <2>1. trajectory_written /\ queue = <<>> /\ worker # "writing" /\ phase \in AfterWrite
    BY <1>a, <1>1 DEF EventsKept, SavedKept
  <2>2. ~(RecordScreenshot \/ RecordEvent \/ WriteStep \/ StartTrajectory \/ WorkerTakes \/ WorkerWrites)
    BY <2>1, AfterWriteStays DEF WorkerTakes, WorkerWrites
  <2>3. CASE WriterQuiet
    BY <2>1, <2>3 DEF WriterQuiet
  <2>4. CASE WriterStops
    BY <1>a, <2>1, <2>4, WorkerDone
  <2> QED BY <2>2, <2>3, <2>4, WriterSteps
<1>2. CASE ~saved
  <2>1. WriterStops /\ phase = "trajectory"
    BY <1>2, WriterSteps DEF WriterQuiet, RecordScreenshot, RecordEvent, WriteStep, WorkerTakes,
       WorkerWrites, LastWrite, WriterStops, resultVars
  <2>2. saved' = trajectory_written /\ trajectory_written' = trajectory_written /\ Drained
    BY <2>1 DEF WriterStops
  <2> QED BY <1>a, <2>1, <2>2, WorkerDone DEF Drained
<1> QED BY <1>1, <1>2

LEMMA EpilogInitInvariant == EpilogInit => EpilogIInv
<1> SUFFICES ASSUME EpilogInit PROVE EpilogIInv
  OBVIOUS
<1> USE EpilogConstants
<1>1. saves_trajectory \in BOOLEAN /\ has_mcp \in BOOLEAN
  BY DEF EpilogInit
<1>2. PlanTypes
  BY <1>1 DEF EpilogInit, PlanTypes
<1>3. TrajectoryTypes
  BY DEF EpilogInit, TrajectoryTypes
<1>4. WriterTypes
  <2>1. queue = <<>> /\ disk = [events |-> 0, screenshots |-> {}] /\ job = NoJob
        /\ worker \in {"idle", "stopped"} /\ running \in BOOLEAN
        /\ trajectory_written = FALSE /\ saved = FALSE
    BY <1>1 DEF EpilogInit
  <2>2. queue \in Seq(Jobs) /\ Len(queue) <= QueueSize
    BY <2>1
  <2>3. disk \in [events : Int, screenshots : SUBSET (Nat \X Nat)]
    BY <2>1
  <2> QED BY <2>1, <2>2, <2>3 DEF WriterTypes
<1>5. TimeKept
  BY DEF EpilogInit, TimeKept, Stages, Gaps, BeforeSaving, Preparing, DecisionSurvives
<1>6. EventsKept /\ ScreenshotsKept /\ SavedKept
  BY DEF EpilogInit, EventsKept, ScreenshotsKept, SavedKept
<1> QED BY <1>2, <1>3, <1>4, <1>5, <1>6 DEF EpilogIInv

LEMMA EpilogNextInvariant == EpilogIInv /\ [EpilogNext]_epilogVars => EpilogIInv'
BY PlanTypesKept, TrajectoryTypesKept, WriterTypesKept, TimeKeptKept, EventsKeptKept,
   ScreenshotsKeptKept, SavedKeptKept DEF EpilogIInv

\* The inductive invariant of the epilog.
THEOREM EpilogInvariant == EpilogSpec => []EpilogIInv
BY EpilogInitInvariant, EpilogNextInvariant, PTL DEF EpilogSpec

\* Clock, plan, trajectory and writer have their types, and the writer's queue
\* never exceeds its size.
THEOREM EpilogTypeCorrect == EpilogSpec => []EpilogTypeOK
<1>1. EpilogIInv => EpilogTypeOK
  BY DEF EpilogIInv, PlanTypes, TrajectoryTypes, WriterTypes, EpilogTypeOK
<1> QED BY <1>1, EpilogInvariant, PTL

\* The result of a run is lost to its epilog only if the loop was held up
\* for as long as finalize keeps in reserve (_FINALIZE_SCHEDULING_RESERVE_SECONDS).
THEOREM DecisionSurvivesHolds == EpilogSpec => []DecisionSurvives
<1>1. EpilogIInv => DecisionSurvives
  BY DEF EpilogIInv, TimeKept
<1> QED BY <1>1, EpilogInvariant, PTL

\* Saving and disconnecting find the share of the budget kept for them.
THEOREM CleanupHasItsTimeHolds == EpilogSpec => []CleanupHasItsTime
<1>1. ASSUME EpilogIInv PROVE CleanupHasItsTime
  <2>1. PlanTypes /\ TimeKept
    BY <1>1 DEF EpilogIInv
  <2>2. phase = "gap_trajectory" => Available - now >= cleanup_reserve - lag /\ Planned
    BY <2>1, SharesFit DEF TimeKept, PlanTypes, BeforeSaving
  <2>3. phase = "gap_mcp" /\ has_mcp => Available - now >= McpShare - lag /\ Planned
    BY <2>1, SharesFit DEF TimeKept, PlanTypes
  <2> QED BY <2>2, <2>3 DEF CleanupHasItsTime, Planned, Available, McpShare
<1> QED BY <1>1, EpilogInvariant, PTL

\* A run that reports its trajectory saved has its events and each of its
\* screenshots on disk, or their jobs were dropped or failed.
THEOREM SavedIsSavedHolds == EpilogSpec => []SavedIsSaved
<1>1. ASSUME EpilogIInv PROVE SavedIsSaved
  <2> SUFFICES ASSUME saved
               PROVE  /\ disk.events = events \/ Events(events) \in lost
                      /\ \A i \in 0..screenshot_count - 1 :
                           <<i, i + 1>> \in disk.screenshots \/ Screenshot(i, i + 1) \in lost
    BY DEF SavedIsSaved
  <2>1. queue = <<>> /\ worker # "writing" /\ screenshot_queue = <<>> /\ EventsOnTheWay
    BY <1>1 DEF EpilogIInv, SavedKept, EventsKept
  <2>2. screenshot_count \in Nat /\ Len(queue) = 0 /\ Len(screenshot_queue) = 0
    BY <1>1, <2>1 DEF EpilogIInv, TrajectoryTypes
  <2>3. disk.events = events \/ Events(events) \in lost
    BY <2>1, <2>2 DEF EventsOnTheWay
  <2>4. ASSUME NEW i \in 0..screenshot_count - 1
        PROVE  <<i, i + 1>> \in disk.screenshots \/ Screenshot(i, i + 1) \in lost
    <3>1. ScreenshotOnTheWay(i)
      BY <1>1 DEF EpilogIInv, ScreenshotsKept
    <3> QED BY <2>1, <2>2, <3>1 DEF ScreenshotOnTheWay
  <2> QED BY <2>3, <2>4
<1> QED BY <1>1, EpilogInvariant, PTL
===============================================================================
