---------------------------- MODULE MacroReplay ----------------------------
(***************************************************************************)
(* What becomes of the macro a run has recorded (mobilerun/macro): another *)
(* process loads the file and plays it on the phone, which may show any    *)
(* screen by now.  Before each action the player waits until the screen is *)
(* like the one of the recording; where it is not, the player stops or     *)
(* hands over to an agent.  DeviceActions records the macro.               *)
(***************************************************************************)
EXTENDS DeviceActions

CONSTANTS
  MaxPolls        \* looks of the player before the state timeout has surely passed

ASSUME ReplayAssumption == MaxPolls \in Nat

VARIABLES
  player,     \* where MacroPlayer is
  policy,     \* on_mismatch
  macro,      \* the actions to play, after --start-from and --max-steps
  step, polls,
  seen,       \* the elements of the player's last snapshot
  failed,     \* failed_count
  verdict,    \* what the command line reports
  replayed    \* the last action that was begun: its step, its screen

playerVars == <<player, policy, macro, step, polls, seen, failed, verdict, replayed>>
replayVars == <<deviceVars, playerVars>>
course == <<policy, macro, step, failed>>

NotReplayed == [step |-> 0, screen |-> Nil, drift |-> FALSE]

\* The recorder's actions, or the driver's raw log when it has none.
Saved == IF actions # <<>> THEN actions ELSE log

\* A new process: nothing of the run is left but the file.  Its provider is the plain
\* Android one, whatever the recording's was.
Load ==
  /\ stage = "over" /\ recording /\ mode # "ios"
  /\ player = "idle" /\ Saved # <<>>
  /\ \E first \in 1..Len(Saved) + 1, last \in 0..Len(Saved) :
       first <= last + 1 /\ macro' = SubSeq(Saved, first, last)
  /\ policy' \in {"stop", "agent"}
  /\ player' = "step" /\ step' = 1
  /\ mode' = "plain" /\ drift' = FALSE
  /\ ui' = NoSnapshot /\ flags' = Nil /\ image' = "none" /\ blind' = FALSE
  /\ turn' = 0 /\ done' = 0 /\ actions' = <<>> /\ log' = <<>>
  /\ UNCHANGED <<recording, phoneVars, fetch, stage, call, pre, touch, limits>>
  /\ UNCHANGED <<polls, seen, failed, verdict, replayed>>

Finish(v) == player' = "done" /\ verdict' = v

\* The number of failed actions decides; an entry of the raw log has no guard.
NextStep ==
  /\ player = "step"
  /\ polls' = 0
  /\ IF step > Len(macro) THEN Finish(IF failed = 0 THEN "whole" ELSE "partial")
     ELSE /\ player' = IF macro[step].guard = Nil THEN "act" ELSE "look"
          /\ UNCHANGED verdict
  /\ UNCHANGED <<deviceVars, course, seen, replayed>>

\* get_current_state_snapshot
Look ==
  /\ player = "look"
  /\ service = "up"
  /\ seen' = Elements(mode, device) /\ drift' = FALSE
  /\ player' = "match" /\ fetch' = Fresh
  /\ UNCHANGED <<setting, phoneVars, prompt, flags, stage, agent, pre, actions, log, touch, limits>>
  /\ UNCHANGED <<course, polls, verdict, replayed>>

\* When all tries of the provider have failed the raw tree is read, in which no element is
\* found; if that fails too the replay is over.
LookFails ==
  /\ player = "look"
  /\ ReadBreaks
  /\ \/ /\ Retry
        /\ UNCHANGED <<player, seen, verdict>>
     \/ /\ fetch.tries + 1 = MAX_RETRIES
        /\ fetch' = Fresh /\ UNCHANGED service
        /\ \/ seen' = {} /\ player' = "match" /\ UNCHANGED verdict
           \/ Finish("error") /\ UNCHANGED seen
  /\ UNCHANGED <<setting, device, drift, prompt, flags, stage, agent, pre, actions, log, touch,
                 moves>>
  /\ UNCHANGED <<course, polls, replayed>>

\* compare_states: 85 parts for the common elements, and 15 for a phone that always agrees.
Similar(a, b) ==
  85 * Cardinality(a \cap b) + 15 * Cardinality(a \cup b) >= 85 * Cardinality(a \cup b)

\* wait_for_pre_state, and what replay_macro does when the time is over.
Match ==
  /\ player = "match"
  /\ \/ Similar(macro[step].guard, seen) /\ player' = "act" /\ UNCHANGED <<polls, verdict>>
     \/ /\ ~Similar(macro[step].guard, seen)
        /\ \/ /\ polls < MaxPolls /\ polls' = polls + 1
              /\ player' = "look" /\ UNCHANGED verdict
           \/ /\ IF policy = "stop" THEN Finish("diverged")
                 ELSE player' = "handed" /\ UNCHANGED verdict
              /\ UNCHANGED polls
  /\ UNCHANGED <<deviceVars, course, seen, replayed>>

\* replay_action: a failed action is counted, and the next one is played.
Act ==
  /\ player = "act"
  /\ player' = "step" /\ step' = step + 1
  /\ replayed' = [step |-> step, screen |-> device, drift |-> drift]
  /\ \/ /\ macro[step].act = "wait" /\ UNCHANGED <<device, faults, failed>>
     \/ /\ macro[step].act = "secret"                     \* no such credential
        /\ failed' = failed + 1 /\ UNCHANGED <<device, faults>>
     \/ /\ macro[step].act # "wait" /\ device' \in Views
        /\ \/ UNCHANGED <<failed, faults>>
           \/ failed' = failed + 1 /\ faults < MaxFaults /\ faults' = faults + 1
  /\ UNCHANGED <<setting, service, drift, prompt, flags, fetch, stage, agent, pre, actions, log,
                 touch, moves>>
  /\ UNCHANGED <<policy, macro, polls, seen, verdict>>

\* run_agent_handoff: a run of its own, whose result is the command's.
HandOver ==
  /\ player = "handed"
  /\ device' \in Views
  /\ Finish("agent")
  /\ UNCHANGED <<setting, service, drift, prompt, flags, fetch, stage, agent, pre, actions, log,
                 touch, limits>>
  /\ UNCHANGED <<course, polls, seen, replayed>>

----------------------------------------------------------------------------
ReplayInit ==
  /\ DeviceInit
  /\ player = "idle" /\ policy = "stop" /\ macro = <<>>
  /\ step = 0 /\ polls = 0 /\ seen = {} /\ failed = 0
  /\ verdict = "none" /\ replayed = NotReplayed

Player == NextStep \/ Look \/ LookFails \/ Match \/ Act \/ HandOver

ReplayNext ==
  \/ DeviceNext /\ UNCHANGED playerVars
  \/ Load
  \/ Player
  \/ player \notin {"idle", "done"} /\ (PhoneMoves \/ ServiceDies) /\ UNCHANGED playerVars

ReplaySpec == ReplayInit /\ [][ReplayNext]_replayVars

----------------------------------------------------------------------------
ReplayTypeOK ==
  /\ player \in {"idle", "step", "look", "match", "act", "handed", "done"}
  /\ policy \in {"stop", "agent"}
  /\ step \in 0..Len(macro) + 1
  /\ polls \in 0..MaxPolls
  /\ failed \in 0..Len(macro)
  /\ verdict \in {"none", "whole", "partial", "diverged", "agent", "error"}

\* An action is played on a screen with the elements the recorded one met, keyboard aside.
\* Excepted are guards without elements, actions the recorder did not read the screen for,
\* and a phone that moves by itself between the look and the action.
ReplayMeetsWhatWasMet ==
  \A i \in DOMAIN macro :
    i = replayed.step /\ macro[i].met # Nil /\ macro[i].guard # {} /\ ~replayed.drift
      => Similar(Elements("plain", replayed.screen), Elements("plain", macro[i].met))
=============================================================================
