------------------------------ MODULE JevSession ------------------------------
(***************************************************************************)
(* One session of the Jev agent (api/executor/jev): observe the phone,     *)
(* have Jev and its advisor decide, check that the screen is still the one *)
(* decided on, act, report, observe again (run.py _session, policy.py      *)
(* decide, device.py act).                                                 *)
(*                                                                         *)
(* The phone lives its own life: its screen may change at any moment, so   *)
(* at every await.  A screen is its fingerprint.  Which operation and      *)
(* target a model names is arbitrary among those it is offered; that the   *)
(* observation is older than 30 s may always be so.                        *)
(***************************************************************************)
EXTENDS Naturals, Sequences, FiniteSets

CONSTANTS
  Screens, LockedScreens, PackageOf(_), \* fingerprints, and the app on top
  Taps,            \* elements that can be tapped
  Moves,           \* other actions: keys, scrolls, text, apps to open
  Home, OpenApp,   \* two of the moves
  Wait,
  MaxSteps,        \* spec.max_steps
  HasAdvisor,      \* load_advisor found one
  MAX_TAPS_PER_SCREEN, MAX_REPEATS_PER_SCREEN, JEV_ATTEMPTS,
  StaleLimit,      \* stale decisions in a row
  None

Endings == {"done", "blocked", "needs_input", "step_limit", "stuck", "cycle",
            "loading_timeout", "unstable_screen", "input_unverified",
            "decision_limit", "locked", "failed", "closed"}

ASSUME JevAssumption ==
  /\ LockedScreens \subseteq Screens
  /\ Home \in Moves /\ OpenApp \in Moves /\ Home # OpenApp
  /\ Wait \notin Moves \cup Taps /\ None \notin Moves \cup Taps \cup {Wait}
  /\ Moves \cap Taps = {} /\ HasAdvisor \in BOOLEAN
  /\ None \notin Endings \cup {"left", "cancelled"}
  /\ {MaxSteps, MAX_TAPS_PER_SCREEN, MAX_REPEATS_PER_SCREEN, JEV_ATTEMPTS,
      StaleLimit} \subseteq Nat \ {0}

VARIABLES
  phone,        \* the screen of the phone
  pc,
  observation,  \* the screen the session decides on
  attempt,      \* passes of the loop
  asked,        \* requests to Jev for the current decision
  action,       \* the action decided on
  history,      \* executed actions, each with the screen it was decided on
  repeated,     \* actions executed since the screen was seen to change
  consecutive_stale,
  waiting,      \* waiting_since is set
  reported,     \* events of actions: how many of success, how many of failure
  sent,         \* inputs given to the phone for an action
  woken,        \* inputs that wake the phone, in no event yet
  still,        \* history: actions sent since the phone's screen last changed
  vain,         \* history: one of them was sent again
  outcome       \* the result event, or how the session ended without one

loopVars == <<attempt, asked, action, waiting, consecutive_stale>>
workVars == <<history, repeated, reported, sent, woken, still, vain>>
vars == <<phone, pc, observation, loopVars, workVars, outcome>>

Actions == Taps \cup Moves \cup {Wait}
NoOutcome == [kind |-> None, steps |-> 0]

Init ==
  /\ phone \in Screens
  /\ pc = "connect"
  /\ observation = phone
  /\ attempt = 0 /\ asked = 0 /\ action = None
  /\ history = <<>> /\ repeated = {}
  /\ consecutive_stale = 0 /\ waiting = FALSE
  /\ reported = [success |-> 0, failure |-> 0] /\ sent = 0 /\ woken = 0
  /\ still = {} /\ vain = FALSE
  /\ outcome = NoOutcome

-----------------------------------------------------------------------------
(* The phone.                                                              *)

\* What was sent is still fresh only while the screen stays the same.
ShowsNow(screen, sentNow) ==
  /\ phone' = screen
  /\ still' = IF screen = phone THEN still \cup sentNow ELSE {}

PhoneChanges ==
  /\ pc # "over"
  /\ \E screen \in Screens \ {phone} : ShowsNow(screen, {})
  /\ UNCHANGED <<pc, observation, loopVars, history, repeated, reported, sent, woken, vain,
                 outcome>>

-----------------------------------------------------------------------------
(* Endings.                                                                *)

Result(kind, steps) ==
  /\ pc' = "over"
  /\ outcome' = [kind |-> kind, steps |-> steps]

\* An exception leaves the session, or its task is cancelled at an await.
Leaves ==
  /\ pc # "over"
  /\ Result("left", 0)
  /\ UNCHANGED <<phone, observation, loopVars, workVars>>

\* The task is cancelled while the driver acts: the phone may have the input.
LeavesActing ==
  /\ pc \in {"send", "close"}
  /\ Result("cancelled", 0)
  /\ sent' = sent + 1
  /\ \E screen \in Screens : ShowsNow(screen, {})
  /\ UNCHANGED <<observation, loopVars, history, repeated, reported, woken, vain>>

-----------------------------------------------------------------------------
(* The session.                                                            *)

\* Connecting, the first observation and the installed apps.
Connect ==
  /\ pc = "connect"
  /\ pc' \in {"top", "close"}
  /\ observation' = phone
  /\ UNCHANGED <<phone, loopVars, workVars, outcome>>

\* _close_app: a goal that only asks for this is carried out without a model.
CloseApp ==
  /\ pc = "close"
  /\ sent' = sent + 1
  /\ \E screen \in Screens : ShowsNow(screen, {})
  /\ \/ /\ Result("closed", 1)
        /\ reported' = [reported EXCEPT !.success = @ + 1]
     \/ /\ Result("failed", 0)
        /\ reported' = [reported EXCEPT !.failure = @ + 1]
  /\ UNCHANGED <<observation, loopVars, history, repeated, woken, vain>>

\* The loop ends without a result of its own.
DecisionLimit ==
  /\ pc = "top"
  /\ attempt = MaxSteps * 2 + 4
  /\ Result("decision_limit", Len(history))
  /\ UNCHANGED <<phone, observation, loopVars, workVars>>

\* The screen is off or locked: that comes before any decision.
FindsLocked ==
  /\ pc = "top"
  /\ attempt < MaxSteps * 2 + 4
  /\ observation \in LockedScreens
  /\ pc' = "wake"
  /\ attempt' = attempt + 1
  /\ UNCHANGED <<phone, observation, asked, action, waiting, consecutive_stale, workVars, outcome>>

\* The driver presses the wake key or, on a lock screen, swipes.
GivesWaking ==
  /\ pc \in {"wake", "swipe"}
  /\ woken' = woken + 1
  /\ \E screen \in Screens : ShowsNow(screen, {})

Wakes ==
  /\ GivesWaking
  /\ pc' = (IF pc = "wake" THEN "woken" ELSE "swiped")
  /\ UNCHANGED <<observation, loopVars, history, repeated, reported, sent, vain, outcome>>

\* The driver raises, or the task is cancelled, after the phone got the input:
\* nothing in _session catches it.
WakeBreaks ==
  /\ GivesWaking
  /\ Result("left", 0)
  /\ UNCHANGED <<observation, loopVars, history, repeated, reported, sent, vain>>

\* settle_wake: what is shown when the screen has reacted or the time is over.
\* A lock screen is swiped away, once; after that, or when there is none, the
\* waking is reported, and a screen that is still locked ends the session.
SettleWake ==
  /\ pc \in {"woken", "swiped"}
  /\ observation' = phone
  /\ \/ /\ phone \in LockedScreens /\ pc = "woken" /\ pc' = "swipe"
        /\ UNCHANGED <<repeated, woken, outcome>>
     \/ /\ phone \in LockedScreens /\ pc = "swiped"
        /\ Result("locked", Len(history))
        /\ woken' = 0 /\ UNCHANGED repeated
     \/ /\ phone \notin LockedScreens /\ pc' = "ask"
        /\ repeated' = {} /\ woken' = 0 /\ UNCHANGED outcome
  /\ UNCHANGED <<phone, loopVars, history, reported, sent, still, vain>>

NextDecision ==
  /\ pc = "top"
  /\ attempt < MaxSteps * 2 + 4
  /\ observation \notin LockedScreens
  /\ pc' = "ask"
  /\ attempt' = attempt + 1
  /\ UNCHANGED <<phone, observation, asked, action, waiting, consecutive_stale, workVars, outcome>>

Executions(screen, act) ==
  Cardinality({k \in DOMAIN history :
    history[k].on = screen /\ history[k].action = act})

\* Mutant of Offered: one tap too many.
OfferedOnceMore ==
  (Actions \ Taps)
  \cup {t \in Taps : Executions(observation, t) <= MAX_TAPS_PER_SCREEN}

\* exclude: an element tapped often enough on this screen is not offered.
Offered ==
  (Actions \ Taps)
  \cup {t \in Taps : Executions(observation, t) < MAX_TAPS_PER_SCREEN}

\* The policy's ways to end the session.
Statuses == {"done", "blocked", "needs_input"}

\* decide, once the answer stands: an action, or one of these endings.
Decides(statuses) ==
  /\ asked' = 0
  /\ \/ pc' = "guards" /\ action' \in Offered /\ UNCHANGED outcome
     \/ (\E kind \in statuses : Result(kind, Len(history))) /\ UNCHANGED action

\* Jev answers.  A sure answer stands; a weak one goes to the advisor, if
\* there is one, and so does every wish to end.
JevAnswers ==
  /\ pc = "ask"
  /\ \/ Decides(IF HasAdvisor THEN {"needs_input"} ELSE Statuses)
     \/ HasAdvisor /\ pc' = "advise" /\ UNCHANGED <<asked, action, outcome>>
  /\ UNCHANGED <<phone, observation, attempt, waiting, consecutive_stale,
                 workVars>>

\* A malformed answer or a refused request is repeated; then the advisor
\* decides alone or the session fails.
JevFails ==
  /\ pc = "ask"
  /\ asked' = asked + 1
  /\ IF asked' < JEV_ATTEMPTS THEN UNCHANGED <<pc, outcome>>
     ELSE IF HasAdvisor THEN pc' = "advise" /\ UNCHANGED outcome
     ELSE Result("left", 0)
  /\ UNCHANGED <<phone, observation, attempt, action, waiting, consecutive_stale,
                 workVars>>

\* The advisor's choice replaces Jev's; if it fails, Jev's stands if there is
\* one.
Advise ==
  /\ pc = "advise"
  /\ Decides(Statuses) \/ (asked = JEV_ATTEMPTS /\ Result("left", 0) /\ UNCHANGED <<asked, action>>)
  /\ UNCHANGED <<phone, observation, attempt, waiting, consecutive_stale,
                 workVars>>

Signature == <<observation, action>>

Stuck == action # Wait /\ Signature \in repeated

Cycle == action \in Moves /\ Executions(observation, action) >= MAX_REPEATS_PER_SCREEN

\* The limits an action must pass; a wait in a row of waits may be too late.
Guards ==
  /\ pc = "guards"
  /\ \/ Len(history) >= MaxSteps /\ Result("step_limit", Len(history))
     \/ Len(history) < MaxSteps /\ Stuck /\ Result("stuck", Len(history))
     \/ Len(history) < MaxSteps /\ ~Stuck /\ Cycle /\ Result("cycle", Len(history))
     \/ /\ Len(history) < MaxSteps /\ action = Wait /\ waiting
        /\ Result("loading_timeout", Len(history))
     \/ /\ Len(history) < MaxSteps /\ ~Stuck /\ ~Cycle
        /\ pc' = (IF action = Wait THEN "sleep" ELSE "check")
        /\ UNCHANGED outcome
  /\ waiting' = (action = Wait)
  /\ UNCHANGED <<phone, observation, attempt, asked, action, consecutive_stale,
                 workVars>>

Sleep ==
  /\ pc = "sleep"
  /\ pc' = "after"
  /\ consecutive_stale' = 0
  /\ repeated' = repeated \cup {Signature}
  /\ history' = Append(history, [on |-> observation, action |-> action])
  /\ reported' = [reported EXCEPT !.success = @ + 1]
  /\ UNCHANGED <<phone, observation, attempt, asked, action, waiting, sent, woken, still,
                 vain, outcome>>

\* assert_fresh: another app on top is always stale; on the same one, HOME
\* never, other actions if what they rely on has changed.  An app is opened
\* unchecked.
MayBeFresh ==
  action = OpenApp \/ PackageOf(phone) = PackageOf(observation)

MustBeFresh == action = OpenApp

\* act reads the screen again and finds the observation good.
CheckPasses ==
  /\ pc = "check"
  /\ MayBeFresh
  /\ pc' = "send"
  /\ UNCHANGED <<phone, observation, loopVars, workVars, outcome>>

\* StaleObservationError: nothing was sent; observe and decide again.
CheckFails ==
  /\ pc = "check"
  /\ ~MustBeFresh
  /\ consecutive_stale' = consecutive_stale + 1
  /\ IF consecutive_stale' >= StaleLimit
     THEN Result("unstable_screen", Len(history)) /\ UNCHANGED observation
     ELSE /\ pc' = "top" /\ observation' = phone
          /\ UNCHANGED outcome
  /\ action' = None
  /\ UNCHANGED <<phone, attempt, asked, waiting, workVars>>

Sends ==
  /\ sent' = sent + 1
  /\ vain' = (vain \/ Signature \in still)
  /\ \E screen \in Screens : ShowsNow(screen, {Signature})

\* The driver carried the action out: counted and reported before anything
\* else is awaited.
Succeeds ==
  /\ pc = "send"
  /\ Sends
  /\ pc' = "after"
  /\ consecutive_stale' = 0
  /\ repeated' = repeated \cup {Signature}
  /\ history' = Append(history, [on |-> observation, action |-> action])
  /\ reported' = [reported EXCEPT !.success = @ + 1]
  /\ UNCHANGED <<observation, attempt, asked, action, waiting, woken, outcome>>

\* Mutant of Fails: an action that failed is decided again.
FailsAndGoesOn ==
  /\ pc = "send"
  /\ Sends
  /\ pc' = "top"
  /\ UNCHANGED <<observation, loopVars, history, repeated, reported, woken, outcome>>

\* act or the driver raised, before or after the phone got the input: the
\* action is reported as failed and never retried.
Fails ==
  /\ pc = "send"
  /\ Sends \/ UNCHANGED <<phone, sent, still, vain>>
  /\ Result("failed", Len(history))
  /\ reported' = [reported EXCEPT !.failure = @ + 1]
  /\ UNCHANGED <<observation, loopVars, history, repeated, woken>>

\* Mutant of Observe: what was executed is forgotten on an unchanged screen, too.
ObserveForgets ==
  /\ pc = "after"
  /\ pc' = "top"
  /\ observation' = phone
  /\ repeated' = {} /\ action' = None
  /\ UNCHANGED <<phone, attempt, asked, waiting, consecutive_stale, history, reported, sent,
                 woken, still, vain, outcome>>

\* The next observation, when the screen has settled or not; text that was
\* sent may not show up in the field.
Observe ==
  /\ pc = "after"
  /\ \/ /\ pc' = "top"
        /\ observation' = phone
        /\ repeated' = IF phone # observation THEN {} ELSE repeated
        /\ UNCHANGED outcome
     \/ /\ action \in Moves \ {Home, OpenApp}
        /\ Result("input_unverified", Len(history))
        /\ UNCHANGED <<observation, repeated>>
  /\ action' = None
  /\ UNCHANGED <<phone, attempt, asked, waiting, consecutive_stale, history, reported, sent,
                 woken, still, vain>>

SessionNext ==
  \/ Connect \/ CloseApp \/ DecisionLimit \/ NextDecision
  \/ FindsLocked \/ Wakes \/ SettleWake
  \/ JevAnswers \/ JevFails \/ Advise \/ Guards \/ Sleep
  \/ CheckPasses \/ CheckFails \/ Succeeds \/ Fails \/ Observe

Over == pc = "over" /\ UNCHANGED vars

Next == SessionNext \/ PhoneChanges \/ Leaves \/ LeavesActing \/ WakeBreaks \/ Over

Spec == Init /\ [][Next]_vars

-----------------------------------------------------------------------------
TypeOK ==
  /\ {phone, observation} \subseteq Screens
  /\ pc \in {"connect", "close", "top", "wake", "woken", "swipe", "swiped", "ask", "advise",
             "guards", "sleep", "check", "send", "after", "over"}
  /\ attempt \in 0..MaxSteps * 2 + 4 /\ asked \in 0..JEV_ATTEMPTS
  /\ action \in Actions \cup {None}
  /\ history \in Seq([on : Screens, action : Actions])
  /\ repeated \subseteq Screens \X Actions /\ still \subseteq Screens \X Actions
  /\ consecutive_stale \in 0..StaleLimit
  /\ {waiting, vain} \subseteq BOOLEAN
  /\ reported \in [success : Nat, failure : Nat] /\ sent \in Nat /\ woken \in 0..2
  /\ outcome \in [kind : Endings \cup {"left", "cancelled", None}, steps : Nat]

\* No input is sent twice in vain: a second time the same action, decided on
\* the same screen, only after the phone's screen has really been another in
\* between (repeated, OUTCOMES["stuck"]).
NeverInVain == ~vain

\* No loop through several screens goes on: whatever lies in between, an
\* element is tapped, or another action taken, a limited number of times on
\* one screen (MAX_TAPS_PER_SCREEN, MAX_REPEATS_PER_SCREEN).
LoopsAreBroken ==
  \A screen \in Screens :
    /\ \A t \in Taps : Executions(screen, t) <= MAX_TAPS_PER_SCREEN
    /\ \A m \in Moves : Executions(screen, m) <= MAX_REPEATS_PER_SCREEN

\* Every input for an action is in an action event, also when what follows it
\* fails, but for one that is under way when the run is cancelled; and the
\* result counts the successful ones, never more than the step limit ("a
\* failed read must not erase an executed action").  The key and the swipe
\* that wake the phone share an event, which comes before anything is decided
\* and before any result; a session that breaks off while it wakes the phone,
\* because the read after the key fails, say, leaves them untold.
WorkIsReported ==
  LET waits == Cardinality({k \in DOMAIN history : history[k].action = Wait})
      cut == IF outcome.kind = "cancelled" THEN 1 ELSE 0
  IN /\ sent + waits <= reported.success + reported.failure + cut
     /\ reported.success <= sent + waits
     /\ outcome.kind \in Endings => outcome.steps = reported.success
     /\ outcome.kind = "done" => reported.failure = 0
     /\ reported.success <= MaxSteps
     /\ woken > 0 /\ outcome.kind # "left" => pc \in {"woken", "swipe", "swiped"}
===============================================================================
