---------------------------- MODULE DeviceActions ----------------------------
(***************************************************************************)
(* How an agent's tool calls reach the phone (mobilerun/agent/utils/       *)
(* actions.py, tools/ui): the state provider reads the screen with retries *)
(* and a restart of the portal's service, a turn's calls are resolved      *)
(* against the snapshot the turn began with, the phone moves meanwhile,    *)
(* and the macro recorder notes each action with the screen before it.     *)
(*                                                                         *)
(* A screen is the sequence of its elements in the order they are drawn,   *)
(* all children of one node; the keyboard is another window.  A coordinate *)
(* space is the size the screenshot has after it was resized for the       *)
(* model.  The turns are those of FastAgent; the manager reads in the same *)
(* way but fails with the read.  See AgentRun for the turns themselves.    *)
(***************************************************************************)
EXTENDS Integers, Sequences, FiniteSets, Functions, SequencesExt

CONSTANTS
  Views,
  Layout,         \* [Screens -> sequences of elements]
  BoundsOf,       \* [Screens -> [elements -> <<left, top, right, bottom>>]]
  SizeOf,         \* [Screens -> spaces]: landscape and portrait differ
  Labels,         \* elements that take no touch
  Keyboard,       \* keys of the on-screen keyboard
  Names,          \* labels a model may quote
  Fits,           \* [Names -> sets of elements]: those a quoted label matches
  Modes,          \* subset of AllModes
  Nil,
  MAX_RETRIES, RECOVERY_AFTER,   \* reads before giving up, before the restart
  MaxTurns, MaxCalls, MaxActions,
  MaxMoves,       \* times the phone shows another screen by itself
  MaxFaults

\* Android without and with vision, iOS with vision, screenshots alone.
AllModes == {"plain", "vision", "ios", "shots"}

ASSUME DeviceAssumption ==
  /\ Modes \subseteq AllModes
  /\ {MAX_RETRIES, RECOVERY_AFTER, MaxTurns, MaxCalls, MaxActions} \subseteq Nat \ {0}
  /\ {MaxMoves, MaxFaults} \subseteq Nat
  /\ Nil \notin Views \cup Names
  /\ \A s \in Views :
       /\ Layout[s] \in Seq(Range(Layout[s])) /\ Layout[s] # <<>> /\ IsInjective(Layout[s])
       /\ SizeOf[s] # Nil /\ \A S \in SUBSET Range(Layout[s]) : S # Nil
       /\ \A e \in Range(Layout[s]) :
            LET b == BoundsOf[s][e]
            IN  b \in Int \X Int \X Int \X Int /\ b[1] < b[3] /\ b[2] < b[4]

VARIABLES
  mode,       \* the run's state provider
  recording,  \* whether the run saves a macro
  device,     \* the screen the phone shows
  service,    \* the portal's accessibility service
  drift,      \* whether the phone has moved by itself since the last read
  ui,         \* ctx.ui, the turn's snapshot
  flags,      \* the provider's model_screenshot size, Nil while it resizes nothing
  image,      \* the space of the screenshot the model was shown
  blind,      \* whether the turn's own read failed
  fetch,      \* the read in progress: its failures and whether it restarted the service
  stage, call, turn, done,
  pre,        \* the screen before the action, for the recorder
  actions,    \* MacroRecorder.actions
  log,        \* RecordingDriver.log
  touch,      \* the last touch of the phone
  moves, faults

phoneVars == <<device, service>>
prompt == <<ui, image, blind>>
agent == <<call, turn, done>>
recorded == <<actions, log>>
limits == <<moves, faults>>
setting == <<mode, recording>>
deviceVars == <<setting, phoneVars, drift, prompt, flags, fetch, stage, agent, pre, recorded, touch,
                limits>>

----------------------------------------------------------------------------
(* Reading the screen *)

NoSnapshot == [screen |-> Nil, list |-> <<>>, space |-> Nil]
NoCall == [tool |-> "none", index |-> 0, names |-> Nil, on |-> Nil]
NoPre == [snap |-> NoSnapshot, read |-> FALSE]
NoTouch == [tool |-> "none", wants |-> Nil, at |-> <<>>, met |-> Nil]
Fresh == [tries |-> 0, recovered |-> FALSE]

\* The elements a provider sees on screen s: the detailed filter of the plain provider drops
\* the keyboard, the concise one of the vision provider does not, nor does the iOS provider;
\* the screenshot provider sees none.
Elements(m, s) ==
  CASE m = "plain" -> Range(Layout[s]) \ Keyboard
    [] m \in {"vision", "ios"} -> Range(Layout[s])
    [] m = "shots" -> {}

\* Those of S in the order they are drawn.
Drawn(s, S) ==
  LET part[i \in 0..Len(Layout[s])] ==
        IF i = 0 THEN <<>>
        ELSE IF Layout[s][i] \in S THEN Append(part[i - 1], Layout[s][i]) ELSE part[i - 1]
  IN  part[Len(Layout[s])]

\* They are numbered as they are drawn; the iOS provider lists those that act first.
Listed(m, s) ==
  IF m = "ios" THEN Drawn(s, Elements(m, s) \ Keyboard) \o Drawn(s, Keyboard)
  ELSE Drawn(s, Elements(m, s))

\* The bounds of the screen, or the screenshot that measures them, may be missing.
Spaces(m, s) ==
  CASE m = "plain" -> {Nil}
    [] m = "shots" -> {SizeOf[s]}
    [] OTHER -> {SizeOf[s], Nil}

Snapshots(m, s) ==
  {[screen |-> s, list |-> Listed(m, s), space |-> p] : p \in Spaces(m, s)}

----------------------------------------------------------------------------
(* Where an element is tapped: get_element_coords *)

Inside(point, b) == /\ b[1] <= point[1] /\ point[1] < b[3]
                    /\ b[2] <= point[2] /\ point[2] < b[4]
Overlap(a, b) == ~(a[3] <= b[1] \/ b[3] <= a[1] \/ a[4] <= b[2] \/ b[4] <= a[2])
Centre(b) == <<(b[1] + b[3]) \div 2, (b[2] + b[4]) \div 2>>
Area(b) == (b[3] - b[1]) * (b[4] - b[2])

\* _add_tap_blockers: siblings of the same window, drawn later, that take touches and overlap.
Blockers(s, e) ==
  LET order == Inverse(Layout[s], DOMAIN Layout[s], Range(Layout[s]))
  IN  {BoundsOf[s][d] : d \in {d \in Range(Layout[s]) \ Labels :
         /\ order[d] > order[e] /\ (d \in Keyboard <=> e \in Keyboard)
         /\ Overlap(BoundsOf[s][d], BoundsOf[s][e])}}

\* find_uncovered_point: what is left of a region beside one blocker, and beside all.
Without(r, b) ==
  LET l == Max({r[1], b[1]}) t == Max({r[2], b[2]})
      m == Min({r[3], b[3]}) n == Min({r[4], b[4]})
  IN  IF l >= m \/ t >= n THEN {r}
      ELSE {p \in {<<r[1], r[2], r[3], t>>, <<r[1], n, r[3], r[4]>>,
                   <<r[1], t, l, n>>, <<m, t, r[3], n>>} : p[1] < p[3] /\ p[2] < p[4]}

\* One blocker after the other; each leaves less.
Uncovered(b, blockers) ==
  LET q == SetToSeq(blockers)
      left[i \in 0..Cardinality(blockers)] ==
        IF i = 0 THEN {b} ELSE UNION {Without(r, q[i]) : r \in left[i - 1]}
  IN  left[Cardinality(blockers)]

\* _avoid_tap_blockers: the centre, or that of the largest uncovered region, or an error.
TapPoint(s, e) ==
  LET b == BoundsOf[s][e]
      blockers == IF mode = "ios" THEN {} ELSE Blockers(s, e)
      free == Uncovered(b, blockers)
  IN  IF \A c \in blockers : ~Inside(Centre(b), c) THEN Centre(b)
      ELSE IF free = {} THEN Nil
      ELSE Centre(CHOOSE r \in free : \A o \in free : Area(o) <= Area(r))

----------------------------------------------------------------------------
(* A read of the screen *)

\* The image is resized to the provider's present size, if it has one.
Attached(size) ==
  IF mode = "plain" THEN {"none"} ELSE {"none", IF size = Nil THEN "native" ELSE size}

Reading == {"read", "pre", "focus"}
AfterRead == [p \in Reading |-> CASE p = "read" -> "ask" [] p = "pre" -> "act"
                                  [] p = "focus" -> "type"]

\* Faulty variant: the recorder's read becomes the turn's snapshot.
DeliverToTurn(snap) ==
  /\ flags' = snap.space /\ drift' = FALSE
  /\ ui' = snap
  /\ IF stage = "read" THEN blind' = FALSE /\ image' \in Attached(snap.space) /\ UNCHANGED pre
     ELSE pre' = [snap |-> snap, read |-> TRUE] /\ UNCHANGED <<blind, image>>

\* get_state returns: the turn's read replaces ctx.ui, the recorder's read does not.
\* Either one sets the provider's flags.
Deliver(snap) ==
  /\ flags' = snap.space
  /\ drift' = FALSE
  /\ IF stage = "read"
     THEN /\ ui' = snap
          /\ blind' = FALSE
          /\ image' \in Attached(snap.space)
          /\ UNCHANGED pre
     ELSE /\ pre' = [snap |-> snap, read |-> TRUE]
          /\ UNCHANGED prompt

\* get_state raises: the turn goes on with the old snapshot, the recorder takes ctx.ui.
GiveUp ==
  /\ IF stage = "read"
     THEN /\ blind' = TRUE
          /\ image' \in Attached(flags)
          /\ UNCHANGED <<ui, pre>>
     ELSE /\ pre' = [snap |-> ui, read |-> FALSE]
          /\ UNCHANGED prompt
  /\ UNCHANGED <<flags, drift>>

\* A read fails while the service is down, and now and then besides.
ReadBreaks ==
  \/ service = "down" /\ mode # "shots" /\ UNCHANGED faults
  \/ faults < MaxFaults /\ faults' = faults + 1

\* fetch_state_with_retry: try again, and after some failures restart the service, once.
Retry ==
  /\ fetch.tries + 1 < MAX_RETRIES
  /\ LET restart == fetch.tries + 1 >= RECOVERY_AFTER /\ ~fetch.recovered
     IN  /\ fetch' = [tries |-> fetch.tries + 1, recovered |-> fetch.recovered \/ restart]
         /\ service' \in IF restart THEN {service, "up"} ELSE {service}

ReadWorks ==
  /\ stage \in Reading
  /\ service = "up" \/ mode = "shots"
  /\ \E snap \in Snapshots(mode, device) : Deliver(snap)
  /\ stage' = AfterRead[stage]
  /\ fetch' = Fresh
  /\ UNCHANGED <<setting, phoneVars, agent, recorded, touch, limits>>

\* Only the Android provider tries again; the iOS provider returns an empty state.
ReadFails ==
  /\ stage \in Reading
  /\ ReadBreaks
  /\ \/ /\ mode \in {"plain", "vision"}
        /\ Retry
        /\ UNCHANGED <<drift, prompt, flags, stage, pre>>
     \/ /\ \/ mode \in {"plain", "vision"} /\ fetch.tries + 1 = MAX_RETRIES /\ GiveUp
           \/ mode = "shots" /\ GiveUp
           \/ mode = "ios" /\ Deliver(NoSnapshot)
        /\ stage' = AfterRead[stage]
        /\ fetch' = Fresh
        /\ UNCHANGED service
  /\ UNCHANGED <<setting, device, agent, recorded, touch, moves>>

----------------------------------------------------------------------------
(* The turn *)

\* The screenshot is taken first, then the state is read.
BeginTurn ==
  /\ stage = "observe"
  /\ turn < MaxTurns
  /\ turn' = turn + 1 /\ done' = 0
  /\ stage' = "read"
  /\ UNCHANGED <<setting, phoneVars, drift, prompt, flags, fetch, call, pre, recorded, touch, limits>>

\* The elements of a snapshot, which its numbers stand for and a guard compares
\* (normalize_ui_state); order, numbers and places are left out.
Nodes(snap) == IF snap.screen = Nil THEN {} ELSE Elements(mode, snap.screen)

\* What the model may call.  A click may quote the label of the element it means; a point
\* is a place the model saw in the image or computed from the listed bounds.
Seen == (IF image = "none" THEN {} ELSE {"image"}) \cup (IF ui.list = <<>> THEN {} ELSE {"bounds"})

Calls ==
  LET Call(tools, indices, names) ==
        [tool : tools, index : indices, names : names, on : {ui.screen}]
  IN  Call({"click"}, 1..2, {Nil} \cup Names)
        \cup Call({"point"}, 1..2, Seen)
        \cup Call({"type", "secret"}, 0..1, {Nil})
        \cup Call({"press", "open", "wait"}, {0}, {Nil})

\* _verify_target: the label must match the indexed element, be contained in its text,
\* description or resource id or contain it, which several elements may do; a missing index
\* fails later.
Refused(c) ==
  /\ c.tool = "click" /\ c.names # Nil
  /\ c.index \in DOMAIN ui.list /\ ui.list[c.index] \notin Fits[c.names]

\* Faulty variant: the recorder takes the turn's snapshot for the present screen.
ReadBefore(next) ==
  stage' = next[2] /\ pre' = [snap |-> ui, read |-> TRUE]

\* The recorder wants the present screen before the action: _macro_pre_ui.
ReadFirst(next) ==
  IF recording THEN stage' = next[1] /\ UNCHANGED pre
  ELSE stage' = next[2] /\ pre' = [snap |-> ui, read |-> FALSE]

Choose(c) ==
  /\ done' = done + 1
  /\ call' = c
  /\ touch' = NoTouch
  /\ \/ /\ Refused(c) \/ c.tool = "secret"       \* no such credential
        /\ stage' = "ask" /\ UNCHANGED pre
     \/ ~Refused(c) /\ ReadFirst(<<"pre", "act">>)
  /\ UNCHANGED <<setting, phoneVars, drift, prompt, flags, fetch, turn, recorded, limits>>

\* The next call of the turn, the end of the turn, or complete().
Decide ==
  /\ stage = "ask"
  /\ \/ /\ done < MaxCalls /\ Len(actions) < MaxActions
        /\ \E c \in Calls : Choose(c)
     \/ /\ stage' \in (IF turn < MaxTurns THEN {"observe", "over"} ELSE {"over"})
        /\ call' = NoCall /\ touch' = NoTouch
        /\ UNCHANGED <<setting, phoneVars, drift, prompt, flags, fetch, turn, done, pre, recorded,
                       limits>>

----------------------------------------------------------------------------
(* The action *)

\* _require_active_coordinate_contract, by the snapshot that also converts the point.
MayPoint == ui # NoSnapshot /\ (mode \in {"vision", "ios"} => ui.space # Nil)

\* The point of the call, and where it lands when it is taken for one of another space.
Meant(c) == IF c.on \in Views /\ c.index \in DOMAIN Layout[c.on]
            THEN Centre(BoundsOf[c.on][Layout[c.on][c.index]]) ELSE <<0, 0>>
Astray == <<-1, -1>>

\* Faulty variant: the point is scaled by the provider's flags.
ConvertedByFlags(c) == IF c.names = "bounds" \/ image = flags THEN Meant(c) ELSE Astray

\* convert_point scales by the snapshot's space: a place seen in another one is missed.
Converted(c) == IF c.names = "bounds" \/ image = ui.space THEN Meant(c) ELSE Astray

\* met: the screen the action met, Nil where the recorder could not have known it.
Entry(act) ==
  [act |-> act, guard |-> Nodes(pre.snap),
   met |-> IF pre.read /\ ~drift THEN device ELSE Nil]

Raw(act) == [act |-> act, guard |-> Nil, met |-> Nil]

\* The driver's own log is only read when there is no recorded action.
Record(entry) ==
  /\ actions' = IF recording THEN Append(actions, entry) ELSE actions
  /\ log' = IF recording THEN <<>> ELSE log

LogOnly(entry) ==
  /\ log' = IF recording /\ actions = <<>> THEN Append(log, entry) ELSE log
  /\ UNCHANGED actions

\* A call of the driver: it is recorded when it returns.  It may raise although the phone
\* has reacted.
Drive(act, next) ==
  /\ device' \in Views
  /\ \/ /\ Record(Entry(act))
        /\ next
        /\ UNCHANGED faults
     \/ /\ faults < MaxFaults /\ faults' = faults + 1
        /\ stage' = "ask" /\ pre' = NoPre
        /\ UNCHANGED recorded
  /\ UNCHANGED <<setting, service, drift, prompt, flags, fetch, agent, moves>>

Back == stage' = "ask" /\ pre' = NoPre

Fail ==
  /\ Back
  /\ UNCHANGED <<setting, phoneVars, drift, prompt, flags, fetch, agent, recorded, touch, limits>>

Click ==
  /\ stage = "act" /\ call.tool = "click"
  /\ IF call.index \notin DOMAIN ui.list THEN Fail
     ELSE LET p == TapPoint(ui.screen, ui.list[call.index])
          IN  IF p = Nil THEN Fail
              ELSE /\ touch' = [tool |-> "click", wants |-> Nil, at |-> p, met |-> device]
                   /\ Drive("drive", Back)

Point ==
  /\ stage = "act" /\ call.tool = "point"
  /\ IF ~MayPoint THEN Fail
     ELSE /\ touch' = [tool |-> "point", wants |-> Meant(call), at |-> Converted(call),
                       met |-> device]
          /\ Drive("drive", Back)

\* Typing into an element taps it first and reads the screen again for the recorder.
Focus ==
  /\ stage = "act" /\ call.tool \in {"type", "secret"}
  /\ IF call.index = 0
     THEN /\ stage' = "type"
          /\ UNCHANGED <<setting, phoneVars, drift, prompt, flags, fetch, agent, pre, recorded, touch,
                         limits>>
     ELSE IF call.index \notin DOMAIN ui.list THEN Fail
     ELSE IF TapPoint(ui.screen, ui.list[call.index]) = Nil THEN Fail
     ELSE /\ Drive("drive", ReadFirst(<<"focus", "type">>))
          /\ UNCHANGED touch

\* The driver answers that it has not done it: logged, not recorded.
Declined ==
  /\ LogOnly(Raw("drive"))
  /\ Back
  /\ UNCHANGED <<setting, phoneVars, drift, prompt, flags, fetch, agent, limits>>

TypeText ==
  /\ stage = "type"
  /\ Drive(IF call.tool = "type" THEN "drive" ELSE "secret", Back) \/ Declined
  /\ UNCHANGED touch

Press ==
  /\ stage = "act" /\ call.tool = "press"
  /\ Drive("drive", Back)
  /\ UNCHANGED touch

\* open_app records what the driver logged, open_bundle_id what it opened.  No app matches,
\* or the answer of the model cannot be read and the call succeeds with nothing opened.
Open ==
  /\ stage = "act" /\ call.tool = "open"
  /\ \/ (Drive("drive", Back) \/ Declined) /\ UNCHANGED touch
     \/ Fail

WaitFor ==
  /\ stage = "act" /\ call.tool = "wait"
  /\ Record(Entry("wait"))
  /\ Back
  /\ UNCHANGED <<setting, phoneVars, drift, prompt, flags, fetch, agent, touch, limits>>

----------------------------------------------------------------------------
(* The phone and the run *)

PhoneMoves ==
  /\ moves < MaxMoves /\ moves' = moves + 1
  /\ device' \in Views \ {device}
  /\ drift' = TRUE
  /\ UNCHANGED <<setting, service, prompt, flags, fetch, stage, agent, pre, recorded, touch, faults>>

ServiceDies ==
  /\ service = "up" /\ faults < MaxFaults /\ faults' = faults + 1
  /\ service' = "down"
  /\ UNCHANGED <<setting, device, drift, prompt, flags, fetch, stage, agent, pre, recorded, touch,
                 moves>>

DeviceInit ==
  /\ mode \in Modes /\ recording \in BOOLEAN
  /\ device \in Views /\ service = "up" /\ drift = FALSE
  /\ ui = NoSnapshot /\ flags = Nil /\ image = "none" /\ blind = FALSE
  /\ fetch = Fresh /\ stage = "observe"
  /\ call = NoCall /\ turn = 0 /\ done = 0
  /\ pre = NoPre
  /\ actions = <<>> /\ log = <<>> /\ touch = NoTouch
  /\ moves = 0 /\ faults = 0

AgentActs ==
  \/ BeginTurn \/ ReadWorks \/ ReadFails \/ Decide
  \/ Click \/ Point \/ Focus \/ TypeText \/ Press \/ Open \/ WaitFor

DeviceNext == AgentActs \/ (stage # "over" /\ (PhoneMoves \/ ServiceDies))

----------------------------------------------------------------------------
(* Properties *)

\* A click on the screen the model read taps the element that had its number there, one
\* that carries the label if the call quotes one, at a point that no element of its window
\* drawn later takes (iOS tells nothing of these): whatever the recorder has read, and
\* whichever other screens the phone has shown, since.
TapHitsWhatWasRead ==
  LET listed == Listed(mode, touch.met)
      e == listed[call.index]
  IN  touch.tool = "click" /\ touch.met = call.on =>
        /\ call.index \in DOMAIN listed
        /\ call.names # Nil => e \in Fits[call.names]
        /\ Inside(touch.at, BoundsOf[touch.met][e])
        /\ mode # "ios" => \A b \in Blockers(touch.met, e) : ~Inside(touch.at, b)

\* A point is tapped where the model saw it: the space of the image, the bounds in the text
\* and the conversion agree even when the recorder's reads have set the provider's flags in
\* between.  Excepted is a turn whose own read failed.
PointLandsWhereSeen ==
  touch.tool = "point" /\ ~blind => touch.at = touch.wants
=============================================================================
