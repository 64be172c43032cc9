# Device task runner: a TLA+ verification project

The repository is a device task runner: a Next.js app keeps tasks, schedules,
work queues and runs in MongoDB; a Python executor drives Android phones with
an agent, which is either its own (Jev) or the agent framework in
`api/mobilerun`; one run of a task on a phone passes through all of them. This
directory models the parts where order, failure and restarts matter, checks
them with TLC on small instances and proves the main safety properties with
TLAPS.

Paths below are relative to `src/`; those of the framework, marked `~`, are
relative to `api/mobilerun/mobilerun/`.

## 1. Inventory

| component | source | state | operations |
|---|---|---|---|
| Run lifecycle, device lock | `lib/runs/service.ts`, `lib/models/run.ts` | `Run.status`, `Device.activeRunId`, `runEvents` | `createRun`, `acquireDeviceLock`, `releaseDeviceLock`, `transitionRun`, `finishRun`, `appendRunEvent`, `stopRun`, `deleteRun` |
| run-task job | `lib/jobs/run-task.ts` | where the job stands, `lastSeq`, `attempt` | `executeRun`, `resumeRun`, `tailUntilFinished`, `tailEvents`, `finishFromEvent` |
| Job queue and boot | `lib/jobs/agenda.ts`, `lib/jobs/reconcile.ts` | `agendaJobs` | `enqueueRun`, `startAgenda`, `reconcileOnBoot` |
| Executor registry and run task | `api/executor/runs.py` | `RunManager._runs`, one `ActiveRun` and one asyncio task per run | `start`, `stop`, `get`, `_sweep`, `_execute_traced`, `_run_end_phase` |
| Executor event stream | `api/executor/runs.py`, `events.py`, `llm_trace.py` | replay buffer, sequence numbers, subscriber queues | `publish`, `subscribe` |
| Device layer | `api/executor/framework.py` | `stay_on_while_plugged_in` of each phone, agent runs | `keep_awake`, `restore_sleep`, `cancel` |
| Jev agent | `api/executor/jev/` | step, stale and loop budgets of a session | `_session`, `decide`, `act`, `observe` |
| Task memory | `lib/task-memory.ts`, `api/executor/memory.py` | key/value facts of a task | `applyMemoryChange`, the agent's edits, the operator's replacement |
| Database channels | `lib/db-channels.ts`, `lib/runs/channel.ts` | records: pending, processing, done, failed, and their run | `claimNextRecord`, `settleRecord`, `setRecord`, `undoRecord`, `deleteChannel`, ... |
| Schedules and dispatch | `lib/schedules.ts`, `lib/device-thermal.ts` | `Schedule` documents, interval ticks, queue rotation | `createSchedule`, `updateSchedule`, `executeScheduleTick`, `dispatchDevice`, `recordScheduledRun`, `reconcileSchedules` |
| Live updates | `lib/runs/bus.ts`, `app/api/runs/[id]/events/route.ts`, `components/runs/run-timeline.tsx` | subscribers of a run, what a browser has seen | the SSE route: replay, follow, resync; the page |
| Agent framework | `~agent/droid`, `~agent/fast_agent`, `~agent/manager`, `~agent/executor`, `~agent/trajectory` | the shared state of a run, the context of each workflow, the writer's queue | the workflow steps, `send_user_message`, `finalize` |
| Tool calls and macros | `~agent/utils/actions.py`, `~tools/ui`, `~macro` | the turn's UI snapshot, recorder, driver log; the file and its player | `get_state`, `click`, `click_at`, `type`, ..., `replay_macro` |
| OAuth logins and credentials | `~agent/utils/oauth`, `~cli/oauth_actions.py`, `~cli/deviceauth.py`, `~config_manager/auth_profile_store.py` | `auth-profiles.json`, tokens in memory, locks | the logins of four providers and the cloud; refresh and use of tokens |
| Setup and configuration | `~cli/configure_wizard.py`, `~agent/providers`, `~config_manager`, `~agent/utils/llm_picker.py` | wizard state, `config.yaml`, key store, exported keys | the wizard's screens, `apply_selection_to_roles`, migrations, `load_agent_llms` |
| Devices | `lib/devices.ts` | `Device.online` | `syncDevices` |
| Executor client | `lib/executor/` | none | HTTP calls, SSE framing |
| CRUD and formatting | `lib/tasks.ts`, `lib/settings.ts`, `lib/app-cards.ts`, ... | single documents | create, read, update, delete |
| Web interface | `app/`, `components/` | presentation | - |

### How they interact

`createRun` checks the device and inserts a queued run; its caller enqueues a
run-task job. The job takes the device lock, reads what the run needs, moves
the run to running with a compare-and-set, posts it to the executor and tails
the executor's event stream into `runEvents` until a terminal event; then it
records the final status and gives the lock back. What it stores goes over an
in-process bus, or from the database, to the browsers that watch. A stop either
cancels a queued run in the database or calls the executor. The executor
registers the run, awaits the list of devices, creates a task and publishes
events; it forgets a run two minutes after its end. After a crash of the app
the boot re-arms the jobs of runs in flight and frees the locks of runs that
are not running. The app and the executor fail independently of each other,
and any call between them may be refused or lose its answer.

Inside the executor's task an agent drives the phone. Jev is one loop:
observe, decide, check that the screen is still the one decided on, act. The
framework is a workflow (`MobileAgent`) that drives a child workflow at a time,
a FastAgent, or a Manager and an Executor in turn; a caller may queue messages
for it meanwhile. Its tool calls are resolved against the UI snapshot of the
turn, and a recorder keeps them as a macro which another process replays. The
models behind it are reached with API keys or OAuth tokens, which command-line
processes and running agents share through two files.

### What is hard, and what makes each part correct

- *Run lifecycle.* The lock, the status, the job and the executor's registry
  are four pieces of state changed by five actors in single writes. Correct
  means: a running run holds its lock; a lock always has somebody to release
  it; a run in flight has somebody to take it further; the final status is
  written once and tells what happened on the phone; the phone is told once.
- *Executor.* Cancellation meets the task at any await, including before its
  first step and in its `finally` block. Correct means: one run per phone, one
  ending per run, kept long enough to be fetched.
- *Event stream.* Correct means: each event stored once and without a hole
  across reconnects, restarts and lost answers; what the agent learned arrives
  in the task's memory; a browser that followed a run has seen all of it.
- *Channels.* Correct means: a record is worked on by one run at a time,
  settled with that run's outcome, and comes back when that run ends.
- *Schedules.* Correct means: an enabled interval schedule has a tick or
  somebody about to plan one, and a run counts once.
- *Agents.* Correct means: a run that says it is finished has read every
  message; a failing call is not repeated for ever; nothing is executed that
  the last answer did not ask for; no input is repeated on a screen that did
  not change, and each one for an action is reported; every run ends, and its
  decision survives the clean-up.
- *Tool calls and macros.* The screen changes under the agent. Correct means:
  an index or a point hits what the model saw, and a recorded action is
  replayed on the screen it was recorded on or not at all.
- *Credentials.* Several processes share rotating tokens. Correct means: a
  refresh token is used once, no writer takes back what another has saved,
  and a login tells the truth about what is on disk.
- *Setup.* Correct means: the agents of a later process find the key and the
  settings the user chose last.

`PROJECT.json` lists the hazards, each at its line, with the properties that
would catch it.

## 2. Plan

| order | module | status | composes | promises |
|---|---|---|---|---|
| 1 | `RunLifecycle` | built, proved | takes executor steps from `Executor` | safety and liveness of one run per device |
| 2 | `Executor` | built | - | the abstract specification of the executor |
| 3 | `RunManager` | built, proved | implements `Executor` | the registry and the task, with the stay-awake setting |
| 4 | `DbChannels` | built, proved | claims at `createRun`, settles at `finishRun` | the work queue |
| 5 | `Schedules` | built, proved | runs reduced to what schedules see of them | ticks, rotation, budgets |
| 6 | `RunEvents` | built, proved | agent, executor stream, job, database, browser | events and memory from end to end |
| 7 | `JevSession` | built, proved | - | loop guards and fresh screens |
| 8 | `AgentRun` | built, proved | parent and child workflows | messages, retries, ends |
| 9 | `Epilog` | built, proved | `finalize` and the writer's worker | time budget of the clean-up |
| 10 | `DeviceActions`, `MacroReplay` | built, proved | the second extends the first | taps, recording, replay |
| 11 | `OAuthLogin`, `Configure` | built, proved | the second extends the first | setting a provider up |
| 12 | `OAuthTokens` | built, proved | processes over one file | using what was set up |

One passing run per module, or per pair that composes (two for `RunLifecycle`,
whose liveness needs a smaller instance). `MC*` modules hold the values of the
constants. *Proved* means every invariant its run checks is a
theorem. Still worth doing: an abstract append-only log that `RunEvents`
implements, whose refinement would rest on `StoreFollows`; a `Schedules`
instance with two schedules in competition.

## 3. What is modelled

### `RunLifecycle`

| variable | code |
|---|---|
| `status` | `Run.status`, with `none` before the insert and `deleted` after `deleteRun` |
| `holder` | `Device.activeRunId` |
| `creating`, `stopping` | the await at which a `createRun` or a `stopRun` request stands |
| `job` | the await at which the run-task job stands, or its row in `agendaJobs`: `ready`, `locked` after a crash, `dead` after an exception |
| `resumed`, `attempt` | locals of `executeRun` and `tailUntilFinished` |
| `exec`, `stopAsked`, `ending` | the executor, as `Executor` presents it |
| `stored` | the terminal event in `runEvents` |
| `app` | the Next.js process; `rearmed` stands between the two halves of `reconcileOnBoot` |
| `starts`, `faults` | history and bound |

An action is one database write or one call to the executor, with the code up
to the next await. `JobPost` is two steps, since `RunManager.start` awaits
between registering a run and answering: a crash of the app or a stop fits in
between. The last terminal event of the stream is kept and the rest of it
left out.

What the model reads into the code, so that a reader can disagree:

- The app creates a run document once and `enqueueRun` names the job by it, so
  a run has one job.
- `reconcileOnBoot` runs before requests are served: `register` awaits
  `startAgenda`. Its loop over the runs is one step, because nothing else runs
  in the meantime and a second boot repeats it harmlessly.
- A 409 of `POST /runs` fails the run. So does a lost answer, while the phone
  goes on: the executor then refuses the next run itself.

### `Executor` and `RunManager`

`Executor` says what the app may rely on: a run is absent, starting, driving,
stranded or over; another run of its device is refused while it is live; a
stop request turns the ending into `cancelled`; a run that is over is kept for
a while. `RunLifecycle` takes its executor steps from it.

`RunManager` is the code: the registry, its sweep at the head of every call,
the await in `start`, the two halves of `stop` around `agent_run.cancel()`,
and the task with its awaits: `created`, `profile`, `reading`, `setting`,
`set` (the phone has executed the command, `keep_awake` has not returned yet),
`goal`, `end`, `restoring`, `over`, or
`stranded`. A cancelled task meets `CancelledError`
at the await it stands at (`Cancelled`), or never begins (`NeverBegins`:
cancelling an asyncio task before its first step closes the coroutine without
entering the `try` block), or is cut in its `finally` block (`RestoreCut`).
`KeepsPromise` shows that it implements `Executor` under the mapping
`execOf`, `endingOf`. The state `stranded` exists in the abstract
specification because the code has it.

### `DbChannels`

| variable | code |
|---|---|
| `channel`, `purging` | the channel's document; a `deleteChannel` between its two deletions |
| `record`, `result` | `DbRecord.status` (`coming` while `addRecords` holds the ids) and `result.runId` |
| `run`, `claim` | `Run.status` and `Run.dbRecord` of the runs of tasks bound to the channel |
| `step` | what `createRun` or `settleChannelRecord` does next for the run |
| `edits`, `crashes` | bounds |
| `owner`, `touched`, `dropped` | history: for whom the claim in force was made; records changed by hand; claims that a crash or a deletion gave up |

A step is one MongoDB operation: `claimNextRecord` finds the channel and then
claims, `createRun` inserts the run or undoes the claim, `settleChannelRecord`
reads the run and then settles. ObjectIds grow, so the queue's order is the
order of `Ids`. Workers (`GET /db/{channel}/get`) and operators act at any
time. How a run gets to its end is left to `RunLifecycle`: here it ends once,
which `FinalStatusStands` of that module shows.

Left out or simplified: `claimedAt`; the contents and descriptions of records;
a worker's own lookup of the channel and its claim are one step; a bulk
operation is a removal or an undo of each record; a channel is not deleted
again while a deletion is under way.

### `Schedules`

| variable | code |
|---|---|
| `mode`, `enabled`, `budget`, `count`, `streak`, `lastRun` | `Schedule.mode` (`none` before, `deleted` after), `enabled`, `maxRuns`, `runCount`, `failStreak`, `lastRunId` |
| `turn`, `now` | `Schedule.lastRunAt`, as a counter that moves when a run is counted |
| `status`, `manual` | `Run.status` as schedules see it (`dropped` never started, `good`, `bad` and `kept` are the three results of `failStreakEffect`, `counted` when the bookkeeping is over), and runs whose trigger is manual |
| `at` | for a tick: its job in `agendaJobs` (`pending`, `fired` when locked) and the await at which it stands; for a run: `createRun` on behalf of the poll or an operator, and its bookkeeping; for a request: its next step |
| `seen` | `before` of `updateSchedule` |
| `carries` | the run that a tick executes inline |
| `crashes` | bound |
| `touched`, `lost` | history: schedules that a request or a crash came upon, and those that two named races left without a tick |

`planNextTick` is two steps (cancel, then plan) and so is `disableSchedule`,
whoever calls them. An update reads, writes, and then plans or cancels
according to what it read and wrote. A tick looks at the device, creates a run
and waits for it; a run ends, frees the device and is counted in separate
steps, and the dispatch poll sees every state between them. The boot keeps the
ticks that were not locked, drops the others, retires what is over budget and
plans for schedules without a tick.

Left out or simplified: `nextRunAt` and time (a pending tick may fire at any
moment, and the poll may or may not pass because a tick is due); the thermal
hold, the pause switch and an unreachable executor, which are outcomes of
`TickPutsOff`; the record of a skipped run; schedules whose task is gone and
queue schedules passed over for an empty channel; `deleteRun` before the
bookkeeping; a poll that outlives its 60-second lock; a failing database.

### `RunEvents`

| variable | code |
|---|---|
| `fact`, `unsaid` | the agent's `MemoryStore` and the changes `MobilerunAgentRun.events` has not turned into events yet |
| `buffer`, `known`, `sub` | `ActiveRun.replay`, the registry, the generator of `subscribe` |
| `wire` | what the stream has sent and the job has not read |
| `job` | where `tailUntilFinished` stands, with its `lastSeq` (`after`, `last`) and `attempt` |
| `stored`, `memory`, `status` | `runEvents`, the task's memory document, `Run.status` |
| `page`, `seen` | the SSE route serving a browser, with its queue; the events the page and its `EventSource` have got |
| `faults`, `failed`, `missed`, `rewound`, `job.idle` | bound and history: `rewound`, whether a crash found the memory older than a stored change |

An event is its kind and, for a memory event, the fact it stores; its sequence
number is its place. Any two faults happen anywhere: a broken stream, a write
that fails or whose answer is lost, a restart of the app or of the executor, a
browser that drops. The end step, whose agent has a memory of its own, and
heartbeats are left out.

### `AgentRun`

| variable | code |
|---|---|
| `mode` | reasoning off (FastAgent), on with a Manager or a stateless Manager, or an external agent |
| `pc`, `child`, `childAsked` | the workflow step that runs next, the nested workflow, its cancellation |
| `pending`, `accepted`, `applied`, `dropped` | `pending_user_messages` and what was reported of each message |
| `message_history` | the FastAgent's history: who spoke, which messages an entry carries |
| `response`, `batch`, `todo` | what the parser found; `pending_tool_calls` in the context; calls still to make |
| `guard`, `malformed`, `failedInARow`, `error_flag_plan`, `retries` | `RepeatGuard`, the malformed counter, the error flag and the retries of the Manager |
| `outcome`, `seen`, `streak` | how it ended; history |

An action is what a workflow step does between two awaits; a cancellation and
a caller's message come in between. What a model answers is arbitrary; what it
says is left out. A stateless Manager is two actions of its own, because it
never looks at the caller's messages.

### `Epilog`

`phase` is where `finalize` stands, `now` an integer clock; `deadline`, `cleanup_reserve`,
`observation_deadline` are the plan of `finalize`, `until` the timeout of the
stage it awaits, `stopBy` and `mcpBy` those of what goes on in the background;
`queue`, `worker`, `job`, `disk` are the trajectory writer. A stage takes any
time up to its timeout; what `finalize` does between two stages may hold the
event loop up, `lag` in all; the disk is as slow as it likes. Macro, UI states
and GIF are further jobs like those for events and screenshots.

### `JevSession`

`observation` is the screen the session decides on, `phone` the one that is
shown, which changes at any moment; a screen is its fingerprint. `attempt`,
`asked`, `consecutive_stale`, `waiting`, `repeated` and `history` are the
locals of `_session`, `reported` counts its action events, and `sent`, `still`
and `vain` record what the phone got. Which operation and target a model names
is arbitrary among those it is offered.

Waking takes steps of its own: the key (`Wakes`), what `settle_wake` reads after
it, the swipe if that is a lock screen, the read after that (`SettleWake`), and
between any two the phone may change or the session break off. `woken` counts
these inputs until the wake event tells of them. The driver may raise, or the
run be cancelled, after the phone got one (`WakeBreaks`), and nothing catches
it: a session that breaks off while waking leaves them in no event, which
`WorkIsReported` states as it is.

### `DeviceActions` and `MacroReplay`

| variable | code |
|---|---|
| `mode`, `recording` | the run's state provider (Android without or with vision, iOS, screenshots only); whether a macro is saved |
| `device`, `service`, `drift` | the phone's screen, the portal's accessibility service; whether the phone has moved by itself since the last read |
| `ui`, `image`, `blind`, `flags` | `ctx.ui`, the space of the screenshot the model saw, a turn whose read failed, the provider's `model_screenshot_*` and `resize_model_screenshot` |
| `fetch` | retries of `get_state` and whether it restarted the portal |
| `pre`, `actions`, `log` | the recorder's screen before the action, `MacroRecorder.actions`, the driver's raw log |
| `touch` | the last touch of the phone |
| `stage`, `call`, `turn`, `done` | where the agent stands, the tool call being executed, turns and calls so far |
| `player`, `policy`, `macro`, `step`, `polls`, `seen`, `failed`, `verdict` | the locals of `replay_macro`, `wait_for_pre_state` and the outcome |

A screen is its elements in the order they are drawn, with rectangles small
enough that `find_clear_point` and the conversions between screenshot and
device pixels are computed as the code does. `compare_states` is its formula
over sets of elements. A label that takes no touch and the keyboard, which the
providers list differently, are in it because the code treats them specially.
`Elements` is what a provider sees of a screen, `Listed` the order it numbers it
in (`Drawn` is a recursive function, so that it can be proved about), and a guard
of a recording is a set of elements.

A label that a call quotes is one of `Names`, and `Fits` is the set of elements
it matches: `label_matches` accepts either string within the other, over text,
description and resource id, so a name may fit several elements, and `Refused`
turns down only one that it does not fit. `TapHitsWhatWasRead` therefore says no
more than the code does: the element with the number is tapped, and the label
fits it. A wrong number among elements the label fits goes through.

### `OAuthLogin` and `Configure`

A login (`stage`, with the clock `now`, the shared `deadline`, the callback
`listener`, the `callback` and `code` it took, what the file holds, `credentials`) goes by
browser, paste or device code to a token and to the file, which another process
may lock. `Configure` adds the wizard: `at` and `sel` are its screen and
`ConfigureWizardState`, `cfg` and `config` the configuration in memory and on
disk, `api_keys` and `creds` the two halves of `auth-profiles.json`, `shell` and
`env` the exported keys of the user and of this process, `meant` and `promise`
what the user chose. `Loaded` is what `load_agent_llms` builds of a
configuration in another process, with the key from wherever
`to_load_llm_kwargs` finds it. `Migrated` is migration v8; earlier ones do not
touch what is modelled.

Simplified: binding the port takes no time, and with it the deadline check
between the binding and the `try` that closes the listener is left out
(`openai_oauth_llm.py:825`, `anthropic_oauth_llm.py:541`,
`gemini_oauth_code_assist_llm.py:648`): a login whose time is over just there
keeps its port until the process ends. openai's `slow_down` is not
handled, as in the code; anthropic's command-line path is its setup token.
Assumed: the server refuses a code that belongs to another login (`Exchanged`),
the only thing that keeps a stray pasted code out of `OutcomeIsTrue`.

### `OAuthTokens`

| variable | code |
|---|---|
| `SessionOf`, `pc`, `token`, `rejected`, `retries` | a call of a model: the object it goes through, where it stands, the access token it posts |
| `file`, `memory` | the slots of `auth-profiles.json`; the credentials a manager has in memory |
| `fileLock`, `threadLock` | `AuthProfileTransaction`, the `threading.Lock` of a manager |
| `profile`, `fresh` | the file as read under the lock, what a refresh brought |
| `status`, `issued`, `grants` | access tokens by the clock and at the server; refresh tokens the server honours |
| `login`, `bought` | a user who logs in anew meanwhile |
| `saved`, `lost`, `faults` | history and bound |

Three providers stand for four: grok reads, refreshes and saves under the file
lock; openai trusts its memory and locks out its own threads; anthropic and
gemini (`plain`) lock the file for the save alone. Left out: openai's 404
fallback and `llm_retry`.

## 4. The runs

| run | instance | what it shows |
|---|---|---|
| `lifecycle_safety` | 2 runs, 1 device, 2 faults, 2 reconnects, symmetry; 1 312 890 states | the lock, its keeper, one post to the executor, a true final status |
| `lifecycle_liveness` | 1 run, 4 faults; 11 805 states | every run ends, but for a job that threw (`dead`) or a stream that stays silent (`Deaf`) |
| `manager_check` | 2 runs, 1 device, 2 failing adb commands; 27 036 states | one run drives a phone, the registry and the task implement `Executor`, started runs end |
| `channels_check` | 2 runs, 2 records, 1 hand edit, 1 crash; 744 838 states | a record has one run, an owner while it is processing, and the outcome of its run; claims end |
| `schedules_check` | 1 schedule, 2 ticks, 2 runs, 1 change, 1 crash; 690 626 states | runs count once; an enabled interval schedule has a tick or somebody about to plan one, and comes to its next tick |
| `run_events` | 2 events, 2 facts, 2 reconnects, 2 faults; 1 286 604 states | no hole in what is stored, facts arrive, a browser that followed a run has all of it, everyone hears the end |
| `agent_run` | 4 modes, 3 steps, batches of 2, 2 calls, 2 messages; 449 731 states | messages are read before the end and survive trimming, no endless retry, nothing executed unasked, every run ends |
| `epilog` | workflow limits of 0, 1 and 4, budget 3, a writer's queue of 2; 1 913 731 states | a decided run does not time out in its clean-up, each stage finds the time kept for it, what is reported as saved is on disk |
| `jev_session` | 2 apps and the lock screen, 3 steps; 5 245 535 states | no input is repeated on a screen that did not change, loops over several screens are broken, every input for an action is in an event |
| `macro_replay` | 2 screens of different size, 4 modes, 2 turns of 2 calls, 1 fault, 1 move; 3 740 894 states | clicks hit the element that was read, points the place that was seen; a replay acts on the screen it was recorded on |
| `oauth_login` | 5 logins in 10 ticks; 4 machines, 6 sets of flags, 4 families, 2 wizards of 2 choices; 1 090 066 states | a login tells the truth, ends and closes its listener; a later process finds what the user chose, at a temperature the provider takes |
| `oauth_tokens` | 2 grok processes, openai and a plain one, 2 calls, 5 tokens, 2 faults, 1 new login; 386 125 states | no slot is taken back, grok's tokens are honoured, a new login stands; no call waits for ever (deadlock check) |

Every property of a passing run has a mutant in `PROJECT.json`: an operator of
the model with a plausible bug, under which TLC finds the property violated.
They are the definitions commented *Faulty variant* or *Mutant*.

### Bounds

- *Two runs, one device.* The invariants relate a run to its device, its job
  and at most one competitor; devices share nothing. The proofs below drop
  this bound for `RunLifecycle`.
- *`MaxFaults`.* Two faults allow a crash during the recovery from another
  one, and a crash of both processes. Four in the liveness run exhaust the
  reconnect budget (`ReconnectAttempts` = 2, 3 in the code) after a resume.
- *One run for liveness.* A competitor never makes a run wait: a refusal by
  the lock, the index or the executor ends the loser at once.
- *Two records, two runs, one edit, one crash.* A claim has one competitor for
  the same record and one record behind it in the queue; the edit can come at
  any of their steps and so can the crash. `DbChannelsProofs` drops these
  bounds for everything but `ClaimsEnd`.
- *One schedule, two runs.* Schedules share nothing but the device, and what
  the others do to it is in `TickPutsOff` and `TickSkips`. A second run is
  what a run counted twice or a run of an operator needs. Two jobs are a
  running tick and a waiting one; in `KeepsTicking` an instance whose jobs are
  all taken is excepted, because the collection has no such limit.
- *Events.* Two events before the ending, one of them or both an edit's, give
  a stream a position that a fault can be before, at and after. With two facts a replay
  can set the memory back, which one fact never shows. `RunEventsProofs` drops
  these bounds for everything but `EveryoneHears`.
- *Agents.* `FailureLimit` is 3 where the code has 6 (`repeat_guard.py:19`; the
  proof holds for any), and 3 steps with batches of 2
  let the failures of one call lie in one batch, over several, and with
  remarks in between; with `KeepSteps` = 1 the history is trimmed. In
  `jev_session` three steps, one tap and two other actions per screen reach
  every ending; `StaleLimit` is 3 in the code, and 4 here, because with so few
  steps the decision limit would never be reached before the step limit.
- *Time.* In `epilog` one unit of lag separates a limit met from a limit missed,
  and a second comes at another stage; limits of 1 and 4 are below and above the
  budget, so the reserves are cut in the first and whole in the second, and one of
  0 leaves nothing. In `oauth_login` ten
  ticks hold two polls with a slow-down, a backoff and a write; a device code
  expires after 4 or after 14, before and after the login's own limit.
- *Screens.* The form has an element over another and a label between them;
  the other screen has another size and a keyboard. One of two names fits both
  the button behind and the label, the other the label alone. Two reads before giving
  up, the portal restarted after the first, are a read that fails, recovers
  or gives up.
- *Machines.* A new one with a key in the shell; one with a key both stored and
  exported and another provider's login; an old configuration with MiniMax and
  a login; one without a version. The families are one with a login and a key,
  one that carries its key in the profile, the one with a temperature of its
  own and the one with two endpoints. Two wizards follow each other, and either
  may be abandoned.
- *Tokens.* Two calls are one refresh and one reader, in one process or in two,
  and two grok processes are what a replayed refresh token needs.

### Fairness

Weak fairness of each request and each job: code that has begun goes on while
its process lives, since each step is enabled until it is taken. Weak fairness
of the boot: a crashed app is started again (its container restarts). Weak
fairness of the executor's own steps: adb commands have timeouts, an agent
has a step bound and a run a time limit. In `DbChannels` a run in flight ends
(`RunEnds`), which `RunLifecycle` shows as `RunsEnd` with its exceptions: a run
whose job threw or whose stream is silent keeps its record as well. Workers are
not made to finish what they got. In `Schedules` a request, a tick or a run
that has begun goes on, and Agenda fires a tick that is due; operators and the
poll need not come. In `AgentRun` the workflow goes on (`AgentNext`: model and
device calls have timeouts), callers and cancellations need not come. In
`RunEvents` the agent ends, the stream and the job go on, and once the job is
over the browser does, which polls until then; nothing is assumed of faults. A login goes on (`LoginSteps`): its
requests have timeouts and its clock ticks; the user need do nothing. Operators,
faults and sweeps have no fairness. `Epilog`, `JevSession`, `OAuthTokens`,
`MacroReplay` and the wizard are checked for safety; the first three also for
deadlock, which here is a stage, session or call that waits for what can no
longer happen.

## 5. Proofs

`RunLifecycleProofs` proves, for any set of runs and devices, any reconnect
budget and any number of faults, the type invariant, six safety invariants
and two action properties, and as a corollary that two runs of one device are
never running at once. Assumptions: `DeviceOf` maps runs to devices, `None` is
no run, `ReconnectAttempts` is positive.

`RunningHoldsLock` is not inductive: `JobBegin` makes a run running without
looking at the lock, and a stop or a boot frees locks. `IInv` therefore says
what the position of the job and of the stop imply about the status and the
lock: a job between acquiring and releasing holds the lock unless a stop took
it after cancelling the queued run; a job before the transition stands at a
run that is queued or was cancelled by a stop; a locked job is one that a
crash left and the app is not up; a request that enqueues is the only one that
does; a posted run is never queued again; what is stored is what the executor
published. Each action is treated once per part of the invariant (lemmas
`TypeStep` to `HandoverStep`), and the theorems combine them by PTL.

`RunManagerProofs` proves, for any set of runs and phones and any number of
failing commands, four invariants and that `RunManager` implements `Executor`.
`DeviceIsExclusive` is not inductive: a run is registered, listed, created and
driven in different steps. `IInv` adds that the phase of a run determines
whether it is registered and has an ending (`PhasesMatch`), that cancellations
are those that were asked for (`StopsMatch`), and that one run of a phone at
most is neither withdrawn nor done (`OneLivePerDevice`), which is what
`_busy_run_for` looks at. For the refinement, lemma `ShownStates` says what
each phase shows of a run, then each action is a step of `Executor` or a
stutter. So the executor's steps that `RunLifecycle` takes from `Executor` are
those of the code; `ExecRestart`, which `RunManager` lacks, is added there.

`DbChannelsProofs` proves, for any set of runs and any number of records,
edits and crashes, the three invariants of `channels_check` and that finished
work changes by hand or not at all. `IInv` ties the places that speak of a
claim together: the step of `createRun` or `settleChannelRecord` fixes the
run's status (`StepsMatchRun`), a claim in force is on a processing record
whose run carries it and still works (`OwnersHold`), and a run that works owns
its record unless it was removed or changed by hand (`WorkersOwn`).

`OAuthTokensProofs` proves the three invariants of `oauth_tokens` for any number
of sessions, threads, calls and faults. Neither is inductive: a writer replaces
the whole file by what it read earlier. `LInv` says that whoever is about to
write holds the file lock and has read the file as it still is
(`WritersLock`); `LoginInv` adds that what a grok refresh brought belongs to
the login it was read from. For `GrokTokenIsHonoured`, `GrokInv` says that
what a refresh has brought, and what a new login has bought, are tokens the
server honours and different ones (`Honoured`). Only a refresh takes a token
out of `grants`, and it takes the one its caller read; so the other half is
that no other provider ever holds a token of grok's (`TokensApart`), wherever
it keeps it: in its slot, its memory or its answer.

The module also proves the invariants of `OAuthLogin` and `Configure`: type
correctness and `OutcomeIsTrue` of a login, alone and inside the wizard, for any
budget, retries and expiries; `RunsAsChosen` and `TemperatureFits` for any catalog,
flags, options and state of the machine. `LoginIInv` says that before its last
step a login has saved nothing and told nobody anything (`Undecided`). `SetupIInv`
says of a config whether a run of it would be served by what was chosen
(`Serves`), of the one in memory as of the one on disk: what makes that inductive
is which configs a newly stored key or login renews. `ConfigureAssumption` is what
the instance also satisfies: families are those of the catalog, and a config found
on the machine is one this program or an earlier version wrote, so that the
temperatures in it fit its provider.

`RunEventsProofs` proves `NoHoleInStore`, `FactsArrive` and `BrowserHasAll` for
any number of events, facts, reconnects and faults. `IInv` follows an event on
its way, each part resting on the one before: edits come into the buffer in
order and an ending closes it (`BufferInOrder`, `ResultHasAll`); what a
generator replays and what its queue holds continue what it sent last
(`StreamInOrder`); one event at most is on the wire, the one after the job's
(`WireFollows`); what is stored is a prefix of the buffer and the job is within
it or at the event after it (`StoreFollows`). Then `FactsFollow`: within a
connection the memory is as new as every event the job has got past; after a
crash, and once the run succeeds, as every stored one. That is not inductive over
a replay that sets the memory back, which is how the divergence `FactsOutliveCrashes`
was found. `PageFollows`: a browser has a prefix of what is shown, and what is
missing is with the route or is the one event the job is about to tell the bus.

`AgentRunProofs` proves type correctness and the four invariants of `agent_run`
for any calls, messages, batches and limits. A message is in one of three places
and an ending found none in the first (`MessagesKept`); what was applied is in a
user entry of the history, whose first response is its second entry
(`ChatKept`), and trimming carries what it drops into the recap: that is a fact
about `WindowHistory` (`WindowKeepsAll`), whose `CHOOSE` needs that a set with
enough elements has one with exactly `KeepSteps` from it on (`NthFromEnd`). The guard's counter is
the length of the streak (`StreakKept`), and a batch is the one of the step
(`BatchKept`).

The module also proves type correctness and the three invariants of `epilog`, for
any deadlines, durations, queue sizes and trajectories. `TimeKept` gives each
place of `finalize` the latest time the clock can show there: the limit of the
stage, plus the lag so far; that the reserves fit into what is available of the
budget is a lemma of its own (`SharesFit`). `EventsKept` and
`ScreenshotsKept` say of each write where it is: not yet submitted, in the queue,
with the worker, on disk or among the lost. The proof corrected one property: for
a workflow whose deadline is shorter than the reserve the plan's deadline is
negative, and what remains of the budget is then what is left of none;
`CleanupHasItsTime` had counted from the negative number, and the run's limits
had no such case (now 0).

`SchedulesProofs` proves type correctness and the two invariants of
`schedules_check` for any number of schedules, ticks, runs, requests and
crashes. `RunsAreCounted` compares a counter with runs in the middle of their
bookkeeping; `RunsMatch` ties the step of a run to its status, `LastIsCounted`
shows that the guard against counting twice, which knows only the last run,
suffices, `NothingBefore` that a schedule starts from nothing, and
`CountsMatch` is the sum. For `ScheduleIsAlive` each action either leaves alone
who sustains a schedule (`Sustains`) or hands it over: a tick to its run, a run
to its bookkeeping, that to a plan, a plan to a tick, and a boot plans where
nobody is left. One assumption is about the instance alone: each schedule has a job to be planned
with (`ScheduleAssumption`). Agenda's collection has no limit, and without it a
boot would have none to take.

`JevSessionProofs` proves type correctness and the three invariants of
`jev_session` for any screens, actions, advisor and limits. The types go in
three parts, records, pairs and loop variables (`TypeParts`). What the session
knows is compared with what happened on the phone at each step of its loop:
`SentIsKnown`, that inputs sent since the phone's screen last changed are in
`repeated` unless they were decided on another screen; `RoomLeft`, that an
action that has passed the guards has not used up its number on its screen;
`Books`, that while the session goes on, inputs and waits, the history and the
reported successes agree, nothing has failed and no waking is untold. `Counters`
has `woken` at each step: none, the key, or the key and the swipe. Counting in a history that
grows by one step needs the library's facts on finite sets (`CountAfterAppend`).

The module also proves the three invariants of `macro_replay`, for any screens,
layouts, sizes, recordings, limits and faults. `ImageFits` says that the image the
model was shown has the space its points are converted from, whatever the
recorder's reads have done to the provider's flags. `ReadFits` says that what the
recorder takes for the present screen is that screen, or nothing; `RecordedFits`
carries it into the entries, `PlayerFits` into what the player compares them with.
A recording that saw the keyboard is replayed by a provider that does not: that
the comparison is then still good enough is `SimilarWithoutKeys`, a fact about the
sizes of sets. `ListFits` says that the turn's list is that of the screen it was
read from, `CallFits` that a call about to click is about this screen and quotes
a name that fits the element with its number, if any; the phone may show another
screen by then. A list has elements of its screen alone (`DrawnFits`,
`ListedFits`). Where one is tapped is geometry: the regions left beside a
blocker lie within the element and have no point of the blocker (`WithoutFits`),
so after any number of blockers, taken one after the other, no region has a point
of any (`UncoveredFits`), and the centre of the largest one is in it
(`CentreInside`, `LargestExists`). The two recursions are functions here, and
their existence (`RegionsExist`, `PartsExist`) and the inductions over them rest
on the least number that would fail (`LeastOf`). `DeviceAssumption` is about the
screens: a layout lists its elements once, each has an area, and none of these is
`Nil`, nor is a name.

Some theorems state properties no run checks any more, because their proofs
make a bounded check of them superfluous: `TypeCorrect`, `RunsHaveWorkers`,
`OneQueued`, `FinalStands`, `LockNotStolen`, `DoneIsDone`, `LiveAreRegistered`,
`EndedAreKept` and `EndsOnce` (TLC agreed with each before it was proved).

TLC only, not proved: liveness (`RunsEnd`, `StartedRunsEnd`, `ClaimsEnd`,
`KeepsTicking`, `RunEnds`, `EveryoneHears`, `LoginEnds`), which rests on
fairness and ENABLED. Every other property a run checks is a theorem.

## 6. Known divergences

What the code does and a comment, a document or plain expectation does not say.
Those with a name are defined in the module named, and TLC violates them when
they are added to the module's configuration.

- `OneInFlightPerDevice` (`RunLifecycle`): `createRun` looks for a run in
  flight before it inserts one (`lib/runs/service.ts`), so two requests pass
  together; `README.md` says one run is queued or running per device. The unique
  index stops two queued ones only.
- `CancelledIsOffThePhone` (`RunLifecycle`): the job moves the run to running
  (`lib/jobs/run-task.ts:77`) before `POST /runs` (`:90`). A stop in between is
  answered 404 by the executor; `stopRun` (`lib/runs/service.ts:451-453`) takes
  it for a forgotten run, records cancelled and frees the device, and then the
  job posts the run and the phone is driven. Its comment says only a run the
  executor has lost is settled here, and `README.md:113-114` that a stop ends
  the run on the phone.
- `StopsAreHonoured` (`RunManager`): a stop while `start` awaits the device list
  finds no task to cancel; one before the task's first step closes the coroutine
  without an ending.
- `SettingIsPutBack` (`RunManager`): cancellation inside `keep_awake` loses what
  `restore_sleep` must put back; and the terminal event frees the device before
  `restore_sleep` runs, so the next run may take the kept-awake value for the
  phone's own.
- `SettlesOwnClaim` (`DbChannels`): a run whose record was undone by hand and
  claimed by another run settles that other run's claim.
- `BudgetKept` (`Schedules`): the poll starts a queue schedule again before its
  last run is counted, beyond `maxRuns`.
- `BudgetIsPerGap` (`RunEvents`): the comment at `lib/jobs/run-task.ts:210`
  gives each gap its own budget of reconnects; a stream that throws, rather
  than ending, does not renew it.
- `FactsOutliveCrashes` (`RunEvents`): a memory change is applied before its
  event is stored, and the comment at `lib/jobs/run-task.ts:248-250` says a
  crash in between replays it on resume instead of losing it. The agent stores
  fact 1, then fact 2, and ends with its result; storing the result is
  answered with an error although it was written; the job connects again after
  the last event known when that connection began, and applies fact 1 again;
  then the app goes down. `resumeRun` finds the stored result and finishes the
  run, and the memory stays at fact 1. `FactsArrive` is the property without
  such a crash.
- `BrowserMissesNothing` (`RunEvents`): a page loaded while the run is running,
  whose `EventSource` connects after the run's end, is told the end and shown
  none of the events in between.

In `RunLifecycle` and `RunEvents`: an exception between taking the lock and the
`try` block (`lib/jobs/run-task.ts:63-87`) leaves the device locked until the
next boot; a run that `start` withdraws because its device is not listed keeps
its subscribers, which hear heartbeats only (`Deaf`); an ending whose insert
was stored but not answered may leave the run failed; and facts of a run that fails
may be lost or older, although `README.md:110-112` keeps what it learned.

In `lib/db-channels.ts`: `setRecord` can race with an undo and leave a
processing record without `claimedAt`; `addRecords` can insert into a channel
that was deleted after it was found, and leaves orphans; a `deleteRun` between
`finishRun` and `settleChannelRecord` leaves the run's record in processing.

In `lib/schedules.ts`, the first two as the exception `lost`:

- `updateSchedule` plans from the document it read before its write. When
  another update disables the schedule, or takes it out of interval mode, in
  between, the last writer sees nothing to plan or cancels a tick that is
  wanted: the schedule is enabled without a tick until it is changed or the
  app starts again. The instance of `schedules_check` has one change and does
  not reach this.
- The boot drops the ticks that were locked, and gives no new one to a schedule
  with a run being resumed, because the run's bookkeeping will plan it. A
  manual run has no bookkeeping, so its schedule stays without a tick; and
  `nextRunAt`, once it has passed, keeps the schedule due, so that
  `dispatchDevice` leaves the whole device to it.
- A run that ends while its schedule is disabled is never counted
  (`RunsAreCounted` asks for `enabled`).

In the Jev agent: a session that breaks off while it wakes the phone, by a failed
read, a driver that raises or a cancellation, tells nobody of the key and the
swipe. The wake event comes after the reads (`run.py:340-350`), while actions are
reported before ("a failed read must not erase an executed action", line 469).

In the agent framework:

- A stateless Manager never drains the caller's messages, so an answer given
  while one waits is sent back until the step limit, and the run fails.
- A replay compares elements and not their bounds, and then taps the recorded
  coordinates. A macro of a vision run was recorded with another filter than
  the player's and may not match the very screen it was recorded on; one
  recorded from screenshots has empty guards, which match only when the player
  cannot read the screen at all; actions that were not recorded with a state
  play unguarded. The phone's package is never compared.
- In a replay `open_app` counts as done when its target could not be started,
  and text input ignores a refusal; the hand-over to an agent discards the
  actions that were left; the outcome does not reach the exit status;
  `--max-steps 0` plays nothing and is a success.
- A run that is cancelled while the portal is being restarted leaves the
  accessibility service off. An element under the keyboard is not treated as
  covered.

In the credentials: openai trusts its memory, and anthropic and gemini do not
coordinate refreshes between processes, so what holds of grok
(`GrokTokenIsHonoured`) does not of them. A grok refresh whose answer is lost
costs the login.

In the setup:

- Back at the question for the API key's source does not go back: the caller
  (`~cli/configure_wizard.py:624-625`) compares the key with `_BACK` and not the
  source, so the provider is applied without a key and the source `__back__`
  is saved. TLC violates `config.source # "back"`.
- Saving a key also exports it in the wizard's own process, which is then
  offered as the environment's key although no later process has it.
- Applying a selection stores the keys of all slots, those of the shell
  included, which then go before a key that is changed in the shell. The read
  before it is outside the file's lock, so of two wizards one loses the other's
  key; an `OSError` of the write is swallowed.
- An abandoned wizard has replaced the stored key already.
- The anthropic login switches streaming off and nothing switches it on again.
  OpenAI's temperature of 1 is inherited by the provider chosen after it, and
  the advanced settings may set another for OpenAI. Choosing a provider after
  the advanced settings drops token limit and context window.
- Migration v8 clones the fast agent's profile for vision at temperature 0, for
  MiniMax too, which refuses it. `--model` takes the first profile's provider
  without its URL and key. The wizard accepts model names the loader refuses,
  and an empty key.

## 7. What is not modelled

- Devices (`lib/devices.ts`), tasks, settings, app cards, exports and the web
  interface: CRUD of single documents, pass-through I/O, presentation.
- The framework's drivers (adb, iOS, cloud), prompts and parsers, the chat APIs
  of the providers and `llm_retry`, model discovery, telemetry, MCP tools and
  the terminal screens: formats, data and I/O. Of the wizard, the settings that
  no provider depends on.
- Failing database writes, except before the `try` block of `executeRun`
  (`JobThrows`) and those of events and memory (`RunEvents`).
- The 13-hour lock of a run-task job and the 60-second lock of the dispatcher.
- `replaceTaskMemory`, by which an operator and a run overwrite each other's
  facts, and the limits of the memory.
- In `RunLifecycle`, the schedule's bookkeeping after a run has ended, which
  `Schedules` has.
- A restart of the executor process inside `RunManager`, which loses every
  task and never puts the stay-awake setting back; `RunLifecycle` and
  `RunEvents` have the restart.
