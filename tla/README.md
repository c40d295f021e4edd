# yscr in TLA+

yscr is one Go process that watches the sessions in a user's tmux panes, talks
to the user about them, and keeps a durable queue of work (the cue) and a
work-list (the scratchpad) that it hands to those sessions by itself.  This
directory holds TLA+ models of the parts that decide something, TLC runs that
check them on small instances, and TLAPS proofs about each of them: the parts
that act without being asked (the release loop of the cue and the scheduler that
feeds it), the conversation queue, the batches of proposed tasks, the streams of
live output, the history of a terminal and the answering of questions.  Every
invariant that a passing run checks is also proved, for all values of the
constants.

Paths are relative to `src/`.

## 1. The system

### 1.1 Components

| Part | State it keeps | Operations | Talks to |
|---|---|---|---|
| Release gate (`cue/cue.go`) | none: a pure function of snapshots | `PlanWithStatus`, `ValidateDeps` | called by the release loop and by the proposers |
| Release loop (`service/cue.go`) | `recent`, the dispatches of the last hour; `dryRun` | `tick` = `reconcile` then `release` | fleet watcher (caller), `cue_tasks`, the sources (`Post`, `Spawn`) |
| Cue table (`store/pg.go`) | `cue_tasks`: status, `run_session`, `seen_busy`, `released_at`, `deps`, `dedupe_key` | `EnqueueTask`, `PendingTasks`, `InflightTasks`, `TaskStatuses`, `MarkInflight`, `MarkSeenBusy`, `MarkDone`, `MarkFailed` | release loop, generator, `plan_goal`, scheduler |
| Scratchpad (`scratchpad/`, `concierge/tasks.go`, `store/pg.go`) | `scratchpad_tasks`: status, `run_at`, `cron`, `dedupe_key` | `Add`, `Complete`, `List`, `Note` | the user, the concierge's tools, the scheduler |
| Scheduler (`service/schedule.go`) | none between ticks | `tick` = `promote` and `rearm` per row | fleet watcher (caller), both tables |
| Generator (`service/cuegen.go`) | none | `generateOnce` on its own ticker | language model, `ValidateDeps`, `EnqueueTask` |
| plan_goal (`concierge/plan.go`) | none | `planDispatch` | a turn of the conversation, `ValidateDeps`, `EnqueueTask` |
| Dispatch queue and retry (`concierge/queue.go`, `retry.go`) | one channel and one worker per conversation | `ConverseOn`, `worker`, `runTurnWithRetry` | HTTP handlers, agentkit, the conversation store |
| Fleet watcher (`service/stream.go`) | the previous snapshot | `watch` every 12 s | sources, release loop, scheduler, summarizer, ambient narration, SSE hub, push |
| Live tails, narrations (`service/watch.go`, `narrate.go`) | `active`: key -> cancel | watch, unwatch, pump | sources' streams, SSE hub |
| Ambient narration (`service/ambient.go`) | `active`, `cells` (snapshot, revisions, last spoken) | start, stop, loop | fleet watcher, language model, SSE hub |
| Summarizer (`service/summarizer.go`) | `cache`: key -> signature, summary, inflight | `observe`, `run` | fleet watcher, language model |
| Questions, decisions (`questions/`, `decisions/`, `store/pg.go`) | `open_questions`, `decisions` | add, answer, supersede, resolve | concierge tools, web app |
| Claude adapter (`plugins/claude/`) | transcripts and hook files on disk | state, post, act (keystrokes) | tmux |
| Terminal history, tmux (`terminal/`, `tmux/`) | segments per pane, watermark, `streaming` | feed, poll, stream, query | tmux |
| Cron (`scratchpad/cron.go`) | none | `ParseCron`, `Next` | scheduler |
| Reports, push, audio, realtime, auth, config, commands, web app | little or none | rendering, proxying, start-up | |

### 1.2 How they interact

Five kinds of goroutine matter.  The *watcher* takes a fleet snapshot every 12 seconds
and calls, in this order and on its own goroutine, the summarizer, the release
loop and the scheduler; so those two never run at the same time as each other or
as themselves.  It also starts and stops the ambient narrations (`ambientSync`).  The *generator* has a ticker of its own.  Each conversation has
a *worker*, whose turns call the concierge's tools (`plan_goal`, `add_task`,
`done_task`, ...).  Every *HTTP request* runs on its own: `ConverseOn` sends
into a worker's channel, `handleTaskDone` closes a scratchpad row,
`handleAnswer` types an answer into a pane, `handleWatch` and `handleNarrate`
start a *stream* and its consumer, two goroutines joined by a channel without a
buffer.  Those that keep work meet in the tables of Postgres, one statement at a
time: there is no transaction over two statements anywhere in these paths.  The
others meet in maps under a lock that is given back between looking and acting,
and in panes and files that nobody locks.  A session is outside the process
altogether; the process sees it only through snapshots, from which a session is
missing when its source is down.

### 1.3 What is hard, and what makes each part right

- *Gate and release loop.*  Decisions are made on three successive reads and
  recorded one by one after the side effect; the process may stop in between.
  Right means: caps and dependencies hold all the same, a task goes out once but
  for what the table never learnt, a task is not taken for finished before its
  session has started on it, the hourly window holds, and whatever can be
  released is released in the end.
- *Scheduler.*  A row is closed in one table and inserted in another, from a
  list that may be stale.  Right means: no row has two lives, none vanishes
  unaccounted for, no work is live twice, due rows are handled, and repeating
  work comes back.
- *Dispatch queue.*  Utterances are merged, callers leave, attempts are retried
  over a conversation that keeps what the failed ones left.  Right means: the
  conversation is in order, each answer answers the caller's own utterance, and
  every call ends.
- *Proposers.*  A graph that a language model made up is cut until it is
  valid, and enqueued into a table that drops a task whose id it has.  Right
  means: edges are lost whole and only where needed, and it is known which work
  can be lost.
- *Tails, narrations, ambient.*  A stream ends on its own, by a cancel or with
  its session, while its consumer waits for a model.  Right means: one consumer
  per session, what is stopped ends and gives its key back, nothing is told
  twice, nothing but the older part of a burst is lost on the way to the model,
  and the gap between utterances holds.
- *Answering a question.*  A question is known by a payload on disk and by the
  screen, and is answered by keys that go out one at a time.  Right means: the
  keys do what the answer says, in the question it was given to, and where they
  fail midway nothing else is picked; a question that is up is reported, and one
  that was answered goes away.
- *Terminal history.*  Two feeders read the same pane and write the same
  history and the same watermark.  Right means: each line once and in order from
  either of them, and what a query reads back is what is stored, but for what it
  says it leaves out.
- *Questions, decisions.*  One open question per text, one open decision per
  key, at every moment.

`PROJECT.json` lists the hazards at their lines, each with the properties that
cover it or the module of the plan that will.

## 2. Modules

### 2.1 `CueGate`: the gate

Pure operators over sets of task ids.  A task's fields never change once it is
enqueued, so `Target`, `Deps` and `Rank` (the total order of `plan`: priority,
age, id) are constants.  `Releases(t, done, fleet, counted)` is the body of the
loop of `plan`: `counted` is the set of tasks behind the code's counters `used`
and `global`, so that a count is the cardinality of a part of it and a task that
is counted is counted once.  `Deps[t] \subseteq done` stands for the three-way
classification by `taskStatus`: live, failed and missing all hold.

### 2.2 `CueRunner`: the loop over its table

| TLA+ | Code |
|---|---|
| `status`, `run`, `seen`, `late` | the columns of `cue_tasks`; `late` says that `released_at` is more than `CompletionTTL` ago |
| `pc`, `todo`, `counted`, `doneIds`, `released`, `posting`, `session` | the local variables of `reconcile`, `release` and `plan` |
| `recent`, `dryRun` | the fields of `cueRunner` |
| `fleet` | the argument `states` of `tick` |
| `StartTick`, `ReconcileRow`, `ReconcileRowFails` | `reconcile` |
| `ReadPending`, `NothingPending`, `ReadInflight`, `ReadStatuses`, `ReadFails` | the three queries of `release` |
| `Gate`, `GateEnds` | `PlanWithStatus`, a task at a time |
| `Dispatch`, `DispatchFails`, `DispatchDry`, `MarkInflight`, `MarkInflightFails`, `DispatchEnds` | the dispatch loop |
| `EnqueueTask` | the one statement every producer uses |
| `TTLPasses`, `HourPasses`, `Restart` | the clock and the process |

`ReconcileRow` visits the rows in any order (the query has none).  `Gate` visits
them in the order of `Rank`.  An error of `Post` or `Spawn` may come before or
after the source took the task.  `delivered`, `unrecorded`, `worked`,
`lastHour`, `escaped` and `restarts` are observations for the properties; no
action reads them but to bound the run or to let a delivery grow older than an
hour.  `recent` is what the code counts, `lastHour` what the sources took in the
last hour; they differ by what a restart forgets and by `escaped`, the
deliveries of calls that then reported an error, which the code counts nowhere.

### 2.3 `CueLedger`: what the cue promises

The abstract specification: a task is accepted, started, closed, with
dependencies, caps and keys respected, and there is no runner.  `CueRunner`
implements it with the identity on `status` (`Ledger == INSTANCE CueLedger WITH
status <- status`): the property is `KeepsPromise`, `Ledger!Spec`.

### 2.4 `Schedule`: the scratchpad scheduler

`pad`, `cron` and `runAt` are columns of `scratchpad_tasks` (`runAt` is "never",
"later" or "due"); `cue` is what `EnqueueTask` looks at in the other table.
`StartTick` is `List`; `Promote` and `Enqueue` are the two statements of
`promote`, with `moving` in between; `Rearm` is `rearm`.  `AddTask` and
`CloseTask` are the user, at any moment.  `OutOfIds` exists because `Ids` is
finite: a re-arm that finds no fresh id is skipped.

### 2.5 `Turns`: one conversation

`chan` is the buffered channel, `batch` the drained requests, `store` the
entries of the conversation: one `user` entry per attempt and one `assistant`
entry per turn that succeeds (what a turn does in between is agentkit's).
`TurnFails` stands for every error that is final: not transient, an ended
context, the last attempt or the exhausted budget.

### 2.6 `PlanBatch`: proposed edges

`Valid` defines what `ValidateDeps` decides: no id twice, no unknown name, and
no set of tasks each of which depends on one of the set.  `Clean`, `Check`,
`Relax`, `Enqueue` follow the two proposers side by side; `who` tells them
apart where they differ (the generator skips batches of one, validates the
uncleaned batch, and goes on after a failed enqueue).

Tasks are numbers and `id` gives each the id the model chose, so that two may
have the same.  `EnqueueTask` returns no error for a task it turns away, whether
for an id the table has (`ON CONFLICT (id) DO NOTHING`) or for live work with its
key, and neither proposer looks further than to count.  `Enqueue` therefore
drops a task whose id an earlier task of the batch was inserted with
(`Namesake`), and may turn away any other for a row from before (`held`): what is
in the table when a batch comes is a choice.  A batch with an id twice is never
valid, and is enqueued all the same after the relaxation.

### 2.7 `AnswerKeys` and `ClaudePane`: answering a question

`AnswerKeys` has the pure part: the two ways a pending question becomes a
questionnaire (`HookForm`, `PaneForm`), `Valid` (source/validate.go),
`Typable` and `Keystrokes` (`keystrokesFor`), and the menu those keys are
typed into (`Press`), which is the Claude CLI's and is modelled from the protocol
that `keystrokesFor` and its tests write down.

| TLA+ | Code |
|---|---|
| `proc`, `Indexed`, `Live` | the session in the index, and its live pane |
| `hook`, `installed` | the payload in the pending directory, written by `yscr hook` |
| `landed` | the tool_use ids that `questionAnswered` finds in the transcript |
| `menu`, `turn`, `asked`, `inTurn` | the screen and what Claude is doing (external) |
| `act[r]` | a reader of the state: `handleAnswer`, `answerQuestionnaire` and `Act`, or the watcher |
| `Take`, `OpenFile`, `CheckFile`, `Look` | `State`: the payload is opened, the transcript searched, the payload removed, the screen parsed |
| `Decide` | `Validate` and the comparison of the ids, by the caller and again by `Act` |
| `Type`, `TypeFails`, `Verify` | the keys, 300 ms apart, each a call of tmux that may fail, and the look for the review tab |
| `PostFind`, `PostLaunch`, `PostText`, `PostEnter` | `Post` to a live pane or to a resumed session |

`on` and `got` are observations: which question the reader found on the screen
(given up as soon as anyone else touches the menu) and what its own key
submitted.  A request that somebody else has disturbed is not followed further
once it has ended (`Ended`).

Every call of tmux may fail.  A pane that is not listed is not live, a screen that
cannot be captured has no question on it and, after the keys, no review tab (the
code ignores the error in both places), and `send-keys` may fail before or after
its key has arrived, also because the client has gone: the context of the keys is
the request's, so an answer may end between any two of them (`"broken"`).

`AskHook`, `Show`, `EndTurn`, `StartTurn`, `Touch`, `End` and
`Boot` are Claude and the user at the terminal, at any moment.

`ScriptAssumption` says that a prompt has one to four questions, each with a
header, a flag and a list of labels (the tool's own schema), `AnswersAssumption`
that an answer is lists of values (`toStrings`).  Labels are otherwise free, and
two properties name the ones for which the code cannot do better.  `SeenWhileUp`
excepts a lone question all of whose options look like rows of the menu
(`Hidden`): the parser finds no option and reports no question.  `LandsAsChosen`
is about questions without such a label, without two options of the same label
(`keystrokesFor` types the digit of the first) and answers without a value given
twice (`Plain`).

### 2.8 `PaneHistory` and `PaneFeed`: the history of a terminal

`PaneHistory` is `terminal/terminal.go` as operators on a sequence of segments:
appending rows and frames under their caps, `ProgramChanged`, differences of
frames, the first and last frames over several segments, searching, capping.
Rows are numbers, so that a row can be told from any other: lines of output
count from 1, the rows of `Frames` are numbers past them (`FramesAssumption`), 0
is a blank row, and what a query prints besides rows, `Gap` and the marks of
what was left out (`Elided` by a limit, `Omitted` by a difference), are negative.
`DiffCap` is the number of rows of a difference that are shown, sixty in the
code.

`PaneFeed` is what feeds it.  `Output`, `Paint`, `Flip`, `Clear`, `End` are the
pane (external).  `PollScan` .. `PollFrame` are `PollPane` with the pane record of
an earlier `Scan`; `StreamOpen` .. `StreamStop` are `Stream` and its goroutine.
Each capture and each locked section is an action, because the pane and the
other feeder may move in between.  `wm` and `streaming` are the maps of the
adapter, `hist` and `gen` the pane's session (what is fed to a session that has
been dropped is lost with it: `Feed`).  `deep`, `base` and `sent` are observations.

### 2.9 `Streams`: tails, narrations, ambient narration

| TLA+ | Code |
|---|---|
| `kind` | which of the three consumers the run is about |
| `inst[i]` | one stream with its consumer: `open` is its channel, `cancelled` its context, `off` how far it has read, `buf` what the loop keeps |
| `active` | the entry of the session's key in the hub's map |
| `cells`, `cellOf` | `cells` of the ambient hub |
| `client`, `got` | the buffer of an SSE client, and what it has read |
| `Start`, `Observe`, `Stop` | `handleWatch`, `handleNarrate` and their opposites |
| `SyncStart`, `SyncStop` | `ambientSync` with `start` and `stop` |
| `HandOver`, `Close` | `Adapter.Stream` and the receiving end of the channel |
| `PumpEnds`, `DropKey` | `pump` and the deferred `drop` |
| `Flush`, `Narrated`, `NarrationEnds` | `narrateLoop` |
| `AmbientBegins`, `Distil`, `Spoken`, `AmbientEnds` | `ambientLoop` |

The stream of an ambient narration has the watcher's context, so `Close` does not
apply to it: the loop ends, the stream stays behind with nobody to hand a record
to.  The model's answer is a choice between a line and none; quiet hours are a
choice at each tick.

A narration gives the model no more than the end of a delta (`narrator.line`
keeps its last 4000 characters).  `Delta` keeps the last `DeltaCap` turns: a
turn is the unit here, so a turn that is cut in the middle counts as kept or as
lost.

Operators marked "Mutant" next to a definition are that definition with a
plausible bug.  No action uses them; `PROJECT.json` says which property each
one breaks when it takes the definition's place.

## 3. Runs

| Run | Instance | What it shows |
|---|---|---|
| `cue_safety` | 3 tasks: two for one session, one spawn that depends on the first and has the key of the second; 2 spawnable sessions; caps 1 per session, 1 spawn; 2 dispatches an hour; 1 fault | `TypeOK`, `DepsDoneFirst`, `CapsHold`, `DeliveredOnce`, `DoneWasWorked`, `HourlyCap`, `KeepsPromise` |
| `cue_live` | 2 tasks for one session, 1 dispatch an hour, 1 fault, fairness | `Reclaimed`, `EventuallyReleased` |
| `cue_backstop` | 1 task, 1 session, fairness | `BackstopReclaims` is violated: section 6 |
| `schedule` | 3 rows, 1 piece of work, 1 fault, fairness | `TypeOK`, `OneLife`, `NothingVanishes`, `NoTwins`, `DueIsHandled`, `CronComesBack` |
| `schedule_cron` | 1 row, fairness | `CronFires` is violated |
| `turns` | 3 callers, channel of 2, 2 attempts, 1 restart, fairness | `TypeOK`, `InOrder`, `OwnReply`, `EveryCallEnds` |
| `turns_medium` | 2 callers | `Speakable` is violated |
| `plan_batch` | every batch of up to 3 tasks over 4 ids, an id used twice or in the cue already, 1 failing enqueue | `TypeOK`, `AllOrNone`, `OneCutIsFound`, `WorkIsKept` |
| `plan_edges` | every batch of up to 2 tasks over 3 ids | `OnlyBadEdgesLost` is violated |
| `answers` | 4 prompts in a script, hook installed or not; 1 request to answer, 1 watcher, 1 post; 1 key of the user, 1 end of the process, any call of tmux failing; fairness | `TypeOK`, `LandsAsChosen`, `RightQuestion`, `SeenWhileUp`, `AnsweredGoes` |
| `pane_feed` | viewport of 2 rows, captures of 3, segments of 3 rows or 2 frames, differences of 1 row; 3 lines, 2 events, 1 stream | `TypeOK`, `StoredOnce`, `SentOnce`, `ShownIsFound`, `EndsOfHistory`, `SearchIsWhole` |
| `streams` | 5 records, SSE buffer of 2, deltas of 2 turns, gap of 2 over a clock of 3 values, 2 starts, fairness | `TypeOK`, `OneLoop`, `EndIsLast`, `ToldOnce`, `GapHeld`, `StoppedEnds` |

Why the bounds are enough.  *cue_safety*: two tasks on a session are needed for
a cap, a spawn for its own cap, a dependency, an order of priorities and a
shared key for the rest; a fault is a failed call or a restart, and one of
either suffices for every half-done step, because each leaves the table in a
state that the next tick starts from.  What holds for any number is proved
(section 5).  *schedule*: a row, its successor and the successor's successor;
twins and turned-away rows take two.  *turns*: three callers over a channel of
two make a sender block, a turn merge, and a third caller arrive during a retry.
*plan_batch*: two tasks make a cycle, three make a cycle with a bystander or
two cycles through one task, and an id no task has stands for a made-up one;
two tasks with one id are among the batches.
*answers*: the script has each shape of prompt (several questions, a lone one
with one choice, a lone one with several) and a lone one asked twice, which has
the same id on the screen; one answer is in another order than the options, one
is refused by `keystrokesFor` alone.  One request against one watcher, one post,
one key of the user and one end suffices to come between any two steps of `Act`.  A
second answer typed at the same time is in no run: it is one more that disturbs
the first, and the theorems are for any number of requests.
*pane_feed*: two rows on the screen and three in a capture make a row scroll
away and a screen that is cleared shorter than the watermark; two frames per
segment make the oldest one go; a frame of two rows that both change is more
than a difference shows.  `StoredOnce` speaks of the poller alone and `SentOnce` of
the stream: a line that both of them feed is in the history twice, and no
property says otherwise.  `MaxLines` equals `Cap`, so a capture reaches
back to the first row in this run: a scrollback that has lost rows, where
the code cannot tell how many, is left to the proof, which makes no such
condition.  `SearchIsWhole` is asked while nobody feeds, which loses nothing, for a query locks the session.
*streams*: two instances are one that ends and its successor; five records have
a change, noise, nothing, and a change back; the buffer of two overflows,
and three turns in one delta are cut to two.

Bounds named in the modules: `MaxFaults`, `MaxRestarts`, `MaxTasks`,
`MaxTouches`, `MaxEnds`, `MaxLines`, `MaxEvents`, `MaxStreams`, `MaxTime`,
`MaxStarts`, and the finite sets `Tasks`, `SpawnIds`, `Ids`, `Callers`,
`Answerers`, `Watchers`, `Posters`, `Frames` and the sequences `Script`, `Records`.  `recent` and `forgotten`
are bounded by the tasks and the faults, not by a guard.  Symmetry is used in
`cue_safety` over the spawned sessions and in the `plan_*` runs over the ids,
in runs with safety properties only (`KeepsPromise` is checked step by step and
maps to a specification that does not mention the sessions permuted).

Deadlock is not checked where the system may come to rest: a cue with every
task closed and nothing to enqueue still ticks, but a conversation with every
caller served, a batch that is enqueued, a script that has been asked to the
end, a pane that is gone and a transcript with nobody left to follow it do
stop.  `cue_live` and
`cue_backstop` leave it unchecked as well: it is `cue_safety` that asks the
question for that module.

## 4. Fairness

- `CueRunner`: weak fairness of `Runner`, because the watcher's ticker keeps
  calling `tick` and every call in it returns (`service/stream.go`, `watch`);
  strong fairness of `HourPasses` and `TTLPasses`, because time passes whatever
  the runner does, and the model lets it pass between two ticks only.  Nothing
  makes a producer enqueue, a session change its status or a fault occur.
  `Reclaimed` and `EventuallyReleased` are conditional on the fleet: on sessions
  that are at rest from some point on, and on sessions that are releasable
  whenever a snapshot is taken.
- `Schedule`: weak fairness of the tick and of the clock of each row.  Nothing
  makes the user act or the cue finish.
- `Turns`: weak fairness of the worker (an attempt ends: `turnTimeout`) and of
  each sender once there is room.  A caller may wait for ever; it need not give
  up.
- `ClaudePane`: weak fairness of the watcher's reads, because the fleet watcher
  reads every session's state on each tick.  (It lists the 25 sessions touched
  last, plugins/claude/source.go:46-47, so `AnsweredGoes` is about a session among
  these.)  Nothing makes anybody answer, the user act or Claude go on.
- `Streams`: weak fairness of the goroutines of an instance, whose model answers
  or is given up after its timeout, and of the two ends of a `select` on their own,
  because Go's select chooses at random among the ready cases and so does not
  pass one over for ever.  Nothing makes the transcript grow, the client read or
  anyone start or stop.

## 5. Proofs

`CueRunnerProofs` proves, for every finite set of tasks, every dependency
graph, every caps, every window and every number of faults, from the
assumptions `TasksAssumption`, `FleetAssumption`, `CapsAssumption` and
`RunnerAssumption` of the modules alone:

`TypeCorrect`, `DepsRespected`, `CapsRespected`, `NoSpuriousRedelivery`,
`Latched`, `HourRespected` (`[]` of the invariants of `cue_safety`),
`KeyRespected` (`[]OneLivePerKey`), and `Refinement` (`Spec => KeepsPromise`).

None of the invariants is inductive: each speaks about the table, and what
keeps it true is what the tick under way has read and not yet acted on.  The
inductive invariant `IInv` adds that:

- `PhaseInv`: at each point of the tick, what the local variables hold is still
  so in the table (the rows the gate looks at, and the ones it released, are
  still pending; the done ids read are still done).  It holds because only the
  runner moves rows out of pending and done is final.
- `CountInv`: from the second query on, the counted tasks include every row in
  flight and every release, and are within the caps.  This is what makes it
  safe to count from a snapshot: the rows in flight only ever catch up with it.
  A fresh read of a counter would not be enough, and a smaller `counted` (see
  the mutant `ReadInflightForgets`) breaks it.
- `DepsInv`: releases and acceptances had their dependencies done.
- `RowInv`: a row past pending has a session, and a latched one was seen busy.
- `HourInv`: the window and the dispatch under way are within `MaxPerHour`, and
  the deliveries of the hour are these, what each restart forgot, and those of
  failed calls.  `HourlyCap` alone does not know how full the window is.

Each part is kept by a lemma with one step per action (`PhaseStep`,
`CountStep`, `DepsStep`, `RowStep`, `HourStep`, `OnceStep`, `KeyStep`); the
arithmetic of the caps is in `CountMonotone`, `CountAdded`, `CapsMonotone` and
`GateWithinCaps`.  `LedgerStep` maps every step under `IInv` to a step of the
ledger or to a stutter.

`ScheduleProofs` does the same for the scheduler, for any number of rows, works
and faults, from `ScheduleAssumption`: `TypeCorrect`, `RowsLiveOnce`
(`[]OneLife`), `RowsAccountedFor` (`[]NothingVanishes`) and `WorkLiveOnce`
(`[]NoTwins`).  `OneLife` needs to know that a row listed as due stays due, and
that the row between the two statements is closed, not by the user and not in
the cue (`TickInv`); `NoTwins` that a row which is not closed has never been in
the cue (`RowInv`).  The actions fall into four kinds with a lemma each: a row
is inserted, is closed, arrives in the cue, or nothing but the tick moves.

`TurnsProofs`, for any set of callers, any channel, any number of attempts and
restarts (`TurnsAssumption`): `TypeCorrect`, `OrderKept` (`[]InOrder`) and
`AnsweredByOwnTurn` (`[]OwnReply`).  The order in the store follows from the order
in the channel, which `InOrder` does not mention.  `FlowInv` says that what was
sent is the past, then the batch, then the channel, contiguously; `StoreInv` that
entries of the turn at hand hold its batch and all others only the past;
`MsgsInv` that an entry is in the order of sending; and `ReplyInv` that the
turn under way has put its utterances down before its reply, which is what makes
an answer handed out later one's own.  One lemma per part.

`PlanBatchProofs`, for any ids, any proposals and either proposer: `TypeCorrect`,
`EdgesWhole` (`[]AllOrNone`), `CutFound` (`[]OneCutIsFound`) and
`WorkAccountedFor` (`[]WorkIsKept`).  `OneCutIsFound` is about the end of a loop
and needs its progress: `CutInv` says that while nothing is valid yet, the
edges are the cleaned ones, and no task tried so far would have sufficed.
`WorkInv` says of every task the loop has passed that it is in the table, was
turned away, has failed or has the id of an earlier one that is in the table, and
of the end that the loop has passed all or stopped at a planner's failed call.

`StreamsProofs`, for any transcript, buffer, gap, clock and number of instances
(`BoundsAssumption`): `TypeCorrect`, `OneConsumer` (`[]OneLoop`) and
`GapRespected` (`Spec => GapHeld`).  `KeyInv` says that a consumer which has not
been told to stop is the one under the key.  The gap is measured when the model
is called and must hold when it has answered, with another loop on the same
cell: `SayInv` adds that the cell of an utterance under way is marked, belongs to
that loop alone and is past its gap (`SetBack` moves it further into the past,
never nearer).

`ClaudePaneProofs`, for any script, any answers and any number of requests,
watchers, messages, touches and ends (`ScriptAssumption`, `ActorsAssumption`):
`QuestionMatches` (`[]RightQuestion`).  The comparison of the ids is made with a
payload read earlier, and that payload need not be the one of the menu:
`NewestInv` says that the menu and the payload are both about the newest question
or there is none, and `ReadInv` that a reader which has not been disturbed since it
opened the payload still holds the question of the menu.

A reader that decides that there is no question has seen the screen as it is:
`SeenInv` says of a reader not disturbed since it looked that the pane is alive
and the menu fresh, and `QuestionIsSeen` (`[]SeenWhileUp`) follows with the two
ways a questionnaire is built.  `TypeCorrect` needs that every digit `DigitOf`
gives for a typable answer is one (`KeysTyped`).

`AnswerIsTyped` (`[]LandsAsChosen`) is the longest argument.  The keys are typed
one at a time, with others moving in between, so the invariant has to say where
in the keys and where in the menu the typing is.  `Onward` and `Part` split the
keys field by field.  `OnCourse` says that the menu stands in question i after
the first q keys of its field, with the rows before it picked as the answer
names them and what is left to type the rest of that field and the fields after
it; or on the review tab with the closing 1 left.  `CourseStep`: a key keeps the
menu on course, or it was the last and submits what the answer names.
`LandInv` says that an answerer that nobody has disturbed is on course while it
types, has submitted what it names when it is done, and after a key that failed
has done so or left the menu up with nothing else picked (`Partly`: a menu on
course has only rows picked that the answer names, `TypingPartly`); the steps of the others
either disturb it or do not touch the menu (`DisturbedLands`, `ClaudeLands`), and
a decision to type starts on course because what was read is still the question
of the menu (`DecideLands`, from `ReadInv` and `SeenInv`).  Two conditions of
the model come from this proof: without distinct labels the statement is false,
and a menu tells the keys that move on from the digits of its rows.

`PaneFeedProofs`, for any viewport, any scrollback, any caps, any frames, any
number of lines, changes of program and streams (`CapsAssumption`,
`ScreenAssumption`, `BoundsAssumption`, `FramesAssumption`):

- `TypeCorrect`; with it the types of the segments, and that a session is opened
  by a stream or, if there is none, by the poller (`TInv`).
- `PollerStoresOnce` (`[]StoredOnce`).  The watermark counts rows of a capture,
  and rows are not lines: the screen may be cleared, a full scrollback loses its
  oldest rows, and a full-screen program covers the newest.  `Below` says when a
  line can no longer stand below row w of a capture; `StoredUpto`, that this is so
  of every stored line and the watermark, whatever the pane does; and
  `Captured`, that it holds of the rows read but not yet fed.
- `StreamSendsOnce` (`[]SentOnce`): the same along one stream, for the rows
  sent and then the rows about to be sent (`SendInv`).
- `FramesAreFound` (`[]ShownIsFound`): a row of a frame has changed since the
  frame before or is in that frame (`ChangedIs`: what two frames share at both ends
  is left out of the difference, and it is in the frame before), and a
  difference shows the rows that changed or says that it leaves some out
  (`DiffIs`), so by induction along the frames a row goes back to the frame it
  came up in, whose difference has it or has that mark (`RowsAreFound`).
- `EndsAreEnds` (`[]EndsOfHistory`), for any history and any number of frames: the
  frames of a history are the concatenation of those of its segments, and a
  query walks the segments with what is still missing (`FlattenSplit`).
- `SearchesAreWhole` (`[]SearchIsWhole`): `Printed` is the invariant of the
  search over the rows: every match so far is printed, neighbours in the output
  are neighbours in the rows or have a gap between them.

`StreamsProofs` also has `NarrationTellsOnce` (`[]ToldOnce`) and `TailEndsLast`
(`[]EndIsLast`).  The first is inductive once it is said of every instance
(`TellInv`); its step is the one that hands a buffer over (`WholeCut`): the turns
that are cut off its beginning are older than the `DeltaCap` turns that are
given, and those are the last ones told.  For the second a message in the channel has to be
compared with one that was read long ago by a client: `MessagesOK` says that all
messages are pairwise related in the order of sending, and `InOrder` that one tail
ends before the next begins, so that a record handed over is newer than any end
sent before.

`SequenceLemmas` has what these proofs need to know of sequences: the partial
concatenations that `FlattenSeq` is built from exist and are unique, which
gives its value, its elements, and where it can be split.  The induction in
there is on a set of numbers given as a constant (`Induct`, from the
well-foundedness of `<`), because the library's induction theorems take a
predicate as parameter.

Only model-checked: the liveness properties (`Reclaimed`, `EventuallyReleased`,
`DueIsHandled`, `CronComesBack`, `EveryCallEnds`, `AnsweredGoes`, `StoppedEnds`),
since proofs under fairness are out of the prover's reach.

## 6. Where code and documentation disagree

- A session that stays busy is never reclaimed by the TTL, although the comment
  on `reconcile` says so: the busy case comes first (`cue_backstop`).  `Reclaimed`
  is what does hold.
- A row with a cron spec and no `run_at` is never released (`schedule_cron`).
  `CronComesBack` is what does hold: closed by hand, it gets a successor that
  has a `run_at`.
- A typed utterance merged after a spoken one takes the voice hint away
  (`turns_medium`).
- The relaxation drops edges that are on no cycle (`plan_edges`).
  `AllOrNone` and `OneCutIsFound` are what does hold.
- The comments call `MaxPerHour` a hard cap on live dispatches (service/cue.go:21-22,
  config/config.go:112).  It is one on the dispatches that one run of the process
  knows of: a `Post` that types the message and then fails on Enter delivers and
  is not counted, and a restart starts at none.  `HourlyCap` is the bound that
  does hold, with both of them in it.
- "Work is never lost" (plan/goal-plans.md:51 and :74, concierge/plan.go:56; the
  comment at service/cuegen.go:128 says it of tasks with bad edges).  A task whose
  id another task of the batch or any earlier row has is dropped without an error,
  counted by `plan_goal` as a duplicate, whatever its work is; and after a call that
  fails the planner enqueues no more.  `WorkIsKept` says which tasks can be lost
  and that no other is.  Those that depend on a task that failed wait for it.

The caps of the gate are caps on targets.  A session that a spawn created is
counted under the spawn bucket while its task is in flight, so a task that is
posted to it is not held back by `PerSession`; the code claims no more.

Facts about the code met while modelling it, on which no run is spent, because
nothing in the repository says otherwise or because a property's condition names
them:

- An advance of an ambient cell that quiet hours or the gap hold back is
  recorded as the current state; only another change is ever spoken, although the
  comment at service/ambient.go:180-181 says the next qualifying tick will
  (`Distil`).
- A question that was answered stays in its payload until the turn is written.
  A second answer in that time passes every comparison, and its keys go into
  whatever the screen shows by then (`RightQuestion` is about a menu found as it
  was drawn).
- Labels the parser takes for rows of the menu itself, such as "Submit", are
  hidden from the questionnaire and shift the digits of the rows after them; an
  answer with a value given twice toggles it back; of two options with the same
  label only the first is ever typed (`Plain`, in `LandsAsChosen`).  A lone
  question with no other labels is not reported at all (`Hidden`, in
  `SeenWhileUp`).
- Where a row had scrolled away before a pane is first seen, the watermark is
  seeded too low and the rows of the screen are stored again (`deep`, in
  `StoredOnce`).
- A capture that fails because its stream was cancelled counts as a pane that
  is gone, and the history is dropped; where the error is ignored its text is
  stored as a frame (`TickLines`, `TickFrames`, `PollFrame`).
- The keys of an answer have the context of the HTTP request: a client that goes
  away while they are typed leaves a menu half answered, which `Act` reports as an
  error to nobody.  A capture that fails after the keys counts as a closed review
  tab, so that `Act` reports success without having seen the screen (`TypeFails`,
  `Verify`).
- Of a difference of more than sixty rows the first ones are shown by no query
  before the frames up to that one have been given up and it is shown whole
  (`DiffFrames`); of a burst of more than 4000 characters a narration is told the end (`Delta`).
- Lines that a stream and a poller both feed are stored twice (`StoredOnce` is for
  a poller alone).
- A query for the first and the last rows of a history at once prints rows
  twice where the two parts overlap (terminal/terminal.go:242).

## 7. Not modelled yet, and the plan

In order:

1. *Plans over time*: ids that come back in a later plan, dependencies that
   failed, cycles that were enqueued; composes `PlanBatch` with the gate.
2. *Questions and decisions* over their tables, with concurrent askers and a
   crash between the two statements of `AddDecision`; abstract specification:
   one open decision per key.  `KeyFor` joins its parts with a NUL byte, which a
   Postgres text column refuses, so the model has to say which store it is about.
3. *Summarizer*: one run per signature, and what a failed run leaves behind.
4. *Conversation*: an abstract specification (utterances in, replies out, in
   order), with `Turns` shown to implement it; `OrderKept` is its main step.
5. *Cron*: `Next` against a search over every minute, on small calendars.
6. *Fleet watcher*: the difference of two snapshots and the notices it raises,
   composed with `Streams` and `CueRunner`.
7. *Proofs*: the invariants of the modules above, and the poller together with
   a stream, once there is a statement that holds of both.

Left out of the modelled parts: notes and listings of the scratchpad, history,
summaries and `Spawn` of the Claude adapter, a `Post` to a live session whose pane
the adapter fails to find (`PostFind` finds it), time stamps and headings of frames
and the number in the mark of a long difference, the second cut of a printed query
where it has a limit and an end (`EndsOfHistory` is about the frames that are
chosen), shutting the process down while streams run, the wording of narrations.

Left out for good: rendering of reports, proxies to speech and realtime
services, push delivery, configuration, commands and the web client (text or
input and output, with no decision that outlives a call), and the language
model, which appears as a choice over what it may answer.
