# Verification of Superwave Agent

TLA+ models, model-checking configurations and machine-checked proofs for the
program in this repository: a personal agent written in Rust (crate
`superwave-agent`, `src/`), and the TypeScript gateway code that lives beside it
(`src/process`, `src/agents`, `src/auto-reply`, `src/cron`), with the runs of the
web application (`apps/web/lib/active-runs.ts`).

Paths below are relative to the repository. `tlc -config X.cfg M` checks a run,
`tlapm M.tla` checks the proofs of a module.

1. [Inventory](#1-inventory)
2. [Plan](#2-plan)
3. [Agent jobs](#3-agent-jobs)
4. [Command lanes and agent runs](#4-command-lanes-and-agent-runs)
5. [Circuit breaker](#5-circuit-breaker)
6. [Follow-up queue](#6-follow-up-queue)
7. [Cron service](#7-cron-service)
8. [Active runs](#8-active-runs)
9. [Runs](#9-runs)
10. [Proofs](#10-proofs)
11. [Disagreements between code and documentation](#11-disagreements-between-code-and-documentation)
12. [Not modelled](#12-not-modelled)

## 1. Inventory

### The Rust agent

| Component | State | Operations | What is hard | What makes it correct |
|---|---|---|---|---|
| **Agent jobs**: `context/{state,manager}.rs`, `agent/{scheduler,worker,self_repair}.rs` | a context per job (state, repair attempts), `Scheduler.jobs`, a task and a channel per worker, rows of `agent_jobs` | dispatch, schedule, stop, cleanup; the worker's loops; mark completed/failed/stuck; recovery; `/cancel`, `/help`, `cancel_job`, web cancel | workers, the message loop, the repair loop, web handlers and fire-and-forget writes interleave; states are read and marked in separate lock sections | limits on active jobs and workers hold; a job has one life; rows tell the truth; slots come back |
| **Sandbox jobs**: `orchestrator/{job_manager,auth,api}.rs`, `tools/builtin/job.rs`, `channels/web/handlers/jobs.rs`, `db/libsql/sandbox.rs` | a handle and a token per job, Docker containers, rows of `sandbox_jobs` | create, stop, complete, clean up, the tool's wait loop, web cancel and restart, start-up cleanup | completion reports race with creation and cancellation; each operation is several lock sections; failures half way; restarts | no handle comes back to life; tokens end with their job; no container is lost; rows of dead jobs are closed |
| **LLM chain**: `llm/{circuit_breaker,failover,retry,response_cache,smart_routing}.rs` | breaker state; cooldowns, last provider and per-task provider; cache | a call passes cache, breaker, failover, retry | concurrent calls report late and out of order; cooldowns in relaxed atomics; dropped futures | the breaker trips on a streak and closes on proof; a healthy provider is not shut out |
| **Cost guard, rate limiter**: `agent/cost_guard.rs`, `tools/rate_limiter.rs` | daily cost, hourly window, a flag; two fixed windows per user and tool | check, record | check and record are apart; day and window boundaries | budgets are kept up to the calls in flight; a new day opens the budget |
| **Routine engine**: `agent/routine_engine.rs` | event cache, running count, columns of `routines`, rows of `routine_runs` | cron tick, event trigger, manual run, execution | checks on stale copies before a spawned task counts itself; crash with a run open | limits per routine and overall; cooldowns; each due time fires |
| **Chat sessions**: `agent/{session,undo,thread_ops,agent_loop,dispatcher}.rs` | threads, turns, the pending approval, undo and redo stacks | submit, interrupt, approve, undo, redo, compact | one serial loop, but interrupts and approvals meet other states | one turn at a time; an approval runs the call it shows |
| **Pairing**: `pairing/store.rs` | JSON files under a file lock | request, approve, expire | several processes; caps and a rate limit | one code approves one sender |
| **Heartbeat**: `agent/heartbeat.rs` | failure counter | tick | little | stops after repeated failures |
| Web gateway, channels, extensions, WASM, registry, workspace, safety, secrets, setup | mostly per call or in the database | I/O, formats, pattern matching | little control that depends on order | tests reach it |

How they interact: the message loop (`agent/agent_loop.rs`) is serial and calls
the command handlers; `Scheduler::dispatch_job` is called by that loop, by
routines and by the `create_job` tool of running workers; workers and the loop
call the LLM chain, guarded by the cost guard; web handlers reach the context
manager, the sandbox job manager and the database directly; background tasks
(self-repair, routine ticks, cleanup) share the same maps under `RwLock`s.

### The TypeScript tree

It is not built or called by the Rust crate and keeps its own documentation
(`docs/concepts/queue.md`, ...).

| Component | State | Operations | What is hard | What makes it correct |
|---|---|---|---|---|
| **Command lanes**: `process/command-queue.ts`, `agents/pi-embedded-runner/run.ts`, `macos/gateway-daemon.ts` | per lane: queue, active tasks, limit, generation | enqueue, pump, complete, clear, set limit, reset; run in session lane then global lane; in-process restart | nested lanes, completions of an older generation, a drain with a timeout | FIFO, limits, nothing lost or run twice, one run per session |
| **Cron service**: `cron/service/*.ts`, `cron/schedule.ts` | jobs on disk and in memory, one timer, the running marker of each job | tick, catch-up of start, list, add, update, remove, run | executions outside the promise lock, a store that is reloaded under them, crashes with markers on disk | a job runs once at a time, no due run is skipped, the timer stays set, a one-shot runs once |
| **Follow-up queue**: `auto-reply/reply/queue/*.ts`, `utils/queue-helpers.ts` | per key: items, dropped summaries, draining | enqueue, drain, clear | a batch stays in the queue while its run is awaited and is removed by position; settings change between messages | nothing is lost unless the policy drops it; one run per key; no message is answered twice |
| **Subagents of the gateway**: `agents/subagent-{spawn,registry,announce,announce-queue}.ts` | a record per subagent (`SubagentRunRecord`), an announce queue per requester | spawn, complete, announce, retry, queue, give up, kill | the end of a run, its record and its announcement are separate steps; an announcement is accepted, steered into a turn, queued, dropped or suppressed | each result is announced by one turn, or by none |
| **Active runs of the web application**: `apps/web/lib/active-runs.ts`, `apps/web/app/api/chat/*` | a run per session, its child processes, five kinds of timers, the event cursor, the saved message | start, line, close and error of a child, follow-up, watch, stop, timers | hand-over from one child to the next, children that print after they were stopped, timers of runs that are over | events are processed once; a run ends and is found until it does; its message is closed |

How they interact: a message that arrives while the agent run of its session is
active goes to the follow-up queue, whose drain starts agent runs through the
command lanes; the cron service starts isolated agent turns on the `cron` lane; the
web application starts agent turns by a CLI child of the gateway and follows them
by its event stream; the turns in which the gateway announces the results of
subagents are what ends its waiting runs.

The hazards this code is exposed to, with their lines and the properties that
cover them, are in `PROJECT.json` under `hazards`; those with a note instead of a
property are ones the code does not answer, and the note says what the model shows.

## 2. Plan

| | Modules | Models | Abstract specification | State |
|---|---|---|---|---|
| M1 | `JobStates`, `JobBoard`, `JobLifecycle`, `JobLifecycleProofs` | agent jobs | `JobBoard`: the lives a job can have | done, proved |
| M2 | `CommandQueue`, `CommandQueueProofs` | one lane | the queue is itself the abstract lane of `SessionLanes` | done, proved |
| | `SessionLanes` | session and global lanes with restart | every lane is a `CommandQueue` | done, see M7 |
| M3 | `CircuitBreaker`, `CircuitBreakerProofs` | the breaker with concurrent calls | | done, proved |
| M4 | `FollowupQueue`, `MCFollowupQueue` | the follow-up queue of one session key | | done, see M8 |
| M5 | `CronService`, `MCCronService` | the cron service and its store | | done, see M8 |
| M6 | `ActiveRuns` | a web session, its subagents and their announcements by the gateway | | done, see M8 and M9 |
| M7 | `SessionLanesProofs`, `LaneRefinement` | proofs about nested lanes | `CommandQueue` | done |
| M8 | `FollowupQueueProofs`, `CronServiceProofs`, `ActiveRunsProofs` | proofs about M4 to M6 | | done |
| M9 | `ActiveRunsProofs` | `QuietIsFinished`, by an invariant that says where the end of each active run is on its way | | done |
| M10 | `ContainerJobs`, `Failover`, `Guards`, `RoutineEngine`, `ThreadTurns` | the Rust parts of section 12 | | not begun |

Runs stay small enough to finish in a few minutes; a new question gets a run
only if no existing run can carry it.

## 3. Agent jobs

`JobLifecycle` models a dispatch from `Scheduler::dispatch_job` to the last write
of its row. A step is what a task does between two await points at which another
task can interfere; what happens under one lock guard is one step.

| In the model | In the code |
|---|---|
| `state`, `repairs` | `JobContext.state`, `.repair_attempts` in `ContextManager.contexts` |
| `dispatch` | how far `dispatch_job` has come: `CreateJob`, `SaveJob`, `DispatchSchedule`, `DispatchFails` |
| `jobs`, `stopSent` | keys of `Scheduler.jobs`; `WorkerMessage::Stop` in a worker's channel |
| `worker`, `iteration` | control point of `Worker::run`, `execution_loop` and `execute_plan`: `WorkerStart`, `WorkerStopped`, `WorkerSeesCancelled`, `WorkerIterates`, `WorkerActs`, `WorkerPlanEnds`, `WorkerClaims`, `WorkerGivesUp`, `WorkerTimeout`, `WorkerReads`, `WorkerMarks` |
| `Cleanup` | the task of `schedule` that removes finished workers |
| `chat` | `/cancel` (`ChatCancel`, `StopEnds`, `ChatPersist`) and `/help` (`ChatHelp`, `ChatReschedule`) in the serial message loop. `stop()` holds the write lock on `jobs` from first to last line, so `JobsLockFree` is false meanwhile |
| `found` | the list `detect_stuck_jobs` returned and `RepairJob` works off |
| `db`, `writes` | the row of `agent_jobs`; `persist_status` calls spawned and not yet executed |

`JobStates` is `JobState::can_transition_to`. `JobBoard` says what the subsystem
as a whole promises, which is stricter than that table: a job starts once,
recovers at most once, and `Completed`, `Failed` and `Cancelled` are final.
`JobLifecycle` implements it with `phase <- state` and
`recovered <- {j : repairs[j] > 0}`.

Abstractions:

- Contexts live in memory and are never removed; no code reads `agent_jobs` back
  after a restart, so a crash simply ends a behaviour.
- An identifier is a fresh UUID and is dispatched once. The set `Jobs` bounds the
  dispatches of a behaviour; the system may stop when all are used, hence
  `CHECK_DEADLOCK FALSE`.
- `MaxParallelJobs` is both the `max_jobs` of the context manager and the limit of
  the scheduler, as in `app.rs`.
- What the LLM and tools answer is a choice; tool calls, subtasks and batches
  (results only), job memory, the rebuilding of broken tools, and worker messages
  other than `Stop` are left out.
- `max_repair_attempts` matters only when it is 0: `RecoveredAtMostOnce` shows that
  the counter never exceeds 1.
- A worker aborted by `stop()` is taken to end at once; Tokio ends it at its next
  await.
- The lock on contexts is not a variable. Whoever takes both locks takes it inside that
  on `jobs`, or alone and for one section without an await on `jobs`, so the two cannot
  block each other, and no property is about it.

## 4. Command lanes and agent runs

`CommandQueue` is one lane of `process/command-queue.ts`. JavaScript runs one
synchronous burst at a time, and `drainLane` pumps until the lane is full or
empty within the burst, so each operation with the pump it ends in is one step
and `draining` is false between steps. `stale` holds the running tasks of an
earlier generation: `resetAllLanes` increments `generation`, and `completeTask`
ignores a task whose generation differs. `ticket` is history, the order of
arrival.

`SessionLanes` composes lanes: `runEmbeddedPiAgent` pushes a run on the lane of
its session (`Submit`), and the task of that entry pushes it on a global lane,
whose task is the run (`RunEnds`); the session task awaits it (`SessionEnds`).
`Burst` pushes and pumps every lane one burst touches. `RequestRestart`, `WaitEnds`
and `Reset` are the SIGUSR1 restart of `gateway-daemon.ts`: take a snapshot of
active tasks, wait until none of them works or the drain times out, close, and
reset all lanes in the same process.

`LanesAreQueues` is the refinement: whatever a burst does to several lanes at
once, for each lane it is one operation of `CommandQueue` or nothing.

Abstractions:

- No caller passes `onWait`, so it is left out. `setCommandLaneConcurrency` is only
  called for global lanes; session lanes keep the limit 1.
- The restart that replaces the process is not modelled: all state is in memory.
- Closing the server does not end runs; an interrupted run may never end and gets
  no fairness.
- `MaxRestarts` bounds restarts.
- `LimitsAssumption`: the limits a lane can have are positive and 1, the default,
  is one of them (`setCommandLaneConcurrency` takes the maximum of 1 and its
  argument).

## 5. Circuit breaker

`CircuitBreaker` is `llm/circuit_breaker.rs` with callers that use it at the same
time. `check_allowed`, `record_success` and `record_failure` each hold the mutex,
so each is a step; between them a call is under way (`inner`) and its result may
wait to be recorded (`ok`, `transient`, `client`). `Abandon` drops the future of a
call, as the test `hanging_provider_behind_breaker_can_be_timed_out` does: nothing is
recorded. `opened_for` is the time since `opened_at`, up to the recovery timeout,
which keeps the state space finite without a clock. `streak`, `wins` and `veterans`
are history: failures since the last success, half-open successes since the last
opening, and the calls that were under way at that opening.

`healthy` is the environment: while it holds the inner provider answers every
call well and callers wait for it; otherwise any result, or none, may come.

## 6. Follow-up queue

`FollowupQueue` is the queue of one session key. `active` says whether a run of a
message of its own is active; `ending` counts main runs that are over and have not
yet called `scheduleFollowupDrain`. A queue is an object: `map` is the entry of
`FOLLOWUP_QUEUES`, and a drain keeps the object it began with, so an object that a
clear took out of the map can live on beside its successor.

| In the model | In the code |
|---|---|
| `Arrive`, `Enqueue` | `getReplyRun` reads `isActive`, awaits the auth profile, then `enqueueFollowupRun` with `isRunAlreadyQueued` and `applyQueueDropPolicy` |
| `MainRunEnds`, `Finalize`, `MainRunThrows` | the end of a run and the schedule of the drain after it |
| `DrainCollect`, `DrainNext`, `Start` | one round of the loop of `scheduleFollowupDrain`, up to the await of the follow-up run |
| `FollowupEnds`, `FollowupThrows` | the run resolves: the entries leave the queue by position; or rejects: `catch` and `finally` |
| `Clear` | `clearFollowupQueue` |

`drain[i].told` and `.lines` are the messages and previews the follow-up run got,
`.n` is how many entries its end takes off. `fate` and `excused` are history:
`excused` marks the three races in which the code loses messages (an overflow or a
clear that hits a run in progress, a summary handed out in place of an entry), and
`LossNeedsRace` says that nothing else loses any. A message comes with settings, so
`SettingsAssumption` has `Settings` not empty. Left out: steering, interrupt
mode, deduplication by text, the debounce clock, the wording of prompts.

## 7. Cron service

`CronService` takes each block under `locked()` as one action. A manual run
executes its job inside its block, so it is two actions between which the lock is
held (`manual`). Runs of a tick or of the catch-up are outside the lock: `batch`
holds the claimed jobs, how far each is and how it ended. `mem` and `file` are the
store in memory and on disk: ticks reload it, operations and reads do not, and an
update that throws halfway leaves them different.

| In the model | In the code |
|---|---|
| `Fire`, `TickLoad`, `RunStarts`, `RunEnds`, `TickApply`, `TickEnds` | `armTimer`'s callback and `onTimer`: the first block, the workers, the second block, `finally` |
| `BootLoad`, `BootMissed`, `BootApply`, `BootFinal` | `start`: stale markers, `runMissedJobs`, the last recomputation |
| `Read`, `Add`, `Update`, `UpdateRejected`, `Remove`, `ManualStart`, `ManualEnds` | the operations of `ops.ts` |
| `After`, `Settled`, `ApplyResults` | `applyJobResult` and the loop over results |
| `Recompute`, `Maintain`, `Tidied`, `Rescheduled` | the recomputations of `jobs.ts`, with errors of a schedule |
| `Crash` | the process dies; the file stays |

Time is a small number, schedules have one `Period`, and the real lengths of
`MIN_REFIRE_GAP_MS`, `STUCK_RUN_MS` and the back-off are constants of the same
small scale, so that a marker can be stuck and a back-off can exceed the period
within three instants. `lost` and `edit` are history: jobs whose marker was taken
on purpose, and updates accepted or thrown out halfway. `Earlier` is what `edit` says
of a job of the file at start: a one-shot job with a status counts as one that has
run, a malformed one as an update thrown out halfway. `PatchesAssumption` keeps
drafts and patches well formed, and `MaxTime` is at least 1. The properties about
markers, the timer and due runs hold while no update was rejected (`Untouched`);
section 11 says what happens otherwise. Left out: `stop`, faults of the disk, what
jobs do, delivery, session reaping.

## 8. Active runs

`ActiveRuns` has one web session and its subagents. Every action of the web
application is one handler of its event loop, so it is atomic. `runs` are the
`ActiveRun` objects, those that have left the map `entry` included, because timers
and child processes keep them. `log` is the gateway's event stream; of its events the
model keeps those that change a run's course or empty its message (a spawn, assistant
text, a silent reply token, the end or failure of a turn), and `globalSeq` is their
position.

| In the model | In the code |
|---|---|
| `Start`, `FollowUp`, `Watch`, `Stop` | `POST /api/chat`, `GET /api/chat/stream`, `POST /api/chat/stop` with what they call |
| `CliLine`, `WebLine`, `SubagentLine` | the line handlers of the three kinds of children |
| `CliCloses`, `CliFails`, `SubscriptionCloses` | their `close` and `error` handlers; `state = "killed"` is a child that was sent a signal and may still print |
| `Restart`, `Finalize`, `Persist`, `CleanUp`, `Kill` | the timers: 300 ms, 5 s, the persistence timer, the grace period, SIGKILL |
| `parts`, `silent`, `streaming` | whether `accumulated.parts` is empty, whether it holds only the open silent reply of a child, `_streaming` of the saved message; `Emitted`, `TextClosed`, `Flushed` are `emit`, `closeText`, `flushPersistence` |
| `registry` | `SubagentRunRecord`: "running" has no `endedAt`, "due" has one and no delivered announcement, "queued" is in the announce queue of the web session, "over" has `cleanupCompletedAt` |
| `Spawn`, `Say`, `EndTurn` | the gateway's turns: `spawnSubagentDirect`, assistant events, the lifecycle event that ends a turn |
| `Complete` | `completeSubagentRun`, on the first lifecycle end, or when `agent.wait` times out |
| `AnnounceDirectly` | `runSubagentAnnounceFlow`, accepted by the gateway for a turn of the web session |
| `AnnounceInstead` | the call has failed: `maybeQueueSubagentAnnounce` steers it into the turn under way or queues it |
| `SendQueued` | `scheduleAnnounceDrain`: some queued announcements, by one turn |
| `GiveUp`, `Terminate` | `finalizeSubagentCleanup` after the last attempt; `killSubagentRun`, which suppresses the announcement |

That an announcement is deferred or retried is time passing while it is "due": a call
that is made again has the same idempotency key. `Settled` keeps it back while the
subagent's turn is under way. Timers fire in any order with everything else; only the
order that their set-up imposes is kept. Requests and faults share the bound
`MaxInputs`, and `MaxBoth` bounds their sum with the events. An event names what happens or
the subagent that is spawned, so `SessionsAssumption` keeps sessions from being called
like an event.

Two history variables mark what the code does not answer, and section 11 describes it:

- `silenced`: a message was emptied by `closeText` since its last save. It may stay marked
  as streaming for ever. `FinishedIsSaved` leaves it out; without that it fails, by a
  subagent's silent reply, the save that marks it, and the end of its turn.
- `hurried`: a run has let the last event pass that could end it, in one of four ways: a
  turn that a run waits for has failed; its end was read while the subagent's run was not
  yet finalized; a subagent failed after another error was reported, so its run looks at
  no further failure; an announcement was given up while the web session had no turn.
  Announcements that are late, steered, queued, merged or killed do not set it, and
  `QuietIsFinished` holds for them.

Left out of the web application: the replay buffer and the subscribers, what messages
say, the index of sessions, a follow-up call that fails, a failure that carries no
message, and text of a killed child that goes on printing into a message which was
reactivated (`FollowUp` forgets its open text); `chat.abort` is best effort and left to
the gateway. Left out of the gateway: subagents of subagents, with the announcements that wait
for them; the restart of a subagent by steering (`replaceSubagentRunAfterSteer`); the
sweeper that archives records after an hour, and cleanup "delete"; the announce
queue's cap, and a batch that its drain sends under a key the gateway has accepted
before; announcements without `expectsCompletionMessage`, which `sessions_spawn` always
sets; direct delivery to a channel, which web sessions do not have; several ends of one turn
(compaction retries); restarts of the gateway. The handlers of the gateway's methods
(`agent`, `agent.wait`, `chat.abort`, deduplication by key) are modelled from their callers.

## 9. Runs

| Run | Question | Bounds |
|---|---|---|
| `jobs_store` | Does the inductive invariant of the proofs hold, which contains the limit on active jobs; does the limit on workers hold; does no job get a second worker; is every job that is in progress worked on, unless it was recovered; are rows true; is the system a `JobBoard`? | two jobs for one place, so that a dispatch is refused, a slot is reused and two workers overlap with a cancellation; late and reordered writes |
| `jobs_liveness` | Does every slot come back, is every stuck job visited? | two jobs, one place, planning |
| `jobs_recovered`, `jobs_stopped` | section 11 | one job |
| `lanes_queue` | Is a lane first come first served, without lost wake-ups, and is nothing run after it was settled? Is a waiting entry served? | four entries, limits 1 and 2: enough for a full lane, a backlog, a cut limit and a task of an older generation |
| `lanes_runs` | Are lanes that nest still queues, do runs of a session exclude each other but for leftovers of a restart, does a drained restart leave nothing at work, is every waiting run served even if interrupted runs never end? | three runs, two sessions, two global lanes, one restart |
| `breaker` | Do late results, dropped calls or an earlier outage ever open the circuit without a streak, close it without proof or hold it open? Does it close for good once the backend is well? | three callers, threshold, timeout and needed successes 2: a streak can be interrupted, and a call can outlive an opening and a half-open period |
| `followup` | Does the queue lose or repeat messages, both run and preview one, run two at a time, or stop with entries left? | four messages of two routes, one delivered twice; three settings with caps 1 and 2, so that overflows happen; two queue objects, one clear, one rejected run |
| `followup_lost` | section 11 | four messages, one setting |
| `cron` | Does a job run twice at a time, is a marker left behind, does the timer die, is a due run skipped, does a one-shot run again? | two jobs (one periodic and due at start, one added), three instants, three operations, one crash: a crash during a run, a catch-up that overlaps a tick and a manual run, a second job that falls due meanwhile |
| `webruns` | Are events processed once each across hand-overs, is there one live child per run, is a finished message closed, is an active run found, and is nothing active when nothing is to come, however results are announced? | a session and a subagent, three runs, four children, four events (a spawn, an end of each, and an announcing turn or a text), three requests or faults, six of both together |
| `web_waits` | section 11 | the same with five children, and the first message as the only request |

Fairness:

- `JobLifecycle`: weak fairness of each worker step (LLM and tool calls are cut by
  the job timeout), of the cleanup task, the repair loop and spawned writes (they
  wake up forever), and of a command the message loop has begun. Nobody has to
  dispatch, cancel or ask for help.
- `CommandQueue`: running tasks end (runs have a timeout), except stale ones.
- `SessionLanes`: runs that no restart interrupted end; promise reactions and the
  timers of the restart fire. Nobody has to submit, clear or restart.
- `FollowupQueue`: promises settle and the debounce ends (weak fairness of the
  drain's steps and of the end of follow-up runs); a drain that rejects is bounded by
  `MaxThrows`. Nobody has to send or clear.
- `CronService` and `ActiveRuns` state no fairness: `TimerIsArmed`, `QuietIsFinished`
  and `NobodyWaitsInVain` say as invariants what liveness would rest on, that a state
  in which nothing is on its way is not a stuck one.
- `CircuitBreaker`: runnable tasks run, calls that are under way are answered, time
  passes. `Recovers` assumes, in its premise, that the backend stays healthy and
  that everybody keeps calling.

For every property of a passing run `PROJECT.json` names a mutant: a plausible bug
in the modelled code (a definition marked "Mutant" beside the one it replaces)
under which the run finds the property violated.

## 10. Proofs

All theorems hold for every value of the constants that satisfies the named
assumptions of the modules.

**`JobLifecycleProofs`** (assumptions: `Jobs` finite, the limits natural numbers).
`IInv == TypeOK /\ ControlInv /\ SlotInv /\ CapacityBound /\ PersistInv`.
None of the safety properties is inductive alone: that no job is recovered twice
needs to know where the worker of a recovered job can be (`JobInv`); that the
number of workers is bounded needs the entry which `stop()` has removed while its
task lives (`SlotInv`, with `Stopping`); that rows are true needs the same of the
writes still under way (`PersistInv`). `Refinement` maps each step to a step of
`JobBoard` or a stutter, with one lemma for marking, one for recovery, and
`BoardCount` for the cardinality in the instance. Proved: `TypeCorrect`,
`Invariance`, `CapacityHolds`, `WorkersHold`, `WorkedOnHolds`, `RecoveryHolds`, `PersistenceHolds`,
`SingleWorker`, `Refinement`.

**`CommandQueueProofs`** (assumptions: `Entries` finite, limits natural numbers).
`IInv` says that the queue holds exactly the queued entries, once each and in the
order of their tickets, that the active set is exactly the running entries no
reset left behind, and that an entry waits only while the lane is full. Every
operation ends in a pump; `PumpLane` is proved once for any lane that is well
formed (`Pumpable`) and each operation is shown to hand such a lane to it. Proved:
`Invariance`, `NoLostWakeup`, `Fifo`, `WithinLimit`, `SettledOnce`.

**`CircuitBreakerProofs`** (assumptions: natural numbers, `NoInstant` is none).
`IInv` ties the counters to the history and contains `OpenHasInstant`, which makes
the branch for a missing `opened_at` unreachable; without it that branch would
close the circuit with an old count. `OnlyVeterans` is what makes `OpenIsKept`
true: while the circuit is open nothing new is admitted, so only a call from before
can report. Proved: `Invariance`, `TripOnlyOnStreak`, `CloseOnlyOnProof`,
`OpenUntilTimeout`.

**`SessionLanesProofs`** (assumptions: finitely many runs, each with its session and global
lane, no lane is both; positive limits). `IInv` says that queues hold waiting runs once each, that
what runs on a lane is active there or was left behind by a reset, never both,
that session lanes take one run, and that a run is on its global lane only while
it holds its session lane; of a restart it says that what it waits for
has started and that no reset came since. With `HoldsSession`, exclusion per
session carries over to the nested run; with the clause about resets,
`DrainedMeansEnded` is inductive. `Burst` is proved once, for a set of pushes and a
set of pumps. Proved: `Invariance`, `Exclusion`, `DrainIsComplete`.

**`LaneRefinement`** proves, for an arbitrary `lane`, that `SessionLanes` implements
`CommandQueue` under the mapping of `LanesAreQueues`, and carries the theorems about
`CommandQueue` over to each lane. The lane is a constant of the module because
tlapm cannot cite theorems of an instance with a parameter (`Lane(l)!...`);
`LanesAreQueues`, which quantifies over the lanes, is what TLC checks. Proved:
`LaneImplementsQueue`, `NoLaneForgets`, `LanesServeInOrder`, `LanesKeepLimits`,
`LanesSettleOnce`.

**`FollowupQueueProofs`** (assumptions: caps of at least 1, some setting exists; any
number of messages, queue objects and clears). The end of a run removes entries by
position, so `InStep` has to say that the first `n` entries are what the run was
given, until one of the races in `excused` has happened. `Apart` says that
no two queue objects know of the same message, so that what one drain settles
touches no other; `Sound` keeps entries, previews and the run's messages of one
queue apart. `KeyOwnsDrain` (no drain of an object that the key has left, before a
clear hits one) gives `OneRunPerKey`, and `KeyHasQueued` is stronger than
`LossNeedsRace`: queued messages are in the queue the key leads to. Proved:
`Invariance`, `Typing`, `NothingIsLost`, `OneRunAtATime`, `WaitingIsRun`.

**`CronServiceProofs`** (assumptions: those of the module; any number of jobs,
instants, operations and crashes). `Held`, `Marks` and `OneAtATime` together say what a
marker and a claim owe each other, of the store in memory and of the file, because a
tick reloads the file between its claim and its result; `Agree` says that this
reload does not move a next run. `Planned` says that an enabled job without a
next run is one that maintenance gives none, which is why every path that arms the
timer finds one to arm; with `Stopped` it makes `TimerIsArmed` inductive. `Spent`
gives `OneShotsRunOnce`. Proved: `Invariance`, `Typing`, `NoDoubleRuns`,
`MarkersAreClaims`, `SchedulerLives`, `OneShotsStayDone`, `DueRunsStay`.

**`ActiveRunsProofs`** (assumptions: the bounds are natural numbers; finitely many
subagents, any number of them, none named like another event). `Linked` says which
children and map entries a run can have, and that a run forgets a subscription only when it
is closed or told to stop; without it a second live child could not be excluded. `Cursor`
and `Reads` tie the cursor of a run to the position of its child, from which `EventsOnce`
follows across hand-overs. `Saved` says that a message is streaming only while the run is
active and still has something to save, so that the last save is not skipped, or after
`closeText` has emptied it (`silenced`); `Found` adds that a grace period begins when the run
is over. `QuietIsFinished` says only that a state in which nothing is on its way has no
active run; what makes it inductive is `ProgressInv`, which says what is on its way in every
other state. By `Attended` a running web run has its CLI child, and any other active run an open
subscription (perhaps one that was told to stop and whose close handler starts the timer) or
the restart timer. By `Awaits` a waiting run has ahead of its cursor (`Ahead`) a turn of the
web session, a subagent whose result is not announced yet ("running", "due", "queued") or an
event of its session, and the run of a subagent has its finalize timer, a turn to come or an
event of an end that it has not read. The second needs `Announcing`, of the gateway: a
subagent that was spawned has turns to come or one that is over, and what a turn of the web
session prints is followed by its end; so a run that starts on that event has something to
wait for. Only `Awaits` rests on `~hurried`: `Attended` holds whatever fails. With `Reads`, a
quiet state contradicts both: the open subscription is not ahead of the cursor and has read
everything.

The steps fall into three kinds, each shown once. A handler of the web application that
gives no run a new child and reads nothing only softens (`SofterHeeds`), and a run may end
(`OverHeeds`). A gateway step that prints (`Reports`: `Spawn`, `Say`, `EndTurn`) appends one
event to the log, which is ahead of every cursor; if it uses up a turn it is that turn's end.
A gateway step that arranges (`Arranges`: `Complete`, both announcements, `SendQueued`,
`GiveUp`, `Terminate`) leaves the log alone, and takes a result off the way only for a turn
that is added or is under way, or sets `hurried`. Proved: `Invariance`, `Typing`,
`EventsSeenOnce`, `LiveChildren`, `MessageSaved`, `RequestsFindIt`, `Progress`,
`QuietRunsAreOver`.

Before its proof TLC checked each `IInv` as an invariant of the model: on the bounds
of `lanes_runs` with four runs and two restarts (375,740 states), `followup` and the
same with a third queue object, two clears and two rejected runs (219,546 and 819,102),
`cron` (2,191,280) and the same with malformed and failed one-shot jobs in the file
(561,503), and `webruns` (1,752,800), there `ProgressInv` with it.

Model-checked only:

- Liveness needs fairness and ENABLED, which are out of the prover's reach:
  `SlotIsFreed`, `StuckIsAnswered`, `QueuedIsServed`, `RunIsServed`,
  `Recovers`, `DrainedIsServed`.
- `LanesAreQueues` in its quantified form, see `LaneRefinement`.
- `AnsweredOnce` of the follow-up queue, the one safety property without a theorem.
- The properties of section 11 that fail.

`CapacityHolds`, `RecoveryHolds`, `WithinLimit` and the theorems of `LaneRefinement` are
about properties that no run checks on their own: `IInv`, `BoardSpec` and
`LanesAreQueues` contain them, and `IInv` bounds the active set of a lane.

## 11. Disagreements between code and documentation

Four are runs whose single property, quoted from the repository, is violated.

- `jobs_recovered`: a recovered job "will be retried" (`self_repair.rs`), but
  nothing gives it a worker again.
- `jobs_stopped`: a worker that obeys `Stop` marks its job completed, and the
  cancellation is then refused.
- `followup_lost`: what an overflow drops is to be summarised and the rest kept
  (`docs/concepts/queue.md`), but a batch is removed by position after its run, and an
  overflow meanwhile has shifted the positions: messages that came later are
  removed without having been answered.
- `web_waits`: a run that waits for subagents is to be completed when the last one
  has finished and the announcing turn is over, but the test is made only when an
  end of turn is read, and the subagent's run counts as running for five seconds
  more. If the announcing turn ends within them the run waits for ever, new
  messages are answered 409, and the stop route refuses it, because it aborts
  only runs that are running.

Others were met while modelling and have no run of their own. In the models:

- `JobLifecycle`: completed jobs count as active (`state.rs:61`) and nothing moves
  them on, so they use up `max_parallel_jobs`.
- `SessionLanes`: after a restart whose drain timed out, two runs of a session can
  execute at once, against "only one active run per session" (`queue.md:20`);
  `OnlyLeftoversOverlap` says that nothing else does it.
- `CircuitBreaker`: a call admitted before the circuit opened closes it before
  `recovery_timeout`, in the branch commented "Shouldn't get here"; `OpenIsKept`
  says that only such a call does.
- `FollowupQueue`: an overflow of a one-entry queue in its drain leaves dropped
  messages without an entry, and each drain ends at once and schedules the next,
  never delivering the summary. A message whose `isActive` was read before the
  await can reach a queue that nothing drains until the next run ends.
- `CronService`: an update that throws leaves the patched job in memory, and the
  next save writes it; results of a tick are dropped when the schedule of one of
  its jobs cannot be computed. `start`, `add` and `run` compute past next runs anew,
  so a job that falls due during the catch-up is skipped, against the comment in
  `timer.ts` that such runs "should execute on a future tick instead of being
  silently advanced".
- `FollowupQueue`: the preview of a dropped message is put in the next collected prompt
  whatever its route is; that prompts are of one route is the guard of the collecting
  branch for whole messages, and no property is about it.
- `ActiveRuns`: when a silent reply is the only part of a message that was saved with
  `_streaming`, `closeText` removes it, `flushPersistence` returns at "Nothing to persist
  yet" (`active-runs.ts:1597`), and the "Final persistence flush (removes _streaming flag)"
  (1433) does not remove it: the message of a run that is over stays marked.
- `ActiveRuns`: nothing wakes a waiting run but the end of a turn. If that turn fails, or its
  announcement is given up (`subagent-registry.ts:418`), the run waits for ever, as in
  `web_waits`. A subagent's run whose failure follows an error that was
  reported to the same child (`agentErrorReported`) stays running in the same way.
- `ActiveRuns`: the grace timer of a stopped subagent's run removes the run after
  a follow-up has reactivated it, and kills its subscription; `ActiveIsFound`
  leaves reactivated runs out. A second turn of a subagent that begins within five
  seconds of the end of the first is cut off by the finalize timer.

## 12. Not modelled

- Sandbox jobs, failover and retry, guards, routines, chat turns and pairing: not
  begun (section 2, M10). What is hard in them, beside the table of section 1:
  `create_job_inner` sets a handle to `Running` after the container was started and
  may overwrite a completion; `stop_job` refuses a container that is being created;
  `record_failure` and `activate_cooldown` of the failover are separate atomics; the
  cost guard's flag is cleared only by a call that the flag refuses; the routine
  engine compares a limit with a counter that spawned tasks increment later, and a
  crash leaves a `routine_runs` row open.
- Response cache, smart routing, heartbeat: one lock or one loop, little that
  depends on order.
- Web gateway, channels, extensions, WASM runtime, registry, workspace search,
  safety patterns, secrets, setup, CLI, tunnels, observability, and the rest of
  the TypeScript tree with its extensions, pages and mobile applications: I/O,
  formats, cryptography or user interface. They are most of the repository by
  lines, so the share of the code that is modelled is small; the parts that are
  modelled were chosen for the control they hold.
