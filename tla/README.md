# A TLA+ model of n8n's execution engine, execution lifecycle, scaling and task runners

n8n runs workflows. The parts of it where order, concurrency and failure decide
correctness are the engine that runs the nodes of a workflow, the life of an execution in a main process (it is created,
throttled, run, put to wait, resumed, stopped, timed out, finished), its life in
scaling mode (a job in a queue, workers, recovery), the election of a leader among
main processes and what the leader does for executions that wait, and the protocol by
which the code of a node is run in a separate task runner. This project models them
from the source, checks them with TLC on small instances, and proves the
most important properties of all eight models for every instance with TLAPS.

All paths below are relative to `src/packages/`.

## Inventory

| Component | State | Operations | Hard behaviour | Correct when |
|---|---|---|---|---|
| Concurrency control (`cli/src/concurrency/`) | per kind of execution a capacity counter and a queue of promises; an enabled flag; one reservation per `ActiveExecutions.add` | throttle, release, remove, removeAll, disable | counter below zero, waiters resolved by two different paths, disabling while executions end | no slot lost or invented, none idle while someone waits, first in first out, limit respected |
| Active executions (`cli/src/active-executions.ts`) | a map from execution id to entry: status, promise, engine | add, attach, stop, finalize, setStatus, shutdown | lookups by id after awaits, entries overwritten by a resumption, promises settled by several paths | one engine per execution, slot and entry follow the promise, shutdown ends |
| Workflow runner (`cli/src/workflow-runner.ts`) | none of its own; timers | run, runMainProcess, processError | stops and timeouts between its awaits | every path ends the execution |
| Execution service (`cli/src/executions/execution.service.ts`) | rows in the database | stop, findAllEnqueuedExecutions | read, act and write as three steps | a stopped execution is not running |
| Lifecycle hooks (`cli/src/execution-lifecycle/`) | none | hookFunctionsSave, hookFunctionsSaveWorker | the row is written without a condition, and twice if sub-executions are merged | a result is not written over a later status |
| Start command (`cli/src/commands/start.ts`) | none | runEnqueuedExecutions, stopProcess | crash and restart | enqueued executions run again |
| Task broker (`cli/src/task-runners/task-broker/`) | known runners, pending requests and offers, accepted tasks, timers | settleTasks, acceptOffer, the message handlers, timeouts, draining | answers that come late, twice or never; runners that vanish | a request is matched once, a task is never orphaned, a requester always gets an answer |
| Task requester (`cli/src/task-runners/task-managers/`) | promises per request and per task | startTask, taskReady, requestExpired, taskDone, taskError, cancelTasks | promises only a message settles | every promise settles |
| Task runner (`@n8n/task-runner/src/`) | open offers, running tasks | sendOffers, offerAccepted, receivedSettings, taskCancelled, taskTimedOut | messages crossing with its own timers | never promises more than it has slots, every slot comes back |
| Runner processes (`cli/src/task-runners/task-runner-process-*.ts`) | a child process | start, forceRestart | restart on events that name no process | only the suspect is restarted |
| Wait tracker (`cli/src/wait-tracker.ts`) | an interval, an entry with a timer per execution | init, startTracking, getWaitingExecutions, startExecution, stopExecution, stopTracking | leader changes with polls in flight, two intervals, timers that outlive their wait | a due execution is resumed, once per wait |
| Multi-main setup (`cli/src/scaling/multi-main-setup.ee.ts`) | a Redis key with a TTL, a role and an interval per process | init, checkLeader, tryBecomeLeader, shutdown | expiry while the leader is slow, checks that overlap, restart under the old id | a timely leader is the only one; in the end one leader, which knows it |
| Scaling (`cli/src/scaling/`) | Bull queue, jobs, the workers' running jobs, recovery context | addJob, stopJob, processJob, recoverFromQueue | database and queue read at different times, stalled jobs, lost aborts, any process may end | no execution runs twice, every row ends, the waiting caller is answered |
| Pub/sub (`cli/src/scaling/pubsub/`) | none | get, setIfNotExists, setExpiration, clear, publish | | the key operations are part of the election |
| Circuit breaker (`cli/src/utils/circuit-breaker.ts`) | state, counters, a sliding window of failures | execute | calls that end in another state than they began in | probes are bounded and counted, it closes again |
| Workflow engine (`core/src/execution-engine/workflow-execute.ts`) | a stack of nodes to execute, waiting inputs of joins, runs, status | run, processRunExecutionData, addNodeToBeExecuted, processSuccessExecution, cancel | joins that lack data, waits, failures and retries that put a node back, cancellation at any await | data is used once and not lost, a join runs incomplete only when nothing can come any more, the end is reported once |
| Partial execution (`core/src/execution-engine/partial-execution-utils/`) | none | graph algorithms | cycles | start nodes and subgraph as defined |

How they interact: a webhook, a trigger, the wait tracker or the start command
calls `WorkflowRunner.run`, which calls `ActiveExecutions.add`, which waits for a
slot of the concurrency control, writes the row and registers the entry. The
engine runs and calls its hooks, which write the row again. `finalizeExecution`,
`stopExecution` or an error path settles the entry's promise, and the `finally`
handler behind it gives the slot back and removes the entry. A Code node calls
`TaskRequester.startTask`, which talks to the broker in the same process, which
talks to runners over websockets. In scaling mode the runner of the main process
adds a job to the Bull queue instead and waits for it; a worker takes it, runs the
engine and saves the row; the leader looks for rows without a job. The services of the
leader (wait tracker, queue recovery, pruning) learn of leadership only by two events
of the multi-main setup, which is what `Leadership` specifies.

`PROJECT.json` lists every component with its status, and under `hazards` what is
hard to test in this code, line by line, with the properties that watch it.

## Modules

| Module | What it is |
|---|---|
| `ConcurrencyControl` | the concurrency control of one process: `isEnabled`, `capacity`, `queue`, and the state of each reservation |
| `ConcurrencyControlProofs` | its theorems and their proofs |
| `ActiveExecutions` | the execution lifecycle in regular mode, over an instance of `ConcurrencyControl` and the status column of the execution rows |
| `TaskBroker` | requester, broker, runners and the two channels between the broker and each runner |
| `Leadership` | abstract: start, end, role and leadership events of main processes, as their services see them |
| `MultiMain` | the election over a Redis key that expires; implements `Leadership` |
| `WaitTracker` | the wait trackers of all main processes, over `Leadership`, and the rows of the executions that wait |
| `ScalingQueue` | executions in scaling mode: rows, Bull jobs, callers, workers, stops, queue recovery |
| `CircuitBreaker` | the circuit breaker with its sliding window, under overlapping calls |
| `WorkflowExecute` | one execution in the workflow engine, over a set of workflows: node stack, waiting inputs, runs, restarts |
| `ActiveExecutionsProofs`, `TaskBrokerProofs`, `MultiMainProofs`, `WaitTrackerProofs`, `ScalingQueueProofs`, `CircuitBreakerProofs`, `WorkflowExecuteProofs` | theorems and proofs |
| `MC*` | values of the constants for TLC |

A definition whose name ends in `_` and a phrase (`GiveBack_Idle`) is a mutant: a
plausible bug in the code behind the definition that follows it. No specification
uses one; `PROJECT.json` names the property that each of them breaks.

### ConcurrencyControl

A call is one call of `ActiveExecutions.add`; its reservation is `idle`, then
`held` at once or `waiting` in a queue, then `released`; `dropped` is a waiter
that `remove()` took out of the queue, whose promise never settles. `Reserve`,
`Release`, `RemoveExecution` and `Disable` are the service's operations, each one
synchronous stretch of JavaScript; `GiveBack` is `capacity++` with `resolveNext()`,
which `dequeue` and `remove` share. `Restart` loses everything, at any point.

Left out: the events for telemetry and the log. `removeAll` appears only as
`shutdown()` calls it, after `disable()`, when it returns at once (`Disable`).

### ActiveExecutions

A call is one call of `WorkflowRunner.run`. Its program counter has one value per
`await` at which another handler may run; the comment on `PCs` lists them. Where a
database write and the code behind its `await` could be told apart by another
handler they are two steps (`WriteStatus` and `Register`; `SaveResult` and
`FinalizeExecution`; `StopInRegularMode` and `StopWrite`).

* `Create`, `BeginResume` and `RunEnqueued` start a call: a new execution, the
  resumption of one that waits, the re-run of one found enqueued at startup.
* `Reserve` to `Register` are `add`; `CredentialsDenied`, `RunRejected` are the
  early ends of `run`; `SetRunning`, `Launch`, `LaunchFails` are `runMainProcess`.
* `PutExecutionToWait` and `Finish` are the engine, as far as the registry can see it;
  `SaveResult`, `SaveMerged` and `SaveCanceled` the writes of its hook,
  `hookFunctionsSave`. The hook writes the row when the run ends, and again after it has
  read and merged sub-executions of the workflow that started later; neither write has a
  condition. `AfterSave` chooses whether there are any (`MayMerge`), and `denying`,
  `failing`, `merging` are the places between the two writes. When the second write puts
  "waiting" over another status, `late` remembers it: from then on the condition of `add()` no
  longer tells a resumption that another one is under way.
  `OneEngine`, `WaitingIsAtRest`, `OnlyWaitingRunsAreForgotten` and `OnlyWaitersSettleOthers`
  are about the executions this has not happened to (`~Late`).
* `Settle` is the `finally` handler of the promise, and part of every action that
  settles it: `FinalizeExecution`, `LaunchFails`, `StopExecution`.
* `StopRead`, `StopInRegularMode`, `StopWrite` are `ExecutionService.stop`;
  `TimeoutExecution` is the timer; `Shutdown`, `Drained`, `Restart` the process.

The model composes with `ConcurrencyControl` by INSTANCE: its actions use
`CC!Reserve`, `CC!Release` and so on, each as a whole, so that what was proved of the
component holds of the slots in the whole (theorem `SlotsAreAccounted`).

Abstracted: what a workflow computes, response promises and streaming, the
content of rows other than their status. A database call does not fail. The
`cancelAll` variant of `shutdown` is left out: only the batch command uses it.

### TaskBroker

Requester and broker live in one process and call each other synchronously, so an
action is one macrotask with the microtasks behind it: `handleRunnerAccept`, for
instance, is the message handler and all of `acceptOffer` after its first `await`,
with the requester's answer. Channels are FIFO. Timers fire at any time while they
are set. The n-th offer of runner `r` is `<<r, n>>` and names the task made from
it, too. Launchers are runners whose offers do not expire and that answer an
acceptance with `runner:taskdeferred`; the launcher is external and is modelled
from what the broker expects of it. A runner that is restarted has a new id.

Left out: data requests, node type requests and RPC calls of running tasks, and
the runner's idle timer. `InternalMode` chooses what a timed-out task does: in internal
mode it kills the runner processes (`forceRestart`), in external mode it is cancelled.

### Leadership and MultiMain

`Leadership` is the contract between the multi-main setup and the services: a process
has a role once its first election has ended, `LTakeover` and `LStepdown` are the two
events, `LDemote` is a loss of the role that no event announces, and nothing is said
of who leads or of how many do.

`MultiMain` is `MultiMainSetup` itself. A process has one connection to Redis, `conn`,
a sequence of commands that Redis executes in order (`RedisExecutes`) and whose replies
are handled in order. Each `await` is a cut: `CheckLeader` sends GET; `KeyIsOwn`,
`KeyIsOthers` and `KeyIsVacant` are the three branches behind it, which send EXPIRE or
SETNX; `TriedToBecomeLeader` and `Renewed` are the ends. As the interval does not await
`checkLeader`, a second check can be under way (`MaxPipeline`). `Tick` is an interval
that elapses with every check done, `LateTick` one that elapses with something due or
under way, and `late` remembers that this has ever happened: `TimelyLeaderHoldsKey` is
about the time before. A process ends in order (`StopProcess`, `Shutdown`, `KeyCleared`)
or by a crash, and comes back under the same id, as a container does.

`ImplementsLeadership` is the refinement: `ServicePhase` hides the first await and the
removal of the key.

### WaitTracker

Module `WaitTracker` extends `Leadership`: each leadership action is conjoined with what
the tracker does on it, once its handlers are registered. `mainTimer` is the interval the
field refers to, `leaked` an interval it forgot (two takeovers in a row). A poll has two
parts, the answer of the database (`Poll`, within `StartTracking` and `PollTick`) and its
handling (`PollHandled`), and so has a resumption: `TimerFires` and `WebhookCalled` read
the row, `ResumeWrite` is the conditional update of `ActiveExecutions.add`. A wait is
numbered, an entry remembers for which one its timer was set, and `passed` is the set of
waits whose `waitTill` is over.

`row` is the status and the wait in `waitTill` (0: none), which the query of a poll goes by,
whatever the status. The engines that run an execution, on a main process or on a worker, are
members of `engines`, and appear by what they write, always without a condition: `SetRunning`
at the start of a resumed run, `Save` when it ends, with a new wait if a node has called
`putExecutionToWait`, and `SaveAgain` if the execution is in `Merged` and there were
sub-executions to merge. `LoseEngine` is the end of its process. A stop is three steps:
`StopRead`, `StopEntry` (only the tracker of its own process drops the entry), `StopWrite`. So a
stop and a save can overwrite each other, in either order, and a saved wait the 'running' of a
resumption. `resumed` counts the resumptions from each wait. As workers save once,
`Merged` is empty in the runs with two main processes, which means scaling mode.

A call under way does not remember the wait it was made for: the code does not compare it.
`stopBeforeRun`, which a queued resumption gets in regular mode, is in `ActiveExecutions` only.

### ScalingQueue

Three views of one execution that are updated at different moments: its `row`, its `job`,
and `caller`, the program counter of `enqueueExecution` and the promise behind it on the
process that owns it. `Create` to `SaveError` are `WorkflowRunner.run`,
`enqueueExecution` and `processError`; `StopRequested`, `StopWritten`, `StopJob`,
`StopJobDone` are `ExecutionService.stop` on any main process with the cancellation of
the promise on the owner; `Dequeue` to `ReportFinished` are `JobProcessor.processJob` and
its wrapper, one action per `await`; `AbortReceived` is its `stopJob`; `ScheduleQueueRecovery`
to `RecoveryFails` are queue recovery. `WorkerEnds` and `MainEnds` end a process at any point.

Bull is external. It is modelled from the options the code passes and from how the code
uses it: a waiting job is given to one worker, a job whose lock has expired is failed (as
`maxStalledCount` is 0), a job that something else has ended does not end again,
`job.finished()` follows the state of the job, and a locked job cannot be removed.

### CircuitBreaker

A call of `execute` is cut at its one `await`: `ExecuteClosed`, `ExecuteOpen`,
`ExecuteHalfOpen` up to it, `SucceedClosed`, `FailClosed`, `SucceedHalfOpen`,
`FailHalfOpen` behind it, in the handler the call began in and whatever the state is by
then. Timestamps are kept as ages, capped where they make no difference any more; a
call that is rejected at once changes nothing, except that the first one after the timeout
makes the breaker half open.

### WorkflowExecute

One execution of one workflow out of `Workflows`, in the execution order `v1`. A workflow is its
connections, the order of its nodes on the canvas, the destination of a manual run, which inputs
a node requires, and which nodes are disabled, may fail, continue after an error, may wait or
return null. What a node computes is abstracted to which of its outputs have data. A *packet* is
what one run sent over one connection, so that the fate of data can be followed: it is on the
stack, waiting, with the node that runs, or in the run that used it. A packet names its run by a
number of its own, not by the run's index in `runData`, which is given again when a restart has removed
the run.

`StartNode` takes an entry from the stack; `Succeed`, `ContinueOnFail`, `FailNode`, `ReturnNull`
and `PutToWait` are the ends of a node's run (all tries of a node that retries are one run);
`AddNode` is `addNodeToBeExecuted` for one connection, `IsNextTarget` the sort by position before
it; `NodeDone` is the hook with the search for waiting nodes behind it, `MayRunIncomplete` its
conditions. `LoopEnds`, `Settle` and `Saved` are the end of the loop, `processSuccessExecution` and
the hook within it; `Cancel` comes at any await. `Resume` is `handleWaitingState`, on the saved
data, with the node that waited disabled, and `Retry` is `ExecutionService.retry`.

`runs`, `dropped` and `lost` are history variables: the number of runs so far, packets of entries that
were skipped or whose node returned null, and packets that the code loses (see below). The model is of
finite workflows without cycles (`WorkflowsAssumption`), no two nodes of which share a position. Waiting entries are numbered
below ten, so that the order of the strings is that of the numbers.

## Runs

| Run | Instance | Shows |
|---|---|---|
| `concurrency_control` | 6 calls, 5 executions, one production slot, evaluations unlimited (-5), fair | all properties of the component |
| `active_executions` | 1 execution and one slot, 3 calls: its first run and two resumptions, saved once or twice, stopped, timed out, shutdown and restart at any point, fair | `SlotAndEntryFollowPromise`, `WaitingIsAtRest`, `OneEngine`, `OnlyWaitingRunsAreForgotten`, `OnlyWaitersSettleOthers`, `SlotsComeBack` |
| `task_broker` | internal mode, 2 requests, one runner with 2 slots and 3 offers | `OffersCanBeHonoured`, `NoOrphanTask`, `SettingsAreExpected` |
| `task_settling` | external mode, 1 request, a runner and a launcher, fair | `OnlyAwaitedTasksRun`, `OneMatchPerRequest`, `StartTaskSettles`, `RunnerSlotsComeBack` |
| `multi_main` | 2 processes, TTL of 2 intervals, 2 commands under way, one process stops, crashes and comes back, fair | `TimelyLeaderHoldsKey`, `ImplementsLeadership`, `OneLeaderInTheEnd` |
| `wait_tracker` | 2 processes, one of which ends, any number of leaders; 1 execution with one wait, stops and webhooks on the process that stays, fair | `OneResumptionPerWait`, `TrackedIsResumed` |
| `wait_tracker_waits` | 1 process, 1 execution with two waits and saves that are repeated, stops | `OneResumptionPerWait`, `EndedStaysEnded` |
| `scaling_queue` | 1 execution, 2 main processes, 2 workers, all of which end at any moment, fair | `RunAtMostOnce`, `CompletedIsSaved`, `EveryExecutionEnds`, `EntryIsRemoved` |
| `circuit_breaker` | 3 overlapping calls, 2 failures open it, 2 successes close it, 2 probes at a time, window 3, timeout 2, fair | `HalfOpenBound`, `ClosedBelowThreshold`, `ClosesInTheEnd` |
| `workflow_execute` | 198 workflows of up to 7 nodes, 2 restarts, cancellation and timeout at any point, fair | `EveryPacketOnce`, `LeftWaitingLacksInput`, `MissingDataNeverComes`, `ReportedOnce`, `OnlySharedInputsRepeat`, `ExecutionEnds` |

Bounds. One production slot is the smallest limit at which executions wait, and
with four calls of production executions the queue reaches a length of two or more, which
first-in-first-out and removal from the middle need. In `active_executions` the first run of
an execution and two resumptions compete for it. Two are what `OneEngine` is about: one
resumption alone begins only after the run that waits, whatever `add()` checks. The theorems are for any
number of calls and executions and any limit, and cover every property of the run but `SlotsComeBack`.
`MaxOffers` bounds the offers of a runner: with three offers and two slots an offer
is withdrawn, one is accepted late and a third made while the others are open. In
`task_settling` one offer of each suffices to have a request deferred, in the list twice,
matched again and accepted late.

`MultiMain`: a TTL of two intervals is the least at which a timely leader keeps the key;
n8n's defaults (10 s and 3 s) are more than three. Two commands under way are
a check that overtakes the previous one. Two processes are what one leader too many needs; all
safety properties are proved for any number. `WaitTracker` and `ScalingQueue` treat
executions independently of each other (an entry, a row and a job each; a worker takes one
job at a time here), so the runs have one; two take longer than is practical, and the
theorems are for any number. Two waits are a timer, a poll or a repeated save of the first while the
second is under way; one process suffices for that, and merging is the regular mode's, which
has one. In
`CircuitBreaker` three calls are two probes and one that is rejected, or one left over
from an earlier state.

`WorkflowExecute`: `Joins` is every way in which three nodes that run one after the other can
feed two joins of two inputs, one of which leads to the other or not (192 workflows); the
other workflows are built for what these cannot show: two joins of which the later one waits
first (`Nested`), several senders to one input (`Feeders`), a manual run with a destination, inclusive or not
(`Manual`), required inputs, disabled and continuing nodes (`Required`), and a node that continues
after an error and is executed twice (`Repeated`): a retry after a timeout removes a run whose data
is on the stack, and the next run of the node gets its index. Two restarts let a
resumption be followed by a retry, or a retry by another.

The runs with `CHECK_DEADLOCK FALSE` are those whose calls or offers are used up in
the end (and, without a restart, nothing is left to do).

### Where the code does not do what it says

Each of these runs checks one sentence of the code's comments, and TLC finds it violated.
`findings` in `PROJECT.json` has the quotes.

| Run | Property | What happens |
|---|---|---|
| `enqueued_rerun` | `EnqueuedAreRerun` | the re-run of an enqueued execution is refused: the row is 'new', the update requires 'waiting' |
| `waiting_overwritten` | `NothingLost` | a new waiting entry of a join gets an index that is in use, and the data that waits there is replaced. `OnlySharedInputsRepeat` says how far this goes: only where two connections share an input, at the join or before it |

Other places where the code does something its authors would hardly want are in the
models, but have no run of their own:

* Stopping a queued execution lets the next one through, over the limit: `remove()` frees
  no slot and calls `resolveNext()`. `OverLimitOnlyByRemove` states what remains true.
* A stop just after a node put the execution to wait drops the entry with its promise
  pending, and the slot for good. `SlotsComeBack` leaves such runs out (`Forgotten`);
  `OnlyWaitingRunsAreForgotten` is the other half: no other run is forgotten like this.
* The second save of `hookFunctionsSave` (execution-lifecycle-hooks.ts:746, behind the awaits of
  the merge) has no condition either. A resumption admitted between the two saves has its 'running'
  overwritten with 'waiting', so that `add()` admits another one while the first is on its way, against
  the comment "Another process is already resuming this execution" (active-executions.ts:116).
  `OneResumptionPerWait` says how far this goes: two resumptions from a wait that is saved twice. The
  properties of `ActiveExecutions` that rest on the condition of `add()` exempt such an execution (`Late`).
* The save of a run has no condition. A stop after `putExecutionToWait` writes 'canceled', the
  engine then 'waiting', and the next poll resumes the stopped execution; in the same way 'success' is
  written over 'canceled'. `EndedStaysEnded` is therefore about an execution that no
  engine and no stop has still to write (`Ended`), and `OneResumptionPerWait` counts the
  resumptions whatever was overwritten.
* `finalizeExecution` and the execution timer go by the execution id: the end of a run that
  was put to wait and resumed before it had finalized settles the promise of its
  resumption. `OnlyWaitersSettleOthers` says that no other run does this.
* A stop just before `attachWorkflowExecution` leaves the engine running untracked. The
  slot comes back, and no second engine starts.
* A request can time out while it is being accepted; the runner then drops the task by its own
  timer (`RunnerSlotsComeBack`), and the requester gets one answer (`StartTaskSettles`).
* In internal mode one timed-out task restarts the runner processes of both types.
* `shutdown()` calls `removeAll()` after `disable()`, when it does nothing; an execution
  that turns waiting after `shutdown()` has dropped the waiting ones keeps its polling loop
  going until the force-shutdown timer.
* `stopTracking()` leaves the entries of the timers it clears: a process that leads
  again never resumes these executions. `TrackedIsResumed` excludes them by name (`Stale`).
* A leader that is elected between `WaitTracker.init` and `registerEventHandlers` is never
  told, and one demoted there goes on tracking: `TrackedIsResumed` has somebody polling as
  its premise, and the safety properties hold with any number of trackers.
* A timer is set for one wait and survives the resumption of the execution by a webhook: if the
  execution waits again, the timer ends that wait before its time, as the update only asks for the
  status 'waiting' (wait-tracker.ts:97; the comment at line 73 has executions started "at the
  correct time"). Still each wait is ended once for each time it is saved (`OneResumptionPerWait`).
* Queue recovery reads rows and jobs at two moments and then writes without a condition
  (scaling.service.ts:611 to 630): an execution that ends in between is marked as crashed over its result,
  though the comment at line 608 speaks of in-progress executions.
* An abort that reaches a worker before it has registered the job is lost, and `setRunning`
  overwrites 'canceled': the execution runs to its end.
* `processError` returns without finalizing the entry when a job declared failed has
  succeeded: whoever awaits the promise waits for ever (`abandoned` in `EntryIsRemoved`).
* The error of a node that continues after it stays in `executionError` until the next node
  starts. If none does, the execution ends as failed, and a retry removes the run of that node and
  succeeds without running it again (workflow-execute.ts:1507, execution.service.ts:255).
* The iterations that end with `continue` (a node outside the filter, a node that returned null, the
  destination) skip the search for waiting nodes: if one of them is the last, a join that could run
  with the data it has is left waiting, and the execution succeeds (`early` in `LeftWaitingLacksInput`).
* A cancellation while `workflowExecuteAfter` is running runs it a second time (`ReportedOnce`);
  one that is followed by an error of the node reports 'canceled' to the hook and returns 'error'.

### Fairness

* `ConcurrencyControl!FairSpec`: whoever holds a reservation releases it. This is
  an obligation of the caller, and `SlotsComeBack` shows that `ActiveExecutions`
  meets it but for runs that are put to wait and forgotten.
* `ActiveExecutions!Fairness`: the event loop runs every continuation, the database
  answers, an engine ends (a node ends or is ended by the execution timeout).
  Nobody is obliged to start, resume or stop an execution.
* `TaskBroker!Fairness`: messages on a live connection are delivered, timers fire,
  the broker notices a closed connection, and an aborted execution ends, as its
  AbortSignal rejects `executeTask`. A runner need not connect or offer, a task need
  not end by itself.
* `MultiMain!Fairness`: Redis answers, event loops run, time passes, a startup or a shutdown that
  has begun goes on. Nobody need start or stop a process. `OneLeaderInTheEnd` is
  conditional: some process stays up and from some point on nothing is late. Without the
  second condition no lease can promise a single leader.
* `WaitTracker!Fairness`: intervals and timers fire, the database answers, a stop that
  has begun goes on, time passes. Nobody need become leader, and no engine need end: `TrackedIsResumed` has a process that keeps polling as its
  premise.
* `ScalingQueue!Fairness`: Bull gives a waiting job to an idle worker, a job that nobody
  holds is found stalled, a worker goes on with its job and its engine ends, the main process
  handles the end of a job. Queue recovery polls; each of its queries may fail, but not for
  ever, which is strong fairness of `ReadJobs` and `MarkAsCrashed`: failed checks are
  repeated. `EveryExecutionEnds` requires some process to keep its recovery scheduled.
* `CircuitBreaker!Fairness`: time passes, events keep coming and a delivery ends.
  `ClosesInTheEnd` is about destinations that answer from some point on.
* `WorkflowExecute!FairSpec`: the engine goes on and a node ends its run, one way or the other.
  Nobody need cancel, resume or retry, and the timeout need not pass.

## Proofs

Eight modules hold theorems, one for each model that has code behind it. "For every" is the range of the constants, the same for all
theorems of a module.

| Module | Theorem | Property | For every |
|---|---|---|---|
| `ConcurrencyControlProofs` | `TypeCorrect` | `TypeOK` | finite set of calls, assignment of executions and modes, limit other than 0, either mode |
| | `CapacityIsAccounted` | `CapacityAccounting` | |
| | `WorkIsConserved` | `WorkConserving` | |
| | `WaitersAreQueuedOnce` | `QueuedOnce` | |
| | `ReleasedInOrder` | `FirstInFirstOut` | |
| | `NoneAdmittedDuringShutdown` | `NoAdmissionDuringShutdown` | |
| | `LimitHoldsButForRemove` | `OverLimitOnlyByRemove` | |
| `ActiveExecutionsProofs` | `SlotsAreAccounted` | the invariants of `ConcurrencyControl`, in the whole process | finite set of calls, executions, modes, limits other than 0, choice of what may wait, merge, stop or shut down |
| | `EngineIsUnique` | `OneEngine` | |
| | `TypeCorrect` | `TypeOK` | |
| | `SlotsAndEntriesFollow` | `SlotAndEntryFollowPromise` | |
| | `WaitingRowsAreAtRest` | `WaitingIsAtRest` | |
| | `OnlyWaitersAreForgotten` | `OnlyWaitingRunsAreForgotten` | |
| | `OnlyWaitersSettle` | `OnlyWaitersSettleOthers` | |
| `TaskBrokerProofs` | `TypeCorrect` | `TypeOK` | set of requests, runners and launchers, number of offers, `maxConcurrency`, either mode |
| | `OffersAreHonoured` | `OffersCanBeHonoured` | |
| | `TasksAreKept` | `NoOrphanTask` | |
| | `SettingsExpected` | `SettingsAreExpected` | |
| | `OnlyAwaitedRun` | `OnlyAwaitedTasksRun` | |
| | `MatchedOnce` | `OneMatchPerRequest` | |
| `MultiMainProofs` | `TypeCorrect` | `TypeOK` | set of processes, TTL of at least 2, pipeline |
| | `TimelyLeader` | `TimelyLeaderHoldsKey` | |
| | `LeadershipImplemented` | `ImplementsLeadership` | |
| `WaitTrackerProofs` | `TypeCorrect` | `TypeOK` | set of processes and executions, number of waits, choice of what is merged |
| | `ResumedOnce` | `OneResumptionPerWait` | |
| | `NeverBroughtBack` | `EndedStaysEnded` | |
| `ScalingQueueProofs` | `TypeCorrect` | `TypeOK` | set of processes, workers and executions |
| | `NeverRunTwice` | `RunAtMostOnce` | |
| | `CompletedJobIsSaved` | `CompletedIsSaved` | |
| `CircuitBreakerProofs` | `ProbesAreBounded` | `HalfOpenBound` | finite set of calls, positive options |
| | `CountersAreBounded` | `CountersBounded` | |
| | `ClosedIsBelowThreshold` | `ClosedBelowThreshold` | |
| `WorkflowExecuteProofs` | `EndReportedOnce` | `ReportedOnce` | set of workflows, number of restarts |
| | `PacketsInOnePlace` | `EveryPacketOnce` | |
| | `OnlyLackingNodesWait` | `LeftWaitingLacksInput` | |
| | `MissingDataStaysAway` | `MissingDataNeverComes` | |
| | `RepeatsNeedSharedInput` | `OnlySharedInputsRepeat` | |

The assumptions are those of the models, as weak as the code justifies:
`ConstantsAssumption` (types, `Calls` finite, no limit of 0, on which the constructor
throws), `NewCallsAssumption` (the same for `ActiveExecutions`, and one first call for each
execution), `TaskBrokerAssumption` (a runner takes at least one task, launchers are runners),
`MultiMainAssumption` (TTL of at least two intervals), `WaitAssumption`,
`ScalingAssumption` (`NoJob` is no execution), `BreakerAssumption` (finitely many calls,
counts of at least one), `WorkflowsAssumption` (finite workflows without cycles, no shared
positions).

`ConcurrencyControlProofs`. None of the invariants is inductive alone. `WorkConserving` relates the
number of holders to the queue, and a release takes a holder away and lets a waiter
through: that the number stays needs the waiter to be no holder already and to be in
that queue, which is `QueuedOnce`. When a waiter arrives, that the slots are all taken
is known from the counter alone, so it needs `CapacityAccounting`. `CapacityAccounting`
in turn needs `QueuedOnce`, for the cardinalities. The inductive invariant `IInv` is
the conjunction of the four. Lemmas on `Held` (how the set changes when one
reservation does) and on sequences (the elements of a tail, an appended and a shortened
sequence) carry the steps; there is one step per action, and below it one per conjunct
the action can disturb. `ReleasedInOrder` and `NoneAdmittedDuringShutdown` are action
properties that follow from `IInv` in the state before the step. So is `LimitHoldsButForRemove`:
a call that arrives gets a slot only if the counter says that one is free, and a release hands
one on, so that the number of holders stays; `remove()` alone adds a holder without either.

`ActiveExecutionsProofs` goes in four layers. The first carries over what is proved of the
concurrency control (`SpecUsesCC`): the registry and the runner use the service only by its operations, so
with the types of the handlers' own variables the invariants of `ConcurrencyControlProofs` hold of the
whole process (`SlotsAreAccounted`). The second is `ActiveInv`, for `OneEngine`, `WaitingIsAtRest` and
`OnlyWaitersSettleOthers`. The conditional update by which `add()` takes an execution is exclusive, and a
call occupies the execution from that write until it has written its result; a call that has not put the execution to
wait occupies it until it has ended, as no other status lets `add()` take it again. No two calls
of an execution are active at once and the row of an occupied one is not "waiting", until the
second save of `hookFunctionsSave` puts "waiting" over another status: from then on (`Late`, which never
becomes false again: `LateKept`) the invariant says nothing of that execution. So while one
run is on its way, another that ends, fails to start or times out can only be one that has put the
execution to wait (`StepSettles`). The third is `SlotInv` and `EntryInv`: which slot a call has
at each point of its progress, and which call an entry may be of. A release lets a waiter through, and
that this is a call still inside `reserve()`, so that no other call's slot is disturbed, is `QueuedOnce`
from the first layer. The fourth is `PendingInv`, for `OnlyWaitingRunsAreForgotten`. That the entry of a
running call is its own is not inductive: a resumption overwrites the entry of its execution, and
`finalizeExecution` does nothing for a call without its handler. So the invariant follows a tracked call
(promise pending, status not "waiting", no late save) to its end: its engine starts with the entry there, and so
with the handler attached; it never saves "waiting", so it occupies the execution through
both saves; and from then on neither the row nor another call lets a resumption begin.

`TaskBrokerProofs`. An offer is a token that is in one place: in a message to the broker,
in the broker's list, in a message to the runner, in the runner's answer, in the settings
on their way, or it has become a task. `StageOf` says for each offer that it is in one of these only
(`OnePlace`), and what broker and runner may have of it before the runner's answer, before the
settings and after them; a handler moves one token. `NoOrphanTask` and `SettingsAreExpected` are read
off the places; `OffersCanBeHonoured` counts the open offers and tasks of a runner, by the cardinality lemmas for
one element more or less. For the requester, `AwaitInv` says that settings are sent, and a task
runs, only for a request that was given the task, and `MatchInv` that a request is matched
with one offer and marked while it is. `settleTasks` matches any number of requests in one
step: `LoopInv` is the invariant of its loop, proved over the prefixes of the list. The induction is
done on sets, by the cardinality of initial segments, as the induction theorems of the library take an operator
that cannot be given to them.

`MultiMainProofs`. That a timely leader holds the key says nothing of the answers on their
way, which make leaders. `KnowsItsKey` adds them: an answer that names the process, and
has not reached it, is still true, and a key it asks to remove is its own. That a key does not
expire under its leader is `KeyIsRenewed`: its time to live is full, or a check is due or
under way that will renew it before time may pass. Neither is stable while late, so both are
conditional on `~ late`; `Orderly`, what a process may have under way in
each phase, holds always, and is what the refinement needs. As each of these is about one
process and the key, the proof shows once that the others are not disturbed by a step of one.

`WaitTrackerProofs`. As any engine and any stop may overwrite the row, the row alone says nothing
of how often a wait was resumed. `RoomToResume` does: a row that waits and an engine
that will write the same wait again each leave room for one resumption below the limit. A
resumption takes the room of the row, `SaveAgain` passes that of the engine on to the row,
and every other write only gives room up. That there is one such engine at most is
`SavedAgainOnce`, and that a new wait starts with all its room, `WaitsHaveBegun`: no row, engine or
count knows of a wait that has not begun. The type of `resumed` follows from these, so they are
inductive with `TypeOK` only. Nothing needs to be known of timers, polls or leaders, which is the
point: the condition on the status in the update is the whole protection. For `EndedStaysEnded` the
steps are enough: an engine comes from a resumption alone, which needs a row that waits.

`ScalingQueueProofs`. `RunAtMostOnce` needs that a worker that has not started its engine holds an
execution never started (`WorkerOK`), which needs that no other worker holds it
(`OneHolder`) and that a waiting job has no holder and was never started (`ExecutionOK`): a job
that has left the state "waiting" never returns to it, as stalled jobs are failed and not retried.
`CompletedIsSaved` needs that the row of a worker at its last step is final and that
nobody who could write "running" is left when the job completes.

`CircuitBreakerProofs`. The number of probes is the counter by cardinality lemmas for adding
and removing a call. The bound of `halfOpenCount` follows from a sum: the counter and
the probes under way stay below what the two options allow together. `ClosedBelowThreshold`
is about the sliding window, whose expired events go when an event is added or counted. The rank of an
unexpired event among the unexpired ones is an injection, so the window that is left has as many
failures as were unexpired; the passing of time only makes it fewer.

`WorkflowExecuteProofs`. `ReportedOnce` is about the end, and needs `HookInv`, which says at every
point of the engine how often the hook has run: before the end only a cancellation has run it,
and while it runs at the end a cancellation has run it once more.

`EveryPacketOnce` speaks of the packets of recorded runs. The inductive `PlaceInv` says of every
packet that it is in at most one place and that none is of a run still to come, so that the packets of a
new run are nowhere yet, and of those sent that they are somewhere. It needs the shape of the state
around it: `TypeInv`, by which an entry of a node holds packets of connections to that node;
`WaitingInv`, that `waitingNodes` lists the nodes with waiting entries, once each; `TargetsInv`, that
the connections still to be served are of the node that ran last; `NumberInv`, that the numbers of
recorded runs are at most `runs`; and `EndInv`, that a run which failed or waits is the last of the last
node and its inputs are on top of the stack, so that a restart which removes the run leaves them there.
A step moves the
packets of one entry, and for each action the proof names the place they leave and the one they
come to. Neither this proof nor that of `ReportedOnce` uses that workflows have no cycles.

The other three do. `AllBefore` is computed by rounds; that these stop at the least set closed
under the connections (`AllBeforeFacts`) is shown by cardinality: a round that adds nothing is the
last, and there can be no more rounds that add something than nodes. So the relation is
transitive (`AllBeforeTransitive`), and of a set of nodes there is always one with none
of the set before it (`FirstOfNodes`), which is where acyclicity comes in. `LeftWaitingLacksInput` adds `SearchInv`: when
the loop ends with an empty stack, and not by `continue`, no waiting node may run, and with entries
left on the stack it ends otherwise than with success. Of the waiting nodes at or before a given one the
first has no waiting parents, so that a missing requirement is what keeps it. `MissingDataNeverComes`
adds `NoMoreInv`: before a node that is, or was, run without data for a connected input, no node is running, on
the stack, waiting or still sending data. A search establishes it, as the stack is empty and no parent
waits; every other step hands data only to nodes behind the one that ran, and
that one is not before such a node.

`OnlySharedInputsRepeat` is about the nodes of `Unshared`, at and before which each input has one connection.
The code has no rule that such a node runs once. `OnceInv` makes it inductive: a node on the stack
or running has sent nothing and finished no run, and once it was taken up, no data is expected at it and
every node before it is calm (not on the stack, running, waiting or a target still to be served). A node with
one input is taken up when its only sender delivers, and a join when its last input arrives or by a
search with an empty stack; in each case the senders are over, and over nodes stay calm. Its data waits in one entry, of
index 0, which lacks every input still to be served, so that `addNodeToBeExecuted` fills that entry and
never counts indices. The rest of the invariant says which runs go on after an error, for the retry that removes
one, and that only nodes with several inputs wait.

The type invariants of the state machines (`TypeOK`, and `TypeInv` of `WorkflowExecute`) are proved and
therefore not part of a run.

Only model-checked: liveness (`FairSpec` and the properties under it), which the prover does not reach.
Every invariant and action property of a passing run is stated by a theorem.

## Not modelled

`components` in `PROJECT.json` gives the reasons. In short:

* Within the modelled parts: the tail of `WaitTracker.startExecution` that resumes a parent
  execution (and deletes an entry without clearing its timer); in scaling mode, executions
  that wait, the `jobResults` shortcut, a row that is not found, workers with a
  concurrency above one, and the deletion of rows by save settings; in the task runner,
  data requests, RPC calls and the idle timer; database failures in `ActiveExecutions`; of the
  hooks, the hard deletion of merged sub-executions and of executions the settings do not
  save, and `hookFunctionsSaveProgress`; in the
  engine, the legacy execution order, cycles, engine requests of agents, hooks that throw, the
  retry of a canceled or crashed execution, pinned data and paired items.
* Planned: partial execution, the active workflow manager, pruning and
  the restart-loop detector.
* Push, webhooks, event bus, cache, authentication, credentials, source control, nodes and
  the front end are I/O or request handlers over a database with no protocol of their own.

## Plan

1. Done: `ConcurrencyControl`, `ActiveExecutions`, `TaskBroker`, `Leadership`, `MultiMain`,
   `WaitTracker`, `ScalingQueue`, `CircuitBreaker`, `WorkflowExecute`, with proofs for all.
2. Done: proofs of every invariant and action property of these modules.
3. `ActiveWorkflowManager`: activation, deactivation and retries over `Leadership`.
4. Cycles and the legacy order in `WorkflowExecute`; the graph algorithms of partial execution
   as operators against reference definitions.
5. Executions that wait in `ScalingQueue`, failing database writes in `ActiveExecutions`.
6. Pruning and the restart-loop detector.
