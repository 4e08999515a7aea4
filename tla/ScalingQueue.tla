---------------------------- MODULE ScalingQueue ----------------------------
(***************************************************************************)
(* An execution in scaling mode: a main process creates its row and        *)
(* enqueues a job; a worker takes the job, runs the engine and saves the   *)
(* row; the main process waits for the job and, if it fails, saves the row *)
(* itself; the leader's queue recovery marks executions that are in        *)
(* progress but have no job as crashed.  Rows, jobs and the processes are  *)
(* updated at different moments, and any process may end in between.       *)
(***************************************************************************)
EXTENDS Naturals

CONSTANTS
    Executions, Mains, Workers,
    NoJob        \* what an idle worker holds

ASSUME ScalingAssumption == NoJob \notin Executions

VARIABLES
    row,         \* the status of each execution in the database
    starts,      \* how often an engine was started on it
    job,         \* its job in the Bull queue; "gone" once it was removed
    owner,       \* the main process that created it
    registered,  \* the executions with an entry in the owner's ActiveExecutions
    caller,      \* how far the owner's run() and its promise have come
    stops,       \* stop requests past assertStoppable, before their write
    abort,       \* abort-job messages on their way to the workers
    worker,      \* what each worker holds and how far processJob has come
    recovery     \* queue recovery on each main process

vars == <<row, starts, job, owner, registered, caller, stops, abort, worker, recovery>>

InProgress == {"new", "running"}
Final == {"success", "error", "canceled", "crashed"}
Queued == {"waiting", "active"}
Callers == {"none", "created", "enqueued", "attached", "failing", "cancelling",
            "aborting", "removing", "settled", "abandoned", "dead"}
Processing == {"taken", "read", "marked", "running", "aborted", "saved"}
Contexts == [step : {"off", "scheduled", "stored", "dangling"}, ids : SUBSET Executions]

TypeOK ==
    /\ row \in [Executions -> InProgress \union Final \union {"none"}]
    /\ starts \in [Executions -> Nat]
    /\ job \in [Executions -> Queued \union {"none", "completed", "failed", "gone"}]
    /\ owner \in [Executions -> Mains]
    /\ registered \in SUBSET Executions
    /\ caller \in [Executions -> Callers]
    /\ stops \in SUBSET (Mains \X Executions)
    /\ abort \in SUBSET Executions
    /\ worker \in [Workers -> [exec : Executions, step : Processing]
                              \union {[exec |-> NoJob, step |-> "idle"]}]
    /\ recovery \in [Mains -> Contexts]

Idle == [exec |-> NoJob, step |-> "idle"]
Off == [step |-> "off", ids |-> {}]
Scheduled == [step |-> "scheduled", ids |-> {}]

Init ==
    /\ row = [e \in Executions |-> "none"]
    /\ starts = [e \in Executions |-> 0]
    /\ job = [e \in Executions |-> "none"]
    /\ owner \in [Executions -> Mains]
    /\ registered = {}
    /\ caller = [e \in Executions |-> "none"]
    /\ stops = {}
    /\ abort = {}
    /\ worker = [w \in Workers |-> Idle]
    /\ recovery = [m \in Mains |-> Off]

Advance(e, step) == caller' = [caller EXCEPT ![e] = step]
Finalize(e) == registered' = registered \ {e}
SaveRow(e, status) == row' = [row EXCEPT ![e] = status]
MoveJob(e, state) == job' = [job EXCEPT ![e] = state]

-----------------------------------------------------------------------------
(* The main process that runs the execution: WorkflowRunner.run *)

\* ActiveExecutions.add: in scaling mode the row stays 'new'.
Create(e) ==
    /\ caller[e] = "none"
    /\ SaveRow(e, "new")
    /\ Advance(e, "created")
    /\ registered' = registered \union {e}
    /\ UNCHANGED <<starts, job, owner, stops, abort, worker, recovery>>

\* The check of the credentials fails, or addJob throws: the row is saved as failed.
NotEnqueued(e) ==
    /\ caller[e] = "created"
    /\ SaveRow(e, "error")
    /\ Advance(e, "settled")
    /\ Finalize(e)
    /\ UNCHANGED <<starts, job, owner, stops, abort, worker, recovery>>

\* ScalingService.addJob
AddJob(e) ==
    /\ caller[e] = "created"
    /\ MoveJob(e, "waiting")
    /\ Advance(e, "enqueued")
    /\ UNCHANGED <<row, starts, owner, registered, stops, abort, worker, recovery>>

\* The hook workflowExecuteBefore: when it throws, processError runs, and the job stays.
BeforeHook(e) ==
    /\ caller[e] = "enqueued"
    /\ \/ /\ Advance(e, "attached")
          /\ UNCHANGED <<row, registered>>
       \/ /\ row[e] # "success"
          /\ SaveRow(e, "error")
          /\ Advance(e, "settled")
          /\ Finalize(e)
       \/ /\ row[e] = "success"
          /\ Advance(e, "abandoned")
          /\ UNCHANGED <<row, registered>>
    /\ UNCHANGED <<starts, job, owner, stops, abort, worker, recovery>>

JobCompleted_OnlySuccess(e) ==
    /\ caller[e] = "attached"
    /\ job[e] = "completed"
    /\ row[e] = "success"
    /\ Advance(e, "settled")
    /\ Finalize(e)
    /\ UNCHANGED <<row, starts, job, owner, stops, abort, worker, recovery>>

\* job.finished() resolves: the row is read, and the entry finalized with it.
JobCompleted(e) ==
    /\ caller[e] = "attached"
    /\ job[e] = "completed"
    /\ Advance(e, "settled")
    /\ Finalize(e)
    /\ UNCHANGED <<row, starts, job, owner, stops, abort, worker, recovery>>

\* job.finished() rejects: processError, up to its read of the row.  It returns
\* without finalizing the entry when the execution has succeeded.
JobFailed(e) ==
    /\ caller[e] = "attached"
    /\ job[e] = "failed"
    /\ Advance(e, IF row[e] = "success" THEN "abandoned" ELSE "failing")
    /\ UNCHANGED <<row, starts, job, owner, registered, stops, abort, worker, recovery>>

\* processError behind its read: the entry is finalized and the row saved as failed.
SaveError(e) ==
    /\ caller[e] = "failing"
    /\ SaveRow(e, "error")
    /\ Advance(e, "settled")
    /\ Finalize(e)
    /\ UNCHANGED <<starts, job, owner, stops, abort, worker, recovery>>

-----------------------------------------------------------------------------
(* Stopping: ExecutionService.stop on any main process *)

\* assertStoppable, and stopExecution if this process has an entry: its promise is
\* rejected, and the wait for the job cancelled if it has begun.
StopRequested(m, e) ==
    /\ row[e] \in InProgress
    /\ stops' = stops \union {<<m, e>>}
    /\ \/ /\ owner[e] = m /\ e \in registered
          /\ Finalize(e)
          /\ IF caller[e] = "attached" THEN Advance(e, "cancelling") ELSE UNCHANGED caller
       \/ /\ ~ (owner[e] = m /\ e \in registered)
          /\ UNCHANGED <<registered, caller>>
    /\ UNCHANGED <<row, starts, job, owner, abort, worker, recovery>>

\* stopDuringRun
StopWritten(m, e) ==
    /\ <<m, e>> \in stops
    /\ stops' = stops \ {<<m, e>>}
    /\ SaveRow(e, "canceled")
    /\ UNCHANGED <<starts, job, owner, registered, caller, abort, worker, recovery>>

\* stopJob: an active job is aborted, any other removed.
StopJob(e) ==
    /\ caller[e] = "cancelling"
    /\ \/ /\ job[e] = "active"
          /\ abort' = abort \union {e}
          /\ Advance(e, "aborting")
       \/ /\ job[e] # "active"
          /\ Advance(e, "removing")
          /\ UNCHANGED abort
    /\ UNCHANGED <<row, starts, job, owner, registered, stops, worker, recovery>>

\* job.moveToFailed or job.remove.  Their errors are caught; a locked job is not removed.
StopJobDone(e) ==
    /\ \/ /\ caller[e] = "aborting"
          /\ IF job[e] = "active" THEN MoveJob(e, "failed") ELSE UNCHANGED job
       \/ /\ caller[e] = "removing"
          /\ IF job[e] = "waiting" THEN MoveJob(e, "gone") ELSE UNCHANGED job
    /\ Advance(e, "settled")
    /\ UNCHANGED <<row, starts, owner, registered, stops, abort, worker, recovery>>

-----------------------------------------------------------------------------
(* The workers: JobProcessor.processJob *)

At(w, step) == worker[w].step = step
Go(w, step) == worker' = [worker EXCEPT ![w].step = step]
Drop(w) == worker' = [worker EXCEPT ![w] = Idle]

\* The job is over for Bull, unless something else has ended it before.
EndJob(e, state) == IF job[e] = "active" THEN MoveJob(e, state) ELSE UNCHANGED job

Dequeue(w, e) ==
    /\ worker[w] = Idle
    /\ job[e] = "waiting"
    /\ MoveJob(e, "active")
    /\ worker' = [worker EXCEPT ![w] = [exec |-> e, step |-> "taken"]]
    /\ UNCHANGED <<row, starts, owner, registered, caller, stops, abort, recovery>>

\* The read of the row: an execution that has crashed is refused.
ReadExecution(w) ==
    /\ At(w, "taken")
    /\ \/ /\ row[worker[w].exec] = "crashed"
          /\ EndJob(worker[w].exec, "completed")
          /\ Drop(w)
       \/ /\ row[worker[w].exec] # "crashed"
          /\ Go(w, "read")
          /\ UNCHANGED job
    /\ UNCHANGED <<row, starts, owner, registered, caller, stops, abort, recovery>>

SetRunning(w) ==
    /\ At(w, "read")
    /\ SaveRow(worker[w].exec, "running")
    /\ Go(w, "marked")
    /\ UNCHANGED <<starts, job, owner, registered, caller, stops, abort, recovery>>

\* The job is in runningJobs from here on.
StartEngine(w) ==
    /\ At(w, "marked")
    /\ starts' = [starts EXCEPT ![worker[w].exec] = @ + 1]
    /\ Go(w, "running")
    /\ UNCHANGED <<row, job, owner, registered, caller, stops, abort, recovery>>

\* The workflow has issues: the row is saved as failed and the job completes.
HasIssues(w) ==
    /\ At(w, "marked")
    /\ SaveRow(worker[w].exec, "error")
    /\ EndJob(worker[w].exec, "completed")
    /\ Drop(w)
    /\ UNCHANGED <<starts, owner, registered, caller, stops, abort, recovery>>

\* A query fails or does not find the workflow: reportJobProcessingError.
ProcessingFails(w) ==
    /\ worker[w].step \in {"taken", "read", "marked", "saved"}
    /\ EndJob(worker[w].exec, "failed")
    /\ Drop(w)
    /\ UNCHANGED <<row, starts, owner, registered, caller, stops, abort, recovery>>

\* JobProcessor.stopJob: no effect on a worker that has not registered the job, or
\* does not any more.
AbortReceived(e) ==
    /\ e \in abort
    /\ abort' = abort \ {e}
    /\ worker' = [w \in Workers |->
                    IF worker[w] = [exec |-> e, step |-> "running"]
                    THEN [worker[w] EXCEPT !.step = "aborted"] ELSE worker[w]]
    /\ UNCHANGED <<row, starts, job, owner, registered, caller, stops, recovery>>

EngineEnds_NotAwaited(w) ==
    /\ At(w, "running")
    /\ Go(w, "saved")
    /\ UNCHANGED <<row, starts, job, owner, registered, caller, stops, abort, recovery>>

\* The engine ends; the hook workflowExecuteAfter saves the row, whatever it says.
EngineEnds(w) ==
    /\ \/ At(w, "running") /\ \E s \in {"success", "error"} : SaveRow(worker[w].exec, s)
       \/ At(w, "aborted") /\ SaveRow(worker[w].exec, "canceled")
    /\ Go(w, "saved")
    /\ UNCHANGED <<starts, job, owner, registered, caller, stops, abort, recovery>>

\* job-finished is sent and processJob returns.
ReportFinished(w) ==
    /\ At(w, "saved")
    /\ EndJob(worker[w].exec, "completed")
    /\ Drop(w)
    /\ UNCHANGED <<row, starts, owner, registered, caller, stops, abort, recovery>>

\* The worker ends, by a crash or by stopWorker(), which waits for runningJobs only; it
\* is started again with nothing.
WorkerEnds(w) ==
    /\ worker[w] # Idle
    /\ Drop(w)
    /\ UNCHANGED <<row, starts, job, owner, registered, caller, stops, abort, recovery>>

Stalled_Retried(e) ==
    /\ job[e] = "active"
    /\ MoveJob(e, "waiting")
    /\ UNCHANGED <<row, starts, owner, registered, caller, stops, abort, worker, recovery>>

\* Bull finds the lock of an active job expired and, as maxStalledCount is 0, fails it.
\* The lock of a worker that is alive but blocked expires as well.
Stalled(e) ==
    /\ job[e] = "active"
    /\ MoveJob(e, "failed")
    /\ UNCHANGED <<row, starts, owner, registered, caller, stops, abort, worker, recovery>>

-----------------------------------------------------------------------------
(* Queue recovery, and the end of a main process *)

SetRecovery(m, context) == recovery' = [recovery EXCEPT ![m] = context]
RecoveryOnly == UNCHANGED <<row, starts, job, owner, registered, caller, stops, abort, worker>>

\* scheduleQueueRecovery by setupQueue or 'leader-takeover'.  Chains of a process count as one.
ScheduleQueueRecovery(m) ==
    /\ recovery[m].step = "off"
    /\ SetRecovery(m, Scheduled)
    /\ RecoveryOnly

\* stopQueueRecovery: a check under way goes on, and schedules the next.
StopQueueRecovery(m) ==
    /\ recovery[m].step = "scheduled"
    /\ SetRecovery(m, Off)
    /\ RecoveryOnly

\* getInProgressExecutionIds: a batch of the executions in progress, here any of them.
ReadStored(m) ==
    /\ recovery[m].step = "scheduled"
    /\ \E ids \in SUBSET {e \in Executions : row[e] \in InProgress} :
        /\ ids # {}
        /\ SetRecovery(m, [step |-> "stored", ids |-> ids])
    /\ RecoveryOnly

\* findJobsByStatus: those without a job are dangling.
ReadJobs(m) ==
    /\ recovery[m].step = "stored"
    /\ LET dangling == {e \in recovery[m].ids : job[e] \notin Queued} IN
        SetRecovery(m, IF dangling = {} THEN Scheduled
                       ELSE [step |-> "dangling", ids |-> dangling])
    /\ RecoveryOnly

MarkAsCrashed_Skipped(m) ==
    /\ recovery[m].step = "dangling"
    /\ SetRecovery(m, Scheduled)
    /\ RecoveryOnly

\* markAsCrashed: whatever the rows say by now.
MarkAsCrashed(m) ==
    /\ recovery[m].step = "dangling"
    /\ row' = [e \in Executions |-> IF e \in recovery[m].ids THEN "crashed" ELSE row[e]]
    /\ SetRecovery(m, Scheduled)
    /\ UNCHANGED <<starts, job, owner, registered, caller, stops, abort, worker>>

\* A query fails: the check is given up and the next one scheduled.
RecoveryFails(m) ==
    /\ recovery[m].step \in {"stored", "dangling"}
    /\ SetRecovery(m, Scheduled)
    /\ RecoveryOnly

\* A main process ends with everything it has under way.
MainEnds(m) ==
    /\ caller' = [e \in Executions |->
                    IF owner[e] = m /\ caller[e] # "none" THEN "dead" ELSE caller[e]]
    /\ registered' = {e \in registered : owner[e] # m}
    /\ stops' = {s \in stops : s[1] # m}
    /\ SetRecovery(m, Off)
    /\ UNCHANGED <<row, starts, job, owner, abort, worker>>

Next ==
    \/ \E e \in Executions :
        \/ Create(e) \/ NotEnqueued(e) \/ AddJob(e) \/ BeforeHook(e)
        \/ JobCompleted(e) \/ JobFailed(e) \/ SaveError(e)
        \/ StopJob(e) \/ StopJobDone(e) \/ AbortReceived(e) \/ Stalled(e)
        \/ \E m \in Mains : StopRequested(m, e) \/ StopWritten(m, e)
        \/ \E w \in Workers : Dequeue(w, e)
    \/ \E w \in Workers :
        \/ ReadExecution(w) \/ SetRunning(w) \/ StartEngine(w) \/ HasIssues(w)
        \/ ProcessingFails(w) \/ EngineEnds(w) \/ ReportFinished(w) \/ WorkerEnds(w)
    \/ \E m \in Mains :
        \/ ScheduleQueueRecovery(m) \/ StopQueueRecovery(m) \/ ReadStored(m) \/ ReadJobs(m)
        \/ MarkAsCrashed(m) \/ RecoveryFails(m) \/ MainEnds(m)

Spec == Init /\ [][Next]_vars

Held(e) == \E w \in Workers : worker[w].exec = e

\* Waiting jobs are taken by a worker that can, jobs are processed, engines end, Bull
\* checks for stalled jobs and says what has become of a job; timers fire, and the
\* database does not fail for ever.
Fairness ==
    /\ \A e \in Executions :
        /\ WF_vars(\/ NotEnqueued(e) \/ AddJob(e) \/ BeforeHook(e)
                   \/ JobCompleted(e) \/ JobFailed(e) \/ SaveError(e))
        /\ WF_vars(\E w \in Workers : Dequeue(w, e))
        /\ WF_vars(~ Held(e) /\ Stalled(e))
    /\ \A w \in Workers :
        WF_vars(\/ ReadExecution(w) \/ SetRunning(w) \/ StartEngine(w) \/ HasIssues(w)
                \/ ProcessingFails(w) \/ EngineEnds(w) \/ ReportFinished(w))
    /\ \A m \in Mains :
        /\ WF_vars(ReadStored(m)) /\ SF_vars(ReadJobs(m)) /\ SF_vars(MarkAsCrashed(m))

FairSpec == Spec /\ Fairness

-----------------------------------------------------------------------------
(* Properties *)

\* Workers end at any moment, a job is declared stalled while its worker still runs it,
\* main processes end and come back, and executions are stopped: through all of it, no
\* execution is run twice (scaling.service.ts, maxStalledCount: 0; job-processor.ts).
RunAtMostOnce == \A e \in Executions : starts[e] <= 1

\* The main process that waits for a job takes the row as its result, without looking at
\* its status (workflow-runner.ts, after job.finished()): when the job has
\* completed, the row is in a final state, and stays in one, whoever writes it last.
CompletedIsSaved == \A e \in Executions : job[e] = "completed" => row[e] \in Final

\* As long as some main process keeps its queue recovery, no execution stays in progress
\* for ever: wherever a main process or a worker ended, whichever abort or stop was
\* lost, it is finished, failed, stopped or marked as crashed.
EveryExecutionEnds ==
    (\E m \in Mains : <>[](recovery[m].step # "off"))
        => \A e \in Executions : row[e] \in InProgress ~> row[e] \in Final

\* A webhook or a parent execution waits for the promise of the entry: on every path the
\* entry is finalized, or its promise rejected, but for the one where processError
\* finds that the execution of a job declared failed has succeeded ("false positive").
EntryIsRemoved == \A e \in Executions :
    e \in registered ~> (e \notin registered \/ caller[e] = "abandoned")
=============================================================================
