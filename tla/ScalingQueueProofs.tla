------------------------- MODULE ScalingQueueProofs -------------------------
(***************************************************************************)
(* Proofs, for any number of main processes, workers and executions, that  *)
(* an execution is run at most once, and that the row of a completed job   *)
(* is in a final state.  Both rest on the fact that a job is handed out    *)
(* once: no other worker holds an execution while one does.                *)
(***************************************************************************)
EXTENDS ScalingQueue, TLAPS

Holds(w, e) == worker[w].exec = e
NotHeld(e) == \A w \in Workers : ~ Holds(w, e)

\* An execution and its job: there is none before addJob, nobody has touched it until it is
\* dequeued, and nobody holds it any more once it has completed.
ExecutionOK(e) ==
    /\ caller[e] \in {"none", "created"} => job[e] = "none"
    /\ job[e] \in {"none", "waiting"} => starts[e] = 0 /\ NotHeld(e)
    /\ job[e] = "completed" => row[e] \in Final /\ NotHeld(e)
    /\ starts[e] <= 1

\* A worker and the execution it holds.
WorkerOK(w) ==
    /\ worker[w].step \in {"taken", "read", "marked"} => starts[worker[w].exec] = 0
    /\ worker[w].step = "saved" => row[worker[w].exec] \in Final

OneHolder == \A e \in Executions : \A v, w \in Workers : Holds(v, e) /\ Holds(w, e) => v = w

\* The inductive invariant.
IInv ==
    /\ TypeOK
    /\ \A e \in Executions : ExecutionOK(e)
    /\ \A w \in Workers : WorkerOK(w)
    /\ OneHolder

-----------------------------------------------------------------------------

\* A worker that is not idle holds an execution.
LEMMA WorkerType ==
    ASSUME TypeOK, NEW w \in Workers
    PROVE  /\ worker[w].step \in Processing \union {"idle"}
           /\ worker[w].step \in Processing =>
                worker[w].exec \in Executions /\ worker[w] \in [exec : Executions, step : Processing]
           /\ worker[w].step = "idle" => worker[w] = Idle
           /\ worker[w].exec \in Executions => worker[w].step \in Processing
<1>1. worker[w] \in [exec : Executions, step : Processing] \/ worker[w] = Idle
  BY DEF TypeOK, Idle
<1> QED
  BY <1>1, ScalingAssumption DEF Processing, Idle

\* Steps that neither concern a worker nor bring a job back to the queue.
LEMMA MainStep ==
    ASSUME IInv, TypeOK', UNCHANGED <<starts, worker>>,
           \A e \in Executions :
              /\ \/ job'[e] = job[e]
                 \/ job[e] = "none" /\ job'[e] = "waiting"
                 \/ job'[e] \in {"failed", "gone"}
              /\ caller'[e] \in {"none", "created"} => job'[e] = "none"
              /\ row'[e] = row[e] \/ row'[e] \in Final \/ job[e] = "none"
    PROVE  IInv'
<1>1. ASSUME NEW e \in Executions PROVE ExecutionOK(e)'
  <2>1. ExecutionOK(e)
    BY DEF IInv
  <2>2. NotHeld(e)' <=> NotHeld(e)
    BY DEF NotHeld, Holds
  <2> QED
    BY <2>1, <2>2 DEF ExecutionOK
<1>2. ASSUME NEW w \in Workers PROVE WorkerOK(w)'
  <2>1. WorkerOK(w) /\ TypeOK
    BY DEF IInv
  <2>2. ASSUME worker[w].step = "saved" PROVE row'[worker[w].exec] \in Final
    <3>1. worker[w].exec \in Executions
      BY <2>1, <2>2, WorkerType DEF Processing
    <3>2. job[worker[w].exec] # "none"
      BY <3>1 DEF IInv, ExecutionOK, NotHeld, Holds
    <3> QED
      BY <2>1, <2>2, <3>1, <3>2 DEF WorkerOK
  <2> QED
    BY <2>1, <2>2 DEF WorkerOK
<1>3. OneHolder'
  BY DEF IInv, OneHolder, Holds
<1> QED
  BY <1>1, <1>2, <1>3 DEF IInv

\* A step of a worker with the execution it holds, which it keeps or drops.
LEMMA WorkerStep ==
    ASSUME IInv, TypeOK', NEW w \in Workers, NEW e \in Executions, Holds(w, e),
           UNCHANGED caller,
           \A v \in Workers \ {w} : worker'[v] = worker[v],
           worker'[w] = Idle \/ worker'[w].exec = e,
           \A x \in Executions \ {e} :
              job'[x] = job[x] /\ row'[x] = row[x] /\ starts'[x] = starts[x],
           job'[e] = job[e] \/ job'[e] = "failed"
             \/ (job'[e] = "completed" /\ row'[e] \in Final /\ worker'[w] = Idle),
           starts'[e] <= 1,
           worker'[w].step \in {"taken", "read", "marked"} => starts'[e] = 0,
           worker'[w].step = "saved" => row'[e] \in Final
    PROVE  IInv'
<1>1. /\ TypeOK /\ OneHolder
      /\ \A x \in Executions : ExecutionOK(x)
      /\ \A v \in Workers : WorkerOK(v)
  BY DEF IInv
<1>2. job[e] \notin {"none", "waiting", "completed"}
  BY <1>1 DEF ExecutionOK, NotHeld
<1>3. Idle.exec \notin Executions /\ Idle.step = "idle"
  BY ScalingAssumption DEF Idle
<1>4. \A v \in Workers \ {w} : ~ Holds(v, e)
  BY <1>1 DEF OneHolder
<1>5. \A x \in Executions : \A v \in Workers : Holds(v, x)' => Holds(v, x)
  BY <1>3 DEF Holds
<1>6. ASSUME NEW x \in Executions PROVE ExecutionOK(x)'
  <2>1. NotHeld(x) => NotHeld(x)'
    BY <1>5 DEF NotHeld
  <2>2. CASE x = e
    <3>1. ASSUME worker'[w] = Idle PROVE NotHeld(e)'
      BY <1>3, <1>4, <1>5, <3>1 DEF NotHeld, Holds
    <3> QED
      BY <1>1, <1>2, <2>2, <3>1 DEF ExecutionOK
  <2>3. CASE x # e
    BY <1>1, <2>1, <2>3 DEF ExecutionOK
  <2> QED
    BY <2>2, <2>3
<1>7. ASSUME NEW v \in Workers PROVE WorkerOK(v)'
  <2>1. CASE v = w
    BY <1>3, <2>1 DEF WorkerOK
  <2>2. CASE v # w
    <3>1. worker'[v] = worker[v] /\ WorkerOK(v)
      BY <1>1, <2>2
    <3>2. worker[v].exec # e
      BY <1>4, <2>2 DEF Holds
    <3>3. worker[v].step \in {"taken", "read", "marked", "saved"}
            => worker[v].exec \in Executions
      BY <1>1, WorkerType DEF Processing
    <3> QED
      BY <3>1, <3>2, <3>3 DEF WorkerOK
  <2> QED
    BY <2>1, <2>2
<1>8. OneHolder'
  BY <1>1, <1>5 DEF OneHolder
<1> QED
  BY <1>6, <1>7, <1>8 DEF IInv

-----------------------------------------------------------------------------
(* The main processes *)

\* Shapes of the steps of the execution's owner.
LEMMA OwnerInv ==
    ASSUME IInv, NEW e \in Executions,
           \/ Create(e) \/ NotEnqueued(e) \/ AddJob(e) \/ BeforeHook(e)
           \/ JobCompleted(e) \/ JobFailed(e) \/ SaveError(e)
    PROVE  IInv'
<1>1. TypeOK /\ \A x \in Executions : ExecutionOK(x)
  BY DEF IInv
<1> USE DEF Advance, SaveRow, MoveJob, Finalize
<1>2. UNCHANGED <<starts, owner, stops, abort, worker, recovery>>
  BY DEF Create, NotEnqueued, AddJob, BeforeHook, JobCompleted, JobFailed, SaveError
<1>3. /\ row' \in [Executions -> InProgress \union Final \union {"none"}]
      /\ \A x \in Executions : row'[x] = row[x] \/ row'[x] \in Final \/ job[x] = "none"
  BY <1>1 DEF Create, NotEnqueued, AddJob, BeforeHook, JobCompleted, JobFailed, SaveError,
     TypeOK, InProgress, Final, ExecutionOK
<1>4. job' \in [Executions -> Queued \union {"none", "completed", "failed", "gone"}]
  BY <1>1 DEF Create, NotEnqueued, AddJob, BeforeHook, JobCompleted, JobFailed, SaveError,
     TypeOK, Queued
<1>5. /\ caller' \in [Executions -> Callers]
      /\ registered' \in SUBSET Executions
  BY <1>1 DEF Create, NotEnqueued, AddJob, BeforeHook, JobCompleted, JobFailed, SaveError,
     TypeOK, Callers
<1>6. \A x \in Executions :
        /\ job'[x] = job[x] \/ (job[x] = "none" /\ job'[x] = "waiting")
        /\ caller'[x] \in {"none", "created"} => job'[x] = "none"
  BY <1>1 DEF Create, NotEnqueued, AddJob, BeforeHook, JobCompleted, JobFailed, SaveError,
     TypeOK, ExecutionOK
<1>7. TypeOK'
  BY <1>1, <1>2, <1>3, <1>4, <1>5 DEF TypeOK
<1> QED
  BY <1>2, <1>3, <1>6, <1>7, MainStep

\* Stops, on any main process, and what has become of a job in the meantime.
LEMMA StopInv ==
    ASSUME IInv, NEW e \in Executions,
           \/ StopJob(e) \/ StopJobDone(e) \/ Stalled(e)
           \/ \E m \in Mains : StopRequested(m, e) \/ StopWritten(m, e)
    PROVE  IInv'
<1>1. TypeOK /\ \A x \in Executions : ExecutionOK(x)
  BY DEF IInv
<1> USE DEF Advance, SaveRow, MoveJob, Finalize
<1>2. UNCHANGED <<starts, owner, worker, recovery>>
  BY DEF StopJob, StopJobDone, Stalled, StopRequested, StopWritten
<1>3. /\ row' \in [Executions -> InProgress \union Final \union {"none"}]
      /\ \A x \in Executions : row'[x] = row[x] \/ row'[x] \in Final
  BY <1>1 DEF StopJob, StopJobDone, Stalled, StopRequested, StopWritten, TypeOK, Final
<1>4. /\ job' \in [Executions -> Queued \union {"none", "completed", "failed", "gone"}]
      /\ \A x \in Executions : job'[x] = job[x]
            \/ (job[x] \in Queued /\ job'[x] \in {"failed", "gone"})
  BY <1>1 DEF StopJob, StopJobDone, Stalled, StopRequested, StopWritten, TypeOK, Queued
<1>5. /\ caller' \in [Executions -> Callers]
      /\ \A x \in Executions : caller'[x] = caller[x] \/ caller'[x] \notin {"none", "created"}
  BY <1>1 DEF StopJob, StopJobDone, Stalled, StopRequested, StopWritten, TypeOK, Callers
<1>6. /\ registered' \in SUBSET Executions
      /\ abort' \in SUBSET Executions
      /\ stops' \in SUBSET (Mains \X Executions)
  <2>1. registered' \in SUBSET Executions /\ abort' \in SUBSET Executions
    BY <1>1 DEF StopJob, StopJobDone, Stalled, StopRequested, StopWritten, TypeOK
  <2>2. stops' \subseteq stops \/ \E m \in Mains : stops' = stops \union {<<m, e>>}
    BY DEF StopJob, StopJobDone, Stalled, StopRequested, StopWritten
  <2>3. \A m \in Mains : <<m, e>> \in Mains \X Executions
    OBVIOUS
  <2> QED
    BY <1>1, <2>1, <2>2, <2>3 DEF TypeOK
<1>7. TypeOK'
  BY <1>1, <1>2, <1>3, <1>4, <1>5, <1>6 DEF TypeOK
<1>8. \A x \in Executions : caller'[x] \in {"none", "created"} => job'[x] = "none"
  BY <1>1, <1>4, <1>5 DEF ExecutionOK, Queued
<1> QED
  BY <1>2, <1>3, <1>4, <1>7, <1>8, MainStep

\* Queue recovery, and the end of a main process.
LEMMA RecoveryInv ==
    ASSUME IInv, NEW m \in Mains,
           \/ ScheduleQueueRecovery(m) \/ StopQueueRecovery(m) \/ ReadStored(m) \/ ReadJobs(m)
           \/ MarkAsCrashed(m) \/ RecoveryFails(m) \/ MainEnds(m)
    PROVE  IInv'
<1>1. TypeOK /\ \A x \in Executions : ExecutionOK(x)
  BY DEF IInv
<1> USE DEF SetRecovery, RecoveryOnly
<1>2. UNCHANGED <<starts, owner, job, abort, worker>>
  BY DEF ScheduleQueueRecovery, StopQueueRecovery, ReadStored, ReadJobs, MarkAsCrashed,
     RecoveryFails, MainEnds
<1>3. /\ row' \in [Executions -> InProgress \union Final \union {"none"}]
      /\ \A x \in Executions : row'[x] = row[x] \/ row'[x] \in Final
  BY <1>1 DEF ScheduleQueueRecovery, StopQueueRecovery, ReadStored, ReadJobs, MarkAsCrashed,
     RecoveryFails, MainEnds, TypeOK, Final
<1>4. /\ caller' \in [Executions -> Callers]
      /\ \A x \in Executions : caller'[x] = caller[x] \/ caller'[x] = "dead"
      /\ registered' \in SUBSET Executions
      /\ stops' \in SUBSET (Mains \X Executions)
  BY <1>1 DEF ScheduleQueueRecovery, StopQueueRecovery, ReadStored, ReadJobs, MarkAsCrashed,
     RecoveryFails, MainEnds, TypeOK, Callers
<1>5. recovery' \in [Mains -> Contexts]
  <2>1. Off \in Contexts /\ Scheduled \in Contexts
    BY DEF Off, Scheduled, Contexts
  <2>2. \A ids \in SUBSET Executions : [step |-> "stored", ids |-> ids] \in Contexts
    BY DEF Contexts
  <2>3. \A ids \in SUBSET Executions : [step |-> "dangling", ids |-> ids] \in Contexts
    BY DEF Contexts
  <2>4. recovery \in [Mains -> Contexts] /\ recovery[m].ids \in SUBSET Executions
    BY <1>1 DEF TypeOK, Contexts
  <2>5. CASE ReadStored(m)
    BY <2>2, <2>4, <2>5 DEF ReadStored
  <2>6. CASE ReadJobs(m)
    <3>1. {x \in recovery[m].ids : job[x] \notin Queued} \in SUBSET Executions
      BY <2>4
    <3> QED
      BY <2>1, <2>3, <2>4, <2>6, <3>1 DEF ReadJobs
  <2>7. CASE \/ ScheduleQueueRecovery(m) \/ StopQueueRecovery(m)
             \/ MarkAsCrashed(m) \/ RecoveryFails(m) \/ MainEnds(m)
    BY <2>1, <2>4, <2>7
    DEF ScheduleQueueRecovery, StopQueueRecovery, MarkAsCrashed, RecoveryFails, MainEnds
  <2> QED
    BY <2>5, <2>6, <2>7
<1>6. TypeOK'
  BY <1>1, <1>2, <1>3, <1>4, <1>5 DEF TypeOK
<1>7. \A x \in Executions : caller'[x] \in {"none", "created"} => job'[x] = "none"
  BY <1>1, <1>2, <1>4 DEF ExecutionOK
<1> QED
  BY <1>2, <1>3, <1>6, <1>7, MainStep

-----------------------------------------------------------------------------
(* The workers *)

\* A job that waits has not been handed out before.
LEMMA DequeueInv ==
    ASSUME IInv, NEW w \in Workers, NEW e \in Executions, Dequeue(w, e)
    PROVE  IInv'
<1>1. /\ TypeOK /\ OneHolder
      /\ \A x \in Executions : ExecutionOK(x)
      /\ \A v \in Workers : WorkerOK(v)
  BY DEF IInv
<1>2. /\ job[e] = "waiting" /\ job' = [job EXCEPT ![e] = "active"]
      /\ worker' = [worker EXCEPT ![w] = [exec |-> e, step |-> "taken"]]
      /\ UNCHANGED <<row, starts, owner, registered, caller, stops, abort, recovery>>
  BY DEF Dequeue, MoveJob
<1>3. /\ worker'[w] = [exec |-> e, step |-> "taken"]
      /\ \A v \in Workers \ {w} : worker'[v] = worker[v]
      /\ job'[e] = "active" /\ \A x \in Executions \ {e} : job'[x] = job[x]
  BY <1>1, <1>2 DEF TypeOK
<1>4. starts[e] = 0 /\ NotHeld(e) /\ caller[e] \notin {"none", "created"}
  BY <1>1, <1>2 DEF ExecutionOK
<1>5. TypeOK'
  <2>1. [exec |-> e, step |-> "taken"] \in [exec : Executions, step : Processing]
    BY DEF Processing
  <2>2. worker' \in [Workers -> [exec : Executions, step : Processing]
                                \union {[exec |-> NoJob, step |-> "idle"]}]
    BY <1>1, <1>2, <2>1 DEF TypeOK
  <2>3. job' \in [Executions -> Queued \union {"none", "completed", "failed", "gone"}]
    BY <1>1, <1>2 DEF TypeOK, Queued
  <2> QED
    BY <1>1, <1>2, <2>2, <2>3 DEF TypeOK
<1>6. ASSUME NEW x \in Executions PROVE ExecutionOK(x)'
  <2>1. x # e => (NotHeld(x) => NotHeld(x)')
    BY <1>3 DEF NotHeld, Holds
  <2> QED
    BY <1>1, <1>2, <1>3, <1>4, <2>1 DEF ExecutionOK
<1>7. ASSUME NEW v \in Workers PROVE WorkerOK(v)'
  BY <1>1, <1>2, <1>3, <1>4 DEF WorkerOK
<1>8. OneHolder'
  BY <1>1, <1>3, <1>4 DEF OneHolder, NotHeld, Holds
<1> QED
  BY <1>5, <1>6, <1>7, <1>8 DEF IInv

\* The worker drops its execution, or goes on with it.
LEMMA DropOrGo ==
    ASSUME TypeOK, NEW w \in Workers, worker[w].step \in Processing
    PROVE  /\ Drop(w) => /\ worker'[w] = Idle
                         /\ \A v \in Workers \ {w} : worker'[v] = worker[v]
                         /\ worker' \in [Workers -> [exec : Executions, step : Processing]
                                            \union {[exec |-> NoJob, step |-> "idle"]}]
           /\ \A p \in Processing : Go(w, p) =>
                /\ worker'[w] = [exec |-> worker[w].exec, step |-> p]
                /\ \A v \in Workers \ {w} : worker'[v] = worker[v]
                /\ worker' \in [Workers -> [exec : Executions, step : Processing]
                                   \union {[exec |-> NoJob, step |-> "idle"]}]
<1>1. worker[w] \in [exec : Executions, step : Processing]
  BY WorkerType
<1>2. ASSUME Drop(w)
      PROVE  /\ worker'[w] = Idle
             /\ \A v \in Workers \ {w} : worker'[v] = worker[v]
             /\ worker' \in [Workers -> [exec : Executions, step : Processing]
                                \union {[exec |-> NoJob, step |-> "idle"]}]
  BY <1>2 DEF Drop, Idle, TypeOK
<1>3. ASSUME NEW p \in Processing, Go(w, p)
      PROVE  /\ worker'[w] = [exec |-> worker[w].exec, step |-> p]
             /\ \A v \in Workers \ {w} : worker'[v] = worker[v]
             /\ worker' \in [Workers -> [exec : Executions, step : Processing]
                                \union {[exec |-> NoJob, step |-> "idle"]}]
  <2>1. [worker[w] EXCEPT !.step = p] = [exec |-> worker[w].exec, step |-> p]
    BY <1>1
  <2>2. [exec |-> worker[w].exec, step |-> p] \in [exec : Executions, step : Processing]
    BY <1>1
  <2>3. worker' = [worker EXCEPT ![w] = [exec |-> worker[w].exec, step |-> p]]
    BY <1>3, <2>1 DEF Go, TypeOK
  <2> QED
    BY <2>2, <2>3 DEF TypeOK
<1> QED
  BY <1>2, <1>3

LEMMA ProcessInv ==
    ASSUME IInv, NEW w \in Workers,
           \/ ReadExecution(w) \/ SetRunning(w) \/ StartEngine(w) \/ HasIssues(w)
           \/ ProcessingFails(w) \/ EngineEnds(w) \/ ReportFinished(w)
    PROVE  IInv'
<1> DEFINE e == worker[w].exec
<1>1. /\ TypeOK /\ OneHolder
      /\ \A x \in Executions : ExecutionOK(x)
      /\ WorkerOK(w)
  BY DEF IInv
<1>2. worker[w].step \in Processing
  BY DEF ReadExecution, SetRunning, StartEngine, HasIssues, ProcessingFails, EngineEnds,
     ReportFinished, At, Processing
<1>3. e \in Executions /\ Holds(w, e)
  BY <1>1, <1>2, WorkerType DEF Holds
<1>4. starts[e] \in Nat /\ starts[e] <= 1
  BY <1>1, <1>3 DEF ExecutionOK, TypeOK
<1>5. UNCHANGED <<owner, registered, caller, stops, abort, recovery>>
  BY DEF ReadExecution, SetRunning, StartEngine, HasIssues, ProcessingFails, EngineEnds,
     ReportFinished
<1>6. /\ row' \in [Executions -> InProgress \union Final \union {"none"}]
      /\ starts' \in [Executions -> Nat]
      /\ job' \in [Executions -> Queued \union {"none", "completed", "failed", "gone"}]
      /\ \A x \in Executions \ {e} :
            job'[x] = job[x] /\ row'[x] = row[x] /\ starts'[x] = starts[x]
  BY <1>1, <1>3
  DEF ReadExecution, SetRunning, StartEngine, HasIssues, ProcessingFails, EngineEnds,
      ReportFinished, EndJob, MoveJob, SaveRow, TypeOK, InProgress, Final, Queued
<1>7. Idle.step = "idle"
  BY DEF Idle
<1> DEFINE Kept == /\ worker' \in [Workers -> [exec : Executions, step : Processing]
                                      \union {[exec |-> NoJob, step |-> "idle"]}]
                   /\ \A v \in Workers \ {w} : worker'[v] = worker[v]
           Goes(p) == Kept /\ worker'[w].exec = e /\ worker'[w].step = p
           Drops == Kept /\ worker'[w] = Idle
           JobEnds(p) == job'[e] = job[e] \/ job'[e] = p
<1>8. /\ Drop(w) => Drops
      /\ \A p \in Processing : Go(w, p) => Goes(p)
  <2>1. Drop(w) => Drops
    BY <1>1, <1>2, DropOrGo
  <2>2. ASSUME NEW p \in Processing, Go(w, p) PROVE Goes(p)
    <3>1. worker'[w] = [exec |-> worker[w].exec, step |-> p] /\ Kept
      BY <1>1, <1>2, <2>2, DropOrGo
    <3> QED
      BY <3>1
  <2> QED
    BY <2>1, <2>2
<1>9. \A p \in {"completed", "failed"} : EndJob(e, p) => JobEnds(p)
  BY <1>1, <1>3 DEF EndJob, MoveJob, TypeOK
<1>11. TypeOK' \/ ~ Kept
  BY <1>1, <1>5, <1>6 DEF TypeOK
<1> DEFINE Claim ==
      /\ Kept
      /\ worker'[w] = Idle \/ worker'[w].exec = e
      /\ job'[e] = job[e] \/ job'[e] = "failed"
           \/ (job'[e] = "completed" /\ row'[e] \in Final /\ worker'[w] = Idle)
      /\ starts'[e] <= 1
      /\ worker'[w].step \in {"taken", "read", "marked"} => starts'[e] = 0
      /\ worker'[w].step = "saved" => row'[e] \in Final
<1>12. ASSUME ReadExecution(w) PROVE Claim
  <2>1. starts' = starts /\ row' = row /\ worker[w].step = "taken" /\ starts[e] = 0
    BY <1>1, <1>12 DEF ReadExecution, At, WorkerOK
  <2>2. CASE row[e] = "crashed" /\ EndJob(e, "completed") /\ Drop(w)
    <3>1. Drops /\ JobEnds("completed") /\ row'[e] \in Final
      BY <1>8, <1>9, <2>1, <2>2 DEF Final
    <3> QED
      BY <1>4, <1>7, <2>1, <3>1
  <2>3. CASE Go(w, "read") /\ job' = job
    <3>1. Goes("read")
      BY <1>8, <2>3 DEF Processing
    <3> QED
      BY <2>1, <2>3, <3>1
  <2> QED
    BY <1>12, <2>2, <2>3 DEF ReadExecution
<1>13. ASSUME SetRunning(w) PROVE Claim
  <2>1. starts' = starts /\ job' = job /\ worker[w].step = "read" /\ starts[e] = 0
    BY <1>1, <1>13 DEF SetRunning, At, WorkerOK
  <2>2. Goes("marked")
    BY <1>8, <1>13 DEF SetRunning, Processing
  <2> QED
    BY <2>1, <2>2
<1>14. ASSUME StartEngine(w) PROVE Claim
  <2>1. starts[e] = 0 /\ job' = job /\ starts'[e] = 1
    BY <1>1, <1>3, <1>14 DEF StartEngine, At, WorkerOK, TypeOK
  <2>2. Goes("running")
    BY <1>8, <1>14 DEF StartEngine, Processing
  <2> QED
    BY <2>1, <2>2
<1>15. ASSUME HasIssues(w) PROVE Claim
  <2>1. starts' = starts /\ row'[e] \in Final
    BY <1>1, <1>3, <1>15 DEF HasIssues, SaveRow, Final, TypeOK
  <2>2. Drops /\ JobEnds("completed")
    BY <1>8, <1>9, <1>15 DEF HasIssues
  <2> QED
    BY <1>4, <1>7, <2>1, <2>2
<1>16. ASSUME ProcessingFails(w) PROVE Claim
  <2>1. starts' = starts
    BY <1>16 DEF ProcessingFails
  <2>2. Drops /\ JobEnds("failed")
    BY <1>8, <1>9, <1>16 DEF ProcessingFails
  <2> QED
    BY <1>4, <1>7, <2>1, <2>2
<1>17. ASSUME EngineEnds(w) PROVE Claim
  <2>1. starts' = starts /\ job' = job /\ row'[e] \in Final
    BY <1>1, <1>3, <1>17 DEF EngineEnds, SaveRow, Final, TypeOK
  <2>2. Goes("saved")
    BY <1>8, <1>17 DEF EngineEnds, Processing
  <2> QED
    BY <1>4, <2>1, <2>2
<1>18. ASSUME ReportFinished(w) PROVE Claim
  <2>1. starts' = starts /\ row' = row /\ row[e] \in Final
    BY <1>1, <1>18 DEF ReportFinished, At, WorkerOK
  <2>2. Drops /\ JobEnds("completed")
    BY <1>8, <1>9, <1>18 DEF ReportFinished
  <2> QED
    BY <1>4, <1>7, <2>1, <2>2
<1>19. Claim
  BY <1>12, <1>13, <1>14, <1>15, <1>16, <1>17, <1>18
<1>20. TypeOK'
  BY <1>11, <1>19
<1> HIDE DEF e
<1> QED
  BY <1>3, <1>5, <1>6, <1>19, <1>20, WorkerStep

LEMMA WorkerEndsInv ==
    ASSUME IInv, NEW w \in Workers, WorkerEnds(w)
    PROVE  IInv'
<1> DEFINE e == worker[w].exec
<1>1. TypeOK /\ \A x \in Executions : ExecutionOK(x)
  BY DEF IInv
<1>2. worker[w].step \in Processing /\ e \in Executions /\ Holds(w, e)
  BY <1>1, WorkerType DEF WorkerEnds, Holds
<1>3. UNCHANGED <<row, starts, job, owner, registered, caller, stops, abort, recovery>>
  BY DEF WorkerEnds
<1>4. /\ worker'[w] = Idle
      /\ \A v \in Workers \ {w} : worker'[v] = worker[v]
      /\ worker' \in [Workers -> [exec : Executions, step : Processing]
                         \union {[exec |-> NoJob, step |-> "idle"]}]
  BY <1>1, <1>2, DropOrGo DEF WorkerEnds
<1>5. TypeOK'
  BY <1>1, <1>3, <1>4 DEF TypeOK
<1>6. starts[e] <= 1 /\ Idle.step = "idle"
  BY <1>1, <1>2 DEF ExecutionOK, Idle
<1> HIDE DEF e
<1> QED
  BY <1>2, <1>3, <1>4, <1>5, <1>6, WorkerStep

\* An abort reaches every worker, and changes the step of the one that runs the execution.
LEMMA AbortInv ==
    ASSUME IInv, NEW e \in Executions, AbortReceived(e)
    PROVE  IInv'
<1>1. /\ TypeOK /\ OneHolder
      /\ \A x \in Executions : ExecutionOK(x)
      /\ \A v \in Workers : WorkerOK(v)
  BY DEF IInv
<1>2. /\ UNCHANGED <<row, starts, job, owner, registered, caller, stops, recovery>>
      /\ abort' \in SUBSET Executions
  BY <1>1 DEF AbortReceived, TypeOK
<1>3. ASSUME NEW w \in Workers
      PROVE  \/ worker'[w] = worker[w]
             \/ /\ worker[w] = [exec |-> e, step |-> "running"]
                /\ worker'[w] = [exec |-> e, step |-> "aborted"]
  BY DEF AbortReceived
<1>4. \A w \in Workers : worker'[w].exec = worker[w].exec
  BY <1>3
<1>5. TypeOK'
  <2>1. [exec |-> e, step |-> "aborted"] \in [exec : Executions, step : Processing]
    BY DEF Processing
  <2>2. DOMAIN worker' = Workers /\ worker' = [w \in Workers |-> worker'[w]]
    BY DEF AbortReceived
  <2>3. worker' \in [Workers -> [exec : Executions, step : Processing]
                        \union {[exec |-> NoJob, step |-> "idle"]}]
    BY <1>1, <1>3, <2>1, <2>2 DEF TypeOK
  <2> QED
    BY <1>1, <1>2, <2>3 DEF TypeOK
<1>6. \A x \in Executions : ExecutionOK(x)'
  BY <1>1, <1>2, <1>4 DEF ExecutionOK, NotHeld, Holds
<1>7. \A w \in Workers : WorkerOK(w)'
  BY <1>1, <1>2, <1>3 DEF WorkerOK
<1>8. OneHolder'
  BY <1>1, <1>4 DEF OneHolder, Holds
<1> QED
  BY <1>5, <1>6, <1>7, <1>8 DEF IInv

-----------------------------------------------------------------------------

LEMMA InitInv == Init => IInv
<1> SUFFICES ASSUME Init PROVE IInv
  OBVIOUS
<1>1. TypeOK
  <2>1. Off \in Contexts
    BY DEF Off, Contexts
  <2>2. recovery \in [Mains -> Contexts]
    BY <2>1 DEF Init
  <2>3. worker \in [Workers -> [exec : Executions, step : Processing]
                        \union {[exec |-> NoJob, step |-> "idle"]}]
    BY DEF Init, Idle
  <2> QED
    BY <2>2, <2>3 DEF Init, TypeOK, InProgress, Final, Queued, Callers
<1>2. \A w \in Workers : worker[w].exec \notin Executions /\ worker[w].step = "idle"
  BY ScalingAssumption DEF Init, Idle
<1>3. ASSUME NEW e \in Executions PROVE ExecutionOK(e)
  <2>1. job[e] = "none" /\ starts[e] = 0 /\ NotHeld(e)
    BY <1>2 DEF Init, NotHeld, Holds
  <2> QED
    BY <2>1 DEF ExecutionOK
<1>4. \A w \in Workers : WorkerOK(w)
  BY <1>2 DEF WorkerOK
<1>5. OneHolder
  BY <1>2 DEF OneHolder, Holds
<1> QED
  BY <1>1, <1>3, <1>4, <1>5 DEF IInv

LEMMA NextInv == IInv /\ [Next]_vars => IInv'
<1> SUFFICES ASSUME IInv, [Next]_vars PROVE IInv'
  OBVIOUS
<1>1. CASE UNCHANGED vars
  <2>1. TypeOK'
    BY <1>1 DEF IInv, TypeOK, vars
  <2>2. \A e \in Executions : caller[e] \in {"none", "created"} => job[e] = "none"
    BY DEF IInv, ExecutionOK
  <2> QED
    BY <1>1, <2>1, <2>2, MainStep DEF vars
<1>2. ASSUME NEW e \in Executions,
             \/ Create(e) \/ NotEnqueued(e) \/ AddJob(e) \/ BeforeHook(e)
             \/ JobCompleted(e) \/ JobFailed(e) \/ SaveError(e)
      PROVE  IInv'
  BY <1>2, OwnerInv
<1>3. ASSUME NEW e \in Executions,
             \/ StopJob(e) \/ StopJobDone(e) \/ Stalled(e)
             \/ \E m \in Mains : StopRequested(m, e) \/ StopWritten(m, e)
      PROVE  IInv'
  BY <1>3, StopInv
<1>4. ASSUME NEW e \in Executions, AbortReceived(e) \/ \E w \in Workers : Dequeue(w, e)
      PROVE  IInv'
  BY <1>4, AbortInv, DequeueInv
<1>5. ASSUME NEW w \in Workers,
             \/ ReadExecution(w) \/ SetRunning(w) \/ StartEngine(w) \/ HasIssues(w)
             \/ ProcessingFails(w) \/ EngineEnds(w) \/ ReportFinished(w) \/ WorkerEnds(w)
      PROVE  IInv'
  BY <1>5, ProcessInv, WorkerEndsInv
<1>6. ASSUME NEW m \in Mains,
             \/ ScheduleQueueRecovery(m) \/ StopQueueRecovery(m) \/ ReadStored(m)
             \/ ReadJobs(m) \/ MarkAsCrashed(m) \/ RecoveryFails(m) \/ MainEnds(m)
      PROVE  IInv'
  BY <1>6, RecoveryInv
<1> QED
  BY <1>1, <1>2, <1>3, <1>4, <1>5, <1>6 DEF Next

\* Whatever ends, stalls or is stopped, and however many workers and main processes there
\* are: an engine is started on an execution at most once (scaling.service.ts,
\* maxStalledCount: 0; job-processor.ts, processJob).
THEOREM NeverRunTwice == Spec => []RunAtMostOnce
<1>1. IInv => RunAtMostOnce
  BY DEF IInv, ExecutionOK, RunAtMostOnce
<1> QED
  BY <1>1, InitInv, NextInv, PTL DEF Spec

\* When a job has completed, the row the main process takes as its result is final, and no
\* worker, stop or recovery takes it back (workflow-runner.ts, after job.finished()).
THEOREM CompletedJobIsSaved == Spec => []CompletedIsSaved
<1>1. IInv => CompletedIsSaved
  BY DEF IInv, ExecutionOK, CompletedIsSaved
<1> QED
  BY <1>1, InitInv, NextInv, PTL DEF Spec

\* The variables have their types, for any number of processes and executions.
THEOREM TypeCorrect == Spec => []TypeOK
<1>1. IInv => TypeOK
  BY DEF IInv
<1> QED
  BY <1>1, InitInv, NextInv, PTL DEF Spec
=============================================================================
