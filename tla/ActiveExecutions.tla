-------------------------- MODULE ActiveExecutions --------------------------
(***************************************************************************)
(* Executions in one n8n main process in regular mode: the registry        *)
(* ActiveExecutions, WorkflowRunner.run and runMainProcess that drive it,  *)
(* ExecutionService.stop, shutdown, restart and the re-run of enqueued     *)
(* executions at startup, over the ConcurrencyControl service and the      *)
(* execution rows in the database.                                         *)
(*                                                                         *)
(* A call is one call of WorkflowRunner.run; its program counter has one   *)
(* value per await at which other handlers can run.  A database write and  *)
(* the continuation behind its await are separate steps wherever another   *)
(* handler could see the difference.  Starting a call models a webhook or  *)
(* trigger (new execution), the wait tracker or a waiting webhook (resume) *)
(* and Start.runEnqueuedExecutions.                                        *)
(***************************************************************************)
EXTENDS Integers, Sequences, FiniteSets

CONSTANTS
    Calls, Executions, ExecutionOf, ModeOf, ConfiguredLimit,
    None,
    NewCalls,     \* the calls without a restartExecutionId
    MayWait,      \* executions with a node that puts them to wait
    MayMerge,     \* executions that may find sub-executions to merge when saved
    MayStop,      \* executions some user stops
    MayShutDown   \* whether the process is shut down or crashes

VARIABLES
    isEnabled, capacity, queue, reservation,  \* of ConcurrencyControl
    db,                \* status column of the execution row; "none": no row
    run,               \* state of each call of WorkflowRunner.run
    activeExecutions,  \* per execution: the call that registered, or None
    stopping,          \* progress of ExecutionService.stop per execution
    phase,             \* of the process
    enqueued           \* executions runEnqueuedExecutions has still to start

CC == INSTANCE ConcurrencyControl WITH RegularMode <- TRUE

ASSUME NewCallsAssumption ==
    /\ CC!ConstantsAssumption
    /\ NewCalls \subseteq Calls
    /\ \A c, d \in NewCalls : ExecutionOf[c] = ExecutionOf[d] => c = d
    /\ MayWait \subseteq Executions /\ MayStop \subseteq Executions
    /\ MayMerge \subseteq Executions
    /\ MayShutDown \in BOOLEAN
    /\ None \notin Calls

ccVars == <<isEnabled, capacity, queue, reservation>>
vars == <<ccVars, db, run, activeExecutions, stopping, phase, enqueued>>

-----------------------------------------------------------------------------

(***************************************************************************)
(* pc: created - before reserve(); reserved - in or just after reserve();  *)
(* written - status written; registered - entry made, run() goes on;       *)
(* starting - second setRunning done; executing - the engine runs;         *)
(* saving - workflowExecuteAfter decided on a result, not yet written;     *)
(* saved - written, the .then handler still to come; denied - as saved, for *)
(* a run whose credentials check failed; failed - the engine did not start *)
(* and processError has still to save the error.  merging, denying and     *)
(* failing: before saved, denied and done, if sub-executions are merged    *)
(* into the execution and it is to be saved again.                         *)
(* boot: started by runEnqueuedExecutions.  attached: the .then handler is *)
(* registered.  engine: the workflowExecution of the entry.  cancel: a     *)
(* requested cancellation whose own save is still to come is "requested",  *)
(* and "merging" between its two saves.  late: a history variable, see     *)
(* Late.                                                                   *)
(***************************************************************************)
PCs == {"idle", "created", "reserved", "written", "registered", "starting",
        "executing", "saving", "merging", "saved", "denying", "denied", "failed",
        "failing", "done", "refused", "dead"}

Statuses == {"none", "new", "running", "waiting", "success", "error", "canceled"}

RunType == [pc : PCs, boot : BOOLEAN, attached : BOOLEAN,
            status : {"running", "waiting"}, promise : {"none", "pending", "settled"},
            engine : Calls \cup {None},
            cancel : {"none", "requested", "merging", "saved"},
            result : {"none", "waiting", "success", "error"}, late : BOOLEAN]

IdleRun == [pc |-> "idle", boot |-> FALSE, attached |-> FALSE, status |-> "running",
            promise |-> "none", engine |-> None, cancel |-> "none", result |-> "none",
            late |-> FALSE]

TypeOK ==
    /\ CC!TypeOK
    /\ db \in [Executions -> Statuses]
    /\ run \in [Calls -> RunType]
    /\ activeExecutions \in [Executions -> Calls \cup {None}]
    /\ stopping \in [Executions -> {"idle", "read", "write"}]
    /\ phase \in {"up", "draining", "stopped"}
    /\ enqueued \subseteq Executions

Init ==
    /\ CC!Init
    /\ db = [e \in Executions |-> "none"]
    /\ run = [c \in Calls |-> IdleRun]
    /\ activeExecutions = [e \in Executions |-> None]
    /\ stopping = [e \in Executions |-> "idle"]
    /\ phase = "up"
    /\ enqueued = {}

-----------------------------------------------------------------------------
(* Starting a call. *)

\* add() without an id: executionPersistence.create with status 'new'.
Create(c) ==
    /\ phase = "up" /\ c \in NewCalls /\ run[c].pc = "idle"
    /\ db[ExecutionOf[c]] = "none"
    /\ db' = [db EXCEPT ![ExecutionOf[c]] = "new"]
    /\ run' = [run EXCEPT ![c].pc = "created"]
    /\ UNCHANGED <<ccVars, activeExecutions, stopping, phase, enqueued>>

\* A due timer of the wait tracker or a waiting webhook found the execution
\* waiting and calls run() with its id.
BeginResume(c) ==
    /\ phase = "up" /\ c \notin NewCalls /\ run[c].pc = "idle"
    /\ db[ExecutionOf[c]] = "waiting"
    /\ run' = [run EXCEPT ![c].pc = "created"]
    /\ UNCHANGED <<ccVars, db, activeExecutions, stopping, phase, enqueued>>

\* Start.runEnqueuedExecutions calls run() with the id of an execution that
\* findAllEnqueuedExecutions found.
RunEnqueued(c) ==
    /\ phase = "up" /\ c \notin NewCalls /\ run[c].pc = "idle"
    /\ ExecutionOf[c] \in enqueued
    /\ enqueued' = enqueued \ {ExecutionOf[c]}
    /\ run' = [run EXCEPT ![c].pc = "created", ![c].boot = TRUE]
    /\ UNCHANGED <<ccVars, db, activeExecutions, stopping, phase>>

\* add(): capacityReservation.reserve().
Reserve(c) ==
    /\ run[c].pc = "created"
    /\ CC!Reserve(c)
    /\ run' = [run EXCEPT ![c].pc = "reserved"]
    /\ UNCHANGED <<db, activeExecutions, stopping, phase, enqueued>>

WriteStatus_NoRequireStatus(c) ==
    LET e == ExecutionOf[c] IN
    /\ run[c].pc = "reserved" /\ reservation[c] = "held"
    /\ db' = [db EXCEPT ![e] = "running"]
    /\ run' = [run EXCEPT ![c].pc = "written"]
    /\ UNCHANGED <<ccVars, activeExecutions, stopping, phase, enqueued>>

\* add(), once the reservation is acquired: setRunning for a new execution,
\* an update that requires status 'waiting' for an existing one.
WriteStatus(c) ==
    LET e == ExecutionOf[c] IN
    /\ run[c].pc = "reserved" /\ reservation[c] = "held"
    /\ c \in NewCalls \/ db[e] = "waiting"
    /\ db' = [db EXCEPT ![e] = "running"]
    /\ run' = [run EXCEPT ![c].pc = "written"]
    /\ UNCHANGED <<ccVars, activeExecutions, stopping, phase, enqueued>>

\* add(): the update matched no row; the reservation is released and
\* ExecutionAlreadyResumingError thrown.
RefuseResume(c) ==
    /\ run[c].pc = "reserved" /\ reservation[c] = "held"
    /\ c \notin NewCalls /\ db[ExecutionOf[c]] # "waiting"
    /\ CC!Release(c)
    /\ run' = [run EXCEPT ![c].pc = "refused"]
    /\ UNCHANGED <<db, activeExecutions, stopping, phase, enqueued>>

\* add(): the rest of the function, after the write.  The entry of an earlier
\* run of the same execution is overwritten.
Register(c) ==
    /\ run[c].pc = "written"
    /\ activeExecutions' = [activeExecutions EXCEPT ![ExecutionOf[c]] = c]
    /\ run' = [run EXCEPT ![c].pc = "registered", ![c].promise = "pending"]
    /\ UNCHANGED <<ccVars, db, stopping, phase, enqueued>>

-----------------------------------------------------------------------------
(* Running and ending. *)

(***************************************************************************)
(* hookFunctionsSave, the workflowExecuteAfter hook, has written the row:  *)
(* it is done, or it goes on to merge sub-executions into the execution    *)
(* and writes the same row a second time (SaveMerged, SaveCanceled).  No   *)
(* write of the hook has a condition.                                      *)
(***************************************************************************)
AfterSave(c, merge, done) == {done} \cup {m \in {merge} : ExecutionOf[c] \in MayMerge}

\* run(): the credentials check fails; the failed run is saved, and the
\* execution finalized after that (FinalizeExecution).
CredentialsDenied(c) ==
    /\ run[c].pc = "registered"
    /\ db' = [db EXCEPT ![ExecutionOf[c]] = "error"]
    /\ \E p \in AfterSave(c, "denying", "denied") :
          run' = [run EXCEPT ![c].pc = p, ![c].result = "error"]
    /\ UNCHANGED <<ccVars, activeExecutions, stopping, phase, enqueued>>

\* run(): attachResponsePromise throws if the entry is gone already.
RunRejected(c) ==
    /\ run[c].pc = "registered" /\ activeExecutions[ExecutionOf[c]] = None
    /\ run' = [run EXCEPT ![c].pc = "done"]
    /\ UNCHANGED <<ccVars, db, activeExecutions, stopping, phase, enqueued>>

\* runMainProcess() up to and including its setRunning.
SetRunning(c) ==
    /\ run[c].pc = "registered"
    /\ db' = [db EXCEPT ![ExecutionOf[c]] = "running"]
    /\ run' = [run EXCEPT ![c].pc = "starting"]
    /\ UNCHANGED <<ccVars, activeExecutions, stopping, phase, enqueued>>

\* runMainProcess(): processRunExecutionData starts the engine, then
\* attachWorkflowExecution, which throws if the entry is gone; processError
\* ignores that error, so that the engine runs on with no handler behind it.
Launch(c) ==
    LET d == activeExecutions[ExecutionOf[c]] IN
    /\ run[c].pc = "starting"
    /\ run' = IF d = None THEN [run EXCEPT ![c].pc = "executing"]
              ELSE [run EXCEPT ![c].pc = "executing", ![c].attached = TRUE,
                               ![d].engine = c]
    /\ UNCHANGED <<ccVars, db, activeExecutions, stopping, phase, enqueued>>

\* The mutant saves the row when the node asks for the wait, not when the run ends.
PutExecutionToWait_SavedAtOnce(c) ==
    /\ run[c].pc = "executing" /\ run[c].result = "none" /\ ExecutionOf[c] \in MayWait
    /\ db' = [db EXCEPT ![ExecutionOf[c]] = "waiting"]
    /\ run' = [run EXCEPT ![c].result = "waiting", ![c].status = "waiting"]
    /\ UNCHANGED <<ccVars, activeExecutions, stopping, phase, enqueued>>

\* A node calls putExecutionToWait: waitTill is set and setExecutionStatus
\* marks whatever entry the execution has now.
PutExecutionToWait(c) ==
    LET d == activeExecutions[ExecutionOf[c]] IN
    /\ run[c].pc = "executing" /\ run[c].result = "none" /\ run[c].cancel = "none"
    /\ ExecutionOf[c] \in MayWait /\ d # None
    /\ run' = [run EXCEPT ![c].result = "waiting", ![d].status = "waiting"]
    /\ UNCHANGED <<ccVars, db, activeExecutions, stopping, phase, enqueued>>

\* processSuccessExecution: the engine stops; a cancelled run skips the hook.
Finish(c) ==
    /\ run[c].pc = "executing"
    /\ \/ /\ run[c].cancel # "none"
          /\ run' = [run EXCEPT ![c].pc = "saved"]
       \/ /\ run[c].cancel = "none"
          /\ \E r \in IF run[c].result = "waiting" THEN {"waiting"}
                                                   ELSE {"success", "error"} :
                run' = [run EXCEPT ![c].pc = "saving", ![c].result = r]
    /\ UNCHANGED <<ccVars, db, activeExecutions, stopping, phase, enqueued>>

\* The workflowExecuteAfter hook writes the result, for the first time.
SaveResult(c) ==
    /\ run[c].pc \in {"saving", "failed"}
    /\ db' = [db EXCEPT ![ExecutionOf[c]] = run[c].result]
    /\ \E p \in IF run[c].pc = "saving" THEN AfterSave(c, "merging", "saved")
                                        ELSE AfterSave(c, "failing", "done") :
          run' = [run EXCEPT ![c].pc = p]
    /\ UNCHANGED <<ccVars, activeExecutions, stopping, phase, enqueued>>

\* The second write of the hook, once the sub-executions are read and merged,
\* whatever the row says by then.
SaveMerged(c) ==
    LET e == ExecutionOf[c] IN
    /\ run[c].pc \in {"merging", "denying", "failing"}
    /\ db' = [db EXCEPT ![e] = run[c].result]
    /\ run' = [run EXCEPT
          ![c].pc = CASE @ = "merging" -> "saved" [] @ = "denying" -> "denied" [] OTHER -> "done",
          ![c].late = @ \/ (run[c].result = "waiting" /\ db[e] # "waiting")]
    /\ UNCHANGED <<ccVars, activeExecutions, stopping, phase, enqueued>>

\* The workflowExecuteAfter hook that onCancel started: either write.
SaveCanceled(c) ==
    /\ run[c].cancel \in {"requested", "merging"} /\ run[c].pc # "dead"
    /\ db' = [db EXCEPT ![ExecutionOf[c]] = "canceled"]
    /\ \E s \in IF run[c].cancel = "requested" THEN AfterSave(c, "merging", "saved")
                                               ELSE {"saved"} :
          run' = [run EXCEPT ![c].cancel = s]
    /\ UNCHANGED <<ccVars, activeExecutions, stopping, phase, enqueued>>

(***************************************************************************)
(* The postExecutePromise of call d settles, in a state where the calls    *)
(* are r: its finally handler gives the reservation back and removes the   *)
(* entry of the execution, or keeps it if the status is 'waiting'.         *)
(***************************************************************************)
Settle_KeepsSlot(d, r) ==
    /\ UNCHANGED ccVars
    /\ run' = [r EXCEPT ![d].promise = "settled"]
    /\ activeExecutions' = [activeExecutions EXCEPT ![ExecutionOf[d]] = None]

Settle(d, r) ==
    IF r[d].promise = "pending"
    THEN /\ CC!Release(d)
         /\ IF r[d].status = "waiting"
            THEN /\ run' = [r EXCEPT ![d].promise = "settled", ![d].engine = None]
                 /\ UNCHANGED activeExecutions
            ELSE /\ run' = [r EXCEPT ![d].promise = "settled"]
                 /\ activeExecutions' =
                       [activeExecutions EXCEPT ![ExecutionOf[d]] = None]
    ELSE run' = r /\ UNCHANGED <<ccVars, activeExecutions>>

\* The mutant forgets the runs whose credentials check failed.
FinalizeExecution_NotDenied(c) ==
    LET d == activeExecutions[ExecutionOf[c]]
        r == [run EXCEPT ![c].pc = "done"]
    IN /\ run[c].pc = "saved"
       /\ IF d = None \/ ~run[c].attached
          THEN run' = r /\ UNCHANGED <<ccVars, activeExecutions>>
          ELSE Settle(d, r)
       /\ UNCHANGED <<db, stopping, phase, enqueued>>

\* finalizeExecution, by execution id, from the .then handler of
\* runMainProcess or after a failed credentials check.
FinalizeExecution(c) ==
    LET d == activeExecutions[ExecutionOf[c]]
        r == [run EXCEPT ![c].pc = "done"]
    IN /\ run[c].pc \in {"saved", "denied"}
       /\ IF d = None \/ (run[c].pc = "saved" /\ ~run[c].attached)
          THEN run' = r /\ UNCHANGED <<ccVars, activeExecutions>>
          ELSE Settle(d, r)
       /\ UNCHANGED <<db, stopping, phase, enqueued>>

\* runMainProcess(): the engine cannot be started (the workflow has issues).
\* processError finalizes the execution and saves the error after that.
LaunchFails(c) ==
    LET d == activeExecutions[ExecutionOf[c]]
        r == [run EXCEPT ![c].pc = "failed", ![c].result = "error"]
    IN /\ run[c].pc = "starting"
       /\ IF d = None THEN run' = r /\ UNCHANGED <<ccVars, activeExecutions>>
                      ELSE Settle(d, r)
       /\ UNCHANGED <<db, stopping, phase, enqueued>>

-----------------------------------------------------------------------------
(* Stopping. *)

\* The engine's promise can still be cancelled.
Cancellable(c) ==
    /\ run[c].pc \in {"executing", "saving", "merging", "saved"}
    /\ run[c].cancel = "none"

\* The mutant drops every entry as it does that of a waiting run.
StopExecution_NotSettled(e) ==
    /\ activeExecutions' = [activeExecutions EXCEPT ![e] = None]
    /\ UNCHANGED <<ccVars, run>>

\* ActiveExecutions.stopExecution.
StopExecution(e) ==
    LET d == activeExecutions[e] IN
    IF d = None THEN UNCHANGED <<ccVars, run, activeExecutions>>
    ELSE IF run[d].status = "waiting"
    THEN /\ activeExecutions' = [activeExecutions EXCEPT ![e] = None]
         /\ UNCHANGED <<ccVars, run>>
    ELSE LET w == run[d].engine IN
         Settle(d, IF w # None /\ Cancellable(w)
                   THEN [run EXCEPT ![w].cancel = "requested"] ELSE run)

\* The timer of runMainProcess; the .then handler clears it.
TimeoutExecution(c) ==
    /\ run[c].pc \in {"executing", "saving", "merging", "saved"} /\ run[c].attached
    /\ StopExecution(ExecutionOf[c])
    /\ UNCHANGED <<db, stopping, phase, enqueued>>

\* ExecutionService.stop reads the row and asserts that it can be stopped.
StopRead(e) ==
    /\ e \in MayStop /\ phase = "up" /\ stopping[e] = "idle"
    /\ db[e] \in {"new", "running", "waiting"}
    /\ stopping' = [stopping EXCEPT ![e] = "read"]
    /\ UNCHANGED <<ccVars, db, run, activeExecutions, phase, enqueued>>

\* stopInRegularMode up to its database update.
StopInRegularMode(e) ==
    /\ stopping[e] = "read"
    /\ IF CC!has(e) THEN CC!RemoveExecution(e) /\ UNCHANGED <<run, activeExecutions>>
                    ELSE StopExecution(e)
    /\ stopping' = [stopping EXCEPT ![e] = "write"]
    /\ UNCHANGED <<db, phase, enqueued>>

\* stopBeforeRun or stopDuringRun.
StopWrite(e) ==
    /\ stopping[e] = "write"
    /\ db' = [db EXCEPT ![e] = "canceled"]
    /\ stopping' = [stopping EXCEPT ![e] = "idle"]
    /\ UNCHANGED <<ccVars, run, activeExecutions, phase, enqueued>>

-----------------------------------------------------------------------------
(* Shutdown, crash and startup. *)

\* ActiveExecutions.shutdown() up to its polling loop: disable(), drop the
\* entries that wait, removeAll([]).
Shutdown ==
    /\ MayShutDown /\ phase = "up"
    /\ CC!Disable \/ (~isEnabled /\ UNCHANGED ccVars)
    /\ activeExecutions' = [e \in Executions |->
          IF activeExecutions[e] # None /\ run[activeExecutions[e]].status = "waiting"
          THEN None ELSE activeExecutions[e]]
    /\ phase' = "draining"
    /\ UNCHANGED <<db, run, stopping, enqueued>>

\* The polling loop finds no active execution.
Drained ==
    /\ phase = "draining" /\ \A e \in Executions : activeExecutions[e] = None
    /\ phase' = "stopped"
    /\ UNCHANGED <<ccVars, db, run, activeExecutions, stopping, enqueued>>

\* The process ends, whatever it was doing, and a new one starts;
\* runEnqueuedExecutions queries the executions with status 'new'.
Restart ==
    /\ MayShutDown
    /\ CC!Restart
    /\ run' = [c \in Calls |-> IF run[c].pc = "idle" THEN IdleRun
                               ELSE [IdleRun EXCEPT !.pc = "dead"]]
    /\ activeExecutions' = [e \in Executions |-> None]
    /\ stopping' = [e \in Executions |-> "idle"]
    /\ phase' = "up"
    /\ enqueued' = {e \in Executions : db[e] = "new"}
    /\ UNCHANGED db

Step(c) ==
    \/ Reserve(c) \/ WriteStatus(c) \/ RefuseResume(c) \/ Register(c)
    \/ CredentialsDenied(c) \/ RunRejected(c) \/ SetRunning(c) \/ Launch(c)
    \/ LaunchFails(c) \/ Finish(c) \/ SaveResult(c) \/ SaveMerged(c) \/ SaveCanceled(c)
    \/ FinalizeExecution(c)

Next ==
    \/ \E c \in Calls : \/ Create(c) \/ BeginResume(c) \/ RunEnqueued(c) \/ Step(c)
                        \/ PutExecutionToWait(c) \/ TimeoutExecution(c)
    \/ \E e \in Executions : StopRead(e) \/ StopInRegularMode(e) \/ StopWrite(e)
    \/ Shutdown \/ Drained \/ Restart

Spec == Init /\ [][Next]_vars

(***************************************************************************)
(* The event loop resumes every continuation, the database answers, and a  *)
(* running node ends (or is ended by the execution timeout).               *)
(***************************************************************************)
Fairness ==
    /\ \A c \in Calls : WF_vars(Step(c))
    /\ \A e \in Executions : WF_vars(StopInRegularMode(e) \/ StopWrite(e))
    /\ WF_vars(Drained)

FairSpec == Spec /\ Fairness

-----------------------------------------------------------------------------

\* The calls whose engine runs execution e in this process.
Engines(e) == {c \in Calls : /\ ExecutionOf[c] = e
                             /\ run[c].pc \in {"executing", "saving"}}

(***************************************************************************)
(* A second save of hookFunctionsSave has put 'waiting' over another       *)
(* status: the row of a resumption that is under way or over, or that of a *)
(* stopped execution.  What the conditional update of add() protects is    *)
(* lost from then on: it admits another resumption beside the first.  The  *)
(* properties that rest on it are stated for the other executions.         *)
(***************************************************************************)
Late(e) == \E c \in Calls : ExecutionOf[c] = e /\ run[c].late

(***************************************************************************)
(* An execution is never run by two engines at once, however its first     *)
(* run, its resumptions, stops and timeouts interleave ("Another process   *)
(* is already resuming this execution").                                   *)
(***************************************************************************)
OneEngine == \A e \in Executions : ~Late(e) => Cardinality(Engines(e)) <= 1

(***************************************************************************)
(* From registration until its postExecutePromise settles, and no longer,  *)
(* a call holds the slot it reserved; and an entry is not left behind by a *)
(* run that is over: a registered call whose promise has settled is kept   *)
(* only while its status is 'waiting'.                                     *)
(***************************************************************************)
SlotAndEntryFollowPromise ==
    /\ \A c \in Calls : (run[c].promise # "none" /\ run[c].pc # "dead") =>
          (run[c].promise = "pending" <=> reservation[c] = "held")
    /\ \A e \in Executions : LET d == activeExecutions[e] IN
          (d # None /\ run[d].promise = "settled") => run[d].status = "waiting"

(***************************************************************************)
(* While the row says 'waiting' no engine runs the execution: the          *)
(* condition under which add() resumes it and the wait tracker sets its    *)
(* timer holds only once the run that put it to wait has ended, whatever   *)
(* other resumptions, stops and timeouts are under way.                    *)
(***************************************************************************)
WaitingIsAtRest ==
    \A e \in Executions : (db[e] = "waiting" /\ ~Late(e)) => Engines(e) = {}

(***************************************************************************)
(* A promise is settled through the entry of its execution only, so that   *)
(* one whose entry is gone or was overwritten never settles and keeps its  *)
(* slot.  This happens to no run but one that a node has put to wait       *)
(* (stopExecution, add and shutdown() in the moment before it ends).       *)
(***************************************************************************)
OnlyWaitingRunsAreForgotten ==
    \A c \in Calls :
        (/\ run[c].promise = "pending" /\ activeExecutions[ExecutionOf[c]] # c
         /\ ~Late(ExecutionOf[c])) => run[c].status = "waiting"

(***************************************************************************)
(* finalizeExecution and the execution timer reach a promise through the   *)
(* id of the execution, and so may settle that of another run of it.  The  *)
(* end, the failed start or the timer of a run does this to a run still on *)
(* its way only if it had itself put the execution to wait: never a run    *)
(* that has succeeded, failed, been denied or been cancelled.              *)
(***************************************************************************)
OnWay(c) == run[c].pc \in {"registered", "starting", "executing", "saving"}

OnlyWaitersSettleOthers ==
    [][\A c, d \in Calls :
          (/\ c # d /\ ExecutionOf[c] = ExecutionOf[d] /\ ~Late(ExecutionOf[c])
           /\ OnWay(c) /\ run[c].promise = "pending" /\ run'[c].promise = "settled"
           /\ FinalizeExecution(d) \/ TimeoutExecution(d) \/ LaunchFails(d))
          => run[d].result = "waiting"]_vars

\* The promise of the call has no entry any more, the run having been put to wait.
Forgotten(c) == run[c].status = "waiting" /\ activeExecutions[ExecutionOf[c]] # c

(***************************************************************************)
(* Every slot comes back, whatever is stopped, times out, is denied, fails *)
(* or shuts down: in the end, as each call reserves once, none is held but *)
(* by a run that was put to wait and forgotten (which happens to no other, *)
(* OnlyWaitingRunsAreForgotten).                                           *)
(***************************************************************************)
SlotsComeBack ==
    <>[](\A c \in Calls :
            reservation[c] = "held" => Forgotten(c) \/ Late(ExecutionOf[c]))

-----------------------------------------------------------------------------
(* What comments of the code say, and the code does not do. *)

\* "start running any such executions concurrently up to the concurrency
\* limit": no execution re-run at startup is refused.
EnqueuedAreRerun == \A c \in Calls : run[c].boot => run[c].pc # "refused"
=============================================================================
