---------------------------- MODULE WaitTracker -----------------------------
(***************************************************************************)
(* The wait tracker of every main process, over the leadership events of   *)
(* module Leadership: a poll of the database arms a timer for each         *)
(* execution that waits and is due soon; a timer that fires resumes its    *)
(* execution.  Executions are also resumed by webhooks, and stopped.  The  *)
(* rows of the executions are shared by all processes.                     *)
(*                                                                         *)
(* The engines that run an execution, on a main process or on a worker,    *)
(* are modelled by what they write to its row, always without a condition: *)
(* setRunning at the start, the result when the run ends, and the result   *)
(* again after hookFunctionsSave has merged sub-executions into it.        *)
(***************************************************************************)
EXTENDS Leadership, Naturals

CONSTANTS
    Executions,
    NoEntry,     \* no entry in waitingExecutions
    Merged,      \* executions that may find sub-executions to merge when saved
    MaxWaits,    \* bound: how often an execution is put to wait
    Stoppable,   \* bound: the processes that end, in order or by a crash
    WebhookMains, \* bound: the processes that receive webhooks
    StopMains    \* bound: the processes asked to stop an execution

ASSUME WaitAssumption ==
    /\ MaxWaits \in Nat
    /\ Merged \subseteq Executions
    /\ Stoppable \subseteq Mains
    /\ WebhookMains \union StopMains \subseteq Mains

VARIABLES
    row,         \* the executions in the database: status, and the wait in waitTill (0: none)
    waits,       \* how many waits of each execution have begun; they are numbered
    passed,      \* the waits whose waitTill has passed
    resumed,     \* how often each execution was resumed from each of its waits
    engines,     \* the engines that run, or save, an execution
    stops,       \* the calls of ExecutionService.stop under way
    mainTimer,   \* the interval mainTimer refers to: none yet, live, or cleared
    leaked,      \* whether an interval runs that mainTimer no longer refers to
    entries,     \* waitingExecutions: the wait a timer was set for, and whether it runs
    polls,       \* the answers of polls that the process has not handled
    calls        \* the resumptions under way, between their read and their write

rowVars == <<row, waits, passed, resumed, engines>>
trackerVars == <<mainTimer, leaked, entries, polls, calls>>
vars == <<leaderVars, rowVars, stops, trackerVars>>

Waits == 1..MaxWaits
\* "canceled" stands for every end other than success.
Final == {"success", "canceled"}
Statuses == {"running", "waiting"} \union Final
Rows == {r \in [status : Statuses, wait : 0..MaxWaits] : r.status = "waiting" => r.wait # 0}
Entries == [wait : Waits, armed : BOOLEAN] \union {NoEntry}
Found == SUBSET (Executions \X Waits)

\* startExecution or executeWebhook; equal calls under way count as one.
Calls == [main : Mains, exec : Executions, by : {"timer", "webhook"}]

\* An engine: the nth that was started from wait `from` of the execution, and, while it
\* merges sub-executions, what it has saved and will save again.
Engines == [exec : Executions, from : 0..MaxWaits, nth : 0..2,
            pc : {"starting", "running", "merging"}, save : Statuses, wait : 0..MaxWaits]

FirstEngine(e) == [exec |-> e, from |-> 0, nth |-> 0, pc |-> "running",
                   save |-> "running", wait |-> 0]

\* stop() has read the row; "write": it has dropped the entry as well.
Stops == [main : Mains, exec : Executions, pc : {"read", "write"}]

TypeOK ==
    /\ LTypeOK
    /\ row \in [Executions -> Rows]
    /\ waits \in [Executions -> 0..MaxWaits]
    /\ passed \in Found
    /\ resumed \in [Executions -> [Waits -> 0..2]]
    /\ engines \in SUBSET Engines
    /\ stops \in SUBSET Stops
    /\ mainTimer \in [Mains -> {"none", "live", "cleared"}]
    /\ leaked \in [Mains -> BOOLEAN]
    /\ entries \in [Mains -> [Executions -> Entries]]
    /\ polls \in [Mains -> SUBSET Found]
    /\ calls \in SUBSET Calls

Init ==
    /\ LInit
    /\ row = [e \in Executions |-> [status |-> "running", wait |-> 0]]
    /\ waits = [e \in Executions |-> 0]
    /\ passed = {}
    /\ resumed = [e \in Executions |-> [w \in Waits |-> 0]]
    /\ engines = {FirstEngine(e) : e \in Executions}
    /\ stops = {}
    /\ mainTimer = [m \in Mains |-> "none"]
    /\ leaked = [m \in Mains |-> FALSE]
    /\ entries = [m \in Mains |-> [e \in Executions |-> NoEntry]]
    /\ polls = [m \in Mains |-> {}]
    /\ calls = {}

Waiting(e) == row[e].status = "waiting"
Polling(m) == mainTimer[m] = "live" \/ leaked[m]

-----------------------------------------------------------------------------
(* Leadership: WaitTracker.init and the event handlers *)

HasWaitTill(e) == row[e].wait # 0

Query_OnlyUpcoming(found) ==
    found \subseteq {<<e, row[e].wait>> :
                        e \in {x \in Executions : HasWaitTill(x) /\ <<x, row[x].wait>> \notin passed}}

\* The query of getWaitingExecutions, by waitTill and whatever the status: all waits
\* that have passed, and those that will within 70 seconds.
Query(found) ==
    /\ found \subseteq {<<e, row[e].wait>> : e \in {x \in Executions : HasWaitTill(x)}}
    /\ \A e \in Executions :
        HasWaitTill(e) /\ <<e, row[e].wait>> \in passed => <<e, row[e].wait>> \in found

\* getWaitingExecutions() up to the answer of the database; it ignores an empty one.
Poll(m) == \E found \in Found :
    /\ Query(found)
    /\ polls' = [polls EXCEPT ![m] = @ \union ({found} \ {{}})]

\* startTracking(): a new interval, whether or not one runs, and a poll at once.
StartTracking(m) ==
    /\ leaked' = [leaked EXCEPT ![m] = @ \/ mainTimer[m] = "live"]
    /\ mainTimer' = [mainTimer EXCEPT ![m] = "live"]
    /\ Poll(m)
    /\ UNCHANGED <<entries, calls>>

\* stopTracking(): timers are cleared, their entries stay.
StopTracking(m) ==
    \/ /\ mainTimer[m] = "none"
       /\ UNCHANGED trackerVars
    \/ /\ mainTimer[m] # "none"
       /\ mainTimer' = [mainTimer EXCEPT ![m] = "cleared"]
       /\ entries' = [entries EXCEPT ![m] = [e \in Executions |->
                        IF @[e] = NoEntry THEN NoEntry ELSE [@[e] EXCEPT !.armed = FALSE]]]
       /\ UNCHANGED <<leaked, polls, calls>>

\* Steps of the process that the wait tracker has no part in.
Uninvolved(m) ==
    /\ LStart(m) \/ LRegister(m) \/ LDemote(m)
    /\ UNCHANGED <<rowVars, stops, trackerVars>>

\* WaitTracker.init
InitTracker(m) ==
    /\ LInitTracker(m)
    /\ IF role[m] = "leader" THEN StartTracking(m) ELSE UNCHANGED trackerVars
    /\ UNCHANGED <<rowVars, stops>>

\* The events reach the wait tracker once its handlers are registered.
Takeover(m) ==
    /\ LTakeover(m)
    /\ IF phase[m] \in Registered THEN StartTracking(m) ELSE UNCHANGED trackerVars
    /\ UNCHANGED <<rowVars, stops>>

Stepdown(m) ==
    /\ LStepdown(m)
    /\ IF phase[m] \in Registered THEN StopTracking(m) ELSE UNCHANGED trackerVars
    /\ UNCHANGED <<rowVars, stops>>

StopProcess(m) ==
    /\ m \in Stoppable
    /\ LStopProcess(m)
    /\ StopTracking(m)
    /\ UNCHANGED <<rowVars, stops>>

\* Timers, entries, calls and stops are lost with the process.
Exit(m) ==
    /\ m \in Stoppable
    /\ LExit(m)
    /\ mainTimer' = [mainTimer EXCEPT ![m] = "none"]
    /\ leaked' = [leaked EXCEPT ![m] = FALSE]
    /\ entries' = [entries EXCEPT ![m] = [e \in Executions |-> NoEntry]]
    /\ polls' = [polls EXCEPT ![m] = {}]
    /\ calls' = {c \in calls : c.main # m}
    /\ stops' = {x \in stops : x.main # m}
    /\ UNCHANGED rowVars

-----------------------------------------------------------------------------
(* Polls and timers *)

\* An interval elapses.
PollTick(m) ==
    /\ Polling(m)
    /\ Poll(m)
    /\ UNCHANGED <<leaderVars, rowVars, stops, mainTimer, leaked, entries, calls>>

\* getWaitingExecutions() behind its await: a timer for each execution without an entry.
PollHandled(m) == \E found \in polls[m] :
    /\ polls' = [polls EXCEPT ![m] = @ \ {found}]
    /\ entries' = [entries EXCEPT ![m] = [e \in Executions |->
            IF @[e] = NoEntry /\ \E w \in Waits : <<e, w>> \in found
            THEN [wait |-> CHOOSE w \in Waits : <<e, w>> \in found, armed |-> TRUE]
            ELSE @[e]]]
    /\ UNCHANGED <<leaderVars, rowVars, stops, mainTimer, leaked, calls>>

NewCall(m, e, by) == [main |-> m, exec |-> e, by |-> by]

\* startExecution() reads the row and refuses one that has succeeded.
Starts(m, e) == IF row[e].status = "success" THEN {} ELSE {NewCall(m, e, "timer")}

\* A timer fires: startExecution() up to the answer of findSingleExecution.
TimerFires(m, e) ==
    /\ entries[m][e] # NoEntry
    /\ entries[m][e].armed
    /\ <<e, entries[m][e].wait>> \in passed
    /\ entries' = [entries EXCEPT ![m][e] = NoEntry]
    /\ calls' = calls \union Starts(m, e)
    /\ UNCHANGED <<leaderVars, rowVars, stops, mainTimer, leaked, polls>>

\* executeWebhook() reads the row and refuses an execution that does not wait.
WebhookCalled(m, e) ==
    /\ m \in WebhookMains
    /\ phase[m] \in Registered
    /\ Waiting(e)
    /\ calls' = calls \union {NewCall(m, e, "webhook")}
    /\ UNCHANGED <<leaderVars, rowVars, stops, mainTimer, leaked, entries, polls>>

\* A resumption of execution e from wait w: its engine is still to start.
Resume(e, w) ==
    /\ row' = [row EXCEPT ![e] = [status |-> "running", wait |-> 0]]
    /\ resumed' = [resumed EXCEPT ![e][w] = @ + 1]
    /\ engines' = engines \union {[exec |-> e, from |-> w, nth |-> resumed[e][w] + 1,
                                  pc |-> "starting", save |-> "running", wait |-> 0]}

ResumeWrite_NoRequireStatus(c) ==
    /\ waits[c.exec] # 0
    /\ calls' = calls \ {c}
    /\ Resume(c.exec, waits[c.exec])
    /\ UNCHANGED <<leaderVars, waits, passed, stops, mainTimer, leaked, entries, polls>>

\* WorkflowRunner.run and ActiveExecutions.add: the row is updated if it is
\* 'waiting'; otherwise ExecutionAlreadyResumingError is swallowed.
ResumeWrite(c) ==
    /\ calls' = calls \ {c}
    /\ IF Waiting(c.exec) THEN Resume(c.exec, row[c.exec].wait)
                          ELSE UNCHANGED <<row, resumed, engines>>
    /\ UNCHANGED <<leaderVars, waits, passed, stops, mainTimer, leaked, entries, polls>>

-----------------------------------------------------------------------------
(* ExecutionService.stop, answered by m *)

\* It reads the row and asserts that the execution can be stopped; of the calls a
\* process answers for an execution, one at a time is modelled.
StopRead(m, e) ==
    /\ m \in StopMains
    /\ phase[m] \in Registered
    /\ \A x \in stops : <<x.main, x.exec>> # <<m, e>>
    /\ row[e].status \in {"running", "waiting"}
    /\ stops' = stops \union {[main |-> m, exec |-> e, pc |-> "read"]}
    /\ UNCHANGED <<leaderVars, rowVars, trackerVars>>

\* Only the wait tracker of its own process drops the entry.
StopEntry(x) ==
    /\ x.pc = "read"
    /\ entries' = [entries EXCEPT ![x.main][x.exec] = NoEntry]
    /\ stops' = (stops \ {x}) \union {[x EXCEPT !.pc = "write"]}
    /\ UNCHANGED <<leaderVars, rowVars, mainTimer, leaked, polls, calls>>

\* stopDuringRun, whatever the row says by then.
StopWrite(x) ==
    /\ x.pc = "write"
    /\ row' = [row EXCEPT ![x.exec] = [status |-> "canceled", wait |-> 0]]
    /\ stops' = stops \ {x}
    /\ UNCHANGED <<leaderVars, waits, passed, resumed, engines, trackerVars>>

-----------------------------------------------------------------------------
(* The engines, as far as the row shows them, and time *)

\* setRunning, at the start of a resumed run, leaves waitTill alone.
SetRunning(g) ==
    /\ g.pc = "starting"
    /\ row' = [row EXCEPT ![g.exec].status = "running"]
    /\ engines' = (engines \ {g}) \union {[g EXCEPT !.pc = "running"]}
    /\ UNCHANGED <<leaderVars, waits, passed, resumed, stops, trackerVars>>

\* The row that a save leaves: only a run that waits sets waitTill.
Saved(r, s, w) == [status |-> s, wait |-> IF s = "waiting" THEN w ELSE r.wait]

\* What a run can end with; putExecutionToWait begins a new wait.
Ends(e) == Final \union {s \in {"waiting"} : waits[e] < MaxWaits}

\* The run ends, and its workflowExecuteAfter hook saves it (hookFunctionsSave,
\* hookFunctionsSaveWorker), the engine being gone or about to merge sub-executions.
Save(g) == \E s \in Ends(g.exec) :
    LET e == g.exec
        w == IF s = "waiting" THEN waits[e] + 1 ELSE 0
    IN
    /\ g.pc = "running"
    /\ row' = [row EXCEPT ![e] = Saved(@, s, w)]
    /\ waits' = [waits EXCEPT ![e] = IF s = "waiting" THEN w ELSE @]
    /\ \/ engines' = engines \ {g}
       \/ /\ e \in Merged
          /\ engines' = (engines \ {g})
                \union {[g EXCEPT !.pc = "merging", !.save = s, !.wait = w]}
    /\ UNCHANGED <<leaderVars, passed, resumed, stops, trackerVars>>

\* hookFunctionsSave writes the same a second time.
SaveAgain(g) ==
    /\ g.pc = "merging"
    /\ row' = [row EXCEPT ![g.exec] = Saved(@, g.save, g.wait)]
    /\ engines' = engines \ {g}
    /\ UNCHANGED <<leaderVars, waits, passed, resumed, stops, trackerVars>>

\* The process or worker that runs the engine ends.
LoseEngine(g) ==
    /\ engines' = engines \ {g}
    /\ UNCHANGED <<leaderVars, row, waits, passed, resumed, stops, trackerVars>>

\* The waitTill of a wait that has begun passes, in whatever order they do.
TimePasses(e, w) ==
    /\ w <= waits[e]
    /\ <<e, w>> \notin passed
    /\ passed' = passed \union {<<e, w>>}
    /\ UNCHANGED <<leaderVars, row, waits, resumed, engines, stops, trackerVars>>

Next ==
    \/ \E m \in Mains :
        \/ Uninvolved(m) \/ InitTracker(m) \/ Takeover(m) \/ Stepdown(m)
        \/ StopProcess(m) \/ Exit(m)
        \/ PollTick(m) \/ PollHandled(m)
        \/ \E e \in Executions : TimerFires(m, e) \/ WebhookCalled(m, e) \/ StopRead(m, e)
    \/ \E c \in calls : ResumeWrite(c)
    \/ \E x \in stops : StopEntry(x) \/ StopWrite(x)
    \/ \E g \in engines : SetRunning(g) \/ Save(g) \/ SaveAgain(g) \/ LoseEngine(g)
    \/ \E e \in Executions, w \in Waits : TimePasses(e, w)

Spec == Init /\ [][Next]_vars

\* Intervals and timers fire, the database answers, time passes.
Fairness ==
    /\ \A m \in Mains :
        /\ WF_vars(PollTick(m))
        /\ WF_vars(PollHandled(m))
        /\ \A e \in Executions : WF_vars(TimerFires(m, e))
    /\ \A c \in Calls : WF_vars(c \in calls /\ ResumeWrite(c))
    /\ \A x \in Stops : WF_vars(x \in stops /\ (StopEntry(x) \/ StopWrite(x)))
    /\ \A e \in Executions, w \in Waits : WF_vars(TimePasses(e, w))

FairSpec == Spec /\ Fairness

-----------------------------------------------------------------------------
(* Properties *)

\* Several processes may track the same execution at once (a leader that has not
\* noticed its loss, a poll in flight at the stepdown, a silent demotion), a webhook may
\* come at the same time, and timers and calls may outlive the wait they were made for:
\* an execution is resumed at most once for each time 'waiting' is written to its row,
\* once a wait, or twice if hookFunctionsSave merges sub-executions and saves it again
\* (active-executions.ts, requireStatus).
OneResumptionPerWait == \A e \in Executions, w \in Waits :
    resumed[e][w] <= (IF e \in Merged THEN 2 ELSE 1)

\* The row says how the execution ended, and no engine or stop has still to write it.
Ended(e) ==
    /\ row[e].status \in Final
    /\ \A g \in engines : g.exec # e
    /\ \A x \in stops : x.exec # e

\* A poll, a timer or a call that survives the end of its execution, on whichever
\* process, never brings it back.
EndedStaysEnded ==
    [][\A e \in Executions : Ended(e) => Ended(e)' /\ row'[e] = row[e]]_vars

\* The entry of an execution whose timer was cleared by stopTracking().
Stale(m, e) == entries[m][e] # NoEntry /\ ~ entries[m][e].armed

\* As long as some process polls, and holds no stale entry for the execution, an
\* execution that waits is resumed or stopped, whatever the other processes do.
TrackedIsResumed == \A e \in Executions, w \in Waits :
    (\E m \in Mains : <>[](Polling(m) /\ ~ Stale(m, e)))
        => [](row[e] = [status |-> "waiting", wait |-> w]
                => <>(row[e] # [status |-> "waiting", wait |-> w]))
=============================================================================
