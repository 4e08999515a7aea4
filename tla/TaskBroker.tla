----------------------------- MODULE TaskBroker -----------------------------
(***************************************************************************)
(* The protocol by which a node's code is run outside the main process:    *)
(* the requester (TaskRequester in its local form), the TaskBroker, the    *)
(* task runners (TaskRunner of @n8n/task-runner) and the two FIFO          *)
(* websocket channels between the broker and each runner.                  *)
(*                                                                         *)
(* Requester and broker share a process and call each other synchronously, *)
(* so each action is one macrotask of that process or of a runner, with    *)
(* the microtasks behind it.  The n-th offer of runner r is <<r, n>>, and  *)
(* so is the task made from it, as an offer is accepted at most once.      *)
(* Timers may fire at any time while they are set.                         *)
(***************************************************************************)
EXTENDS Integers, Sequences, FiniteSets, SequencesExt

CONSTANTS
    Requests,        \* calls of startTask
    Runners,         \* runner ids; a restarted runner has a new id
    Launchers,       \* the runners that are a launcher, which defers tasks
    RequestType, RunnerType,  \* taskType of a request and of a runner
    maxConcurrency,
    MaxOffers,       \* bound on the offers one runner makes
    InternalMode,    \* taskRunnersConfig.mode = 'internal'
    None

ASSUME TaskBrokerAssumption ==
    /\ Launchers \subseteq Runners
    /\ maxConcurrency \in Nat \ {0} /\ MaxOffers \in Nat
    /\ InternalMode \in BOOLEAN
    /\ None \notin Requests

Offers == Runners \X (1..MaxOffers)
Tasks == Offers

VARIABLES
    (* the requester *)
    request,              \* what became of each startTask
    taskOf,               \* the task whose result a startTask awaits or awaited
    (* the broker *)
    isDraining,
    knownRunners,
    pendingTaskRequests,  \* sequence of requests; may repeat a request
    pendingTaskOffers,    \* sequence of offers
    acceptInProgress,     \* requests with that flag set
    requestTimer,         \* requests whose timeout is running
    accepting,            \* per offer: the request acceptOffer is matching it with
    tasks,                \* accepted and not finished, as the broker knows it
    taskTimer,            \* tasks whose timeout is running
    (* the runners *)
    process,              \* "new", "up" or "exited"
    canSendOffers,
    offersMade,           \* how many offers a runner has sent
    openOffers,
    runningTasks,         \* status of each task on its runner, "none" if absent
    (* the websockets *)
    toRunner, toBroker

requesterVars == <<request, taskOf>>
matchVars == <<pendingTaskRequests, pendingTaskOffers, acceptInProgress, accepting>>
brokerVars == <<isDraining, knownRunners, matchVars, requestTimer, tasks, taskTimer>>
runnerVars == <<process, canSendOffers, offersMade, openOffers, runningTasks>>
vars == <<requesterVars, brokerVars, runnerVars, toRunner, toBroker>>

Message(type, t) == [type |-> type, task |-> t]
NoTask(r) == <<r, 0>>

ToRunnerTypes == {"runnerregistered", "taskofferaccept", "tasksettings",
                  "taskcancel", "drain"}
ToBrokerTypes == {"taskoffer", "taskaccepted", "taskrejected", "taskdeferred",
                  "taskdone", "taskerror"}

\* Status of a task on its runner, and "none" where there is no TaskState.
TaskStatus == {"none", "waitingForSettings", "running", "aborting:cancelled",
               "aborting:timeout"}

TypeOK ==
    /\ request \in [Requests -> {"idle", "pending", "tasked", "done", "error",
                                 "expired", "cancelled"}]
    /\ taskOf \in [Requests -> Tasks \cup {None}]
    /\ isDraining \in BOOLEAN
    /\ knownRunners \subseteq Runners
    /\ pendingTaskRequests \in Seq(Requests)
    /\ pendingTaskOffers \in Seq(Offers)
    /\ acceptInProgress \subseteq Requests
    /\ requestTimer \subseteq Requests
    /\ accepting \in [Offers -> Requests \cup {None}]
    /\ tasks \subseteq Tasks /\ taskTimer \subseteq tasks
    /\ process \in [Runners -> {"new", "up", "exited"}]
    /\ canSendOffers \in [Runners -> BOOLEAN]
    /\ offersMade \in [Runners -> 0..MaxOffers]
    /\ openOffers \subseteq Offers
    /\ runningTasks \in [Tasks -> TaskStatus]
    /\ toRunner \in [Runners -> Seq([type : ToRunnerTypes,
                                     task : Runners \X (0..MaxOffers)])]
    /\ toBroker \in [Runners -> Seq([type : ToBrokerTypes, task : Tasks])]

Init ==
    /\ request = [q \in Requests |-> "idle"]
    /\ taskOf = [q \in Requests |-> None]
    /\ isDraining = FALSE
    /\ knownRunners = {}
    /\ pendingTaskRequests = <<>> /\ pendingTaskOffers = <<>>
    /\ acceptInProgress = {} /\ requestTimer = {}
    /\ accepting = [o \in Offers |-> None]
    /\ tasks = {} /\ taskTimer = {}
    /\ process = [r \in Runners |-> "new"]
    /\ canSendOffers = [r \in Runners |-> FALSE]
    /\ offersMade = [r \in Runners |-> 0]
    /\ openOffers = {}
    /\ runningTasks = [t \in Tasks |-> "none"]
    /\ toRunner = [r \in Runners |-> <<>>]
    /\ toBroker = [r \in Runners |-> <<>>]

-----------------------------------------------------------------------------
(* The broker: matching offers and requests. *)

\* messageRunner: nothing is sent to a runner that is not known; what is sent
\* to a process that has exited is lost.
SendToRunner(r, messages) ==
    IF r \in knownRunners /\ process[r] # "exited"
    THEN [toRunner EXCEPT ![r] = @ \o messages] ELSE toRunner

\* The mutant of the loop forgets to mark the request.
MatchStep_Unmarked(m, q) ==
    LET i == SelectInSeq(m.offers, LAMBDA o : RunnerType[o[1]] = RequestType[q]) IN
    IF q \in m.inProgress \/ i = 0 THEN m
    ELSE [m EXCEPT !.offers = RemoveAt(@, i), !.accepting[m.offers[i]] = q]

(***************************************************************************)
(* The loop of settleTasks over the requests, on what expireTasks left of  *)
(* the offers.  m.accepting is extended by each acceptOffer it starts.     *)
(***************************************************************************)
MatchStep(m, q) ==
    LET i == SelectInSeq(m.offers, LAMBDA o : RunnerType[o[1]] = RequestType[q]) IN
    IF q \in m.inProgress \/ i = 0 THEN m
    ELSE [offers |-> RemoveAt(m.offers, i),
          inProgress |-> m.inProgress \cup {q},
          accepting |-> [m.accepting EXCEPT ![m.offers[i]] = q]]

\* The state of the loop after all the requests.
MatchRequests(requests, start) ==
    LET m[i \in 0..Len(requests)] ==
          IF i = 0 THEN start ELSE MatchStep(m[i - 1], requests[i])
    IN m[Len(requests)]

\* The elements of s that are in S, in their order.
Keep(s, S) ==
    LET kept[i \in 0..Len(s)] ==
          IF i = 0 THEN <<>>
          ELSE IF s[i] \in S THEN Append(kept[i - 1], s[i]) ELSE kept[i - 1]
    IN kept[Len(s)]

\* expireTasks may find any offer expired but those of a launcher.
Expirable(offers) == {o \in ToSet(offers) : o[1] \notin Launchers}

\* settleTasks, with any of the offers that expire having expired by now.  The
\* synchronous part of acceptOffer sends broker:taskofferaccept.
settleTasks(requests, offers) ==
    \E expired \in SUBSET Expirable(offers) :
      LET valid == Keep(offers, Offers \ expired)
          m == MatchRequests(requests, [offers |-> valid, inProgress |-> acceptInProgress,
                                        accepting |-> accepting])
          matched(r) == Keep(valid, {o \in Offers : o[1] = r /\ m.accepting[o] # None})
      IN /\ pendingTaskRequests' = requests
         /\ pendingTaskOffers' = m.offers
         /\ acceptInProgress' = m.inProgress
         /\ accepting' = m.accepting
         /\ toRunner' = [r \in Runners |-> SendToRunner(r,
               [i \in DOMAIN matched(r) |->
                  Message("taskofferaccept", matched(r)[i])])[r]]

\* taskRequested, which refuses the request at once while the broker drains.
taskRequested(q) ==
    IF isDraining
    THEN /\ request' = [request EXCEPT ![q] = "expired"]
         /\ UNCHANGED <<matchVars, requestTimer, toRunner>>
    ELSE /\ request' = [request EXCEPT ![q] = "pending"]
         /\ requestTimer' = requestTimer \cup {q}
         /\ settleTasks(Append(pendingTaskRequests, q), pendingTaskOffers)

\* startTask up to its first await; taskReady and SettleTasksOf are the rest.
StartTask(q) ==
    /\ request[q] = "idle"
    /\ taskRequested(q)
    /\ UNCHANGED <<taskOf, isDraining, knownRunners, tasks, taskTimer, runnerVars,
                   toBroker>>

\* requestExpired, in the requester: only a request not yet accepted fails.
Expire(q) == [request EXCEPT ![q] = IF @ = "pending" THEN "expired" ELSE @]

\* The mutant spares a request that is being matched, as though its acceptance
\* were certain.
handleRequestTimeout_SparesMatched(q) ==
    /\ q \in requestTimer
    /\ requestTimer' = requestTimer \ {q}
    /\ IF q \in ToSet(pendingTaskRequests) \ acceptInProgress
       THEN /\ pendingTaskRequests' = RemoveFirst(pendingTaskRequests, q)
            /\ request' = Expire(q)
       ELSE UNCHANGED <<pendingTaskRequests, request>>
    /\ UNCHANGED <<taskOf, isDraining, knownRunners, pendingTaskOffers, acceptInProgress,
                   accepting, tasks, taskTimer, runnerVars, toRunner, toBroker>>

\* The timer of a request, whether or not it is being matched.
handleRequestTimeout(q) ==
    /\ q \in requestTimer
    /\ requestTimer' = requestTimer \ {q}
    /\ IF q \in ToSet(pendingTaskRequests)
       THEN /\ pendingTaskRequests' = RemoveFirst(pendingTaskRequests, q)
            /\ request' = Expire(q)
       ELSE UNCHANGED <<pendingTaskRequests, request>>
    /\ UNCHANGED <<taskOf, isDraining, knownRunners, pendingTaskOffers, acceptInProgress,
                   accepting, tasks, taskTimer, runnerVars, toRunner, toBroker>>

\* The runner has not answered within two seconds.
AcceptTimeout(o) ==
    /\ accepting[o] # None
    /\ accepting' = [accepting EXCEPT ![o] = None]
    /\ acceptInProgress' = acceptInProgress \ {accepting[o]}
    /\ UNCHANGED <<requesterVars, isDraining, knownRunners, pendingTaskRequests,
                   pendingTaskOffers, requestTimer, tasks, taskTimer, runnerVars,
                   toRunner, toBroker>>

-----------------------------------------------------------------------------
(* The broker: messages of the runners. *)

\* The broker takes the next message of runner r; a runner that is not known
\* is not listened to.
Receive(r, type) ==
    /\ toBroker[r] # <<>> /\ Head(toBroker[r]).type = type
    /\ r \in knownRunners
    /\ toBroker' = [toBroker EXCEPT ![r] = Tail(@)]

taskOffered(r) ==
    /\ Receive(r, "taskoffer")
    /\ settleTasks(pendingTaskRequests,
                   Append(pendingTaskOffers, Head(toBroker[r]).task))
    /\ UNCHANGED <<requesterVars, isDraining, knownRunners, requestTimer, tasks,
                   taskTimer, runnerVars>>

\* sendTaskSettings starts the timeout of the task.
sendTaskSettings(t) ==
    /\ taskTimer' = taskTimer \cup {t}
    /\ toRunner' = SendToRunner(t[1], <<Message("tasksettings", t)>>)

\* cancelTask in the broker, whose tasks are known.
cancelTask(t, known) ==
    /\ tasks' = known \ {t} /\ taskTimer' = taskTimer \ {t}
    /\ toRunner' = IF t \in known THEN SendToRunner(t[1], <<Message("taskcancel", t)>>)
                                  ELSE toRunner

(***************************************************************************)
(* taskReady in the requester, for task t made for request q, in a state   *)
(* where the request has left the pending ones: the requester answers with *)
(* the settings, which sendTaskSettings passes on and starts the timeout,  *)
(* or rejects the task because it no longer awaits q (cancelTask).         *)
(***************************************************************************)
taskReady_AnyRequest(q, t) ==
    /\ request' = [request EXCEPT ![q] = IF @ = "pending" THEN "tasked" ELSE @]
    /\ taskOf' = [taskOf EXCEPT ![q] = t]
    /\ tasks' = tasks \cup {t} /\ taskTimer' = taskTimer \cup {t}
    /\ toRunner' = SendToRunner(t[1], <<Message("tasksettings", t)>>)

taskReady(q, t) ==
    IF request[q] = "pending"
    THEN /\ request' = [request EXCEPT ![q] = "tasked"]
         /\ taskOf' = [taskOf EXCEPT ![q] = t]
         /\ tasks' = tasks \cup {t}
         /\ sendTaskSettings(t)
    ELSE cancelTask(t, tasks \cup {t}) /\ UNCHANGED requesterVars

\* acceptOffer once the runner has accepted.  If the request is gone the task
\* is recorded all the same, and nobody is told.
RequestFound(q) == q \in ToSet(pendingTaskRequests)

handleRunnerAccept(r) ==
    LET t == Head(toBroker[r]).task
        q == accepting[t]
    IN /\ Receive(r, "taskaccepted")
       /\ IF q = None
          THEN UNCHANGED <<requesterVars, pendingTaskRequests, accepting,
                           requestTimer, tasks, taskTimer, toRunner>>
          ELSE /\ accepting' = [accepting EXCEPT ![t] = None]
               /\ requestTimer' = requestTimer \ {q}
               /\ pendingTaskRequests' = RemoveFirst(pendingTaskRequests, q)
               /\ IF RequestFound(q) THEN taskReady(q, t)
                  ELSE /\ tasks' = tasks \cup {t}
                       /\ UNCHANGED <<requesterVars, taskTimer, toRunner>>
       /\ UNCHANGED <<isDraining, knownRunners, pendingTaskOffers, acceptInProgress,
                      runnerVars>>

handleRunnerReject(r) ==
    LET o == Head(toBroker[r]).task
        q == accepting[o]
    IN /\ Receive(r, "taskrejected")
       /\ accepting' = [accepting EXCEPT ![o] = None]
       /\ acceptInProgress' = acceptInProgress \ {q}
       /\ UNCHANGED <<requesterVars, isDraining, knownRunners, pendingTaskRequests,
                      pendingTaskOffers, requestTimer, tasks, taskTimer, runnerVars,
                      toRunner>>

\* The request is pushed again, with a new timeout; it has not left the list.
handleRunnerDeferred(r) ==
    LET o == Head(toBroker[r]).task
        q == accepting[o]
    IN /\ Receive(r, "taskdeferred")
       /\ accepting' = [accepting EXCEPT ![o] = None]
       /\ acceptInProgress' = acceptInProgress \ {q}
       /\ IF q = None THEN UNCHANGED <<pendingTaskRequests, requestTimer>>
          ELSE /\ pendingTaskRequests' = Append(pendingTaskRequests, q)
               /\ requestTimer' = requestTimer \cup {q}
       /\ UNCHANGED <<requesterVars, isDraining, knownRunners, pendingTaskOffers,
                      tasks, taskTimer, runnerVars, toRunner>>

\* The requester's promises for the tasks in ts settle with outcome.
SettleTasksOf(ts, outcome) ==
    request' = [q \in Requests |-> IF request[q] = "tasked" /\ taskOf[q] \in ts
                                   THEN outcome ELSE request[q]]

\* taskDoneHandler and taskErrorHandler.
TaskEnded(r, type, outcome) ==
    LET ended == {Head(toBroker[r]).task} \cap tasks IN
    /\ Receive(r, type)
    /\ tasks' = tasks \ ended /\ taskTimer' = taskTimer \ ended
    /\ SettleTasksOf(ended, outcome)
    /\ UNCHANGED <<taskOf, isDraining, knownRunners, matchVars, requestTimer,
                   runnerVars, toRunner>>

taskDoneHandler(r) == TaskEnded(r, "taskdone", "done")
taskErrorHandler(r) == TaskEnded(r, "taskerror", "error")

-----------------------------------------------------------------------------
(* The broker: timeouts, cancellation, connections, draining. *)

\* forceRestart: every runner process of this n8n, of whatever type, hears the
\* event and is killed.
forceRestart ==
    /\ process' = [r \in Runners |-> IF process[r] = "up" THEN "exited" ELSE process[r]]
    /\ toRunner' = [r \in Runners |-> <<>>]

handleTaskTimeout(t) ==
    /\ t \in taskTimer
    /\ tasks' = tasks \ {t} /\ taskTimer' = taskTimer \ {t}
    /\ SettleTasksOf({t}, "error")
    /\ IF InternalMode THEN forceRestart
       ELSE /\ toRunner' = SendToRunner(t[1], <<Message("taskcancel", t)>>)
            /\ UNCHANGED process
    /\ UNCHANGED <<taskOf, isDraining, knownRunners, matchVars, requestTimer,
                   canSendOffers, offersMade, openOffers, runningTasks, toBroker>>

\* cancelTasks in the requester, for one task, and cancelTask in the broker.
CancelTask(q) ==
    /\ request[q] = "tasked"
    /\ request' = [request EXCEPT ![q] = "cancelled"]
    /\ cancelTask(taskOf[q], tasks)
    /\ UNCHANGED <<taskOf, isDraining, knownRunners, matchVars, requestTimer,
                   runnerVars, toBroker>>

\* A runner has connected and sent runner:info.
registerRunner(r) ==
    /\ process[r] = "new"
    /\ process' = [process EXCEPT ![r] = "up"]
    /\ knownRunners' = knownRunners \cup {r}
    /\ toRunner' = [toRunner EXCEPT ![r] = <<Message("runnerregistered", NoTask(r))>>]
    /\ UNCHANGED <<requesterVars, isDraining, matchVars, requestTimer, tasks, taskTimer,
                   canSendOffers, offersMade, openOffers, runningTasks, toBroker>>

\* The mutant leaves the tasks of the lost runner to their timeouts.
deregisterRunner_KeepsTasks(r) ==
    /\ r \in knownRunners
    /\ knownRunners' = knownRunners \ {r}
    /\ pendingTaskOffers' = Keep(pendingTaskOffers, {o \in Offers : o[1] # r})
    /\ toBroker' = [toBroker EXCEPT ![r] = <<>>]
    /\ UNCHANGED <<requesterVars, isDraining, pendingTaskRequests, acceptInProgress,
                   accepting, requestTimer, tasks, taskTimer, runnerVars, toRunner>>

\* removeConnection: the connection has closed, or a heartbeat was missed.  An
\* acceptOffer under way is left to its timeout.
deregisterRunner(r) ==
    LET lost == {t \in tasks : t[1] = r} IN
    /\ r \in knownRunners
    /\ knownRunners' = knownRunners \ {r}
    /\ pendingTaskOffers' = Keep(pendingTaskOffers, {o \in Offers : o[1] # r})
    /\ tasks' = tasks \ lost /\ taskTimer' = taskTimer \ lost
    /\ SettleTasksOf(lost, "error")
    /\ toBroker' = [toBroker EXCEPT ![r] = <<>>]
    /\ UNCHANGED <<taskOf, isDraining, pendingTaskRequests, acceptInProgress, accepting,
                   requestTimer, runnerVars, toRunner>>

\* drainActiveTasks up to its polling loop.  What follows it, the removal of
\* every connection, is deregisterRunner.
startDraining ==
    /\ ~isDraining
    /\ isDraining' = TRUE
    /\ toRunner' = [r \in Runners |-> SendToRunner(r, <<Message("drain", NoTask(r))>>)[r]]
    /\ UNCHANGED <<requesterVars, knownRunners, matchVars, requestTimer, tasks, taskTimer,
                   runnerVars, toBroker>>

-----------------------------------------------------------------------------
(* A runner. *)

RunningOn(r, status) == {t \in Tasks : t[1] = r /\ status[t] # "none"}
OpenOn(r, open) == {o \in open : o[1] = r}

(***************************************************************************)
(* sendOffers on runner r, whose tasks are status and whose open offers    *)
(* are open: some of these have become stale, and new ones fill it up to   *)
(* maxConcurrency.  The messages already sent by this handler are sent.    *)
(***************************************************************************)
sendOffers_IgnoresRunning(r, open, status, sent) ==
    \E stale \in SUBSET {o \in OpenOn(r, open) : r \notin Launchers} :
      LET kept == open \ stale
          n == maxConcurrency - Cardinality(OpenOn(r, kept))
          new == {k \in 1..MaxOffers : k > offersMade[r] /\ k <= offersMade[r] + n}
          k == IF canSendOffers[r] THEN Cardinality(new) ELSE 0
      IN /\ offersMade' = [offersMade EXCEPT ![r] = @ + k]
         /\ openOffers' = kept \cup {<<r, offersMade[r] + i>> : i \in 1..k}
         /\ toBroker' = [toBroker EXCEPT ![r] = @ \o sent \o
               [i \in 1..k |-> Message("taskoffer", <<r, offersMade[r] + i>>)]]

sendOffers(r, open, status, sent) ==
    \E stale \in SUBSET {o \in OpenOn(r, open) : r \notin Launchers} :
      LET kept == open \ stale
          n == maxConcurrency - (Cardinality(OpenOn(r, kept))
                                 + Cardinality(RunningOn(r, status)))
          new == {k \in 1..MaxOffers : k > offersMade[r] /\ k <= offersMade[r] + n}
          k == IF canSendOffers[r] THEN Cardinality(new) ELSE 0
      IN /\ offersMade' = [offersMade EXCEPT ![r] = @ + k]
         /\ openOffers' = kept \cup {<<r, offersMade[r] + i>> : i \in 1..k}
         /\ toBroker' = [toBroker EXCEPT ![r] = @ \o sent \o
               [i \in 1..k |-> Message("taskoffer", <<r, offersMade[r] + i>>)]]

\* The interval timer of startTaskOffers.
OfferTick(r) ==
    /\ process[r] = "up" /\ canSendOffers[r]
    /\ sendOffers(r, openOffers, runningTasks, <<>>)
    /\ UNCHANGED <<requesterVars, brokerVars, process, canSendOffers, runningTasks,
                   toRunner>>

\* The runner takes the broker's next message.
Take(r, type) ==
    /\ process[r] = "up"
    /\ toRunner[r] # <<>> /\ Head(toRunner[r]).type = type
    /\ toRunner' = [toRunner EXCEPT ![r] = Tail(@)]

startTaskOffers(r) ==
    /\ Take(r, "runnerregistered")
    /\ canSendOffers' = [canSendOffers EXCEPT ![r] = TRUE]
    /\ UNCHANGED <<requesterVars, brokerVars, process, offersMade, openOffers,
                   runningTasks, toBroker>>

stopTaskOffers(r) ==
    /\ Take(r, "drain")
    /\ canSendOffers' = [canSendOffers EXCEPT ![r] = FALSE]
    /\ UNCHANGED <<requesterVars, brokerVars, process, offersMade, openOffers,
                   runningTasks, toBroker>>

hasOpenTaskSlots(r) == Cardinality(RunningOn(r, runningTasks)) < maxConcurrency

\* A launcher answers every acceptance with a deferral.
offerAccepted(r) ==
    LET o == Head(toRunner[r]).task
        ok == r \notin Launchers /\ hasOpenTaskSlots(r) /\ o \in openOffers
        answer == IF r \in Launchers THEN "taskdeferred"
                  ELSE IF ok THEN "taskaccepted" ELSE "taskrejected"
    IN /\ Take(r, "taskofferaccept")
       /\ openOffers' = openOffers \ {o}
       /\ runningTasks' = [runningTasks EXCEPT ![o] = IF ok THEN "waitingForSettings" ELSE @]
       /\ toBroker' = [toBroker EXCEPT ![r] = Append(@, Message(answer, o))]
       /\ UNCHANGED <<requesterVars, brokerVars, process, canSendOffers, offersMade>>

\* receivedSettings: the task starts to execute.
receivedSettings(r) ==
    LET t == Head(toRunner[r]).task IN
    /\ Take(r, "tasksettings")
    /\ runningTasks' = [runningTasks EXCEPT ![t] =
                           IF @ = "waitingForSettings" THEN "running" ELSE @]
    /\ UNCHANGED <<requesterVars, brokerVars, process, canSendOffers, offersMade,
                   openOffers, toBroker>>

\* finishTask after the messages in sent.
finishTask(t, sent) ==
    /\ runningTasks' = [runningTasks EXCEPT ![t] = "none"]
    /\ sendOffers(t[1], openOffers, runningTasks', sent)

taskCancelled(r) ==
    LET t == Head(toRunner[r]).task IN
    /\ Take(r, "taskcancel")
    /\ IF runningTasks[t] = "waitingForSettings" THEN finishTask(t, <<>>)
       ELSE /\ runningTasks' = [runningTasks EXCEPT ![t] =
                                   IF @ = "running" THEN "aborting:cancelled" ELSE @]
            /\ UNCHANGED <<offersMade, openOffers, toBroker>>
    /\ UNCHANGED <<requesterVars, brokerVars, process, canSendOffers>>

\* The mutant ignores the timeout of a task that has no settings yet.
taskTimedOut_OnlyRunning(t) ==
    /\ process[t[1]] = "up" /\ runningTasks[t] = "running"
    /\ runningTasks' = [runningTasks EXCEPT ![t] = "aborting:timeout"]
    /\ UNCHANGED <<requesterVars, brokerVars, process, canSendOffers, offersMade,
                   openOffers, toBroker, toRunner>>

\* The mutant aborts a task that has no settings yet instead of ending it.
taskTimedOut_AbortsWaiting(t) ==
    /\ process[t[1]] = "up" /\ runningTasks[t] \in {"waitingForSettings", "running"}
    /\ runningTasks' = [runningTasks EXCEPT ![t] = "aborting:timeout"]
    /\ UNCHANGED <<requesterVars, brokerVars, process, canSendOffers, offersMade,
                   openOffers, toBroker, toRunner>>

\* The timer of a TaskState; it fires once, and is void once it is cancelled.
taskTimedOut(t) ==
    /\ process[t[1]] = "up"
    /\ \/ /\ runningTasks[t] = "waitingForSettings"
          /\ finishTask(t, <<Message("taskerror", t)>>)
       \/ /\ runningTasks[t] = "running"
          /\ runningTasks' = [runningTasks EXCEPT ![t] = "aborting:timeout"]
          /\ UNCHANGED <<offersMade, openOffers, toBroker>>
    /\ UNCHANGED <<requesterVars, brokerVars, process, canSendOffers, toRunner>>

\* The code has returned or thrown: taskExecutionSucceeded or -Failed.  The
\* result of a task that was cancelled is not sent.
TaskExecutionEnds(t) ==
    /\ process[t[1]] = "up"
    /\ runningTasks[t] \notin {"none", "waitingForSettings"}
    /\ \E type \in {"taskdone", "taskerror"} :
          finishTask(t, IF runningTasks[t] = "aborting:cancelled" THEN <<>>
                        ELSE <<Message(type, t)>>)
    /\ UNCHANGED <<requesterVars, brokerVars, process, canSendOffers, toRunner>>

\* The process of the runner ends, by itself or because its connection closed.
RunnerExits(r) ==
    /\ process[r] = "up"
    /\ process' = [process EXCEPT ![r] = "exited"]
    /\ toRunner' = [toRunner EXCEPT ![r] = <<>>]
    /\ UNCHANGED <<requesterVars, brokerVars, canSendOffers, offersMade, openOffers,
                   runningTasks, toBroker>>

-----------------------------------------------------------------------------

\* One message of runner r is taken by the broker, or one of the broker by r.
Deliver(r) ==
    \/ taskOffered(r) \/ handleRunnerAccept(r) \/ handleRunnerReject(r)
    \/ handleRunnerDeferred(r) \/ taskDoneHandler(r) \/ taskErrorHandler(r)
    \/ startTaskOffers(r) \/ stopTaskOffers(r) \/ offerAccepted(r)
    \/ receivedSettings(r) \/ taskCancelled(r)

Next ==
    \/ \E q \in Requests : StartTask(q) \/ handleRequestTimeout(q) \/ CancelTask(q)
    \/ \E o \in Offers : AcceptTimeout(o)
    \/ \E r \in Runners : \/ registerRunner(r) \/ deregisterRunner(r) \/ RunnerExits(r)
                          \/ Deliver(r) \/ OfferTick(r)
    \/ \E t \in Tasks : \/ handleTaskTimeout(t) \/ taskTimedOut(t)
                        \/ TaskExecutionEnds(t)
    \/ startDraining

Spec == Init /\ [][Next]_vars

(***************************************************************************)
(* Messages are delivered, timers fire, the close of a dead connection is  *)
(* noticed, and an aborted execution ends (its AbortSignal makes executeTask *)
(* reject).  Nothing obliges a runner to connect or to send offers, nor a  *)
(* running task to end by itself.                                          *)
(***************************************************************************)
Fairness ==
    /\ \A q \in Requests : WF_vars(handleRequestTimeout(q))
    /\ \A o \in Offers : WF_vars(AcceptTimeout(o))
    /\ \A r \in Runners : /\ WF_vars(Deliver(r))
                          /\ WF_vars(process[r] = "exited" /\ deregisterRunner(r))
    /\ \A t \in Tasks : /\ WF_vars(handleTaskTimeout(t))
                        /\ WF_vars(taskTimedOut(t))
                        /\ WF_vars(runningTasks[t] # "running" /\ TaskExecutionEnds(t))

FairSpec == Spec /\ Fairness

-----------------------------------------------------------------------------

(***************************************************************************)
(* A runner never has more tasks and open offers than maxConcurrency, so   *)
(* that an offer it has not withdrawn can always be honoured.              *)
(***************************************************************************)
OffersCanBeHonoured ==
    \A r \in Runners : Cardinality(OpenOn(r, openOffers))
                       + Cardinality(RunningOn(r, runningTasks)) <= maxConcurrency

(***************************************************************************)
(* A task the broker keeps is not forgotten by the other side: its runner  *)
(* is known and, while its process lives, has the task or has sent the     *)
(* message that ends it.                                                   *)
(***************************************************************************)
NoOrphanTask ==
    \A t \in tasks : LET r == t[1] IN
        /\ r \in knownRunners
        /\ process[r] = "up" =>
              \/ runningTasks[t] # "none"
              \/ \E i \in DOMAIN toBroker[r] :
                    /\ toBroker[r][i].task = t
                    /\ toBroker[r][i].type \in {"taskdone", "taskerror"}

(***************************************************************************)
(* Code is executed only for a startTask that was given this very task: no *)
(* request is executed after it expired, and none by two runners, whatever *)
(* was matched twice, deferred, rejected or accepted too late.             *)
(***************************************************************************)
OnlyAwaitedTasksRun ==
    \A t \in Tasks : runningTasks[t] \in {"running", "aborting:cancelled", "aborting:timeout"}
        => \E q \in Requests : taskOf[q] = t /\ request[q] \notin {"pending", "expired"}

(***************************************************************************)
(* A request is matched with one offer at a time, although it may be in    *)
(* the list twice and a timed-out acceptance clears its flag (settleTasks  *)
(* "relies on never yielding").                                            *)
(***************************************************************************)
OneMatchPerRequest ==
    \A o, p \in Offers : (accepting[o] = accepting[p] /\ accepting[o] # None) => o = p

(***************************************************************************)
(* A runner that receives settings awaits them, or has dropped the task:   *)
(* the other states "should never happen".                                 *)
(***************************************************************************)
SettingsAreExpected ==
    \A r \in Runners : (toRunner[r] # <<>> /\ Head(toRunner[r]).type = "tasksettings")
        => runningTasks[Head(toRunner[r]).task] \in {"none", "waitingForSettings"}

(***************************************************************************)
(* The node that called startTask gets an answer: every request ends in a  *)
(* result, an error, an expiry or a cancellation, whatever runners do.     *)
(***************************************************************************)
StartTaskSettles ==
    \A q \in Requests : request[q] \in {"pending", "tasked"}
                           ~> request[q] \in {"done", "error", "expired", "cancelled"}

(***************************************************************************)
(* A runner gets every slot back, also that of a task the broker gave up   *)
(* on and will never send settings for.                                    *)
(***************************************************************************)
RunnerSlotsComeBack ==
    \A t \in Tasks : runningTasks[t] # "none"
                        ~> (runningTasks[t] = "none" \/ process[t[1]] = "exited")
=============================================================================
