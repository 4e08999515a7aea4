------------------------- MODULE ConcurrencyControl -------------------------
(***************************************************************************)
(* The concurrency control of one n8n main process in regular mode:        *)
(* ConcurrencyControlService, the ConcurrencyQueue it keeps per kind of    *)
(* execution, and the ConcurrencyCapacityReservation objects through which *)
(* ActiveExecutions.add uses it.                                           *)
(*                                                                         *)
(* A call in Calls is one call of ActiveExecutions.add, that is one        *)
(* reservation object.  Several calls may concern the same execution (the  *)
(* first run and every resumption of a waiting execution).  The process is *)
(* single-threaded: every action below is one synchronous stretch of code. *)
(* Settling a queued promise and the continuation that records             *)
(* acquiredReservation are one step, because only microtasks of the same   *)
(* reservation run between the two.                                        *)
(***************************************************************************)
EXTENDS Integers, Sequences, FiniteSets, SequencesExt

CONSTANTS
    Calls,            \* calls of ActiveExecutions.add
    Executions,       \* execution ids
    ExecutionOf,      \* the execution a call is about
    ModeOf,           \* the WorkflowExecuteMode of an execution
    ConfiguredLimit,  \* productionLimit and evaluationLimit as configured
    RegularMode       \* executions.mode = 'regular' (FALSE: 'queue')

QueueTypes == {"production", "evaluation"}

Modes == {"webhook", "trigger", "chat", "evaluation", "error", "integrated",
          "cli", "internal", "manual", "retry"}

\* The constructor throws InvalidConcurrencyLimitError on a limit of 0.
ASSUME ConstantsAssumption ==
    /\ IsFiniteSet(Calls)
    /\ ExecutionOf \in [Calls -> Executions]
    /\ ModeOf \in [Executions -> Modes]
    /\ ConfiguredLimit \in [QueueTypes -> Int \ {0}]
    /\ RegularMode \in BOOLEAN

-----------------------------------------------------------------------------

\* Every limit below -1 is read as -1, unlimited.
limits == [t \in QueueTypes |-> IF ConfiguredLimit[t] < -1 THEN -1
                                                           ELSE ConfiguredLimit[t]]

\* The queue types the constructor makes a ConcurrencyQueue for.
Queues == {t \in QueueTypes : limits[t] > 0}

InitiallyEnabled == RegularMode /\ \E t \in QueueTypes : limits[t] # -1

\* The queue type of a mode; "none" for the modes that are never throttled.
getQueue(mode) == CASE mode \in {"webhook", "trigger", "chat"} -> "production"
                    [] mode = "evaluation" -> "evaluation"
                    [] OTHER -> "none"

QueueOf(c) == getQueue(ModeOf[ExecutionOf[c]])

isUnlimited(c) == QueueOf(c) \notin Queues

VARIABLES
    isEnabled,    \* ConcurrencyControlService.isEnabled
    capacity,     \* ConcurrencyQueue.capacity, per queue
    queue,        \* ConcurrencyQueue.queue: the calls awaiting their promise
    reservation   \* state of the reservation of each call

vars == <<isEnabled, capacity, queue, reservation>>

(***************************************************************************)
(* idle: reserve() not called yet.  waiting: inside reserve(), its promise *)
(* in a queue.  held: acquiredReservation set.  released: given back, or   *)
(* the process that held it is gone.  dropped: taken out of the queue by   *)
(* remove(), which never settles the promise.                              *)
(***************************************************************************)
ReservationStates == {"idle", "waiting", "held", "released", "dropped"}

TypeOK ==
    /\ isEnabled \in BOOLEAN
    /\ capacity \in [Queues -> Int]
    /\ queue \in [Queues -> Seq(Calls)]
    /\ reservation \in [Calls -> ReservationStates]

Init ==
    /\ isEnabled = InitiallyEnabled
    /\ capacity = [q \in Queues |-> limits[q]]
    /\ queue = [q \in Queues |-> <<>>]
    /\ reservation = [c \in Calls |-> "idle"]

-----------------------------------------------------------------------------

\* The mutant tests capacity before the decrement with the wrong bound.
EnqueueAdmitted_OffByOne(c) ==
    LET q == QueueOf(c) IN
    /\ capacity[q] >= 0
    /\ capacity' = [capacity EXCEPT ![q] = @ - 1]
    /\ reservation' = [reservation EXCEPT ![c] = "held"]
    /\ UNCHANGED queue

\* enqueue() with capacity left: the returned promise resolves at once.
EnqueueAdmitted(c) ==
    LET q == QueueOf(c) IN
    /\ capacity[q] > 0
    /\ capacity' = [capacity EXCEPT ![q] = @ - 1]
    /\ reservation' = [reservation EXCEPT ![c] = "held"]
    /\ UNCHANGED queue

\* enqueue() that takes capacity below zero: the call waits in the queue.
EnqueueThrottled(c) ==
    LET q == QueueOf(c) IN
    /\ capacity[q] <= 0
    /\ capacity' = [capacity EXCEPT ![q] = @ - 1]
    /\ queue' = [queue EXCEPT ![q] = Append(@, c)]
    /\ reservation' = [reservation EXCEPT ![c] = "waiting"]

\* reserve() -> throttle().
Reserve(c) ==
    /\ reservation[c] = "idle"
    /\ IF ~isEnabled \/ isUnlimited(c)
       THEN /\ reservation' = [reservation EXCEPT ![c] = "held"]
            /\ UNCHANGED <<capacity, queue>>
       ELSE EnqueueAdmitted(c) \/ EnqueueThrottled(c)
    /\ UNCHANGED isEnabled

(***************************************************************************)
(* capacity++ and resolveNext() on queue q, where rest is what the queue   *)
(* holds at that point and after is what the reservations are: the first   *)
(* waiting call, if any, is let through.                                   *)
(***************************************************************************)
GiveBack_Last(q, rest, after) ==
    /\ capacity' = [capacity EXCEPT ![q] = @ + 1]
    /\ queue' = [queue EXCEPT ![q] = IF rest = <<>> THEN <<>> ELSE Front(rest)]
    /\ reservation' = IF rest = <<>> THEN after
                      ELSE [after EXCEPT ![Last(rest)] = "held"]

GiveBack_Idle(q, rest, after) ==
    /\ capacity' = [capacity EXCEPT ![q] = @ + 1]
    /\ queue' = [queue EXCEPT ![q] = rest]
    /\ reservation' = after

GiveBack_Peek(q, rest, after) ==
    /\ capacity' = [capacity EXCEPT ![q] = @ + 1]
    /\ queue' = [queue EXCEPT ![q] = rest]
    /\ reservation' = IF rest = <<>> THEN after
                      ELSE [after EXCEPT ![Head(rest)] = "held"]

GiveBack(q, rest, after) ==
    /\ capacity' = [capacity EXCEPT ![q] = @ + 1]
    /\ queue' = [queue EXCEPT ![q] = IF rest = <<>> THEN <<>> ELSE Tail(rest)]
    /\ reservation' = IF rest = <<>> THEN after
                      ELSE [after EXCEPT ![Head(rest)] = "held"]

\* The mutant gives capacity back even when the service has been disabled.
Release_IgnoresDisable(c) ==
    /\ reservation[c] = "held"
    /\ LET after == [reservation EXCEPT ![c] = "released"] IN
       IF isUnlimited(c)
       THEN reservation' = after /\ UNCHANGED <<capacity, queue>>
       ELSE GiveBack(QueueOf(c), queue[QueueOf(c)], after)
    /\ UNCHANGED isEnabled

\* ConcurrencyCapacityReservation.release() -> release() -> dequeue().
Release(c) ==
    /\ reservation[c] = "held"
    /\ LET after == [reservation EXCEPT ![c] = "released"] IN
       IF ~isEnabled \/ isUnlimited(c)
       THEN reservation' = after /\ UNCHANGED <<capacity, queue>>
       ELSE GiveBack(QueueOf(c), queue[QueueOf(c)], after)
    /\ UNCHANGED isEnabled

\* Position i of queue q holds the first item of execution e (findIndex).
IsFirstOf(e, q, i) ==
    /\ i \in DOMAIN queue[q]
    /\ ExecutionOf[queue[q][i]] = e
    /\ \A j \in 1..(i - 1) : ExecutionOf[queue[q][j]] # e

\* ConcurrencyQueue.has, ConcurrencyControlService.has.
has(e) == isEnabled /\ \E q \in Queues : \E i \in DOMAIN queue[q] :
                            ExecutionOf[queue[q][i]] = e

\* The mutant forgets to give back the capacity the removed call had taken.
RemoveExecution_KeepsCapacity(e) ==
    /\ isEnabled
    /\ \E q \in Queues : \E i \in DOMAIN queue[q] :
          /\ q = getQueue(ModeOf[e])
          /\ IsFirstOf(e, q, i)
          /\ queue' = [queue EXCEPT ![q] = RemoveAt(@, i)]
          /\ reservation' = [reservation EXCEPT ![queue[q][i]] = "dropped"]
    /\ UNCHANGED <<isEnabled, capacity>>

\* remove() of an execution that is queued (it changes nothing otherwise).
RemoveExecution(e) ==
    /\ isEnabled
    /\ \E q \in Queues : \E i \in DOMAIN queue[q] :
          /\ q = getQueue(ModeOf[e])
          /\ IsFirstOf(e, q, i)
          /\ GiveBack(q, RemoveAt(queue[q], i),
                      [reservation EXCEPT ![queue[q][i]] = "dropped"])
    /\ UNCHANGED isEnabled

\* ActiveExecutions.shutdown: disable(), and removeAll(), which then returns
\* at its first statement because the service is no longer enabled.
Disable ==
    /\ isEnabled
    /\ isEnabled' = FALSE
    /\ UNCHANGED <<capacity, queue, reservation>>

\* The process ends (after a shutdown or by a crash) and is started again.
Restart ==
    /\ isEnabled' = InitiallyEnabled
    /\ capacity' = [q \in Queues |-> limits[q]]
    /\ queue' = [q \in Queues |-> <<>>]
    /\ reservation' = [c \in Calls |-> IF reservation[c] = "idle" THEN "idle"
                                                                  ELSE "released"]

Next ==
    \/ \E c \in Calls : Reserve(c) \/ Release(c)
    \/ \E e \in Executions : RemoveExecution(e)
    \/ Disable
    \/ Restart

Spec == Init /\ [][Next]_vars

\* The callers' obligation: whoever holds a reservation gives it back.
FairSpec == Spec /\ \A c \in Calls : WF_vars(Release(c))

-----------------------------------------------------------------------------

\* Calls that hold a reservation of queue q.
Held(q) == {c \in Calls : reservation[c] = "held" /\ QueueOf(c) = q}

(***************************************************************************)
(* While the service is enabled, the capacity counter of a queue is what   *)
(* the limit leaves after the running and the waiting calls: enqueue,      *)
(* dequeue and remove neither lose nor invent a slot.                      *)
(***************************************************************************)
CapacityAccounting ==
    isEnabled => \A q \in Queues :
        capacity[q] = limits[q] - Cardinality(Held(q)) - Len(queue[q])

(***************************************************************************)
(* No execution waits while a slot is free: as long as a queue is not      *)
(* empty, at least limit many calls hold a reservation of it.              *)
(***************************************************************************)
WorkConserving ==
    isEnabled => \A q \in Queues :
        queue[q] # <<>> => Cardinality(Held(q)) >= limits[q]

(***************************************************************************)
(* The calls whose reserve() is pending are the queued ones, each in one   *)
(* position of the queue of its own mode: resolveNext and remove neither   *)
(* forget a waiting call nor resolve one twice.                            *)
(***************************************************************************)
QueuedOnce ==
    /\ \A q \in Queues : \A i \in DOMAIN queue[q] :
          /\ reservation[queue[q][i]] = "waiting"
          /\ QueueOf(queue[q][i]) = q
    /\ \A q \in Queues : \A i, j \in DOMAIN queue[q] :
          queue[q][i] = queue[q][j] => i = j
    /\ \A c \in Calls : reservation[c] = "waiting" =>
          \E q \in Queues : \E i \in DOMAIN queue[q] : queue[q][i] = c

(***************************************************************************)
(* What the configured limit guarantees: while the service is enabled, a   *)
(* step that takes a queue over its limit is one that removed a queued     *)
(* call of that queue; reserve() and release() never do.                   *)
(***************************************************************************)
OverLimitOnlyByRemove ==
    [][\A q \in Queues :
          (isEnabled /\ Cardinality(Held(q)') > limits[q]
                     /\ Cardinality(Held(q)') > Cardinality(Held(q)))
             => \E c \in Calls : /\ QueueOf(c) = q
                                 /\ reservation[c] = "waiting"
                                 /\ reservation'[c] = "dropped"]_vars

(***************************************************************************)
(* Throttled executions are released in the order they were throttled: no  *)
(* step lets a queued call through while one ahead of it stays queued.     *)
(***************************************************************************)
FirstInFirstOut ==
    [][\A q \in Queues : \A i, j \in DOMAIN queue[q] :
          (i < j /\ reservation'[queue[q][j]] = "held")
             => reservation'[queue[q][i]] # "waiting"]_vars

(***************************************************************************)
(* Once the service is disabled, giving capacity back lets no throttled    *)
(* execution through ("so that throttled executions cannot resume during   *)
(* shutdown").                                                             *)
(***************************************************************************)
NoAdmissionDuringShutdown ==
    [][\A c \in Calls : (~isEnabled /\ reservation[c] = "waiting")
                           => reservation'[c] # "held"]_vars

(***************************************************************************)
(* A throttled execution is eventually let through, or removed, or the     *)
(* process is shut down, provided that every reservation is given back.    *)
(***************************************************************************)
ThrottledIsReleased ==
    \A c \in Calls : reservation[c] = "waiting"
                        ~> (reservation[c] # "waiting" \/ ~isEnabled)
=============================================================================
