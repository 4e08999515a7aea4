--------------------------- MODULE CircuitBreaker ---------------------------
(***************************************************************************)
(* The circuit breaker around the deliveries of a log streaming            *)
(* destination, with its sliding window of failures.  Calls overlap: the   *)
(* state a call ends in need not be the state it was admitted in.          *)
(* Timestamps are kept as ages, up to the age from which they make no      *)
(* difference any more.                                                    *)
(***************************************************************************)
EXTENDS Naturals, Sequences, FiniteSets

CONSTANTS
    Calls,                          \* bound: the calls of execute() that overlap
    Timeout,                        \* options.timeout
    MaxFailures,                    \* options.maxFailures
    HalfOpenRequests,               \* options.halfOpenRequests
    FailureWindow,                  \* options.failureWindow
    MaxConcurrentHalfOpenRequests   \* options.maxConcurrentHalfOpenRequests

ASSUME BreakerAssumption ==
    /\ IsFiniteSet(Calls)
    /\ Timeout \in Nat
    /\ MaxFailures \in Nat \ {0}
    /\ HalfOpenRequests \in Nat \ {0}
    /\ FailureWindow \in Nat
    /\ MaxConcurrentHalfOpenRequests \in Nat \ {0}

VARIABLES
    state,
    halfOpenCount,
    pendingHalfOpenRequests,
    sinceFailure,       \* the age of lastFailureTime
    eventTimestamps,    \* the ages of the failures in the sliding window, oldest first
    call                \* the handler each call is in, or "idle"

vars == <<state, halfOpenCount, pendingHalfOpenRequests, sinceFailure, eventTimestamps, call>>

States == {"CLOSED", "OPEN", "HALF_OPEN"}
Older(age, limit) == IF age < limit THEN age + 1 ELSE age

\* halfOpenCount goes beyond halfOpenRequests when probes end after the breaker has closed.
MaxHalfOpenCount == HalfOpenRequests + MaxConcurrentHalfOpenRequests - 1

\* The constructor: the last failure is the epoch.
Init ==
    /\ state = "CLOSED"
    /\ halfOpenCount = 0
    /\ pendingHalfOpenRequests = 0
    /\ sinceFailure = Timeout
    /\ eventTimestamps = <<>>
    /\ call = [c \in Calls |-> "idle"]

-----------------------------------------------------------------------------
(* SlidingWindow *)

\* addEvent, for an event of this moment: the oldest are dropped beyond twice maxEvents.
WithEvent(window) ==
    LET events == Append(window, 0) IN
        IF Len(events) > 2 * MaxFailures
        THEN SubSeq(events, Len(events) - 2 * MaxFailures + 1, Len(events)) ELSE events

Unexpired(age) == age <= FailureWindow

\* getCount: what has expired is removed, and the k-th event that has not is the k-th left.
WithoutExpired(window) ==
    LET kept == {i \in DOMAIN window : Unexpired(window[i])}
        nth(k) == CHOOSE i \in kept : Cardinality({j \in kept : j <= i}) = k
    IN  [k \in 1..Cardinality(kept) |-> window[nth(k)]]

-----------------------------------------------------------------------------
(* execute() up to the await; a call that is rejected changes nothing else *)

\* handleHalfOpenState, up to its await.
Admit(c) ==
    /\ pendingHalfOpenRequests < MaxConcurrentHalfOpenRequests
    /\ pendingHalfOpenRequests' = pendingHalfOpenRequests + 1
    /\ call' = [call EXCEPT ![c] = "halfOpen"]

Reject ==
    /\ pendingHalfOpenRequests >= MaxConcurrentHalfOpenRequests
    /\ UNCHANGED <<pendingHalfOpenRequests, call>>

ExecuteClosed(c) ==
    /\ call[c] = "idle"
    /\ state = "CLOSED"
    /\ call' = [call EXCEPT ![c] = "closed"]
    /\ UNCHANGED <<state, halfOpenCount, pendingHalfOpenRequests, sinceFailure, eventTimestamps>>

ExecuteOpen_CounterReset(c) ==
    /\ call[c] = "idle"
    /\ state = "OPEN"
    /\ sinceFailure >= Timeout
    /\ halfOpenCount' = 0
    /\ state' = "HALF_OPEN"
    /\ pendingHalfOpenRequests' = 1
    /\ call' = [call EXCEPT ![c] = "halfOpen"]
    /\ UNCHANGED <<sinceFailure, eventTimestamps>>

\* handleOpenState: half open from here on, even if the call itself is rejected.
ExecuteOpen(c) ==
    /\ call[c] = "idle"
    /\ state = "OPEN"
    /\ sinceFailure >= Timeout
    /\ halfOpenCount' = 0
    /\ state' = "HALF_OPEN"
    /\ Admit(c) \/ Reject
    /\ UNCHANGED <<sinceFailure, eventTimestamps>>

ExecuteHalfOpen(c) ==
    /\ call[c] = "idle"
    /\ state = "HALF_OPEN"
    /\ Admit(c)
    /\ UNCHANGED <<state, halfOpenCount, sinceFailure, eventTimestamps>>

-----------------------------------------------------------------------------
(* The end of a call, in whatever state the breaker is by then *)

SucceedClosed(c) ==
    /\ call[c] = "closed"
    /\ call' = [call EXCEPT ![c] = "idle"]
    /\ UNCHANGED <<state, halfOpenCount, pendingHalfOpenRequests, sinceFailure, eventTimestamps>>

\* The catch block of handleClosedState, with recordFailure and getFailureCount.
FailClosed(c) ==
    /\ call[c] = "closed"
    /\ call' = [call EXCEPT ![c] = "idle"]
    /\ sinceFailure' = 0
    /\ eventTimestamps' = WithoutExpired(WithEvent(eventTimestamps))
    /\ state' = IF Len(eventTimestamps') >= MaxFailures THEN "OPEN" ELSE state
    /\ UNCHANGED <<halfOpenCount, pendingHalfOpenRequests>>

SucceedHalfOpen_FailuresKept(c) ==
    /\ call[c] = "halfOpen"
    /\ call' = [call EXCEPT ![c] = "idle"]
    /\ pendingHalfOpenRequests' = pendingHalfOpenRequests - 1
    /\ halfOpenCount' = halfOpenCount + 1
    /\ state' = IF halfOpenCount + 1 >= HalfOpenRequests THEN "CLOSED" ELSE state
    /\ UNCHANGED <<sinceFailure, eventTimestamps>>

\* The rest of the try block of handleHalfOpenState, and its finally block.
SucceedHalfOpen(c) ==
    /\ call[c] = "halfOpen"
    /\ call' = [call EXCEPT ![c] = "idle"]
    /\ pendingHalfOpenRequests' = pendingHalfOpenRequests - 1
    /\ halfOpenCount' = halfOpenCount + 1
    /\ \/ /\ halfOpenCount + 1 >= HalfOpenRequests
          /\ state' = "CLOSED"
          /\ eventTimestamps' = <<>>
       \/ /\ halfOpenCount + 1 < HalfOpenRequests
          /\ UNCHANGED <<state, eventTimestamps>>
    /\ UNCHANGED sinceFailure

FailHalfOpen_NoFinally(c) ==
    /\ call[c] = "halfOpen"
    /\ call' = [call EXCEPT ![c] = "idle"]
    /\ sinceFailure' = 0
    /\ eventTimestamps' = WithEvent(eventTimestamps)
    /\ state' = "OPEN"
    /\ UNCHANGED <<halfOpenCount, pendingHalfOpenRequests>>

\* The catch and the finally block of handleHalfOpenState.
FailHalfOpen(c) ==
    /\ call[c] = "halfOpen"
    /\ call' = [call EXCEPT ![c] = "idle"]
    /\ pendingHalfOpenRequests' = pendingHalfOpenRequests - 1
    /\ sinceFailure' = 0
    /\ eventTimestamps' = WithEvent(eventTimestamps)
    /\ state' = "OPEN"
    /\ UNCHANGED halfOpenCount

Tick ==
    /\ sinceFailure' = Older(sinceFailure, Timeout)
    /\ eventTimestamps' = [i \in DOMAIN eventTimestamps |->
                              Older(eventTimestamps[i], FailureWindow + 1)]
    /\ UNCHANGED <<state, halfOpenCount, pendingHalfOpenRequests, call>>

Execute(c) == ExecuteClosed(c) \/ ExecuteOpen(c) \/ ExecuteHalfOpen(c)
Succeed(c) == SucceedClosed(c) \/ SucceedHalfOpen(c)
Fail(c) == FailClosed(c) \/ FailHalfOpen(c)

Next == Tick \/ \E c \in Calls : Execute(c) \/ Succeed(c) \/ Fail(c)

Spec == Init /\ [][Next]_vars

\* Time passes, events keep coming, and a delivery ends one way or the other.
Fairness ==
    /\ WF_vars(Tick)
    /\ \A c \in Calls : WF_vars(Execute(c)) /\ WF_vars(Succeed(c) \/ Fail(c))

FairSpec == Spec /\ Fairness

-----------------------------------------------------------------------------
(* Properties *)

Probes == {c \in Calls : call[c] = "halfOpen"}

\* Probes outlive the half-open state they were admitted in, which may be left and entered
\* again while they run: their number is still exact, and never above
\* maxConcurrentHalfOpenRequests (handleHalfOpenState).
HalfOpenBound ==
    /\ pendingHalfOpenRequests = Cardinality(Probes)
    /\ Cardinality(Probes) <= MaxConcurrentHalfOpenRequests

\* While the breaker is closed, the window holds fewer than maxFailures failures, however
\* it came to be closed and whichever calls of earlier states end in it.
ClosedBelowThreshold ==
    state = "CLOSED" => Len(WithoutExpired(eventTimestamps)) < MaxFailures

\* Once the destination answers for good, the breaker closes, whatever calls and counts
\* the time of the failures has left behind.
ClosesInTheEnd == <>[][\A c \in Calls : ~ Fail(c)]_vars => <>[](state = "CLOSED")
=============================================================================
