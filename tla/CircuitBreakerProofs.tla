------------------------ MODULE CircuitBreakerProofs ------------------------
(***************************************************************************)
(* Proofs, for any number of overlapping calls and any options, that the   *)
(* circuit breaker counts its probes exactly and never has more of them    *)
(* than it may, and that it is closed only below its threshold.  The two   *)
(* arguments are apart: the sliding window has no part in the first, nor   *)
(* the counters in the second.                                             *)
(***************************************************************************)
EXTENDS CircuitBreaker, FiniteSetTheorems, SequenceTheorems, TLAPS

Steps == {"idle", "closed", "halfOpen"}

\* The probes of a map of calls.
ProbesIn(s) == {c \in Calls : s[c] = "halfOpen"}

\* Both counters, for breakers that are left and entered again while probes run: a breaker
\* that is half open lacks a success to close, and the successes that are still to come
\* cannot take halfOpenCount beyond MaxHalfOpenCount (handleHalfOpenState).
CountersBounded ==
    /\ state = "HALF_OPEN" => halfOpenCount < HalfOpenRequests
    /\ halfOpenCount + pendingHalfOpenRequests <= MaxHalfOpenCount

\* The inductive invariant.
IInv ==
    /\ state \in States
    /\ halfOpenCount \in Nat
    /\ pendingHalfOpenRequests \in Nat
    /\ call \in [Calls -> Steps]
    /\ HalfOpenBound
    /\ CountersBounded

-----------------------------------------------------------------------------

\* Probes can be counted.
LEMMA ProbesFinite ==
    ASSUME NEW s
    PROVE  IsFiniteSet(ProbesIn(s)) /\ Cardinality(ProbesIn(s)) \in Nat
<1>1. ProbesIn(s) \subseteq Calls
  BY DEF ProbesIn
<1>2. IsFiniteSet(ProbesIn(s))
  BY <1>1, BreakerAssumption, FS_Subset
<1> QED
  BY <1>2, FS_CardinalityType

\* A call that is admitted as a probe is one more.
LEMMA ProbeAdmitted ==
    ASSUME NEW s \in [Calls -> Steps], NEW c \in Calls, s[c] # "halfOpen"
    PROVE  Cardinality(ProbesIn([s EXCEPT ![c] = "halfOpen"])) = Cardinality(ProbesIn(s)) + 1
<1>1. ProbesIn([s EXCEPT ![c] = "halfOpen"]) = ProbesIn(s) \union {c} /\ c \notin ProbesIn(s)
  BY DEF ProbesIn
<1> QED
  BY <1>1, ProbesFinite, FS_AddElement

\* A probe that ends is one less.
LEMMA ProbeEnded ==
    ASSUME NEW s \in [Calls -> Steps], NEW c \in Calls, s[c] = "halfOpen"
    PROVE  Cardinality(ProbesIn([s EXCEPT ![c] = "idle"])) = Cardinality(ProbesIn(s)) - 1
<1>1. ProbesIn([s EXCEPT ![c] = "idle"]) = ProbesIn(s) \ {c} /\ c \in ProbesIn(s)
  BY DEF ProbesIn, Steps
<1> QED
  BY <1>1, ProbesFinite, FS_RemoveElement

\* Calls that are no probes do not count.
LEMMA OtherCalls ==
    ASSUME NEW s \in [Calls -> Steps], NEW c \in Calls, s[c] # "halfOpen",
           NEW t \in {"idle", "closed"}
    PROVE  ProbesIn([s EXCEPT ![c] = t]) = ProbesIn(s)
BY DEF ProbesIn, Steps

\* HalfOpenBound, stated of the map of calls.
LEMMA HalfOpenBoundIs ==
    /\ HalfOpenBound <=> /\ pendingHalfOpenRequests = Cardinality(ProbesIn(call))
                         /\ Cardinality(ProbesIn(call)) <= MaxConcurrentHalfOpenRequests
    /\ HalfOpenBound' <=> /\ pendingHalfOpenRequests' = Cardinality(ProbesIn(call'))
                          /\ Cardinality(ProbesIn(call')) <= MaxConcurrentHalfOpenRequests
BY DEF HalfOpenBound, Probes, ProbesIn

LEMMA InitInv == Init => IInv
<1> SUFFICES ASSUME Init PROVE IInv
  OBVIOUS
<1>1. call \in [Calls -> Steps] /\ ProbesIn(call) = {}
  BY DEF Init, ProbesIn, Steps
<1>2. Cardinality(ProbesIn(call)) = 0
  BY <1>1, FS_EmptySet
<1>3. HalfOpenBound
  BY <1>2, HalfOpenBoundIs, BreakerAssumption DEF Init
<1> QED
  BY <1>1, <1>3, BreakerAssumption DEF Init, IInv, States, CountersBounded, MaxHalfOpenCount

\* A count below its limit and a number of probes within theirs.
LEMMA SumBound ==
    ASSUME NEW n \in Nat, NEW p \in Nat, n < HalfOpenRequests,
           p <= MaxConcurrentHalfOpenRequests
    PROVE  n + p <= MaxHalfOpenCount
<1>1. HalfOpenRequests \in Nat /\ MaxConcurrentHalfOpenRequests \in Nat
  BY BreakerAssumption
<1> QED
  BY <1>1 DEF MaxHalfOpenCount

\* An admission in the half-open state, or on entering it with halfOpenCount reset.
LEMMA AdmitInv ==
    ASSUME IInv, NEW c \in Calls, call[c] = "idle", Admit(c), state' = "HALF_OPEN",
           halfOpenCount' \in Nat, halfOpenCount' < HalfOpenRequests
    PROVE  IInv'
<1>1. call' \in [Calls -> Steps]
  BY DEF IInv, Admit, Steps
<1>2. Cardinality(ProbesIn(call')) = Cardinality(ProbesIn(call)) + 1
  BY ProbeAdmitted DEF IInv, Admit
<1>3. /\ pendingHalfOpenRequests' \in Nat
      /\ pendingHalfOpenRequests' <= MaxConcurrentHalfOpenRequests
      /\ HalfOpenBound'
  BY <1>2, HalfOpenBoundIs, ProbesFinite, BreakerAssumption DEF IInv, Admit
<1>4. halfOpenCount' + pendingHalfOpenRequests' <= MaxHalfOpenCount
  BY <1>3, SumBound, BreakerAssumption
<1>5. CountersBounded'
  BY <1>4 DEF CountersBounded, MaxHalfOpenCount
<1> QED
  BY <1>1, <1>3, <1>5 DEF IInv, States

\* The end of a probe, whatever the state it finds.
LEMMA ProbeEndInv ==
    ASSUME IInv, NEW c \in Calls, call[c] = "halfOpen",
           call' = [call EXCEPT ![c] = "idle"],
           pendingHalfOpenRequests' = pendingHalfOpenRequests - 1
    PROVE  /\ call' \in [Calls -> Steps]
           /\ pendingHalfOpenRequests' \in Nat
           /\ HalfOpenBound'
<1>1. call' \in [Calls -> Steps]
  BY DEF IInv, Steps
<1>2. Cardinality(ProbesIn(call')) = Cardinality(ProbesIn(call)) - 1
  BY ProbeEnded DEF IInv
<1>3. Cardinality(ProbesIn(call')) \in Nat /\ Cardinality(ProbesIn(call)) \in Nat
  BY ProbesFinite
<1> QED
  BY <1>1, <1>2, <1>3, HalfOpenBoundIs, BreakerAssumption DEF IInv

\* A step of a call that was no probe and does not become one.
LEMMA OtherInv ==
    ASSUME IInv, NEW c \in Calls, call[c] # "halfOpen", NEW t \in {"idle", "closed"},
           call' = [call EXCEPT ![c] = t],
           UNCHANGED <<halfOpenCount, pendingHalfOpenRequests>>,
           state' \in States, state' = "HALF_OPEN" => state = "HALF_OPEN"
    PROVE  IInv'
<1>1. call' \in [Calls -> Steps]
  BY DEF IInv, Steps
<1>2. ProbesIn(call') = ProbesIn(call)
  BY OtherCalls DEF IInv
<1>3. HalfOpenBound'
  BY <1>2, HalfOpenBoundIs DEF IInv
<1>4. CountersBounded'
  BY DEF IInv, CountersBounded, MaxHalfOpenCount
<1> QED
  BY <1>1, <1>3, <1>4 DEF IInv

LEMMA NextInv == IInv /\ [Next]_vars => IInv'
<1> SUFFICES ASSUME IInv, [Next]_vars PROVE IInv'
  OBVIOUS
<1>1. ASSUME UNCHANGED <<state, halfOpenCount, pendingHalfOpenRequests, call>> PROVE IInv'
  BY <1>1 DEF IInv, HalfOpenBound, Probes, CountersBounded, MaxHalfOpenCount
<1>2. CASE Tick
  BY <1>1, <1>2 DEF Tick
<1>3. ASSUME NEW c \in Calls, ExecuteClosed(c) PROVE IInv'
  BY <1>3, OtherInv DEF ExecuteClosed, IInv
<1>4. ASSUME NEW c \in Calls, ExecuteOpen(c) PROVE IInv'
  <2>1. CASE Admit(c)
    BY <1>4, <2>1, AdmitInv, BreakerAssumption DEF ExecuteOpen
  <2>2. CASE Reject
    <3>1. HalfOpenBound'
      BY <2>2 DEF Reject, IInv, HalfOpenBound, Probes
    <3>2. pendingHalfOpenRequests \in Nat /\ pendingHalfOpenRequests <= MaxConcurrentHalfOpenRequests
      BY DEF IInv, HalfOpenBound
    <3>3. CountersBounded'
      BY <1>4, <2>2, <3>2, BreakerAssumption
      DEF ExecuteOpen, Reject, CountersBounded, MaxHalfOpenCount
    <3> QED
      BY <1>4, <2>2, <3>1, <3>3 DEF ExecuteOpen, Reject, IInv, States
  <2> QED
    BY <1>4, <2>1, <2>2 DEF ExecuteOpen
<1>5. ASSUME NEW c \in Calls, ExecuteHalfOpen(c) PROVE IInv'
  BY <1>5, AdmitInv DEF ExecuteHalfOpen, IInv, CountersBounded
<1>6. ASSUME NEW c \in Calls, SucceedClosed(c) PROVE IInv'
  BY <1>6, OtherInv DEF SucceedClosed, IInv
<1>7. ASSUME NEW c \in Calls, FailClosed(c) PROVE IInv'
  <2>1. state' \in States /\ (state' = "HALF_OPEN" => state = "HALF_OPEN")
    BY <1>7 DEF FailClosed, IInv, States
  <2> QED
    BY <1>7, <2>1, OtherInv DEF FailClosed
<1>8. ASSUME NEW c \in Calls, SucceedHalfOpen(c) PROVE IInv'
  <2>1. /\ call' \in [Calls -> Steps]
        /\ pendingHalfOpenRequests' \in Nat
        /\ HalfOpenBound'
    BY <1>8, ProbeEndInv DEF SucceedHalfOpen
  <2>2. CountersBounded'
    BY <1>8, <2>1, BreakerAssumption
    DEF SucceedHalfOpen, IInv, CountersBounded, MaxHalfOpenCount
  <2> QED
    BY <1>8, <2>1, <2>2 DEF SucceedHalfOpen, IInv, States
<1>9. ASSUME NEW c \in Calls, FailHalfOpen(c) PROVE IInv'
  <2>1. /\ call' \in [Calls -> Steps]
        /\ pendingHalfOpenRequests' \in Nat
        /\ HalfOpenBound'
    BY <1>9, ProbeEndInv DEF FailHalfOpen
  <2>2. CountersBounded'
    BY <1>9, <2>1, BreakerAssumption
    DEF FailHalfOpen, IInv, CountersBounded, MaxHalfOpenCount
  <2> QED
    BY <1>9, <2>1, <2>2 DEF FailHalfOpen, IInv, States
<1> QED
  BY <1>1, <1>2, <1>3, <1>4, <1>5, <1>6, <1>7, <1>8, <1>9
  DEF Next, vars, Execute, Succeed, Fail

-----------------------------------------------------------------------------

\* Whatever the options and however many calls overlap: the number of probes is what
\* pendingHalfOpenRequests says and never above maxConcurrentHalfOpenRequests, though
\* probes outlive the half-open state they were admitted in (handleHalfOpenState).
THEOREM ProbesAreBounded == Spec => []HalfOpenBound
<1>1. IInv => HalfOpenBound
  BY DEF IInv
<1> QED
  BY <1>1, InitInv, NextInv, PTL DEF Spec

\* A breaker that is half open always lacks a success to close, and no success of an
\* old probe takes halfOpenCount beyond MaxHalfOpenCount (handleHalfOpenState).
THEOREM CountersAreBounded == Spec => []CountersBounded
<1>1. IInv => CountersBounded
  BY DEF IInv
<1> QED
  BY <1>1, InitInv, NextInv, PTL DEF Spec

-----------------------------------------------------------------------------
(* The sliding window. *)

\* The events of a window that have not expired, by their places.
KeptIn(window) == {i \in DOMAIN window : Unexpired(window[i])}

\* The places up to i.
UpTo(kept, i) == {j \in kept : j <= i}

\* Every k up to their number is the rank of one of finitely many places: ranks are an
\* injection into the numbers up to it.
LEMMA RankExists ==
    ASSUME NEW kept \in SUBSET Nat, IsFiniteSet(kept), NEW k \in 1..Cardinality(kept)
    PROVE  \E i \in kept : Cardinality(UpTo(kept, i)) = k
<1> DEFINE n == Cardinality(kept)
           rank == [i \in kept |-> Cardinality(UpTo(kept, i))]
<1>1. n \in Nat
  BY FS_CardinalityType
<1>2. ASSUME NEW i \in kept
      PROVE  /\ IsFiniteSet(UpTo(kept, i)) /\ Cardinality(UpTo(kept, i)) \in 1..n
  <2>1. UpTo(kept, i) \in SUBSET kept /\ i \in UpTo(kept, i)
    BY DEF UpTo
  <2>2. IsFiniteSet(UpTo(kept, i)) /\ Cardinality(UpTo(kept, i)) <= n
    BY <2>1, FS_Subset
  <2>3. Cardinality(UpTo(kept, i)) \in Nat /\ Cardinality(UpTo(kept, i)) # 0
    BY <2>1, <2>2, FS_CardinalityType, FS_EmptySet
  <2> HIDE DEF n
  <2> QED
    BY <1>1, <2>2, <2>3
<1>3. ASSUME NEW i \in kept, NEW j \in kept, i < j
      PROVE  Cardinality(UpTo(kept, i)) # Cardinality(UpTo(kept, j))
  <2>1. UpTo(kept, i) \in SUBSET UpTo(kept, j) /\ UpTo(kept, i) # UpTo(kept, j)
    <3>1. j \in UpTo(kept, j) /\ j \notin UpTo(kept, i)
      BY <1>3 DEF UpTo
    <3>2. \A x \in kept : x <= i => x <= j
      BY <1>3
    <3>3. UpTo(kept, i) \in SUBSET UpTo(kept, j)
      BY <3>2 DEF UpTo
    <3> QED
      BY <3>1, <3>3
  <2> QED
    BY <1>2, <2>1, FS_Subset
<1>4. rank \in Injection(kept, 1..n)
  <2>1. rank \in [kept -> 1..n]
    BY <1>2
  <2>2. ASSUME NEW i \in kept, NEW j \in kept, rank[i] = rank[j] PROVE i = j
    <3>1. ~(i < j) /\ ~(j < i)
      BY <1>3, <2>2
    <3> QED
      BY <3>1
  <2> QED
    BY <2>1, <2>2 DEF Injection, IsInjective
<1>5. IsFiniteSet(1..n) /\ Cardinality(1..n) = n
  BY <1>1, FS_Interval
<1>6. rank \in Surjection(kept, 1..n)
  BY <1>4, <1>5, FS_Injection
<1>7. PICK i \in kept : rank[i] = k
  BY <1>6 DEF Surjection
<1> QED
  BY <1>7

\* getCount removes the expired events and no other: as many are left as have not expired.
LEMMA WindowFilter ==
    ASSUME NEW s \in Seq(Nat)
    PROVE  /\ IsFiniteSet(KeptIn(s)) /\ Cardinality(KeptIn(s)) \in Nat
           /\ Cardinality(KeptIn(s)) <= Len(s)
           /\ WithoutExpired(s) \in Seq(Nat)
           /\ Len(WithoutExpired(s)) = Cardinality(KeptIn(s))
<1> DEFINE kept == KeptIn(s)
           n == Cardinality(kept)
           nth(k) == CHOOSE i \in kept : Cardinality(UpTo(kept, i)) = k
           w == [k \in 1..n |-> s[nth(k)]]
<1>1. Len(s) \in Nat /\ DOMAIN s = 1..Len(s) /\ \A i \in 1..Len(s) : s[i] \in Nat
  BY LenProperties
<1>2. kept \in SUBSET (1..Len(s))
  BY <1>1 DEF KeptIn
<1>3. IsFiniteSet(1..Len(s)) /\ Cardinality(1..Len(s)) = Len(s)
  BY <1>1, FS_Interval
<1>4. IsFiniteSet(kept) /\ n <= Len(s)
  BY <1>2, <1>3, FS_Subset
<1>5. n \in Nat
  BY <1>4, FS_CardinalityType
<1>6. WithoutExpired(s) = w
  BY DEF WithoutExpired, KeptIn, UpTo
<1> HIDE DEF kept
<1>7. ASSUME NEW k \in 1..n PROVE s[nth(k)] \in Nat
  <2>1. \E i \in kept : Cardinality(UpTo(kept, i)) = k
    <3>1. kept \in SUBSET Nat
      BY <1>1, <1>2
    <3> QED
      BY <1>4, <3>1, RankExists
  <2>2. nth(k) \in kept
    BY <2>1
  <2> QED
    BY <1>1, <1>2, <2>2
<1>8. w \in [1..n -> Nat] /\ DOMAIN w = 1..n
  BY <1>7
<1> HIDE DEF w, n
<1>9. w \in Seq(Nat)
  BY <1>5, <1>8, SeqDef
<1>10. Len(w) = n
  <2>1. Len(w) \in Nat /\ 1..Len(w) = 1..n
    BY <1>8, <1>9, LenProperties
  <2> QED
    BY <1>5, <2>1
<1> QED
  BY <1>4, <1>5, <1>6, <1>9, <1>10 DEF kept, n

\* A window in which no event has become younger counts no more than before.
LEMMA OlderCountsLess ==
    ASSUME NEW s \in Seq(Nat), NEW u \in Seq(Nat), KeptIn(u) \subseteq KeptIn(s)
    PROVE  Len(WithoutExpired(u)) <= Len(WithoutExpired(s))
<1>1. IsFiniteSet(KeptIn(s))
  BY WindowFilter
<1>2. Cardinality(KeptIn(u)) <= Cardinality(KeptIn(s))
  BY <1>1, FS_Subset
<1> QED
  BY <1>2, WindowFilter

\* The window keeps its type when an event is added.
LEMMA WithEventType ==
    ASSUME NEW s \in Seq(Nat)
    PROVE  WithEvent(s) \in Seq(Nat)
<1> DEFINE e == Append(s, 0)
           m == Len(e) - 2 * MaxFailures + 1
<1>1. e \in Seq(Nat) /\ Len(e) \in Nat /\ \A i \in 1..Len(e) : e[i] \in Nat
  BY AppendProperties, LenProperties
<1>2. MaxFailures \in Nat
  BY BreakerAssumption
<1>3. WithEvent(s) = IF Len(e) > 2 * MaxFailures THEN SubSeq(e, m, Len(e)) ELSE e
  BY DEF WithEvent
<1> HIDE DEF e
<1>4. CASE Len(e) > 2 * MaxFailures
  <2>1. m \in Int /\ Len(e) \in Int /\ \A i \in m..Len(e) : i \in 1..Len(e)
    BY <1>1, <1>2, <1>4
  <2>2. \A i \in m..Len(e) : e[i] \in Nat
    BY <1>1, <2>1
  <2> HIDE DEF m
  <2>3. SubSeq(e, m, Len(e)) \in Seq(Nat)
    BY <2>1, <2>2, SubSeqProperties
  <2> QED
    BY <1>3, <1>4, <2>3
<1> QED
  BY <1>1, <1>3, <1>4

\* The invariant of the window.
WindowInv == eventTimestamps \in Seq(Nat) /\ ClosedBelowThreshold

LEMMA WindowInit == Init => WindowInv
<1> SUFFICES ASSUME Init PROVE WindowInv
  OBVIOUS
<1>1. eventTimestamps \in Seq(Nat) /\ Len(eventTimestamps) = 0
  BY EmptySeq DEF Init
<1>2. Len(WithoutExpired(eventTimestamps)) \in Nat /\ Len(WithoutExpired(eventTimestamps)) <= 0
  BY <1>1, WindowFilter
<1> QED
  BY <1>1, <1>2, BreakerAssumption DEF WindowInv, ClosedBelowThreshold

LEMMA WindowNext == WindowInv /\ [Next]_vars => WindowInv'
<1> SUFFICES ASSUME WindowInv, [Next]_vars PROVE WindowInv'
  OBVIOUS
<1>1. eventTimestamps \in Seq(Nat) /\ MaxFailures \in Nat \ {0} /\ FailureWindow \in Nat
  BY BreakerAssumption DEF WindowInv
<1>2. ASSUME UNCHANGED eventTimestamps, state' = "CLOSED" => state = "CLOSED" PROVE WindowInv'
  BY <1>2 DEF WindowInv, ClosedBelowThreshold
<1>3. CASE Tick
  <2>1. /\ eventTimestamps' = [i \in DOMAIN eventTimestamps |->
                                 Older(eventTimestamps[i], FailureWindow + 1)]
        /\ state' = state
    BY <1>3 DEF Tick
  <2>2. PICK n : n = Len(eventTimestamps)
    OBVIOUS
  <2>3. /\ n \in Nat /\ DOMAIN eventTimestamps = 1..n
        /\ \A i \in 1..n : eventTimestamps[i] \in Nat
    BY <1>1, <2>2, LenProperties
  <2>4. \A i \in 1..n : Older(eventTimestamps[i], FailureWindow + 1) \in Nat
    BY <1>1, <2>3 DEF Older
  <2>5. eventTimestamps' \in Seq(Nat)
    <3>1. eventTimestamps' \in [1..n -> Nat]
      BY <2>1, <2>3, <2>4
    <3> QED
      BY <2>3, <3>1, SeqDef
  <2>6. KeptIn(eventTimestamps') \subseteq KeptIn(eventTimestamps)
    <3> SUFFICES ASSUME NEW i \in 1..n, Unexpired(Older(eventTimestamps[i], FailureWindow + 1))
                 PROVE  Unexpired(eventTimestamps[i])
      BY <2>1, <2>3 DEF KeptIn
    <3> QED
      BY <1>1, <2>3 DEF Unexpired, Older
  <2>7. Len(WithoutExpired(eventTimestamps')) <= Len(WithoutExpired(eventTimestamps))
    BY <1>1, <2>5, <2>6, OlderCountsLess
  <2>8. /\ Len(WithoutExpired(eventTimestamps')) \in Nat
        /\ Len(WithoutExpired(eventTimestamps)) \in Nat
    BY <1>1, <2>5, WindowFilter
  <2>9. ClosedBelowThreshold'
    <3> SUFFICES ASSUME state' = "CLOSED"
                 PROVE  Len(WithoutExpired(eventTimestamps')) < MaxFailures
      BY DEF ClosedBelowThreshold
    <3>1. Len(WithoutExpired(eventTimestamps)) < MaxFailures
      BY <2>1 DEF WindowInv, ClosedBelowThreshold
    <3> QED
      BY <1>1, <2>7, <2>8, <3>1
  <2> QED
    BY <2>5, <2>9 DEF WindowInv
<1>4. ASSUME NEW c \in Calls, Execute(c) \/ SucceedClosed(c) PROVE WindowInv'
  BY <1>2, <1>4 DEF Execute, ExecuteClosed, ExecuteOpen, ExecuteHalfOpen, SucceedClosed
<1>5. ASSUME NEW c \in Calls, FailClosed(c) PROVE WindowInv'
  <2>1. PICK s : s = WithEvent(eventTimestamps)
    OBVIOUS
  <2>2. s \in Seq(Nat)
    BY <1>1, <2>1, WithEventType
  <2>3. /\ eventTimestamps' = WithoutExpired(s)
        /\ state' = IF Len(eventTimestamps') >= MaxFailures THEN "OPEN" ELSE state
    BY <1>5, <2>1 DEF FailClosed
  <2>4. eventTimestamps' \in Seq(Nat)
    BY <2>2, <2>3, WindowFilter
  <2>5. /\ Len(eventTimestamps') \in Nat
        /\ Len(WithoutExpired(eventTimestamps')) <= Len(eventTimestamps')
        /\ Len(WithoutExpired(eventTimestamps')) \in Nat
    BY <2>4, WindowFilter, LenProperties
  <2>6. ClosedBelowThreshold'
    <3> SUFFICES ASSUME state' = "CLOSED"
                 PROVE  Len(WithoutExpired(eventTimestamps')) < MaxFailures
      BY DEF ClosedBelowThreshold
    <3>1. ~(Len(eventTimestamps') >= MaxFailures)
      BY <2>3
    <3> QED
      BY <1>1, <2>5, <3>1
  <2> QED
    BY <2>4, <2>6 DEF WindowInv
<1>6. ASSUME NEW c \in Calls, SucceedHalfOpen(c) PROVE WindowInv'
  <2>1. CASE eventTimestamps' = <<>>
    <3>1. eventTimestamps' \in Seq(Nat) /\ Len(eventTimestamps') = 0
      BY <2>1, EmptySeq
    <3>2. /\ Len(WithoutExpired(eventTimestamps')) \in Nat
          /\ Len(WithoutExpired(eventTimestamps')) <= 0
      BY <3>1, WindowFilter
    <3> QED
      BY <1>1, <3>1, <3>2 DEF WindowInv, ClosedBelowThreshold
  <2>2. CASE UNCHANGED <<state, eventTimestamps>>
    BY <1>2, <2>2
  <2> QED
    BY <1>6, <2>1, <2>2 DEF SucceedHalfOpen
<1>7. ASSUME NEW c \in Calls, FailHalfOpen(c) PROVE WindowInv'
  <2>1. eventTimestamps' = WithEvent(eventTimestamps) /\ state' = "OPEN"
    BY <1>7 DEF FailHalfOpen
  <2> QED
    BY <1>1, <2>1, WithEventType DEF WindowInv, ClosedBelowThreshold
<1> QED
  BY <1>2, <1>3, <1>4, <1>5, <1>6, <1>7 DEF Next, vars, Succeed, Fail

\* However the breaker came to be closed and whichever calls of earlier states end in it,
\* a closed breaker has seen fewer than maxFailures failures in its window
\* (handleClosedState, handleHalfOpenState, getFailureCount).
THEOREM ClosedIsBelowThreshold == Spec => []ClosedBelowThreshold
<1>1. WindowInv => ClosedBelowThreshold
  BY DEF WindowInv
<1> QED
  BY <1>1, WindowInit, WindowNext, PTL DEF Spec
=============================================================================
