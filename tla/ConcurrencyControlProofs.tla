---------------------- MODULE ConcurrencyControlProofs ----------------------
(***************************************************************************)
(* Proofs, for any set of calls and any limits, that the concurrency       *)
(* control neither loses nor invents capacity.  The inductive invariant is *)
(* the conjunction of the type invariant, the correspondence between       *)
(* queues and pending reservations, the capacity equation and work         *)
(* conservation: the equation is only kept if a resolved call was pending  *)
(* and queued once, and work is only conserved if the equation holds.      *)
(***************************************************************************)
EXTENDS ConcurrencyControl, FiniteSetTheorems, SequenceTheorems, TLAPS

\* The calls that hold a reservation of queue q in the reservation map r.
HeldIn(r, q) == {c \in Calls : r[c] = "held" /\ QueueOf(c) = q}

\* QueuedOnce for a reservation map r and a queue map Q.
QueuedOnceIn(r, Q) ==
    /\ \A q \in Queues : \A i \in DOMAIN Q[q] :
          r[Q[q][i]] = "waiting" /\ QueueOf(Q[q][i]) = q
    /\ \A q \in Queues : \A i, j \in DOMAIN Q[q] : Q[q][i] = Q[q][j] => i = j
    /\ \A c \in Calls : r[c] = "waiting" =>
          \E q \in Queues : \E i \in DOMAIN Q[q] : Q[q][i] = c

\* The inductive invariant.
IInv == TypeOK /\ QueuedOnce /\ CapacityAccounting /\ WorkConserving

-----------------------------------------------------------------------------

\* The holders of a queue are finitely many, so that they can be counted.
LEMMA HeldFinite ==
    ASSUME NEW r, NEW q
    PROVE  IsFiniteSet(HeldIn(r, q)) /\ Cardinality(HeldIn(r, q)) \in Nat
<1>1. HeldIn(r, q) \subseteq Calls
  BY DEF HeldIn
<1>2. IsFiniteSet(Calls)
  BY ConstantsAssumption
<1>3. IsFiniteSet(HeldIn(r, q))
  BY <1>1, <1>2, FS_Subset
<1> QED
  BY <1>3, FS_CardinalityType

\* A call that did not hold a reservation and now does is one more holder of
\* its own queue and of no other.
LEMMA HeldAdd ==
    ASSUME NEW r \in [Calls -> ReservationStates], NEW c \in Calls,
           r[c] # "held", NEW q
    PROVE  Cardinality(HeldIn([r EXCEPT ![c] = "held"], q)) =
              Cardinality(HeldIn(r, q)) + (IF QueueOf(c) = q THEN 1 ELSE 0)
<1> DEFINE s == [r EXCEPT ![c] = "held"]
<1>1. CASE QueueOf(c) = q
  <2>1. HeldIn(s, q) = HeldIn(r, q) \cup {c} /\ c \notin HeldIn(r, q)
    BY <1>1 DEF HeldIn
  <2> QED
    BY <1>1, <2>1, HeldFinite, FS_AddElement
<1>2. CASE QueueOf(c) # q
  <2>1. HeldIn(s, q) = HeldIn(r, q)
    BY <1>2 DEF HeldIn
  <2> QED
    BY <1>2, <2>1, HeldFinite
<1> QED
  BY <1>1, <1>2

\* A call that gives its reservation back is one holder less.
LEMMA HeldRemove ==
    ASSUME NEW r \in [Calls -> ReservationStates], NEW c \in Calls,
           r[c] = "held", NEW q
    PROVE  Cardinality(HeldIn([r EXCEPT ![c] = "released"], q)) =
              Cardinality(HeldIn(r, q)) - (IF QueueOf(c) = q THEN 1 ELSE 0)
<1> DEFINE s == [r EXCEPT ![c] = "released"]
<1>1. CASE QueueOf(c) = q
  <2>1. HeldIn(s, q) = HeldIn(r, q) \ {c} /\ c \in HeldIn(r, q)
    BY <1>1 DEF HeldIn
  <2>2. IsFiniteSet(HeldIn(r, q)) /\ Cardinality(HeldIn(r, q)) \in Nat
    BY HeldFinite
  <2>3. Cardinality(HeldIn(r, q) \ {c}) = Cardinality(HeldIn(r, q)) - 1
    BY <2>1, <2>2, FS_RemoveElement
  <2> HIDE DEF s
  <2> QED
    BY <1>1, <2>1, <2>3 DEF s
<1>2. CASE QueueOf(c) # q
  <2>1. HeldIn(s, q) = HeldIn(r, q)
    BY <1>2 DEF HeldIn
  <2> QED
    BY <1>2, <2>1, HeldFinite
<1> QED
  BY <1>1, <1>2

\* What RemoveAt leaves of a sequence, position by position.
LEMMA RemoveAtIs ==
    ASSUME NEW S, NEW s \in Seq(S), NEW i \in DOMAIN s
    PROVE  /\ RemoveAt(s, i) \in Seq(S)
           /\ Len(RemoveAt(s, i)) = Len(s) - 1
           /\ DOMAIN RemoveAt(s, i) = 1..(Len(s) - 1)
           /\ \A k \in 1..(Len(s) - 1) :
                 RemoveAt(s, i)[k] = IF k < i THEN s[k] ELSE s[k + 1]
<1> DEFINE a == SubSeq(s, 1, i - 1)
           b == SubSeq(s, i + 1, Len(s))
           t == a \o b
<1>1. i \in 1..Len(s) /\ Len(s) \in Nat
  BY LenProperties
<1>2. a \in Seq(S) /\ Len(a) = i - 1 /\ \A k \in 1..(i - 1) : a[k] = s[k]
  BY <1>1, SubSeqProperties
<1>3. b \in Seq(S) /\ Len(b) = Len(s) - i /\ \A k \in 1..(Len(s) - i) : b[k] = s[i + k]
  BY <1>1, SubSeqProperties
<1>4. RemoveAt(s, i) = t
  BY DEF RemoveAt
<1> HIDE DEF a, b
<1>5. /\ t \in Seq(S)
      /\ Len(t) = Len(a) + Len(b)
      /\ \A k \in 1..(Len(a) + Len(b)) :
            t[k] = IF k <= Len(a) THEN a[k] ELSE b[k - Len(a)]
  BY <1>2, <1>3, ConcatProperties
<1> HIDE DEF t
<1>6. Len(a) + Len(b) = Len(s) - 1
  BY <1>1, <1>2, <1>3
<1>7. Len(t) = Len(s) - 1
  BY <1>5, <1>6
<1>8. DOMAIN t = 1..(Len(s) - 1)
  BY <1>5, <1>7, LenProperties
<1>9. \A k \in 1..(Len(s) - 1) :
         t[k] = IF k <= i - 1 THEN a[k] ELSE b[k - (i - 1)]
  BY <1>2, <1>5, <1>6
<1>10. ASSUME NEW k \in 1..(Len(s) - 1)
       PROVE  t[k] = IF k < i THEN s[k] ELSE s[k + 1]
  <2>1. CASE k < i
    BY <1>1, <1>2, <1>9, <2>1
  <2>2. CASE ~(k < i)
    <3>1. t[k] = b[k - (i - 1)]
      BY <1>1, <1>9, <2>2
    <3>2. k - (i - 1) \in 1..(Len(s) - i)
      BY <1>1, <2>2
    <3>3. b[k - (i - 1)] = s[i + (k - (i - 1))]
      BY <1>3, <3>2
    <3>4. i + (k - (i - 1)) = k + 1
      BY <1>1
    <3> QED
      BY <2>2, <3>1, <3>3, <3>4
  <2> QED
    BY <2>1, <2>2
<1> QED
  BY <1>4, <1>5, <1>7, <1>8, <1>10

-----------------------------------------------------------------------------

\* Changing the reservation of a call that is not and will not be waiting.
LEMMA QueuedOther ==
    ASSUME NEW Q \in [Queues -> Seq(Calls)], NEW r \in [Calls -> ReservationStates],
           QueuedOnceIn(r, Q), NEW c \in Calls, r[c] # "waiting",
           NEW v \in ReservationStates, v # "waiting"
    PROVE  QueuedOnceIn([r EXCEPT ![c] = v], Q)
<1>1. \A q \in Queues : \A i \in DOMAIN Q[q] : Q[q][i] \in Calls /\ Q[q][i] # c
  BY LenProperties DEF QueuedOnceIn
<1> QED
  BY <1>1 DEF QueuedOnceIn

\* Appending a call that becomes waiting.
LEMMA QueuedAppend ==
    ASSUME NEW Q \in [Queues -> Seq(Calls)], NEW r \in [Calls -> ReservationStates],
           QueuedOnceIn(r, Q), NEW c \in Calls, r[c] # "waiting",
           QueueOf(c) \in Queues
    PROVE  QueuedOnceIn([r EXCEPT ![c] = "waiting"],
                        [Q EXCEPT ![QueueOf(c)] = Append(@, c)])
<1> DEFINE p == QueueOf(c)
           s == [r EXCEPT ![c] = "waiting"]
           R == [Q EXCEPT ![p] = Append(@, c)]
           n == Len(Q[p])
<1>1. /\ n \in Nat /\ DOMAIN Q[p] = 1..n
      /\ DOMAIN R[p] = 1..(n + 1)
      /\ \A i \in 1..n : R[p][i] = Q[p][i]
      /\ R[p][n + 1] = c
  BY LenProperties, AppendProperties
<1>2. \A q \in Queues : q # p => R[q] = Q[q]
  OBVIOUS
<1>3. \A q \in Queues : \A i \in DOMAIN Q[q] : Q[q][i] \in Calls /\ Q[q][i] # c
  BY LenProperties DEF QueuedOnceIn
<1>4. s[c] = "waiting" /\ \A d \in Calls : d # c => s[d] = r[d]
  OBVIOUS
<1> HIDE DEF R, s, n
<1>5. \A q \in Queues : \A i \in DOMAIN R[q] :
         s[R[q][i]] = "waiting" /\ QueueOf(R[q][i]) = q
  <2> SUFFICES ASSUME NEW q \in Queues, NEW i \in DOMAIN R[q]
               PROVE  s[R[q][i]] = "waiting" /\ QueueOf(R[q][i]) = q
    OBVIOUS
  <2>1. CASE q = p /\ i = n + 1
    BY <1>1, <1>4, <2>1
  <2>2. CASE q = p /\ i # n + 1
    <3>1. i \in DOMAIN Q[q] /\ R[q][i] = Q[q][i]
      BY <1>1, <2>2
    <3> QED
      BY <1>3, <1>4, <3>1 DEF QueuedOnceIn
  <2>3. CASE q # p
    BY <1>2, <1>3, <1>4, <2>3 DEF QueuedOnceIn
  <2> QED
    BY <2>1, <2>2, <2>3
<1>6. \A q \in Queues : \A i, j \in DOMAIN R[q] : R[q][i] = R[q][j] => i = j
  <2> SUFFICES ASSUME NEW q \in Queues, NEW i \in DOMAIN R[q], NEW j \in DOMAIN R[q],
                      R[q][i] = R[q][j]
               PROVE  i = j
    OBVIOUS
  <2>1. CASE q # p
    BY <1>2, <2>1 DEF QueuedOnceIn
  <2>2. CASE q = p
    <3>1. i \in 1..(n + 1) /\ j \in 1..(n + 1)
      BY <1>1, <2>2
    <3>2. ASSUME i \in 1..n, j \in 1..n PROVE i = j
      BY <1>1, <2>2, <3>2 DEF QueuedOnceIn
    <3>3. ASSUME i \in 1..n, j = n + 1 PROVE FALSE
      BY <1>1, <1>3, <2>2, <3>3
    <3>4. ASSUME i = n + 1, j \in 1..n PROVE FALSE
      BY <1>1, <1>3, <2>2, <3>4
    <3> QED
      BY <1>1, <3>1, <3>2, <3>3, <3>4
  <2> QED
    BY <2>1, <2>2
<1>7. \A d \in Calls : s[d] = "waiting" =>
         \E q \in Queues : \E i \in DOMAIN R[q] : R[q][i] = d
  <2> SUFFICES ASSUME NEW d \in Calls, s[d] = "waiting"
               PROVE  \E q \in Queues : \E i \in DOMAIN R[q] : R[q][i] = d
    OBVIOUS
  <2>1. CASE d = c
    <3>1. n + 1 \in DOMAIN R[p] /\ R[p][n + 1] = d
      BY <1>1, <2>1
    <3> QED
      BY <3>1
  <2>2. CASE d # c
    <3>1. PICK q \in Queues : \E i \in DOMAIN Q[q] : Q[q][i] = d
      BY <1>4, <2>2 DEF QueuedOnceIn
    <3>2. PICK i \in DOMAIN Q[q] : Q[q][i] = d
      BY <3>1
    <3>3. i \in DOMAIN R[q] /\ R[q][i] = d
      BY <1>1, <1>2, <3>2
    <3> QED
      BY <3>3
  <2> QED
    BY <2>1, <2>2
<1> QED
  BY <1>5, <1>6, <1>7 DEF QueuedOnceIn, R, s

\* Taking the item at position i out of a queue, its call no longer waiting.
LEMMA QueuedRemove ==
    ASSUME NEW Q \in [Queues -> Seq(Calls)], NEW r \in [Calls -> ReservationStates],
           QueuedOnceIn(r, Q), NEW p \in Queues, NEW m \in DOMAIN Q[p],
           NEW v \in ReservationStates, v # "waiting",
           NEW rest \in Seq(Calls),
           DOMAIN rest = 1..(Len(Q[p]) - 1),
           \A k \in 1..(Len(Q[p]) - 1) :
              rest[k] = IF k < m THEN Q[p][k] ELSE Q[p][k + 1]
    PROVE  QueuedOnceIn([r EXCEPT ![Q[p][m]] = v], [Q EXCEPT ![p] = rest])
<1> DEFINE c == Q[p][m]
           s == [r EXCEPT ![c] = v]
           R == [Q EXCEPT ![p] = rest]
           n == Len(Q[p])
           old(k) == IF k < m THEN k ELSE k + 1
<1>1. n \in Nat /\ DOMAIN Q[p] = 1..n /\ m \in 1..n /\ c \in Calls
  BY LenProperties
<1>2. R[p] = rest /\ DOMAIN R[p] = 1..(n - 1) /\ \A q \in Queues : q # p => R[q] = Q[q]
  OBVIOUS
<1>3. \A k \in DOMAIN R[p] : old(k) \in DOMAIN Q[p] /\ old(k) # m
                                  /\ R[p][k] = Q[p][old(k)]
  BY <1>1, <1>2
<1>4. \A j, k \in DOMAIN R[p] : old(j) = old(k) => j = k
  BY <1>1, <1>2
<1>5. \A j \in DOMAIN Q[p] : j # m => \E k \in DOMAIN R[p] : old(k) = j
  <2> SUFFICES ASSUME NEW j \in 1..n, j # m PROVE \E k \in 1..(n - 1) : old(k) = j
    BY <1>1, <1>2
  <2>1. CASE j < m
    <3>1. j \in 1..(n - 1) /\ old(j) = j
      BY <1>1, <2>1
    <3> QED BY <3>1
  <2>2. CASE j > m
    <3>1. j - 1 \in 1..(n - 1) /\ old(j - 1) = j
      BY <1>1, <2>2
    <3> QED BY <3>1
  <2> QED
    BY <1>1, <2>1, <2>2
<1>6. s[c] = v /\ \A d \in Calls : d # c => s[d] = r[d]
  BY <1>1
<1>7. \A q \in Queues : \A i \in DOMAIN Q[q] :
         /\ Q[q][i] \in Calls
         /\ (q # p \/ i # m) => Q[q][i] # c
  BY <1>1, LenProperties DEF QueuedOnceIn
<1>10. c = Q[p][m]
  OBVIOUS
<1> HIDE DEF R, s, n, old, c
<1>8. \A q \in Queues : \A i \in DOMAIN R[q] :
         \E j \in DOMAIN Q[q] : (q # p \/ j # m) /\ R[q][i] = Q[q][j]
  BY <1>2, <1>3
<1>a. \A q \in Queues : \A i \in DOMAIN R[q] :
         s[R[q][i]] = "waiting" /\ QueueOf(R[q][i]) = q
  BY <1>6, <1>7, <1>8 DEF QueuedOnceIn
<1>b. \A q \in Queues : \A i, j \in DOMAIN R[q] : R[q][i] = R[q][j] => i = j
  <2> SUFFICES ASSUME NEW q \in Queues, NEW i \in DOMAIN R[q], NEW j \in DOMAIN R[q],
                      R[q][i] = R[q][j]
               PROVE  i = j
    OBVIOUS
  <2>1. CASE q # p
    BY <1>2, <2>1 DEF QueuedOnceIn
  <2>2. CASE q = p
    <3>1. Q[p][old(i)] = Q[p][old(j)] /\ old(i) \in DOMAIN Q[p] /\ old(j) \in DOMAIN Q[p]
      BY <1>3, <2>2
    <3>2. old(i) = old(j)
      BY <3>1 DEF QueuedOnceIn
    <3> QED
      BY <1>4, <2>2, <3>2
  <2> QED
    BY <2>1, <2>2
<1>c. \A d \in Calls : s[d] = "waiting" =>
         \E q \in Queues : \E i \in DOMAIN R[q] : R[q][i] = d
  <2> SUFFICES ASSUME NEW d \in Calls, s[d] = "waiting"
               PROVE  \E q \in Queues : \E i \in DOMAIN R[q] : R[q][i] = d
    OBVIOUS
  <2>1. d # c /\ r[d] = "waiting"
    BY <1>6
  <2>2. PICK q \in Queues : \E i \in DOMAIN Q[q] : Q[q][i] = d
    BY <2>1 DEF QueuedOnceIn
  <2>3. PICK i \in DOMAIN Q[q] : Q[q][i] = d
    BY <2>2
  <2>4. CASE q # p
    BY <1>2, <2>3, <2>4
  <2>5. CASE q = p
    <3>1. i # m
      BY <1>10, <2>1, <2>3, <2>5
    <3>2. PICK k \in DOMAIN R[p] : old(k) = i
      BY <1>5, <2>5, <3>1
    <3>3. R[p][k] = d
      BY <1>3, <2>3, <2>5, <3>2
    <3> QED
      BY <3>3
  <2> QED
    BY <2>4, <2>5
<1> QED
  BY <1>a, <1>b, <1>c DEF QueuedOnceIn, R, s, c

-----------------------------------------------------------------------------

\* The limits are integers, and positive where there is a queue.
LEMMA LimitsType == limits \in [QueueTypes -> Int] /\ \A q \in Queues : limits[q] \in Nat \ {0}
BY ConstantsAssumption DEF limits, Queues

\* What GiveBack needs to hold of the intermediate state it starts from, that
\* is after the released or removed call has been accounted for.
BeforeGiveBack(q, rest, after) ==
    LET Q == [queue EXCEPT ![q] = rest] IN
    /\ q \in Queues
    /\ rest \in Seq(Calls)
    /\ after \in [Calls -> ReservationStates]
    /\ QueuedOnceIn(after, Q)
    /\ capacity[q] + 1 = limits[q] - Cardinality(HeldIn(after, q)) - Len(rest)
    /\ rest # <<>> => Cardinality(HeldIn(after, q)) + 1 >= limits[q]
    /\ \A p \in Queues : p # q =>
          /\ capacity[p] = limits[p] - Cardinality(HeldIn(after, p)) - Len(queue[p])
          /\ queue[p] # <<>> => Cardinality(HeldIn(after, p)) >= limits[p]

\* capacity++ followed by resolveNext() restores the invariant.
LEMMA GiveBackRestores ==
    ASSUME TypeOK, isEnabled, isEnabled' = isEnabled,
           NEW q, NEW rest, NEW after,
           BeforeGiveBack(q, rest, after), GiveBack(q, rest, after)
    PROVE  IInv'
<1> DEFINE Q == [queue EXCEPT ![q] = rest]
<1>0. /\ q \in Queues /\ rest \in Seq(Calls) /\ after \in [Calls -> ReservationStates]
      /\ Q \in [Queues -> Seq(Calls)] /\ Q[q] = rest
      /\ capacity \in [Queues -> Int] /\ queue \in [Queues -> Seq(Calls)]
      /\ QueuedOnceIn(after, Q)
      /\ limits[q] \in Int /\ Len(rest) \in Nat
      /\ capacity' = [capacity EXCEPT ![q] = @ + 1]
      /\ isEnabled' \in BOOLEAN
      /\ Cardinality(HeldIn(after, q)) \in Nat
  BY LimitsType, HeldFinite, LenProperties DEF BeforeGiveBack, TypeOK, GiveBack
<1>1. CASE rest = <<>>
  <2>1. queue' = Q /\ reservation' = after
    BY <1>0, <1>1 DEF GiveBack
  <2>2. TypeOK'
    BY <1>0, <2>1 DEF TypeOK
  <2>3. QueuedOnce'
    BY <1>0, <2>1 DEF QueuedOnce, QueuedOnceIn
  <2>4. \A p \in Queues : Held(p)' = HeldIn(after, p)
    BY <2>1 DEF Held, HeldIn
  <2>5. ASSUME NEW p \in Queues
        PROVE  /\ capacity'[p] = limits[p] - Cardinality(HeldIn(after, p)) - Len(queue'[p])
               /\ queue'[p] # <<>> => Cardinality(HeldIn(after, p)) >= limits[p]
    <3>1. CASE p = q
      BY <1>0, <1>1, <2>1, <3>1 DEF BeforeGiveBack
    <3>2. CASE p # q
      BY <1>0, <2>1, <3>2 DEF BeforeGiveBack
    <3> QED
      BY <3>1, <3>2
  <2>6. CapacityAccounting' /\ WorkConserving'
    BY <2>4, <2>5 DEF CapacityAccounting, WorkConserving
  <2> QED
    BY <2>2, <2>3, <2>6 DEF IInv
<1>2. CASE rest # <<>>
  <2> DEFINE h == rest[1]
             t == Tail(rest)
             r == [after EXCEPT ![h] = "held"]
  <2>1. /\ Head(rest) = h /\ h \in Calls /\ 1 \in DOMAIN rest
        /\ t \in Seq(Calls) /\ Len(t) = Len(rest) - 1
        /\ DOMAIN t = 1..(Len(rest) - 1)
        /\ \A k \in 1..(Len(rest) - 1) : t[k] = rest[k + 1]
    BY <1>0, <1>2, HeadTailProperties, LenProperties
  <2>2. queue' = [Q EXCEPT ![q] = t] /\ reservation' = r
    BY <1>0, <1>2, <2>1 DEF GiveBack
  <2>3. after[h] = "waiting" /\ QueueOf(h) = q
    BY <1>0, <2>1 DEF QueuedOnceIn
  <2>4. TypeOK'
    BY <1>0, <2>1, <2>2 DEF TypeOK, ReservationStates
  <2>5. QueuedOnceIn(r, [Q EXCEPT ![q] = t])
    <3>1. \A k \in 1..(Len(Q[q]) - 1) : t[k] = IF k < 1 THEN Q[q][k] ELSE Q[q][k + 1]
      BY <1>0, <2>1
    <3>2. h = Q[q][1] /\ 1 \in DOMAIN Q[q] /\ DOMAIN t = 1..(Len(Q[q]) - 1)
      BY <1>0, <2>1
    <3>3. "held" \in ReservationStates /\ "held" # "waiting"
      BY DEF ReservationStates
    <3> HIDE DEF Q, t
    <3> QED
      BY <1>0, <2>1, <3>1, <3>2, <3>3, QueuedRemove
  <2>6. QueuedOnce'
    <3>1. QueuedOnceIn(reservation', queue')
      BY <2>2, <2>5
    <3> QED
      BY <3>1 DEF QueuedOnce, QueuedOnceIn
  <2>7. \A p \in Queues : Held(p)' = HeldIn(r, p)
    BY <2>2 DEF Held, HeldIn
  <2>8. \A p \in Queues : Cardinality(HeldIn(r, p)) =
                             Cardinality(HeldIn(after, p)) + (IF p = q THEN 1 ELSE 0)
    <3>1. h \in Calls /\ after \in [Calls -> ReservationStates] /\ after[h] # "held"
      BY <1>0, <2>1, <2>3
    <3> HIDE DEF h
    <3> QED
      BY <2>3, <3>1, HeldAdd
  <2>9. ASSUME NEW p \in Queues
        PROVE  /\ capacity'[p] = limits[p] - Cardinality(HeldIn(r, p)) - Len(queue'[p])
               /\ queue'[p] # <<>> => Cardinality(HeldIn(r, p)) >= limits[p]
    <3>1. CASE p = q
      <4>1. /\ queue'[p] = t /\ capacity'[p] = capacity[q] + 1
            /\ Cardinality(HeldIn(r, p)) = Cardinality(HeldIn(after, q)) + 1
        BY <1>0, <2>2, <2>8, <3>1
      <4>2. /\ capacity[q] + 1 = limits[q] - Cardinality(HeldIn(after, q)) - Len(rest)
            /\ Cardinality(HeldIn(after, q)) + 1 >= limits[q]
        BY <1>2 DEF BeforeGiveBack
      <4> HIDE DEF t, r
      <4> QED
        BY <1>0, <2>1, <3>1, <4>1, <4>2
    <3>2. CASE p # q
      <4>1. queue'[p] = queue[p] /\ capacity'[p] = capacity[p]
        BY <1>0, <2>2, <3>2
      <4>2. Cardinality(HeldIn(r, p)) = Cardinality(HeldIn(after, p))
        <5>1. Cardinality(HeldIn(after, p)) \in Nat
          BY HeldFinite
        <5> HIDE DEF r
        <5> QED
          BY <2>8, <3>2, <5>1
      <4> QED
        BY <3>2, <4>1, <4>2 DEF BeforeGiveBack
    <3> QED
      BY <3>1, <3>2
  <2>10. CapacityAccounting' /\ WorkConserving'
    BY <2>7, <2>9 DEF CapacityAccounting, WorkConserving
  <2> QED
    BY <2>4, <2>6, <2>10 DEF IInv
<1> QED
  BY <1>1, <1>2

-----------------------------------------------------------------------------

\* The facts of the invariant in terms of HeldIn, for the step lemmas below.
LEMMA IInvFacts ==
    ASSUME IInv
    PROVE  /\ queue \in [Queues -> Seq(Calls)]
           /\ reservation \in [Calls -> ReservationStates]
           /\ capacity \in [Queues -> Int]
           /\ isEnabled \in BOOLEAN
           /\ QueuedOnceIn(reservation, queue)
           /\ isEnabled => \A q \in Queues :
                /\ limits[q] \in Int
                /\ Len(queue[q]) \in Nat
                /\ Cardinality(HeldIn(reservation, q)) \in Nat
                /\ capacity[q] = limits[q] - Cardinality(HeldIn(reservation, q))
                                            - Len(queue[q])
                /\ queue[q] # <<>> => Cardinality(HeldIn(reservation, q)) >= limits[q]
<1>1. TypeOK /\ QueuedOnceIn(reservation, queue)
  BY DEF IInv, QueuedOnce, QueuedOnceIn
<1>2. \A q : Held(q) = HeldIn(reservation, q)
  BY DEF Held, HeldIn
<1>3. \A q \in Queues : /\ limits[q] \in Int
                        /\ Len(queue[q]) \in Nat
                        /\ Cardinality(HeldIn(reservation, q)) \in Nat
  BY <1>1, LimitsType, HeldFinite, LenProperties DEF TypeOK
<1>4. CapacityAccounting /\ WorkConserving
  BY DEF IInv
<1> QED
  BY <1>1, <1>2, <1>3, <1>4 DEF TypeOK, CapacityAccounting, WorkConserving

\* The same facts of the next state give the invariant back.
LEMMA IInvPrime ==
    ASSUME TypeOK', QueuedOnceIn(reservation', queue'),
           isEnabled' => \A q \in Queues :
                /\ capacity'[q] = limits[q] - Cardinality(HeldIn(reservation', q))
                                             - Len(queue'[q])
                /\ queue'[q] # <<>> => Cardinality(HeldIn(reservation', q)) >= limits[q]
    PROVE  IInv'
<1>1. QueuedOnce'
  BY DEF QueuedOnce, QueuedOnceIn
<1>2. \A q : Held(q)' = HeldIn(reservation', q)
  BY DEF Held, HeldIn
<1>3. CapacityAccounting' /\ WorkConserving'
  BY <1>2 DEF CapacityAccounting, WorkConserving
<1> QED
  BY <1>1, <1>3 DEF IInv

\* The capacity equation after one more or one less waiting or running call.
LEMMA CapacityArithmetic ==
    ASSUME NEW k \in Int, NEW l \in Int, NEW h \in Int, NEW n \in Int, k = l - h - n
    PROVE  /\ k - 1 = l - h - (n + 1)
           /\ k + 1 = l - h - (n - 1)
           /\ k + 1 = l - (h - 1) - n
OBVIOUS

\* The invariant holds when the service has been constructed.
LEMMA InitInv == Init => IInv
<1> SUFFICES ASSUME Init PROVE IInv
  OBVIOUS
<1>1. TypeOK
  BY LimitsType, EmptySeq DEF Init, TypeOK, ReservationStates, InitiallyEnabled, Queues,
     QueueTypes
<1>2. QueuedOnce
  BY DEF Init, QueuedOnce
<1>3. \A q \in Queues : Held(q) = {}
  BY DEF Init, Held
<1>4. \A q \in Queues : /\ Cardinality(Held(q)) = 0
                        /\ capacity[q] = limits[q] /\ limits[q] \in Int
                        /\ queue[q] = <<>> /\ Len(queue[q]) = 0
  <2> SUFFICES ASSUME NEW q \in Queues
               PROVE  /\ Cardinality(Held(q)) = 0
                      /\ capacity[q] = limits[q] /\ limits[q] \in Int
                      /\ queue[q] = <<>> /\ Len(queue[q]) = 0
    OBVIOUS
  <2>1. Cardinality(Held(q)) = 0
    BY <1>3, FS_EmptySet
  <2> QED
    BY <2>1, LimitsType DEF Init
<1>5. CapacityAccounting /\ WorkConserving
  BY <1>4 DEF CapacityAccounting, WorkConserving
<1> QED
  BY <1>1, <1>2, <1>5 DEF IInv

\* reserve() keeps the invariant, whether it is admitted or throttled.
LEMMA ReserveInv ==
    ASSUME IInv, NEW c \in Calls, Reserve(c)
    PROVE  IInv'
<1>1. /\ reservation[c] = "idle" /\ isEnabled' = isEnabled
      /\ "held" \in ReservationStates /\ "waiting" \in ReservationStates
  BY DEF Reserve, ReservationStates
<1>2. CASE ~isEnabled \/ isUnlimited(c)
  <2>1. /\ reservation' = [reservation EXCEPT ![c] = "held"]
        /\ capacity' = capacity /\ queue' = queue
    BY <1>2 DEF Reserve
  <2>2. TypeOK'
    BY <1>1, <2>1, IInvFacts DEF TypeOK
  <2>3. QueuedOnceIn(reservation', queue')
    BY <1>1, <2>1, IInvFacts, QueuedOther
  <2>4. ASSUME isEnabled', NEW q \in Queues
        PROVE  Cardinality(HeldIn(reservation', q)) = Cardinality(HeldIn(reservation, q))
    <3>1. QueueOf(c) # q
      BY <1>1, <1>2, <2>4 DEF isUnlimited
    <3>2. HeldIn(reservation', q) = HeldIn(reservation, q)
      BY <1>1, <2>1, <3>1, IInvFacts DEF HeldIn
    <3> QED
      BY <3>2
  <2> QED
    BY <1>1, <2>1, <2>2, <2>3, <2>4, IInvFacts, IInvPrime
<1>3. CASE ~(~isEnabled \/ isUnlimited(c))
  <2> DEFINE p == QueueOf(c)
  <2>1. isEnabled /\ p \in Queues
    BY <1>3, IInvFacts DEF isUnlimited
  <2>2. CASE EnqueueAdmitted(c)
    <3>1. /\ reservation' = [reservation EXCEPT ![c] = "held"]
          /\ capacity[p] > 0 /\ capacity' = [capacity EXCEPT ![p] = @ - 1]
          /\ queue' = queue
      BY <2>2 DEF EnqueueAdmitted
    <3>2. TypeOK'
      BY <1>1, <2>1, <3>1, IInvFacts DEF TypeOK
    <3>3. QueuedOnceIn(reservation', queue')
      BY <1>1, <3>1, IInvFacts, QueuedOther
    <3>4. ASSUME NEW q \in Queues
          PROVE  /\ capacity'[q] = limits[q] - Cardinality(HeldIn(reservation', q))
                                              - Len(queue'[q])
                 /\ queue'[q] # <<>> => Cardinality(HeldIn(reservation', q)) >= limits[q]
      <4>1. Cardinality(HeldIn(reservation', q)) =
               Cardinality(HeldIn(reservation, q)) + (IF p = q THEN 1 ELSE 0)
        BY <1>1, <3>1, IInvFacts, HeldAdd
      <4>2. capacity'[q] = capacity[q] - (IF p = q THEN 1 ELSE 0)
        BY <2>1, <3>1, IInvFacts
      <4> HIDE DEF p
      <4> QED
        BY <2>1, <3>1, <4>1, <4>2, IInvFacts
    <3> QED
      BY <3>2, <3>3, <3>4, IInvPrime
  <2>3. CASE EnqueueThrottled(c)
    <3>1. /\ reservation' = [reservation EXCEPT ![c] = "waiting"]
          /\ capacity[p] <= 0 /\ capacity' = [capacity EXCEPT ![p] = @ - 1]
          /\ queue' = [queue EXCEPT ![p] = Append(@, c)]
      BY <2>3 DEF EnqueueThrottled
    <3>2. /\ Append(queue[p], c) \in Seq(Calls)
          /\ Len(Append(queue[p], c)) = Len(queue[p]) + 1
      BY <2>1, IInvFacts, AppendProperties
    <3>3. TypeOK'
      BY <1>1, <2>1, <3>1, <3>2, IInvFacts DEF TypeOK
    <3>4. QueuedOnceIn(reservation', queue')
      BY <1>1, <2>1, <3>1, IInvFacts, QueuedAppend
    <3>5. ASSUME NEW q \in Queues
          PROVE  /\ capacity'[q] = limits[q] - Cardinality(HeldIn(reservation', q))
                                              - Len(queue'[q])
                 /\ queue'[q] # <<>> => Cardinality(HeldIn(reservation', q)) >= limits[q]
      <4>1. HeldIn(reservation', q) = HeldIn(reservation, q)
        BY <1>1, <3>1, IInvFacts DEF HeldIn
      <4>2. CASE q = p
        <5>1. capacity'[q] = capacity[q] - 1 /\ Len(queue'[q]) = Len(queue[q]) + 1
          BY <2>1, <3>1, <3>2, <4>2, IInvFacts
        <5>2. queue[q] = <<>> => Len(queue[q]) = 0
          OBVIOUS
        <5> HIDE DEF p
        <5>3. Cardinality(HeldIn(reservation, q)) >= limits[q]
          BY <2>1, <3>1, <4>2, <5>2, IInvFacts
        <5>4. capacity[q] = limits[q] - Cardinality(HeldIn(reservation, q)) - Len(queue[q])
          BY <2>1, IInvFacts
        <5>5. /\ limits[q] \in Int /\ Len(queue[q]) \in Nat /\ capacity[q] \in Int
              /\ Cardinality(HeldIn(reservation, q)) \in Nat
          BY <2>1, IInvFacts
        <5>6. Cardinality(HeldIn(reservation', q)) = Cardinality(HeldIn(reservation, q))
          BY <4>1
        <5>7. capacity[q] - 1 = limits[q] - Cardinality(HeldIn(reservation, q))
                                          - (Len(queue[q]) + 1)
          BY <5>4, <5>5, CapacityArithmetic
        <5> QED
          BY <5>1, <5>3, <5>6, <5>7
      <4>3. CASE q # p
        BY <2>1, <3>1, <4>1, <4>3, IInvFacts
      <4> QED
        BY <4>2, <4>3
    <3> QED
      BY <3>3, <3>4, <3>5, IInvPrime
  <2> QED
    BY <1>3, <2>2, <2>3 DEF Reserve
<1> QED
  BY <1>2, <1>3

\* release() keeps the invariant.
LEMMA ReleaseInv ==
    ASSUME IInv, NEW c \in Calls, Release(c)
    PROVE  IInv'
<1> DEFINE after == [reservation EXCEPT ![c] = "released"]
           p == QueueOf(c)
<1>1. /\ reservation[c] = "held" /\ isEnabled' = isEnabled
      /\ "released" \in ReservationStates
      /\ after \in [Calls -> ReservationStates]
  BY IInvFacts DEF Release, ReservationStates
<1>2. QueuedOnceIn(after, queue)
  BY <1>1, IInvFacts, QueuedOther
<1>3. CASE ~isEnabled \/ isUnlimited(c)
  <2>1. reservation' = after /\ capacity' = capacity /\ queue' = queue
    BY <1>3 DEF Release
  <2>2. TypeOK'
    BY <1>1, <2>1, IInvFacts DEF TypeOK
  <2>3. QueuedOnceIn(reservation', queue')
    BY <1>2, <2>1
  <2>4. ASSUME isEnabled', NEW q \in Queues
        PROVE  Cardinality(HeldIn(reservation', q)) = Cardinality(HeldIn(reservation, q))
    <3>1. QueueOf(c) # q
      BY <1>1, <1>3, <2>4 DEF isUnlimited
    <3>2. HeldIn(reservation', q) = HeldIn(reservation, q)
      BY <1>1, <2>1, <3>1, IInvFacts DEF HeldIn
    <3> QED
      BY <3>2
  <2> QED
    BY <1>1, <2>1, <2>2, <2>3, <2>4, IInvFacts, IInvPrime
<1>4. CASE ~(~isEnabled \/ isUnlimited(c))
  <2>1. isEnabled /\ p \in Queues /\ GiveBack(p, queue[p], after)
    BY <1>4, IInvFacts DEF isUnlimited, Release
  <2>2. \A q \in Queues : Cardinality(HeldIn(after, q)) =
           Cardinality(HeldIn(reservation, q)) - (IF p = q THEN 1 ELSE 0)
    BY <1>1, IInvFacts, HeldRemove
  <2>3. [queue EXCEPT ![p] = queue[p]] = queue
    BY <2>1, IInvFacts
  <2>4. queue[p] \in Seq(Calls)
    BY <2>1, IInvFacts
  <2> HIDE DEF after, p
  <2>5. /\ capacity[p] + 1 = limits[p] - Cardinality(HeldIn(after, p)) - Len(queue[p])
        /\ queue[p] # <<>> => Cardinality(HeldIn(after, p)) + 1 >= limits[p]
    <3> DEFINE h == Cardinality(HeldIn(reservation, p))
    <3>1. /\ capacity[p] \in Int /\ limits[p] \in Int /\ h \in Int /\ Len(queue[p]) \in Int
          /\ capacity[p] = limits[p] - h - Len(queue[p])
      BY <2>1, IInvFacts
    <3>2. queue[p] # <<>> => h >= limits[p]
      BY <2>1, IInvFacts
    <3>3. Cardinality(HeldIn(after, p)) = h - 1
      BY <2>1, <2>2
    <3> HIDE DEF h
    <3>4. capacity[p] + 1 = limits[p] - (h - 1) - Len(queue[p])
      <4>1. PICK a, b, k, l \in Int : /\ a = capacity[p] /\ b = limits[p] /\ k = h
                                      /\ l = Len(queue[p]) /\ a = b - k - l
        BY <3>1
      <4>2. a = b - k - l
        BY <4>1
      <4>3. a + 1 = b - (k - 1) - l
        BY <4>2
      <4> QED
        BY <4>1, <4>3
    <3>5. (h - 1) + 1 = h
      BY <3>1
    <3> QED
      BY <3>2, <3>3, <3>4, <3>5
  <2>6. \A q \in Queues : q # p =>
          /\ capacity[q] = limits[q] - Cardinality(HeldIn(after, q)) - Len(queue[q])
          /\ queue[q] # <<>> => Cardinality(HeldIn(after, q)) >= limits[q]
    BY <2>1, <2>2, IInvFacts
  <2>7. BeforeGiveBack(p, queue[p], after)
    BY <1>1, <1>2, <2>1, <2>3, <2>4, <2>5, <2>6 DEF BeforeGiveBack
  <2> QED
    BY <1>1, <2>1, <2>7, GiveBackRestores DEF IInv
<1> QED
  BY <1>3, <1>4

\* remove() keeps the invariant.
LEMMA RemoveInv ==
    ASSUME IInv, NEW e \in Executions, RemoveExecution(e)
    PROVE  IInv'
<1>1. isEnabled /\ isEnabled' = isEnabled
  BY DEF RemoveExecution
<1>2. PICK p \in Queues : \E i \in DOMAIN queue[p] :
         GiveBack(p, RemoveAt(queue[p], i), [reservation EXCEPT ![queue[p][i]] = "dropped"])
  BY DEF RemoveExecution
<1>3. PICK m \in DOMAIN queue[p] :
         GiveBack(p, RemoveAt(queue[p], m), [reservation EXCEPT ![queue[p][m]] = "dropped"])
  BY <1>2
<1> DEFINE c == queue[p][m]
           rest == RemoveAt(queue[p], m)
           after == [reservation EXCEPT ![c] = "dropped"]
<1>4. queue[p] \in Seq(Calls) /\ c \in Calls
  BY IInvFacts, LenProperties
<1>5. /\ rest \in Seq(Calls) /\ Len(rest) = Len(queue[p]) - 1
      /\ DOMAIN rest = 1..(Len(queue[p]) - 1)
      /\ \A k \in 1..(Len(queue[p]) - 1) :
            rest[k] = IF k < m THEN queue[p][k] ELSE queue[p][k + 1]
  BY <1>4, RemoveAtIs
<1>6. /\ "dropped" \in ReservationStates /\ "dropped" # "waiting"
      /\ after \in [Calls -> ReservationStates]
      /\ reservation[c] = "waiting"
  BY <1>4, IInvFacts DEF ReservationStates, QueuedOnceIn
<1> HIDE DEF rest
<1>7. QueuedOnceIn(after, [queue EXCEPT ![p] = rest])
  BY <1>5, <1>6, IInvFacts, QueuedRemove
<1>8. \A q \in Queues : HeldIn(after, q) = HeldIn(reservation, q)
  BY <1>4, <1>6, IInvFacts DEF HeldIn
<1>9. \A q \in Queues : Cardinality(HeldIn(after, q)) = Cardinality(HeldIn(reservation, q))
  BY <1>8
<1>10. queue[p] # <<>>
  BY <1>4
<1> HIDE DEF after, c
<1>11. /\ capacity[p] + 1 = limits[p] - Cardinality(HeldIn(after, p)) - Len(rest)
       /\ rest # <<>> => Cardinality(HeldIn(after, p)) + 1 >= limits[p]
  <2> DEFINE h == Cardinality(HeldIn(after, p))
  <2>1. /\ capacity[p] \in Int /\ limits[p] \in Int /\ h \in Int /\ Len(queue[p]) \in Int
        /\ capacity[p] = limits[p] - h - Len(queue[p])
        /\ h >= limits[p]
    BY <1>1, <1>9, <1>10, IInvFacts
  <2> HIDE DEF h
  <2>2. capacity[p] + 1 = limits[p] - h - (Len(queue[p]) - 1)
    BY <2>1, CapacityArithmetic
  <2>3. h + 1 >= limits[p]
    BY <2>1
  <2> QED
    BY <1>5, <2>2, <2>3 DEF h
<1>12. \A q \in Queues : q # p =>
          /\ capacity[q] = limits[q] - Cardinality(HeldIn(after, q)) - Len(queue[q])
          /\ queue[q] # <<>> => Cardinality(HeldIn(after, q)) >= limits[q]
  BY <1>1, <1>9, IInvFacts
<1>13. BeforeGiveBack(p, rest, after)
  BY <1>5, <1>6, <1>7, <1>11, <1>12 DEF BeforeGiveBack
<1>14. GiveBack(p, rest, after)
  BY <1>3 DEF rest, after, c
<1> QED
  BY <1>1, <1>13, <1>14, GiveBackRestores DEF IInv

\* A restarted process starts from empty queues and full capacity.
LEMMA RestartInv ==
    ASSUME IInv, Restart
    PROVE  IInv'
<1>1. TypeOK'
  BY LimitsType, EmptySeq DEF Restart, TypeOK, ReservationStates, InitiallyEnabled, Queues,
     QueueTypes
<1>2. QueuedOnceIn(reservation', queue')
  BY DEF Restart, QueuedOnceIn
<1>3. \A q \in Queues : HeldIn(reservation', q) = {}
  BY DEF Restart, HeldIn
<1>4. \A q \in Queues : /\ Cardinality(HeldIn(reservation', q)) = 0
                        /\ capacity'[q] = limits[q] /\ limits[q] \in Int
                        /\ queue'[q] = <<>> /\ Len(queue'[q]) = 0
  <2> SUFFICES ASSUME NEW q \in Queues
               PROVE  /\ Cardinality(HeldIn(reservation', q)) = 0
                      /\ capacity'[q] = limits[q] /\ limits[q] \in Int
                      /\ queue'[q] = <<>> /\ Len(queue'[q]) = 0
    OBVIOUS
  <2>1. Cardinality(HeldIn(reservation', q)) = 0
    BY <1>3, FS_EmptySet
  <2> QED
    BY <2>1, LimitsType DEF Restart
<1> QED
  BY <1>1, <1>2, <1>4, IInvPrime

\* Every step keeps the invariant.
LEMMA NextInv == IInv /\ [Next]_vars => IInv'
<1> SUFFICES ASSUME IInv, [Next]_vars PROVE IInv'
  OBVIOUS
<1>1. ASSUME NEW c \in Calls, Reserve(c) PROVE IInv'
  BY <1>1, ReserveInv
<1>2. ASSUME NEW c \in Calls, Release(c) PROVE IInv'
  BY <1>2, ReleaseInv
<1>3. ASSUME NEW e \in Executions, RemoveExecution(e) PROVE IInv'
  BY <1>3, RemoveInv
<1>4. CASE Disable
  <2>1. isEnabled' = FALSE /\ capacity' = capacity /\ queue' = queue
           /\ reservation' = reservation
    BY <1>4 DEF Disable
  <2>2. TypeOK' /\ QueuedOnceIn(reservation', queue')
    BY <2>1, IInvFacts DEF TypeOK
  <2> QED
    BY <2>1, <2>2, IInvPrime
<1>5. CASE Restart
  BY <1>5, RestartInv
<1>6. CASE UNCHANGED vars
  <2>1. isEnabled' = isEnabled /\ capacity' = capacity /\ queue' = queue
           /\ reservation' = reservation
    BY <1>6 DEF vars
  <2>2. TypeOK' /\ QueuedOnceIn(reservation', queue')
    BY <2>1, IInvFacts DEF TypeOK
  <2> QED
    BY <2>1, <2>2, IInvFacts, IInvPrime
<1> QED
  BY <1>1, <1>2, <1>3, <1>4, <1>5, <1>6 DEF Next

-----------------------------------------------------------------------------

(***************************************************************************)
(* The variables of the service always have their types: capacities stay   *)
(* integers and queues sequences of calls.                                 *)
(***************************************************************************)
THEOREM TypeCorrect == Spec => []TypeOK
<1>1. IInv => TypeOK
  BY DEF IInv
<1> QED
  BY InitInv, NextInv, <1>1, PTL DEF Spec

(***************************************************************************)
(* No slot is lost or invented by enqueue, dequeue, remove, disable or a   *)
(* restart: the counter is the limit less what runs and what waits.        *)
(***************************************************************************)
THEOREM CapacityIsAccounted == Spec => []CapacityAccounting
<1>1. IInv => CapacityAccounting
  BY DEF IInv
<1> QED
  BY InitInv, NextInv, <1>1, PTL DEF Spec

(***************************************************************************)
(* No execution is kept waiting by ConcurrencyQueue while a slot is free.  *)
(***************************************************************************)
THEOREM WorkIsConserved == Spec => []WorkConserving
<1>1. IInv => WorkConserving
  BY DEF IInv
<1> QED
  BY InitInv, NextInv, <1>1, PTL DEF Spec

(***************************************************************************)
(* The pending reserve() calls are exactly the queue items, each once.     *)
(***************************************************************************)
THEOREM WaitersAreQueuedOnce == Spec => []QueuedOnce
<1>1. IInv => QueuedOnce
  BY DEF IInv
<1> QED
  BY InitInv, NextInv, <1>1, PTL DEF Spec

-----------------------------------------------------------------------------

\* What GiveBack does to the reservations: at most the head of rest is let
\* through, every other call is as after says.
LEMMA GiveBackAdmits ==
    ASSUME NEW q, NEW rest \in Seq(Calls), NEW after \in [Calls -> ReservationStates],
           GiveBack(q, rest, after), NEW c \in Calls
    PROVE  /\ (reservation'[c] = "held" /\ after[c] # "held") =>
                 rest # <<>> /\ c = rest[1]
           /\ ~(rest # <<>> /\ c = rest[1]) => reservation'[c] = after[c]
<1>1. rest # <<>> => Head(rest) = rest[1] /\ rest[1] \in Calls
  BY HeadTailProperties, LenProperties
<1> QED
  BY <1>1 DEF GiveBack

\* The step condition of FirstInFirstOut, under the invariant.
LEMMA StepInOrder ==
    ASSUME IInv, Next, NEW q \in Queues, NEW i \in DOMAIN queue[q],
           NEW j \in DOMAIN queue[q], i < j, reservation'[queue[q][j]] = "held"
    PROVE  reservation'[queue[q][i]] # "waiting"
<1> DEFINE x == queue[q][j]
           y == queue[q][i]
           n == Len(queue[q])
<1>1. /\ x \in Calls /\ y \in Calls /\ reservation[x] = "waiting"
      /\ reservation[y] = "waiting" /\ QueueOf(x) = q /\ x # y
      /\ n \in Nat /\ i \in 1..n /\ j \in 1..n
      /\ reservation'[x] = "held"
  BY IInvFacts, LenProperties DEF QueuedOnceIn
<1>2. ASSUME NEW c \in Calls, Reserve(c) PROVE FALSE
  <2>1. reservation[c] = "idle" /\ \A d \in Calls : d # c => reservation'[d] = reservation[d]
    BY <1>2, IInvFacts DEF Reserve, EnqueueAdmitted, EnqueueThrottled
  <2> QED
    BY <1>1, <2>1
<1>3. ASSUME NEW c \in Calls, Release(c) PROVE FALSE
  <2> DEFINE after == [reservation EXCEPT ![c] = "released"]
             p == QueueOf(c)
  <2>1. reservation[c] = "held" /\ after[x] = "waiting"
    BY <1>1, <1>3, IInvFacts DEF Release
  <2>2. CASE ~isEnabled \/ isUnlimited(c)
    BY <1>3, <2>1, <2>2 DEF Release
  <2>3. CASE ~(~isEnabled \/ isUnlimited(c))
    <3>1. p \in Queues /\ GiveBack(p, queue[p], after)
      BY <1>3, <2>3, IInvFacts DEF isUnlimited, Release
    <3>2. queue[p] \in Seq(Calls) /\ after \in [Calls -> ReservationStates]
      BY <3>1, IInvFacts DEF ReservationStates
    <3>3. queue[p] # <<>> /\ x = queue[p][1]
      <4>1. x \in Calls /\ reservation'[x] = "held" /\ after[x] # "held"
        BY <1>1, <2>1
      <4> HIDE DEF x, after, p
      <4> QED
        BY <3>1, <3>2, <4>1, GiveBackAdmits
    <3>4. 1 \in DOMAIN queue[p]
      BY <3>2, <3>3, LenProperties
    <3>5. p = q
      BY <1>1, <3>1, <3>3, <3>4, IInvFacts DEF QueuedOnceIn
    <3>6. j = 1
      BY <3>3, <3>4, <3>5, IInvFacts DEF QueuedOnceIn
    <3> QED
      BY <1>1, <3>6
  <2> QED
    BY <2>2, <2>3
<1>4. ASSUME NEW e \in Executions, RemoveExecution(e)
      PROVE  reservation'[y] # "waiting"
  <2>1. PICK p \in Queues : \E k \in DOMAIN queue[p] :
           GiveBack(p, RemoveAt(queue[p], k), [reservation EXCEPT ![queue[p][k]] = "dropped"])
    BY <1>4 DEF RemoveExecution
  <2>2. PICK m \in DOMAIN queue[p] :
           GiveBack(p, RemoveAt(queue[p], m), [reservation EXCEPT ![queue[p][m]] = "dropped"])
    BY <2>1
  <2> DEFINE z == queue[p][m]
             rest == RemoveAt(queue[p], m)
             after == [reservation EXCEPT ![z] = "dropped"]
  <2>3. queue[p] \in Seq(Calls) /\ z \in Calls /\ Len(queue[p]) \in Nat
           /\ m \in 1..Len(queue[p])
    BY IInvFacts, LenProperties
  <2>4. /\ rest \in Seq(Calls) /\ Len(rest) = Len(queue[p]) - 1
        /\ DOMAIN rest = 1..(Len(queue[p]) - 1)
        /\ \A k \in 1..(Len(queue[p]) - 1) :
              rest[k] = IF k < m THEN queue[p][k] ELSE queue[p][k + 1]
    BY <2>3, RemoveAtIs
  <2>5. after \in [Calls -> ReservationStates] /\ after[x] # "held"
    BY <1>1, <2>3, IInvFacts DEF ReservationStates
  <2> HIDE DEF rest
  <2>6. GiveBack(p, rest, after)
    BY <2>2 DEF rest
  <2>7. rest # <<>> /\ x = rest[1]
    <3> HIDE DEF x, after
    <3> QED
      BY <1>1, <2>4, <2>5, <2>6, GiveBackAdmits
  <2>8. 1 \in 1..(Len(queue[p]) - 1)
    BY <2>3, <2>4, <2>7
  <2> DEFINE h == IF 1 < m THEN 1 ELSE 2
  <2>9. x = queue[p][h] /\ h \in DOMAIN queue[p]
    BY <2>3, <2>4, <2>7, <2>8, LenProperties
  <2>10. p = q /\ j = h
    BY <1>1, <2>9, IInvFacts DEF QueuedOnceIn
  <2>11. j = 2 /\ i = 1 /\ m = 1
    BY <1>1, <2>3, <2>10
  <2>12. y = z /\ after[y] = "dropped"
    BY <1>1, <2>3, <2>10, <2>11, IInvFacts
  <2>13. y # rest[1]
    BY <1>1, <2>7
  <2>14. reservation'[y] = after[y]
    <3> HIDE DEF y, after
    <3> QED
      BY <1>1, <2>4, <2>5, <2>6, <2>13, GiveBackAdmits
  <2> QED
    BY <2>12, <2>14
<1>5. CASE Disable
  BY <1>1, <1>5 DEF Disable
<1>6. CASE Restart
  BY <1>1, <1>6 DEF Restart
<1> QED
  BY <1>2, <1>3, <1>4, <1>5, <1>6 DEF Next

(***************************************************************************)
(* ConcurrencyQueue is first in, first out also across remove(), for any   *)
(* number of calls, executions and queues.                                 *)
(***************************************************************************)
THEOREM ReleasedInOrder == Spec => FirstInFirstOut
<1>1. ASSUME IInv, [Next]_vars
      PROVE  [\A q \in Queues : \A i, j \in DOMAIN queue[q] :
                (i < j /\ reservation'[queue[q][j]] = "held")
                   => reservation'[queue[q][i]] # "waiting"]_vars
  BY <1>1, StepInOrder
<1> QED
  BY InitInv, NextInv, <1>1, PTL DEF Spec, FirstInFirstOut

\* The step condition of NoAdmissionDuringShutdown, under the invariant.
LEMMA StepAdmitsNone ==
    ASSUME IInv, Next, ~isEnabled, NEW c \in Calls, reservation[c] = "waiting"
    PROVE  reservation'[c] # "held"
<1>1. ASSUME NEW d \in Calls, Reserve(d) PROVE reservation'[c] # "held"
  BY <1>1, IInvFacts DEF Reserve
<1>2. ASSUME NEW d \in Calls, Release(d) PROVE reservation'[c] # "held"
  BY <1>2, IInvFacts DEF Release
<1>3. ASSUME NEW e \in Executions, RemoveExecution(e) PROVE FALSE
  BY <1>3 DEF RemoveExecution
<1>4. CASE Disable
  BY <1>4 DEF Disable
<1>5. CASE Restart
  BY <1>5 DEF Restart
<1> QED
  BY <1>1, <1>2, <1>3, <1>4, <1>5 DEF Next

(***************************************************************************)
(* After disable(), no release, remove or late reserve() lets a throttled  *)
(* execution through.                                                      *)
(***************************************************************************)
THEOREM NoneAdmittedDuringShutdown == Spec => NoAdmissionDuringShutdown
<1>1. ASSUME IInv, [Next]_vars
      PROVE  [\A c \in Calls : (~isEnabled /\ reservation[c] = "waiting")
                                   => reservation'[c] # "held"]_vars
  BY <1>1, StepAdmitsNone
<1> QED
  BY InitInv, NextInv, <1>1, PTL DEF Spec, NoAdmissionDuringShutdown

-----------------------------------------------------------------------------

\* While the service stays enabled, the holders of a queue change by what its
\* capacity and its length do: a consequence of the equation before and after.
LEMMA HeldChange ==
    ASSUME IInv, IInv', isEnabled, isEnabled', NEW q \in Queues
    PROVE  /\ Cardinality(Held(q)) \in Nat /\ Cardinality(Held(q)') \in Nat
           /\ limits[q] \in Int /\ capacity[q] \in Int /\ capacity'[q] \in Int
           /\ Len(queue[q]) \in Nat /\ Len(queue'[q]) \in Nat
           /\ Cardinality(Held(q)) = limits[q] - capacity[q] - Len(queue[q])
           /\ Cardinality(Held(q)') = limits[q] - capacity'[q] - Len(queue'[q])
<1>1. /\ Held(q) = HeldIn(reservation, q) /\ Held(q)' = HeldIn(reservation', q)
      /\ Cardinality(HeldIn(reservation, q)) \in Nat
      /\ Cardinality(HeldIn(reservation', q)) \in Nat
  BY HeldFinite DEF Held, HeldIn
<1>2. /\ limits[q] \in Int /\ capacity[q] \in Int /\ capacity'[q] \in Int
      /\ Len(queue[q]) \in Nat /\ Len(queue'[q]) \in Nat
  BY LimitsType, LenProperties DEF IInv, TypeOK
<1>3. /\ capacity[q] = limits[q] - Cardinality(Held(q)) - Len(queue[q])
      /\ capacity'[q] = limits[q] - Cardinality(Held(q)') - Len(queue'[q])
  BY DEF IInv, CapacityAccounting
<1>4. ASSUME NEW k \in Int, NEW l \in Int, NEW h \in Int, NEW n \in Int, k = l - h - n
      PROVE  h = l - k - n
  BY <1>4
<1>5. Cardinality(Held(q)) \in Nat /\ Cardinality(Held(q)') \in Nat
  BY <1>1
<1>6. Cardinality(Held(q)) = limits[q] - capacity[q] - Len(queue[q])
  <2> DEFINE h == Cardinality(Held(q))
  <2> HIDE DEF h
  <2> QED
    BY <1>2, <1>3, <1>4, <1>5 DEF h
<1>7. Cardinality(Held(q)') = limits[q] - capacity'[q] - Len(queue'[q])
  BY <1>2, <1>3, <1>4, <1>5
<1> QED
  BY <1>2, <1>5, <1>6, <1>7

\* The arithmetic of HeldChange: one slot taken while one was free, one more
\* waiting, one given back to the next in line or to nobody.
LEMMA HeldArithmetic ==
    ASSUME NEW l \in Int, NEW k \in Int, NEW n \in Nat
    PROVE  /\ k > 0 => ~(l - (k - 1) - n > l)
           /\ ~(l - (k - 1) - (n + 1) > l - k - n)
           /\ ~(l - (k + 1) - (n - 1) > l - k - n)
           /\ ~(l - (k + 1) - n > l - k - n)
           /\ ~(l - k - n > l - k - n)
  OBVIOUS

\* The step condition of OverLimitOnlyByRemove, under the invariant.
LEMMA StepOverLimit ==
    ASSUME IInv, IInv', Next, NEW q \in Queues, isEnabled,
           Cardinality(Held(q)') > limits[q],
           Cardinality(Held(q)') > Cardinality(Held(q))
    PROVE  \E c \in Calls : /\ QueueOf(c) = q
                            /\ reservation[c] = "waiting" /\ reservation'[c] = "dropped"
<1> DEFINE l == limits[q]
           k == capacity[q]
           n == Len(queue[q])
<1>1. ASSUME isEnabled' PROVE
      /\ l \in Int /\ k \in Int /\ n \in Nat
      /\ Cardinality(Held(q)) = l - k - n
      /\ Cardinality(Held(q)') = l - capacity'[q] - Len(queue'[q])
  BY <1>1, HeldChange
<1>2. ASSUME isEnabled', capacity'[q] = capacity[q], queue'[q] = queue[q] PROVE FALSE
  BY <1>1, <1>2, HeldArithmetic
<1>3. ASSUME NEW c \in Calls, Reserve(c) PROVE FALSE
  <2> DEFINE p == QueueOf(c)
  <2>1. isEnabled'
    BY <1>3 DEF Reserve
  <2>2. CASE capacity' = capacity /\ queue' = queue
    BY <1>2, <2>1, <2>2
  <2>3. CASE p \in Queues /\ EnqueueAdmitted(c)
    <3>1. capacity[p] > 0 /\ capacity' = [capacity EXCEPT ![p] = @ - 1] /\ queue' = queue
      BY <2>3 DEF EnqueueAdmitted
    <3>2. p = q
      BY <1>2, <2>1, <3>1, IInvFacts
    <3>3. k > 0 /\ capacity'[q] = k - 1 /\ Len(queue'[q]) = n
      BY <3>1, <3>2, IInvFacts
    <3> HIDE DEF k, n, l
    <3>4. Cardinality(Held(q)') = l - (k - 1) - n /\ ~(l - (k - 1) - n > l)
      BY <1>1, <2>1, <3>3, HeldArithmetic
    <3> QED
      BY <3>4 DEF l
  <2>4. CASE p \in Queues /\ EnqueueThrottled(c)
    <3>1. capacity' = [capacity EXCEPT ![p] = @ - 1]
             /\ queue' = [queue EXCEPT ![p] = Append(@, c)]
      BY <2>4 DEF EnqueueThrottled
    <3>2. p = q
      BY <1>2, <2>1, <3>1, IInvFacts
    <3>3. capacity'[q] = k - 1 /\ Len(queue'[q]) = n + 1
      <4>1. queue'[q] = Append(queue[q], c) /\ queue[q] \in Seq(Calls)
        BY <3>1, <3>2, IInvFacts
      <4>2. Len(queue'[q]) = n + 1
        BY <4>1, AppendProperties
      <4> QED
        BY <3>1, <3>2, <4>2, IInvFacts
    <3> HIDE DEF k, n, l
    <3> QED
      BY <1>1, <2>1, <3>3, HeldArithmetic
  <2> QED
    BY <1>3, <2>2, <2>3, <2>4 DEF Reserve, isUnlimited
<1>4. ASSUME NEW c \in Calls, Release(c) PROVE FALSE
  <2> DEFINE p == QueueOf(c)
             after == [reservation EXCEPT ![c] = "released"]
  <2>1. isEnabled'
    BY <1>4 DEF Release
  <2>2. CASE capacity' = capacity /\ queue' = queue
    BY <1>2, <2>1, <2>2
  <2>3. CASE p \in Queues /\ GiveBack(p, queue[p], after)
    <3>1. /\ capacity' = [capacity EXCEPT ![p] = @ + 1]
          /\ queue' = [queue EXCEPT ![p] = IF queue[p] = <<>> THEN <<>> ELSE Tail(queue[p])]
      BY <2>3 DEF GiveBack
    <3>2. p = q
      BY <1>2, <2>1, <3>1, IInvFacts
    <3>3. capacity'[q] = k + 1
      BY <3>1, <3>2, IInvFacts
    <3>4. Len(queue'[q]) = n \/ Len(queue'[q]) = n - 1
      <4>1. queue[q] \in Seq(Calls) /\ queue'[q] = IF queue[q] = <<>> THEN <<>> ELSE Tail(queue[q])
        BY <3>1, <3>2, IInvFacts
      <4>2. CASE queue[q] = <<>>
        BY <4>1, <4>2
      <4>3. CASE queue[q] # <<>>
        BY <4>1, <4>3, HeadTailProperties
      <4> QED
        BY <4>2, <4>3
    <3> HIDE DEF k, n, l
    <3> QED
      BY <1>1, <2>1, <3>3, <3>4, HeldArithmetic
  <2> QED
    BY <1>4, <2>2, <2>3 DEF Release, isUnlimited
<1>5. ASSUME NEW e \in Executions, RemoveExecution(e)
      PROVE  \E c \in Calls : /\ QueueOf(c) = q
                              /\ reservation[c] = "waiting" /\ reservation'[c] = "dropped"
  <2>1. PICK p \in Queues : \E i \in DOMAIN queue[p] :
           GiveBack(p, RemoveAt(queue[p], i), [reservation EXCEPT ![queue[p][i]] = "dropped"])
    BY <1>5 DEF RemoveExecution
  <2>2. PICK m \in DOMAIN queue[p] :
           GiveBack(p, RemoveAt(queue[p], m), [reservation EXCEPT ![queue[p][m]] = "dropped"])
    BY <2>1
  <2>3. isEnabled'
    BY <1>5 DEF RemoveExecution
  <2>4. p = q
    <3>1. /\ \A t \in Queues : t # p => capacity'[t] = capacity[t] /\ queue'[t] = queue[t]
      BY <2>2, IInvFacts DEF GiveBack
    <3> QED
      BY <1>2, <2>3, <3>1
  <2> DEFINE z == queue[p][m]
             rest == RemoveAt(queue[p], m)
             after == [reservation EXCEPT ![z] = "dropped"]
  <2>5. /\ queue[p] \in Seq(Calls) /\ z \in Calls /\ reservation[z] = "waiting"
        /\ QueueOf(z) = p /\ Len(queue[p]) \in Nat /\ m \in 1..Len(queue[p])
    BY IInvFacts, LenProperties DEF QueuedOnceIn
  <2>6. /\ rest \in Seq(Calls) /\ Len(rest) = Len(queue[p]) - 1
        /\ DOMAIN rest = 1..(Len(queue[p]) - 1)
        /\ \A j \in 1..(Len(queue[p]) - 1) :
              rest[j] = IF j < m THEN queue[p][j] ELSE queue[p][j + 1]
    BY <2>5, RemoveAtIs
  <2>7. after \in [Calls -> ReservationStates] /\ after[z] = "dropped"
    BY <2>5, IInvFacts DEF ReservationStates
  <2> HIDE DEF rest
  <2>8. GiveBack(p, rest, after)
    BY <2>2 DEF rest
  <2>9. ~(rest # <<>> /\ z = rest[1])
    <3> SUFFICES ASSUME rest # <<>>, z = rest[1] PROVE FALSE
      OBVIOUS
    <3>1. Len(rest) \in Nat /\ Len(rest) # 0
      BY <2>6, EmptySeq, LenProperties
    <3>2. 1 \in 1..(Len(queue[p]) - 1)
      BY <2>5, <2>6, <3>1
    <3> DEFINE h == IF 1 < m THEN 1 ELSE 2
    <3>3. z = queue[p][h] /\ h \in DOMAIN queue[p] /\ h # m
      BY <2>5, <2>6, <3>2
    <3> QED
      BY <3>3, IInvFacts DEF QueuedOnceIn
  <2>10. reservation'[z] = "dropped"
    <3> HIDE DEF z, after
    <3> QED
      BY <2>5, <2>6, <2>7, <2>8, <2>9, GiveBackAdmits
  <2> QED
    BY <2>4, <2>5, <2>10
<1>6. CASE Disable
  <2>1. Held(q)' = Held(q)
    BY <1>6 DEF Disable, Held
  <2>2. Cardinality(Held(q)) \in Nat
    <3>1. Held(q) = HeldIn(reservation, q)
      BY DEF Held, HeldIn
    <3> QED
      BY <3>1, HeldFinite
  <2>3. Cardinality(Held(q)') = Cardinality(Held(q))
    BY <2>1
  <2> QED
    BY <2>2, <2>3
<1>7. CASE Restart
  <2>1. Held(q)' = {}
    BY <1>7 DEF Restart, Held
  <2>2. Cardinality(Held(q)') = 0 /\ Cardinality(Held(q)) \in Nat
    <3>1. Held(q) = HeldIn(reservation, q)
      BY DEF Held, HeldIn
    <3>2. Cardinality({}) = 0
      BY FS_EmptySet
    <3> QED
      BY <2>1, <3>1, <3>2, HeldFinite
  <2> QED
    BY <2>2
<1> QED
  BY <1>3, <1>4, <1>5, <1>6, <1>7 DEF Next

(***************************************************************************)
(* The configured limit is exceeded only through remove(): for any number  *)
(* of calls and any limits, reserve() and release() never admit a call     *)
(* beyond it.                                                              *)
(***************************************************************************)
THEOREM LimitHoldsButForRemove == Spec => OverLimitOnlyByRemove
<1>1. ASSUME IInv, IInv', [Next]_vars
      PROVE  [\A q \in Queues :
                (isEnabled /\ Cardinality(Held(q)') > limits[q]
                           /\ Cardinality(Held(q)') > Cardinality(Held(q)))
                   => \E c \in Calls : /\ QueueOf(c) = q
                                       /\ reservation[c] = "waiting"
                                       /\ reservation'[c] = "dropped"]_vars
  BY <1>1, StepOverLimit
<1> QED
  BY InitInv, NextInv, <1>1, PTL DEF Spec, OverLimitOnlyByRemove
=============================================================================
