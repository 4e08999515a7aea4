-------------------------- MODULE TaskBrokerProofs --------------------------
(***************************************************************************)
(* Proofs about TaskBroker, for any requests, runners and types, any       *)
(* maxConcurrency and any bound on the offers.                             *)
(*                                                                         *)
(* The argument follows an offer.  Before its task runs it is one token    *)
(* that moves from the runner to the broker and back: runner:taskoffer,    *)
(* pendingTaskOffers, broker:taskofferaccept, the runner's answer,         *)
(* broker:tasksettings.  OnePlace and ChannelOK say that it is never in    *)
(* two places, and the other parts of StageOf what each side holds while   *)
(* it is in each.  Every property but the limit of a runner and the single *)
(* match of a request is read off that; these two are invariants of their  *)
(* own.                                                                    *)
(*                                                                         *)
(* settleTasks is a loop, and expireTasks and deregisterRunner filter a    *)
(* list.  What they compute is proved by an induction on sets of numbers,  *)
(* obtained from the pigeonhole principle for finite sets.                 *)
(***************************************************************************)
EXTENDS TaskBroker, FiniteSetTheorems, SequenceTheorems, TLAPS

(* Where an offer, or the task made from it, is. *)

(***************************************************************************)
(* A message of this type about offer o is on its way to the broker, or to *)
(* the runner.                                                             *)
(***************************************************************************)
ToBroker(type, o) == Message(type, o) \in ToSet(toBroker[o[1]])
ToRunner(type, o) == Message(type, o) \in ToSet(toRunner[o[1]])

(***************************************************************************)
(* The stages of an offer: runner:taskoffer on its way, in                 *)
(* pendingTaskOffers, matched and on its way back, answered by the runner, *)
(* given its settings, cancelled, ended.                                   *)
(***************************************************************************)
Offered(o) == ToBroker("taskoffer", o)
Pending(o) == o \in ToSet(pendingTaskOffers)
Matched(o) == ToRunner("taskofferaccept", o)
Answered(o) == \/ ToBroker("taskaccepted", o) \/ ToBroker("taskrejected", o)
               \/ ToBroker("taskdeferred", o)
Settings(o) == ToRunner("tasksettings", o)
Cancelled(o) == ToRunner("taskcancel", o)
Ended(o) == ToBroker("taskdone", o) \/ ToBroker("taskerror", o)
Early(o) == Offered(o) \/ Pending(o) \/ Matched(o)

(***************************************************************************)
(* An offer is in one place at a time before its task runs: the messages   *)
(* of these types about it are one token that is handed over.  The others  *)
(* end its task.                                                           *)
(***************************************************************************)
TokenTypes == {"taskoffer", "taskaccepted", "taskrejected", "taskdeferred",
               "taskofferaccept", "tasksettings"}
EndTypes == {"taskdone", "taskerror"}

(***************************************************************************)
(* At most one message of a channel carries the token of an offer, and it  *)
(* comes before the message that ends the task.                            *)
(***************************************************************************)
ChannelOK(s) ==
    \A i, j \in DOMAIN s : (s[i].task = s[j].task /\ s[i].type \in TokenTypes) =>
        /\ s[j].type \in TokenTypes => i = j
        /\ s[j].type \in EndTypes => i < j

\* No element of s is repeated.
Distinct(s) == \A i, j \in DOMAIN s : s[i] = s[j] => i = j

(***************************************************************************)
(* A runner that has not connected is not known, and nothing has come from *)
(* it.                                                                     *)
(***************************************************************************)
NewInv == \A r \in Runners : process[r] = "new" => r \notin knownRunners /\ toBroker[r] = <<>>

\* The token of an offer is in one place.
OnePlace(o) ==
    /\ Offered(o) => ~Pending(o) /\ ~Matched(o)
    /\ Pending(o) => ~Matched(o)
    /\ Early(o) => ~Answered(o) /\ ~Settings(o)
    /\ Answered(o) => ~Settings(o)

(***************************************************************************)
(* Until the runner answers, no side has a task, and acceptOffer waits for *)
(* no offer that is still to be matched.                                   *)
(***************************************************************************)
EarlyInv(o) ==
    /\ Early(o) => runningTasks[o] = "none" /\ ~Ended(o) /\ ~Cancelled(o) /\ o \notin tasks
    /\ Offered(o) \/ Pending(o) => accepting[o] = None

(***************************************************************************)
(* Until the runner gets the settings its task has not started; an         *)
(* acceptance is of a task that the runner has, or has told the end of.    *)
(***************************************************************************)
AnsweredInv(o) ==
    /\ Answered(o) \/ Settings(o) => runningTasks[o] \in {"none", "waitingForSettings"}
    /\ Answered(o) => ~Cancelled(o) /\ o \notin tasks
    /\ (ToBroker("taskaccepted", o) /\ process[o[1]] = "up") =>
          runningTasks[o] # "none" \/ Ended(o)

\* Nothing is known of an offer that the runner has not made.
FreshInv(o) == o[2] > offersMade[o[1]] =>
    /\ ~Early(o) /\ ~Answered(o) /\ ~Settings(o) /\ ~Cancelled(o) /\ ~Ended(o)
    /\ runningTasks[o] = "none" /\ o \notin tasks /\ accepting[o] = None

(***************************************************************************)
(* A task of the broker belongs to a known runner, which has it or has     *)
(* told its end; the broker has dropped a task whose cancellation it sent. *)
(***************************************************************************)
KeptInv(o) ==
    /\ o \in tasks => /\ o[1] \in knownRunners
                      /\ process[o[1]] = "up" => runningTasks[o] # "none" \/ Ended(o)
    /\ Cancelled(o) \/ runningTasks[o] = "aborting:cancelled" => o \notin tasks

\* All of this for one offer, and for every offer.
StageOf(o) == OnePlace(o) /\ EarlyInv(o) /\ AnsweredInv(o) /\ FreshInv(o) /\ KeptInv(o)

StageInv == \A o \in Offers : StageOf(o)

\* A request is matched with one offer, and is marked while it is.
MatchInv ==
    /\ OneMatchPerRequest
    /\ \A o \in Offers : accepting[o] # None => accepting[o] \in acceptInProgress

\* Some startTask was given task t, whatever became of it.
Awaited(t) == \E q \in Requests :
    taskOf[q] = t /\ request[q] \notin {"idle", "pending", "expired"}

(***************************************************************************)
(* Settings are sent, and a task runs, only for a startTask that was given *)
(* it.                                                                     *)
(***************************************************************************)
AwaitInv == \A t \in Tasks :
    (Settings(t) \/ runningTasks[t] \in {"running", "aborting:cancelled", "aborting:timeout"})
       => Awaited(t)

-----------------------------------------------------------------------------
(* Induction and recursion over an initial segment of the natural numbers. *)

(***************************************************************************)
(* Induction, for a set: if a number were outside S, then subtracting 1    *)
(* would be an injection of the finite set of the numbers up to it outside *)
(* S into itself, hence onto it, and nothing could be mapped to the        *)
(* largest.                                                                *)
(***************************************************************************)
LEMMA SetInduction ==
    ASSUME NEW S, 0 \in S, \A n \in Nat : n \in S => n + 1 \in S
    PROVE  \A n \in Nat : n \in S
<1> SUFFICES ASSUME NEW x \in Nat, x \notin S PROVE FALSE
  OBVIOUS
<1> DEFINE A == {y \in 0..x : y \notin S}
           f == [y \in A |-> y - 1]
<1>1. IsFiniteSet(A)
  <2>1. IsFiniteSet(0..x)
    BY FS_Interval
  <2> QED BY <2>1, FS_Subset
<1>2. \A y \in A : y - 1 \in A
  <2> TAKE y \in A
  <2>1. y # 0
    OBVIOUS
  <2>2. y - 1 \in Nat /\ (y - 1) + 1 = y
    BY <2>1
  <2> QED BY <2>2
<1>3. f \in Injection(A, A)
  <2>1. f \in [A -> A]
    BY <1>2
  <2>2. \A a, b \in A : f[a] = f[b] => a = b
    OBVIOUS
  <2> QED BY <2>1, <2>2 DEF Injection, IsInjective
<1>4. f \in Surjection(A, A)
  BY <1>1, <1>3, FS_Injection
<1>5. x \in A
  OBVIOUS
<1>6. PICK y \in A : f[y] = x
  BY <1>4, <1>5 DEF Surjection
<1> QED BY <1>6

\* The same on 0..n, with the step at k from k - 1.
LEMMA SegmentInduction ==
    ASSUME NEW n \in Nat, NEW S, 0 \in S, \A k \in 1..n : k - 1 \in S => k \in S
    PROVE  \A k \in 0..n : k \in S
<1> DEFINE T == {k \in Nat : k \in S \/ k > n}
<1>1. 0 \in T
  OBVIOUS
<1>2. \A k \in Nat : k \in T => k + 1 \in T
  <2> SUFFICES ASSUME NEW k \in Nat, k \in T PROVE k + 1 \in T
    OBVIOUS
  <2>1. CASE k + 1 > n
    BY <2>1
  <2>2. CASE ~(k + 1 > n)
    <3>1. k \in S /\ k + 1 \in 1..n /\ (k + 1) - 1 = k
      BY <2>2
    <3>2. k + 1 \in S
      BY <3>1
    <3> QED BY <3>2
  <2> QED BY <2>1, <2>2
<1> HIDE DEF T
<1>3. \A k \in Nat : k \in T
  BY <1>1, <1>2, SetInduction
<1> QED BY <1>3 DEF T

\* g is the run of a recursion on 0..n from base, with step F.
SegmentRun(D, n, base, F, g) ==
    g \in [0..n -> D] /\ g[0] = base /\ \A k \in 1..n : g[k] = F[<<k, g[k - 1]>>]

(***************************************************************************)
(* Such a run exists, so a recursive function on 0..n does satisfy its     *)
(* equation.                                                               *)
(***************************************************************************)
LEMMA SegmentRecursion ==
    ASSUME NEW D, NEW n \in Nat, NEW base \in D, NEW F,
           \A k \in 1..n, d \in D : F[<<k, d>>] \in D
    PROVE  \E g : SegmentRun(D, n, base, F, g)
<1> DEFINE Runs(g, j) == SegmentRun(D, j, base, F, g)
           S == {j \in Nat : j <= n /\ \E g : Runs(g, j)}
<1> USE DEF SegmentRun
<1>1. 0 \in S
  <2>1. Runs([k \in 0..0 |-> base], 0)
    OBVIOUS
  <2> HIDE DEF Runs
  <2> QED BY <2>1
<1>2. \A j \in 1..n : j - 1 \in S => j \in S
  <2> SUFFICES ASSUME NEW j \in 1..n, j - 1 \in S PROVE j \in S
    OBVIOUS
  <2>1. PICK g : Runs(g, j - 1)
    OBVIOUS
  <2> DEFINE h == [k \in 0..j |-> IF k < j THEN g[k] ELSE F[<<j, g[j - 1]>>]]
  <2>2. g[j - 1] \in D /\ F[<<j, g[j - 1]>>] \in D
    BY <2>1
  <2>3. h \in [0..j -> D]
    BY <2>1, <2>2
  <2>4. h[0] = base
    BY <2>1
  <2>5. ASSUME NEW k \in 1..j PROVE h[k] = F[<<k, h[k - 1]>>]
    <3>1. h[k - 1] = g[k - 1]
      OBVIOUS
    <3>2. CASE k < j
      <4>1. k \in 1..(j - 1) /\ h[k] = g[k]
        BY <3>2
      <4> QED BY <4>1, <3>1, <2>1
    <3>3. CASE ~(k < j)
      <4>1. k = j
        BY <3>3
      <4>2. h[j] = F[<<j, g[j - 1]>>]
        OBVIOUS
      <4> HIDE DEF h
      <4> QED BY <4>1, <4>2, <3>1
    <3> QED BY <3>2, <3>3
  <2> HIDE DEF h
  <2>6. Runs(h, j)
    BY <2>3, <2>4, <2>5
  <2> HIDE DEF Runs
  <2> QED BY <2>6
<1> HIDE DEF S
<1>3. \A k \in 0..n : k \in S
  BY <1>1, <1>2, SegmentInduction
<1>4. n \in S
  BY <1>3
<1> QED BY <1>4 DEF S

-----------------------------------------------------------------------------
(* Sequences. *)

\* The elements of a sequence over U are in U.
LEMMA ToSetType ==
    ASSUME NEW U, NEW s \in Seq(U) PROVE ToSet(s) \subseteq U
<1>1. \A i \in DOMAIN s : s[i] \in U
  BY LenProperties
<1> QED BY <1>1 DEF ToSet

\* What Append does to the elements of a sequence.
LEMMA AppendFacts ==
    ASSUME NEW U, NEW s \in Seq(U), NEW e \in U
    PROVE  /\ Append(s, e) \in Seq(U)
           /\ ToSet(Append(s, e)) = ToSet(s) \cup {e}
           /\ (Distinct(s) /\ e \notin ToSet(s)) => Distinct(Append(s, e))
<1> DEFINE a == Append(s, e)
<1>1. a \in Seq(U) /\ Len(a) = Len(s) + 1 /\ DOMAIN a = 1..(Len(s) + 1)
  BY AppendProperties, LenProperties
<1>2. \A i \in 1..Len(s) : a[i] = s[i]
  BY AppendProperties
<1>3. a[Len(s) + 1] = e
  BY AppendProperties
<1>4. DOMAIN s = 1..Len(s) /\ Len(s) \in Nat
  BY LenProperties
<1> HIDE DEF a
<1>5. ToSet(a) = ToSet(s) \cup {e}
  BY <1>1, <1>2, <1>3, <1>4 DEF ToSet
<1>6. (Distinct(s) /\ e \notin ToSet(s)) => Distinct(a)
  BY <1>1, <1>2, <1>3, <1>4 DEF ToSet, Distinct
<1> QED BY <1>1, <1>5, <1>6 DEF a

\* g is the run of the recursion in Keep(s, S).
KeepRun(U, s, S, g) ==
    /\ g \in [0..Len(s) -> Seq(U)]
    /\ g[0] = <<>>
    /\ \A k \in 1..Len(s) :
          g[k] = IF s[k] \in S THEN Append(g[k - 1], s[k]) ELSE g[k - 1]
    /\ Keep(s, S) = g[Len(s)]

\* Keep(s, S) is the end of a run.
LEMMA KeepRuns ==
    ASSUME NEW U, NEW s \in Seq(U), NEW S
    PROVE  \E g : KeepRun(U, s, S, g)
<1> DEFINE n == Len(s)
           F == [p \in (1..n) \X Seq(U) |->
                    IF s[p[1]] \in S THEN Append(p[2], s[p[1]]) ELSE p[2]]
           Fix(g) == g = [i \in 0..n |->
                            IF i = 0 THEN <<>>
                            ELSE IF s[i] \in S THEN Append(g[i - 1], s[i]) ELSE g[i - 1]]
<1>1. n \in Nat /\ \A k \in 1..n : s[k] \in U
  BY LenProperties, ElementOfSeq
<1>2. <<>> \in Seq(U)
  BY EmptySeq
<1>3. F \in [(1..n) \X Seq(U) -> Seq(U)]
  BY <1>1, AppendProperties
<1> HIDE DEF n
<1>4. PICK g \in [0..n -> Seq(U)] : g[0] = <<>> /\ \A k \in 1..n : g[k] = F[<<k, g[k - 1]>>]
  <2> DEFINE D == Seq(U)
             b == <<>>
  <2>1. n \in Nat /\ b \in D /\ \A k \in 1..n, d \in D : F[<<k, d>>] \in D
    BY <1>1, <1>2, <1>3
  <2> HIDE DEF F, D, b
  <2>2. PICK g : SegmentRun(D, n, b, F, g)
    BY <2>1, SegmentRecursion
  <2> QED BY <2>2 DEF D, b, SegmentRun
<1>5. ASSUME NEW k \in 1..n
      PROVE  g[k] = IF s[k] \in S THEN Append(g[k - 1], s[k]) ELSE g[k - 1]
  <2>1. g[k - 1] \in Seq(U)
    BY <1>1
  <2>2. <<k, g[k - 1]>> \in (1..n) \X Seq(U)
    BY <2>1
  <2>3. F[<<k, g[k - 1]>>] = IF s[k] \in S THEN Append(g[k - 1], s[k]) ELSE g[k - 1]
    BY <2>2
  <2> QED BY <2>3, <1>4
<1> HIDE DEF F
<1>6. Fix(g)
  <2> DEFINE rhs(i) == IF i = 0 THEN <<>>
                       ELSE IF s[i] \in S THEN Append(g[i - 1], s[i]) ELSE g[i - 1]
  <2>1. ASSUME NEW i \in 0..n PROVE g[i] = rhs(i)
    <3>1. i = 0 \/ i \in 1..n
      BY <1>1
    <3> QED BY <3>1, <1>4, <1>5
  <2>2. g = [i \in 0..n |-> g[i]]
    OBVIOUS
  <2> HIDE DEF rhs
  <2>3. g = [i \in 0..n |-> rhs(i)]
    BY <2>1, <2>2
  <2> QED BY <2>3 DEF rhs
<1> DEFINE c == CHOOSE h : Fix(h)
<1>7. Fix(c)
  <2> HIDE DEF Fix
  <2> QED BY <1>6
<1>8. Keep(s, S) = c[n]
  BY DEF Keep, n
<1> HIDE DEF c
<1>9. c \in [0..n -> Seq(U)]
  <2> DEFINE T == {k \in 0..n : c[k] = g[k]}
  <2>1. 0 \in T
    BY <1>1, <1>4, <1>7
  <2>2. ASSUME NEW k \in 1..n, k - 1 \in T PROVE k \in T
    <3>1. k \in 0..n /\ k # 0
      BY <1>1
    <3>2. c[k] = IF s[k] \in S THEN Append(c[k - 1], s[k]) ELSE c[k - 1]
      BY <1>7, <3>1
    <3> QED BY <1>1, <3>1, <3>2, <2>2, <1>5
  <2> HIDE DEF T
  <2>3. \A k \in 0..n : k \in T
    BY <1>1, <2>1, <2>2, SegmentInduction
  <2>4. \A k \in 0..n : c[k] = g[k]
    BY <2>3 DEF T
  <2>5. DOMAIN c = 0..n /\ c = [k \in 0..n |-> c[k]]
    BY <1>7
  <2> HIDE DEF Fix
  <2> QED BY <2>4, <2>5
<1>10. c[0] = <<>>
  BY <1>1, <1>7
<1>11. ASSUME NEW k \in 1..n
       PROVE  c[k] = IF s[k] \in S THEN Append(c[k - 1], s[k]) ELSE c[k - 1]
  <2>1. k \in 0..n /\ k # 0
    BY <1>1
  <2> QED BY <1>7, <2>1
<1> HIDE DEF Fix
<1> QED BY <1>8, <1>9, <1>10, <1>11 DEF n, KeepRun

(***************************************************************************)
(* Keep(s, S) has the elements of s that are in S, and repeats none that s *)
(* does not.                                                               *)
(***************************************************************************)
LEMMA KeepFacts ==
    ASSUME NEW U, NEW s \in Seq(U), NEW S
    PROVE  /\ Keep(s, S) \in Seq(U)
           /\ ToSet(Keep(s, S)) = ToSet(s) \cap S
           /\ Distinct(s) => Distinct(Keep(s, S))
<1> DEFINE n == Len(s)
<1>1. n \in Nat /\ DOMAIN s = 1..n /\ \A k \in 1..n : s[k] \in U
  BY LenProperties, ElementOfSeq
<1>0. PICK g : KeepRun(U, s, S, g)
  BY KeepRuns
<1>2. /\ g \in [0..n -> Seq(U)]
      /\ g[0] = <<>>
      /\ \A k \in 1..n : g[k] = IF s[k] \in S THEN Append(g[k - 1], s[k]) ELSE g[k - 1]
      /\ Keep(s, S) = g[n]
  BY <1>0 DEF KeepRun
<1> HIDE DEF n
<1> DEFINE Upto(k) == {s[i] : i \in 1..k}
           T == {k \in 0..n : /\ ToSet(g[k]) = Upto(k) \cap S
                              /\ Distinct(s) => Distinct(g[k])}
<1>3. 0 \in T
  <2>1. ToSet(<<>>) = {} /\ Distinct(<<>>)
    BY DEF ToSet, Distinct
  <2>2. Upto(0) = {} /\ 0 \in 0..n
    BY <1>1
  <2> QED BY <2>1, <2>2, <1>2
<1>4. ASSUME NEW k \in 1..n, k - 1 \in T PROVE k \in T
  <2> DEFINE h == g[k - 1]
             e == s[k]
  <2>1. h \in Seq(U) /\ e \in U /\ k \in 0..n
    BY <1>1, <1>2
  <2>2. ToSet(h) = Upto(k - 1) \cap S /\ (Distinct(s) => Distinct(h))
    BY <1>4
  <2>3. Upto(k) = Upto(k - 1) \cup {e}
    <3>1. 1..k = (1..(k - 1)) \cup {k}
      BY <1>1
    <3> QED BY <3>1
  <2>4. Distinct(s) => e \notin Upto(k - 1)
    <3> SUFFICES ASSUME Distinct(s), NEW i \in 1..(k - 1), s[i] = s[k] PROVE FALSE
      OBVIOUS
    <3>1. i \in 1..n /\ k \in 1..n /\ i # k
      BY <1>1
    <3> QED BY <1>1, <3>1 DEF Distinct
  <2>5. g[k] = IF e \in S THEN Append(h, e) ELSE h
    BY <1>2
  <2> HIDE DEF h, e, Upto
  <2>6. /\ ToSet(Append(h, e)) = ToSet(h) \cup {e}
        /\ (Distinct(h) /\ e \notin ToSet(h)) => Distinct(Append(h, e))
    BY <2>1, AppendFacts
  <2>7. ToSet(g[k]) = Upto(k) \cap S
    BY <2>2, <2>3, <2>5, <2>6
  <2>8. Distinct(s) => Distinct(g[k])
    BY <2>2, <2>4, <2>5, <2>6
  <2> QED BY <2>1, <2>7, <2>8
<1> HIDE DEF T
<1>5. \A k \in 0..n : k \in T
  BY <1>1, <1>3, <1>4, SegmentInduction
<1>6. ToSet(g[n]) = Upto(n) \cap S /\ (Distinct(s) => Distinct(g[n]))
  <2>1. n \in T
    BY <1>1, <1>5
  <2> HIDE DEF Upto
  <2> QED BY <2>1 DEF T
<1>7. Upto(n) = ToSet(s)
  BY <1>1 DEF ToSet
<1>8. g[n] \in Seq(U)
  BY <1>1, <1>2
<1> HIDE DEF Upto
<1> QED BY <1>2, <1>6, <1>7, <1>8

(***************************************************************************)
(* A set of indices that is not empty has a smallest one, which            *)
(* SelectInSeq finds.                                                      *)
(***************************************************************************)
LEMMA SmallestExists ==
    ASSUME NEW n \in Nat, NEW I \in SUBSET (1..n), I # {}
    PROVE  Min(I) \in I
<1> DEFINE T == {k \in 0..n : (\E i \in I : i <= k) => \E i \in I : \A j \in I : i <= j}
<1>1. 0 \in T
  OBVIOUS
<1>2. ASSUME NEW k \in 1..n, k - 1 \in T PROVE k \in T
  <2>1. CASE \E i \in I : i <= k - 1
    BY <1>2, <2>1
  <2>2. CASE ~\E i \in I : i <= k - 1
    <3>1. \A i \in I : i \in Nat /\ i >= k
      BY <2>2
    <3>2. \A i \in I : i <= k => (i = k /\ \A j \in I : i <= j)
      BY <3>1
    <3> QED BY <3>2
  <2> QED BY <2>1, <2>2
<1> HIDE DEF T
<1>3. \A k \in 0..n : k \in T
  BY <1>1, <1>2, SegmentInduction
<1>4. n \in T
  BY <1>3
<1>5. \E i \in I : i <= n
  <2>1. PICK i \in I : TRUE
    OBVIOUS
  <2>2. i <= n
    OBVIOUS
  <2> QED BY <2>2
<1>6. \E i \in I : \A j \in I : i <= j
  BY <1>4, <1>5 DEF T
<1> QED BY <1>6 DEF Min

\* What RemoveAt leaves of a sequence.
LEMMA RemoveAtFacts ==
    ASSUME NEW U, NEW s \in Seq(U), NEW i \in 1..Len(s)
    PROVE  /\ RemoveAt(s, i) \in Seq(U)
           /\ ToSet(RemoveAt(s, i)) \subseteq ToSet(s)
           /\ Distinct(s) => /\ Distinct(RemoveAt(s, i))
                             /\ ToSet(RemoveAt(s, i)) = ToSet(s) \ {s[i]}
<1> DEFINE a == SubSeq(s, 1, i - 1)
           b == SubSeq(s, i + 1, Len(s))
           c == a \o b
           n == Len(s)
<1>1. n \in Nat /\ DOMAIN s = 1..n /\ \A k \in 1..n : s[k] \in U
  BY LenProperties, ElementOfSeq
<1>2. a \in Seq(U) /\ Len(a) = i - 1 /\ \A k \in 1..(i - 1) : a[k] = s[k]
  BY <1>1, SubSeqProperties
<1>3. b \in Seq(U) /\ Len(b) = n - i /\ \A k \in 1..(n - i) : b[k] = s[k + i]
  <2>1. i + 1 \in Int /\ n \in Int /\ \A k \in (i + 1)..n : s[k] \in U
    BY <1>1
  <2>0. n \in Nat /\ i \in 1..n
    BY <1>1
  <2>2. (IF i + 1 <= n THEN n - (i + 1) + 1 ELSE 0) = n - i /\ n - (i + 1) + 1 = n - i
    <3> HIDE DEF n
    <3> QED BY <2>0
  <2>3. \A k \in 1..(n - i) : i + 1 + k - 1 = k + i
    BY <2>0
  <2>4. /\ b \in Seq(U)
        /\ Len(b) = IF i + 1 <= n THEN n - (i + 1) + 1 ELSE 0
        /\ \A k \in 1..(n - (i + 1) + 1) : b[k] = s[i + 1 + k - 1]
    BY <2>1, SubSeqProperties
  <2> HIDE DEF b, n
  <2> QED BY <2>2, <2>3, <2>4
<1> HIDE DEF a, b, n
<1>4. /\ c \in Seq(U) /\ Len(c) = n - 1
      /\ \A k \in 1..(n - 1) : c[k] = IF k < i THEN s[k] ELSE s[k + 1]
  <2>1. /\ c \in Seq(U) /\ Len(c) = Len(a) + Len(b)
        /\ \A k \in 1..(Len(a) + Len(b)) : c[k] = IF k <= Len(a) THEN a[k] ELSE b[k - Len(a)]
    BY <1>2, <1>3, ConcatProperties
  <2>2. i \in 1..n
    BY DEF n
  <2>3. Len(a) + Len(b) = n - 1
    BY <1>1, <1>2, <1>3, <2>2
  <2> HIDE DEF c
  <2>4. ASSUME NEW k \in 1..(n - 1) PROVE c[k] = IF k < i THEN s[k] ELSE s[k + 1]
    <3>1. c[k] = IF k <= i - 1 THEN a[k] ELSE b[k - (i - 1)]
      BY <1>2, <2>1, <2>3
    <3>2. CASE k < i
      <4>1. k \in 1..(i - 1)
        BY <1>1, <2>2, <3>2
      <4> QED BY <4>1, <3>1, <3>2, <1>2
    <3>3. CASE ~(k < i)
      <4>1. k - (i - 1) \in 1..(n - i) /\ (k - (i - 1)) + i = k + 1 /\ ~(k <= i - 1)
        BY <1>1, <2>2, <3>3
      <4> QED BY <4>1, <3>1, <3>3, <1>3
    <3> QED BY <3>2, <3>3
  <2> QED BY <2>1, <2>3, <2>4
<1>5. RemoveAt(s, i) = c
  BY DEF RemoveAt, a, b, c
<1> HIDE DEF c
<1>6. DOMAIN c = 1..(n - 1)
  BY <1>4, LenProperties
<1>7. ToSet(c) \subseteq ToSet(s)
  <2> SUFFICES ASSUME NEW k \in 1..(n - 1) PROVE c[k] \in ToSet(s)
    BY <1>6 DEF ToSet
  <2>1. k \in 1..n /\ k + 1 \in 1..n
    BY <1>1
  <2> QED BY <1>1, <1>4, <2>1 DEF ToSet
<1>8. Distinct(s) => Distinct(c)
  <2> SUFFICES ASSUME Distinct(s), NEW j \in 1..(n - 1), NEW k \in 1..(n - 1), c[j] = c[k]
               PROVE  j = k
    BY <1>6 DEF Distinct
  <2>1. \A x, y \in 1..n : s[x] = s[y] => x = y
    BY <1>1 DEF Distinct
  <2>2. j \in 1..n /\ j + 1 \in 1..n /\ k \in 1..n /\ k + 1 \in 1..n
    BY <1>1
  <2> QED BY <1>1, <1>4, <2>1, <2>2
<1>9. Distinct(s) => ToSet(c) = ToSet(s) \ {s[i]}
  <2> SUFFICES ASSUME Distinct(s) PROVE ToSet(c) = ToSet(s) \ {s[i]}
    OBVIOUS
  <2>1. \A x, y \in 1..n : s[x] = s[y] => x = y
    BY <1>1 DEF Distinct
  <2>2. ASSUME NEW k \in 1..(n - 1) PROVE c[k] # s[i]
    <3>1. k \in 1..n /\ k + 1 \in 1..n /\ i \in 1..n
      BY <1>1
    <3> QED BY <1>4, <2>1, <3>1
  <2>3. ASSUME NEW k \in 1..n, k # i PROVE \E j \in 1..(n - 1) : c[j] = s[k]
    <3>1. CASE k < i
      <4>1. k \in 1..(n - 1)
        BY <3>1, <1>1
      <4> QED BY <3>1, <4>1, <1>4
    <3>2. CASE k > i
      <4>1. k - 1 \in 1..(n - 1) /\ ~(k - 1 < i) /\ (k - 1) + 1 = k
        BY <3>2, <1>1
      <4> QED BY <4>1, <1>4
    <3> QED BY <3>1, <3>2, <2>3
  <2>4. ToSet(c) = {c[k] : k \in 1..(n - 1)} /\ ToSet(s) = {s[k] : k \in 1..n}
    BY <1>1, <1>6 DEF ToSet
  <2> QED BY <2>2, <2>3, <2>4, <1>7
<1> QED BY <1>4, <1>5, <1>7, <1>8, <1>9

-----------------------------------------------------------------------------
(* The matching loop of settleTasks. *)

\* What the loop of settleTasks works on.
MatchState == [offers : Seq(Offers), inProgress : SUBSET Requests,
               accepting : [Offers -> Requests \cup {None}]]

(***************************************************************************)
(* The invariant of the loop of settleTasks: the offers it has taken out   *)
(* of the list are those it has matched, no request is matched twice, and  *)
(* each matched one is marked.                                             *)
(***************************************************************************)
LoopInv(start, m) ==
    /\ m \in MatchState
    /\ Distinct(m.offers)
    /\ ToSet(m.offers) \subseteq ToSet(start.offers)
    /\ \A o \in ToSet(m.offers) : m.accepting[o] = None
    /\ \A o \in ToSet(start.offers) \ ToSet(m.offers) : m.accepting[o] # None
    /\ \A o \in Offers \ ToSet(start.offers) : m.accepting[o] = start.accepting[o]
    /\ \A o \in Offers : m.accepting[o] # None => m.accepting[o] \in m.inProgress
    /\ \A o, p \in Offers : (m.accepting[o] = m.accepting[p] /\ m.accepting[o] # None) => o = p

\* One round of the loop preserves it.
LEMMA MatchStepKeeps ==
    ASSUME NEW start, NEW m, LoopInv(start, m), NEW q \in Requests
    PROVE  LoopInv(start, MatchStep(m, q))
<1> DEFINE i == SelectInSeq(m.offers, LAMBDA o : RunnerType[o[1]] = RequestType[q])
           x == m.offers[i]
           a == [m.accepting EXCEPT ![x] = q]
           os == RemoveAt(m.offers, i)
           ip == m.inProgress \cup {q}
           n == [offers |-> os, inProgress |-> ip, accepting |-> a]
<1>1. m.offers \in Seq(Offers) /\ m.inProgress \in SUBSET Requests
      /\ m.accepting \in [Offers -> Requests \cup {None}]
  BY DEF LoopInv, MatchState
<1>2. i = 0 \/ i \in 1..Len(m.offers)
  <2> DEFINE I == {k \in 1..Len(m.offers) : RunnerType[m.offers[k][1]] = RequestType[q]}
  <2>1. Len(m.offers) \in Nat /\ I \in SUBSET (1..Len(m.offers))
    BY <1>1, LenProperties
  <2>2. I # {} => Min(I) \in I
    <3> HIDE DEF I
    <3> QED BY <2>1, SmallestExists
  <2>3. i = IF I # {} THEN Min(I) ELSE 0
    BY DEF SelectInSeq
  <2>4. I # {} => Min(I) \in 1..Len(m.offers)
    BY <2>2
  <2> HIDE DEF I, i
  <2> QED BY <2>3, <2>4
<1>3. MatchStep(m, q) = IF q \in m.inProgress \/ i = 0 THEN m ELSE n
  BY DEF MatchStep
<1> HIDE DEF i
<1>4. ASSUME q \notin m.inProgress, i # 0 PROVE LoopInv(start, n)
  <2>1. i \in 1..Len(m.offers) /\ DOMAIN m.offers = 1..Len(m.offers)
    BY <1>1, <1>2, <1>4, LenProperties
  <2>2. x \in Offers /\ x \in ToSet(m.offers)
    BY <1>1, <2>1, ElementOfSeq DEF ToSet
  <2>3. Distinct(m.offers)
    BY DEF LoopInv
  <2>4. os \in Seq(Offers) /\ Distinct(os) /\ ToSet(os) = ToSet(m.offers) \ {x}
    BY <1>1, <2>1, <2>3, RemoveAtFacts
  <2> HIDE DEF os, x
  <2>5. a \in [Offers -> Requests \cup {None}]
    BY <1>1
  <2>6. \A o \in Offers : a[o] = IF o = x THEN q ELSE m.accepting[o]
    BY <1>1
  <2> HIDE DEF a
  <2>7. ip \in SUBSET Requests
    BY <1>1
  <2> HIDE DEF ip
  <2>8. n \in MatchState
    BY <2>4, <2>5, <2>7 DEF MatchState
  <2>9. n.offers = os /\ n.inProgress = ip /\ n.accepting = a
    OBVIOUS
  <2> HIDE DEF n
  <2>10. q # None
    BY TaskBrokerAssumption
  <2>11. /\ ToSet(os) \subseteq ToSet(start.offers)
         /\ \A o \in ToSet(os) : o \in Offers /\ a[o] = None
    <3>1. \A o \in ToSet(m.offers) : o \in Offers
      BY <1>1, LenProperties DEF ToSet
    <3> QED BY <3>1, <2>2, <2>4, <2>6 DEF LoopInv
  <2>12. \A o \in ToSet(start.offers) \ ToSet(os) : a[o] # None
    <3> SUFFICES ASSUME NEW o \in ToSet(start.offers) \ ToSet(os), o # x PROVE a[o] # None
      BY <2>2, <2>6, <2>10
    <3>1. o \notin ToSet(m.offers) /\ m.accepting[o] # None
      BY <2>4 DEF LoopInv
    <3>2. a[o] = m.accepting[o]
      BY <1>1 DEF a
    <3> QED BY <3>1, <3>2
  <2>13. \A o \in Offers \ ToSet(start.offers) : a[o] = start.accepting[o]
    BY <2>2, <2>6 DEF LoopInv
  <2>14. \A o \in Offers : m.accepting[o] # None => m.accepting[o] \in m.inProgress
    BY DEF LoopInv
  <2>15. \A o \in Offers : a[o] # None => a[o] \in ip
    BY <2>6, <2>14 DEF ip
  <2>16. \A o, p \in Offers : (m.accepting[o] = m.accepting[p] /\ m.accepting[o] # None) => o = p
    BY DEF LoopInv
  <2>17. \A o, p \in Offers : (a[o] = a[p] /\ a[o] # None) => o = p
    BY <1>4, <2>6, <2>10, <2>14, <2>16
  <2> QED BY <2>4, <2>8, <2>9, <2>11, <2>12, <2>13, <2>15, <2>17 DEF LoopInv
<1> HIDE DEF n
<1> QED BY <1>3, <1>4

\* So it holds after the loop, whatever the list of requests.
LEMMA MatchRequestsKeeps ==
    ASSUME NEW start, LoopInv(start, start), NEW requests \in Seq(Requests)
    PROVE  LoopInv(start, MatchRequests(requests, start))
<1> DEFINE n == Len(requests)
           D == {m \in MatchState : LoopInv(start, m)}
           F == [p \in (1..n) \X D |-> MatchStep(p[2], requests[p[1]])]
           Fix(g) == g = [i \in 0..n |->
                            IF i = 0 THEN start ELSE MatchStep(g[i - 1], requests[i])]
<1>1. n \in Nat /\ \A k \in 1..n : requests[k] \in Requests
  BY LenProperties, ElementOfSeq
<1>2. start \in D
  BY DEF LoopInv
<1>3. ASSUME NEW k \in 1..n, NEW d \in D
      PROVE  MatchStep(d, requests[k]) \in D
  <2>1. LoopInv(start, d) /\ requests[k] \in Requests
    BY <1>1
  <2>2. LoopInv(start, MatchStep(d, requests[k]))
    BY <2>1, MatchStepKeeps
  <2> QED BY <2>2 DEF LoopInv
<1> HIDE DEF n, D
<1>4. ASSUME NEW k \in 1..n, NEW d \in D
      PROVE  F[<<k, d>>] = MatchStep(d, requests[k]) /\ F[<<k, d>>] \in D
  BY <1>3
<1> HIDE DEF F
<1>5. PICK g : SegmentRun(D, n, start, F, g)
  BY <1>1, <1>2, <1>4, SegmentRecursion
<1>6. g \in [0..n -> D] /\ g[0] = start
  BY <1>5 DEF SegmentRun
<1>7. ASSUME NEW k \in 1..n PROVE g[k] = MatchStep(g[k - 1], requests[k])
  <2>1. g[k - 1] \in D
    BY <1>1, <1>6
  <2> QED BY <2>1, <1>4, <1>5 DEF SegmentRun
<1>8. Fix(g)
  <2> DEFINE rhs(i) == IF i = 0 THEN start ELSE MatchStep(g[i - 1], requests[i])
  <2>1. ASSUME NEW i \in 0..n PROVE g[i] = rhs(i)
    <3>1. i = 0 \/ i \in 1..n
      BY <1>1
    <3>2. i \in 1..n => i # 0
      OBVIOUS
    <3> QED BY <3>1, <3>2, <1>6, <1>7
  <2>2. g = [i \in 0..n |-> g[i]]
    BY <1>6
  <2> HIDE DEF rhs
  <2>3. g = [i \in 0..n |-> rhs(i)]
    BY <2>1, <2>2
  <2> QED BY <2>3 DEF rhs
<1> DEFINE c == CHOOSE h : Fix(h)
<1>9. Fix(c)
  <2> HIDE DEF Fix
  <2> QED BY <1>8
<1>10. MatchRequests(requests, start) = c[n]
  BY DEF MatchRequests, n
<1> HIDE DEF c
<1> DEFINE T == {k \in 0..n : c[k] \in D}
<1>11. 0 \in T
  <2>1. 0 \in 0..n
    BY <1>1
  <2>2. c[0] = start
    BY <1>9, <2>1
  <2> QED BY <1>2, <2>1, <2>2
<1>12. ASSUME NEW k \in 1..n, k - 1 \in T PROVE k \in T
  <2>1. k \in 0..n /\ k # 0
    BY <1>1
  <2>2. c[k] = MatchStep(c[k - 1], requests[k])
    BY <1>9, <2>1
  <2>3. c[k - 1] \in D
    BY <1>12
  <2> QED BY <2>1, <2>2, <2>3, <1>3
<1> HIDE DEF T, Fix
<1>13. \A k \in 0..n : k \in T
  BY <1>1, <1>11, <1>12, SegmentInduction
<1>14. c[n] \in D
  <2>1. n \in T
    BY <1>1, <1>13
  <2> QED BY <2>1 DEF T
<1> QED BY <1>10, <1>14 DEF D

-----------------------------------------------------------------------------
(* Channels. *)

\* The empty sequence.
LEMMA EmptyChannel == ToSet(<<>>) = {} /\ ChannelOK(<<>>) /\ Distinct(<<>>)
BY DEF ToSet, ChannelOK, Distinct

\* A sequence of one message is a channel in order.
LEMMA SingletonChannel ==
    ASSUME NEW U, NEW m \in U
    PROVE  <<m>> \in Seq(U) /\ ToSet(<<m>>) = {m} /\ ChannelOK(<<m>>)
<1>1. <<m>> \in Seq(U) /\ Len(<<m>>) = 1 /\ <<m>>[1] = m /\ DOMAIN <<m>> = {1}
  OBVIOUS
<1>2. ~(m.type \in TokenTypes /\ m.type \in EndTypes)
  BY DEF TokenTypes, EndTypes
<1> QED BY <1>1, <1>2 DEF ToSet, ChannelOK

(***************************************************************************)
(* Taking the first message leaves a channel in order, without the token   *)
(* of an offer that this message was or that it ended.                     *)
(***************************************************************************)
LEMMA ChannelTail ==
    ASSUME NEW U, NEW s \in Seq(U), s # <<>>, ChannelOK(s)
    PROVE  /\ Head(s) \in U /\ Tail(s) \in Seq(U)
           /\ ToSet(s) = {Head(s)} \cup ToSet(Tail(s))
           /\ ChannelOK(Tail(s))
           /\ \A m \in ToSet(Tail(s)) :
                 (m.task = Head(s).task /\ Head(s).type \in TokenTypes \cup EndTypes)
                    => m.type \notin TokenTypes
<1> DEFINE t == Tail(s)
           n == Len(s)
<1>1. n \in Nat \ {0} /\ DOMAIN s = 1..n
  BY LenProperties, EmptySeq
<1>2. Head(s) \in U /\ t \in Seq(U) /\ Len(t) = n - 1 /\ \A i \in 1..Len(t) : t[i] = s[i + 1]
  BY HeadTailProperties
<1>3. DOMAIN t = 1..(n - 1) /\ \A i \in 1..(n - 1) : t[i] = s[i + 1]
  BY <1>2, LenProperties
<1>4. Head(s) = s[1]
  BY <1>1
<1> HIDE DEF t, n
<1>5. \A i \in 1..(n - 1) : i + 1 \in 1..n /\ i + 1 # 1
  BY <1>1
<1>6. ToSet(s) = {s[1]} \cup ToSet(t)
  <2>1. \A i \in 1..n : i = 1 \/ (i - 1 \in 1..(n - 1) /\ (i - 1) + 1 = i)
    BY <1>1
  <2>2. 1 \in 1..n
    BY <1>1
  <2>3. ToSet(s) \subseteq {s[1]} \cup ToSet(t)
    <3> SUFFICES ASSUME NEW i \in 1..n PROVE s[i] \in {s[1]} \cup ToSet(t)
      BY <1>1 DEF ToSet
    <3>1. CASE i = 1
      BY <3>1
    <3>2. CASE i - 1 \in 1..(n - 1) /\ (i - 1) + 1 = i
      <4>1. t[i - 1] = s[i]
        BY <1>3, <3>2
      <4> QED BY <4>1, <3>2, <1>3 DEF ToSet
    <3> QED BY <3>1, <3>2, <2>1
  <2>4. ToSet(t) \subseteq ToSet(s)
    BY <1>1, <1>3, <1>5 DEF ToSet
  <2>5. s[1] \in ToSet(s)
    BY <1>1, <2>2 DEF ToSet
  <2> QED BY <2>3, <2>4, <2>5
<1>7. ChannelOK(t)
  <2> SUFFICES ASSUME NEW i \in 1..(n - 1), NEW j \in 1..(n - 1),
                      t[i].task = t[j].task, t[i].type \in TokenTypes
               PROVE  /\ t[j].type \in TokenTypes => i = j
                      /\ t[j].type \in EndTypes => i < j
    BY <1>3 DEF ChannelOK
  <2>1. t[i] = s[i + 1] /\ t[j] = s[j + 1] /\ i + 1 \in 1..n /\ j + 1 \in 1..n
    BY <1>3, <1>5
  <2>2. /\ t[j].type \in TokenTypes => i + 1 = j + 1
        /\ t[j].type \in EndTypes => i + 1 < j + 1
    BY <1>1, <2>1 DEF ChannelOK
  <2> QED BY <2>2
<1>8. ASSUME NEW i \in 1..(n - 1), t[i].task = s[1].task,
             s[1].type \in TokenTypes \cup EndTypes, t[i].type \in TokenTypes
      PROVE  FALSE
  <2>1. t[i] = s[i + 1] /\ i + 1 \in 1..n /\ 1 \in 1..n
    BY <1>1, <1>3, <1>5
  <2>2. /\ s[1].type \in TokenTypes => i + 1 = 1
        /\ s[1].type \in EndTypes => i + 1 < 1
    BY <1>1, <1>8, <2>1 DEF ChannelOK
  <2> QED BY <2>2, <1>8
<1>9. \A m \in ToSet(t) : (m.task = s[1].task /\ s[1].type \in TokenTypes \cup EndTypes)
                             => m.type \notin TokenTypes
  BY <1>3, <1>8 DEF ToSet
<1> QED BY <1>2, <1>4, <1>6, <1>7, <1>9 DEF t

(***************************************************************************)
(* Messages can be put behind others if they bring no token that is there  *)
(* already or has ended.                                                   *)
(***************************************************************************)
LEMMA ChannelConcat ==
    ASSUME NEW U, NEW s \in Seq(U), NEW u \in Seq(U), ChannelOK(s), ChannelOK(u),
           \A x \in ToSet(s), y \in ToSet(u) :
              (x.task = y.task /\ y.type \in TokenTypes) => x.type \notin TokenTypes \cup EndTypes
    PROVE  /\ s \o u \in Seq(U)
           /\ ToSet(s \o u) = ToSet(s) \cup ToSet(u)
           /\ ChannelOK(s \o u)
<1> DEFINE c == s \o u
           n == Len(s)
           k == Len(u)
<1>1. n \in Nat /\ k \in Nat /\ DOMAIN s = 1..n /\ DOMAIN u = 1..k
  BY LenProperties
<1>2. c \in Seq(U) /\ Len(c) = n + k
      /\ \A i \in 1..(n + k) : c[i] = IF i <= n THEN s[i] ELSE u[i - n]
  BY ConcatProperties
<1>3. DOMAIN c = 1..(n + k)
  BY <1>2, LenProperties
<1> HIDE DEF c, n, k
<1>4. ASSUME NEW i \in 1..(n + k)
      PROVE  \/ i \in 1..n /\ c[i] = s[i] /\ c[i] \in ToSet(s)
             \/ i > n /\ i - n \in 1..k /\ c[i] = u[i - n] /\ c[i] \in ToSet(u)
  <2>1. CASE i <= n
    <3>1. i \in 1..n /\ c[i] = s[i]
      BY <1>1, <1>2, <2>1
    <3> QED BY <3>1, <1>1 DEF ToSet
  <2>2. CASE ~(i <= n)
    <3>1. i > n /\ i - n \in 1..k /\ c[i] = u[i - n]
      BY <1>1, <1>2, <2>2
    <3> QED BY <3>1, <1>1 DEF ToSet
  <2> QED BY <2>1, <2>2
<1>5. ToSet(c) = ToSet(s) \cup ToSet(u)
  <2>1. ToSet(c) \subseteq ToSet(s) \cup ToSet(u)
    BY <1>3, <1>4 DEF ToSet
  <2>2. ASSUME NEW i \in 1..n PROVE s[i] \in ToSet(c)
    <3>1. i \in 1..(n + k) /\ i <= n
      BY <1>1
    <3> QED BY <3>1, <1>2, <1>3 DEF ToSet
  <2>3. ASSUME NEW i \in 1..k PROVE u[i] \in ToSet(c)
    <3>1. i + n \in 1..(n + k) /\ ~(i + n <= n) /\ (i + n) - n = i
      BY <1>1
    <3>2. c[i + n] = u[i]
      BY <3>1, <1>2
    <3> QED BY <3>1, <3>2, <1>3 DEF ToSet
  <2>4. ToSet(s) \subseteq ToSet(c) /\ ToSet(u) \subseteq ToSet(c)
    <3>1. ToSet(s) = {s[i] : i \in 1..n} /\ ToSet(u) = {u[i] : i \in 1..k}
      BY <1>1 DEF ToSet
    <3> QED BY <3>1, <2>2, <2>3
  <2> QED BY <2>1, <2>4
<1>6. ChannelOK(c)
  <2> SUFFICES ASSUME NEW i \in 1..(n + k), NEW j \in 1..(n + k),
                      c[i].task = c[j].task, c[i].type \in TokenTypes
               PROVE  /\ c[j].type \in TokenTypes => i = j
                      /\ c[j].type \in EndTypes => i < j
    BY <1>3 DEF ChannelOK
  <2>1. CASE i \in 1..n /\ c[i] = s[i] /\ c[i] \in ToSet(s)
    <3>1. CASE j \in 1..n /\ c[j] = s[j] /\ c[j] \in ToSet(s)
      BY <1>1, <2>1, <3>1 DEF ChannelOK
    <3>2. CASE j > n /\ j - n \in 1..k /\ c[j] = u[j - n] /\ c[j] \in ToSet(u)
      <4>1. i < j
        BY <1>1, <2>1, <3>2
      <4>2. c[j].type \notin TokenTypes
        BY <2>1, <3>2
      <4> QED BY <4>1, <4>2
    <3> QED BY <1>4, <3>1, <3>2
  <2>2. CASE i > n /\ i - n \in 1..k /\ c[i] = u[i - n] /\ c[i] \in ToSet(u)
    <3>1. CASE j \in 1..n /\ c[j] = s[j] /\ c[j] \in ToSet(s)
      BY <2>2, <3>1
    <3>2. CASE j > n /\ j - n \in 1..k /\ c[j] = u[j - n] /\ c[j] \in ToSet(u)
      <4>1. /\ c[j].type \in TokenTypes => i - n = j - n
            /\ c[j].type \in EndTypes => i - n < j - n
        BY <1>1, <2>2, <3>2 DEF ChannelOK
      <4> QED BY <1>1, <4>1
    <3> QED BY <1>4, <3>1, <3>2
  <2> QED BY <1>4, <2>1, <2>2
<1> QED BY <1>2, <1>5, <1>6 DEF c

\* The messages of the two directions.
RunnerMessage == [type : ToRunnerTypes, task : Runners \X (0..MaxOffers)]
BrokerMessage == [type : ToBrokerTypes, task : Tasks]

\* A message is its type and its task.
LEMMA MessageFacts ==
    /\ \A type, t : Message(type, t).type = type /\ Message(type, t).task = t
    /\ \A type \in ToRunnerTypes, t \in Runners \X (0..MaxOffers) : Message(type, t) \in RunnerMessage
    /\ \A type \in ToBrokerTypes, t \in Tasks : Message(type, t) \in BrokerMessage
    /\ \A m \in RunnerMessage \cup BrokerMessage : m = Message(m.type, m.task)
BY DEF Message, RunnerMessage, BrokerMessage

\* An offer is a runner and a positive number.
LEMMA OfferFacts ==
    /\ Tasks = Offers
    /\ \A o \in Offers : o[1] \in Runners /\ o[2] \in 1..MaxOffers /\ o = <<o[1], o[2]>>
    /\ \A o \in Offers : o \in Runners \X (0..MaxOffers)
    /\ MaxOffers \in Nat
BY TaskBrokerAssumption DEF Tasks, Offers

(***************************************************************************)
(* The broker:taskofferaccept messages for distinct offers are a channel   *)
(* in order.                                                               *)
(***************************************************************************)
LEMMA AcceptMessages ==
    ASSUME NEW s \in Seq(Offers), Distinct(s)
    PROVE  LET u == [i \in DOMAIN s |-> Message("taskofferaccept", s[i])]
           IN  /\ u \in Seq(RunnerMessage)
               /\ ChannelOK(u)
               /\ ToSet(u) = {Message("taskofferaccept", o) : o \in ToSet(s)}
<1> DEFINE u == [i \in DOMAIN s |-> Message("taskofferaccept", s[i])]
           n == Len(s)
<1>1. n \in Nat /\ DOMAIN s = 1..n /\ \A i \in 1..n : s[i] \in Offers
  BY LenProperties, ElementOfSeq
<1> HIDE DEF n
<1>2. DOMAIN u = 1..n /\ \A i \in 1..n : u[i] = Message("taskofferaccept", s[i])
  BY <1>1
<1>3. "taskofferaccept" \in ToRunnerTypes
  BY DEF ToRunnerTypes
<1>4. \A i \in 1..n : u[i] \in RunnerMessage
  BY <1>1, <1>2, <1>3, MessageFacts, OfferFacts
<1>5. u = [i \in 1..n |-> u[i]]
  BY <1>1
<1> HIDE DEF u
<1>6. u \in Seq(RunnerMessage)
  <2>1. u \in [1..n -> RunnerMessage]
    BY <1>2, <1>4, <1>5
  <2> QED BY <1>1, <2>1, SeqDef
<1>7. \A i, j \in 1..n : u[i].task = u[j].task => i = j
  BY <1>1, <1>2, MessageFacts DEF Distinct
<1>8. \A i \in 1..n : u[i].type \notin EndTypes
  BY <1>2, MessageFacts DEF EndTypes
<1>9. ChannelOK(u)
  BY <1>2, <1>7, <1>8 DEF ChannelOK
<1>10. ToSet(u) = {Message("taskofferaccept", o) : o \in ToSet(s)}
  BY <1>1, <1>2 DEF ToSet
<1> QED BY <1>6, <1>9, <1>10 DEF u

\* So are the runner:taskoffer messages for consecutive offers.
LEMMA OfferMessages ==
    ASSUME NEW r \in Runners, NEW m \in Nat, NEW k \in Nat, m + k <= MaxOffers
    PROVE  LET u == [i \in 1..k |-> Message("taskoffer", <<r, m + i>>)]
           IN  /\ u \in Seq(BrokerMessage)
               /\ ChannelOK(u)
               /\ ToSet(u) = {Message("taskoffer", o) : o \in {<<r, m + i>> : i \in 1..k}}
<1> DEFINE u == [i \in 1..k |-> Message("taskoffer", <<r, m + i>>)]
<1>1. \A i \in 1..k : <<r, m + i>> \in Tasks
  BY OfferFacts DEF Offers
<1>2. DOMAIN u = 1..k /\ \A i \in 1..k : u[i] = Message("taskoffer", <<r, m + i>>)
  OBVIOUS
<1>3. "taskoffer" \in ToBrokerTypes
  BY DEF ToBrokerTypes
<1>4. \A i \in 1..k : u[i] \in BrokerMessage
  BY <1>1, <1>2, <1>3, MessageFacts
<1>5. u = [i \in 1..k |-> u[i]]
  OBVIOUS
<1> HIDE DEF u
<1>6. u \in Seq(BrokerMessage)
  <2>1. u \in [1..k -> BrokerMessage]
    BY <1>2, <1>4, <1>5
  <2> QED BY <2>1, SeqDef
<1>7. \A i \in 1..k : u[i].task = <<r, m + i>> /\ u[i].type = "taskoffer"
  BY <1>2 DEF Message
<1>8. \A i, j \in 1..k : u[i].task = u[j].task => i = j
  <2> SUFFICES ASSUME NEW i \in 1..k, NEW j \in 1..k, <<r, m + i>> = <<r, m + j>> PROVE i = j
    BY <1>7
  <2>1. m + i = m + j
    OBVIOUS
  <2> QED BY <2>1
<1>9. ChannelOK(u)
  BY <1>2, <1>7, <1>8 DEF ChannelOK, EndTypes
<1>10. ToSet(u) = {Message("taskoffer", o) : o \in {<<r, m + i>> : i \in 1..k}}
  BY <1>2 DEF ToSet
<1> QED BY <1>6, <1>9, <1>10 DEF u

\* RemoveFirst gives a sequence over the same set.
LEMMA RemoveFirstType ==
    ASSUME NEW U, NEW s \in Seq(U), NEW e
    PROVE  RemoveFirst(s, e) \in Seq(U)
<1> DEFINE I == {k \in 1..Len(s) : s[k] = e}
<1>1. Len(s) \in Nat /\ I \in SUBSET (1..Len(s))
  BY LenProperties
<1>2. RemoveFirst(s, e) = IF I # {} THEN RemoveAt(s, Min(I)) ELSE s
  <2>1. (\E i \in 1..Len(s) : s[i] = e) <=> I # {}
    OBVIOUS
  <2>2. SelectInSeq(s, LAMBDA v : v = e) = IF I # {} THEN Min(I) ELSE 0
    BY DEF SelectInSeq
  <2>3. I # {} => RemoveFirst(s, e) = RemoveAt(s, SelectInSeq(s, LAMBDA v : v = e))
    BY <2>1 DEF RemoveFirst
  <2>4. I = {} => RemoveFirst(s, e) = s
    BY <2>1 DEF RemoveFirst
  <2>5. I # {} => RemoveFirst(s, e) = RemoveAt(s, Min(I))
    BY <2>2, <2>3
  <2> HIDE DEF I
  <2> QED BY <2>4, <2>5
<1>3. I # {} => Min(I) \in 1..Len(s)
  <2>1. I # {} => Min(I) \in I
    <3> HIDE DEF I
    <3> QED BY <1>1, SmallestExists
  <2> QED BY <2>1
<1> HIDE DEF I
<1> QED BY <1>2, <1>3, RemoveAtFacts

-----------------------------------------------------------------------------
(* What the messages of an action do to the channels. *)

(***************************************************************************)
(* The channel of a runner is in order and is about its own offers; every  *)
(* message to it but the first one and broker:drain is about a task.       *)
(***************************************************************************)
RunnerChannels ==
    /\ toRunner \in [Runners -> Seq(RunnerMessage)]
    /\ \A r \in Runners : ChannelOK(toRunner[r])
    /\ \A r \in Runners : \A m \in ToSet(toRunner[r]) :
          /\ m.task[1] = r
          /\ m.type \notin {"runnerregistered", "drain"} => m.task \in Tasks

\* The same for the messages of a runner.
BrokerChannels ==
    /\ toBroker \in [Runners -> Seq(BrokerMessage)]
    /\ \A r \in Runners : ChannelOK(toBroker[r])
    /\ \A r \in Runners : \A m \in ToSet(toBroker[r]) : m.task[1] = r

(***************************************************************************)
(* Sending to one runner puts all the messages in its channel, or none,    *)
(* and leaves the others.                                                  *)
(***************************************************************************)
LEMMA SendFacts ==
    ASSUME RunnerChannels, NEW r \in Runners, NEW u \in Seq(RunnerMessage), ChannelOK(u),
           \A x \in ToSet(toRunner[r]), y \in ToSet(u) :
              (x.task = y.task /\ y.type \in TokenTypes) => x.type \notin TokenTypes \cup EndTypes
    PROVE  /\ SendToRunner(r, u) \in [Runners -> Seq(RunnerMessage)]
           /\ \A w \in Runners : ChannelOK(SendToRunner(r, u)[w])
           /\ \A w \in Runners \ {r} : SendToRunner(r, u)[w] = toRunner[w]
           /\ \/ SendToRunner(r, u)[r] = toRunner[r]
              \/ ToSet(SendToRunner(r, u)[r]) = ToSet(toRunner[r]) \cup ToSet(u)
<1> DEFINE c == toRunner[r] \o u
           n == [toRunner EXCEPT ![r] = c]
<1>1. toRunner[r] \in Seq(RunnerMessage) /\ ChannelOK(toRunner[r])
  BY DEF RunnerChannels
<1>2. c \in Seq(RunnerMessage) /\ ToSet(c) = ToSet(toRunner[r]) \cup ToSet(u) /\ ChannelOK(c)
  BY <1>1, ChannelConcat
<1>3. SendToRunner(r, u) = n \/ SendToRunner(r, u) = toRunner
  BY DEF SendToRunner
<1> HIDE DEF c
<1>4. n \in [Runners -> Seq(RunnerMessage)]
  BY <1>2 DEF RunnerChannels
<1>5. \A w \in Runners : n[w] = IF w = r THEN c ELSE toRunner[w]
  BY DEF RunnerChannels
<1> HIDE DEF n
<1> QED BY <1>2, <1>3, <1>4, <1>5 DEF RunnerChannels

\* What settleTasks may have done when M are the offers it has matched.
SettleEffect(requests, offers, M) ==
    /\ pendingTaskRequests' = requests
    /\ pendingTaskOffers' \in Seq(Offers) /\ Distinct(pendingTaskOffers')
    /\ ToSet(pendingTaskOffers') \subseteq ToSet(offers) \ M
    /\ acceptInProgress' \subseteq Requests
    /\ accepting' \in [Offers -> Requests \cup {None}]
    /\ \A o \in Offers \ M : accepting'[o] = accepting[o]
    /\ MatchInv'
    /\ RunnerChannels'
    /\ \A r \in Runners : /\ ToSet(toRunner[r]) \subseteq ToSet(toRunner'[r])
                           /\ \A m \in ToSet(toRunner'[r]) :
                                 \/ m \in ToSet(toRunner[r])
                                 \/ \E o \in M : o[1] = r /\ m = Message("taskofferaccept", o)

(***************************************************************************)
(* settleTasks has that effect on a list of distinct offers for which      *)
(* nobody waits and of which the runner has not heard.                     *)
(***************************************************************************)
LEMMA SettleFacts ==
    ASSUME acceptInProgress \subseteq Requests, accepting \in [Offers -> Requests \cup {None}],
           RunnerChannels, MatchInv,
           NEW requests \in Seq(Requests), NEW offers \in Seq(Offers), Distinct(offers),
           \A o \in ToSet(offers) : accepting[o] = None,
           \A o \in ToSet(offers) : \A m \in ToSet(toRunner[o[1]]) :
              m.task = o => m.type \notin TokenTypes \cup EndTypes,
           settleTasks(requests, offers)
    PROVE  \E M \in SUBSET ToSet(offers) : SettleEffect(requests, offers, M)
<1>1. PICK expired \in SUBSET Expirable(offers) :
      LET valid == Keep(offers, Offers \ expired)
          m == MatchRequests(requests, [offers |-> valid, inProgress |-> acceptInProgress,
                                        accepting |-> accepting])
          matched(r) == Keep(valid, {o \in Offers : o[1] = r /\ m.accepting[o] # None})
      IN /\ pendingTaskRequests' = requests
         /\ pendingTaskOffers' = m.offers
         /\ acceptInProgress' = m.inProgress
         /\ accepting' = m.accepting
         /\ toRunner' = [r \in Runners |-> SendToRunner(r,
               [i \in DOMAIN matched(r) |->
                  Message("taskofferaccept", matched(r)[i])])[r]]
  BY DEF settleTasks
<1> DEFINE valid == Keep(offers, Offers \ expired)
           start == [offers |-> valid, inProgress |-> acceptInProgress, accepting |-> accepting]
           m == MatchRequests(requests, start)
           S(r) == {o \in Offers : o[1] = r /\ m.accepting[o] # None}
           matched(r) == Keep(valid, S(r))
           u(r) == [i \in DOMAIN matched(r) |-> Message("taskofferaccept", matched(r)[i])]
           M == {o \in ToSet(valid) : m.accepting[o] # None}
<1>2. /\ pendingTaskRequests' = requests /\ pendingTaskOffers' = m.offers
      /\ acceptInProgress' = m.inProgress /\ accepting' = m.accepting
      /\ toRunner' = [r \in Runners |-> SendToRunner(r, u(r))[r]]
  BY <1>1
<1>3. valid \in Seq(Offers) /\ Distinct(valid) /\ ToSet(valid) \subseteq ToSet(offers)
  BY KeepFacts
<1> HIDE DEF valid
<1>4. start.offers = valid /\ start.inProgress = acceptInProgress /\ start.accepting = accepting
  OBVIOUS
<1>5. LoopInv(start, start)
  <2>1. start \in MatchState
    BY <1>3 DEF MatchState
  <2> HIDE DEF start
  <2> QED BY <2>1, <1>3, <1>4 DEF LoopInv, MatchInv, OneMatchPerRequest
<1> HIDE DEF start
<1>6. LoopInv(start, m)
  BY <1>5, MatchRequestsKeeps
<1> HIDE DEF m
<1>7. /\ m.offers \in Seq(Offers) /\ m.inProgress \subseteq Requests
      /\ m.accepting \in [Offers -> Requests \cup {None}]
  BY <1>6 DEF LoopInv, MatchState
<1>8. M \in SUBSET ToSet(offers) /\ \A o \in M : o \in Offers /\ o \in Tasks
  <2>1. ToSet(valid) \subseteq Offers
    BY <1>3, ToSetType
  <2> QED BY <1>3, <2>1, OfferFacts
<1>9. ToSet(m.offers) \subseteq ToSet(offers) \ M
  BY <1>3, <1>4, <1>6 DEF LoopInv
<1>10. \A o \in Offers \ M : m.accepting[o] = accepting[o]
  <2> SUFFICES ASSUME NEW o \in Offers \ M, o \in ToSet(valid)
               PROVE  m.accepting[o] = accepting[o]
    BY <1>4, <1>6 DEF LoopInv
  <2>1. m.accepting[o] = None
    OBVIOUS
  <2>2. accepting[o] = None
    BY <1>3
  <2> QED BY <2>1, <2>2
<1>11. MatchInv'
  <2>1. /\ \A o \in Offers : m.accepting[o] # None => m.accepting[o] \in m.inProgress
        /\ \A o, p \in Offers : (m.accepting[o] = m.accepting[p] /\ m.accepting[o] # None) => o = p
    BY <1>6 DEF LoopInv
  <2> QED BY <1>2, <2>1 DEF MatchInv, OneMatchPerRequest
<1>12. ASSUME NEW r \in Runners
       PROVE  /\ SendToRunner(r, u(r))[r] \in Seq(RunnerMessage)
              /\ ChannelOK(SendToRunner(r, u(r))[r])
              /\ ToSet(toRunner[r]) \subseteq ToSet(SendToRunner(r, u(r))[r])
              /\ \A x \in ToSet(SendToRunner(r, u(r))[r]) :
                    \/ x \in ToSet(toRunner[r])
                    \/ \E o \in M : o[1] = r /\ x = Message("taskofferaccept", o)
  <2>1. /\ matched(r) \in Seq(Offers) /\ Distinct(matched(r))
        /\ ToSet(matched(r)) = ToSet(valid) \cap S(r)
    BY <1>3, KeepFacts
  <2> HIDE DEF matched
  <2>2. /\ u(r) \in Seq(RunnerMessage) /\ ChannelOK(u(r))
        /\ ToSet(u(r)) = {Message("taskofferaccept", o) : o \in ToSet(matched(r))}
    BY <2>1, AcceptMessages
  <2> HIDE DEF u
  <2>3. \A y \in ToSet(u(r)) : \E o \in M : o[1] = r /\ y = Message("taskofferaccept", o)
    BY <2>1, <2>2
  <2>4. ASSUME NEW x \in ToSet(toRunner[r]), NEW y \in ToSet(u(r)), x.task = y.task
        PROVE  x.type \notin TokenTypes \cup EndTypes
    <3>1. PICK o \in M : o[1] = r /\ y = Message("taskofferaccept", o)
      BY <2>3
    <3>2. o \in ToSet(offers) /\ x.task = o
      BY <1>8, <3>1, <2>4, MessageFacts
    <3> QED BY <3>1, <3>2
  <2>5. /\ SendToRunner(r, u(r)) \in [Runners -> Seq(RunnerMessage)]
        /\ ChannelOK(SendToRunner(r, u(r))[r])
        /\ \/ SendToRunner(r, u(r))[r] = toRunner[r]
           \/ ToSet(SendToRunner(r, u(r))[r]) = ToSet(toRunner[r]) \cup ToSet(u(r))
    BY <2>2, <2>4, SendFacts
  <2> HIDE DEF M
  <2> QED BY <2>3, <2>5
<1> HIDE DEF u
<1>13. \A r \in Runners : toRunner'[r] = SendToRunner(r, u(r))[r]
  BY <1>2
<1>14. toRunner' \in [Runners -> Seq(RunnerMessage)]
  BY <1>2, <1>12
<1>15. RunnerChannels'
  <2>1. ASSUME NEW r \in Runners, NEW x \in ToSet(toRunner'[r])
        PROVE  x.task[1] = r /\ (x.type \notin {"runnerregistered", "drain"} => x.task \in Tasks)
    <3>1. CASE x \in ToSet(toRunner[r])
      BY <3>1 DEF RunnerChannels
    <3>2. CASE \E o \in M : o[1] = r /\ x = Message("taskofferaccept", o)
      <4>1. PICK o \in M : o[1] = r /\ x = Message("taskofferaccept", o)
        BY <3>2
      <4>2. x.task = o /\ o \in Tasks
        BY <4>1, <1>8, MessageFacts
      <4> QED BY <4>1, <4>2
    <3> HIDE DEF M
    <3> QED BY <3>1, <3>2, <1>12, <1>13
  <2> HIDE DEF M
  <2> QED BY <1>12, <1>13, <1>14, <2>1 DEF RunnerChannels
<1>16. Distinct(m.offers)
  BY <1>6 DEF LoopInv
<1> HIDE DEF M
<1>17. SettleEffect(requests, offers, M)
  BY <1>2, <1>7, <1>9, <1>10, <1>11, <1>12, <1>13, <1>15, <1>16 DEF SettleEffect
<1> QED BY <1>8, <1>17

\* The effect of sending one message to its runner.
LEMMA SendOne ==
    ASSUME RunnerChannels, NEW type \in ToRunnerTypes, NEW t \in Runners \X (0..MaxOffers),
           type \notin {"runnerregistered", "drain"} => t \in Tasks,
           type \in TokenTypes => \A ty \in TokenTypes : ~ToRunner(ty, t),
           toRunner' = SendToRunner(t[1], <<Message(type, t)>>)
    PROVE  /\ RunnerChannels'
           /\ \A o \in Offers : \A ty : ToRunner(ty, o) => ToRunner(ty, o)'
           /\ \A o \in Offers : \A ty : ToRunner(ty, o)' => ToRunner(ty, o) \/ (ty = type /\ o = t)
<1> DEFINE r == t[1]
           m == Message(type, t)
<1>1. r \in Runners /\ m \in RunnerMessage /\ m.type = type /\ m.task = t
  BY MessageFacts
<1>2. <<m>> \in Seq(RunnerMessage) /\ ToSet(<<m>>) = {m} /\ ChannelOK(<<m>>)
  BY <1>1, SingletonChannel
<1> HIDE DEF r
<1>3. toRunner[r] \in Seq(RunnerMessage) /\ ToSet(toRunner[r]) \subseteq RunnerMessage
  <2>1. toRunner[r] \in Seq(RunnerMessage)
    BY <1>1 DEF RunnerChannels
  <2> QED BY <2>1, ToSetType
<1>4. ASSUME NEW x \in ToSet(toRunner[r]), x.task = t, type \in TokenTypes
      PROVE  x.type \notin TokenTypes \cup EndTypes
  <2>1. x = Message(x.type, t) /\ x.type \in ToRunnerTypes
    BY <1>3, <1>4, MessageFacts DEF RunnerMessage
  <2>2. ToRunner(x.type, t)
    BY <2>1 DEF ToRunner, r
  <2>3. x.type \notin EndTypes
    BY <2>1 DEF ToRunnerTypes, EndTypes
  <2> QED BY <1>4, <2>2, <2>3
<1> HIDE DEF m
<1>5. \A x \in ToSet(toRunner[r]), y \in ToSet(<<m>>) :
         (x.task = y.task /\ y.type \in TokenTypes) => x.type \notin TokenTypes \cup EndTypes
  BY <1>1, <1>2, <1>4
<1>6. toRunner' = SendToRunner(r, <<m>>)
  BY DEF r, m
<1>7. /\ toRunner' \in [Runners -> Seq(RunnerMessage)]
      /\ \A w \in Runners : ChannelOK(toRunner'[w])
      /\ \A w \in Runners \ {r} : toRunner'[w] = toRunner[w]
      /\ toRunner'[r] = toRunner[r] \/ ToSet(toRunner'[r]) = ToSet(toRunner[r]) \cup {m}
  <2> DEFINE u == <<m>>
  <2> HIDE DEF u
  <2>1. u \in Seq(RunnerMessage) /\ ChannelOK(u) /\ ToSet(u) = {m}
    BY <1>2 DEF u
  <2>2. \A x \in ToSet(toRunner[r]), y \in ToSet(u) :
           (x.task = y.task /\ y.type \in TokenTypes) => x.type \notin TokenTypes \cup EndTypes
    BY <1>5 DEF u
  <2>3. toRunner' = SendToRunner(r, u)
    BY <1>6 DEF u
  <2>4. /\ SendToRunner(r, u) \in [Runners -> Seq(RunnerMessage)]
        /\ \A w \in Runners : ChannelOK(SendToRunner(r, u)[w])
        /\ \A w \in Runners \ {r} : SendToRunner(r, u)[w] = toRunner[w]
        /\ \/ SendToRunner(r, u)[r] = toRunner[r]
           \/ ToSet(SendToRunner(r, u)[r]) = ToSet(toRunner[r]) \cup ToSet(u)
    BY <1>1, <2>1, <2>2, SendFacts
  <2> QED BY <2>1, <2>3, <2>4
<1>8. RunnerChannels'
  <2>1. m.task[1] = r /\ (m.type \notin {"runnerregistered", "drain"} => m.task \in Tasks)
    BY <1>1 DEF r
  <2>2. ASSUME NEW w \in Runners, NEW x \in ToSet(toRunner'[w])
        PROVE  x.task[1] = w /\ (x.type \notin {"runnerregistered", "drain"} => x.task \in Tasks)
    <3>1. CASE x \in ToSet(toRunner[w])
      BY <3>1 DEF RunnerChannels
    <3>2. CASE w = r /\ x = m
      BY <2>1, <3>2
    <3> QED BY <1>7, <3>1, <3>2
  <2> QED BY <1>7, <2>2 DEF RunnerChannels
<1>9. ASSUME NEW o \in Offers, NEW ty, ToRunner(ty, o) PROVE ToRunner(ty, o)'
  <2>1. o[1] \in Runners
    BY OfferFacts
  <2> QED BY <1>7, <1>9, <2>1 DEF ToRunner
<1>10. ASSUME NEW o \in Offers, NEW ty, ToRunner(ty, o)', ~ToRunner(ty, o)
       PROVE  ty = type /\ o = t
  <2>1. o[1] \in Runners
    BY OfferFacts
  <2>2. Message(ty, o) = m
    BY <1>7, <1>10, <2>1 DEF ToRunner
  <2>3. Message(ty, o).type = ty /\ Message(ty, o).task = o
    BY MessageFacts
  <2> QED BY <2>2, <2>3, <1>1
<1> QED BY <1>8, <1>9, <1>10

\* The effect of the broker taking a message.
LEMMA ReceiveFacts ==
    ASSUME BrokerChannels, NEW r \in Runners, NEW type \in ToBrokerTypes, Receive(r, type),
           NEW t, t = Head(toBroker[r]).task
    PROVE  /\ t \in Tasks /\ t[1] = r /\ ToBroker(type, t) /\ r \in knownRunners
           /\ BrokerChannels'
           /\ \A w \in Runners : toBroker[w] = <<>> => toBroker'[w] = <<>>
           /\ \A o \in Offers : \A ty : ToBroker(ty, o)' => ToBroker(ty, o)
           /\ \A o \in Offers : \A ty : (ToBroker(ty, o) /\ (ty # type \/ o # t)) => ToBroker(ty, o)'
           /\ \A ty \in TokenTypes : ~ToBroker(ty, t)'
<1> DEFINE s == toBroker[r]
           h == Head(s)
<1>1. s \in Seq(BrokerMessage) /\ s # <<>> /\ ChannelOK(s) /\ h.type = type /\ r \in knownRunners
  BY DEF BrokerChannels, Receive
<1>0. h.task = t
  OBVIOUS
<1>2. toBroker' = [toBroker EXCEPT ![r] = Tail(s)]
  BY DEF Receive
<1> HIDE DEF s
<1>3. /\ h \in BrokerMessage /\ Tail(s) \in Seq(BrokerMessage)
      /\ ToSet(s) = {h} \cup ToSet(Tail(s))
      /\ ChannelOK(Tail(s))
      /\ \A m \in ToSet(Tail(s)) :
            (m.task = t /\ h.type \in TokenTypes \cup EndTypes) => m.type \notin TokenTypes
  BY <1>0, <1>1, ChannelTail
<1> HIDE DEF h
<1>4. t \in Tasks /\ h = Message(type, t)
  BY <1>0, <1>1, <1>3, MessageFacts DEF BrokerMessage
<1>5. h \in ToSet(s)
  BY <1>3
<1>6. t[1] = r
  BY <1>0, <1>5 DEF BrokerChannels, s
<1>7. ToBroker(type, t)
  BY <1>4, <1>5, <1>6 DEF ToBroker, s
<1>8. /\ toBroker' \in [Runners -> Seq(BrokerMessage)]
      /\ \A w \in Runners : toBroker'[w] = IF w = r THEN Tail(s) ELSE toBroker[w]
  BY <1>2, <1>3 DEF BrokerChannels
<1>9. \A w \in Runners : ToSet(toBroker'[w]) \subseteq ToSet(toBroker[w])
  BY <1>3, <1>8 DEF s
<1>10. BrokerChannels'
  BY <1>3, <1>8, <1>9 DEF BrokerChannels
<1>11. ASSUME NEW o \in Offers, NEW ty, ToBroker(ty, o)' PROVE ToBroker(ty, o)
  BY <1>9, <1>11, OfferFacts DEF ToBroker
<1>12. ASSUME NEW o \in Offers, NEW ty, ToBroker(ty, o), ty # type \/ o # t PROVE ToBroker(ty, o)'
  <2>1. Message(ty, o) # h
    BY <1>4, <1>12, MessageFacts
  <2>2. CASE o[1] = r
    BY <1>3, <1>8, <1>12, <2>1, <2>2 DEF ToBroker, s
  <2>3. CASE o[1] # r
    BY <1>8, <1>12, <2>3, OfferFacts DEF ToBroker
  <2> QED BY <2>2, <2>3
<1>13. ASSUME NEW ty \in TokenTypes, ToBroker(ty, t)' PROVE FALSE
  <2>1. type \in TokenTypes \cup EndTypes
    BY DEF TokenTypes, EndTypes, ToBrokerTypes
  <2>2. Message(ty, t) \in ToSet(Tail(s))
    BY <1>6, <1>8, <1>13 DEF ToBroker
  <2>3. Message(ty, t).task = t /\ Message(ty, t).type = ty
    BY MessageFacts
  <2> QED BY <1>1, <1>3, <2>1, <2>2, <2>3
<1>14. \A w \in Runners : toBroker[w] = <<>> => toBroker'[w] = <<>>
  BY <1>1, <1>8 DEF s
<1> QED BY <1>1, <1>4, <1>6, <1>7, <1>10, <1>11, <1>12, <1>13, <1>14

\* The effect of a runner taking a message.
LEMMA TakeFacts ==
    ASSUME RunnerChannels, NEW r \in Runners, NEW type \in ToRunnerTypes, Take(r, type),
           NEW t, t = Head(toRunner[r]).task
    PROVE  /\ type \notin {"runnerregistered", "drain"} => t \in Tasks /\ ToRunner(type, t)
           /\ t[1] = r /\ process[r] = "up"
           /\ RunnerChannels'
           /\ \A o \in Offers : \A ty : ToRunner(ty, o)' => ToRunner(ty, o)
           /\ \A o \in Offers : \A ty : (ToRunner(ty, o) /\ (ty # type \/ o # t)) => ToRunner(ty, o)'
           /\ type \in TokenTypes => \A ty \in TokenTypes : ~ToRunner(ty, t)'
<1> DEFINE s == toRunner[r]
           h == Head(s)
<1>1. s \in Seq(RunnerMessage) /\ s # <<>> /\ ChannelOK(s) /\ h.type = type /\ process[r] = "up"
  BY DEF RunnerChannels, Take
<1>0. h.task = t
  OBVIOUS
<1>2. toRunner' = [toRunner EXCEPT ![r] = Tail(s)]
  BY DEF Take
<1> HIDE DEF s
<1>3. /\ h \in RunnerMessage /\ Tail(s) \in Seq(RunnerMessage)
      /\ ToSet(s) = {h} \cup ToSet(Tail(s))
      /\ ChannelOK(Tail(s))
      /\ \A m \in ToSet(Tail(s)) :
            (m.task = t /\ h.type \in TokenTypes \cup EndTypes) => m.type \notin TokenTypes
  BY <1>0, <1>1, ChannelTail
<1> HIDE DEF h
<1>4. h = Message(type, t)
  BY <1>0, <1>1, <1>3, MessageFacts
<1>5. h \in ToSet(s)
  BY <1>3
<1>6. t[1] = r /\ (type \notin {"runnerregistered", "drain"} => t \in Tasks)
  BY <1>0, <1>1, <1>5 DEF RunnerChannels, s
<1>7. ToRunner(type, t)
  BY <1>4, <1>5, <1>6 DEF ToRunner, s
<1>8. /\ toRunner' \in [Runners -> Seq(RunnerMessage)]
      /\ \A w \in Runners : toRunner'[w] = IF w = r THEN Tail(s) ELSE toRunner[w]
  BY <1>2, <1>3 DEF RunnerChannels
<1>9. \A w \in Runners : ToSet(toRunner'[w]) \subseteq ToSet(toRunner[w])
  BY <1>3, <1>8 DEF s
<1>10. RunnerChannels'
  BY <1>3, <1>8, <1>9 DEF RunnerChannels
<1>11. ASSUME NEW o \in Offers, NEW ty, ToRunner(ty, o)' PROVE ToRunner(ty, o)
  BY <1>9, <1>11, OfferFacts DEF ToRunner
<1>12. ASSUME NEW o \in Offers, NEW ty, ToRunner(ty, o), ty # type \/ o # t PROVE ToRunner(ty, o)'
  <2>1. Message(ty, o) # h
    BY <1>4, <1>12, MessageFacts
  <2>2. CASE o[1] = r
    BY <1>3, <1>8, <1>12, <2>1, <2>2 DEF ToRunner, s
  <2>3. CASE o[1] # r
    BY <1>8, <1>12, <2>3, OfferFacts DEF ToRunner
  <2> QED BY <2>2, <2>3
<1>13. ASSUME type \in TokenTypes, NEW ty \in TokenTypes, ToRunner(ty, t)' PROVE FALSE
  <2>2. Message(ty, t) \in ToSet(Tail(s))
    BY <1>6, <1>8, <1>13 DEF ToRunner
  <2>3. Message(ty, t).task = t /\ Message(ty, t).type = ty
    BY MessageFacts
  <2> QED BY <1>1, <1>3, <1>13, <2>2, <2>3
<1> QED BY <1>1, <1>6, <1>7, <1>10, <1>11, <1>12, <1>13

-----------------------------------------------------------------------------
(* The offers of a runner. *)

\* k consecutive offers of runner r.
OfferBlock(r, m, k) == {<<r, m + i>> : i \in 1..k}

\* They are at most k.
LEMMA OffersAreFinite ==
    ASSUME NEW r, NEW m \in Int, NEW k \in Nat
    PROVE  IsFiniteSet(OfferBlock(r, m, k)) /\ Cardinality(OfferBlock(r, m, k)) <= k
<1> DEFINE N == OfferBlock(r, m, k)
           f == [i \in 1..k |-> <<r, m + i>>]
<1>1. f \in Surjection(1..k, N)
  BY DEF Surjection, OfferBlock
<1>2. IsFiniteSet(1..k) /\ Cardinality(1..k) = k
  BY FS_Interval
<1>3. IsFiniteSet(N) /\ Cardinality(N) <= Cardinality(1..k)
  <2> HIDE DEF f, N
  <2> QED BY <1>1, <1>2, FS_Surjection
<1> QED BY <1>2, <1>3

\* A set of offers of one runner is finite.
LEMMA OnIsFinite ==
    ASSUME NEW r \in Runners, NEW S \in SUBSET Offers, \A o \in S : o[1] = r
    PROVE  IsFiniteSet(S)
<1> DEFINE N == OfferBlock(r, 0, MaxOffers)
<1>1. IsFiniteSet(N)
  BY OffersAreFinite, OfferFacts
<1>2. S \subseteq N
  <2> SUFFICES ASSUME NEW o \in S PROVE o \in N
    OBVIOUS
  <2>1. o = <<r, o[2]>> /\ o[2] \in 1..MaxOffers /\ 0 + o[2] = o[2]
    BY OfferFacts
  <2> QED BY <2>1 DEF OfferBlock
<1> HIDE DEF N
<1> QED BY <1>1, <1>2, FS_Subset

\* So the open offers and the tasks of a runner can be counted.
LEMMA OpenAndRunningFinite ==
    ASSUME NEW r \in Runners, NEW open \in SUBSET Offers, NEW status
    PROVE  /\ IsFiniteSet(OpenOn(r, open)) /\ Cardinality(OpenOn(r, open)) \in Nat
           /\ IsFiniteSet(RunningOn(r, status)) /\ Cardinality(RunningOn(r, status)) \in Nat
<1>1. OpenOn(r, open) \in SUBSET Offers /\ \A o \in OpenOn(r, open) : o[1] = r
  BY DEF OpenOn
<1>2. RunningOn(r, status) \in SUBSET Offers /\ \A o \in RunningOn(r, status) : o[1] = r
  BY OfferFacts DEF RunningOn
<1>3. IsFiniteSet(OpenOn(r, open)) /\ IsFiniteSet(RunningOn(r, status))
  BY <1>1, <1>2, OnIsFinite
<1> QED BY <1>3, FS_CardinalityType

(***************************************************************************)
(* What sendOffers may have done: the new offers are above those made      *)
(* before, are on their way to the broker and leave room for the tasks in  *)
(* status.                                                                 *)
(***************************************************************************)
SendEffect(r, open, status, sent) ==
    /\ offersMade' \in [Runners -> 0..MaxOffers]
    /\ \A w \in Runners \ {r} : offersMade'[w] = offersMade[w]
    /\ offersMade'[r] >= offersMade[r]
    /\ openOffers' \subseteq Offers
    /\ \A w \in Runners \ {r} : OpenOn(w, openOffers') \subseteq OpenOn(w, open)
    /\ Cardinality(OpenOn(r, openOffers')) + Cardinality(RunningOn(r, status)) <= maxConcurrency
    /\ BrokerChannels'
    /\ \A w \in Runners \ {r} : toBroker'[w] = toBroker[w]
    /\ \A o \in Offers : \A ty : ToBroker(ty, o) => ToBroker(ty, o)'
    /\ \A o \in Offers : \A ty : (o[1] = r /\ Message(ty, o) \in ToSet(sent)) => ToBroker(ty, o)'
    /\ \A o \in Offers : \A ty : ToBroker(ty, o)' =>
          \/ ToBroker(ty, o)
          \/ Message(ty, o) \in ToSet(sent)
          \/ ty = "taskoffer" /\ o[1] = r /\ o[2] > offersMade[r] /\ o[2] <= offersMade'[r]

(***************************************************************************)
(* sendOffers has that effect if there was room before it and no new offer *)
(* was heard of.                                                           *)
(***************************************************************************)
LEMMA SendOffersFacts ==
    ASSUME BrokerChannels, offersMade \in [Runners -> 0..MaxOffers],
           NEW r \in Runners, NEW open \in SUBSET Offers, NEW status,
           NEW sent \in Seq(BrokerMessage), ChannelOK(sent),
           \A m \in ToSet(sent) :
              m.type \in EndTypes /\ m.task[1] = r /\ m.task[2] <= offersMade[r],
           \A o \in Offers : (o[1] = r /\ o[2] > offersMade[r]) =>
              \A ty \in TokenTypes \cup EndTypes : ~ToBroker(ty, o),
           Cardinality(OpenOn(r, open)) + Cardinality(RunningOn(r, status)) <= maxConcurrency,
           sendOffers(r, open, status, sent)
    PROVE  SendEffect(r, open, status, sent)
<1> DEFINE om == offersMade[r]
<1>1. PICK stale \in SUBSET {o \in OpenOn(r, open) : r \notin Launchers} :
      LET kept == open \ stale
          n == maxConcurrency - (Cardinality(OpenOn(r, kept))
                                 + Cardinality(RunningOn(r, status)))
          new == {k \in 1..MaxOffers : k > offersMade[r] /\ k <= offersMade[r] + n}
          k == IF canSendOffers[r] THEN Cardinality(new) ELSE 0
      IN /\ offersMade' = [offersMade EXCEPT ![r] = @ + k]
         /\ openOffers' = kept \cup {<<r, offersMade[r] + i>> : i \in 1..k}
         /\ toBroker' = [toBroker EXCEPT ![r] = @ \o sent \o
               [i \in 1..k |-> Message("taskoffer", <<r, offersMade[r] + i>>)]]
  BY DEF sendOffers
<1> DEFINE kept == open \ stale
           run == Cardinality(RunningOn(r, status))
           n == maxConcurrency - (Cardinality(OpenOn(r, kept)) + run)
           new == {j \in 1..MaxOffers : j > om /\ j <= om + n}
           k == IF canSendOffers[r] THEN Cardinality(new) ELSE 0
           N == {<<r, om + i>> : i \in 1..k}
           u == [i \in 1..k |-> Message("taskoffer", <<r, om + i>>)]
<1>2. offersMade' = [offersMade EXCEPT ![r] = om + k] /\ openOffers' = kept \cup N
      /\ toBroker' = [toBroker EXCEPT ![r] = (toBroker[r] \o sent) \o u]
  BY <1>1
<1>3. om \in Nat /\ om <= MaxOffers /\ MaxOffers \in Nat
  BY OfferFacts
<1> HIDE DEF om
<1>4. kept \in SUBSET Offers /\ OpenOn(r, kept) \in SUBSET OpenOn(r, open)
  BY DEF OpenOn
<1>5. /\ run \in Nat /\ IsFiniteSet(OpenOn(r, kept)) /\ Cardinality(OpenOn(r, kept)) \in Nat
      /\ IsFiniteSet(OpenOn(r, open)) /\ Cardinality(OpenOn(r, open)) \in Nat
  BY <1>4, OpenAndRunningFinite
<1>6. n \in Nat /\ Cardinality(OpenOn(r, kept)) + run + n = maxConcurrency
  <2>1. Cardinality(OpenOn(r, kept)) <= Cardinality(OpenOn(r, open))
    BY <1>4, <1>5, FS_Subset
  <2>2. maxConcurrency \in Nat
    BY TaskBrokerAssumption
  <2> HIDE DEF kept
  <2> QED BY <1>5, <2>1, <2>2
<1> HIDE DEF n, kept
<1>7. k \in Nat /\ k <= n /\ om + k <= MaxOffers
  <2>1. new \in SUBSET ((om + 1)..(om + n)) /\ new \in SUBSET ((om + 1)..MaxOffers)
    BY <1>3, <1>6
  <2>2. IsFiniteSet((om + 1)..(om + n)) /\ Cardinality((om + 1)..(om + n)) = n
    <3>1. om + 1 \in Int /\ om + n \in Int
      BY <1>3, <1>6
    <3>2. (IF om + 1 > om + n THEN 0 ELSE (om + n) - (om + 1) + 1) = n
      BY <1>3, <1>6
    <3> QED BY <3>1, <3>2, FS_Interval
  <2>3. /\ IsFiniteSet((om + 1)..MaxOffers)
        /\ Cardinality((om + 1)..MaxOffers) = MaxOffers - om
    <3>1. om + 1 \in Int /\ MaxOffers \in Int
      BY <1>3
    <3>2. (IF om + 1 > MaxOffers THEN 0 ELSE MaxOffers - (om + 1) + 1) = MaxOffers - om
      BY <1>3
    <3> QED BY <3>1, <3>2, FS_Interval
  <2> HIDE DEF new
  <2>4. IsFiniteSet(new) /\ Cardinality(new) <= n
    BY <2>1, <2>2, FS_Subset
  <2>5. Cardinality(new) <= MaxOffers - om
    BY <2>1, <2>3, FS_Subset
  <2>6. Cardinality(new) \in Nat
    BY <2>4, FS_CardinalityType
  <2> QED BY <1>3, <1>6, <2>4, <2>5, <2>6
<1> HIDE DEF k, run
<1>8. IsFiniteSet(N) /\ Cardinality(N) <= k
  <2>1. N = OfferBlock(r, om, k)
    BY DEF OfferBlock
  <2> HIDE DEF N
  <2> QED BY <1>3, <1>7, <2>1, OffersAreFinite
<1>9. \A o \in N : o \in Offers /\ o[1] = r /\ o[2] > om /\ o[2] <= om + k
  <2> SUFFICES ASSUME NEW i \in 1..k
               PROVE  LET o == <<r, om + i>> IN
                      o \in Offers /\ o[1] = r /\ o[2] > om /\ o[2] <= om + k
    OBVIOUS
  <2>1. om + i \in 1..MaxOffers /\ om + i > om /\ om + i <= om + k
    BY <1>3, <1>7
  <2> QED BY <2>1 DEF Offers
<1>10. /\ u \in Seq(BrokerMessage) /\ ChannelOK(u)
       /\ ToSet(u) = {Message("taskoffer", o) : o \in N}
  BY <1>3, <1>7, OfferMessages
<1> HIDE DEF N, u
<1>11. /\ offersMade' \in [Runners -> 0..MaxOffers]
       /\ \A w \in Runners \ {r} : offersMade'[w] = offersMade[w]
       /\ offersMade'[r] = om + k
  <2>1. om + k \in 0..MaxOffers
    BY <1>3, <1>7
  <2> QED BY <1>2, <2>1
<1>12. openOffers' \subseteq Offers
  BY <1>2, <1>4, <1>9
<1>13. \A w \in Runners \ {r} : OpenOn(w, openOffers') \subseteq OpenOn(w, open)
  BY <1>2, <1>9 DEF OpenOn, kept
<1>14. Cardinality(OpenOn(r, openOffers')) + run <= maxConcurrency
  <2>1. OpenOn(r, openOffers') = OpenOn(r, kept) \cup N
    BY <1>2, <1>9 DEF OpenOn
  <2>2. Cardinality(OpenOn(r, kept) \cup N) <= Cardinality(OpenOn(r, kept)) + Cardinality(N)
    <3>1. /\ Cardinality(OpenOn(r, kept) \cup N)
             = Cardinality(OpenOn(r, kept)) + Cardinality(N) - Cardinality(OpenOn(r, kept) \cap N)
          /\ Cardinality(OpenOn(r, kept) \cap N) \in Nat
          /\ Cardinality(N) \in Nat
      <4>1. IsFiniteSet(OpenOn(r, kept) \cap N)
        BY <1>8, FS_Subset
      <4> QED BY <4>1, <1>5, <1>8, FS_Union, FS_CardinalityType
    <3> QED BY <3>1, <1>5
  <2>3. Cardinality(N) \in Nat
    BY <1>8, FS_CardinalityType
  <2>4. Cardinality(OpenOn(r, kept) \cup N) \in Nat
    <3>1. IsFiniteSet(OpenOn(r, kept) \cup N)
      BY <1>5, <1>8, FS_Union
    <3> QED BY <3>1, FS_CardinalityType
  <2> QED BY <1>5, <1>6, <1>7, <1>8, <2>1, <2>2, <2>3, <2>4
<1> DEFINE tb == toBroker[r]
           a == tb \o sent
           c == a \o u
<1>15. tb \in Seq(BrokerMessage) /\ ChannelOK(tb)
  BY DEF BrokerChannels
<1>16. a \in Seq(BrokerMessage) /\ ToSet(a) = ToSet(tb) \cup ToSet(sent) /\ ChannelOK(a)
  <2>1. \A y \in ToSet(sent) : y.type \notin TokenTypes
    BY DEF TokenTypes, EndTypes
  <2> HIDE DEF tb
  <2> QED BY <1>15, <2>1, ChannelConcat
<1>17. ASSUME NEW x \in ToSet(a), NEW y \in ToSet(u), x.task = y.task
       PROVE  x.type \notin TokenTypes \cup EndTypes
  <2>1. PICK o \in N : y = Message("taskoffer", o)
    BY <1>10
  <2>2. o \in Offers /\ o[1] = r /\ o[2] > om /\ x.task = o
    BY <1>9, <1>17, <2>1, MessageFacts
  <2>3. CASE x \in ToSet(sent)
    <3>1. o[2] <= om
      BY <2>2, <2>3 DEF om
    <3>2. o[2] \in Nat
      BY <2>2, OfferFacts
    <3> QED BY <1>3, <2>2, <3>1, <3>2
  <2>4. CASE x \in ToSet(tb)
    <3>1. x \in BrokerMessage
      BY <1>15, <2>4, ToSetType
    <3>2. x = Message(x.type, o)
      BY <2>2, <3>1, MessageFacts
    <3>3. ToBroker(x.type, o)
      BY <2>2, <2>4, <3>2 DEF ToBroker
    <3> QED BY <2>2, <3>3 DEF om
  <2> QED BY <1>16, <2>3, <2>4
<1>18. c \in Seq(BrokerMessage) /\ ToSet(c) = ToSet(a) \cup ToSet(u) /\ ChannelOK(c)
  <2> HIDE DEF a
  <2> QED BY <1>10, <1>16, <1>17, ChannelConcat
<1>19. toBroker' = [toBroker EXCEPT ![r] = c]
  BY <1>2
<1> HIDE DEF c, a, tb
<1>20. /\ toBroker' \in [Runners -> Seq(BrokerMessage)]
       /\ \A w \in Runners : toBroker'[w] = IF w = r THEN c ELSE toBroker[w]
  BY <1>18, <1>19 DEF BrokerChannels
<1>21. ToSet(toBroker'[r]) = ToSet(toBroker[r]) \cup ToSet(sent)
                              \cup {Message("taskoffer", o) : o \in N}
  BY <1>10, <1>16, <1>18, <1>20 DEF tb
<1>22. BrokerChannels'
  <2>1. ASSUME NEW w \in Runners, NEW x \in ToSet(toBroker'[w]) PROVE x.task[1] = w
    <3>1. CASE x \in ToSet(toBroker[w])
      BY <3>1 DEF BrokerChannels
    <3>2. CASE w = r /\ x \in ToSet(sent)
      BY <3>2
    <3>3. CASE w = r /\ \E o \in N : x = Message("taskoffer", o)
      <4>1. PICK o \in N : x = Message("taskoffer", o)
        BY <3>3
      <4> QED BY <3>3, <4>1, <1>9, MessageFacts
    <3> QED BY <1>20, <1>21, <3>1, <3>2, <3>3
  <2> QED BY <1>18, <1>20, <2>1 DEF BrokerChannels
<1>23. ASSUME NEW o \in Offers, NEW ty, ToBroker(ty, o) PROVE ToBroker(ty, o)'
  BY <1>20, <1>21, <1>23, OfferFacts DEF ToBroker
<1>24. ASSUME NEW o \in Offers, NEW ty, o[1] = r, Message(ty, o) \in ToSet(sent)
       PROVE  ToBroker(ty, o)'
  BY <1>21, <1>24 DEF ToBroker
<1>25. ASSUME NEW o \in Offers, NEW ty, ToBroker(ty, o)', ~ToBroker(ty, o),
              Message(ty, o) \notin ToSet(sent)
       PROVE  ty = "taskoffer" /\ o[1] = r /\ o[2] > om /\ o[2] <= om + k
  <2>1. o[1] = r
    BY <1>20, <1>25, OfferFacts DEF ToBroker
  <2>2. PICK p \in N : Message(ty, o) = Message("taskoffer", p)
    BY <1>21, <1>25, <2>1 DEF ToBroker
  <2>3. ty = "taskoffer" /\ o = p
    BY <2>2, MessageFacts
  <2> QED BY <1>9, <2>3
<1>26. om + k >= om
  BY <1>3, <1>7
<1> QED BY <1>11, <1>12, <1>13, <1>14, <1>20, <1>22, <1>23, <1>24, <1>25, <1>26
        DEF SendEffect, om, run

-----------------------------------------------------------------------------
(* The inductive invariant. *)

\* The types of the variables, by the part of the system they belong to.
RequestTypes ==
    /\ request \in [Requests -> {"idle", "pending", "tasked", "done", "error",
                                 "expired", "cancelled"}]
    /\ taskOf \in [Requests -> Tasks \cup {None}]
    /\ isDraining \in BOOLEAN
    /\ knownRunners \subseteq Runners
    /\ pendingTaskRequests \in Seq(Requests)
    /\ requestTimer \subseteq Requests

MatchTypes ==
    /\ pendingTaskOffers \in Seq(Offers) /\ Distinct(pendingTaskOffers)
    /\ acceptInProgress \subseteq Requests
    /\ accepting \in [Offers -> Requests \cup {None}]

TaskTypes == tasks \subseteq Tasks /\ taskTimer \subseteq tasks

RunnerTypes ==
    /\ process \in [Runners -> {"new", "up", "exited"}]
    /\ canSendOffers \in [Runners -> BOOLEAN]
    /\ offersMade \in [Runners -> 0..MaxOffers]
    /\ openOffers \subseteq Offers
    /\ runningTasks \in [Tasks -> TaskStatus]

\* The inductive invariant.
Inv ==
    /\ RequestTypes /\ MatchTypes /\ TaskTypes /\ RunnerTypes
    /\ RunnerChannels /\ BrokerChannels
    /\ NewInv /\ StageInv /\ MatchInv /\ AwaitInv
    /\ OffersCanBeHonoured

\* Nothing new is on its way to a runner while the channels do not change.
LEMMA SameRunner ==
    ASSUME UNCHANGED toRunner
    PROVE  \A o, ty : ToRunner(ty, o)' <=> ToRunner(ty, o)
BY DEF ToRunner

\* The same for the messages to the broker.
LEMMA SameBroker ==
    ASSUME UNCHANGED toBroker
    PROVE  \A o, ty : ToBroker(ty, o)' <=> ToBroker(ty, o)
BY DEF ToBroker

\* The same for the pending offers.
LEMMA SamePending ==
    ASSUME UNCHANGED pendingTaskOffers
    PROVE  \A o : Pending(o)' <=> Pending(o)
BY DEF Pending

\* SendOne for a task.
LEMMA SendOneTask ==
    ASSUME RunnerChannels, NEW type \in ToRunnerTypes, NEW t \in Tasks,
           type \in TokenTypes => \A ty \in TokenTypes : ~ToRunner(ty, t),
           toRunner' = SendToRunner(t[1], <<Message(type, t)>>)
    PROVE  /\ RunnerChannels'
           /\ \A o \in Offers : \A ty : ToRunner(ty, o) => ToRunner(ty, o)'
           /\ \A o \in Offers : \A ty : ToRunner(ty, o)' => ToRunner(ty, o) \/ (ty = type /\ o = t)
<1>1. t \in Runners \X (0..MaxOffers)
  BY OfferFacts
<1> QED BY <1>1, SendOne

\* A message to a runner has one of its types.
LEMMA RunnerMessageTypes ==
    ASSUME RunnerChannels, NEW o \in Offers, NEW ty, ToRunner(ty, o)
    PROVE  ty \in ToRunnerTypes
<1>1. ToSet(toRunner[o[1]]) \subseteq RunnerMessage
  BY OfferFacts, ToSetType DEF RunnerChannels
<1>2. Message(ty, o) \in RunnerMessage /\ Message(ty, o).type = ty
  BY <1>1, MessageFacts DEF ToRunner
<1> QED BY <1>2 DEF RunnerMessage

\* The same for a message to the broker.
LEMMA BrokerMessageTypes ==
    ASSUME BrokerChannels, NEW o \in Offers, NEW ty, ToBroker(ty, o)
    PROVE  ty \in ToBrokerTypes
<1>1. ToSet(toBroker[o[1]]) \subseteq BrokerMessage
  BY OfferFacts, ToSetType DEF BrokerChannels
<1>2. Message(ty, o) \in BrokerMessage /\ Message(ty, o).type = ty
  BY <1>1, MessageFacts DEF ToBroker
<1> QED BY <1>2 DEF BrokerMessage

(***************************************************************************)
(* An offer that is not matched and has no settings has no token on the    *)
(* way to its runner.                                                      *)
(***************************************************************************)
LEMMA NoRunnerToken ==
    ASSUME RunnerChannels, NEW o \in Offers, ~Matched(o), ~Settings(o)
    PROVE  \A m \in ToSet(toRunner[o[1]]) : m.task = o => m.type \notin TokenTypes \cup EndTypes
<1> SUFFICES ASSUME NEW m \in ToSet(toRunner[o[1]]), m.task = o
             PROVE  m.type \notin TokenTypes \cup EndTypes
  OBVIOUS
<1>1. ToSet(toRunner[o[1]]) \subseteq RunnerMessage
  BY OfferFacts, ToSetType DEF RunnerChannels
<1>2. m = Message(m.type, o) /\ m.type \in ToRunnerTypes
  BY <1>1, MessageFacts DEF RunnerMessage
<1>3. ToRunner(m.type, o)
  BY <1>2 DEF ToRunner
<1>4. m.type # "taskofferaccept" /\ m.type # "tasksettings"
  BY <1>3 DEF Matched, Settings
<1> QED BY <1>2, <1>4 DEF ToRunnerTypes, TokenTypes, EndTypes

-----------------------------------------------------------------------------
(* The requester, and the broker's timers. *)

\* settleTasks adds only acceptances of offers it matched to the channels.
LEMMA SettleRunner ==
    ASSUME NEW requests, NEW offers, NEW M, SettleEffect(requests, offers, M)
    PROVE  /\ \A o \in Offers : \A ty : ToRunner(ty, o) => ToRunner(ty, o)'
           /\ \A o \in Offers : \A ty : ToRunner(ty, o)' =>
                 ToRunner(ty, o) \/ (ty = "taskofferaccept" /\ o \in M)
<1>1. ASSUME NEW o \in Offers, NEW ty, ToRunner(ty, o) PROVE ToRunner(ty, o)'
  BY <1>1, OfferFacts DEF ToRunner, SettleEffect
<1>2. ASSUME NEW o \in Offers, NEW ty, ToRunner(ty, o)', ~ToRunner(ty, o)
      PROVE  ty = "taskofferaccept" /\ o \in M
  <2>1. o[1] \in Runners
    BY OfferFacts
  <2>2. PICK p \in M : Message(ty, o) = Message("taskofferaccept", p)
    BY <1>2, <2>1 DEF ToRunner, SettleEffect
  <2> QED BY <2>2, MessageFacts
<1> QED BY <1>1, <1>2

(***************************************************************************)
(* settleTasks keeps every offer in one stage, also with the offer that    *)
(* has just arrived.                                                       *)
(***************************************************************************)
LEMMA SettleStage ==
    ASSUME Inv, NEW requests, NEW offers, NEW M, SettleEffect(requests, offers, M),
           M \subseteq ToSet(offers), ToSet(offers) \subseteq Offers,
           UNCHANGED <<knownRunners, tasks, process, offersMade, runningTasks>>,
           \A o \in ToSet(offers) : ~Offered(o)' /\ (Pending(o) \/ Offered(o)),
           \A o \in Offers : \A ty : ToBroker(ty, o)' => ToBroker(ty, o),
           \A o \in Offers : \A ty : (ToBroker(ty, o) /\ ty # "taskoffer") => ToBroker(ty, o)'
    PROVE  StageInv'
<1> SUFFICES ASSUME NEW o \in Offers PROVE StageOf(o)'
  BY DEF StageInv
<1>1. StageOf(o)
  BY DEF Inv, StageInv
<1>2. Pending(o)' => o \in ToSet(offers) /\ o \notin M
  BY DEF SettleEffect, Pending
<1>3. \A ty : ToRunner(ty, o) => ToRunner(ty, o)'
  BY SettleRunner
<1>4. \A ty : ToRunner(ty, o)' => ToRunner(ty, o) \/ (ty = "taskofferaccept" /\ o \in M)
  BY SettleRunner
<1>5. o \notin M => accepting'[o] = accepting[o]
  BY DEF SettleEffect
<1>6. o \in ToSet(offers) => ~Offered(o)' /\ (Pending(o) \/ Offered(o))
  OBVIOUS
<1>7. o \in M => o \in ToSet(offers)
  OBVIOUS
<1> QED
  BY <1>1, <1>2, <1>3, <1>4, <1>5, <1>6, <1>7
  DEF StageOf, OnePlace, EarlyInv, AnsweredInv, FreshInv, KeptInv, Early,
                  Offered, Matched, Answered, Settings, Cancelled, Ended

(***************************************************************************)
(* The offers in the list, and the one that arrives, are as settleTasks    *)
(* needs them.                                                             *)
(***************************************************************************)
LEMMA SettleCondition ==
    ASSUME Inv, NEW o \in Offers, Pending(o) \/ Offered(o)
    PROVE  /\ accepting[o] = None
           /\ \A m \in ToSet(toRunner[o[1]]) : m.task = o => m.type \notin TokenTypes \cup EndTypes
<1>1. StageOf(o) /\ RunnerChannels
  BY DEF Inv, StageInv
<1>2. accepting[o] = None /\ ~Matched(o) /\ ~Settings(o)
  BY <1>1 DEF StageOf, OnePlace, EarlyInv, Early
<1> QED BY <1>1, <1>2, NoRunnerToken

\* StartTask preserves the invariant.
LEMMA StartTaskInv ==
    ASSUME Inv, NEW q \in Requests, StartTask(q)
    PROVE  Inv'
<1> USE DEF Inv
<1>1. /\ UNCHANGED <<taskOf, isDraining, knownRunners, tasks, taskTimer, toBroker>>
      /\ UNCHANGED <<process, canSendOffers, offersMade, openOffers, runningTasks>>
      /\ request[q] = "idle"
  BY DEF StartTask, runnerVars
<1>2. TaskTypes' /\ RunnerTypes' /\ BrokerChannels' /\ NewInv' /\ OffersCanBeHonoured'
  BY <1>1 DEF TaskTypes, RunnerTypes, BrokerChannels, NewInv, OffersCanBeHonoured
<1>3. \A o, ty : ToBroker(ty, o)' <=> ToBroker(ty, o)
  BY <1>1, SameBroker
<1>4. \E v \in {"expired", "pending"} : request' = [request EXCEPT ![q] = v]
  BY DEF StartTask, taskRequested
<1>5. \A t : Awaited(t) => Awaited(t)'
  BY <1>1, <1>4 DEF Awaited, RequestTypes
<1>6. /\ request' \in [Requests -> {"idle", "pending", "tasked", "done", "error",
                                   "expired", "cancelled"}]
  BY <1>4 DEF RequestTypes
<1>7. CASE isDraining
  <2>1. UNCHANGED <<pendingTaskRequests, pendingTaskOffers, acceptInProgress, accepting,
                    requestTimer, toRunner>>
    BY <1>7 DEF StartTask, taskRequested, matchVars
  <2>2. RequestTypes' /\ MatchTypes' /\ RunnerChannels' /\ MatchInv'
    BY <1>1, <1>6, <2>1 DEF RequestTypes, MatchTypes, RunnerChannels, MatchInv, OneMatchPerRequest
  <2>3. \A o, ty : ToRunner(ty, o)' <=> ToRunner(ty, o)
    BY <2>1, SameRunner
  <2>4. \A o : Pending(o)' <=> Pending(o)
    BY <2>1, SamePending
  <2>5. StageInv'
    <3> SUFFICES ASSUME NEW o \in Offers, StageOf(o) PROVE StageOf(o)'
      BY DEF StageInv
    <3> QED BY <1>1, <1>3, <2>1, <2>3, <2>4
            DEF StageOf, OnePlace, EarlyInv, AnsweredInv, FreshInv, KeptInv, Early,
                  Offered, Matched, Answered, Settings, Cancelled, Ended
  <2>6. AwaitInv'
    BY <1>1, <1>5, <2>3 DEF AwaitInv, Settings
  <2> QED BY <1>2, <2>2, <2>5, <2>6
<1>8. CASE ~isDraining
  <2>1. /\ requestTimer' = requestTimer \cup {q}
        /\ settleTasks(Append(pendingTaskRequests, q), pendingTaskOffers)
    BY <1>8 DEF StartTask, taskRequested
  <2>2. PICK requests, offers : requests = Append(pendingTaskRequests, q)
                                /\ offers = pendingTaskOffers
    OBVIOUS
  <2>3. requests \in Seq(Requests) /\ offers \in Seq(Offers) /\ Distinct(offers)
    BY <2>2, AppendProperties DEF RequestTypes, MatchTypes
  <2>4. /\ ToSet(offers) \subseteq Offers
        /\ \A o \in ToSet(offers) : Pending(o)
    BY <2>2, <2>3, ToSetType DEF Pending
  <2>5. \A o \in ToSet(offers) :
          /\ accepting[o] = None
          /\ \A m \in ToSet(toRunner[o[1]]) : m.task = o => m.type \notin TokenTypes \cup EndTypes
    BY <2>4, SettleCondition
  <2>6. settleTasks(requests, offers)
    BY <2>1, <2>2
  <2>7. PICK M \in SUBSET ToSet(offers) : SettleEffect(requests, offers, M)
    BY <2>3, <2>5, <2>6, SettleFacts DEF MatchTypes
  <2>8. RequestTypes'
    BY <1>1, <1>6, <2>1, <2>3, <2>7 DEF RequestTypes, SettleEffect
  <2>9. MatchTypes' /\ RunnerChannels' /\ MatchInv'
    BY <2>7 DEF MatchTypes, SettleEffect
  <2>10. \A o \in ToSet(offers) : ~Offered(o)'
    BY <1>3, <2>4 DEF Inv, StageInv, StageOf, OnePlace, Offered
  <2>11. StageInv'
    BY <1>1, <1>3, <2>4, <2>7, <2>10, SettleStage
  <2>12. \A t \in Offers : Settings(t)' => Settings(t)
    BY <2>7, SettleRunner DEF Settings
  <2>13. AwaitInv'
    BY <1>1, <1>5, <2>12, OfferFacts DEF AwaitInv
  <2> QED BY <1>2, <2>8, <2>9, <2>11, <2>13
<1> QED BY <1>7, <1>8

(***************************************************************************)
(* A step that moves no message and no task keeps the stages, also if      *)
(* acceptOffer gives up.                                                   *)
(***************************************************************************)
LEMMA QuietStage ==
    ASSUME Inv, UNCHANGED <<knownRunners, pendingTaskOffers, tasks, process, offersMade,
                            runningTasks, toRunner, toBroker>>,
           \A o \in Offers : accepting'[o] \in {accepting[o], None}
    PROVE  StageInv' /\ RunnerChannels' /\ BrokerChannels' /\ NewInv'
<1>1. \A o, ty : ToBroker(ty, o)' <=> ToBroker(ty, o)
  BY SameBroker
<1>2. \A o, ty : ToRunner(ty, o)' <=> ToRunner(ty, o)
  BY SameRunner
<1>3. \A o : Pending(o)' <=> Pending(o)
  BY SamePending
<1>4. StageInv'
  <2> SUFFICES ASSUME NEW o \in Offers, StageOf(o) PROVE StageOf(o)'
    BY DEF Inv, StageInv
  <2> QED BY <1>1, <1>2, <1>3
          DEF StageOf, OnePlace, EarlyInv, AnsweredInv, FreshInv, KeptInv, Early,
              Offered, Matched, Answered, Settings, Cancelled, Ended
<1> QED BY <1>4 DEF Inv, RunnerChannels, BrokerChannels, NewInv

\* handleRequestTimeout preserves the invariant.
LEMMA RequestTimeoutInv ==
    ASSUME Inv, NEW q \in Requests, handleRequestTimeout(q)
    PROVE  Inv'
<1> USE DEF Inv
<1>1. /\ UNCHANGED <<taskOf, isDraining, knownRunners, pendingTaskOffers, acceptInProgress,
                     accepting, tasks, taskTimer, toRunner, toBroker>>
      /\ UNCHANGED <<process, canSendOffers, offersMade, openOffers, runningTasks>>
      /\ requestTimer' \subseteq Requests
  BY DEF handleRequestTimeout, runnerVars, RequestTypes
<1>2. TaskTypes' /\ RunnerTypes' /\ OffersCanBeHonoured' /\ MatchTypes' /\ MatchInv'
  BY <1>1 DEF TaskTypes, RunnerTypes, OffersCanBeHonoured, MatchTypes, MatchInv,
              OneMatchPerRequest
<1>3. StageInv' /\ RunnerChannels' /\ BrokerChannels' /\ NewInv'
  BY <1>1, QuietStage
<1>4. request' = request \/ request' = Expire(q)
  BY DEF handleRequestTimeout
<1>5. pendingTaskRequests' \in Seq(Requests)
  BY RemoveFirstType DEF handleRequestTimeout, RequestTypes
<1>6. RequestTypes'
  BY <1>1, <1>4, <1>5 DEF RequestTypes, Expire
<1>7. \A t : Awaited(t) => Awaited(t)'
  BY <1>1, <1>4 DEF Awaited, Expire, RequestTypes
<1>8. AwaitInv'
  BY <1>1, <1>7, SameRunner DEF AwaitInv, Settings
<1> QED BY <1>2, <1>3, <1>6, <1>8

(***************************************************************************)
(* AcceptTimeout preserves the invariant: no other offer is matched with   *)
(* the request it unmarks.                                                 *)
(***************************************************************************)
LEMMA AcceptTimeoutInv ==
    ASSUME Inv, NEW o \in Offers, AcceptTimeout(o)
    PROVE  Inv'
<1> USE DEF Inv
<1>1. /\ UNCHANGED <<request, taskOf, isDraining, knownRunners, pendingTaskRequests,
                     pendingTaskOffers, requestTimer, tasks, taskTimer, toRunner, toBroker>>
      /\ UNCHANGED <<process, canSendOffers, offersMade, openOffers, runningTasks>>
      /\ accepting' = [accepting EXCEPT ![o] = None]
      /\ acceptInProgress' = acceptInProgress \ {accepting[o]}
  BY DEF AcceptTimeout, requesterVars, runnerVars
<1>2. RequestTypes' /\ TaskTypes' /\ RunnerTypes' /\ OffersCanBeHonoured'
  BY <1>1 DEF RequestTypes, TaskTypes, RunnerTypes, OffersCanBeHonoured
<1>3. MatchTypes'
  BY <1>1 DEF MatchTypes
<1>4. \A p \in Offers : accepting'[p] = IF p = o THEN None ELSE accepting[p]
  BY <1>1 DEF MatchTypes
<1>5. MatchInv'
  BY <1>1, <1>4 DEF MatchInv, OneMatchPerRequest
<1>6. StageInv' /\ RunnerChannels' /\ BrokerChannels' /\ NewInv'
  BY <1>1, <1>4, QuietStage
<1>7. AwaitInv'
  BY <1>1, SameRunner DEF AwaitInv, Settings, Awaited
<1> QED BY <1>2, <1>3, <1>5, <1>6, <1>7

\* Dropping a task and sending broker:taskcancel keeps the stages.
LEMMA CancelStage ==
    ASSUME Inv, NEW t \in tasks, tasks' = tasks \ {t},
           toRunner' = SendToRunner(t[1], <<Message("taskcancel", t)>>),
           UNCHANGED <<knownRunners, pendingTaskOffers, accepting, process, offersMade,
                       runningTasks, toBroker>>
    PROVE  StageInv' /\ RunnerChannels' /\ \A o \in Offers : Settings(o)' => Settings(o)
<1> USE DEF Inv
<1>1. t \in Tasks /\ t \in Offers
  BY OfferFacts DEF TaskTypes
<1>2. /\ RunnerChannels'
      /\ \A o \in Offers : \A ty : ToRunner(ty, o) => ToRunner(ty, o)'
      /\ \A o \in Offers : \A ty : ToRunner(ty, o)' =>
            ToRunner(ty, o) \/ (ty = "taskcancel" /\ o = t)
  <2>1. "taskcancel" \in ToRunnerTypes /\ "taskcancel" \notin TokenTypes
    BY DEF ToRunnerTypes, TokenTypes
  <2> QED BY <1>1, <2>1, SendOneTask
<1>3. StageInv'
  <2> SUFFICES ASSUME NEW o \in Offers, StageOf(o) PROVE StageOf(o)'
    BY DEF StageInv
  <2> QED BY <1>2, SameBroker, SamePending
          DEF StageOf, OnePlace, EarlyInv, AnsweredInv, FreshInv, KeptInv, Early,
              Offered, Matched, Answered, Settings, Cancelled, Ended
<1> QED BY <1>2, <1>3 DEF Settings

\* CancelTask preserves the invariant.
LEMMA CancelTaskInv ==
    ASSUME Inv, NEW q \in Requests, CancelTask(q)
    PROVE  Inv'
<1> USE DEF Inv
<1>1. /\ UNCHANGED <<taskOf, isDraining, knownRunners, pendingTaskRequests, pendingTaskOffers,
                     acceptInProgress, accepting, requestTimer, toBroker>>
      /\ UNCHANGED <<process, canSendOffers, offersMade, openOffers, runningTasks>>
      /\ request' = [request EXCEPT ![q] = "cancelled"]
  BY DEF CancelTask, runnerVars, matchVars
<1>2. PICK t : t = taskOf[q]
  OBVIOUS
<1>3. cancelTask(t, tasks)
  BY <1>2 DEF CancelTask
<1>4. RequestTypes' /\ RunnerTypes' /\ OffersCanBeHonoured' /\ MatchTypes' /\ MatchInv'
      /\ BrokerChannels' /\ NewInv'
  BY <1>1 DEF RequestTypes, RunnerTypes, OffersCanBeHonoured, MatchTypes, MatchInv,
              OneMatchPerRequest, BrokerChannels, NewInv
<1>5. TaskTypes'
  BY <1>3 DEF TaskTypes, cancelTask
<1>6. StageInv' /\ RunnerChannels' /\ \A o \in Offers : Settings(o)' => Settings(o)
  <2>1. CASE t \in tasks
    BY <1>1, <1>3, <2>1, CancelStage DEF cancelTask
  <2>2. CASE t \notin tasks
    <3>1. tasks' = tasks /\ toRunner' = toRunner
      BY <1>3, <2>2 DEF cancelTask
    <3> QED BY <1>1, <3>1, QuietStage, SameRunner DEF Settings
  <2> QED BY <2>1, <2>2
<1>7. \A u : Awaited(u) => Awaited(u)'
  BY <1>1 DEF Awaited, RequestTypes
<1>8. AwaitInv'
  BY <1>1, <1>6, <1>7, OfferFacts DEF AwaitInv
<1> QED BY <1>4, <1>5, <1>6, <1>8

\* A startTask whose promise has settled was given its task all the same.
LEMMA SettleAwaited ==
    ASSUME NEW ts, NEW outcome \in {"done", "error"}, SettleTasksOf(ts, outcome),
           RequestTypes, UNCHANGED taskOf
    PROVE  /\ request' \in [Requests -> {"idle", "pending", "tasked", "done", "error",
                                         "expired", "cancelled"}]
           /\ \A t : Awaited(t) => Awaited(t)'
<1>1. request' = [q \in Requests |-> IF request[q] = "tasked" /\ taskOf[q] \in ts
                                     THEN outcome ELSE request[q]]
  BY DEF SettleTasksOf
<1> QED BY <1>1 DEF Awaited, RequestTypes

\* handleTaskTimeout preserves the invariant, in both modes.
LEMMA TaskTimeoutInv ==
    ASSUME Inv, NEW t \in Tasks, handleTaskTimeout(t)
    PROVE  Inv'
<1> USE DEF Inv
<1>1. /\ UNCHANGED <<taskOf, isDraining, knownRunners, pendingTaskRequests, pendingTaskOffers,
                     acceptInProgress, accepting, requestTimer, toBroker>>
      /\ UNCHANGED <<canSendOffers, offersMade, openOffers, runningTasks>>
      /\ tasks' = tasks \ {t} /\ taskTimer' = taskTimer \ {t} /\ t \in tasks
      /\ SettleTasksOf({t}, "error")
  BY DEF handleTaskTimeout, matchVars, TaskTypes
<1>2. /\ request' \in [Requests -> {"idle", "pending", "tasked", "done", "error",
                                    "expired", "cancelled"}]
      /\ \A u : Awaited(u) => Awaited(u)'
  BY <1>1, SettleAwaited
<1>3. RequestTypes' /\ OffersCanBeHonoured' /\ MatchTypes' /\ MatchInv'
      /\ BrokerChannels' /\ TaskTypes'
  BY <1>1, <1>2 DEF RequestTypes, OffersCanBeHonoured, MatchTypes, MatchInv,
              OneMatchPerRequest, BrokerChannels, TaskTypes
<1>4. CASE InternalMode
  <2>1. /\ process' = [r \in Runners |-> IF process[r] = "up" THEN "exited" ELSE process[r]]
        /\ toRunner' = [r \in Runners |-> <<>>]
    BY <1>4 DEF handleTaskTimeout, forceRestart
  <2>2. RunnerTypes' /\ NewInv'
    BY <1>1, <2>1 DEF RunnerTypes, NewInv
  <2>3. RunnerChannels'
    <3>1. toRunner' \in [Runners -> Seq(RunnerMessage)]
      BY <2>1, EmptySeq
    <3> QED BY <2>1, <3>1, EmptyChannel DEF RunnerChannels
  <2>4. \A o \in Offers : \A ty : ~ToRunner(ty, o)'
    BY <2>1, OfferFacts, EmptyChannel DEF ToRunner
  <2>5. StageInv'
    <3> SUFFICES ASSUME NEW o \in Offers, StageOf(o) PROVE StageOf(o)'
      BY DEF StageInv
    <3>1. process'[o[1]] = "up" => FALSE
      BY <2>1, OfferFacts
    <3> QED BY <1>1, <2>4, <3>1, SameBroker, SamePending
            DEF StageOf, OnePlace, EarlyInv, AnsweredInv, FreshInv, KeptInv, Early,
                Offered, Matched, Answered, Settings, Cancelled, Ended
  <2>6. AwaitInv'
    BY <1>1, <1>2, <2>4, OfferFacts DEF AwaitInv, Settings
  <2> QED BY <1>3, <2>2, <2>3, <2>5, <2>6
<1>5. CASE ~InternalMode
  <2>1. toRunner' = SendToRunner(t[1], <<Message("taskcancel", t)>>) /\ UNCHANGED process
    BY <1>5 DEF handleTaskTimeout
  <2>2. RunnerTypes' /\ NewInv'
    BY <1>1, <2>1 DEF RunnerTypes, NewInv
  <2>3. StageInv' /\ RunnerChannels' /\ \A o \in Offers : Settings(o)' => Settings(o)
    BY <1>1, <2>1, CancelStage
  <2>4. AwaitInv'
    BY <1>1, <1>2, <2>3, OfferFacts DEF AwaitInv
  <2> QED BY <1>3, <2>2, <2>3, <2>4
<1> QED BY <1>4, <1>5

-----------------------------------------------------------------------------
(* Connections and draining. *)

\* A message without a task is about no offer.
LEMMA NoTaskFacts ==
    ASSUME NEW r \in Runners
    PROVE  /\ NoTask(r) \in Runners \X (0..MaxOffers) /\ NoTask(r)[1] = r
           /\ \A o \in Offers : \A ty, ty2 : Message(ty, o) # Message(ty2, NoTask(r))
<1>1. NoTask(r) \in Runners \X (0..MaxOffers) /\ NoTask(r)[1] = r /\ NoTask(r)[2] = 0
  BY OfferFacts DEF NoTask
<1>2. \A o \in Offers : o # NoTask(r)
  BY <1>1, OfferFacts
<1> QED BY <1>1, <1>2, MessageFacts

\* registerRunner preserves the invariant.
LEMMA RegisterInv ==
    ASSUME Inv, NEW r \in Runners, registerRunner(r)
    PROVE  Inv'
<1> USE DEF Inv
<1>1. /\ UNCHANGED <<request, taskOf, isDraining, pendingTaskRequests, pendingTaskOffers,
                     acceptInProgress, accepting, requestTimer, tasks, taskTimer, toBroker>>
      /\ UNCHANGED <<canSendOffers, offersMade, openOffers, runningTasks>>
      /\ process[r] = "new" /\ process' = [process EXCEPT ![r] = "up"]
      /\ knownRunners' = knownRunners \cup {r}
      /\ toRunner' = [toRunner EXCEPT ![r] = <<Message("runnerregistered", NoTask(r))>>]
  BY DEF registerRunner, matchVars, requesterVars
<1>2. RequestTypes' /\ MatchTypes' /\ TaskTypes' /\ RunnerTypes' /\ OffersCanBeHonoured'
      /\ MatchInv' /\ BrokerChannels'
  BY <1>1 DEF RequestTypes, MatchTypes, TaskTypes, RunnerTypes, OffersCanBeHonoured,
              MatchInv, OneMatchPerRequest, BrokerChannels
<1>3. r \notin knownRunners /\ toBroker[r] = <<>>
  BY <1>1 DEF NewInv
<1>4. NewInv'
  BY <1>1 DEF NewInv, RunnerTypes
<1> DEFINE m == Message("runnerregistered", NoTask(r))
<1>5. /\ m \in RunnerMessage /\ m.type = "runnerregistered" /\ m.task[1] = r
      /\ <<m>> \in Seq(RunnerMessage) /\ ToSet(<<m>>) = {m} /\ ChannelOK(<<m>>)
  <2>1. m \in RunnerMessage /\ m.type = "runnerregistered" /\ m.task[1] = r
    BY NoTaskFacts, MessageFacts DEF ToRunnerTypes
  <2> HIDE DEF m
  <2> QED BY <2>1, SingletonChannel
<1>6. \A o \in Offers : \A ty : Message(ty, o) # m
  BY NoTaskFacts
<1>7. toRunner' = [toRunner EXCEPT ![r] = <<m>>]
  BY <1>1
<1> HIDE DEF m
<1>8. RunnerChannels'
  BY <1>5, <1>7 DEF RunnerChannels
<1>9. \A o \in Offers : \A ty : ToRunner(ty, o)' <=> ToRunner(ty, o) /\ o[1] # r
  BY <1>5, <1>6, <1>7, OfferFacts DEF RunnerChannels, ToRunner
<1>10. \A o \in Offers : \A ty : ToBroker(ty, o) => o[1] # r
  BY <1>3, EmptyChannel DEF ToBroker
<1>11. StageInv'
  <2> SUFFICES ASSUME NEW o \in Offers, StageOf(o) PROVE StageOf(o)'
    BY DEF StageInv
  <2>1. o[1] # r => process'[o[1]] = process[o[1]]
    BY <1>1
  <2> QED BY <1>1, <1>3, <1>9, <1>10, <2>1, SameBroker, SamePending
          DEF StageOf, OnePlace, EarlyInv, AnsweredInv, FreshInv, KeptInv, Early,
              Offered, Matched, Answered, Settings, Cancelled, Ended
<1>12. AwaitInv'
  BY <1>1, <1>9, OfferFacts DEF AwaitInv, Settings, Awaited
<1> QED BY <1>2, <1>4, <1>8, <1>11, <1>12

(***************************************************************************)
(* deregisterRunner preserves the invariant: the tasks, the offers and the *)
(* messages of the runner go together.                                     *)
(***************************************************************************)
LEMMA DeregisterInv ==
    ASSUME Inv, NEW r \in Runners, deregisterRunner(r)
    PROVE  Inv'
<1> USE DEF Inv
<1> DEFINE lost == {t \in tasks : t[1] = r}
<1>1. /\ UNCHANGED <<taskOf, isDraining, pendingTaskRequests, acceptInProgress, accepting,
                     requestTimer, toRunner>>
      /\ UNCHANGED <<process, canSendOffers, offersMade, openOffers, runningTasks>>
      /\ knownRunners' = knownRunners \ {r}
      /\ pendingTaskOffers' = Keep(pendingTaskOffers, {o \in Offers : o[1] # r})
      /\ tasks' = tasks \ lost /\ taskTimer' = taskTimer \ lost
      /\ SettleTasksOf(lost, "error")
      /\ toBroker' = [toBroker EXCEPT ![r] = <<>>]
  BY DEF deregisterRunner, runnerVars
<1>2. /\ request' \in [Requests -> {"idle", "pending", "tasked", "done", "error",
                                    "expired", "cancelled"}]
      /\ \A u : Awaited(u) => Awaited(u)'
  BY <1>1, SettleAwaited
<1>3. RequestTypes' /\ OffersCanBeHonoured' /\ MatchInv' /\ RunnerChannels' /\ TaskTypes'
      /\ RunnerTypes'
  BY <1>1, <1>2 DEF RequestTypes, OffersCanBeHonoured, MatchInv, OneMatchPerRequest,
              RunnerChannels, TaskTypes, RunnerTypes
<1> DEFINE others == {o \in Offers : o[1] # r}
<1>4. /\ pendingTaskOffers' \in Seq(Offers) /\ Distinct(pendingTaskOffers')
      /\ ToSet(pendingTaskOffers') = ToSet(pendingTaskOffers) \cap others
  <2>1. pendingTaskOffers' = Keep(pendingTaskOffers, others)
    BY <1>1
  <2> HIDE DEF others
  <2> QED BY <2>1, KeepFacts DEF MatchTypes
<1>5. MatchTypes'
  BY <1>1, <1>4 DEF MatchTypes
<1>6. BrokerChannels' /\ NewInv'
  <2>1. \A w \in Runners : toBroker'[w] = IF w = r THEN <<>> ELSE toBroker[w]
    BY <1>1 DEF BrokerChannels
  <2>2. toBroker' \in [Runners -> Seq(BrokerMessage)]
    BY <1>1, EmptySeq DEF BrokerChannels
  <2> QED BY <1>1, <2>1, <2>2, EmptyChannel DEF BrokerChannels, NewInv
<1>7. \A o \in Offers : \A ty : ToBroker(ty, o)' <=> ToBroker(ty, o) /\ o[1] # r
  BY <1>1, EmptyChannel, OfferFacts DEF BrokerChannels, ToBroker
<1>8. \A o \in Offers : Pending(o)' => Pending(o) /\ o[1] # r
  BY <1>4 DEF Pending
<1>9. StageInv'
  <2> SUFFICES ASSUME NEW o \in Offers, StageOf(o) PROVE StageOf(o)'
    BY DEF StageInv
  <2>1. o \in tasks' => o \in tasks /\ o[1] # r
    BY <1>1
  <2> HIDE DEF lost
  <2> QED BY <1>1, <1>7, <1>8, <2>1, SameRunner
          DEF StageOf, OnePlace, EarlyInv, AnsweredInv, FreshInv, KeptInv, Early,
              Offered, Matched, Answered, Settings, Cancelled, Ended
<1>10. AwaitInv'
  BY <1>1, <1>2, SameRunner DEF AwaitInv, Settings
<1> QED BY <1>3, <1>5, <1>6, <1>9, <1>10

\* RunnerExits preserves the invariant.
LEMMA RunnerExitsInv ==
    ASSUME Inv, NEW r \in Runners, RunnerExits(r)
    PROVE  Inv'
<1> USE DEF Inv
<1>1. /\ UNCHANGED <<request, taskOf, isDraining, knownRunners, pendingTaskRequests,
                     pendingTaskOffers, acceptInProgress, accepting, requestTimer, tasks,
                     taskTimer, toBroker>>
      /\ UNCHANGED <<canSendOffers, offersMade, openOffers, runningTasks>>
      /\ process' = [process EXCEPT ![r] = "exited"]
      /\ toRunner' = [toRunner EXCEPT ![r] = <<>>]
  BY DEF RunnerExits, requesterVars, brokerVars, matchVars
<1>2. RequestTypes' /\ MatchTypes' /\ TaskTypes' /\ RunnerTypes' /\ OffersCanBeHonoured'
      /\ MatchInv' /\ BrokerChannels' /\ NewInv'
  BY <1>1 DEF RequestTypes, MatchTypes, TaskTypes, RunnerTypes, OffersCanBeHonoured,
              MatchInv, OneMatchPerRequest, BrokerChannels, NewInv
<1>3. RunnerChannels'
  <2>1. \A w \in Runners : toRunner'[w] = IF w = r THEN <<>> ELSE toRunner[w]
    BY <1>1 DEF RunnerChannels
  <2>2. toRunner' \in [Runners -> Seq(RunnerMessage)]
    BY <1>1, EmptySeq DEF RunnerChannels
  <2> QED BY <2>1, <2>2, EmptyChannel DEF RunnerChannels
<1>4. \A o \in Offers : \A ty : ToRunner(ty, o)' => ToRunner(ty, o)
  BY <1>1, EmptyChannel, OfferFacts DEF RunnerChannels, ToRunner
<1>5. StageInv'
  <2> SUFFICES ASSUME NEW o \in Offers, StageOf(o) PROVE StageOf(o)'
    BY DEF StageInv
  <2>1. process'[o[1]] = "up" => process[o[1]] = "up"
    BY <1>1, OfferFacts DEF RunnerTypes
  <2> QED BY <1>1, <1>4, <2>1, SameBroker, SamePending
          DEF StageOf, OnePlace, EarlyInv, AnsweredInv, FreshInv, KeptInv, Early,
              Offered, Matched, Answered, Settings, Cancelled, Ended
<1>6. AwaitInv'
  BY <1>1, <1>4, OfferFacts DEF AwaitInv, Settings, Awaited
<1> QED BY <1>2, <1>3, <1>5, <1>6

\* startDraining preserves the invariant.
LEMMA StartDrainingInv ==
    ASSUME Inv, startDraining
    PROVE  Inv'
<1> USE DEF Inv
<1>1. /\ UNCHANGED <<request, taskOf, knownRunners, pendingTaskRequests, pendingTaskOffers,
                     acceptInProgress, accepting, requestTimer, tasks, taskTimer, toBroker>>
      /\ UNCHANGED <<process, canSendOffers, offersMade, openOffers, runningTasks>>
      /\ isDraining' = TRUE
      /\ toRunner' = [r \in Runners |-> SendToRunner(r, <<Message("drain", NoTask(r))>>)[r]]
  BY DEF startDraining, requesterVars, runnerVars, matchVars
<1>2. RequestTypes' /\ MatchTypes' /\ TaskTypes' /\ RunnerTypes' /\ OffersCanBeHonoured'
      /\ MatchInv' /\ BrokerChannels' /\ NewInv'
  BY <1>1 DEF RequestTypes, MatchTypes, TaskTypes, RunnerTypes, OffersCanBeHonoured,
              MatchInv, OneMatchPerRequest, BrokerChannels, NewInv
<1>3. ASSUME NEW r \in Runners
      PROVE  /\ toRunner'[r] \in Seq(RunnerMessage) /\ ChannelOK(toRunner'[r])
             /\ ToSet(toRunner[r]) \subseteq ToSet(toRunner'[r])
             /\ ToSet(toRunner'[r]) \subseteq ToSet(toRunner[r]) \cup {Message("drain", NoTask(r))}
  <2> DEFINE m == Message("drain", NoTask(r))
  <2>1. m \in RunnerMessage /\ m.type = "drain"
    BY NoTaskFacts, MessageFacts DEF ToRunnerTypes
  <2>2. toRunner'[r] = SendToRunner(r, <<m>>)[r]
    BY <1>1
  <2> HIDE DEF m
  <2>3. <<m>> \in Seq(RunnerMessage) /\ ToSet(<<m>>) = {m} /\ ChannelOK(<<m>>)
    BY <2>1, SingletonChannel
  <2>4. \A y \in ToSet(<<m>>) : y.type \notin TokenTypes
    BY <2>1, <2>3 DEF TokenTypes
  <2> DEFINE u == <<m>>
             w == SendToRunner(r, u)
  <2>5. u \in Seq(RunnerMessage) /\ ToSet(u) = {m} /\ ChannelOK(u)
        /\ \A y \in ToSet(u) : y.type \notin TokenTypes
    BY <2>3, <2>4
  <2> HIDE DEF u
  <2>6. w[r] \in Seq(RunnerMessage) /\ ChannelOK(w[r])
        /\ (w[r] = toRunner[r] \/ ToSet(w[r]) = ToSet(toRunner[r]) \cup ToSet(u))
    BY <2>5, SendFacts
  <2>7. toRunner'[r] = w[r]
    BY <2>2 DEF u
  <2> HIDE DEF w
  <2> QED BY <2>5, <2>6, <2>7 DEF m
<1>4. \A o \in Offers : \A ty : ToRunner(ty, o)' <=> ToRunner(ty, o)
  <2> SUFFICES ASSUME NEW o \in Offers, NEW ty PROVE ToRunner(ty, o)' <=> ToRunner(ty, o)
    OBVIOUS
  <2>1. o[1] \in Runners
    BY OfferFacts
  <2>2. Message(ty, o) # Message("drain", NoTask(o[1]))
    BY <2>1, NoTaskFacts
  <2>3. /\ ToSet(toRunner[o[1]]) \subseteq ToSet(toRunner'[o[1]])
        /\ ToSet(toRunner'[o[1]]) \subseteq ToSet(toRunner[o[1]]) \cup {Message("drain", NoTask(o[1]))}
    BY <1>3, <2>1
  <2>4. ToRunner(ty, o)' = (Message(ty, o) \in ToSet(toRunner'[o[1]]))
    BY DEF ToRunner
  <2> QED BY <2>2, <2>3, <2>4 DEF ToRunner
<1>5. RunnerChannels'
  <2>1. toRunner' \in [Runners -> Seq(RunnerMessage)]
    BY <1>1, <1>3
  <2>2. ASSUME NEW r \in Runners, NEW x \in ToSet(toRunner'[r])
        PROVE  x.task[1] = r /\ (x.type \notin {"runnerregistered", "drain"} => x.task \in Tasks)
    <3>1. x \in ToSet(toRunner[r]) \/ x = Message("drain", NoTask(r))
      BY <1>3
    <3>2. x = Message("drain", NoTask(r)) => x.type = "drain" /\ x.task[1] = r
      BY NoTaskFacts, MessageFacts
    <3> QED BY <3>1, <3>2 DEF RunnerChannels
  <2> QED BY <1>3, <2>1, <2>2 DEF RunnerChannels
<1>6. StageInv'
  <2> SUFFICES ASSUME NEW o \in Offers, StageOf(o) PROVE StageOf(o)'
    BY DEF StageInv
  <2> QED BY <1>1, <1>4, SameBroker, SamePending
          DEF StageOf, OnePlace, EarlyInv, AnsweredInv, FreshInv, KeptInv, Early,
              Offered, Matched, Answered, Settings, Cancelled, Ended
<1>7. AwaitInv'
  BY <1>1, <1>4, OfferFacts DEF AwaitInv, Settings, Awaited
<1> QED BY <1>2, <1>5, <1>6, <1>7

-----------------------------------------------------------------------------
(* Messages of the runners. *)

\* The same as NoRunnerToken, by message type.
LEMMA NoRunnerTokens ==
    ASSUME RunnerChannels, NEW o \in Offers, ~Matched(o), ~Settings(o)
    PROVE  \A ty \in TokenTypes : ~ToRunner(ty, o)
<1> SUFFICES ASSUME NEW ty \in TokenTypes, ToRunner(ty, o) PROVE FALSE
  OBVIOUS
<1>1. ty \in ToRunnerTypes
  BY RunnerMessageTypes
<1> QED BY <1>1 DEF ToRunnerTypes, TokenTypes, Matched, Settings

\* taskOffered preserves the invariant.
LEMMA TaskOfferedInv ==
    ASSUME Inv, NEW r \in Runners, taskOffered(r)
    PROVE  Inv'
<1> USE DEF Inv
<1>1. /\ UNCHANGED <<request, taskOf, isDraining, knownRunners, requestTimer, tasks, taskTimer>>
      /\ UNCHANGED <<process, canSendOffers, offersMade, openOffers, runningTasks>>
      /\ Receive(r, "taskoffer")
      /\ settleTasks(pendingTaskRequests, Append(pendingTaskOffers, Head(toBroker[r]).task))
  BY DEF taskOffered, requesterVars, runnerVars
<1>2. PICK t : t = Head(toBroker[r]).task
  OBVIOUS
<1>3. "taskoffer" \in ToBrokerTypes /\ "taskoffer" \in TokenTypes
  BY DEF ToBrokerTypes, TokenTypes
<1>4. /\ t \in Tasks /\ t \in Offers /\ Offered(t)
      /\ BrokerChannels'
      /\ \A w \in Runners : toBroker[w] = <<>> => toBroker'[w] = <<>>
      /\ \A o \in Offers : \A ty : ToBroker(ty, o)' => ToBroker(ty, o)
      /\ \A o \in Offers : \A ty :
            (ToBroker(ty, o) /\ (ty # "taskoffer" \/ o # t)) => ToBroker(ty, o)'
      /\ \A ty \in TokenTypes : ~ToBroker(ty, t)'
  BY <1>1, <1>2, <1>3, ReceiveFacts, OfferFacts DEF Offered
<1>5. PICK requests, offers : requests = pendingTaskRequests
                              /\ offers = Append(pendingTaskOffers, t)
  OBVIOUS
<1>6. ~Pending(t)
  BY <1>4 DEF StageInv, StageOf, OnePlace
<1>7. /\ requests \in Seq(Requests) /\ offers \in Seq(Offers) /\ Distinct(offers)
      /\ ToSet(offers) = ToSet(pendingTaskOffers) \cup {t}
  BY <1>4, <1>5, <1>6, AppendFacts DEF RequestTypes, MatchTypes, Pending
<1>8. /\ ToSet(offers) \subseteq Offers
      /\ \A o \in ToSet(offers) : Pending(o) \/ Offered(o)
  BY <1>4, <1>7, ToSetType DEF Pending
<1>9. \A o \in ToSet(offers) :
        /\ accepting[o] = None
        /\ \A m \in ToSet(toRunner[o[1]]) : m.task = o => m.type \notin TokenTypes \cup EndTypes
  BY <1>8, SettleCondition
<1>10. settleTasks(requests, offers)
  BY <1>1, <1>2, <1>5
<1>11. PICK M \in SUBSET ToSet(offers) : SettleEffect(requests, offers, M)
  BY <1>7, <1>9, <1>10, SettleFacts DEF MatchTypes
<1>12. RequestTypes'
  BY <1>1, <1>7, <1>11 DEF RequestTypes, SettleEffect
<1>13. MatchTypes' /\ RunnerChannels' /\ MatchInv'
  BY <1>11 DEF MatchTypes, SettleEffect
<1>14. TaskTypes' /\ RunnerTypes' /\ NewInv' /\ OffersCanBeHonoured'
  BY <1>1, <1>4 DEF TaskTypes, RunnerTypes, NewInv, OffersCanBeHonoured
<1>15. \A o \in ToSet(offers) : ~Offered(o)'
  <2> SUFFICES ASSUME NEW o \in ToSet(offers), o # t PROVE ~Offered(o)'
    BY <1>3, <1>4 DEF Offered
  <2>1. o \in Offers /\ Pending(o)
    BY <1>7, <1>8 DEF Pending
  <2> QED BY <1>4, <2>1 DEF StageInv, StageOf, OnePlace, Offered
<1>16. StageInv'
  <2>1. \A o \in Offers : \A ty : (ToBroker(ty, o) /\ ty # "taskoffer") => ToBroker(ty, o)'
    BY <1>4
  <2> QED BY <1>1, <1>4, <1>8, <1>11, <1>15, <2>1, SettleStage
<1>17. \A o \in Offers : Settings(o)' => Settings(o)
  BY <1>11, SettleRunner DEF Settings
<1>18. AwaitInv'
  BY <1>1, <1>17, OfferFacts DEF AwaitInv, Awaited
<1> QED BY <1>4, <1>12, <1>13, <1>14, <1>16, <1>18

\* The effect of the broker taking an answer to an acceptance.
LEMMA AnswerFacts ==
    ASSUME Inv, NEW r \in Runners, NEW type \in {"taskaccepted", "taskrejected", "taskdeferred"},
           Receive(r, type), NEW t, t = Head(toBroker[r]).task
    PROVE  /\ t \in Offers /\ t[1] = r /\ r \in knownRunners
           /\ ToBroker(type, t)
           /\ BrokerChannels'
           /\ \A w \in Runners : toBroker[w] = <<>> => toBroker'[w] = <<>>
           /\ \A o \in Offers : \A ty : ToBroker(ty, o)' => ToBroker(ty, o)
           /\ \A o \in Offers : \A ty : (ToBroker(ty, o) /\ (ty # type \/ o # t)) => ToBroker(ty, o)'
           /\ ~Offered(t)' /\ ~Answered(t)'
<1>1. type \in ToBrokerTypes /\ BrokerChannels
  BY DEF Inv, ToBrokerTypes
<1>2. \A ty \in TokenTypes : ~ToBroker(ty, t)'
  BY <1>1, ReceiveFacts
<1>3. ~Offered(t)' /\ ~Answered(t)'
  BY <1>2 DEF Offered, Answered, TokenTypes
<1> QED BY <1>1, <1>3, ReceiveFacts, OfferFacts

(***************************************************************************)
(* handleRunnerAccept preserves the invariant, whether the match is over,  *)
(* the request awaits the task, no longer awaits it, or is gone.           *)
(***************************************************************************)
LEMMA RunnerAcceptInv ==
    ASSUME Inv, NEW r \in Runners, handleRunnerAccept(r)
    PROVE  Inv'
<1> USE DEF Inv
<1>1. /\ UNCHANGED <<isDraining, knownRunners, pendingTaskOffers, acceptInProgress>>
      /\ UNCHANGED <<process, canSendOffers, offersMade, openOffers, runningTasks>>
      /\ Receive(r, "taskaccepted")
  BY DEF handleRunnerAccept, runnerVars
<1>2. PICK t : t = Head(toBroker[r]).task
  OBVIOUS
<1>3. PICK q : q = accepting[t]
  OBVIOUS
<1>4. /\ t \in Offers /\ t[1] = r /\ r \in knownRunners
      /\ ToBroker("taskaccepted", t)
      /\ BrokerChannels'
      /\ \A w \in Runners : toBroker[w] = <<>> => toBroker'[w] = <<>>
      /\ \A o \in Offers : \A ty : ToBroker(ty, o)' => ToBroker(ty, o)
      /\ \A o \in Offers : \A ty :
            (ToBroker(ty, o) /\ (ty # "taskaccepted" \/ o # t)) => ToBroker(ty, o)'
      /\ ~Offered(t)' /\ ~Answered(t)'
  BY <1>1, <1>2, AnswerFacts
<1>5. RunnerTypes' /\ NewInv' /\ OffersCanBeHonoured'
  BY <1>1, <1>4 DEF RunnerTypes, NewInv, OffersCanBeHonoured
<1>6. CASE q = None
  <2>1. UNCHANGED <<request, taskOf, pendingTaskRequests, accepting, requestTimer, tasks,
                    taskTimer, toRunner>>
    BY <1>2, <1>3, <1>6 DEF handleRunnerAccept, requesterVars
  <2>2. RequestTypes' /\ MatchTypes' /\ TaskTypes' /\ MatchInv' /\ RunnerChannels'
    BY <1>1, <2>1 DEF RequestTypes, MatchTypes, TaskTypes, MatchInv, OneMatchPerRequest,
                      RunnerChannels
  <2>3. StageInv'
    <3> SUFFICES ASSUME NEW o \in Offers, StageOf(o) PROVE StageOf(o)'
      BY DEF StageInv
    <3> QED BY <1>1, <1>4, <2>1, SameRunner, SamePending
            DEF StageOf, OnePlace, EarlyInv, AnsweredInv, FreshInv, KeptInv, Early,
                Offered, Matched, Answered, Settings, Cancelled, Ended
  <2>4. AwaitInv'
    BY <1>1, <2>1, SameRunner DEF AwaitInv, Settings, Awaited
  <2> QED BY <1>4, <1>5, <2>2, <2>3, <2>4
<1>7. CASE q # None
  <2>1. /\ accepting' = [accepting EXCEPT ![t] = None]
        /\ requestTimer' = requestTimer \ {q}
        /\ pendingTaskRequests' = RemoveFirst(pendingTaskRequests, q)
        /\ IF RequestFound(q) THEN taskReady(q, t)
           ELSE /\ tasks' = tasks \cup {t}
                /\ UNCHANGED <<request, taskOf, taskTimer, toRunner>>
    BY <1>2, <1>3, <1>7 DEF handleRunnerAccept, requesterVars
  <2>2. q \in Requests
    BY <1>3, <1>4, <1>7 DEF MatchTypes
  <2>3. \A o \in Offers : accepting'[o] = IF o = t THEN None ELSE accepting[o]
    BY <2>1 DEF MatchTypes
  <2>4. MatchTypes' /\ MatchInv'
    BY <1>1, <2>1, <2>3 DEF MatchTypes, MatchInv, OneMatchPerRequest
  <2>5. /\ pendingTaskRequests' \in Seq(Requests) /\ requestTimer' \subseteq Requests
        /\ isDraining' \in BOOLEAN /\ knownRunners' \subseteq Runners
    BY <1>1, <2>1, RemoveFirstType DEF RequestTypes
  <2>6. /\ ~Early(t) /\ ~Settings(t) /\ ~Cancelled(t) /\ t \notin tasks
        /\ ~(t[2] > offersMade[t[1]])
    BY <1>4 DEF StageInv, StageOf, OnePlace, AnsweredInv, FreshInv, Answered
  <2>7. CASE RequestFound(q) /\ request[q] = "pending"
    <3>1. /\ request' = [request EXCEPT ![q] = "tasked"]
          /\ taskOf' = [taskOf EXCEPT ![q] = t]
          /\ tasks' = tasks \cup {t} /\ taskTimer' = taskTimer \cup {t}
          /\ toRunner' = SendToRunner(t[1], <<Message("tasksettings", t)>>)
      BY <2>1, <2>7 DEF taskReady, sendTaskSettings
    <3>2. RequestTypes' /\ TaskTypes'
      BY <1>4, <2>5, <3>1, OfferFacts DEF RequestTypes, TaskTypes
    <3>3. "tasksettings" \in ToRunnerTypes /\ t \in Tasks
          /\ \A ty \in TokenTypes : ~ToRunner(ty, t)
      BY <1>4, <2>6, NoRunnerTokens, OfferFacts DEF ToRunnerTypes, Early
    <3>4. /\ RunnerChannels'
          /\ \A o \in Offers : \A ty : ToRunner(ty, o) => ToRunner(ty, o)'
          /\ \A o \in Offers : \A ty : ToRunner(ty, o)' =>
                ToRunner(ty, o) \/ (ty = "tasksettings" /\ o = t)
      BY <3>1, <3>3, SendOneTask
    <3>5. StageInv'
      <4> SUFFICES ASSUME NEW o \in Offers, StageOf(o) PROVE StageOf(o)'
        BY DEF StageInv
      <4> QED BY <1>1, <1>4, <2>3, <2>6, <3>1, <3>4, SamePending
              DEF StageOf, OnePlace, EarlyInv, AnsweredInv, FreshInv, KeptInv, Early,
                  Offered, Matched, Answered, Settings, Cancelled, Ended
    <3>6. \A u : Awaited(u) => Awaited(u)'
      BY <2>2, <2>7, <3>1 DEF Awaited, RequestTypes
    <3>7. Awaited(t)'
      BY <2>2, <3>1 DEF Awaited, RequestTypes
    <3>8. AwaitInv'
      BY <1>1, <3>4, <3>6, <3>7, OfferFacts DEF AwaitInv, Settings
    <3> QED BY <1>4, <1>5, <2>4, <3>2, <3>4, <3>5, <3>8
  <2>8. CASE RequestFound(q) /\ request[q] # "pending"
    <3>1. /\ UNCHANGED <<request, taskOf>>
          /\ tasks' = tasks /\ taskTimer' = taskTimer \ {t}
          /\ toRunner' = SendToRunner(t[1], <<Message("taskcancel", t)>>)
      BY <2>1, <2>6, <2>8 DEF taskReady, cancelTask, requesterVars
    <3>2. RequestTypes' /\ TaskTypes'
      BY <2>5, <3>1 DEF RequestTypes, TaskTypes
    <3>3. "taskcancel" \in ToRunnerTypes /\ "taskcancel" \notin TokenTypes /\ t \in Tasks
      BY <1>4, OfferFacts DEF ToRunnerTypes, TokenTypes
    <3>4. /\ RunnerChannels'
          /\ \A o \in Offers : \A ty : ToRunner(ty, o) => ToRunner(ty, o)'
          /\ \A o \in Offers : \A ty : ToRunner(ty, o)' =>
                ToRunner(ty, o) \/ (ty = "taskcancel" /\ o = t)
      BY <3>1, <3>3, SendOneTask
    <3>5. StageInv'
      <4> SUFFICES ASSUME NEW o \in Offers, StageOf(o) PROVE StageOf(o)'
        BY DEF StageInv
      <4> QED BY <1>1, <1>4, <2>3, <2>6, <3>1, <3>4, SamePending
              DEF StageOf, OnePlace, EarlyInv, AnsweredInv, FreshInv, KeptInv, Early,
                  Offered, Matched, Answered, Settings, Cancelled, Ended
    <3>6. AwaitInv'
      BY <1>1, <3>1, <3>4, OfferFacts DEF AwaitInv, Settings, Awaited
    <3> QED BY <1>4, <1>5, <2>4, <3>2, <3>4, <3>5, <3>6
  <2>9. CASE ~RequestFound(q)
    <3>1. tasks' = tasks \cup {t} /\ UNCHANGED <<request, taskOf, taskTimer, toRunner>>
      BY <2>1, <2>9
    <3>2. RequestTypes' /\ TaskTypes' /\ RunnerChannels'
      BY <1>4, <2>5, <3>1, OfferFacts DEF RequestTypes, TaskTypes, RunnerChannels
    <3>3. StageInv'
      <4> SUFFICES ASSUME NEW o \in Offers, StageOf(o) PROVE StageOf(o)'
        BY DEF StageInv
      <4> QED BY <1>1, <1>4, <2>3, <2>6, <3>1, SameRunner, SamePending
              DEF StageOf, OnePlace, EarlyInv, AnsweredInv, FreshInv, KeptInv, Early,
                  Offered, Matched, Answered, Settings, Cancelled, Ended
    <3>4. AwaitInv'
      BY <1>1, <3>1, SameRunner DEF AwaitInv, Settings, Awaited
    <3> QED BY <1>4, <1>5, <2>4, <3>2, <3>3, <3>4
  <2> QED BY <2>7, <2>8, <2>9
<1> QED BY <1>6, <1>7

\* A refusal or a deferral ends the match and nothing else.
LEMMA AnswerDroppedInv ==
    ASSUME Inv, NEW r \in Runners, NEW type \in {"taskrejected", "taskdeferred"},
           Receive(r, type), NEW o, o = Head(toBroker[r]).task,
           accepting' = [accepting EXCEPT ![o] = None],
           acceptInProgress' = acceptInProgress \ {accepting[o]},
           pendingTaskRequests' \in Seq(Requests), requestTimer' \subseteq Requests,
           UNCHANGED <<request, taskOf, isDraining, knownRunners, pendingTaskOffers, tasks,
                       taskTimer, toRunner>>,
           UNCHANGED <<process, canSendOffers, offersMade, openOffers, runningTasks>>
    PROVE  Inv'
<1> USE DEF Inv
<1>1. /\ o \in Offers /\ ToBroker(type, o)
      /\ BrokerChannels'
      /\ \A w \in Runners : toBroker[w] = <<>> => toBroker'[w] = <<>>
      /\ \A p \in Offers : \A ty : ToBroker(ty, p)' => ToBroker(ty, p)
      /\ \A p \in Offers : \A ty : (ToBroker(ty, p) /\ (ty # type \/ p # o)) => ToBroker(ty, p)'
      /\ ~Offered(o)' /\ ~Answered(o)'
  BY AnswerFacts
<1>2. \A p \in Offers : accepting'[p] = IF p = o THEN None ELSE accepting[p]
  BY DEF MatchTypes
<1>3. MatchTypes'
  BY DEF MatchTypes
<1>4. MatchInv'
  BY <1>1, <1>2 DEF MatchInv, OneMatchPerRequest
<1>5. RequestTypes' /\ TaskTypes' /\ RunnerTypes' /\ NewInv' /\ OffersCanBeHonoured'
      /\ RunnerChannels'
  BY <1>1 DEF RequestTypes, TaskTypes, RunnerTypes, NewInv, OffersCanBeHonoured,
              RunnerChannels
<1>6. StageInv'
  <2> SUFFICES ASSUME NEW p \in Offers, StageOf(p) PROVE StageOf(p)'
    BY DEF StageInv
  <2> QED BY <1>1, <1>2, SameRunner, SamePending
          DEF StageOf, OnePlace, EarlyInv, AnsweredInv, FreshInv, KeptInv, Early,
              Offered, Matched, Answered, Settings, Cancelled, Ended
<1>7. AwaitInv'
  BY SameRunner DEF AwaitInv, Settings, Awaited
<1> QED BY <1>1, <1>3, <1>4, <1>5, <1>6, <1>7

\* handleRunnerReject preserves the invariant.
LEMMA RunnerRejectInv ==
    ASSUME Inv, NEW r \in Runners, handleRunnerReject(r)
    PROVE  Inv'
<1>1. PICK o : o = Head(toBroker[r]).task
  OBVIOUS
<1>2. /\ Receive(r, "taskrejected")
      /\ accepting' = [accepting EXCEPT ![o] = None]
      /\ acceptInProgress' = acceptInProgress \ {accepting[o]}
      /\ UNCHANGED <<request, taskOf, isDraining, knownRunners, pendingTaskOffers, tasks,
                     taskTimer, toRunner>>
      /\ UNCHANGED <<process, canSendOffers, offersMade, openOffers, runningTasks>>
      /\ UNCHANGED <<pendingTaskRequests, requestTimer>>
  BY <1>1 DEF handleRunnerReject, requesterVars, runnerVars
<1>3. pendingTaskRequests' \in Seq(Requests) /\ requestTimer' \subseteq Requests
  BY <1>2 DEF Inv, RequestTypes
<1> QED BY <1>1, <1>2, <1>3, AnswerDroppedInv

\* handleRunnerDeferred preserves the invariant.
LEMMA RunnerDeferredInv ==
    ASSUME Inv, NEW r \in Runners, handleRunnerDeferred(r)
    PROVE  Inv'
<1>1. PICK o : o = Head(toBroker[r]).task
  OBVIOUS
<1>2. /\ Receive(r, "taskdeferred")
      /\ accepting' = [accepting EXCEPT ![o] = None]
      /\ acceptInProgress' = acceptInProgress \ {accepting[o]}
      /\ UNCHANGED <<request, taskOf, isDraining, knownRunners, pendingTaskOffers, tasks,
                     taskTimer, toRunner>>
      /\ UNCHANGED <<process, canSendOffers, offersMade, openOffers, runningTasks>>
  BY <1>1 DEF handleRunnerDeferred, requesterVars, runnerVars
<1>3. pendingTaskRequests' \in Seq(Requests) /\ requestTimer' \subseteq Requests
  <2>1. o \in Offers
    BY <1>1, <1>2, AnswerFacts
  <2>2. PICK q : q = accepting[o]
    OBVIOUS
  <2>3. CASE q = None
    BY <1>1, <2>2, <2>3 DEF handleRunnerDeferred, Inv, RequestTypes
  <2>4. CASE q # None
    <3>1. q \in Requests
      BY <2>1, <2>2, <2>4 DEF Inv, MatchTypes
    <3>2. /\ pendingTaskRequests' = Append(pendingTaskRequests, q)
          /\ requestTimer' = requestTimer \cup {q}
      BY <1>1, <2>2, <2>4 DEF handleRunnerDeferred
    <3> QED BY <3>1, <3>2, AppendFacts DEF Inv, RequestTypes
  <2> QED BY <2>3, <2>4
<1> QED BY <1>1, <1>2, <1>3, AnswerDroppedInv

\* taskDoneHandler and taskErrorHandler preserve the invariant.
LEMMA TaskEndedInv ==
    ASSUME Inv, NEW r \in Runners, NEW type \in EndTypes, NEW outcome \in {"done", "error"},
           TaskEnded(r, type, outcome)
    PROVE  Inv'
<1> USE DEF Inv
<1>1. PICK t : t = Head(toBroker[r]).task
  OBVIOUS
<1>2. /\ UNCHANGED <<taskOf, isDraining, knownRunners, pendingTaskRequests, pendingTaskOffers,
                     acceptInProgress, accepting, requestTimer, toRunner>>
      /\ UNCHANGED <<process, canSendOffers, offersMade, openOffers, runningTasks>>
      /\ Receive(r, type)
      /\ tasks' = tasks \ {t} /\ taskTimer' = taskTimer \ ({t} \cap tasks)
      /\ SettleTasksOf({t} \cap tasks, outcome)
  BY <1>1 DEF TaskEnded, matchVars, runnerVars
<1>3. /\ t \in Tasks /\ ToBroker(type, t)
      /\ BrokerChannels'
      /\ \A w \in Runners : toBroker[w] = <<>> => toBroker'[w] = <<>>
      /\ \A o \in Offers : \A ty : ToBroker(ty, o)' => ToBroker(ty, o)
      /\ \A o \in Offers : \A ty : (ToBroker(ty, o) /\ (ty # type \/ o # t)) => ToBroker(ty, o)'
      /\ \A ty \in TokenTypes : ~ToBroker(ty, t)'
  <2>1. type \in ToBrokerTypes
    BY DEF EndTypes, ToBrokerTypes
  <2> QED BY <1>1, <1>2, <2>1, ReceiveFacts
<1>4. ~ToBroker("taskaccepted", t)'
  BY <1>3 DEF TokenTypes
<1>5. /\ request' \in [Requests -> {"idle", "pending", "tasked", "done", "error",
                                    "expired", "cancelled"}]
      /\ \A u : Awaited(u) => Awaited(u)'
  BY <1>2, SettleAwaited
<1>6. RequestTypes' /\ MatchTypes' /\ TaskTypes' /\ RunnerTypes' /\ NewInv'
      /\ OffersCanBeHonoured' /\ MatchInv' /\ RunnerChannels'
  BY <1>2, <1>3, <1>5 DEF RequestTypes, MatchTypes, TaskTypes, RunnerTypes, NewInv,
              OffersCanBeHonoured, MatchInv, OneMatchPerRequest, RunnerChannels
<1>7. StageInv'
  <2> SUFFICES ASSUME NEW o \in Offers, StageOf(o) PROVE StageOf(o)'
    BY DEF StageInv
  <2>1. o # t => (Ended(o)' <=> Ended(o))
    BY <1>3 DEF Ended
  <2>2. Ended(o)' => Ended(o)
    BY <1>3 DEF Ended
  <2>3. \A ty \in {"taskoffer", "taskaccepted", "taskrejected", "taskdeferred"} :
           ToBroker(ty, o)' => ToBroker(ty, o)
    BY <1>3
  <2> QED BY <1>2, <1>4, <2>1, <2>2, <2>3, SameRunner, SamePending
          DEF StageOf, OnePlace, EarlyInv, AnsweredInv, FreshInv, KeptInv, Early,
              Offered, Matched, Answered, Settings, Cancelled
<1>8. AwaitInv'
  BY <1>2, <1>5, SameRunner DEF AwaitInv, Settings
<1> QED BY <1>3, <1>6, <1>7, <1>8

-----------------------------------------------------------------------------
(* The runners. *)

\* With fewer offers and fewer tasks the limit of a runner still holds.
LEMMA HonouredBySmaller ==
    ASSUME OffersCanBeHonoured, openOffers \subseteq Offers, NEW w \in Runners, NEW open, NEW status,
           OpenOn(w, open) \subseteq OpenOn(w, openOffers),
           RunningOn(w, status) \subseteq RunningOn(w, runningTasks)
    PROVE  Cardinality(OpenOn(w, open)) + Cardinality(RunningOn(w, status)) <= maxConcurrency
<1> DEFINE o1 == Cardinality(OpenOn(w, open))
           o2 == Cardinality(OpenOn(w, openOffers))
           r1 == Cardinality(RunningOn(w, status))
           r2 == Cardinality(RunningOn(w, runningTasks))
<1>1. /\ IsFiniteSet(OpenOn(w, openOffers)) /\ o2 \in Nat
      /\ IsFiniteSet(RunningOn(w, runningTasks)) /\ r2 \in Nat
      /\ r1 \in Nat
  BY OpenAndRunningFinite
<1>2. IsFiniteSet(OpenOn(w, open)) /\ o1 <= o2 /\ r1 <= r2
  BY <1>1, FS_Subset
<1>3. o1 \in Nat
  BY <1>2, FS_CardinalityType
<1>4. o2 + r2 <= maxConcurrency /\ maxConcurrency \in Nat
  BY TaskBrokerAssumption DEF OffersCanBeHonoured
<1> HIDE DEF o1, o2, r1, r2
<1>5. o1 + r1 <= maxConcurrency
  BY <1>1, <1>2, <1>3, <1>4
<1> QED BY <1>5 DEF o1, r1

\* No message to the broker is about an offer that was not made.
LEMMA FreshChannel ==
    ASSUME Inv, NEW o \in Offers, o[2] > offersMade[o[1]]
    PROVE  \A ty \in TokenTypes \cup EndTypes : ~ToBroker(ty, o)
<1> SUFFICES ASSUME NEW ty \in TokenTypes \cup EndTypes, ToBroker(ty, o) PROVE FALSE
  OBVIOUS
<1>1. ty \in ToBrokerTypes
  BY BrokerMessageTypes DEF Inv
<1>2. ~Offered(o) /\ ~Answered(o) /\ ~Ended(o)
  BY DEF Inv, StageInv, StageOf, FreshInv, Early
<1> QED BY <1>1, <1>2 DEF ToBrokerTypes, TokenTypes, EndTypes, Offered, Answered, Ended

(***************************************************************************)
(* After sendOffers a message is an old one, one that the handler sent, or *)
(* a new offer.                                                            *)
(***************************************************************************)
LEMMA NewOfferFacts ==
    ASSUME RunnerTypes, NEW r \in Runners, NEW status, NEW sent,
           SendEffect(r, openOffers, status, sent), NEW o \in Offers
    PROVE  /\ o[2] > offersMade'[o[1]] => o[2] > offersMade[o[1]]
           /\ \A ty : ToBroker(ty, o)' =>
                 \/ ToBroker(ty, o)
                 \/ Message(ty, o) \in ToSet(sent)
                 \/ ty = "taskoffer" /\ o[2] > offersMade[o[1]] /\ ~(o[2] > offersMade'[o[1]])
<1>1. o[1] \in Runners /\ o[2] \in Nat
  BY OfferFacts
<1>2. offersMade[o[1]] \in Nat /\ offersMade'[o[1]] \in Nat
  BY <1>1, OfferFacts DEF RunnerTypes, SendEffect
<1>3. offersMade'[o[1]] >= offersMade[o[1]]
  <2>1. CASE o[1] = r
    BY <2>1 DEF SendEffect
  <2>2. CASE o[1] # r
    <3>1. offersMade'[o[1]] = offersMade[o[1]]
      BY <1>1, <2>2 DEF SendEffect
    <3> QED BY <1>2, <3>1
  <2> QED BY <2>1, <2>2
<1>4. o[2] > offersMade'[o[1]] => o[2] > offersMade[o[1]]
  BY <1>1, <1>2, <1>3
<1>5. ASSUME NEW ty, ToBroker(ty, o)', ~ToBroker(ty, o), Message(ty, o) \notin ToSet(sent)
      PROVE  ty = "taskoffer" /\ o[2] > offersMade[o[1]] /\ ~(o[2] > offersMade'[o[1]])
  <2>1. /\ ty = "taskoffer" /\ o[1] = r
        /\ o[2] > offersMade[r] /\ o[2] <= offersMade'[r]
    BY <1>5 DEF SendEffect
  <2> QED BY <1>1, <1>2, <2>1
<1> QED BY <1>4, <1>5

\* sendOffers keeps every runner within its limit.
LEMMA SendEffectHonours ==
    ASSUME Inv, NEW r \in Runners, NEW sent, SendEffect(r, openOffers, runningTasks', sent),
           \A w \in Runners \ {r} : RunningOn(w, runningTasks') \subseteq RunningOn(w, runningTasks)
    PROVE  OffersCanBeHonoured'
<1> SUFFICES ASSUME NEW w \in Runners
             PROVE  Cardinality(OpenOn(w, openOffers'))
                    + Cardinality(RunningOn(w, runningTasks')) <= maxConcurrency
  BY DEF OffersCanBeHonoured, OpenOn, RunningOn
<1>1. CASE w = r
  BY <1>1 DEF SendEffect
<1>2. CASE w # r
  <2>1. OpenOn(w, openOffers') \subseteq OpenOn(w, openOffers)
    BY <1>2 DEF SendEffect
  <2> QED BY <1>2, <2>1, HonouredBySmaller DEF Inv, RunnerTypes
<1> QED BY <1>1, <1>2

\* OfferTick preserves the invariant.
LEMMA OfferTickInv ==
    ASSUME Inv, NEW r \in Runners, OfferTick(r)
    PROVE  Inv'
<1> USE DEF Inv
<1>1. /\ UNCHANGED <<request, taskOf, isDraining, knownRunners, pendingTaskRequests,
                     pendingTaskOffers, acceptInProgress, accepting, requestTimer, tasks,
                     taskTimer, toRunner>>
      /\ UNCHANGED <<process, canSendOffers, runningTasks>>
      /\ process[r] = "up"
      /\ sendOffers(r, openOffers, runningTasks, <<>>)
  BY DEF OfferTick, requesterVars, brokerVars, matchVars
<1>2. SendEffect(r, openOffers, runningTasks, <<>>)
  <2>1. \A o \in Offers : (o[1] = r /\ o[2] > offersMade[r]) =>
            \A ty \in TokenTypes \cup EndTypes : ~ToBroker(ty, o)
    BY FreshChannel
  <2>2. Cardinality(OpenOn(r, openOffers)) + Cardinality(RunningOn(r, runningTasks))
          <= maxConcurrency
    BY DEF OffersCanBeHonoured
  <2> DEFINE sent == <<>>
  <2>3. sent \in Seq(BrokerMessage) /\ ChannelOK(sent) /\ ToSet(sent) = {}
    BY EmptySeq, EmptyChannel
  <2>4. sendOffers(r, openOffers, runningTasks, sent)
    BY <1>1
  <2> HIDE DEF sent
  <2>5. SendEffect(r, openOffers, runningTasks, sent)
    BY <2>1, <2>2, <2>3, <2>4, SendOffersFacts DEF RunnerTypes
  <2> QED BY <2>5 DEF sent
<1>3. RequestTypes' /\ MatchTypes' /\ TaskTypes' /\ MatchInv' /\ RunnerChannels'
  BY <1>1 DEF RequestTypes, MatchTypes, TaskTypes, MatchInv, OneMatchPerRequest, RunnerChannels
<1>4. RunnerTypes' /\ BrokerChannels'
  BY <1>1, <1>2 DEF RunnerTypes, SendEffect
<1>5. NewInv'
  BY <1>1, <1>2 DEF NewInv, SendEffect
<1>6. OffersCanBeHonoured'
  <2>1. SendEffect(r, openOffers, runningTasks', <<>>)
    BY <1>1, <1>2
  <2> QED BY <1>1, <2>1, SendEffectHonours
<1>7. StageInv'
  <2> SUFFICES ASSUME NEW o \in Offers, StageOf(o) PROVE StageOf(o)'
    BY DEF StageInv
  <2>1. \A ty : ToBroker(ty, o) => ToBroker(ty, o)'
    BY <1>2 DEF SendEffect
  <2>2. /\ o[2] > offersMade'[o[1]] => o[2] > offersMade[o[1]]
        /\ \A ty : ToBroker(ty, o)' =>
              \/ ToBroker(ty, o)
              \/ ty = "taskoffer" /\ o[2] > offersMade[o[1]] /\ ~(o[2] > offersMade'[o[1]])
    BY <1>2, NewOfferFacts, EmptyChannel
  <2> QED BY <1>1, <2>1, <2>2, SameRunner, SamePending
          DEF StageOf, OnePlace, EarlyInv, AnsweredInv, FreshInv, KeptInv, Early,
              Offered, Matched, Answered, Settings, Cancelled, Ended
<1>8. AwaitInv'
  BY <1>1, SameRunner DEF AwaitInv, Settings, Awaited
<1> QED BY <1>3, <1>4, <1>5, <1>6, <1>7, <1>8

(***************************************************************************)
(* finishTask preserves the invariant if it tells the broker of the end,   *)
(* or the broker has dropped the task.                                     *)
(***************************************************************************)
LEMMA FinishTaskInv ==
    ASSUME Inv, NEW t \in Tasks, NEW sent, finishTask(t, sent),
           process[t[1]] = "up", runningTasks[t] # "none",
           \/ sent = <<>> /\ t \notin tasks /\ ~Answered(t)
           \/ \E ty \in EndTypes : sent = <<Message(ty, t)>>,
           RunnerChannels', \A o \in Offers : \A ty : ToRunner(ty, o)' => ToRunner(ty, o),
           UNCHANGED <<request, taskOf, isDraining, knownRunners, pendingTaskRequests,
                       pendingTaskOffers, acceptInProgress, accepting, requestTimer, tasks,
                       taskTimer>>,
           UNCHANGED <<process, canSendOffers>>
    PROVE  Inv'
<1> USE DEF Inv
<1>1. PICK r : r = t[1]
  OBVIOUS
<1>2. /\ r \in Runners /\ t \in Offers
      /\ runningTasks' = [runningTasks EXCEPT ![t] = "none"]
      /\ sendOffers(r, openOffers, runningTasks', sent)
  BY <1>1, OfferFacts DEF finishTask
<1>3. \A o \in Offers : runningTasks'[o] = IF o = t THEN "none" ELSE runningTasks[o]
  BY <1>2, OfferFacts DEF RunnerTypes
<1>4. \A w \in Runners : RunningOn(w, runningTasks') \subseteq RunningOn(w, runningTasks)
  BY <1>3, OfferFacts DEF RunningOn
<1>5. ~Early(t) /\ ~(t[2] > offersMade[t[1]])
  BY <1>2 DEF StageInv, StageOf, EarlyInv, FreshInv
<1>6. /\ sent \in Seq(BrokerMessage) /\ ChannelOK(sent)
      /\ \A m \in ToSet(sent) : \E ty \in EndTypes : m = Message(ty, t)
  <2>1. CASE sent = <<>>
    BY <2>1, EmptySeq, EmptyChannel
  <2>2. CASE \E ty \in EndTypes : sent = <<Message(ty, t)>>
    <3>1. PICK ty \in EndTypes : sent = <<Message(ty, t)>>
      BY <2>2
    <3> DEFINE m == Message(ty, t)
    <3>2. m \in BrokerMessage
      BY MessageFacts DEF EndTypes, ToBrokerTypes
    <3>3. sent = <<m>>
      BY <3>1
    <3> HIDE DEF m
    <3>4. sent \in Seq(BrokerMessage) /\ ChannelOK(sent) /\ ToSet(sent) = {m}
      BY <3>2, <3>3, SingletonChannel
    <3> QED BY <3>4 DEF m
  <2> QED BY <2>1, <2>2
<1>7. SendEffect(r, openOffers, runningTasks', sent)
  <2>1. \A o \in Offers : (o[1] = r /\ o[2] > offersMade[r]) =>
            \A ty \in TokenTypes \cup EndTypes : ~ToBroker(ty, o)
    BY FreshChannel
  <2>2. Cardinality(OpenOn(r, openOffers)) + Cardinality(RunningOn(r, runningTasks'))
          <= maxConcurrency
    BY <1>2, <1>4, HonouredBySmaller DEF RunnerTypes
  <2>3. \A m \in ToSet(sent) :
           m.type \in EndTypes /\ m.task[1] = r /\ m.task[2] <= offersMade[r]
    <3>1. t[2] <= offersMade[r]
      <4>1. t[2] \in Nat /\ offersMade[r] \in Nat
        BY <1>2, OfferFacts DEF RunnerTypes
      <4> QED BY <1>1, <1>5, <4>1
    <3> QED BY <1>1, <1>6, <3>1, MessageFacts
  <2>4. PICK status : status = runningTasks'
    OBVIOUS
  <2>5. SendEffect(r, openOffers, status, sent)
    BY <1>2, <1>6, <2>1, <2>2, <2>3, <2>4, SendOffersFacts DEF RunnerTypes
  <2> QED BY <2>4, <2>5
<1>8. RequestTypes' /\ MatchTypes' /\ TaskTypes' /\ MatchInv'
  BY DEF RequestTypes, MatchTypes, TaskTypes, MatchInv, OneMatchPerRequest
<1>9. RunnerTypes' /\ BrokerChannels'
  <2>1. runningTasks' \in [Tasks -> TaskStatus]
    BY <1>2 DEF RunnerTypes, TaskStatus
  <2> QED BY <1>7, <2>1 DEF RunnerTypes, SendEffect
<1>10. NewInv'
  BY <1>1, <1>7 DEF NewInv, SendEffect
<1>11. OffersCanBeHonoured'
  BY <1>2, <1>4, <1>7, SendEffectHonours
<1>12. StageInv'
  <2> SUFFICES ASSUME NEW o \in Offers, StageOf(o) PROVE StageOf(o)'
    BY DEF StageInv
  <2>1. \A ty : ToBroker(ty, o) => ToBroker(ty, o)'
    BY <1>7 DEF SendEffect
  <2>2. /\ o[2] > offersMade'[o[1]] => o[2] > offersMade[o[1]]
        /\ \A ty : ToBroker(ty, o)' =>
              \/ ToBroker(ty, o)
              \/ o = t /\ ty \in EndTypes
              \/ ty = "taskoffer" /\ o[2] > offersMade[o[1]] /\ ~(o[2] > offersMade'[o[1]])
    <3>1. \A ty : Message(ty, o) \in ToSet(sent) => o = t /\ ty \in EndTypes
      BY <1>6, MessageFacts
    <3>2. PICK status : status = runningTasks'
      OBVIOUS
    <3>3. SendEffect(r, openOffers, status, sent)
      BY <1>7, <3>2
    <3> QED BY <1>2, <3>1, <3>3, NewOfferFacts
  <2>3. Ended(t)' \/ (t \notin tasks /\ ~Answered(t))
    <3> SUFFICES ASSUME NEW ty \in EndTypes, sent = <<Message(ty, t)>> PROVE Ended(t)'
      OBVIOUS
    <3>1. Message(ty, t) \in ToSet(sent)
      <4> DEFINE m == Message(ty, t)
      <4> HIDE DEF m
      <4>1. m \in ToSet(<<m>>)
        BY SingletonChannel
      <4> QED BY <4>1 DEF m
    <3>2. ToBroker(ty, t)'
      BY <1>1, <1>2, <1>7, <3>1 DEF SendEffect
    <3> QED BY <3>2 DEF Ended, EndTypes
  <2> QED BY <1>3, <1>5, <2>1, <2>2, <2>3, SamePending
          DEF StageOf, OnePlace, EarlyInv, AnsweredInv, FreshInv, KeptInv, Early,
              Offered, Matched, Answered, Settings, Cancelled, Ended, EndTypes
<1>13. AwaitInv'
  BY <1>3, OfferFacts DEF AwaitInv, Settings, Awaited
<1> QED BY <1>8, <1>9, <1>10, <1>11, <1>12, <1>13

\* So does a step that starts no task and opens no offer.
LEMMA SameRunningHonours ==
    ASSUME Inv, UNCHANGED openOffers,
           \A o \in Offers : runningTasks'[o] # "none" => runningTasks[o] # "none"
    PROVE  OffersCanBeHonoured'
<1> SUFFICES ASSUME NEW w \in Runners
             PROVE  Cardinality(OpenOn(w, openOffers'))
                    + Cardinality(RunningOn(w, runningTasks')) <= maxConcurrency
  BY DEF OffersCanBeHonoured, OpenOn, RunningOn
<1>1. RunningOn(w, runningTasks') \subseteq RunningOn(w, runningTasks)
  BY OfferFacts DEF RunningOn
<1>2. OpenOn(w, openOffers') \subseteq OpenOn(w, openOffers)
  OBVIOUS
<1> QED BY <1>1, <1>2, HonouredBySmaller DEF Inv, RunnerTypes

\* startTaskOffers and stopTaskOffers preserve the invariant.
LEMMA OffersSwitchInv ==
    ASSUME Inv, NEW r \in Runners, startTaskOffers(r) \/ stopTaskOffers(r)
    PROVE  Inv'
<1> USE DEF Inv
<1>1. /\ UNCHANGED <<request, taskOf, isDraining, knownRunners, pendingTaskRequests,
                     pendingTaskOffers, acceptInProgress, accepting, requestTimer, tasks,
                     taskTimer, toBroker>>
      /\ UNCHANGED <<process, offersMade, openOffers, runningTasks>>
      /\ \E b \in BOOLEAN : canSendOffers' = [canSendOffers EXCEPT ![r] = b]
  BY DEF startTaskOffers, stopTaskOffers, requesterVars, brokerVars, matchVars
<1>2. PICK type \in {"runnerregistered", "drain"} : Take(r, type)
  BY DEF startTaskOffers, stopTaskOffers
<1>3. PICK t : t = Head(toRunner[r]).task
  OBVIOUS
<1>4. /\ RunnerChannels'
      /\ \A o \in Offers : \A ty : ToRunner(ty, o)' => ToRunner(ty, o)
      /\ \A o \in Offers : \A ty : (ToRunner(ty, o) /\ ty # type) => ToRunner(ty, o)'
  <2>1. type \in ToRunnerTypes
    BY DEF ToRunnerTypes
  <2> QED BY <1>2, <1>3, <2>1, TakeFacts
<1>5. RequestTypes' /\ MatchTypes' /\ TaskTypes' /\ RunnerTypes' /\ NewInv'
      /\ OffersCanBeHonoured' /\ MatchInv' /\ BrokerChannels'
  BY <1>1 DEF RequestTypes, MatchTypes, TaskTypes, RunnerTypes, NewInv,
              OffersCanBeHonoured, MatchInv, OneMatchPerRequest, BrokerChannels
<1>6. StageInv'
  <2> SUFFICES ASSUME NEW o \in Offers, StageOf(o) PROVE StageOf(o)'
    BY DEF StageInv
  <2> QED BY <1>1, <1>4, SameBroker, SamePending
          DEF StageOf, OnePlace, EarlyInv, AnsweredInv, FreshInv, KeptInv, Early,
              Offered, Matched, Answered, Settings, Cancelled, Ended
<1>7. AwaitInv'
  BY <1>1, <1>4, OfferFacts DEF AwaitInv, Settings, Awaited
<1> QED BY <1>4, <1>5, <1>6, <1>7

(***************************************************************************)
(* The effect of a runner answering about an offer on which nothing is on  *)
(* its way.                                                                *)
(***************************************************************************)
LEMMA SendToBrokerFacts ==
    ASSUME BrokerChannels, NEW t \in Tasks, NEW type \in ToBrokerTypes,
           \A ty : ~ToBroker(ty, t),
           toBroker' = [toBroker EXCEPT ![t[1]] = Append(@, Message(type, t))]
    PROVE  /\ BrokerChannels'
           /\ \A w \in Runners \ {t[1]} : toBroker'[w] = toBroker[w]
           /\ \A o \in Offers : \A ty : ToBroker(ty, o)' <=> ToBroker(ty, o) \/ (ty = type /\ o = t)
<1> DEFINE m == Message(type, t)
           s == toBroker[t[1]]
           u == <<m>>
<1>1. m \in BrokerMessage /\ t \in Offers /\ t[1] \in Runners /\ m.task = t
  BY MessageFacts, OfferFacts
<1>2. s \in Seq(BrokerMessage) /\ ChannelOK(s)
  BY <1>1 DEF BrokerChannels
<1>3. \A x \in ToSet(s) : x.task # t
  <2> SUFFICES ASSUME NEW x \in ToSet(s), x.task = t PROVE FALSE
    OBVIOUS
  <2>1. x \in BrokerMessage
    BY <1>2, ToSetType
  <2>2. x = Message(x.type, t)
    BY <2>1, MessageFacts
  <2> QED BY <2>2 DEF ToBroker
<1> HIDE DEF m, s
<1>4. u \in Seq(BrokerMessage) /\ ToSet(u) = {m} /\ ChannelOK(u)
  BY <1>1, SingletonChannel
<1>5. toBroker' = [toBroker EXCEPT ![t[1]] = Append(s, m)]
  BY DEF s, m
<1>6. Append(s, m) = s \o u
  BY <1>1, <1>2, AppendIsConcat
<1> HIDE DEF u
<1>7. s \o u \in Seq(BrokerMessage) /\ ToSet(s \o u) = ToSet(s) \cup {m} /\ ChannelOK(s \o u)
  BY <1>1, <1>2, <1>3, <1>4, ChannelConcat
<1> DEFINE c == s \o u
<1>8. c \in Seq(BrokerMessage) /\ ToSet(c) = ToSet(s) \cup {m} /\ ChannelOK(c)
      /\ toBroker' = [toBroker EXCEPT ![t[1]] = c]
  BY <1>5, <1>6, <1>7
<1> HIDE DEF c
<1>9. \A w \in Runners : toBroker'[w] = IF w = t[1] THEN c ELSE toBroker[w]
  BY <1>1, <1>8 DEF BrokerChannels
<1>10. BrokerChannels'
  <2>1. toBroker' \in [Runners -> Seq(BrokerMessage)]
    BY <1>8 DEF BrokerChannels
  <2>2. \A x \in ToSet(c) : x.task[1] = t[1]
    BY <1>1, <1>8 DEF BrokerChannels, s
  <2> QED BY <1>8, <1>9, <2>1, <2>2 DEF BrokerChannels
<1>11. ASSUME NEW o \in Offers, NEW ty
       PROVE  ToBroker(ty, o)' <=> ToBroker(ty, o) \/ (ty = type /\ o = t)
  <2>1. Message(ty, o) = m <=> ty = type /\ o = t
    BY MessageFacts DEF m
  <2>2. o[1] \in Runners
    BY OfferFacts
  <2>3. CASE o[1] = t[1]
    BY <1>8, <1>9, <2>1, <2>2, <2>3 DEF ToBroker, s
  <2>4. CASE o[1] # t[1]
    BY <1>9, <2>2, <2>4 DEF ToBroker
  <2> QED BY <2>3, <2>4
<1> QED BY <1>9, <1>10, <1>11

\* An open offer that becomes a task keeps its runner within its limit.
LEMMA OfferTaken ==
    ASSUME Inv, NEW t \in Offers, t \in openOffers, runningTasks[t] = "none",
           openOffers' = openOffers \ {t}, NEW v, v # "none",
           runningTasks' = [runningTasks EXCEPT ![t] = v]
    PROVE  OffersCanBeHonoured'
<1> SUFFICES ASSUME NEW w \in Runners
             PROVE  Cardinality(OpenOn(w, openOffers'))
                    + Cardinality(RunningOn(w, runningTasks')) <= maxConcurrency
  BY DEF OffersCanBeHonoured, OpenOn, RunningOn
<1>1. \A o \in Offers : runningTasks'[o] = IF o = t THEN v ELSE runningTasks[o]
  BY OfferFacts DEF Inv, RunnerTypes
<1>2. openOffers \subseteq Offers /\ OffersCanBeHonoured
  BY DEF Inv, RunnerTypes
<1>3. CASE w # t[1]
  <2>1. RunningOn(w, runningTasks') \subseteq RunningOn(w, runningTasks)
    BY <1>1, <1>3, OfferFacts DEF RunningOn
  <2>2. OpenOn(w, openOffers') \subseteq OpenOn(w, openOffers)
    BY DEF OpenOn
  <2> QED BY <1>2, <2>1, <2>2, HonouredBySmaller
<1>4. CASE w = t[1]
  <2> DEFINE A == OpenOn(w, openOffers)
             B == RunningOn(w, runningTasks)
  <2>1. OpenOn(w, openOffers') = A \ {t} /\ t \in A
    BY <1>4 DEF OpenOn
  <2>2. RunningOn(w, runningTasks') = B \cup {t} /\ t \notin B
    BY <1>1, <1>4, OfferFacts DEF RunningOn
  <2>3. IsFiniteSet(A) /\ Cardinality(A) \in Nat /\ IsFiniteSet(B) /\ Cardinality(B) \in Nat
    BY <1>2, OpenAndRunningFinite
  <2>4. Cardinality(A) + Cardinality(B) <= maxConcurrency
    BY <1>2 DEF OffersCanBeHonoured
  <2> HIDE DEF A, B
  <2>5. Cardinality(A \ {t}) = Cardinality(A) - 1
    BY <2>1, <2>3, FS_RemoveElement
  <2>6. Cardinality(B \cup {t}) = Cardinality(B) + 1
    BY <2>2, <2>3, FS_AddElement
  <2> DEFINE a == Cardinality(A)
             b == Cardinality(B)
  <2>7. a \in Nat /\ b \in Nat /\ a + b <= maxConcurrency /\ maxConcurrency \in Nat
    BY <2>3, <2>4, TaskBrokerAssumption
  <2> HIDE DEF a, b
  <2>8. (a - 1) + (b + 1) <= maxConcurrency
    BY <2>7
  <2> QED BY <2>1, <2>2, <2>5, <2>6, <2>8 DEF a, b
<1> QED BY <1>3, <1>4

\* offerAccepted preserves the invariant.
LEMMA OfferAcceptedInv ==
    ASSUME Inv, NEW r \in Runners, offerAccepted(r)
    PROVE  Inv'
<1> USE DEF Inv
<1>1. PICK t : t = Head(toRunner[r]).task
  OBVIOUS
<1> DEFINE ok == r \notin Launchers /\ hasOpenTaskSlots(r) /\ t \in openOffers
           answer == IF r \in Launchers THEN "taskdeferred"
                     ELSE IF ok THEN "taskaccepted" ELSE "taskrejected"
<1>2. /\ UNCHANGED <<request, taskOf, isDraining, knownRunners, pendingTaskRequests,
                     pendingTaskOffers, acceptInProgress, accepting, requestTimer, tasks,
                     taskTimer>>
      /\ UNCHANGED <<process, canSendOffers, offersMade>>
      /\ Take(r, "taskofferaccept")
      /\ openOffers' = openOffers \ {t}
      /\ runningTasks' = [runningTasks EXCEPT ![t] = IF ok THEN "waitingForSettings" ELSE @]
      /\ toBroker' = [toBroker EXCEPT ![r] = Append(@, Message(answer, t))]
  BY <1>1 DEF offerAccepted, requesterVars, brokerVars, matchVars
<1>3. /\ answer \in {"taskaccepted", "taskrejected", "taskdeferred"}
      /\ answer = "taskaccepted" => ok
      /\ ok => t \in openOffers
  OBVIOUS
<1> HIDE DEF ok, answer
<1>4. /\ t \in Tasks /\ t \in Offers /\ t[1] = r /\ Matched(t) /\ process[r] = "up"
      /\ RunnerChannels'
      /\ \A o \in Offers : \A ty : ToRunner(ty, o)' => ToRunner(ty, o)
      /\ ~Matched(t)' /\ ~Settings(t)'
  <2>1. "taskofferaccept" \in ToRunnerTypes /\ "taskofferaccept" \in TokenTypes
        /\ "tasksettings" \in TokenTypes /\ "taskofferaccept" \notin {"runnerregistered", "drain"}
    BY DEF ToRunnerTypes, TokenTypes
  <2>2. \A ty \in TokenTypes : ~ToRunner(ty, t)'
    BY <1>1, <1>2, <2>1, TakeFacts
  <2> QED BY <1>1, <1>2, <2>1, <2>2, TakeFacts, OfferFacts DEF Matched, Settings
<1>5. StageOf(t)
  BY <1>4 DEF StageInv
<1>6. /\ ~Offered(t) /\ ~Pending(t) /\ ~Answered(t) /\ ~Ended(t) /\ ~Cancelled(t)
      /\ runningTasks[t] = "none" /\ t \notin tasks
      /\ ~(t[2] > offersMade[t[1]])
  BY <1>4, <1>5 DEF StageOf, OnePlace, EarlyInv, FreshInv, Early
<1>7. \A ty : ~ToBroker(ty, t)
  <2> SUFFICES ASSUME NEW ty, ToBroker(ty, t) PROVE FALSE
    OBVIOUS
  <2>1. ty \in ToBrokerTypes
    BY <1>4, BrokerMessageTypes
  <2> QED BY <1>6, <2>1 DEF ToBrokerTypes, Offered, Answered, Ended
<1>8. /\ BrokerChannels'
      /\ \A w \in Runners \ {r} : toBroker'[w] = toBroker[w]
      /\ \A o \in Offers : \A ty : ToBroker(ty, o)' <=> ToBroker(ty, o) \/ (ty = answer /\ o = t)
  <2>1. answer \in ToBrokerTypes
    BY <1>3 DEF ToBrokerTypes
  <2> QED BY <1>2, <1>4, <1>7, <2>1, SendToBrokerFacts
<1>9. RequestTypes' /\ MatchTypes' /\ TaskTypes' /\ MatchInv'
  BY <1>2 DEF RequestTypes, MatchTypes, TaskTypes, MatchInv, OneMatchPerRequest
<1>10. RunnerTypes' /\ NewInv'
  BY <1>2, <1>4, <1>8 DEF RunnerTypes, TaskStatus, NewInv
<1>11. \A o \in Offers : runningTasks'[o] =
          IF o = t THEN IF ok THEN "waitingForSettings" ELSE "none" ELSE runningTasks[o]
  BY <1>2, <1>6, OfferFacts DEF RunnerTypes
<1>12. OffersCanBeHonoured'
  <2>1. CASE ok
    <3>1. runningTasks' = [runningTasks EXCEPT ![t] = "waitingForSettings"]
      BY <1>2, <2>1
    <3> QED BY <1>2, <1>3, <1>4, <1>6, <2>1, <3>1, OfferTaken
  <2>2. CASE ~ok
    <3> SUFFICES ASSUME NEW w \in Runners
                 PROVE  Cardinality(OpenOn(w, openOffers'))
                        + Cardinality(RunningOn(w, runningTasks')) <= maxConcurrency
      BY DEF OffersCanBeHonoured, OpenOn, RunningOn
    <3>1. RunningOn(w, runningTasks') \subseteq RunningOn(w, runningTasks)
      BY <1>6, <1>11, <2>2, OfferFacts DEF RunningOn
    <3>2. OpenOn(w, openOffers') \subseteq OpenOn(w, openOffers)
      BY <1>2 DEF OpenOn
    <3> QED BY <3>1, <3>2, HonouredBySmaller DEF RunnerTypes
  <2> QED BY <2>1, <2>2
<1>13. StageInv'
  <2> SUFFICES ASSUME NEW o \in Offers PROVE StageOf(o)'
    BY DEF StageInv
  <2>1. CASE o = t
    <3>1. \A ty : ToBroker(ty, t)' => ty = answer
      BY <1>4, <1>7, <1>8
    <3>2. ~Pending(t)'
      BY <1>2, <1>6, SamePending
    <3>3. ~Offered(t)' /\ ~Ended(t)'
      BY <1>3, <3>1 DEF Offered, Ended
    <3>4. ~Cancelled(t)'
      BY <1>4, <1>6 DEF Cancelled
    <3>5. ToBroker("taskaccepted", t)' => ok
      BY <1>3, <3>1
    <3> QED BY <1>2, <1>4, <1>6, <1>11, <2>1, <3>2, <3>3, <3>4, <3>5
            DEF StageOf, OnePlace, EarlyInv, AnsweredInv, FreshInv, KeptInv, Early
  <2>2. CASE o # t
    <3>1. \A ty : ToBroker(ty, o)' <=> ToBroker(ty, o)
      BY <1>8, <2>2
    <3>2. \A ty : ToRunner(ty, o)' => ToRunner(ty, o)
      BY <1>4
    <3>3. StageOf(o) /\ runningTasks'[o] = runningTasks[o]
      BY <1>11, <2>2 DEF StageInv
    <3> QED BY <1>2, <3>1, <3>2, <3>3, SamePending
            DEF StageOf, OnePlace, EarlyInv, AnsweredInv, FreshInv, KeptInv, Early,
                Offered, Matched, Answered, Settings, Cancelled, Ended
  <2> QED BY <2>1, <2>2
<1>14. AwaitInv'
  BY <1>2, <1>4, <1>11, OfferFacts DEF AwaitInv, Settings, Awaited
<1> QED BY <1>4, <1>8, <1>9, <1>10, <1>12, <1>13, <1>14

\* A task that starts, or is being aborted, preserves the invariant.
LEMMA StatusInv ==
    ASSUME Inv, NEW t \in Offers, NEW v \in {"running", "aborting:cancelled", "aborting:timeout"},
           runningTasks[t] # "none", runningTasks' = [runningTasks EXCEPT ![t] = v],
           ~Answered(t), ~Settings(t)', Awaited(t),
           v = "aborting:cancelled" => t \notin tasks,
           RunnerChannels', \A o \in Offers : \A ty : ToRunner(ty, o)' => ToRunner(ty, o),
           UNCHANGED <<request, taskOf, isDraining, knownRunners, pendingTaskRequests,
                       pendingTaskOffers, acceptInProgress, accepting, requestTimer, tasks,
                       taskTimer, toBroker>>,
           UNCHANGED <<process, canSendOffers, offersMade, openOffers>>
    PROVE  Inv'
<1> USE DEF Inv
<1>1. \A o \in Offers : runningTasks'[o] = IF o = t THEN v ELSE runningTasks[o]
  BY OfferFacts DEF RunnerTypes
<1>2. RequestTypes' /\ MatchTypes' /\ TaskTypes' /\ MatchInv' /\ RunnerTypes' /\ NewInv'
      /\ BrokerChannels'
  BY DEF RequestTypes, MatchTypes, TaskTypes, MatchInv, OneMatchPerRequest, RunnerTypes,
         TaskStatus, NewInv, BrokerChannels
<1>3. OffersCanBeHonoured'
  BY <1>1, SameRunningHonours
<1>4. StageInv'
  <2> SUFFICES ASSUME NEW o \in Offers, StageOf(o) PROVE StageOf(o)'
    BY DEF StageInv
  <2> QED BY <1>1, SameBroker, SamePending
          DEF StageOf, OnePlace, EarlyInv, AnsweredInv, FreshInv, KeptInv, Early,
              Offered, Matched, Answered, Settings, Cancelled, Ended
<1>5. \A u : Awaited(u)' <=> Awaited(u)
  BY DEF Awaited
<1>6. AwaitInv'
  BY <1>1, <1>5, OfferFacts DEF AwaitInv, Settings
<1> QED BY <1>2, <1>3, <1>4, <1>6

\* So does a message that a runner takes and ignores.
LEMMA UntouchedInv ==
    ASSUME Inv, RunnerChannels', \A o \in Offers : \A ty : ToRunner(ty, o)' => ToRunner(ty, o),
           UNCHANGED <<request, taskOf, isDraining, knownRunners, pendingTaskRequests,
                       pendingTaskOffers, acceptInProgress, accepting, requestTimer, tasks,
                       taskTimer, toBroker>>,
           UNCHANGED <<process, canSendOffers, offersMade, openOffers, runningTasks>>
    PROVE  Inv'
<1> USE DEF Inv
<1>1. RequestTypes' /\ MatchTypes' /\ TaskTypes' /\ MatchInv' /\ RunnerTypes' /\ NewInv'
      /\ BrokerChannels' /\ OffersCanBeHonoured'
  BY DEF RequestTypes, MatchTypes, TaskTypes, MatchInv, OneMatchPerRequest, RunnerTypes,
         NewInv, BrokerChannels, OffersCanBeHonoured
<1>2. StageInv'
  <2> SUFFICES ASSUME NEW o \in Offers, StageOf(o) PROVE StageOf(o)'
    BY DEF StageInv
  <2> QED BY SameBroker, SamePending
          DEF StageOf, OnePlace, EarlyInv, AnsweredInv, FreshInv, KeptInv, Early,
              Offered, Matched, Answered, Settings, Cancelled, Ended
<1>3. AwaitInv'
  BY OfferFacts DEF AwaitInv, Settings, Awaited
<1> QED BY <1>1, <1>2, <1>3

\* receivedSettings preserves the invariant.
LEMMA ReceivedSettingsInv ==
    ASSUME Inv, NEW r \in Runners, receivedSettings(r)
    PROVE  Inv'
<1>1. PICK t : t = Head(toRunner[r]).task
  OBVIOUS
<1>2. /\ UNCHANGED <<request, taskOf, isDraining, knownRunners, pendingTaskRequests,
                     pendingTaskOffers, acceptInProgress, accepting, requestTimer, tasks,
                     taskTimer, toBroker>>
      /\ UNCHANGED <<process, canSendOffers, offersMade, openOffers>>
      /\ Take(r, "tasksettings")
      /\ runningTasks' = [runningTasks EXCEPT ![t] =
                             IF @ = "waitingForSettings" THEN "running" ELSE @]
  BY <1>1 DEF receivedSettings, requesterVars, brokerVars, matchVars
<1>3. /\ t \in Tasks /\ t \in Offers /\ Settings(t)
      /\ RunnerChannels'
      /\ \A o \in Offers : \A ty : ToRunner(ty, o)' => ToRunner(ty, o)
      /\ ~Settings(t)'
  <2>1. "tasksettings" \in ToRunnerTypes /\ "tasksettings" \in TokenTypes
        /\ "tasksettings" \notin {"runnerregistered", "drain"} /\ RunnerChannels
    BY DEF ToRunnerTypes, TokenTypes, Inv
  <2> QED BY <1>1, <1>2, <2>1, TakeFacts, OfferFacts DEF Settings
<1>4. ~Answered(t) /\ Awaited(t)
  BY <1>3 DEF Inv, StageInv, StageOf, OnePlace, AwaitInv
<1>5. CASE runningTasks[t] = "waitingForSettings"
  <2>1. runningTasks' = [runningTasks EXCEPT ![t] = "running"]
    BY <1>2, <1>5
  <2> QED BY <1>2, <1>3, <1>4, <1>5, <2>1, StatusInv
<1>6. CASE runningTasks[t] # "waitingForSettings"
  <2>1. runningTasks' = runningTasks
    BY <1>2, <1>6 DEF Inv, RunnerTypes
  <2> QED BY <1>2, <1>3, <2>1, UntouchedInv
<1> QED BY <1>5, <1>6

\* taskCancelled preserves the invariant.
LEMMA TaskCancelledInv ==
    ASSUME Inv, NEW r \in Runners, taskCancelled(r)
    PROVE  Inv'
<1>1. PICK t : t = Head(toRunner[r]).task
  OBVIOUS
<1>2. /\ UNCHANGED <<request, taskOf, isDraining, knownRunners, pendingTaskRequests,
                     pendingTaskOffers, acceptInProgress, accepting, requestTimer, tasks,
                     taskTimer>>
      /\ UNCHANGED <<process, canSendOffers>>
      /\ Take(r, "taskcancel")
  BY DEF taskCancelled, requesterVars, brokerVars, matchVars
<1>3. /\ t \in Tasks /\ t \in Offers /\ Cancelled(t) /\ process[t[1]] = "up"
      /\ RunnerChannels'
      /\ \A o \in Offers : \A ty : ToRunner(ty, o)' => ToRunner(ty, o)
  <2>1. "taskcancel" \in ToRunnerTypes /\ "taskcancel" \notin {"runnerregistered", "drain"}
        /\ RunnerChannels
    BY DEF ToRunnerTypes, Inv
  <2> QED BY <1>1, <1>2, <2>1, TakeFacts, OfferFacts DEF Cancelled
<1>4. ~Answered(t) /\ t \notin tasks
  BY <1>3 DEF Inv, StageInv, StageOf, AnsweredInv, KeptInv
<1>5. CASE runningTasks[t] = "waitingForSettings"
  <2>1. finishTask(t, <<>>)
    BY <1>1, <1>5 DEF taskCancelled
  <2> QED BY <1>2, <1>3, <1>4, <1>5, <2>1, FinishTaskInv
<1>6. CASE runningTasks[t] # "waitingForSettings"
  <2>1. /\ runningTasks' = [runningTasks EXCEPT ![t] =
                              IF @ = "running" THEN "aborting:cancelled" ELSE @]
        /\ UNCHANGED <<offersMade, openOffers, toBroker>>
    BY <1>1, <1>6 DEF taskCancelled
  <2>2. CASE runningTasks[t] = "running"
    <3>1. runningTasks' = [runningTasks EXCEPT ![t] = "aborting:cancelled"]
      BY <2>1, <2>2
    <3>2. ~Settings(t) /\ Awaited(t)
      BY <1>3, <2>2 DEF Inv, StageInv, StageOf, AnsweredInv, AwaitInv
    <3>3. ~Settings(t)'
      BY <1>3, <3>2 DEF Settings
    <3> QED BY <1>2, <1>3, <1>4, <2>1, <2>2, <3>1, <3>2, <3>3, StatusInv
  <2>3. CASE runningTasks[t] # "running"
    <3>1. runningTasks' = runningTasks
      BY <2>1, <2>3 DEF Inv, RunnerTypes
    <3> QED BY <1>2, <1>3, <2>1, <3>1, UntouchedInv
  <2> QED BY <2>2, <2>3
<1> QED BY <1>5, <1>6

\* taskTimedOut preserves the invariant.
LEMMA TaskTimedOutInv ==
    ASSUME Inv, NEW t \in Tasks, taskTimedOut(t)
    PROVE  Inv'
<1>1. /\ UNCHANGED <<request, taskOf, isDraining, knownRunners, pendingTaskRequests,
                     pendingTaskOffers, acceptInProgress, accepting, requestTimer, tasks,
                     taskTimer, toRunner>>
      /\ UNCHANGED <<process, canSendOffers>>
      /\ process[t[1]] = "up"
  BY DEF taskTimedOut, requesterVars, brokerVars, matchVars
<1>2. RunnerChannels' /\ t \in Offers
      /\ \A o \in Offers : \A ty : ToRunner(ty, o)' => ToRunner(ty, o)
  BY <1>1, SameRunner, OfferFacts DEF Inv, RunnerChannels
<1>3. CASE runningTasks[t] = "waitingForSettings" /\ finishTask(t, <<Message("taskerror", t)>>)
  <2>1. "taskerror" \in EndTypes
    BY DEF EndTypes
  <2> DEFINE sent == <<Message("taskerror", t)>>
  <2>2. finishTask(t, sent) /\ \E ty \in EndTypes : sent = <<Message(ty, t)>>
    BY <1>3, <2>1
  <2> HIDE DEF sent
  <2> QED BY <1>1, <1>2, <1>3, <2>2, FinishTaskInv
<1>4. CASE /\ runningTasks[t] = "running"
           /\ runningTasks' = [runningTasks EXCEPT ![t] = "aborting:timeout"]
           /\ UNCHANGED <<offersMade, openOffers, toBroker>>
  <2>1. ~Settings(t) /\ ~Answered(t) /\ Awaited(t)
    BY <1>2, <1>4 DEF Inv, StageInv, StageOf, AnsweredInv, AwaitInv
  <2>2. ~Settings(t)'
    BY <1>1, <2>1, SameRunner DEF Settings
  <2> QED BY <1>1, <1>2, <1>4, <2>1, <2>2, StatusInv
<1> QED BY <1>3, <1>4 DEF taskTimedOut

\* TaskExecutionEnds preserves the invariant.
LEMMA TaskExecutionEndsInv ==
    ASSUME Inv, NEW t \in Tasks, TaskExecutionEnds(t)
    PROVE  Inv'
<1>1. /\ UNCHANGED <<request, taskOf, isDraining, knownRunners, pendingTaskRequests,
                     pendingTaskOffers, acceptInProgress, accepting, requestTimer, tasks,
                     taskTimer, toRunner>>
      /\ UNCHANGED <<process, canSendOffers>>
      /\ process[t[1]] = "up"
      /\ runningTasks[t] \notin {"none", "waitingForSettings"}
  BY DEF TaskExecutionEnds, requesterVars, brokerVars, matchVars
<1>2. RunnerChannels' /\ t \in Offers
      /\ \A o \in Offers : \A ty : ToRunner(ty, o)' => ToRunner(ty, o)
  BY <1>1, SameRunner, OfferFacts DEF Inv, RunnerChannels
<1>3. PICK type \in EndTypes :
        finishTask(t, IF runningTasks[t] = "aborting:cancelled" THEN <<>>
                      ELSE <<Message(type, t)>>)
  BY DEF TaskExecutionEnds, EndTypes
<1>4. CASE runningTasks[t] = "aborting:cancelled"
  <2>1. finishTask(t, <<>>)
    BY <1>3, <1>4
  <2>2. t \notin tasks /\ ~Answered(t)
    BY <1>2, <1>4 DEF Inv, StageInv, StageOf, AnsweredInv, KeptInv
  <2> QED BY <1>1, <1>2, <2>1, <2>2, FinishTaskInv
<1>5. CASE runningTasks[t] # "aborting:cancelled"
  <2> DEFINE sent == <<Message(type, t)>>
  <2>1. finishTask(t, sent) /\ \E ty \in EndTypes : sent = <<Message(ty, t)>>
    BY <1>3, <1>5
  <2> HIDE DEF sent
  <2> QED BY <1>1, <1>2, <2>1, FinishTaskInv
<1> QED BY <1>4, <1>5

-----------------------------------------------------------------------------
(* The theorems. *)

\* The invariant holds initially.
LEMMA InitInv == Init => Inv
<1> SUFFICES ASSUME Init PROVE Inv
  OBVIOUS
<1> USE DEF Init
<1>1. RequestTypes /\ TaskTypes
  BY EmptySeq DEF RequestTypes, TaskTypes
<1>2. MatchTypes
  BY EmptySeq, EmptyChannel DEF MatchTypes
<1>3. RunnerTypes
  BY OfferFacts DEF RunnerTypes, TaskStatus
<1>4. RunnerChannels /\ BrokerChannels
  BY EmptySeq, EmptyChannel DEF RunnerChannels, BrokerChannels
<1>5. NewInv /\ MatchInv
  BY DEF NewInv, MatchInv, OneMatchPerRequest
<1>6. \A o \in Offers : \A ty : ~ToBroker(ty, o) /\ ~ToRunner(ty, o)
  BY OfferFacts, EmptyChannel DEF ToBroker, ToRunner
<1>7. \A o \in Offers : ~Pending(o) /\ runningTasks[o] = "none" /\ o \notin tasks /\ accepting[o] = None
  BY OfferFacts, EmptyChannel DEF Pending
<1>8. StageInv
  <2> SUFFICES ASSUME NEW o \in Offers PROVE StageOf(o)
    BY DEF StageInv
  <2> QED BY <1>6, <1>7
          DEF StageOf, OnePlace, EarlyInv, AnsweredInv, FreshInv, KeptInv, Early,
              Offered, Matched, Answered, Settings, Cancelled, Ended
<1>9. AwaitInv
  BY <1>6, <1>7, OfferFacts DEF AwaitInv, Settings
<1>10. OffersCanBeHonoured
  <2> SUFFICES ASSUME NEW r \in Runners
               PROVE  Cardinality(OpenOn(r, openOffers))
                      + Cardinality(RunningOn(r, runningTasks)) <= maxConcurrency
    BY DEF OffersCanBeHonoured
  <2>1. OpenOn(r, openOffers) = {} /\ RunningOn(r, runningTasks) = {}
    BY <1>7, OfferFacts DEF OpenOn, RunningOn
  <2>2. Cardinality({}) = 0
    BY FS_EmptySet
  <2>3. maxConcurrency \in Nat /\ 0 + 0 <= maxConcurrency
    BY TaskBrokerAssumption
  <2>4. /\ Cardinality(OpenOn(r, openOffers)) = 0
        /\ Cardinality(RunningOn(r, runningTasks)) = 0
    BY <2>1, <2>2
  <2> QED BY <2>3, <2>4
<1> QED BY <1>1, <1>2, <1>3, <1>4, <1>5, <1>8, <1>9, <1>10 DEF Inv

\* A step that changes nothing preserves it.
LEMMA StutterInv == ASSUME Inv, UNCHANGED vars PROVE Inv'
<1>1. /\ UNCHANGED <<request, taskOf, isDraining, knownRunners, pendingTaskRequests,
                     pendingTaskOffers, acceptInProgress, accepting, requestTimer, tasks,
                     taskTimer, toBroker>>
      /\ UNCHANGED <<process, canSendOffers, offersMade, openOffers, runningTasks>>
      /\ UNCHANGED toRunner
  BY DEF vars, requesterVars, brokerVars, matchVars, runnerVars
<1>2. RunnerChannels' /\ \A o \in Offers : \A ty : ToRunner(ty, o)' => ToRunner(ty, o)
  BY <1>1, SameRunner DEF Inv, RunnerChannels
<1> QED BY <1>1, <1>2, UntouchedInv

\* Every delivery of a message preserves it.
LEMMA DeliverInv ==
    ASSUME Inv, NEW r \in Runners, Deliver(r)
    PROVE  Inv'
<1>1. CASE taskOffered(r)
  BY <1>1, TaskOfferedInv
<1>2. CASE handleRunnerAccept(r)
  BY <1>2, RunnerAcceptInv
<1>3. CASE handleRunnerReject(r)
  BY <1>3, RunnerRejectInv
<1>4. CASE handleRunnerDeferred(r)
  BY <1>4, RunnerDeferredInv
<1>5. CASE taskDoneHandler(r)
  BY <1>5, TaskEndedInv DEF taskDoneHandler, EndTypes
<1>6. CASE taskErrorHandler(r)
  BY <1>6, TaskEndedInv DEF taskErrorHandler, EndTypes
<1>7. CASE startTaskOffers(r) \/ stopTaskOffers(r)
  BY <1>7, OffersSwitchInv
<1>8. CASE offerAccepted(r)
  BY <1>8, OfferAcceptedInv
<1>9. CASE receivedSettings(r)
  BY <1>9, ReceivedSettingsInv
<1>10. CASE taskCancelled(r)
  BY <1>10, TaskCancelledInv
<1> QED BY <1>1, <1>2, <1>3, <1>4, <1>5, <1>6, <1>7, <1>8, <1>9, <1>10 DEF Deliver

\* Every step preserves it.
LEMMA NextInv == Inv /\ [Next]_vars => Inv'
<1> SUFFICES ASSUME Inv, [Next]_vars PROVE Inv'
  OBVIOUS
<1>1. ASSUME NEW q \in Requests, StartTask(q) PROVE Inv'
  BY <1>1, StartTaskInv
<1>2. ASSUME NEW q \in Requests, handleRequestTimeout(q) PROVE Inv'
  BY <1>2, RequestTimeoutInv
<1>3. ASSUME NEW q \in Requests, CancelTask(q) PROVE Inv'
  BY <1>3, CancelTaskInv
<1>4. ASSUME NEW o \in Offers, AcceptTimeout(o) PROVE Inv'
  BY <1>4, AcceptTimeoutInv
<1>5. ASSUME NEW r \in Runners, registerRunner(r) PROVE Inv'
  BY <1>5, RegisterInv
<1>6. ASSUME NEW r \in Runners, deregisterRunner(r) PROVE Inv'
  BY <1>6, DeregisterInv
<1>7. ASSUME NEW r \in Runners, RunnerExits(r) PROVE Inv'
  BY <1>7, RunnerExitsInv
<1>8. ASSUME NEW r \in Runners, Deliver(r) PROVE Inv'
  BY <1>8, DeliverInv
<1>9. ASSUME NEW r \in Runners, OfferTick(r) PROVE Inv'
  BY <1>9, OfferTickInv
<1>10. ASSUME NEW t \in Tasks, handleTaskTimeout(t) PROVE Inv'
  BY <1>10, TaskTimeoutInv
<1>11. ASSUME NEW t \in Tasks, taskTimedOut(t) PROVE Inv'
  BY <1>11, TaskTimedOutInv
<1>12. ASSUME NEW t \in Tasks, TaskExecutionEnds(t) PROVE Inv'
  BY <1>12, TaskExecutionEndsInv
<1>13. ASSUME startDraining PROVE Inv'
  BY <1>13, StartDrainingInv
<1>14. CASE UNCHANGED vars
  BY <1>14, StutterInv
<1> QED BY <1>1, <1>2, <1>3, <1>4, <1>5, <1>6, <1>7, <1>8, <1>9, <1>10, <1>11, <1>12,
           <1>13, <1>14 DEF Next

\* The invariant holds always.
LEMMA InvHolds == Spec => []Inv
BY InitInv, NextInv, PTL DEF Spec

\* It implies type correctness.
LEMMA InvTypes == Inv => TypeOK
BY DEF Inv, RequestTypes, MatchTypes, TaskTypes, RunnerTypes, RunnerChannels,
       BrokerChannels, RunnerMessage, BrokerMessage, TypeOK

\* It implies that no task is forgotten.
LEMMA InvKept == Inv => NoOrphanTask
<1> SUFFICES ASSUME Inv, NEW t \in tasks
             PROVE  /\ t[1] \in knownRunners
                    /\ process[t[1]] = "up" =>
                          \/ runningTasks[t] # "none"
                          \/ \E i \in DOMAIN toBroker[t[1]] :
                                /\ toBroker[t[1]][i].task = t
                                /\ toBroker[t[1]][i].type \in {"taskdone", "taskerror"}
  BY DEF NoOrphanTask
<1>1. t \in Offers
  BY OfferFacts DEF Inv, TaskTypes
<1>2. /\ t[1] \in knownRunners
      /\ process[t[1]] = "up" => runningTasks[t] # "none" \/ Ended(t)
  BY <1>1 DEF Inv, StageInv, StageOf, KeptInv
<1>3. ASSUME Ended(t)
      PROVE  \E i \in DOMAIN toBroker[t[1]] :
                /\ toBroker[t[1]][i].task = t
                /\ toBroker[t[1]][i].type \in {"taskdone", "taskerror"}
  <2>1. PICK ty \in {"taskdone", "taskerror"} : ToBroker(ty, t)
    BY <1>3 DEF Ended
  <2>2. PICK i \in DOMAIN toBroker[t[1]] : toBroker[t[1]][i] = Message(ty, t)
    BY <2>1 DEF ToBroker, ToSet
  <2> QED BY <2>2, MessageFacts
<1> QED BY <1>2, <1>3

\* It implies that settings are expected.
LEMMA InvSettings == Inv => SettingsAreExpected
<1> SUFFICES ASSUME Inv, NEW r \in Runners, toRunner[r] # <<>>,
                    Head(toRunner[r]).type = "tasksettings"
             PROVE  runningTasks[Head(toRunner[r]).task] \in {"none", "waitingForSettings"}
  BY DEF SettingsAreExpected
<1>1. RunnerChannels
  BY DEF Inv
<1> DEFINE s == toRunner[r]
           m == Head(s)
<1>2. s \in Seq(RunnerMessage) /\ ChannelOK(s) /\ s # <<>>
  BY <1>1 DEF RunnerChannels
<1> HIDE DEF s
<1>3. m \in RunnerMessage /\ m \in ToSet(s)
  BY <1>2, ChannelTail
<1>4. m.type = "tasksettings"
  BY DEF s
<1>5. m.task \in Tasks /\ m.task[1] = r
  BY <1>1, <1>3, <1>4 DEF RunnerChannels, s
<1>6. m = Message("tasksettings", m.task)
  BY <1>3, <1>4, MessageFacts
<1>7. Settings(m.task)
  BY <1>3, <1>5, <1>6 DEF Settings, ToRunner, s
<1>8. runningTasks[m.task] \in {"none", "waitingForSettings"}
  BY <1>5, <1>7, OfferFacts DEF Inv, StageInv, StageOf, AnsweredInv
<1> QED BY <1>8 DEF s

(***************************************************************************)
(* Every variable of the task broker, its requester and its runners has    *)
(* its type, and a timeout runs only for a task the broker has.            *)
(***************************************************************************)
THEOREM TypeCorrect == Spec => []TypeOK
BY InvHolds, InvTypes, PTL

(***************************************************************************)
(* Whatever is accepted, rejected, cancelled or timed out, the open offers *)
(* and the tasks of a runner (sendOffers, offerAccepted, finishTask) never *)
(* exceed its maxConcurrency.                                              *)
(***************************************************************************)
THEOREM OffersAreHonoured == Spec => []OffersCanBeHonoured
<1>1. Inv => OffersCanBeHonoured
  BY DEF Inv
<1> QED BY <1>1, InvHolds, PTL

(***************************************************************************)
(* A task in the broker's list has a known runner that, while it lives,    *)
(* has the task or has sent its end: no loss of a connection, late         *)
(* acceptance or timeout leaves a task that nobody ends.                   *)
(***************************************************************************)
THEOREM TasksAreKept == Spec => []NoOrphanTask
BY InvHolds, InvKept, PTL

(***************************************************************************)
(* broker:tasksettings finds the task waiting for its settings or gone, so *)
(* that the states in which receivedSettings "should never" be called do   *)
(* not occur.                                                              *)
(***************************************************************************)
THEOREM SettingsExpected == Spec => []SettingsAreExpected
BY InvHolds, InvSettings, PTL

(***************************************************************************)
(* A runner executes code only for a startTask that was given this task by *)
(* taskReady, so none for a request that expired, and no request on two    *)
(* runners.                                                                *)
(***************************************************************************)
THEOREM OnlyAwaitedRun == Spec => []OnlyAwaitedTasksRun
<1>1. Inv => OnlyAwaitedTasksRun
  BY DEF Inv, AwaitInv, Awaited, OnlyAwaitedTasksRun
<1> QED BY <1>1, InvHolds, PTL

(***************************************************************************)
(* settleTasks and the handlers of the answers never have two acceptOffer  *)
(* under way for one request, for every list of requests and offers.       *)
(***************************************************************************)
THEOREM MatchedOnce == Spec => []OneMatchPerRequest
<1>1. Inv => OneMatchPerRequest
  BY DEF Inv, MatchInv
<1> QED BY <1>1, InvHolds, PTL
=============================================================================
