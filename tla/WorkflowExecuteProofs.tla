----------------------- MODULE WorkflowExecuteProofs -----------------------
(***************************************************************************)
(* Proofs about WorkflowExecute, for every set of workflows.               *)
(***************************************************************************)
EXTENDS WorkflowExecute, FiniteSetTheorems, SequenceTheorems, TLAPS

Looping == {"loop", "running", "adding", "after", "destination", "settling"}

\* How often the hook workflowExecuteAfter has run is known at every point of the
\* engine: before the end only a cancellation has run it; while it runs at the
\* end, a cancellation runs it once more.
HookInv ==
    /\ phase \in Phases
    /\ aborted \in BOOLEAN
    /\ executionError \in {"none", "error", "canceled"}
    /\ status \in Statuses
    /\ afterHooks \in Seq(Statuses)
    /\ phase \in Looping /\ aborted => Len(afterHooks) = 1
    /\ phase \in Looping /\ ~aborted => Len(afterHooks) = 0
    /\ phase = "saving" /\ aborted => Len(afterHooks) = 2 /\ afterHooks[2] = "canceled"
    /\ phase = "saving" /\ ~aborted => Len(afterHooks) = 1
    /\ phase = "ended" => \/ Len(afterHooks) = 1
                          \/ Len(afterHooks) = 2 /\ aborted /\ afterHooks[2] = "canceled"

\* The hook has not run when the engine starts.
LEMMA InitHook == Init => HookInv
<1> SUFFICES ASSUME Init
             PROVE  HookInv
  OBVIOUS
<1>1. << >> \in Seq(Statuses) /\ Len(<< >>) = 0
  OBVIOUS
<1> QED
  BY <1>1 DEF Init, HookInv, Phases, Statuses, Looping

\* What one more call of the hook does to the list of its calls.
LEMMA HookCalled ==
    ASSUME NEW h \in Seq(Statuses), NEW s \in Statuses
    PROVE  /\ Append(h, s) \in Seq(Statuses)
           /\ Len(Append(h, s)) = Len(h) + 1
           /\ Append(h, s)[Len(h) + 1] = s
  OBVIOUS

\* Steps of the loop leave the calls of the hook alone and stay before the end.
LEMMA LoopStepHook ==
    ASSUME HookInv, phase \in Looping \ {"settling"}, phase' \in Looping,
           executionError' \in {"none", "error", "canceled"}, status' \in Statuses,
           aborted' = aborted, afterHooks' = afterHooks
    PROVE  HookInv'
  BY DEF HookInv, Phases, Looping

\* Every step keeps the count of the hook's calls.
LEMMA NextHook == HookInv /\ [Next]_vars => HookInv'
<1> SUFFICES ASSUME HookInv, [Next]_vars
             PROVE  HookInv'
  OBVIOUS
<1>1. CASE LoopEnds
  BY <1>1, LoopStepHook DEF LoopEnds, Looping, HookInv
<1>2. CASE Timeout
  BY <1>2, LoopStepHook DEF Timeout, Looping, HookInv, Statuses
<1>3. CASE SkipNode
  BY <1>3, LoopStepHook DEF SkipNode, TakeEntry, Looping, HookInv
<1>4. CASE StartNode
  BY <1>4, LoopStepHook DEF StartNode, TakeEntry, Looping, HookInv
<1>5. ASSUME NEW outs \in SUBSET Outputs(current.node), Succeed(outs)
      PROVE  HookInv'
  BY <1>5, LoopStepHook DEF Succeed, Record, Looping, HookInv
<1>6. CASE ContinueOnFail
  BY <1>6, LoopStepHook DEF ContinueOnFail, Record, Looping, HookInv
<1>7. CASE ReturnNull
  BY <1>7, LoopStepHook DEF ReturnNull, Looping, HookInv
<1>8. ASSUME NEW e \in {"error", "canceled"}, FailNode(e)
      PROVE  HookInv'
  BY <1>8, LoopStepHook DEF FailNode, PutBack, Looping, HookInv
<1>9. CASE PutToWait
  BY <1>9, LoopStepHook DEF PutToWait, PutBack, Looping, HookInv
<1>10. ASSUME NEW c \in wf.connections, AddNode(c)
       PROVE  HookInv'
  BY <1>10, LoopStepHook DEF AddNode, engineVars, Looping, HookInv
<1>11. CASE AllAdded
  BY <1>11, LoopStepHook DEF AllAdded, Looping, HookInv
<1>12. CASE NodeDone
  BY <1>12, LoopStepHook DEF NodeDone, Looping, HookInv
<1>13. CASE DestinationDone
  BY <1>13, LoopStepHook DEF DestinationDone, Looping, HookInv
<1>14. CASE Settle
  <2>1. FinalStatus \in Statuses
    BY DEF FinalStatus, Statuses, HookInv
  <2>2. CASE aborted
    BY <1>14, <2>1, <2>2 DEF Settle, HookInv, Phases, Looping
  <2>3. CASE ~aborted
    <3>1. /\ afterHooks \in Seq(Statuses) /\ Len(afterHooks) = 0
          /\ afterHooks' = Append(afterHooks, FinalStatus)
      BY <1>14, <2>3 DEF Settle, HookInv, Looping
    <3>2. /\ afterHooks' \in Seq(Statuses)
          /\ Len(afterHooks') = 1
      BY <2>1, <3>1, HookCalled
    <3> QED
      BY <1>14, <2>1, <2>3, <3>2 DEF Settle, HookInv, Phases, Looping
  <2> QED
    BY <2>2, <2>3
<1>15. CASE Saved
  BY <1>15 DEF Saved, HookInv, Phases, Looping
<1>16. CASE Cancel
  <2>1. "canceled" \in Statuses
    BY DEF Statuses
  <2>2. CASE phase = "saving"
    <3>1. /\ afterHooks \in Seq(Statuses) /\ Len(afterHooks) = 1
          /\ afterHooks' = Append(afterHooks, "canceled")
      BY <1>16, <2>2 DEF Cancel, HookInv
    <3>2. /\ afterHooks' \in Seq(Statuses)
          /\ Len(afterHooks') = Len(afterHooks) + 1
          /\ afterHooks'[Len(afterHooks) + 1] = "canceled"
      BY <2>1, <3>1, HookCalled
    <3>3. /\ afterHooks' \in Seq(Statuses)
          /\ Len(afterHooks') = 2 /\ afterHooks'[2] = "canceled"
      BY <3>1, <3>2
    <3> QED
      BY <1>16, <2>1, <2>2, <3>3 DEF Cancel, HookInv, Phases, Looping
  <2>3. CASE phase # "saving"
    <3>1. phase \in Looping /\ ~aborted
      BY <1>16, <2>3 DEF Cancel, Looping
    <3>2. /\ afterHooks \in Seq(Statuses) /\ Len(afterHooks) = 0
          /\ afterHooks' = Append(afterHooks, "canceled")
      BY <1>16, <3>1 DEF Cancel, HookInv
    <3>3. /\ afterHooks' \in Seq(Statuses)
          /\ Len(afterHooks') = 1
      BY <2>1, <3>2, HookCalled
    <3> QED
      BY <1>16, <2>1, <3>1, <3>3 DEF Cancel, HookInv, Phases, Looping
  <2> QED
    BY <2>2, <2>3
<1>17. ASSUME Restart
       PROVE  HookInv'
  <2>1. afterHooks' \in Seq(Statuses) /\ Len(afterHooks') = 0
    BY <1>17 DEF Restart
  <2> QED
    BY <1>17, <2>1 DEF Restart, HookInv, Phases, Looping, Statuses
<1>18. CASE Resume \/ Retry
  BY <1>17, <1>18 DEF Resume, Retry
<1>19. CASE UNCHANGED vars
  BY <1>19 DEF vars, engineVars, HookInv
<1> QED
  BY <1>1, <1>2, <1>3, <1>4, <1>5, <1>6, <1>7, <1>8, <1>9, <1>10, <1>11, <1>12, <1>13, <1>14,
     <1>15, <1>16, <1>17, <1>18, <1>19 DEF Next, EngineStep

\* Every number the list of calls can be long is within the bound.
LEMMA AtMostTwo == ASSUME NEW n, n \in {0, 1, 2} PROVE n <= 2
  OBVIOUS

\* The end of an execution is reported exactly once to workflowExecuteAfter, for
\* all workflows; a second report needs a cancellation while the hook is running.
THEOREM EndReportedOnce == Spec => []ReportedOnce
<1>1. ASSUME HookInv
      PROVE  ReportedOnce
  <2>1. ASSUME phase = "ended"
        PROVE  afterHooks # << >>
    <3>1. Len(<< >>) = 0
      OBVIOUS
    <3>2. Len(afterHooks) = 1 \/ Len(afterHooks) = 2
      BY <1>1, <2>1 DEF HookInv
    <3>3. Len(afterHooks) # 0
      BY <3>2
    <3> QED
      BY <3>1, <3>3
  <2>2. Len(afterHooks) \in {0, 1, 2}
    BY <1>1 DEF HookInv, Phases, Looping
  <2>3. ASSUME Len(afterHooks) = 2
        PROVE  aborted /\ afterHooks[2] = "canceled" /\ phase \in {"saving", "ended"}
    <3>1. phase \notin Looping
      BY <1>1, <2>3 DEF HookInv
    <3> QED
      BY <1>1, <2>3, <3>1 DEF HookInv, Phases, Looping
  <2>4. Len(afterHooks) <= 2
    BY <2>2, AtMostTwo
  <2> QED
    BY <2>1, <2>3, <2>4, Zenon DEF ReportedOnce
<1> QED
  BY <1>1, InitHook, NextHook, PTL DEF Spec

-----------------------------------------------------------------------------
(* Induction and recursion over an initial segment of the natural numbers. *)

(***************************************************************************)
(* Induction, for a set: if a number were outside S, then subtracting 1    *)
(* would be an injection of the finite set of the numbers up to it outside *)
(* S into itself, hence onto it, and nothing could be mapped to the        *)
(* largest.                                                                *)
(***************************************************************************)
LEMMA SetInduction ==
    ASSUME NEW S, 0 \in S, \A n \in Nat : n \in S => n + 1 \in S
    PROVE  \A n \in Nat : n \in S
<1> SUFFICES ASSUME NEW x \in Nat, x \notin S PROVE FALSE
  OBVIOUS
<1> DEFINE A == {y \in 0..x : y \notin S}
           f == [y \in A |-> y - 1]
<1>1. IsFiniteSet(A)
  <2>1. IsFiniteSet(0..x)
    BY FS_Interval
  <2> QED BY <2>1, FS_Subset
<1>2. \A y \in A : y - 1 \in A
  <2> TAKE y \in A
  <2>1. y # 0
    OBVIOUS
  <2>2. y - 1 \in Nat /\ (y - 1) + 1 = y
    BY <2>1
  <2> QED BY <2>2
<1>3. f \in Injection(A, A)
  <2>1. f \in [A -> A]
    BY <1>2
  <2>2. \A a, b \in A : f[a] = f[b] => a = b
    OBVIOUS
  <2> QED BY <2>1, <2>2 DEF Injection, IsInjective
<1>4. f \in Surjection(A, A)
  BY <1>1, <1>3, FS_Injection
<1>5. x \in A
  OBVIOUS
<1>6. PICK y \in A : f[y] = x
  BY <1>4, <1>5 DEF Surjection
<1> QED BY <1>6

\* The same on 0..n, with the step at k from k - 1.
LEMMA SegmentInduction ==
    ASSUME NEW n \in Nat, NEW S, 0 \in S, \A k \in 1..n : k - 1 \in S => k \in S
    PROVE  \A k \in 0..n : k \in S
<1> DEFINE T == {k \in Nat : k \in S \/ k > n}
<1>1. 0 \in T
  OBVIOUS
<1>2. \A k \in Nat : k \in T => k + 1 \in T
  <2> SUFFICES ASSUME NEW k \in Nat, k \in T PROVE k + 1 \in T
    OBVIOUS
  <2>1. CASE k + 1 > n
    BY <2>1
  <2>2. CASE ~(k + 1 > n)
    <3>1. k \in S /\ k + 1 \in 1..n /\ (k + 1) - 1 = k
      BY <2>2
    <3>2. k + 1 \in S
      BY <3>1
    <3> QED BY <3>2
  <2> QED BY <2>1, <2>2
<1> HIDE DEF T
<1>3. \A k \in Nat : k \in T
  BY <1>1, <1>2, SetInduction
<1> QED BY <1>3 DEF T

\* g is the run of a recursion on 0..n from base, with step F.
SegmentRun(D, n, base, F, g) ==
    g \in [0..n -> D] /\ g[0] = base /\ \A k \in 1..n : g[k] = F[<<k, g[k - 1]>>]

(***************************************************************************)
(* Such a run exists, so a recursive function on 0..n does satisfy its     *)
(* equation.                                                               *)
(***************************************************************************)
LEMMA SegmentRecursion ==
    ASSUME NEW D, NEW n \in Nat, NEW base \in D, NEW F,
           \A k \in 1..n, d \in D : F[<<k, d>>] \in D
    PROVE  \E g : SegmentRun(D, n, base, F, g)
<1> DEFINE Runs(g, j) == SegmentRun(D, j, base, F, g)
           S == {j \in Nat : j <= n /\ \E g : Runs(g, j)}
<1> USE DEF SegmentRun
<1>1. 0 \in S
  <2>1. Runs([k \in 0..0 |-> base], 0)
    OBVIOUS
  <2> HIDE DEF Runs
  <2> QED BY <2>1
<1>2. \A j \in 1..n : j - 1 \in S => j \in S
  <2> SUFFICES ASSUME NEW j \in 1..n, j - 1 \in S PROVE j \in S
    OBVIOUS
  <2>1. PICK g : Runs(g, j - 1)
    OBVIOUS
  <2> DEFINE h == [k \in 0..j |-> IF k < j THEN g[k] ELSE F[<<j, g[j - 1]>>]]
  <2>2. g[j - 1] \in D /\ F[<<j, g[j - 1]>>] \in D
    BY <2>1
  <2>3. h \in [0..j -> D]
    BY <2>1, <2>2
  <2>4. h[0] = base
    BY <2>1
  <2>5. ASSUME NEW k \in 1..j PROVE h[k] = F[<<k, h[k - 1]>>]
    <3>1. h[k - 1] = g[k - 1]
      OBVIOUS
    <3>2. CASE k < j
      <4>1. k \in 1..(j - 1) /\ h[k] = g[k]
        BY <3>2
      <4> QED BY <4>1, <3>1, <2>1
    <3>3. CASE ~(k < j)
      <4>1. k = j
        BY <3>3
      <4>2. h[j] = F[<<j, g[j - 1]>>]
        OBVIOUS
      <4> HIDE DEF h
      <4> QED BY <4>1, <4>2, <3>1
    <3> QED BY <3>2, <3>3
  <2> HIDE DEF h
  <2>6. Runs(h, j)
    BY <2>3, <2>4, <2>5
  <2> HIDE DEF Runs
  <2> QED BY <2>6
<1> HIDE DEF S
<1>3. \A k \in 0..n : k \in S
  BY <1>1, <1>2, SegmentInduction
<1>4. n \in S
  BY <1>3
<1> QED BY <1>4 DEF S


-----------------------------------------------------------------------------
(* The least and the greatest of a set of numbers. *)

\* Among numbers there is a least one.
LEMMA MinOfNat ==
    ASSUME NEW S \in SUBSET Nat, S # {}
    PROVE  Min(S) \in S /\ \A y \in S : Min(S) <= y
<1> DEFINE T == {n \in Nat : \A m \in 0..n : m \notin S}
<1>1. \E x \in S : \A y \in S : x <= y
  <2> SUFFICES ASSUME \A x \in S : \E y \in S : ~(x <= y) PROVE FALSE
    OBVIOUS
  <2>1. 0 \in T
    <3>1. 0 \notin S
      OBVIOUS
    <3> QED BY <3>1
  <2>2. \A n \in Nat : n \in T => n + 1 \in T
    <3> SUFFICES ASSUME NEW n \in Nat, n \in T PROVE n + 1 \in T
      OBVIOUS
    <3>1. n + 1 \notin S
      <4> SUFFICES ASSUME n + 1 \in S PROVE FALSE
        OBVIOUS
      <4>1. PICK y \in S : ~(n + 1 <= y)
        OBVIOUS
      <4>2. y \in 0..n
        BY <4>1
      <4> QED BY <4>2
    <3> QED BY <3>1
  <2> HIDE DEF T
  <2>3. \A n \in Nat : n \in T
    BY <2>1, <2>2, SetInduction
  <2>4. PICK x : x \in S
    OBVIOUS
  <2>5. x \in T
    BY <2>3, <2>4
  <2> QED BY <2>4, <2>5 DEF T
<1> QED BY <1>1 DEF Min

\* A finite set of numbers has a greatest.
LEMMA MaxOfNat ==
    ASSUME NEW S \in SUBSET Nat, IsFiniteSet(S), S # {}
    PROVE  Max(S) \in S /\ \A y \in S : Max(S) >= y
<1>1. PICK n \in Nat : ExistsSurjection(1..n, S)
  BY FS_NatSurjection
<1>2. PICK f \in Surjection(1..n, S) : TRUE
  BY <1>1 DEF ExistsSurjection
<1>3. f \in [1..n -> S] /\ \A x \in S : \E i \in 1..n : f[i] = x
  BY <1>2 DEF Surjection
<1>15. \A i \in 1..n : f[i] \in Nat
  <2> TAKE i \in 1..n
  <2>1. f[i] \in S
    BY <1>3
  <2> QED BY <2>1
<1> DEFINE K == {k \in Nat : \E b \in Nat : \A i \in 1..k : i <= n => f[i] <= b}
<1>4. 0 \in K
  <2>1. \A i \in 1..0 : i <= n => f[i] <= 0
    OBVIOUS
  <2> QED BY <2>1
<1>5. \A k \in Nat : k \in K => k + 1 \in K
  <2> SUFFICES ASSUME NEW k \in Nat, k \in K PROVE k + 1 \in K
    OBVIOUS
  <2>1. PICK b \in Nat : \A i \in 1..k : i <= n => f[i] <= b
    OBVIOUS
  <2>2. CASE k + 1 <= n
    <3>1. f[k + 1] \in Nat
      <4>1. k + 1 \in 1..n
        BY <2>2
      <4> QED BY <4>1, <1>15
    <3>2. PICK d \in Nat : b <= d /\ f[k + 1] <= d
      <4>1. CASE b <= f[k + 1]
        BY <3>1, <4>1
      <4>2. CASE ~(b <= f[k + 1])
        BY <3>1, <4>2
      <4> QED BY <4>1, <4>2
    <3>3. \A i \in 1..(k + 1) : i <= n => f[i] <= d
      <4> TAKE i \in 1..(k + 1)
      <4> HAVE i <= n
      <4>1. f[i] \in Nat
        BY <1>15
      <4>2. i = k + 1 \/ i \in 1..k
        OBVIOUS
      <4>3. CASE i = k + 1
        BY <4>3, <3>2
      <4>4. CASE i \in 1..k
        <5>1. f[i] <= b /\ b <= d
          BY <4>4, <2>1, <3>2
        <5> QED BY <5>1, <4>1
      <4> QED BY <4>2, <4>3, <4>4
    <3>4. \E a \in Nat : \A i \in 1..(k + 1) : i <= n => f[i] <= a
      BY <3>3
    <3>5. k + 1 \in Nat
      OBVIOUS
    <3> QED BY <3>4, <3>5
  <2>3. CASE ~(k + 1 <= n)
    <3>1. \A i \in 1..(k + 1) : i <= n => f[i] <= b
      <4> TAKE i \in 1..(k + 1)
      <4> HAVE i <= n
      <4>1. i \in 1..k
        BY <2>3
      <4> QED BY <2>1, <4>1
    <3>2. \E a \in Nat : \A i \in 1..(k + 1) : i <= n => f[i] <= a
      BY <3>1
    <3> QED BY <3>2
  <2> QED BY <2>2, <2>3
<1>6. \A k \in Nat : k \in K
  <2> HIDE DEF K
  <2> QED BY <1>4, <1>5, SetInduction
<1>7. n \in K
  BY <1>6
<1>8. PICK b \in Nat : \A i \in 1..n : i <= n => f[i] <= b
  BY <1>7
<1>9. \A x \in S : x <= b
  <2> TAKE x \in S
  <2>1. PICK i \in 1..n : f[i] = x
    BY <1>3
  <2> QED BY <2>1, <1>8
<1> DEFINE T == {m \in Nat : \E x \in S : m = b - x}
<1>10. T \in SUBSET Nat /\ T # {}
  <2>1. PICK x : x \in S
    OBVIOUS
  <2>2. b - x \in T
    BY <2>1, <1>9
  <2> QED BY <2>2
<1>11. Min(T) \in T /\ \A y \in T : Min(T) <= y
  <2> HIDE DEF T
  <2> QED BY <1>10, MinOfNat
<1>12. PICK x \in S : Min(T) = b - x
  BY <1>11
<1>13. \A y \in S : x >= y
  <2> TAKE y \in S
  <2>1. b - y \in T
    BY <1>9
  <2>2. b - x <= b - y
    BY <2>1, <1>11, <1>12
  <2> QED BY <2>2
<1>14. \E z \in S : \A y \in S : z >= y
  BY <1>13
<1> QED BY <1>14, Zenon DEF Max

-----------------------------------------------------------------------------
(* Types. *)

Packet == [connection : Connection, run : Nat]

\* Functions from finitely many numbers: the inputs that have data, the indices
\* of waiting entries.
Partial(V) == UNION {[D -> V] : D \in {S \in SUBSET Nat : IsFiniteSet(S)}}

\* The inputs of node n in workflow w: each has a packet sent over a connection to it.
InputsOf(w, n) ==
    {f \in Partial(Packet) : \A i \in DOMAIN f :
        /\ f[i].connection \in w.connections
        /\ f[i].connection.to = n
        /\ f[i].connection.input = i}

EntryType(w) ==
    {e \in [node : Nodes, inputs : Partial(Packet), disabled : BOOLEAN] :
        e.inputs \in InputsOf(w, e.node)}

Finished == {"success", "continued"}
RunType(w, n) ==
    [inputs : InputsOf(w, n), outs : SUBSET Nat, status : Finished \cup {"error", "waiting"},
     number : Nat]

WaitingType(w) ==
    {f \in [Nodes -> UNION {Partial(InputsOf(w, n)) : n \in Nodes}] :
        \A n \in Nodes : f[n] \in Partial(InputsOf(w, n))}

RunDataType(w) ==
    {f \in [Nodes -> UNION {Seq(RunType(w, n)) : n \in Nodes}] :
        \A n \in Nodes : f[n] \in Seq(RunType(w, n))}

TypeInv ==
    /\ wf \in Workflows
    /\ stack \in Seq(EntryType(wf))
    /\ current \in EntryType(wf)
    /\ waitingExecution \in WaitingType(wf)
    /\ waitingNodes \in Seq(Nodes)
    /\ runData \in RunDataType(wf)
    /\ targets \subseteq wf.connections
    /\ waitTill \in BOOLEAN
    /\ early \in BOOLEAN
    /\ lastNodeExecuted \in Nodes \cup {None}
    /\ runs \in Nat
    /\ dropped \subseteq Packet
    /\ lost \subseteq Packet

-----------------------------------------------------------------------------
(* The invariants. *)

\* The phases in which the execution has come to its end.
Ending == {"settling", "saving", "ended"}

\* waitingNodes lists the nodes that have waiting entries, each once.
WaitingInv ==
    /\ \A n \in Nodes : n \in Range(waitingNodes) <=> DOMAIN waitingExecution[n] # {}
    /\ \A i, j \in DOMAIN waitingNodes : waitingNodes[i] = waitingNodes[j] => i = j

\* Connections are left to be followed only while the nodes of one run are added.
TargetsInv ==
    /\ phase # "adding" => targets = {}
    /\ \A c \in targets : c.from = current.node

\* Runs have numbers given so far.
NumberInv == \A n \in Nodes : \A r \in DOMAIN runData[n] : runData[n][r].number \in 1..runs

LastRun == Last(runData[lastNodeExecuted])

\* A run that ended the execution is the last of the node executed last, and
\* its entry is at the top of the stack; only such a run is removed by a restart.
EndInv ==
    /\ \A n \in Nodes : \A r \in DOMAIN runData[n] : runData[n][r].status \notin Finished =>
          /\ phase \in Ending
          /\ n = lastNodeExecuted
          /\ r = Len(runData[n])
          /\ stack # << >>
          /\ stack[1].inputs = runData[n][r].inputs
    /\ executionError # "none" =>
          /\ phase # "running"
          /\ lastNodeExecuted \in Nodes
          /\ runData[lastNodeExecuted] # << >>
          /\ LastRun.status \in {"continued", "error"}
    /\ waitTill =>
          /\ phase \in Ending
          /\ lastNodeExecuted \in Nodes
          /\ runData[lastNodeExecuted] # << >>
          /\ LastRun.status = "waiting"
    /\ phase \notin {"saving", "ended"} => status \in {"running", "canceled"}
    /\ status = "error" => executionError = "error"
    /\ status = "waiting" => waitTill

\* A packet is in some of these entries, waiting entries or runs; in one at most.
InStack(s, p) == \E i \in DOMAIN s : p \in PacketsOf(s[i].inputs)
OnceInStack(s, p) == \A i, j \in DOMAIN s :
    p \in PacketsOf(s[i].inputs) /\ p \in PacketsOf(s[j].inputs) => i = j
InWaiting(f, p) == \E k \in DOMAIN f : p \in PacketsOf(f[k])
OnceInWaiting(f, p) == \A k, l \in DOMAIN f : p \in PacketsOf(f[k]) /\ p \in PacketsOf(f[l]) => k = l
UsedBy(run, p) == run.status \in Finished /\ p \in PacketsOf(run.inputs)
InRuns(s, p) == \E r \in DOMAIN s : UsedBy(s[r], p)
OnceInRuns(s, p) == \A r, q \in DOMAIN s : UsedBy(s[r], p) /\ UsedBy(s[q], p) => r = q

\* The places of a packet.
OnStack(p) == InStack(stack, p)
Waits(p) == InWaiting(waitingExecution[p.connection.to], p)
Used(p) == InRuns(runData[p.connection.to], p)
InHand(p) == phase = "running" /\ p \in PacketsOf(current.inputs)
Due(p) == p.connection \in targets /\ p.run = runs

Somewhere(p) ==
    OnStack(p) \/ Waits(p) \/ Used(p) \/ InHand(p) \/ Due(p) \/ p \in dropped \/ p \in lost

\* No two of these at once.
Apart(a, b, c, d, e, f, g) ==
    /\ a => ~b /\ ~c /\ ~d /\ ~e /\ ~f /\ ~g
    /\ b => ~c /\ ~d /\ ~e /\ ~f /\ ~g
    /\ c => ~d /\ ~e /\ ~f /\ ~g
    /\ d => ~e /\ ~f /\ ~g
    /\ e => ~f /\ ~g
    /\ f => ~g

OnePlace(p) ==
    /\ OnceInStack(stack, p)
    /\ OnceInWaiting(waitingExecution[p.connection.to], p)
    /\ OnceInRuns(runData[p.connection.to], p)
    /\ Apart(OnStack(p), Waits(p), Used(p), InHand(p), Due(p), p \in dropped, p \in lost)

\* A packet is in one place at most, also when the run that sent it was removed;
\* one that is somewhere was sent by a run so far; one whose run is there is somewhere.
PlaceInv ==
    /\ \A p \in Packet : OnePlace(p)
    /\ \A p \in Packet : Somewhere(p) => p.run <= runs
    /\ \A p \in Sent : Somewhere(p)

-----------------------------------------------------------------------------
(* Facts about the types. *)

\* What is a partial function.
LEMMA PartialFacts ==
    ASSUME NEW V, NEW f
    PROVE  f \in Partial(V) <=> DOMAIN f \in SUBSET Nat /\ IsFiniteSet(DOMAIN f) /\ f \in [DOMAIN f -> V]
<1>1. ASSUME f \in Partial(V)
      PROVE  DOMAIN f \in SUBSET Nat /\ IsFiniteSet(DOMAIN f) /\ f \in [DOMAIN f -> V]
  <2>1. PICK D \in {S \in SUBSET Nat : IsFiniteSet(S)} : f \in [D -> V]
    BY <1>1 DEF Partial
  <2>2. DOMAIN f = D
    BY <2>1
  <2> QED BY <2>1, <2>2
<1>2. ASSUME DOMAIN f \in SUBSET Nat, IsFiniteSet(DOMAIN f), f \in [DOMAIN f -> V]
      PROVE  f \in Partial(V)
  <2>1. PICK D : D = DOMAIN f
    OBVIOUS
  <2>2. D \in {S \in SUBSET Nat : IsFiniteSet(S)} /\ f \in [D -> V]
    BY <1>2, <2>1
  <2> QED BY <2>2 DEF Partial
<1> QED BY <1>1, <1>2

\* The function without arguments is partial.
LEMMA PartialEmpty == ASSUME NEW V PROVE << >> \in Partial(V) /\ DOMAIN << >> = {}
<1>1. << >> \in [{} -> V] /\ DOMAIN << >> = {}
  OBVIOUS
<1>2. IsFiniteSet({})
  BY FS_EmptySet
<1> QED BY <1>1, <1>2 DEF Partial

\* What With and Without do.
LEMMA PartialWith ==
    ASSUME NEW V, NEW f \in Partial(V), NEW k \in Nat, NEW v \in V
    PROVE  /\ With(f, k, v) \in Partial(V)
           /\ DOMAIN With(f, k, v) = DOMAIN f \cup {k}
           /\ With(f, k, v)[k] = v
           /\ \A j \in DOMAIN f : j # k => With(f, k, v)[j] = f[j]
<1> DEFINE g == With(f, k, v)
           D == DOMAIN f \cup {k}
<1>1. DOMAIN f \in SUBSET Nat /\ IsFiniteSet(DOMAIN f) /\ f \in [DOMAIN f -> V]
  BY PartialFacts
<1>2. D \in SUBSET Nat /\ IsFiniteSet(D)
  BY <1>1, FS_AddElement
<1>3. DOMAIN g = D /\ g[k] = v /\ \A j \in DOMAIN f : j # k => g[j] = f[j]
  BY DEF With
<1>4. g \in [D -> V]
  BY <1>1 DEF With
<1> HIDE DEF g
<1>5. g \in Partial(V)
  BY <1>2, <1>3, <1>4, PartialFacts
<1> QED BY <1>3, <1>5 DEF g

\* The same without an argument.
LEMMA PartialWithout ==
    ASSUME NEW V, NEW f \in Partial(V), NEW k
    PROVE  /\ Without(f, k) \in Partial(V)
           /\ DOMAIN Without(f, k) = DOMAIN f \ {k}
           /\ \A j \in DOMAIN f : j # k => Without(f, k)[j] = f[j]
<1> DEFINE g == Without(f, k)
           D == DOMAIN f \ {k}
<1>1. DOMAIN f \in SUBSET Nat /\ IsFiniteSet(DOMAIN f) /\ f \in [DOMAIN f -> V]
  BY PartialFacts
<1>2. D \in SUBSET Nat /\ IsFiniteSet(D)
  BY <1>1, FS_RemoveElement
<1>3. DOMAIN g = D /\ \A j \in DOMAIN f : j # k => g[j] = f[j]
  BY DEF Without
<1>4. g \in [D -> V]
  BY <1>1 DEF Without
<1> HIDE DEF g
<1>5. g \in Partial(V)
  BY <1>2, <1>3, <1>4, PartialFacts
<1> QED BY <1>3, <1>5 DEF g

\* The inputs of a node, with a packet for one that had none.
LEMMA InputsWith ==
    ASSUME NEW w, w.connections \subseteq Connection, NEW c \in w.connections,
           NEW f \in InputsOf(w, c.to), NEW p \in Packet, p.connection = c, c.input \notin DOMAIN f
    PROVE  /\ With(f, c.input, p) \in InputsOf(w, c.to)
           /\ DOMAIN With(f, c.input, p) = DOMAIN f \cup {c.input}
           /\ PacketsOf(With(f, c.input, p)) = PacketsOf(f) \cup {p}
<1> DEFINE g == With(f, c.input, p)
<1>1. f \in Partial(Packet) /\ c.input \in Nat
  BY DEF InputsOf, Connection
<1>2. /\ g \in Partial(Packet)
      /\ DOMAIN g = DOMAIN f \cup {c.input}
      /\ g[c.input] = p
      /\ \A j \in DOMAIN f : j # c.input => g[j] = f[j]
  <2>1. PICK k \in Nat : k = c.input
    BY <1>1
  <2> DEFINE h == With(f, k, p)
  <2>2. /\ h \in Partial(Packet)
        /\ DOMAIN h = DOMAIN f \cup {k}
        /\ h[k] = p
        /\ \A j \in DOMAIN f : j # k => h[j] = f[j]
    BY <1>1, PartialWith
  <2> QED BY <2>1, <2>2
<1> HIDE DEF g
<1>3. g \in InputsOf(w, c.to)
  BY <1>2 DEF InputsOf
<1>4. PacketsOf(g) = PacketsOf(f) \cup {p}
  BY <1>2 DEF PacketsOf
<1> QED BY <1>2, <1>3, <1>4 DEF g

\* The packets among the inputs of a node were sent to it.
LEMMA InputsFacts ==
    ASSUME NEW w, NEW n, NEW f \in InputsOf(w, n)
    PROVE  /\ \A p \in PacketsOf(f) : p \in Packet /\ p.connection.to = n
           /\ f \in Partial(Packet)
<1>1. f \in Partial(Packet) /\ f \in [DOMAIN f -> Packet]
  BY PartialFacts DEF InputsOf
<1> QED BY <1>1 DEF InputsOf, PacketsOf

\* No inputs are inputs of any node.
LEMMA NoInputsType ==
    ASSUME NEW w, NEW n PROVE NoInputs \in InputsOf(w, n) /\ PacketsOf(NoInputs) = {}
<1>1. << >> \in Partial(Packet) /\ DOMAIN << >> = {}
  BY PartialEmpty
<1> HIDE DEF NoInputs
<1>2. NoInputs \in Partial(Packet) /\ DOMAIN NoInputs = {}
  BY <1>1 DEF NoInputs
<1> QED BY <1>2 DEF InputsOf, PacketsOf

\* What a stack entry is made of.
LEMMA EntryIsTyped ==
    ASSUME TypeInv, NEW n \in Nodes, NEW f \in InputsOf(wf, n)
    PROVE  Entry(n, f) \in EntryType(wf) /\ Entry(n, f).inputs = f /\ Entry(n, f).node = n
<1>1. f \in Partial(Packet)
  BY InputsFacts
<1> QED BY <1>1 DEF Entry, EntryType

-----------------------------------------------------------------------------
(* How the stack, the waiting entries and the runs hold packets. *)

\* The entry taken from the stack, and the rest.
LEMMA PopFacts ==
    ASSUME NEW E, NEW s \in Seq(E), s # << >>, NEW p
    PROVE  /\ Head(s) \in E /\ Head(s) = s[1] /\ Tail(s) \in Seq(E)
           /\ InStack(s, p) <=> p \in PacketsOf(Head(s).inputs) \/ InStack(Tail(s), p)
           /\ OnceInStack(s, p) => /\ OnceInStack(Tail(s), p)
                                   /\ ~(p \in PacketsOf(Head(s).inputs) /\ InStack(Tail(s), p))
<1> DEFINE t == Tail(s)
           n == Len(s)
<1>1. /\ Head(s) \in E /\ t \in Seq(E) /\ Len(t) = n - 1
      /\ \A i \in 1..Len(t) : t[i] = s[i + 1]
  BY HeadTailProperties
<1>2. Head(s) = s[1]
  OBVIOUS
<1>3. n \in Nat \ {0} /\ DOMAIN s = 1..n
  BY EmptySeq, LenProperties
<1>4. DOMAIN t = 1..(n - 1)
  BY <1>1, LenProperties
<1> HIDE DEF t, n
<1>5. \A i \in 1..n : i = 1 \/ (i - 1 \in DOMAIN t /\ t[i - 1] = s[i])
  <2> TAKE i \in 1..n
  <2>1. CASE i # 1
    <3>1. i - 1 \in 1..(n - 1) /\ (i - 1) + 1 = i
      BY <1>3, <2>1
    <3> QED BY <3>1, <1>1, <1>4
  <2> QED BY <2>1
<1>6. \A i \in DOMAIN t : i + 1 \in 1..n /\ i + 1 # 1 /\ t[i] = s[i + 1] /\ i \in Nat
  BY <1>1, <1>3, <1>4
<1>7. 1 \in 1..n
  BY <1>3
<1>8. InStack(s, p) <=> p \in PacketsOf(s[1].inputs) \/ InStack(t, p)
  BY <1>3, <1>5, <1>6, <1>7 DEF InStack
<1>9. OnceInStack(s, p) => OnceInStack(t, p)
  <2> SUFFICES ASSUME OnceInStack(s, p), NEW i \in DOMAIN t, NEW j \in DOMAIN t,
                      p \in PacketsOf(t[i].inputs), p \in PacketsOf(t[j].inputs)
               PROVE  i = j
    BY DEF OnceInStack
  <2>1. i + 1 = j + 1
    BY <1>3, <1>6 DEF OnceInStack
  <2> QED BY <2>1, <1>6
<1>10. OnceInStack(s, p) => ~(p \in PacketsOf(s[1].inputs) /\ InStack(t, p))
  BY <1>3, <1>6, <1>7 DEF InStack, OnceInStack
<1> QED BY <1>1, <1>2, <1>8, <1>9, <1>10 DEF t

\* An entry put on the stack.
LEMMA PushFacts ==
    ASSUME NEW E, NEW s \in Seq(E), NEW e \in E, NEW p
    PROVE  LET t == <<e>> \o s IN
           /\ t \in Seq(E) /\ t # << >> /\ t[1] = e
           /\ InStack(t, p) <=> p \in PacketsOf(e.inputs) \/ InStack(s, p)
           /\ (OnceInStack(s, p) /\ ~(p \in PacketsOf(e.inputs) /\ InStack(s, p))) => OnceInStack(t, p)
<1> DEFINE t == <<e>> \o s
           n == Len(s)
<1>1. <<e>> \in Seq(E) /\ Len(<<e>>) = 1 /\ <<e>>[1] = e
  OBVIOUS
<1>2. n \in Nat /\ DOMAIN s = 1..n
  BY LenProperties
<1>3. /\ t \in Seq(E) /\ Len(t) = 1 + n
      /\ \A i \in 1..(1 + n) : t[i] = IF i <= 1 THEN <<e>>[i] ELSE s[i - 1]
  BY <1>1, ConcatProperties
<1>4. DOMAIN t = 1..(1 + n)
  BY <1>3, LenProperties
<1>5. t # << >>
  <2>1. Len(t) # 0
    BY <1>2, <1>3
  <2> QED BY <2>1, EmptySeq
<1> HIDE DEF t, n
<1>6. t[1] = e /\ 1 \in DOMAIN t
  BY <1>1, <1>2, <1>3, <1>4
<1>7. \A i \in DOMAIN s : i \in Nat /\ i + 1 \in DOMAIN t /\ t[i + 1] = s[i] /\ i + 1 # 1
  <2> TAKE i \in DOMAIN s
  <2>1. i \in 1..n
    BY <1>2
  <2>2. i + 1 \in 1..(1 + n) /\ ~(i + 1 <= 1) /\ (i + 1) - 1 = i
    BY <1>2, <2>1
  <2> QED BY <2>1, <2>2, <1>3, <1>4
<1>8. \A i \in DOMAIN t : i = 1 \/ (i \in Nat /\ i - 1 \in DOMAIN s /\ t[i] = s[i - 1])
  <2> TAKE i \in DOMAIN t
  <2>1. CASE i # 1
    <3>1. i \in Nat /\ i - 1 \in 1..n /\ ~(i <= 1)
      BY <1>2, <1>4, <2>1
    <3> QED BY <3>1, <1>2, <1>3, <1>4
  <2> QED BY <2>1
<1>9. InStack(t, p) <=> p \in PacketsOf(e.inputs) \/ InStack(s, p)
  BY <1>6, <1>7, <1>8 DEF InStack
<1>10. (OnceInStack(s, p) /\ ~(p \in PacketsOf(e.inputs) /\ InStack(s, p))) => OnceInStack(t, p)
  <2> SUFFICES ASSUME OnceInStack(s, p), ~(p \in PacketsOf(e.inputs) /\ InStack(s, p)),
                      NEW i \in DOMAIN t, NEW j \in DOMAIN t,
                      p \in PacketsOf(t[i].inputs), p \in PacketsOf(t[j].inputs)
               PROVE  i = j
    BY DEF OnceInStack
  <2>1. CASE i = 1 \/ j = 1
    <3>1. ASSUME NEW x \in DOMAIN t, x # 1, p \in PacketsOf(t[x].inputs)
          PROVE  InStack(s, p)
      BY <3>1, <1>8 DEF InStack
    <3> QED BY <2>1, <3>1, <1>6
  <2>2. CASE i # 1 /\ j # 1
    <3>1. i - 1 = j - 1
      BY <2>2, <1>8 DEF OnceInStack
    <3> QED BY <3>1, <2>2, <1>8
  <2> QED BY <2>1, <2>2
<1> QED BY <1>3, <1>5, <1>6, <1>9, <1>10 DEF t

\* The run of the execution's resumption is marked: its packets stay.
LEMMA MarkFacts ==
    ASSUME NEW w, NEW s \in Seq(EntryType(w)), NEW p
    PROVE  LET t == [s EXCEPT ![1].disabled = TRUE] IN
           /\ t \in Seq(EntryType(w))
           /\ InStack(t, p) <=> InStack(s, p)
           /\ OnceInStack(t, p) <=> OnceInStack(s, p)
           /\ Len(t) = Len(s)
           /\ \A i \in DOMAIN s : t[i].inputs = s[i].inputs /\ t[i].node = s[i].node
<1> DEFINE t == [s EXCEPT ![1].disabled = TRUE]
<1>1. /\ Len(s) \in Nat /\ s \in [1..Len(s) -> EntryType(w)] /\ DOMAIN s = 1..Len(s)
  BY LenProperties
<1>2. \A i \in DOMAIN s : t[i].inputs = s[i].inputs /\ t[i].node = s[i].node /\ t[i] \in EntryType(w)
  <2> TAKE i \in DOMAIN s
  <2>1. s[i] \in EntryType(w)
    BY <1>1
  <2>2. CASE i = 1
    <3>1. t[1] = [s[1] EXCEPT !.disabled = TRUE]
      BY <2>2
    <3> QED BY <2>1, <2>2, <3>1 DEF EntryType
  <2>3. CASE i # 1
    <3>1. t[i] = s[i]
      BY <2>3
    <3> QED BY <2>1, <3>1
  <2> QED BY <2>2, <2>3
<1>3. DOMAIN t = DOMAIN s /\ t = [i \in DOMAIN t |-> t[i]]
  OBVIOUS
<1> HIDE DEF t
<1>4. t \in [1..Len(s) -> EntryType(w)]
  BY <1>1, <1>2, <1>3
<1>5. t \in Seq(EntryType(w)) /\ Len(t) = Len(s)
  <2>1. t \in Seq(EntryType(w))
    BY <1>1, <1>4, SeqDef
  <2>2. Len(t) \in Nat /\ DOMAIN t = 1..Len(t)
    BY <2>1, LenProperties
  <2>3. Len(t) = Len(s)
    <3>1. PICK m \in Nat, n \in Nat : m = Len(t) /\ n = Len(s)
      BY <1>1, <2>2
    <3>2. \A i \in Nat : i \in 1..m <=> i \in 1..n
      BY <1>1, <1>3, <2>2, <3>1
    <3>3. m = 0 \/ m \in 1..m
      OBVIOUS
    <3>4. n = 0 \/ n \in 1..n
      OBVIOUS
    <3>5. m = n
      BY <3>2, <3>3, <3>4
    <3> QED BY <3>1, <3>5
  <2> QED BY <2>1, <2>3
<1>6. InStack(t, p) <=> InStack(s, p)
  BY <1>2, <1>3 DEF InStack
<1>7. OnceInStack(t, p) <=> OnceInStack(s, p)
  BY <1>2, <1>3 DEF OnceInStack
<1> QED BY <1>2, <1>5, <1>6, <1>7 DEF t

\* A run recorded.
LEMMA AppendRunFacts ==
    ASSUME NEW R, NEW s \in Seq(R), NEW run \in R, NEW p
    PROVE  LET t == Append(s, run) IN
           /\ t \in Seq(R) /\ t # << >> /\ Last(t) = run /\ Len(t) = Len(s) + 1
           /\ DOMAIN t = 1..(Len(s) + 1) /\ \A r \in DOMAIN s : t[r] = s[r]
           /\ InRuns(t, p) <=> InRuns(s, p) \/ UsedBy(run, p)
           /\ (OnceInRuns(s, p) /\ ~(InRuns(s, p) /\ UsedBy(run, p))) => OnceInRuns(t, p)
<1> DEFINE t == Append(s, run)
           n == Len(s)
<1>1. n \in Nat /\ DOMAIN s = 1..n
  BY LenProperties
<1>2. /\ t \in Seq(R) /\ t # << >> /\ Len(t) = n + 1
      /\ \A i \in 1..n : t[i] = s[i]
      /\ t[n + 1] = run
  BY AppendProperties
<1>3. DOMAIN t = 1..(n + 1)
  BY <1>2, LenProperties
<1>4. Last(t) = run
  BY <1>2 DEF Last
<1> HIDE DEF t, n
<1>5. \A i \in DOMAIN t : i = n + 1 \/ (i \in DOMAIN s /\ t[i] = s[i])
  BY <1>1, <1>2, <1>3
<1>6. n + 1 \in DOMAIN t /\ \A i \in DOMAIN s : i \in DOMAIN t /\ t[i] = s[i]
  BY <1>1, <1>2, <1>3
<1>7. InRuns(t, p) <=> InRuns(s, p) \/ UsedBy(run, p)
  BY <1>2, <1>5, <1>6 DEF InRuns
<1>8. (OnceInRuns(s, p) /\ ~(InRuns(s, p) /\ UsedBy(run, p))) => OnceInRuns(t, p)
  <2>1. ASSUME NEW x \in DOMAIN t, x # n + 1, UsedBy(t[x], p)
        PROVE  x \in DOMAIN s /\ UsedBy(s[x], p) /\ InRuns(s, p)
    BY <2>1, <1>5 DEF InRuns
  <2> QED BY <2>1, <1>2, Zenon DEF OnceInRuns
<1> QED BY <1>1, <1>2, <1>3, <1>4, <1>6, <1>7, <1>8 DEF t, n

\* The last run removed.
LEMMA FrontRunFacts ==
    ASSUME NEW R, NEW s \in Seq(R), s # << >>, NEW p
    PROVE  LET t == Front(s) IN
           /\ t \in Seq(R) /\ Last(s) \in R
           /\ \A r \in DOMAIN t : r \in DOMAIN s /\ r # Len(s) /\ t[r] = s[r]
           /\ InRuns(s, p) <=> InRuns(t, p) \/ UsedBy(Last(s), p)
           /\ OnceInRuns(s, p) => OnceInRuns(t, p) /\ ~(InRuns(t, p) /\ UsedBy(Last(s), p))
<1> DEFINE t == Front(s)
<1>0. PICK n \in Nat \ {0} : n = Len(s)
  BY EmptySeq
<1>1. n \in Nat \ {0} /\ DOMAIN s = 1..n /\ s \in [1..n -> R]
  BY <1>0, LenProperties
<1>2. \A i \in 1..(n - 1) : s[i] \in R
  BY <1>1
<1>3. /\ t \in Seq(R)
      /\ Len(t) = IF 1 <= n - 1 THEN (n - 1) - 1 + 1 ELSE 0
      /\ \A i \in 1..((n - 1) - 1 + 1) : t[i] = s[1 + i - 1]
  <2>1. PICK m \in Int : m = n - 1
    BY <1>1
  <2>2. /\ SubSeq(s, 1, m) \in Seq(R)
        /\ Len(SubSeq(s, 1, m)) = IF 1 <= m THEN m - 1 + 1 ELSE 0
        /\ \A i \in 1..(m - 1 + 1) : SubSeq(s, 1, m)[i] = s[1 + i - 1]
    BY <1>2, <2>1, SubSeqProperties
  <2> QED BY <1>0, <2>1, <2>2 DEF Front
<1>4. DOMAIN t = 1..(n - 1)
  <2>1. DOMAIN t = 1..Len(t) /\ Len(t) = n - 1
    BY <1>1, <1>3, LenProperties
  <2> QED BY <2>1
<1>5. Last(s) = s[n] /\ Last(s) \in R
  BY <1>0, <1>1 DEF Last
<1> HIDE DEF t
<1>6. \A r \in DOMAIN t : r \in DOMAIN s /\ r # n /\ t[r] = s[r]
  <2> TAKE r \in DOMAIN t
  <2>1. r \in 1..((n - 1) - 1 + 1) /\ 1 + r - 1 = r /\ r \in 1..n /\ r # n
    BY <1>1, <1>4
  <2> QED BY <2>1, <1>1, <1>3
<1>7. \A r \in DOMAIN s : r = n \/ r \in DOMAIN t
  BY <1>1, <1>4
<1>8. n \in DOMAIN s
  BY <1>1
<1>9. InRuns(s, p) <=> InRuns(t, p) \/ UsedBy(s[n], p)
  BY <1>6, <1>7, <1>8 DEF InRuns
<1>10. OnceInRuns(s, p) => OnceInRuns(t, p) /\ ~(InRuns(t, p) /\ UsedBy(s[n], p))
  BY <1>6, <1>7, <1>8 DEF InRuns, OnceInRuns
<1> QED BY <1>0, <1>3, <1>5, <1>6, <1>9, <1>10 DEF t

\* A waiting entry taken away, and one put in its place.
LEMMA WithoutFacts ==
    ASSUME NEW V, NEW f \in Partial(V), NEW k, NEW p
    PROVE  LET g == Without(f, k) IN
           /\ k \in DOMAIN f =>
                /\ InWaiting(f, p) <=> p \in PacketsOf(f[k]) \/ InWaiting(g, p)
                /\ OnceInWaiting(f, p) => OnceInWaiting(g, p) /\ ~(p \in PacketsOf(f[k]) /\ InWaiting(g, p))
           /\ k \notin DOMAIN f =>
                /\ InWaiting(f, p) <=> InWaiting(g, p)
                /\ OnceInWaiting(f, p) => OnceInWaiting(g, p)
<1> DEFINE g == Without(f, k)
<1>1. /\ DOMAIN g = DOMAIN f \ {k}
      /\ \A j \in DOMAIN f : j # k => g[j] = f[j]
  BY PartialWithout
<1> HIDE DEF g
<1>2. ASSUME k \in DOMAIN f
      PROVE  /\ InWaiting(f, p) <=> p \in PacketsOf(f[k]) \/ InWaiting(g, p)
             /\ OnceInWaiting(f, p) => OnceInWaiting(g, p) /\ ~(p \in PacketsOf(f[k]) /\ InWaiting(g, p))
  BY <1>1, <1>2 DEF InWaiting, OnceInWaiting
<1>3. ASSUME k \notin DOMAIN f
      PROVE  /\ InWaiting(f, p) <=> InWaiting(g, p)
             /\ OnceInWaiting(f, p) => OnceInWaiting(g, p)
  BY <1>1, <1>3 DEF InWaiting, OnceInWaiting
<1> QED BY <1>2, <1>3 DEF g

\* A waiting entry put in the place of another.
LEMMA WithFacts ==
    ASSUME NEW V, NEW f \in Partial(V), NEW k \in Nat, NEW v \in V, NEW p
    PROVE  LET g == With(f, k, v)
               h == Without(f, k) IN
           /\ InWaiting(g, p) <=> p \in PacketsOf(v) \/ InWaiting(h, p)
           /\ (OnceInWaiting(h, p) /\ ~(p \in PacketsOf(v) /\ InWaiting(h, p))) => OnceInWaiting(g, p)
<1> DEFINE g == With(f, k, v)
           h == Without(f, k)
<1>1. /\ g \in Partial(V)
      /\ DOMAIN g = DOMAIN f \cup {k}
      /\ g[k] = v
      /\ \A j \in DOMAIN f : j # k => g[j] = f[j]
  BY PartialWith
<1>2. /\ DOMAIN h = DOMAIN f \ {k}
      /\ \A j \in DOMAIN f : j # k => h[j] = f[j]
  BY PartialWithout
<1> HIDE DEF g, h
<1>3. \A j \in DOMAIN g : j = k \/ (j \in DOMAIN h /\ g[j] = h[j])
  BY <1>1, <1>2
<1>4. k \in DOMAIN g /\ \A j \in DOMAIN h : j \in DOMAIN g /\ j # k /\ g[j] = h[j]
  BY <1>1, <1>2
<1>5. InWaiting(g, p) <=> p \in PacketsOf(v) \/ InWaiting(h, p)
  BY <1>1, <1>3, <1>4 DEF InWaiting
<1>6. (OnceInWaiting(h, p) /\ ~(p \in PacketsOf(v) /\ InWaiting(h, p))) => OnceInWaiting(g, p)
  <2>1. ASSUME NEW x \in DOMAIN g, x # k, p \in PacketsOf(g[x])
        PROVE  x \in DOMAIN h /\ p \in PacketsOf(h[x]) /\ InWaiting(h, p)
    BY <2>1, <1>3 DEF InWaiting
  <2> QED BY <2>1, <1>1, Zenon DEF OnceInWaiting
<1> QED BY <1>5, <1>6 DEF g, h

-----------------------------------------------------------------------------
(* The steps. *)

Inv == HookInv /\ TypeInv /\ WaitingInv /\ TargetsInv /\ NumberInv /\ EndInv /\ PlaceInv

\* What is assumed of the workflow.
LEMMA WfFacts ==
    ASSUME TypeInv
    PROVE  /\ wf \in Workflows
           /\ wf.connections \subseteq Connection
           /\ IsFiniteSet(wf.connections)
           /\ wf.start \in Nodes
           /\ \A n \in Nodes : n \notin AllBefore(wf, n)
           /\ None \notin Nodes
           /\ IsFiniteSet(Nodes)
  BY WorkflowsAssumption DEF TypeInv

\* What the types say of the parts of the state.
LEMMA TypeFacts ==
    ASSUME TypeInv
    PROVE  /\ \A n \in Nodes : waitingExecution[n] \in Partial(InputsOf(wf, n))
           /\ \A n \in Nodes : runData[n] \in Seq(RunType(wf, n))
           /\ DOMAIN waitingExecution = Nodes
           /\ DOMAIN runData = Nodes
           /\ current.node \in Nodes
           /\ current.inputs \in InputsOf(wf, current.node)
           /\ \A p \in Packet : p.connection.to \in Nodes /\ p.connection.from \in Nodes /\ p.run \in Nat
  BY DEF TypeInv, WaitingType, RunDataType, EntryType, Packet, Connection

\* What is sent are packets over connections of the workflow.
LEMMA SentFacts ==
    ASSUME TypeInv
    PROVE  Sent \subseteq Packet /\ \A p \in Sent : p.connection \in wf.connections
<1>1. wf.connections \subseteq Connection
  BY WfFacts
<1> QED BY <1>1 DEF Sent, Packet

\* No packet comes to exist or ceases to.
SamePackets == \A p \in Packet : Somewhere(p)' <=> Somewhere(p)

\* Packets move, but none appears or disappears.
LEMMA Moved ==
    ASSUME TypeInv, PlaceInv, runs' = runs, Sent' \subseteq Sent,
           \A p \in Packet : OnePlace(p)' /\ (Somewhere(p)' <=> Somewhere(p))
    PROVE  PlaceInv'
<1>1. Sent \subseteq Packet
  BY SentFacts
<1> QED BY <1>1 DEF PlaceInv

\* The packets that were sent, when no run is added or removed.
LEMMA SentSame ==
    ASSUME wf' = wf, runData' = runData, runs' = runs PROVE Sent' = Sent
  BY DEF Sent

\* A step that touches nothing but the variables of the engine.
LEMMA QuietStep ==
    ASSUME TypeInv, WaitingInv, PlaceInv, wf' = wf, UNCHANGED dataVars,
           (phase' = "running") <=> (phase = "running")
    PROVE  WaitingInv' /\ PlaceInv' /\ SamePackets
<1>1. WaitingInv'
  BY DEF WaitingInv, dataVars
<1>2. PlaceInv' /\ SamePackets
  <2>1. \A p \in Packet : OnePlace(p)' /\ (Somewhere(p)' <=> Somewhere(p))
    BY DEF PlaceInv, OnePlace, Somewhere, Apart, OnStack, Waits, Used, InHand, Due, dataVars
  <2>2. Sent' = Sent /\ runs' = runs
    BY SentSame DEF dataVars
  <2> QED BY <2>1, <2>2, Moved DEF SamePackets
<1> QED BY <1>1, <1>2

\* The packets of the entry taken from the stack are in hand while its node
\* runs.
LEMMA StartPlace ==
    ASSUME TypeInv, PlaceInv, StartNode PROVE PlaceInv' /\ SamePackets
<1>1. /\ stack \in Seq(EntryType(wf)) /\ stack # << >> /\ stack' = Tail(stack)
      /\ phase = "loop" /\ phase' = "running" /\ current' = Head(stack)
      /\ wf' = wf /\ waitingExecution' = waitingExecution /\ runData' = runData
      /\ targets' = targets /\ runs' = runs /\ dropped' = dropped /\ lost' = lost
  BY DEF StartNode, TakeEntry, TypeInv
<1>2. ASSUME NEW p \in Packet PROVE OnePlace(p)' /\ (Somewhere(p)' <=> Somewhere(p))
  <2>1. /\ InStack(stack, p) <=> p \in PacketsOf(Head(stack).inputs) \/ InStack(Tail(stack), p)
        /\ OnceInStack(stack, p) => /\ OnceInStack(Tail(stack), p)
                                   /\ ~(p \in PacketsOf(Head(stack).inputs) /\ InStack(Tail(stack), p))
    BY <1>1, PopFacts
  <2>2. OnePlace(p)
    BY DEF PlaceInv
  <2> QED BY <1>1, <2>1, <2>2 DEF OnePlace, Somewhere, Apart, OnStack, Waits, Used, InHand, Due
<1> QED BY <1>1, <1>2, SentSame, Moved DEF SamePackets

\* The packets of a skipped entry are dropped.
LEMMA SkipPlace ==
    ASSUME TypeInv, PlaceInv, SkipNode PROVE PlaceInv' /\ SamePackets
<1>1. /\ stack \in Seq(EntryType(wf)) /\ stack # << >> /\ stack' = Tail(stack)
      /\ phase = "loop" /\ phase' = "loop" /\ dropped' = dropped \cup PacketsOf(Head(stack).inputs)
      /\ wf' = wf /\ waitingExecution' = waitingExecution /\ runData' = runData
      /\ targets' = targets /\ runs' = runs /\ lost' = lost
  BY DEF SkipNode, TakeEntry, TypeInv
<1>2. ASSUME NEW p \in Packet PROVE OnePlace(p)' /\ (Somewhere(p)' <=> Somewhere(p))
  <2>1. /\ InStack(stack, p) <=> p \in PacketsOf(Head(stack).inputs) \/ InStack(Tail(stack), p)
        /\ OnceInStack(stack, p) => /\ OnceInStack(Tail(stack), p)
                                   /\ ~(p \in PacketsOf(Head(stack).inputs) /\ InStack(Tail(stack), p))
    BY <1>1, PopFacts
  <2>2. OnePlace(p)
    BY DEF PlaceInv
  <2> QED BY <1>1, <2>1, <2>2 DEF OnePlace, Somewhere, Apart, OnStack, Waits, Used, InHand, Due
<1> QED BY <1>1, <1>2, SentSame, Moved DEF SamePackets

\* So are those of a node that returned null.
LEMMA NullPlace ==
    ASSUME TypeInv, PlaceInv, ReturnNull PROVE PlaceInv' /\ SamePackets
<1>1. /\ stack' = stack /\ current' = current
      /\ phase = "running" /\ phase' = "loop" /\ dropped' = dropped \cup PacketsOf(current.inputs)
      /\ wf' = wf /\ waitingExecution' = waitingExecution /\ runData' = runData
      /\ targets' = targets /\ runs' = runs /\ lost' = lost
  BY DEF ReturnNull
<1>2. ASSUME NEW p \in Packet PROVE OnePlace(p)' /\ (Somewhere(p)' <=> Somewhere(p))
  <2>1. OnePlace(p)
    BY DEF PlaceInv
  <2> QED BY <1>1, <2>1 DEF OnePlace, Somewhere, Apart, OnStack, Waits, Used, InHand, Due
<1> QED BY <1>1, <1>2, SentSame, Moved DEF SamePackets

\* What recording a run of the current entry does.
LEMMA RunAdded ==
    ASSUME TypeInv, NEW outs \in SUBSET Nat, NEW s \in Finished \cup {"error", "waiting"},
           AddRun(current, outs, s), wf' = wf
    PROVE  /\ runs' = runs + 1
           /\ runData' \in RunDataType(wf)
           /\ runData'[current.node] = Append(runData[current.node], Run(current, outs, s))
           /\ \A n \in Nodes : n # current.node => runData'[n] = runData[n]
           /\ Run(current, outs, s) \in RunType(wf, current.node)
           /\ Run(current, outs, s).status = s
           /\ Run(current, outs, s).inputs = current.inputs
<1> DEFINE n == current.node
           r == Run(current, outs, s)
<1>1. n \in Nodes /\ current.inputs \in InputsOf(wf, n) /\ runData[n] \in Seq(RunType(wf, n))
  BY TypeFacts
<1>2. runs \in Nat /\ runData \in RunDataType(wf)
  BY DEF TypeInv
<1>3. r \in RunType(wf, n) /\ r.status = s /\ r.inputs = current.inputs
  BY <1>1, <1>2 DEF Run, RunType
<1> HIDE DEF r
<1>4. Append(runData[n], r) \in Seq(RunType(wf, n))
  BY <1>1, <1>3, AppendProperties
<1>5. runData' = [runData EXCEPT ![n] = Append(runData[n], r)] /\ runs' = runs + 1
  BY DEF AddRun, r
<1> DEFINE a == Append(runData[n], r)
<1>7. a \in Seq(RunType(wf, n)) /\ runData' = [runData EXCEPT ![n] = a]
  BY <1>4, <1>5
<1> HIDE DEF n, a
<1>6. /\ runData' \in RunDataType(wf) /\ runData'[n] = a
      /\ \A m \in Nodes : m # n => runData'[m] = runData[m]
  <2>1. PICK f, h : f = runData /\ h = runData'
    OBVIOUS
  <2>2. f \in RunDataType(wf) /\ h = [f EXCEPT ![n] = a] /\ n \in Nodes
    BY <1>1, <1>2, <1>7, <2>1
  <2>3. h \in RunDataType(wf) /\ h[n] = a /\ \A m \in Nodes : m # n => h[m] = f[m]
    BY <1>7, <2>2 DEF RunDataType
  <2> QED BY <2>1, <2>3
<1> QED BY <1>3, <1>5, <1>6 DEF n, r, a

\* What it does to the packets.
LEMMA RunAddedPackets ==
    ASSUME TypeInv, NumberInv, NEW outs \in SUBSET Nat, NEW s \in Finished \cup {"error", "waiting"},
           AddRun(current, outs, s), wf' = wf, NEW p \in Packet,
           NEW used, used = (s \in Finished /\ p \in PacketsOf(current.inputs))
    PROVE  /\ Used(p)' <=> Used(p) \/ used
           /\ (OnceInRuns(runData[p.connection.to], p) /\ ~(Used(p) /\ used))
                 => OnceInRuns(runData[p.connection.to], p)'
           /\ p \in Sent' => \/ p \in Sent
                             \/ /\ p.connection \in wf.connections
                                /\ p.connection.from = current.node
                                /\ current.node # wf.destination
                                /\ p.connection.output \in outs
                                /\ p.run = runs + 1
<1> DEFINE n == current.node
           r == Run(current, outs, s)
           to == p.connection.to
           from == p.connection.from
<1>1. n \in Nodes /\ to \in Nodes /\ from \in Nodes /\ p.run \in Nat /\ runs \in Nat
  BY TypeFacts DEF TypeInv
<1>2. /\ runs' = runs + 1 /\ runData'[n] = Append(runData[n], r)
      /\ \A m \in Nodes : m # n => runData'[m] = runData[m]
      /\ r \in RunType(wf, n) /\ r.status = s /\ r.inputs = current.inputs
      /\ runData[n] \in Seq(RunType(wf, n))
  BY RunAdded, TypeFacts
<1>3. UsedBy(r, p) <=> used
  BY <1>2 DEF UsedBy
<1>4. used => to = n
  BY TypeFacts, InputsFacts
<1>5. r.outs = outs /\ r.number = runs + 1
  BY DEF Run
<1> HIDE DEF n, r, to, from
<1> DEFINE a == Append(runData[n], r)
<1>6. /\ InRuns(a, p) <=> InRuns(runData[n], p) \/ UsedBy(r, p)
      /\ (OnceInRuns(runData[n], p) /\ ~(InRuns(runData[n], p) /\ UsedBy(r, p))) => OnceInRuns(a, p)
      /\ DOMAIN a = 1..(Len(runData[n]) + 1) /\ \A i \in DOMAIN runData[n] : a[i] = runData[n][i]
      /\ Last(a) = r /\ Len(a) = Len(runData[n]) + 1
  BY <1>2, AppendRunFacts
<1> HIDE DEF a
<1>7. /\ InRuns(runData'[to], p) <=> InRuns(runData[to], p) \/ used
      /\ (OnceInRuns(runData[to], p) /\ ~(InRuns(runData[to], p) /\ used)) => OnceInRuns(runData'[to], p)
  <2>1. CASE to = n
    BY <2>1, <1>2, <1>3, <1>6 DEF a
  <2>2. CASE to # n
    BY <2>2, <1>1, <1>2, <1>4
  <2> QED BY <2>1, <2>2
<1>8. ASSUME p \in Sent'
      PROVE  \/ p \in Sent
             \/ /\ p.connection \in wf.connections
                /\ from = n
                /\ n # wf.destination
                /\ p.connection.output \in outs
                /\ p.run = runs + 1
  <2>1. /\ p.connection \in wf.connections /\ p.run \in 1..(runs + 1)
        /\ from # wf.destination
    BY <1>2, <1>8 DEF Sent, from
  <2>2. PICK i \in DOMAIN runData'[from] :
            runData'[from][i].number = p.run /\ p.connection.output \in runData'[from][i].outs
    BY <1>8 DEF Sent, from
  <2>3. CASE i \in DOMAIN runData[from] /\ runData'[from][i] = runData[from][i]
    <3>1. p.run \in 1..runs
      BY <1>1, <2>2, <2>3 DEF NumberInv
    <3>2. p \in [connection : wf.connections, run : 1..runs]
      BY <2>1, <3>1 DEF Packet
    <3> QED BY <2>1, <2>2, <2>3, <3>2 DEF Sent, from
  <2>4. CASE from = n /\ runData'[from][i] = r
    BY <1>5, <2>1, <2>2, <2>4
  <2>5. from # n => i \in DOMAIN runData[from] /\ runData'[from][i] = runData[from][i]
    BY <1>1, <1>2
  <2>6. from = n => \/ i \in DOMAIN runData[from] /\ runData'[from][i] = runData[from][i]
                    \/ runData'[from][i] = r
    <3> SUFFICES ASSUME from = n PROVE (i \in DOMAIN runData[n] /\ a[i] = runData[n][i]) \/ a[i] = r
      BY <1>2 DEF a
    <3>1. i \in DOMAIN a
      BY <1>2 DEF a
    <3>2. Len(runData[n]) \in Nat /\ DOMAIN runData[n] = 1..Len(runData[n])
      BY <1>2, LenProperties
    <3>3. i = Len(runData[n]) + 1 \/ i \in DOMAIN runData[n]
      BY <3>1, <3>2, <1>6
    <3> QED BY <3>3, <1>6 DEF Last
  <2> QED BY <2>3, <2>4, <2>5, <2>6
<1> QED BY <1>7, <1>8 DEF Used, to, n, from

\* The packets in hand are used by the run; the new ones are due.
LEMMA RecordPlace ==
    ASSUME TypeInv, PlaceInv, TargetsInv, NumberInv,
           NEW outs \in SUBSET Nat, NEW s \in Finished, NEW e, Record(outs, s, e)
    PROVE  PlaceInv' /\ \A p \in Packet : Somewhere(p)' => Somewhere(p) \/ Due(p)'
<1> DEFINE new == IF current.node = wf.destination THEN {}
                  ELSE {c \in ConnectionsFrom(current.node) : c.output \in outs}
<1>1. /\ AddRun(current, outs, s) /\ phase = "running" /\ phase' # "running" /\ targets' = new
      /\ wf' = wf /\ stack' = stack /\ waitingExecution' = waitingExecution
      /\ current' = current /\ dropped' = dropped /\ lost' = lost
  BY DEF Record
<1>2. targets = {} /\ runs \in Nat /\ runs' = runs + 1
  BY <1>1, RunAdded DEF TargetsInv, TypeInv, Finished
<1>3. ASSUME NEW p \in Packet
      PROVE  /\ OnePlace(p)'
             /\ Somewhere(p)' => p.run <= runs'
             /\ p \in Sent' => Somewhere(p)'
             /\ Somewhere(p)' => Somewhere(p) \/ Due(p)'
  <2>1. /\ OnePlace(p) /\ (Somewhere(p) => p.run <= runs) /\ p.run \in Nat
        /\ p \in Sent => Somewhere(p)
    BY TypeFacts DEF PlaceInv
  <2> DEFINE used == p \in PacketsOf(current.inputs)
  <2>2. /\ Used(p)' <=> Used(p) \/ used
        /\ (OnceInRuns(runData[p.connection.to], p) /\ ~(Used(p) /\ used))
              => OnceInRuns(runData[p.connection.to], p)'
        /\ p \in Sent' => \/ p \in Sent
                          \/ /\ p.connection \in wf.connections
                             /\ p.connection.from = current.node
                             /\ current.node # wf.destination
                             /\ p.connection.output \in outs
                             /\ p.run = runs + 1
    <3>1. used = (s \in Finished /\ p \in PacketsOf(current.inputs))
      OBVIOUS
    <3> HIDE DEF used
    <3> QED BY <1>1, <3>1, RunAddedPackets
  <2>3. InHand(p) <=> used
    BY <1>1 DEF InHand
  <2>4. ~InHand(p)' /\ ~Due(p) /\ OnStack(p)' = OnStack(p) /\ Waits(p)' = Waits(p)
    BY <1>1, <1>2 DEF InHand, Due, OnStack, Waits
  <2>5. Due(p)' <=> p.connection \in new /\ p.run = runs + 1
    BY <1>1, <1>2 DEF Due
  <2>6. p \in Sent' => p \in Sent \/ Due(p)'
    BY <2>2, <2>5 DEF ConnectionsFrom
  <2>7. Due(p)' => ~Somewhere(p)
    BY <1>2, <2>1, <2>5
  <2>8. (p \in dropped)' = (p \in dropped) /\ (p \in lost)' = (p \in lost)
    BY <1>1
  <2>9. /\ OnceInStack(stack, p)' = OnceInStack(stack, p)
        /\ OnceInWaiting(waitingExecution[p.connection.to], p)'
              = OnceInWaiting(waitingExecution[p.connection.to], p)
    BY <1>1
  <2> HIDE DEF used, new
  <2>10. OnePlace(p)' /\ (Somewhere(p)' => Somewhere(p) \/ Due(p)') /\ (Somewhere(p) => Somewhere(p)')
    BY <2>1, <2>2, <2>3, <2>4, <2>7, <2>8, <2>9 DEF OnePlace, Somewhere, Apart
  <2>11. Due(p)' => Somewhere(p)'
    BY DEF Somewhere
  <2>12. Somewhere(p)' => p.run <= runs'
    BY <1>2, <2>1, <2>5, <2>10
  <2> QED BY <2>1, <2>6, <2>10, <2>11, <2>12
<1>4. Sent' \subseteq Packet
  <2>1. wf.connections \subseteq Connection /\ wf' = wf /\ runs' \in Nat
    BY WfFacts, <1>1, <1>2
  <2> QED BY <2>1 DEF Sent, Packet
<1> QED BY <1>3, <1>4 DEF PlaceInv

\* The packets in hand go back to the stack, and the run does not count.
LEMMA PutBackPlace ==
    ASSUME TypeInv, PlaceInv, TargetsInv, NumberInv, NEW s \in {"error", "waiting"}, PutBack(s)
    PROVE  PlaceInv' /\ SamePackets
<1>1. /\ AddRun(current, {}, s) /\ phase = "running" /\ phase' = "settling" /\ targets' = targets
      /\ wf' = wf /\ stack' = <<current>> \o stack /\ waitingExecution' = waitingExecution
      /\ current' = current /\ dropped' = dropped /\ lost' = lost
      /\ stack \in Seq(EntryType(wf)) /\ current \in EntryType(wf)
  BY DEF PutBack, TypeInv
<1>2. targets = {} /\ runs \in Nat /\ runs' = runs + 1
  BY <1>1, RunAdded DEF TargetsInv, TypeInv
<1>3. ASSUME NEW p \in Packet
      PROVE  /\ OnePlace(p)'
             /\ Somewhere(p)' => p.run <= runs'
             /\ p \in Sent' => Somewhere(p)'
             /\ Somewhere(p)' <=> Somewhere(p)
  <2>1. /\ OnePlace(p) /\ (Somewhere(p) => p.run <= runs) /\ p.run \in Nat
        /\ p \in Sent => Somewhere(p)
    BY TypeFacts DEF PlaceInv
  <2>2. /\ Used(p)' <=> Used(p)
        /\ OnceInRuns(runData[p.connection.to], p) => OnceInRuns(runData[p.connection.to], p)'
        /\ p \in Sent' => p \in Sent
    <3>1. FALSE = (s \in Finished /\ p \in PacketsOf(current.inputs))
      BY DEF Finished
    <3>2. PICK used : used = FALSE
      OBVIOUS
    <3>3. used = (s \in Finished /\ p \in PacketsOf(current.inputs))
      BY <3>1, <3>2
    <3>4. {} \in SUBSET Nat
      OBVIOUS
    <3> QED BY <1>1, <3>2, <3>3, <3>4, RunAddedPackets
  <2>3. InHand(p) <=> p \in PacketsOf(current.inputs)
    BY <1>1 DEF InHand
  <2>4. ~InHand(p)' /\ ~Due(p) /\ ~Due(p)' /\ Waits(p)' = Waits(p)
    BY <1>1, <1>2 DEF InHand, Due, Waits
  <2>5. /\ OnStack(p)' <=> p \in PacketsOf(current.inputs) \/ OnStack(p)
        /\ (OnceInStack(stack, p) /\ ~(p \in PacketsOf(current.inputs) /\ OnStack(p)))
              => OnceInStack(stack, p)'
    BY <1>1, PushFacts DEF OnStack
  <2>6. (p \in dropped)' = (p \in dropped) /\ (p \in lost)' = (p \in lost)
    BY <1>1
  <2>7. OnceInWaiting(waitingExecution[p.connection.to], p)'
              = OnceInWaiting(waitingExecution[p.connection.to], p)
    BY <1>1
  <2>8. OnePlace(p)' /\ (Somewhere(p)' <=> Somewhere(p))
    BY <2>1, <2>2, <2>3, <2>4, <2>5, <2>6, <2>7 DEF OnePlace, Somewhere, Apart
  <2> QED BY <1>2, <2>1, <2>2, <2>8
<1>4. Sent' \subseteq Packet
  <2>1. wf.connections \subseteq Connection /\ wf' = wf /\ runs' \in Nat
    BY WfFacts, <1>1, <1>2
  <2> QED BY <2>1 DEF Sent, Packet
<1> QED BY <1>3, <1>4 DEF PlaceInv, SamePackets

-----------------------------------------------------------------------------
(* Waiting entries. *)

\* The entries of one node are set.
LEMMA SetWaitingFacts ==
    ASSUME TypeInv, NEW n \in Nodes, NEW f \in Partial(InputsOf(wf, n)), SetWaiting(n, f)
    PROVE  /\ waitingExecution' \in WaitingType(wf)
           /\ waitingExecution'[n] = f
           /\ \A m \in Nodes : m # n => waitingExecution'[m] = waitingExecution[m]
<1>1. waitingExecution \in WaitingType(wf) /\ waitingExecution' = [waitingExecution EXCEPT ![n] = f]
  BY DEF SetWaiting, TypeInv
<1> QED BY <1>1 DEF WaitingType

\* A node leaves the list of waiting nodes.
LEMMA RemovedFacts ==
    ASSUME NEW N, NEW s \in Seq(N), NEW n, n \in Range(s),
           \A i, j \in DOMAIN s : s[i] = s[j] => i = j
    PROVE  LET t == Removed(s, n) IN
           /\ t \in Seq(N)
           /\ \A m : m \in Range(t) <=> m \in Range(s) /\ m # n
           /\ \A i, j \in DOMAIN t : t[i] = t[j] => i = j
<1> DEFINE x == CHOOSE i \in DOMAIN s : s[i] = n
           t == Removed(s, n)
<1>1. x \in DOMAIN s /\ s[x] = n
  BY DEF Range
<1> HIDE DEF x
<1>2. PICK l \in Nat : l = Len(s)
  BY LenProperties
<1>3. DOMAIN s = 1..l /\ \A i \in 1..l : s[i] \in N
  BY <1>2, LenProperties
<1>4. PICK k \in 1..l : k = x
  BY <1>1, <1>3
<1> DEFINE a == SubSeq(s, 1, k - 1)
           b == SubSeq(s, k + 1, l)
<1>5. /\ a \in Seq(N)
      /\ Len(a) = IF 1 <= k - 1 THEN (k - 1) - 1 + 1 ELSE 0
      /\ \A i \in 1..((k - 1) - 1 + 1) : a[i] = s[1 + i - 1]
  <2>1. PICK m \in Int : m = k - 1
    OBVIOUS
  <2>2. \A i \in 1..m : s[i] \in N
    BY <1>3, <2>1
  <2>3. /\ SubSeq(s, 1, m) \in Seq(N)
        /\ Len(SubSeq(s, 1, m)) = IF 1 <= m THEN m - 1 + 1 ELSE 0
        /\ \A i \in 1..(m - 1 + 1) : SubSeq(s, 1, m)[i] = s[1 + i - 1]
    BY <2>2, SubSeqProperties
  <2> QED BY <2>1, <2>3
<1>6. /\ b \in Seq(N)
      /\ Len(b) = IF k + 1 <= l THEN l - (k + 1) + 1 ELSE 0
      /\ \A i \in 1..(l - (k + 1) + 1) : b[i] = s[(k + 1) + i - 1]
  <2>1. PICK m \in Int : m = k + 1
    OBVIOUS
  <2>2. \A i \in m..l : s[i] \in N
    BY <1>3, <2>1
  <2>3. /\ SubSeq(s, m, l) \in Seq(N)
        /\ Len(SubSeq(s, m, l)) = IF m <= l THEN l - m + 1 ELSE 0
        /\ \A i \in 1..(l - m + 1) : SubSeq(s, m, l)[i] = s[m + i - 1]
    BY <2>2, SubSeqProperties
  <2> QED BY <2>1, <2>3
<1>7. t = a \o b
  BY <1>2, <1>4 DEF Removed, RemoveAt, x
<1> HIDE DEF a, b, t
<1>8. Len(a) = k - 1 /\ Len(b) = l - k
  BY <1>5, <1>6
<1>9. /\ t \in Seq(N) /\ Len(t) = l - 1
      /\ \A i \in 1..(l - 1) : t[i] = IF i <= k - 1 THEN a[i] ELSE b[i - (k - 1)]
  <2>1. /\ a \o b \in Seq(N)
        /\ Len(a \o b) = Len(a) + Len(b)
        /\ \A i \in 1..(Len(a) + Len(b)) : (a \o b)[i] = IF i <= Len(a) THEN a[i] ELSE b[i - Len(a)]
    <3>1. a \in Seq(N) /\ b \in Seq(N)
      BY <1>5, <1>6
    <3> QED BY <3>1, ConcatProperties
  <2>2. PICK la \in Int, lb \in Int : la = Len(a) /\ lb = Len(b)
    BY <1>8
  <2>3. la = k - 1 /\ la + lb = l - 1
    BY <1>8, <2>2
  <2>4. \A i \in 1..(la + lb) : t[i] = IF i <= la THEN a[i] ELSE b[i - la]
    BY <2>1, <2>2, <1>7
  <2>5. t \in Seq(N) /\ Len(t) = la + lb
    BY <2>1, <2>2, <1>7
  <2> QED BY <2>3, <2>4, <2>5
<1>10. DOMAIN t = 1..(l - 1)
  BY <1>9, LenProperties
<1>11. \A i \in 1..(l - 1) : t[i] = IF i < k THEN s[i] ELSE s[i + 1]
  <2> TAKE i \in 1..(l - 1)
  <2>1. CASE i < k
    <3>1. i \in 1..((k - 1) - 1 + 1) /\ 1 + i - 1 = i /\ i <= k - 1
      BY <2>1
    <3> QED BY <3>1, <2>1, <1>5, <1>9
  <2>2. CASE ~(i < k)
    <3>1. PICK j \in Int : j = i - (k - 1)
      OBVIOUS
    <3>2. j \in 1..(l - (k + 1) + 1) /\ (k + 1) + j - 1 = i + 1 /\ ~(i <= k - 1)
      BY <2>2, <3>1
    <3>3. t[i] = b[j]
      BY <3>1, <3>2, <1>9
    <3>4. b[j] = s[(k + 1) + j - 1]
      BY <3>2, <1>6
    <3> QED BY <3>2, <3>3, <3>4, <2>2
  <2> QED BY <2>1, <2>2
<1>12. \A i, j \in DOMAIN t : t[i] = t[j] => i = j
  <2> SUFFICES ASSUME NEW i \in 1..(l - 1), NEW j \in 1..(l - 1), t[i] = t[j] PROVE i = j
    BY <1>10
  <2>1. PICK y \in 1..l : y = (IF i < k THEN i ELSE i + 1) /\ t[i] = s[y]
    BY <1>11
  <2>2. PICK z \in 1..l : z = (IF j < k THEN j ELSE j + 1) /\ t[j] = s[z]
    BY <1>11
  <2>3. y = z
    BY <2>1, <2>2, <1>3
  <2> QED BY <2>1, <2>2, <2>3
<1>13. ASSUME NEW m PROVE m \in Range(t) <=> m \in Range(s) /\ m # n
  <2>1. ASSUME m \in Range(t) PROVE m \in Range(s) /\ m # n
    <3>1. PICK i \in 1..(l - 1) : t[i] = m
      BY <1>10, <2>1 DEF Range
    <3>2. PICK y \in 1..l : y # k /\ s[y] = m
      BY <3>1, <1>11
    <3> QED BY <3>2, <1>1, <1>3, <1>4 DEF Range
  <2>2. ASSUME m \in Range(s), m # n PROVE m \in Range(t)
    <3>1. PICK y \in 1..l : s[y] = m
      BY <1>3, <2>2 DEF Range
    <3>2. y # k
      BY <3>1, <2>2, <1>1, <1>4
    <3>3. PICK i \in 1..(l - 1) : i = IF y < k THEN y ELSE y - 1
      BY <3>2
    <3>4. t[i] = s[y]
      BY <3>2, <3>3, <1>11
    <3> QED BY <3>1, <3>4, <1>10 DEF Range
  <2> QED BY <2>1, <2>2
<1> QED BY <1>9, <1>12, <1>13 DEF t

\* The list of waiting nodes follows the entries.
LEMMA SetWaitingList ==
    ASSUME TypeInv, WaitingInv, NEW n \in Nodes, NEW f \in Partial(InputsOf(wf, n)), SetWaiting(n, f),
           DOMAIN f = {} => DOMAIN waitingExecution[n] # {}
    PROVE  WaitingInv' /\ waitingNodes' \in Seq(Nodes)
<1>1. /\ waitingExecution'[n] = f
      /\ \A m \in Nodes : m # n => waitingExecution'[m] = waitingExecution[m]
  BY SetWaitingFacts
<1>2. waitingNodes \in Seq(Nodes)
  BY DEF TypeInv
<1>3. \A i, j \in DOMAIN waitingNodes : waitingNodes[i] = waitingNodes[j] => i = j
  BY DEF WaitingInv
<1>4. CASE DOMAIN f = {}
  <2>1. n \in Range(waitingNodes) /\ waitingNodes' = Removed(waitingNodes, n)
    BY <1>4 DEF WaitingInv, SetWaiting
  <2>2. /\ waitingNodes' \in Seq(Nodes)
        /\ \A m : m \in Range(waitingNodes') <=> m \in Range(waitingNodes) /\ m # n
        /\ \A i, j \in DOMAIN waitingNodes' : waitingNodes'[i] = waitingNodes'[j] => i = j
    BY <1>2, <1>3, <2>1, RemovedFacts
  <2> QED BY <1>1, <1>4, <2>2 DEF WaitingInv
<1>5. CASE DOMAIN f # {} /\ n \in Range(waitingNodes)
  <2>1. waitingNodes' = waitingNodes
    BY <1>5 DEF SetWaiting
  <2> QED BY <1>1, <1>2, <1>5, <2>1 DEF WaitingInv
<1>6. CASE DOMAIN f # {} /\ n \notin Range(waitingNodes)
  <2>1. PICK s, t : s = waitingNodes /\ t = waitingNodes'
    OBVIOUS
  <2>2. t = Append(s, n) /\ s \in Seq(Nodes)
    BY <1>2, <1>6, <2>1 DEF SetWaiting
  <2>3. PICK l \in Nat : l = Len(s)
    BY <2>2, LenProperties
  <2>4. DOMAIN s = 1..l
    BY <2>2, <2>3, LenProperties
  <2>5. /\ t \in Seq(Nodes) /\ Len(t) = l + 1
        /\ \A i \in 1..l : t[i] = s[i]
        /\ t[l + 1] = n
    BY <2>2, <2>3, AppendProperties
  <2>6. DOMAIN t = 1..(l + 1)
    BY <2>5, LenProperties
  <2>7. \A i \in DOMAIN t : i = l + 1 \/ (i \in DOMAIN s /\ t[i] = s[i])
    BY <2>4, <2>5, <2>6
  <2>8. l + 1 \in DOMAIN t /\ \A i \in DOMAIN s : i \in DOMAIN t /\ t[i] = s[i]
    BY <2>4, <2>5, <2>6
  <2>9. \A m : m \in Range(t) <=> m \in Range(s) \/ m = n
    BY <2>5, <2>7, <2>8 DEF Range
  <2>10. \A i, j \in DOMAIN t : t[i] = t[j] => i = j
    <3>1. \A i \in DOMAIN s : s[i] # n
      BY <1>6, <2>1 DEF Range
    <3> QED BY <3>1, <1>3, <2>1, <2>5, <2>7
  <2> QED BY <1>1, <1>6, <2>1, <2>5, <2>9, <2>10 DEF WaitingInv
<1> QED BY <1>4, <1>5, <1>6

\* What addNodeToBeExecuted does at a node with several inputs: the packet joins
\* the inputs of one entry, unless the entry is created, when those of an
\* entry in its place are lost.
AddedTo(c, packet, inputs, index, old, moved, created) ==
    /\ old = waitingExecution[c.to] /\ old \in Partial(InputsOf(wf, c.to))
    /\ index \in Nat
    /\ moved = IF index \in DOMAIN old THEN PacketsOf(old[index]) ELSE {}
    /\ inputs \in InputsOf(wf, c.to)
    /\ PacketsOf(inputs) = {packet} \cup (IF created THEN {} ELSE moved)
    /\ lost' = lost \cup (IF created THEN moved ELSE {})
    /\ created \in BOOLEAN
    /\ ~created => index \in DOMAIN old
    /\ created => DOMAIN inputs = {c.input}
    /\ \/ /\ Cardinality(DOMAIN inputs) = NumberOfInputs(c.to)
          /\ stack' = <<Entry(c.to, inputs)>> \o stack
          /\ SetWaiting(c.to, Without(old, index))
       \/ /\ SetWaiting(c.to, With(old, index, inputs))
          /\ stack' = stack

\* The packet's entry, with the case that it is created.
LEMMA AddToWaitingFacts ==
    ASSUME TypeInv, NEW c \in wf.connections, NEW packet \in Packet, packet.connection = c,
           AddToWaiting(c, packet)
    PROVE  \E inputs, index, old, moved, created :
              AddedTo(c, packet, inputs, index, old, moved, created)
<1> DEFINE old == waitingExecution[c.to]
           index == waitingNodeIndex(c.to, c.input)
           missing == MissingInput(c.to, c.input)
           created == missing = {}
           before == IF created THEN NoInputs ELSE old[index]
           inputs == With(before, c.input, packet)
           moved == IF index \in DOMAIN old THEN PacketsOf(old[index]) ELSE {}
<1>1. wf.connections \subseteq Connection /\ c.to \in Nodes /\ c.input \in Nat
  BY WfFacts DEF Connection
<1>2. old \in Partial(InputsOf(wf, c.to))
  BY <1>1, TypeFacts
<1>3. DOMAIN old \in SUBSET Nat /\ IsFiniteSet(DOMAIN old) /\ old \in [DOMAIN old -> InputsOf(wf, c.to)]
  BY <1>2, PartialFacts
<1>4. missing = {k \in DOMAIN old : c.input \notin DOMAIN old[k]}
  BY DEF MissingInput
<1>5. ~created => index \in missing
  <2> SUFFICES ASSUME ~created PROVE index \in missing
    OBVIOUS
  <2>1. index = Min(missing)
    BY DEF waitingNodeIndex
  <2>2. missing \in SUBSET Nat /\ missing # {}
    BY <1>3, <1>4
  <2> QED BY <2>1, <2>2, MinOfNat
<1>6. index \in Nat
  <2>1. CASE created
    <3>1. index = Cardinality(DOMAIN old)
      BY <2>1 DEF waitingNodeIndex
    <3> QED BY <3>1, <1>3, FS_CardinalityType
  <2>2. CASE ~created
    BY <2>2, <1>3, <1>4, <1>5
  <2> QED BY <2>1, <2>2
<1>7. before \in InputsOf(wf, c.to) /\ c.input \notin DOMAIN before
  <2>1. CASE created
    <3>1. NoInputs \in InputsOf(wf, c.to) /\ DOMAIN NoInputs = {}
      BY NoInputsType, PartialEmpty DEF NoInputs
    <3> QED BY <2>1, <3>1
  <2>2. CASE ~created
    BY <2>2, <1>3, <1>4, <1>5
  <2> QED BY <2>1, <2>2
<1>8. PacketsOf(before) = IF created THEN {} ELSE moved
  <2>1. CASE created
    BY <2>1, NoInputsType
  <2>2. CASE ~created
    BY <2>2, <1>4, <1>5
  <2> QED BY <2>1, <2>2
<1>9. created => DOMAIN before = {}
  BY PartialEmpty DEF NoInputs
<1>10. /\ IF Cardinality(DOMAIN inputs) = NumberOfInputs(c.to)
          THEN /\ stack' = <<Entry(c.to, inputs)>> \o stack
               /\ SetWaiting(c.to, Without(old, index))
          ELSE /\ SetWaiting(c.to, With(old, index, inputs))
               /\ stack' = stack
       /\ lost' = IF created /\ index \in DOMAIN old
                  THEN lost \cup PacketsOf(old[index])
                  ELSE lost
  BY DEF AddToWaiting, Push
<1>11. lost' = lost \cup (IF created THEN moved ELSE {})
  BY <1>10
<1>12. ~created => index \in DOMAIN old
  BY <1>4, <1>5
<1>15. created \in BOOLEAN
  OBVIOUS
<1> HIDE DEF old, index, missing, created, before, moved
<1>13. /\ inputs \in InputsOf(wf, c.to)
       /\ DOMAIN inputs = DOMAIN before \cup {c.input}
       /\ PacketsOf(inputs) = PacketsOf(before) \cup {packet}
  <2>1. PICK f : f = before
    OBVIOUS
  <2>2. f \in InputsOf(wf, c.to) /\ c.input \notin DOMAIN f
    BY <1>7, <2>1
  <2>3. /\ With(f, c.input, packet) \in InputsOf(wf, c.to)
        /\ DOMAIN With(f, c.input, packet) = DOMAIN f \cup {c.input}
        /\ PacketsOf(With(f, c.input, packet)) = PacketsOf(f) \cup {packet}
    BY <1>1, <2>2, InputsWith
  <2> QED BY <2>1, <2>3
<1> HIDE DEF inputs
<1>14. AddedTo(c, packet, inputs, index, old, moved, created)
  <2>1. old = waitingExecution[c.to]
    BY DEF old
  <2>2. moved = IF index \in DOMAIN old THEN PacketsOf(old[index]) ELSE {}
    BY DEF moved
  <2>3. PacketsOf(inputs) = {packet} \cup (IF created THEN {} ELSE moved)
    BY <1>8, <1>13
  <2>4. created => DOMAIN inputs = {c.input}
    BY <1>9, <1>13
  <2> QED BY <1>2, <1>6, <1>10, <1>11, <1>12, <1>13, <1>15, <2>1, <2>2, <2>3, <2>4 DEF AddedTo
<1> QED BY <1>14

\* The packet that was due is on the stack or waits, and takes those it was
\* waiting for along.
LEMMA AddNodePlace ==
    ASSUME TypeInv, PlaceInv, NEW c \in wf.connections, AddNode(c)
    PROVE  PlaceInv' /\ SamePackets
<1>1. PICK packet : packet = [connection |-> c, run |-> runs]
  OBVIOUS
<1>2. /\ packet \in Packet /\ packet.connection = c /\ packet.run = runs
      /\ c \in Connection /\ c.to \in Nodes /\ c.input \in Nat /\ runs \in Nat
  BY <1>1, WfFacts DEF Packet, Connection, TypeInv
<1>3. /\ phase = "adding" /\ phase' = "adding" /\ c \in targets /\ targets' = targets \ {c}
      /\ wf' = wf /\ runData' = runData /\ current' = current /\ runs' = runs
      /\ dropped' = dropped
      /\ stack \in Seq(EntryType(wf))
  BY DEF AddNode, IsNextTarget, engineVars, TypeInv
<1>4. ASSUME NEW p \in Packet
      PROVE  /\ Due(p) <=> Due(p)' \/ p = packet
             /\ ~(Due(p)' /\ p = packet)
             /\ Used(p)' = Used(p) /\ ~InHand(p) /\ ~InHand(p)'
             /\ (p \in dropped)' = (p \in dropped)
             /\ OnceInRuns(runData[p.connection.to], p)' = OnceInRuns(runData[p.connection.to], p)
  <2>1. p.connection = c /\ p.run = runs => p = packet
    BY <1>1 DEF Packet
  <2> QED BY <1>2, <1>3, <2>1 DEF Due, Used, InHand
<1>5. CASE NumberOfInputs(c.to) > 1
  <2>1. AddToWaiting(c, packet)
    BY <1>1, <1>5 DEF AddNode
  <2>2. PICK inputs, index, old, moved, created :
            AddedTo(c, packet, inputs, index, old, moved, created)
    BY <1>2, <2>1, AddToWaitingFacts
  <2> DEFINE less == Without(old, index)
             more == With(old, index, inputs)
             entry == Entry(c.to, inputs)
  <2>3. /\ old = waitingExecution[c.to] /\ old \in Partial(InputsOf(wf, c.to)) /\ index \in Nat
        /\ inputs \in InputsOf(wf, c.to) /\ created \in BOOLEAN
    BY <2>2 DEF AddedTo
  <2>4. less \in Partial(InputsOf(wf, c.to)) /\ more \in Partial(InputsOf(wf, c.to))
    BY <2>3, PartialWith, PartialWithout
  <2>5. entry \in EntryType(wf) /\ entry.inputs = inputs
    BY <1>2, <2>3, EntryIsTyped
  <2>6. ASSUME NEW p \in Packet
        PROVE  /\ p \in PacketsOf(inputs) \/ p \in moved => p.connection.to = c.to
               /\ InWaiting(old, p) <=> p \in moved \/ InWaiting(less, p)
               /\ OnceInWaiting(old, p) => OnceInWaiting(less, p) /\ ~(p \in moved /\ InWaiting(less, p))
               /\ InWaiting(more, p) <=> p \in PacketsOf(inputs) \/ InWaiting(less, p)
               /\ (OnceInWaiting(less, p) /\ ~(p \in PacketsOf(inputs) /\ InWaiting(less, p)))
                     => OnceInWaiting(more, p)
    <3>1. /\ moved = IF index \in DOMAIN old THEN PacketsOf(old[index]) ELSE {}
      BY <2>2 DEF AddedTo
    <3>2. p \in PacketsOf(inputs) \/ p \in moved => p.connection.to = c.to
      <4>1. old \in [DOMAIN old -> InputsOf(wf, c.to)]
        BY <2>3, PartialFacts
      <4> QED BY <2>3, <3>1, <4>1, InputsFacts
    <3>3. /\ index \in DOMAIN old =>
                /\ InWaiting(old, p) <=> p \in PacketsOf(old[index]) \/ InWaiting(less, p)
                /\ OnceInWaiting(old, p) => OnceInWaiting(less, p) /\ ~(p \in PacketsOf(old[index]) /\ InWaiting(less, p))
          /\ index \notin DOMAIN old =>
                /\ InWaiting(old, p) <=> InWaiting(less, p)
                /\ OnceInWaiting(old, p) => OnceInWaiting(less, p)
      BY <2>3, WithoutFacts
    <3>4. /\ InWaiting(more, p) <=> p \in PacketsOf(inputs) \/ InWaiting(less, p)
          /\ (OnceInWaiting(less, p) /\ ~(p \in PacketsOf(inputs) /\ InWaiting(less, p)))
                     => OnceInWaiting(more, p)
      BY <2>3, WithFacts
    <3> QED BY <3>1, <3>2, <3>3, <3>4
  <2> HIDE DEF less, more, entry
  <2>7. ASSUME NEW p \in Packet PROVE OnePlace(p)' /\ (Somewhere(p)' <=> Somewhere(p))
    <3>1. /\ PacketsOf(inputs) = {packet} \cup (IF created THEN {} ELSE moved)
          /\ lost' = lost \cup (IF created THEN moved ELSE {})
      BY <2>2 DEF AddedTo
    <3>2. OnePlace(p)
      BY DEF PlaceInv
    <3>3. p \in moved => ~Due(p) /\ p # packet /\ Waits(p)
      <4>1. p \in moved => Waits(p)
        BY <2>3, <2>6 DEF Waits
      <4> QED BY <4>1, <3>2, <1>4 DEF OnePlace, Apart
    <3>4. p = packet => ~Waits(p) /\ ~OnStack(p)
      BY <3>2, <1>4 DEF OnePlace, Apart
    <3>5. CASE stack' = <<entry>> \o stack /\ SetWaiting(c.to, less)
      <4>1. /\ OnStack(p)' <=> p \in PacketsOf(inputs) \/ OnStack(p)
            /\ (OnceInStack(stack, p) /\ ~(p \in PacketsOf(inputs) /\ OnStack(p)))
                   => OnceInStack(stack, p)'
        BY <1>3, <2>5, <3>5, PushFacts DEF OnStack
      <4>2. /\ waitingExecution'[c.to] = less
            /\ \A m \in Nodes : m # c.to => waitingExecution'[m] = waitingExecution[m]
        BY <1>2, <2>4, <3>5, SetWaitingFacts
      <4>3. CASE p.connection.to = c.to
        <5>1. /\ Waits(p) <=> p \in moved \/ Waits(p)'
              /\ OnceInWaiting(waitingExecution[p.connection.to], p) =>
                    OnceInWaiting(waitingExecution[p.connection.to], p)' /\ ~(p \in moved /\ Waits(p)')
          BY <2>3, <2>6, <4>2, <4>3 DEF Waits
        <5> QED BY <1>4, <3>1, <3>2, <3>3, <3>4, <4>1, <5>1 DEF OnePlace, Apart, Somewhere
      <4>4. CASE p.connection.to # c.to
        <5>1. /\ Waits(p) <=> Waits(p)'
              /\ OnceInWaiting(waitingExecution[p.connection.to], p)' =
                    OnceInWaiting(waitingExecution[p.connection.to], p)
              /\ p \notin PacketsOf(inputs) /\ p \notin moved
          BY <2>6, <4>2, <4>4, TypeFacts DEF Waits
        <5> QED BY <1>4, <3>1, <3>2, <3>3, <3>4, <4>1, <5>1 DEF OnePlace, Apart, Somewhere
      <4> QED BY <4>3, <4>4
    <3>6. CASE stack' = stack /\ SetWaiting(c.to, more)
      <4>1. /\ OnStack(p)' <=> OnStack(p)
            /\ OnceInStack(stack, p)' = OnceInStack(stack, p)
        BY <3>6 DEF OnStack
      <4>2. /\ waitingExecution'[c.to] = more
            /\ \A m \in Nodes : m # c.to => waitingExecution'[m] = waitingExecution[m]
        BY <1>2, <2>4, <3>6, SetWaitingFacts
      <4>3. CASE p.connection.to = c.to
        <5>1. PICK W, OW : W = InWaiting(less, p) /\ OW = OnceInWaiting(less, p)
          OBVIOUS
        <5>2. /\ Waits(p) <=> p \in moved \/ W
              /\ OnceInWaiting(waitingExecution[p.connection.to], p) => OW /\ ~(p \in moved /\ W)
              /\ Waits(p)' <=> p \in PacketsOf(inputs) \/ W
              /\ (OW /\ ~(p \in PacketsOf(inputs) /\ W)) =>
                    OnceInWaiting(waitingExecution[p.connection.to], p)'
          BY <2>3, <2>6, <4>2, <4>3, <5>1 DEF Waits
        <5> QED BY <1>4, <3>1, <3>2, <3>3, <3>4, <4>1, <5>2 DEF OnePlace, Apart, Somewhere
      <4>4. CASE p.connection.to # c.to
        <5>1. /\ Waits(p) <=> Waits(p)'
              /\ OnceInWaiting(waitingExecution[p.connection.to], p)' =
                    OnceInWaiting(waitingExecution[p.connection.to], p)
              /\ p \notin PacketsOf(inputs) /\ p \notin moved
          BY <2>6, <4>2, <4>4, TypeFacts DEF Waits
        <5> QED BY <1>4, <3>1, <3>2, <3>3, <3>4, <4>1, <5>1 DEF OnePlace, Apart, Somewhere
      <4> QED BY <4>3, <4>4
    <3> QED BY <2>2, <3>5, <3>6 DEF AddedTo, less, more, entry
  <2> QED BY <1>3, <2>7, SentSame, Moved DEF SamePackets
<1>6. CASE ~(NumberOfInputs(c.to) > 1)
  <2> DEFINE inputs == With(NoInputs, c.input, packet)
             entry == Entry(c.to, inputs)
  <2>1. /\ stack' = <<entry>> \o stack /\ waitingExecution' = waitingExecution /\ lost' = lost
    BY <1>1, <1>6 DEF AddNode, Push
  <2>2. inputs \in InputsOf(wf, c.to) /\ PacketsOf(inputs) = {packet}
    <3>1. NoInputs \in InputsOf(wf, c.to) /\ PacketsOf(NoInputs) = {} /\ c.input \notin DOMAIN NoInputs
      BY NoInputsType, PartialEmpty DEF NoInputs
    <3>2. wf.connections \subseteq Connection
      BY WfFacts
    <3>3. PICK f : f = NoInputs
      OBVIOUS
    <3>4. f \in InputsOf(wf, c.to) /\ c.input \notin DOMAIN f
      BY <3>1, <3>3
    <3>5. /\ With(f, c.input, packet) \in InputsOf(wf, c.to)
          /\ DOMAIN With(f, c.input, packet) = DOMAIN f \cup {c.input}
          /\ PacketsOf(With(f, c.input, packet)) = PacketsOf(f) \cup {packet}
      BY <1>2, <3>2, <3>4, InputsWith
    <3> QED BY <3>1, <3>3, <3>5
  <2>3. entry \in EntryType(wf) /\ entry.inputs = inputs
    <3> HIDE DEF inputs
    <3> QED BY <1>2, <2>2, EntryIsTyped
  <2> HIDE DEF inputs, entry
  <2>4. ASSUME NEW p \in Packet PROVE OnePlace(p)' /\ (Somewhere(p)' <=> Somewhere(p))
    <3>1. OnePlace(p)
      BY DEF PlaceInv
    <3>2. /\ OnStack(p)' <=> p = packet \/ OnStack(p)
          /\ (OnceInStack(stack, p) /\ ~(p = packet /\ OnStack(p))) => OnceInStack(stack, p)'
      BY <1>3, <2>1, <2>2, <2>3, PushFacts DEF OnStack
    <3>3. /\ Waits(p)' = Waits(p) /\ (p \in lost)' = (p \in lost)
          /\ OnceInWaiting(waitingExecution[p.connection.to], p)' =
                 OnceInWaiting(waitingExecution[p.connection.to], p)
      BY <2>1 DEF Waits
    <3> QED BY <1>4, <3>1, <3>2, <3>3 DEF OnePlace, Apart, Somewhere
  <2> QED BY <1>3, <2>4, SentSame, Moved DEF SamePackets
<1> QED BY <1>5, <1>6

\* The search for waiting nodes puts the first entry of node n on the stack.
TakesWaiting(n, k) ==
    /\ n \in Nodes /\ n \in Range(waitingNodes) /\ MayRunIncomplete(n)
    /\ k \in DOMAIN waitingExecution[n] /\ k = firstRunIndex(n)
    /\ stack = << >>
    /\ stack' = <<Entry(n, waitingExecution[n][k])>> \o stack
    /\ SetWaiting(n, Without(waitingExecution[n], k))

\* It finds none, or there was no need to look for one.
FindsNone ==
    /\ UNCHANGED <<stack, waitingExecution, waitingNodes>>
    /\ stack = << >> => \A n \in Range(waitingNodes) : ~MayRunIncomplete(n)

\* The two outcomes of the search.
LEMMA NodeDoneFacts ==
    ASSUME TypeInv, WaitingInv, NodeDone
    PROVE  FindsNone \/ \E n, k : TakesWaiting(n, k)
<1> DEFINE ready == {i \in DOMAIN waitingNodes : MayRunIncomplete(waitingNodes[i])}
<1>1. waitingNodes \in Seq(Nodes)
  BY DEF TypeInv
<1>2. CASE stack = << >> /\ ready # {}
  <2> DEFINE n == waitingNodes[Min(ready)]
             k == firstRunIndex(n)
  <2>1. Min(ready) \in ready
    <3>1. ready \in SUBSET Nat
      BY <1>1, LenProperties
    <3> QED BY <1>2, <3>1, MinOfNat
  <2>2. n \in Nodes /\ n \in Range(waitingNodes) /\ MayRunIncomplete(n)
    <3>1. \A i \in DOMAIN waitingNodes : waitingNodes[i] \in Nodes
      BY <1>1, LenProperties
    <3> QED BY <2>1, <3>1 DEF Range
  <2>3. /\ stack' = <<Entry(n, waitingExecution[n][k])>> \o stack
        /\ SetWaiting(n, Without(waitingExecution[n], k))
    BY <1>2 DEF NodeDone, Push
  <2> HIDE DEF n
  <2>4. k \in DOMAIN waitingExecution[n]
    <3>1. DOMAIN waitingExecution[n] # {} /\ waitingExecution[n] \in Partial(InputsOf(wf, n))
      BY <2>2, TypeFacts DEF WaitingInv
    <3>2. DOMAIN waitingExecution[n] \in SUBSET Nat
      BY <3>1, PartialFacts
    <3> QED BY <3>1, <3>2, MinOfNat DEF firstRunIndex
  <2>5. TakesWaiting(n, k)
    BY <1>2, <2>2, <2>3, <2>4 DEF TakesWaiting
  <2> QED BY <2>5
<1>3. CASE ~(stack = << >> /\ ready # {})
  BY <1>3 DEF NodeDone, FindsNone, Range
<1> QED BY <1>2, <1>3

\* The entry that the search takes.
LEMMA TakesWaitingFacts ==
    ASSUME TypeInv, NEW n, NEW k, TakesWaiting(n, k)
    PROVE  /\ waitingExecution[n][k] \in InputsOf(wf, n)
           /\ Without(waitingExecution[n], k) \in Partial(InputsOf(wf, n))
           /\ Entry(n, waitingExecution[n][k]) \in EntryType(wf)
           /\ Entry(n, waitingExecution[n][k]).inputs = waitingExecution[n][k]
           /\ Entry(n, waitingExecution[n][k]).node = n
<1>1. n \in Nodes /\ k \in DOMAIN waitingExecution[n]
  BY DEF TakesWaiting
<1>2. waitingExecution[n] \in Partial(InputsOf(wf, n))
  BY <1>1, TypeFacts
<1>3. waitingExecution[n][k] \in InputsOf(wf, n)
  BY <1>1, <1>2, PartialFacts
<1>4. Without(waitingExecution[n], k) \in Partial(InputsOf(wf, n))
  BY <1>2, PartialWithout
<1> QED BY <1>1, <1>3, <1>4, EntryIsTyped

\* The packets of that entry move to the stack.
LEMMA NodeDonePlace ==
    ASSUME TypeInv, WaitingInv, PlaceInv, NodeDone PROVE PlaceInv' /\ SamePackets
<1>1. /\ phase = "after" /\ phase' = "loop" /\ wf' = wf /\ runData' = runData /\ current' = current
      /\ targets' = targets /\ runs' = runs /\ dropped' = dropped /\ lost' = lost
      /\ stack \in Seq(EntryType(wf))
  BY DEF NodeDone, TypeInv
<1>2. CASE FindsNone
  <2>1. ASSUME NEW p \in Packet PROVE OnePlace(p)' /\ (Somewhere(p)' <=> Somewhere(p))
    <3>1. OnePlace(p)
      BY DEF PlaceInv
    <3> QED BY <1>1, <1>2, <3>1
            DEF FindsNone, OnePlace, Somewhere, Apart, OnStack, Waits, Used, InHand, Due
  <2> QED BY <1>1, <2>1, SentSame, Moved DEF SamePackets
<1>3. ASSUME NEW n, NEW k, TakesWaiting(n, k) PROVE PlaceInv' /\ SamePackets
  <2> DEFINE old == waitingExecution[n]
             less == Without(old, k)
             inputs == old[k]
             entry == Entry(n, inputs)
  <2>1. /\ inputs \in InputsOf(wf, n) /\ less \in Partial(InputsOf(wf, n))
        /\ entry \in EntryType(wf) /\ entry.inputs = inputs
    BY <1>3, TakesWaitingFacts
  <2>2. /\ n \in Nodes /\ k \in DOMAIN old /\ stack' = <<entry>> \o stack /\ SetWaiting(n, less)
    BY <1>3 DEF TakesWaiting
  <2>3. old \in Partial(InputsOf(wf, n))
    BY <2>2, TypeFacts
  <2>4. /\ waitingExecution'[n] = less
        /\ \A m \in Nodes : m # n => waitingExecution'[m] = waitingExecution[m]
    <3> HIDE DEF less
    <3> QED BY <2>1, <2>2, SetWaitingFacts
  <2>5. ASSUME NEW p \in Packet PROVE OnePlace(p)' /\ (Somewhere(p)' <=> Somewhere(p))
    <3>1. OnePlace(p)
      BY DEF PlaceInv
    <3>2. p \in PacketsOf(inputs) => p.connection.to = n
      BY <2>1, InputsFacts
    <3>3. /\ InWaiting(old, p) <=> p \in PacketsOf(inputs) \/ InWaiting(less, p)
          /\ OnceInWaiting(old, p) => OnceInWaiting(less, p) /\ ~(p \in PacketsOf(inputs) /\ InWaiting(less, p))
      BY <2>2, <2>3, WithoutFacts
    <3> HIDE DEF entry, inputs, less
    <3>4. /\ OnStack(p)' <=> p \in PacketsOf(inputs) \/ OnStack(p)
          /\ (OnceInStack(stack, p) /\ ~(p \in PacketsOf(inputs) /\ OnStack(p)))
                 => OnceInStack(stack, p)'
      BY <1>1, <2>1, <2>2, PushFacts DEF OnStack
    <3>5. /\ Waits(p) <=> p \in PacketsOf(inputs) \/ Waits(p)'
          /\ OnceInWaiting(waitingExecution[p.connection.to], p) =>
                /\ OnceInWaiting(waitingExecution[p.connection.to], p)'
                /\ ~(p \in PacketsOf(inputs) /\ Waits(p)')
      <4>1. CASE p.connection.to = n
        BY <2>4, <3>3, <4>1 DEF Waits
      <4>2. CASE p.connection.to # n
        BY <2>4, <3>2, <4>2, TypeFacts DEF Waits
      <4> QED BY <4>1, <4>2
    <3>6. /\ Used(p)' = Used(p) /\ ~InHand(p) /\ ~InHand(p)' /\ Due(p)' = Due(p)
          /\ (p \in dropped)' = (p \in dropped) /\ (p \in lost)' = (p \in lost)
          /\ OnceInRuns(runData[p.connection.to], p)' = OnceInRuns(runData[p.connection.to], p)
      BY <1>1 DEF Used, InHand, Due
    <3> QED BY <3>1, <3>4, <3>5, <3>6 DEF OnePlace, Apart, Somewhere
  <2> QED BY <1>1, <2>5, SentSame, Moved DEF SamePackets
<1> QED BY <1>2, <1>3, NodeDoneFacts

-----------------------------------------------------------------------------
(* Restarts. *)

\* The run removed by a restart is there: it ended the execution, or its node
\* went on after an error and was the last to be executed.
LEMMA RestartRun ==
    ASSUME TypeInv, EndInv, Restart, status \in {"waiting", "error"}
    PROVE  /\ lastNodeExecuted \in Nodes /\ runData[lastNodeExecuted] # << >>
           /\ status = "waiting" => LastRun.status = "waiting"
           /\ status = "error" => LastRun.status \in {"continued", "error"}
  BY DEF EndInv

\* What its removal does.
LEMMA RunRemoved ==
    ASSUME TypeInv, Restart, lastNodeExecuted \in Nodes, runData[lastNodeExecuted] # << >>
    PROVE  /\ runData' \in RunDataType(wf)
           /\ LastRun \in RunType(wf, lastNodeExecuted)
           /\ runData'[lastNodeExecuted] = Front(runData[lastNodeExecuted])
           /\ \A n \in Nodes : n # lastNodeExecuted => runData'[n] = runData[n]
           /\ \A n \in Nodes : \A r \in DOMAIN runData'[n] :
                 /\ r \in DOMAIN runData[n] /\ runData'[n][r] = runData[n][r]
                 /\ n = lastNodeExecuted => r # Len(runData[n])
           /\ Sent' \subseteq Sent
<1> DEFINE l == lastNodeExecuted
           a == Front(runData[l])
<1>1. runData[l] \in Seq(RunType(wf, l)) /\ runData \in RunDataType(wf) /\ runs \in Nat
  BY TypeFacts DEF TypeInv
<1>2. /\ a \in Seq(RunType(wf, l)) /\ LastRun \in RunType(wf, l)
      /\ \A r \in DOMAIN a : r \in DOMAIN runData[l] /\ r # Len(runData[l]) /\ a[r] = runData[l][r]
  BY <1>1, FrontRunFacts DEF LastRun
<1>3. runData' = [runData EXCEPT ![l] = a]
  BY DEF Restart
<1> HIDE DEF a
<1>4. runData' \in RunDataType(wf) /\ runData'[l] = a /\ \A m \in Nodes : m # l => runData'[m] = runData[m]
  <2>1. PICK f, h, n : f = runData /\ h = runData' /\ n = l
    OBVIOUS
  <2>2. f \in RunDataType(wf) /\ h = [f EXCEPT ![n] = a] /\ n \in Nodes /\ a \in Seq(RunType(wf, n))
    BY <1>1, <1>2, <1>3, <2>1
  <2>3. h \in RunDataType(wf) /\ h[n] = a /\ \A m \in Nodes : m # n => h[m] = f[m]
    BY <2>2 DEF RunDataType
  <2> QED BY <2>1, <2>3
<1>5. \A n \in Nodes : \A r \in DOMAIN runData'[n] :
         /\ r \in DOMAIN runData[n] /\ runData'[n][r] = runData[n][r]
         /\ n = l => r # Len(runData[n])
  BY <1>2, <1>4
<1>6. Sent' \subseteq Sent
  <2> SUFFICES ASSUME NEW p \in Sent' PROVE p \in Sent
    OBVIOUS
  <2>1. wf' = wf /\ runs' = runs
    BY DEF Restart
  <2>2. /\ p \in [connection : wf.connections, run : 1..runs]
        /\ p.connection.from # wf.destination
    BY <2>1 DEF Sent
  <2>3. p.connection.from \in Nodes
    BY <2>2, WfFacts DEF Connection
  <2>4. PICK r \in DOMAIN runData'[p.connection.from] :
              /\ runData'[p.connection.from][r].number = p.run
              /\ p.connection.output \in runData'[p.connection.from][r].outs
    BY DEF Sent
  <2> QED BY <1>5, <2>2, <2>3, <2>4 DEF Sent
<1> QED BY <1>2, <1>4, <1>5, <1>6 DEF a

\* The packets that the removed run used.
LEMMA RunRemovedPackets ==
    ASSUME TypeInv, Restart, lastNodeExecuted \in Nodes, runData[lastNodeExecuted] # << >>,
           NEW p \in Packet
    PROVE  /\ Used(p) <=> Used(p)' \/ UsedBy(LastRun, p)
           /\ OnceInRuns(runData[p.connection.to], p) =>
                 OnceInRuns(runData[p.connection.to], p)' /\ ~(Used(p)' /\ UsedBy(LastRun, p))
<1> DEFINE l == lastNodeExecuted
           to == p.connection.to
<1>1. runData[l] \in Seq(RunType(wf, l)) /\ to \in Nodes
  BY TypeFacts
<1>2. /\ LastRun \in RunType(wf, l)
      /\ runData'[l] = Front(runData[l]) /\ \A n \in Nodes : n # l => runData'[n] = runData[n]
  BY RunRemoved
<1>3. /\ InRuns(runData[l], p) <=> InRuns(Front(runData[l]), p) \/ UsedBy(LastRun, p)
      /\ OnceInRuns(runData[l], p) =>
            OnceInRuns(Front(runData[l]), p) /\ ~(InRuns(Front(runData[l]), p) /\ UsedBy(LastRun, p))
  BY <1>1, FrontRunFacts DEF LastRun
<1>4. UsedBy(LastRun, p) => to = l
  <2>1. LastRun.inputs \in InputsOf(wf, l)
    BY <1>2 DEF RunType
  <2> QED BY <2>1, InputsFacts DEF UsedBy
<1>5. CASE to = l
  BY <1>2, <1>3, <1>5 DEF Used
<1>6. CASE to # l
  BY <1>1, <1>2, <1>4, <1>6 DEF Used
<1> QED BY <1>5, <1>6

\* The entry of the run that put the execution to wait is on the stack.
LEMMA ResumePlace ==
    ASSUME TypeInv, EndInv, PlaceInv, Resume PROVE PlaceInv' /\ SamePackets
<1>1. /\ Restart /\ status = "waiting" /\ stack' = [stack EXCEPT ![1].disabled = TRUE]
      /\ lost' = lost /\ stack \in Seq(EntryType(wf))
  BY DEF Resume, TypeInv
<1>2. /\ phase = "ended" /\ phase' = "loop" /\ wf' = wf /\ waitingExecution' = waitingExecution
      /\ targets' = targets /\ runs' = runs /\ dropped' = dropped
  BY <1>1 DEF Restart
<1>3. /\ lastNodeExecuted \in Nodes /\ runData[lastNodeExecuted] # << >>
      /\ LastRun.status = "waiting"
  BY <1>1, RestartRun
<1>4. Sent' \subseteq Sent
  BY <1>1, <1>3, RunRemoved
<1>5. ASSUME NEW p \in Packet PROVE OnePlace(p)' /\ (Somewhere(p)' <=> Somewhere(p))
  <2>1. OnePlace(p)
    BY DEF PlaceInv
  <2>2. (OnStack(p)' <=> OnStack(p)) /\ (OnceInStack(stack, p)' <=> OnceInStack(stack, p))
    BY <1>1, MarkFacts DEF OnStack
  <2>3. ~UsedBy(LastRun, p)
    BY <1>3 DEF UsedBy, Finished
  <2>4. /\ Used(p) <=> Used(p)'
        /\ OnceInRuns(runData[p.connection.to], p) => OnceInRuns(runData[p.connection.to], p)'
    BY <1>1, <1>3, <2>3, RunRemovedPackets
  <2> QED BY <1>1, <1>2, <2>1, <2>2, <2>4 DEF OnePlace, Somewhere, Apart, Waits, InHand, Due
<1> QED BY <1>2, <1>4, <1>5, Moved DEF SamePackets

\* A run that failed is removed and its packets are on the stack; those of a
\* run that continued after its error are lost.
LEMMA RetryPlace ==
    ASSUME TypeInv, EndInv, PlaceInv, Retry PROVE PlaceInv' /\ SamePackets
<1>1. /\ Restart /\ status = "error" /\ stack' = stack
      /\ lost' = IF LastRun.status = "continued" THEN lost \cup PacketsOf(LastRun.inputs) ELSE lost
  BY DEF Retry, LastRun
<1>2. /\ phase = "ended" /\ phase' = "loop" /\ wf' = wf /\ waitingExecution' = waitingExecution
      /\ targets' = targets /\ runs' = runs /\ dropped' = dropped
  BY <1>1 DEF Restart
<1>3. /\ lastNodeExecuted \in Nodes /\ runData[lastNodeExecuted] # << >>
      /\ LastRun.status \in {"continued", "error"}
  BY <1>1, RestartRun
<1>4. Sent' \subseteq Sent
  BY <1>1, <1>3, RunRemoved
<1>5. ASSUME NEW p \in Packet PROVE OnePlace(p)' /\ (Somewhere(p)' <=> Somewhere(p))
  <2>1. OnePlace(p)
    BY DEF PlaceInv
  <2>2. p \in lost' <=> p \in lost \/ UsedBy(LastRun, p)
    BY <1>1, <1>3 DEF UsedBy, Finished
  <2>3. /\ Used(p) <=> Used(p)' \/ UsedBy(LastRun, p)
        /\ OnceInRuns(runData[p.connection.to], p) =>
              OnceInRuns(runData[p.connection.to], p)' /\ ~(Used(p)' /\ UsedBy(LastRun, p))
    BY <1>1, <1>3, RunRemovedPackets
  <2>4. (p \in lost)' <=> p \in lost \/ UsedBy(LastRun, p)
    BY <2>2
  <2>5. /\ OnStack(p)' = OnStack(p) /\ OnceInStack(stack, p)' = OnceInStack(stack, p)
        /\ Waits(p)' = Waits(p) /\ ~InHand(p) /\ ~InHand(p)' /\ Due(p)' = Due(p)
        /\ (p \in dropped)' = (p \in dropped)
        /\ OnceInWaiting(waitingExecution[p.connection.to], p)'
              = OnceInWaiting(waitingExecution[p.connection.to], p)
    BY <1>1, <1>2 DEF OnStack, Waits, InHand, Due
  <2> QED BY <2>1, <2>3, <2>4, <2>5 DEF OnePlace, Somewhere, Apart
<1> QED BY <1>2, <1>4, <1>5, Moved DEF SamePackets

-----------------------------------------------------------------------------
(* The other invariants, step by step. *)

Core == TypeInv /\ WaitingInv /\ TargetsInv /\ NumberInv /\ EndInv

\* Steps that touch nothing but the variables of the engine.
LEMMA QuietCore ==
    ASSUME HookInv, Core, wf' = wf, UNCHANGED dataVars, UNCHANGED <<waitTill, executionError>>,
           early' \in BOOLEAN,
           phase # "running" => phase' # "running",
           phase' # "adding" => phase # "adding" \/ targets = {},
           phase \in Ending => phase' \in Ending,
           phase' \notin {"saving", "ended"} => status' \in {"running", "canceled"},
           status' = "error" => executionError = "error" \/ status = "error",
           status' = "waiting" => waitTill \/ status = "waiting"
    PROVE  Core'
<1>1. TypeInv' /\ NumberInv'
  BY DEF Core, TypeInv, NumberInv, dataVars
<1>2. WaitingInv'
  BY DEF Core, WaitingInv, dataVars
<1>3. TargetsInv'
  BY DEF Core, TargetsInv, dataVars
<1>4. EndInv'
  BY DEF Core, EndInv, dataVars, LastRun
<1> QED BY <1>1, <1>2, <1>3, <1>4 DEF Core

\* The steps of the loop that record no run have none to think of that ended
\* the execution.
LEMMA LoopCore ==
    ASSUME HookInv, Core, phase \notin Ending, phase' \notin Ending, wf' = wf, TypeInv', WaitingInv',
           UNCHANGED <<runData, runs, lastNodeExecuted, waitTill, status>>,
           executionError' = "none" \/ (executionError' = executionError /\ phase' # "running"),
           TargetsInv'
    PROVE  Core'
<1>1. NumberInv'
  BY DEF Core, NumberInv
<1>2. EndInv'
  BY DEF Core, EndInv, LastRun, Ending
<1> QED BY <1>1, <1>2 DEF Core

\* A node is skipped.
LEMMA SkipCore == ASSUME HookInv, Core, SkipNode PROVE Core'
<1>1. /\ stack \in Seq(EntryType(wf)) /\ stack # << >> /\ stack' = Tail(stack)
      /\ dropped' = dropped \cup PacketsOf(Head(stack).inputs)
      /\ phase = "loop" /\ phase' = "loop" /\ executionError' = "none" /\ wf' = wf
      /\ UNCHANGED <<waitingExecution, waitingNodes, runData, current, targets, status,
                     waitTill, lastNodeExecuted, runs, lost>>
      /\ early' = TRUE
  BY DEF SkipNode, TakeEntry, Core, TypeInv
<1>2. Head(stack) \in EntryType(wf) /\ stack' \in Seq(EntryType(wf))
  BY <1>1, PopFacts
<1>3. dropped' \subseteq Packet
  <2>1. PICK n, f : n = Head(stack).node /\ f = Head(stack).inputs
    OBVIOUS
  <2>2. f \in InputsOf(wf, n) /\ dropped \subseteq Packet
    BY <1>2, <2>1 DEF EntryType, Core, TypeInv
  <2>3. PacketsOf(f) \subseteq Packet
    BY <2>2, InputsFacts
  <2> QED BY <1>1, <2>1, <2>2, <2>3
<1>4. TypeInv' /\ WaitingInv' /\ TargetsInv'
  BY <1>1, <1>2, <1>3 DEF Core, TypeInv, WaitingInv, TargetsInv
<1> QED BY <1>1, <1>4, LoopCore DEF Ending

\* A node starts to run.
LEMMA StartCore == ASSUME HookInv, Core, StartNode PROVE Core'
<1>1. /\ stack \in Seq(EntryType(wf)) /\ stack # << >> /\ stack' = Tail(stack)
      /\ current' = Head(stack)
  BY DEF StartNode, TakeEntry, Core, TypeInv
<1>2. Head(stack) \in EntryType(wf) /\ Tail(stack) \in Seq(EntryType(wf))
  BY <1>1, PopFacts
<1>3. current' \in EntryType(wf) /\ stack' \in Seq(EntryType(wf))
  BY <1>1, <1>2
<1>4. /\ phase = "loop" /\ phase' = "running" /\ executionError' = "none" /\ wf' = wf
      /\ UNCHANGED <<waitingExecution, waitingNodes, targets, early, dropped, lost>>
      /\ UNCHANGED <<runData, runs, lastNodeExecuted, waitTill, status>>
  BY DEF StartNode, TakeEntry
<1>5. TypeInv' /\ WaitingInv' /\ TargetsInv'
  BY <1>3, <1>4 DEF Core, TypeInv, WaitingInv, TargetsInv
<1>6. phase \notin Ending /\ phase' \notin Ending
  BY <1>4 DEF Ending
<1> QED BY <1>4, <1>5, <1>6, LoopCore

\* A node returned null.
LEMMA NullCore == ASSUME HookInv, Core, ReturnNull PROVE Core'
<1>1. /\ dropped' = dropped \cup PacketsOf(current.inputs)
      /\ phase = "running" /\ phase' = "loop" /\ executionError' = executionError /\ wf' = wf
      /\ UNCHANGED <<stack, waitingExecution, waitingNodes, runData, current, targets, status,
                     waitTill, lastNodeExecuted, runs, lost>>
      /\ early' = TRUE
  BY DEF ReturnNull
<1>2. dropped' \subseteq Packet
  <2>1. current.inputs \in InputsOf(wf, current.node) /\ dropped \subseteq Packet
    BY TypeFacts DEF Core, TypeInv
  <2>2. PacketsOf(current.inputs) \subseteq Packet
    BY <2>1, InputsFacts
  <2> QED BY <1>1, <2>1, <2>2
<1>3. TypeInv' /\ WaitingInv' /\ TargetsInv'
  BY <1>1, <1>2 DEF Core, TypeInv, WaitingInv, TargetsInv
<1> QED BY <1>1, <1>3, LoopCore DEF Ending

\* A node is added: a list entry goes only with the last waiting entry of its
\* node.
LEMMA AddNodeCore ==
    ASSUME HookInv, Core, NEW c \in wf.connections, AddNode(c) PROVE Core'
<1> USE DEF Core
<1>1. PICK packet : packet = [connection |-> c, run |-> runs]
  OBVIOUS
<1>2. /\ packet \in Packet /\ packet.connection = c
      /\ c.to \in Nodes /\ c.input \in Nat
      /\ wf.connections \subseteq Connection
  BY <1>1, WfFacts DEF Packet, Connection, TypeInv
<1>3. /\ phase = "adding" /\ phase' = "adding" /\ targets' = targets \ {c}
      /\ wf' = wf /\ executionError' = executionError
      /\ UNCHANGED <<runData, current, lastNodeExecuted, runs, dropped, status, waitTill, early>>
      /\ stack \in Seq(EntryType(wf))
  BY DEF AddNode, engineVars, TypeInv
<1>4. TargetsInv'
  BY <1>3 DEF TargetsInv
<1>5. CASE NumberOfInputs(c.to) > 1
  <2>1. AddToWaiting(c, packet)
    BY <1>1, <1>5 DEF AddNode
  <2>2. PICK inputs, index, old, moved, created :
            AddedTo(c, packet, inputs, index, old, moved, created)
    BY <1>2, <2>1, AddToWaitingFacts
  <2> DEFINE less == Without(old, index)
             more == With(old, index, inputs)
             entry == Entry(c.to, inputs)
  <2>3. /\ old = waitingExecution[c.to] /\ old \in Partial(InputsOf(wf, c.to)) /\ index \in Nat
        /\ inputs \in InputsOf(wf, c.to) /\ created \in BOOLEAN
    BY <2>2 DEF AddedTo
  <2>4. /\ less \in Partial(InputsOf(wf, c.to)) /\ more \in Partial(InputsOf(wf, c.to))
        /\ DOMAIN more = DOMAIN old \cup {index}
    <3>1. less \in Partial(InputsOf(wf, c.to))
      BY <2>3, PartialWithout
    <3>2. more \in Partial(InputsOf(wf, c.to)) /\ DOMAIN more = DOMAIN old \cup {index}
      BY <2>3, PartialWith
    <3> QED BY <3>1, <3>2
  <2>5. entry \in EntryType(wf)
    BY <1>2, <2>3, EntryIsTyped
  <2>6. lost' \subseteq Packet
    <3>1. moved = IF index \in DOMAIN old THEN PacketsOf(old[index]) ELSE {}
      BY <2>2 DEF AddedTo
    <3>2. moved \subseteq Packet
      <4>1. old \in [DOMAIN old -> InputsOf(wf, c.to)]
        BY <2>3, PartialFacts
      <4> QED BY <3>1, <4>1, InputsFacts
    <3> QED BY <2>2, <3>2 DEF AddedTo, TypeInv
  <2> HIDE DEF less, more, entry
  <2>7. CASE /\ Cardinality(DOMAIN inputs) = NumberOfInputs(c.to)
             /\ stack' = <<entry>> \o stack /\ SetWaiting(c.to, less)
    <3>1. index \in DOMAIN old
      <4>1. created => DOMAIN inputs = {c.input}
        BY <2>2 DEF AddedTo
      <4>2. created => Cardinality(DOMAIN inputs) = 1
        BY <4>1, FS_Singleton
      <4>3. ~created
        BY <1>5, <2>3, <2>7, <4>2
      <4> QED BY <2>2, <4>3 DEF AddedTo
    <3>2. WaitingInv' /\ waitingNodes' \in Seq(Nodes)
      BY <1>2, <2>3, <2>4, <2>7, <3>1, SetWaitingList
    <3>3. waitingExecution' \in WaitingType(wf)
      BY <1>2, <2>4, <2>7, SetWaitingFacts
    <3>4. stack' \in Seq(EntryType(wf))
      BY <1>3, <2>5, <2>7, PushFacts
    <3>5. TypeInv'
      BY <1>3, <2>6, <3>2, <3>3, <3>4 DEF TypeInv
    <3> QED BY <1>3, <1>4, <3>2, <3>5, LoopCore DEF Ending
  <2>8. CASE stack' = stack /\ SetWaiting(c.to, more)
    <3>1. DOMAIN more # {}
      BY <2>4
    <3>2. WaitingInv' /\ waitingNodes' \in Seq(Nodes)
      BY <1>2, <2>4, <2>8, <3>1, SetWaitingList
    <3>3. waitingExecution' \in WaitingType(wf)
      BY <1>2, <2>4, <2>8, SetWaitingFacts
    <3>4. TypeInv'
      BY <1>3, <2>6, <2>8, <3>2, <3>3 DEF TypeInv
    <3> QED BY <1>3, <1>4, <3>2, <3>4, LoopCore DEF Ending
  <2> QED BY <2>2, <2>7, <2>8 DEF AddedTo, less, more, entry
<1>6. CASE ~(NumberOfInputs(c.to) > 1)
  <2> DEFINE inputs == With(NoInputs, c.input, packet)
             entry == Entry(c.to, inputs)
  <2>1. /\ stack' = <<entry>> \o stack
        /\ UNCHANGED <<waitingExecution, waitingNodes, lost>>
    BY <1>1, <1>6 DEF AddNode, Push
  <2>2. inputs \in InputsOf(wf, c.to)
    <3>1. NoInputs \in InputsOf(wf, c.to) /\ c.input \notin DOMAIN NoInputs
      BY NoInputsType, PartialEmpty DEF NoInputs
    <3>2. PICK f : f = NoInputs
      OBVIOUS
    <3>3. f \in InputsOf(wf, c.to) /\ c.input \notin DOMAIN f
      BY <3>1, <3>2
    <3>4. With(f, c.input, packet) \in InputsOf(wf, c.to)
      BY <1>2, <3>3, InputsWith
    <3> QED BY <3>2, <3>4
  <2>3. entry \in EntryType(wf)
    <3> HIDE DEF inputs
    <3> QED BY <1>2, <2>2, EntryIsTyped
  <2> HIDE DEF inputs, entry
  <2>4. stack' \in Seq(EntryType(wf))
    BY <1>3, <2>1, <2>3, PushFacts
  <2>5. TypeInv' /\ WaitingInv'
    BY <1>3, <2>1, <2>4 DEF TypeInv, WaitingInv
  <2> QED BY <1>3, <1>4, <2>5, LoopCore DEF Ending
<1> QED BY <1>5, <1>6

\* An iteration ends.
LEMMA NodeDoneCore == ASSUME HookInv, Core, NodeDone PROVE Core'
<1> USE DEF Core
<1>1. /\ phase = "after" /\ phase' = "loop" /\ wf' = wf /\ early' = FALSE
      /\ UNCHANGED <<status, waitTill, executionError, runData, current, targets,
                     lastNodeExecuted, runs, dropped, lost>>
      /\ stack \in Seq(EntryType(wf))
  BY DEF NodeDone, TypeInv
<1>2. TargetsInv'
  BY <1>1 DEF TargetsInv
<1>3. TypeInv' /\ WaitingInv'
  <2>1. CASE FindsNone
    BY <1>1, <2>1 DEF FindsNone, TypeInv, WaitingInv
  <2>2. ASSUME NEW n, NEW k, TakesWaiting(n, k) PROVE TypeInv' /\ WaitingInv'
    <3> DEFINE less == Without(waitingExecution[n], k)
               entry == Entry(n, waitingExecution[n][k])
    <3>1. less \in Partial(InputsOf(wf, n)) /\ entry \in EntryType(wf)
      BY <2>2, TakesWaitingFacts
    <3>2. /\ n \in Nodes /\ k \in DOMAIN waitingExecution[n]
          /\ stack' = <<entry>> \o stack /\ SetWaiting(n, less)
      BY <2>2 DEF TakesWaiting
    <3> HIDE DEF less, entry
    <3>3. WaitingInv' /\ waitingNodes' \in Seq(Nodes)
      BY <3>1, <3>2, SetWaitingList
    <3>4. waitingExecution' \in WaitingType(wf)
      BY <3>1, <3>2, SetWaitingFacts
    <3>5. stack' \in Seq(EntryType(wf))
      BY <1>1, <3>1, <3>2, PushFacts
    <3> QED BY <1>1, <3>3, <3>4, <3>5 DEF TypeInv
  <2> QED BY <2>1, <2>2, NodeDoneFacts
<1>4. phase \notin Ending /\ phase' \notin Ending
  BY <1>1 DEF Ending
<1> QED BY <1>1, <1>2, <1>3, <1>4, LoopCore

\* What recording a run does to the runs of all nodes.
LEMMA RunAddedAll ==
    ASSUME Core, phase = "running", NEW outs \in SUBSET Nat,
           NEW s \in Finished \cup {"error", "waiting"},
           AddRun(current, outs, s), wf' = wf, lastNodeExecuted' = current.node
    PROVE  /\ runs' \in Nat /\ runData' \in RunDataType(wf) /\ current.node \in Nodes
           /\ NumberInv'
           /\ runData'[current.node] # << >>
           /\ LastRun' = Run(current, outs, s) /\ LastRun'.status = s
           /\ \A n \in Nodes : \A r \in DOMAIN runData'[n] :
                 \/ runData'[n][r].status \in Finished
                 \/ /\ n = current.node
                    /\ r = Len(runData'[n])
                    /\ runData'[n][r].inputs = current.inputs
                    /\ s \notin Finished
<1> DEFINE n == current.node
           run == Run(current, outs, s)
           a == Append(runData[n], run)
<1>1. /\ runs' = runs + 1 /\ runData' \in RunDataType(wf) /\ runData'[n] = a
      /\ \A m \in Nodes : m # n => runData'[m] = runData[m]
      /\ run \in RunType(wf, n) /\ run.status = s /\ run.inputs = current.inputs
  BY RunAdded DEF Core
<1>2. n \in Nodes /\ runData[n] \in Seq(RunType(wf, n)) /\ runs \in Nat
  BY TypeFacts DEF Core, TypeInv
<1>3. run.number = runs + 1
  BY DEF Run
<1> HIDE DEF run
<1>4. /\ a # << >> /\ Last(a) = run /\ Len(a) = Len(runData[n]) + 1
      /\ DOMAIN a = 1..(Len(runData[n]) + 1) /\ \A r \in DOMAIN runData[n] : a[r] = runData[n][r]
  BY <1>1, <1>2, AppendRunFacts
<1> HIDE DEF a, n
<1>5. Len(runData[n]) \in Nat /\ DOMAIN runData[n] = 1..Len(runData[n])
  BY <1>2, LenProperties
<1>6. \A r \in DOMAIN a : \/ r = Len(a) /\ a[r] = run
                          \/ r \in DOMAIN runData[n] /\ a[r] = runData[n][r]
  <2> TAKE r \in DOMAIN a
  <2>1. r = Len(a) \/ r \in DOMAIN runData[n]
    BY <1>4, <1>5
  <2> QED BY <2>1, <1>4 DEF Last
<1>7. \A m \in Nodes : \A r \in DOMAIN runData'[m] :
         \/ m = n /\ r = Len(runData'[m]) /\ runData'[m][r] = run
         \/ r \in DOMAIN runData[m] /\ runData'[m][r] = runData[m][r]
  BY <1>1, <1>6
<1>8. NumberInv'
  <2> SUFFICES ASSUME NEW m \in Nodes, NEW r \in DOMAIN runData'[m]
               PROVE  runData'[m][r].number \in 1..runs'
    BY DEF NumberInv
  <2>1. CASE runData'[m][r] = run
    BY <1>1, <1>2, <1>3, <2>1
  <2>2. CASE r \in DOMAIN runData[m] /\ runData'[m][r] = runData[m][r]
    <3>1. runData[m][r].number \in 1..runs
      BY <2>2 DEF Core, NumberInv
    <3> QED BY <1>1, <1>2, <2>2, <3>1
  <2> QED BY <2>1, <2>2, <1>7
<1>9. \A m \in Nodes : \A r \in DOMAIN runData[m] : runData[m][r].status \in Finished
  BY DEF Core, EndInv, Ending
<1>10. LastRun' = run
  BY <1>1, <1>4 DEF LastRun, n
<1>11. \A m \in Nodes : \A r \in DOMAIN runData'[m] :
          \/ runData'[m][r].status \in Finished
          \/ m = n /\ r = Len(runData'[m]) /\ runData'[m][r].inputs = current.inputs /\ s \notin Finished
  BY <1>1, <1>7, <1>9
<1> QED BY <1>1, <1>2, <1>4, <1>8, <1>10, <1>11 DEF n, run

\* A run that did not end the execution is recorded.
LEMMA RecordCore ==
    ASSUME HookInv, Core, NEW outs \in SUBSET Nat, NEW s \in Finished, NEW e, Record(outs, s, e),
           e # "none" => s = "continued"
    PROVE  Core'
<1>1. /\ AddRun(current, outs, s) /\ phase = "running" /\ phase' \in {"destination", "adding"}
      /\ lastNodeExecuted' = current.node /\ wf' = wf /\ executionError' = e
      /\ UNCHANGED <<stack, waitingExecution, waitingNodes, current, status, waitTill, early,
                     dropped, lost>>
      /\ targets' \subseteq ConnectionsFrom(current.node) /\ (phase' # "adding" => targets' = {})
  BY DEF Record
<1>2. s \in Finished \cup {"error", "waiting"}
  OBVIOUS
<1>3. /\ runs' \in Nat /\ runData' \in RunDataType(wf) /\ current.node \in Nodes
      /\ NumberInv'
      /\ runData'[current.node] # << >>
      /\ LastRun'.status = s
      /\ \A n \in Nodes : \A r \in DOMAIN runData'[n] : runData'[n][r].status \in Finished
  BY <1>1, <1>2, RunAddedAll
<1>4. TypeInv' /\ WaitingInv' /\ TargetsInv'
  BY <1>1, <1>3 DEF Core, TypeInv, WaitingInv, TargetsInv, ConnectionsFrom
<1>5. EndInv'
  <2>1. ~waitTill' /\ status' \in {"running", "canceled"} /\ phase' \notin Ending
    BY <1>1 DEF Core, EndInv, Ending
  <2>2. executionError' # "none" => /\ phase' # "running"
                                    /\ lastNodeExecuted' \in Nodes
                                    /\ runData'[lastNodeExecuted'] # << >>
                                    /\ LastRun'.status \in {"continued", "error"}
    BY <1>1, <1>3
  <2>3. status' # "error" /\ status' # "waiting"
    BY <2>1
  <2> QED BY <1>3, <2>1, <2>2, <2>3 DEF EndInv
<1> QED BY <1>3, <1>4, <1>5 DEF Core

\* A run that ends the execution is recorded, and its entry put back.
LEMMA PutBackCore ==
    ASSUME HookInv, Core, NEW s \in {"error", "waiting"}, PutBack(s),
           \/ s = "error" /\ executionError' \in {"error", "canceled"} /\ waitTill' = waitTill
           \/ s = "waiting" /\ executionError' = executionError /\ waitTill' = TRUE
    PROVE  Core'
<1>1. /\ AddRun(current, {}, s) /\ phase = "running" /\ phase' = "settling"
      /\ lastNodeExecuted' = current.node /\ wf' = wf /\ stack' = <<current>> \o stack
      /\ UNCHANGED <<waitingExecution, waitingNodes, current, targets, status, early, dropped, lost>>
      /\ stack \in Seq(EntryType(wf)) /\ current \in EntryType(wf)
  BY DEF PutBack, Core, TypeInv
<1>2. s \in Finished \cup {"error", "waiting"} /\ {} \in SUBSET Nat
  OBVIOUS
<1>3. /\ runs' \in Nat /\ runData' \in RunDataType(wf) /\ current.node \in Nodes
      /\ NumberInv'
      /\ runData'[current.node] # << >>
      /\ LastRun'.status = s
      /\ \A n \in Nodes : \A r \in DOMAIN runData'[n] :
            \/ runData'[n][r].status \in Finished
            \/ /\ n = current.node
               /\ r = Len(runData'[n])
               /\ runData'[n][r].inputs = current.inputs
  BY <1>1, <1>2, RunAddedAll
<1>4. stack' \in Seq(EntryType(wf)) /\ stack' # << >> /\ stack'[1] = current
  BY <1>1, PushFacts
<1>5. TypeInv' /\ WaitingInv' /\ TargetsInv'
  BY <1>1, <1>3, <1>4 DEF Core, TypeInv, WaitingInv, TargetsInv
<1>6. EndInv'
  <2>1. ~waitTill /\ executionError = "none" /\ status' \in {"running", "canceled"} /\ phase' \in Ending
    BY <1>1 DEF Core, EndInv, Ending
  <2>2. \A n \in Nodes : \A r \in DOMAIN runData'[n] : runData'[n][r].status \notin Finished =>
          /\ phase' \in Ending
          /\ n = lastNodeExecuted'
          /\ r = Len(runData'[n])
          /\ stack' # << >>
          /\ stack'[1].inputs = runData'[n][r].inputs
    BY <1>1, <1>3, <1>4, <2>1
  <2>3. executionError' # "none" => /\ phase' # "running"
                                    /\ lastNodeExecuted' \in Nodes
                                    /\ runData'[lastNodeExecuted'] # << >>
                                    /\ LastRun'.status \in {"continued", "error"}
    BY <1>1, <1>3, <2>1
  <2>4. waitTill' => /\ phase' \in Ending
                     /\ lastNodeExecuted' \in Nodes
                     /\ runData'[lastNodeExecuted'] # << >>
                     /\ LastRun'.status = "waiting"
    BY <1>1, <1>3, <2>1
  <2>5. status' # "error" /\ status' # "waiting"
    BY <2>1
  <2> QED BY <2>1, <2>2, <2>3, <2>4, <2>5 DEF EndInv
<1> QED BY <1>3, <1>5, <1>6 DEF Core

\* A restart removes the one run that ended the execution.
LEMMA RestartCore ==
    ASSUME HookInv, Core, Resume \/ Retry PROVE Core'
<1>1. /\ Restart /\ status \in {"waiting", "error"} /\ phase = "ended" /\ phase' = "loop"
      /\ status' = "running" /\ executionError' = "none" /\ wf' = wf
      /\ UNCHANGED <<early, waitingExecution, waitingNodes, current, targets, lastNodeExecuted,
                     runs, dropped>>
  BY DEF Resume, Retry, Restart
<1>2. /\ lastNodeExecuted \in Nodes /\ runData[lastNodeExecuted] # << >>
      /\ status = "error" => LastRun.status \in {"continued", "error"}
  BY <1>1, RestartRun DEF Core
<1>3. /\ runData' \in RunDataType(wf) /\ LastRun \in RunType(wf, lastNodeExecuted)
      /\ \A n \in Nodes : \A r \in DOMAIN runData'[n] :
            /\ r \in DOMAIN runData[n] /\ runData'[n][r] = runData[n][r]
            /\ n = lastNodeExecuted => r # Len(runData[n])
  BY <1>1, <1>2, RunRemoved DEF Core
<1>4. stack' \in Seq(EntryType(wf))
  <2>1. CASE Resume
    BY <2>1, MarkFacts DEF Resume, Core, TypeInv
  <2>2. CASE Retry
    BY <2>2 DEF Retry, Core, TypeInv
  <2> QED BY <2>1, <2>2
<1>5. lost' \subseteq Packet
  <2>1. PICK f : f = LastRun.inputs
    OBVIOUS
  <2>2. f \in InputsOf(wf, lastNodeExecuted)
    BY <1>3, <2>1 DEF RunType
  <2>3. PacketsOf(f) \subseteq Packet
    BY <2>2, InputsFacts
  <2>4. lost' \subseteq lost \cup PacketsOf(LastRun.inputs)
    BY DEF Resume, Retry, LastRun
  <2> QED BY <2>1, <2>3, <2>4 DEF Core, TypeInv
<1>6. ~waitTill'
  <2>1. CASE Resume
    BY <2>1 DEF Resume
  <2>2. CASE Retry
    <3>1. LastRun.status # "waiting" /\ waitTill' = waitTill
      BY <2>2, <1>2 DEF Retry
    <3> QED BY <3>1 DEF Core, EndInv
  <2> QED BY <2>1, <2>2
<1>7. waitTill' \in BOOLEAN
  BY DEF Resume, Retry, Core, TypeInv
<1>8. TypeInv' /\ WaitingInv' /\ TargetsInv'
  BY <1>1, <1>3, <1>4, <1>5, <1>7 DEF Core, TypeInv, WaitingInv, TargetsInv
<1>9. NumberInv'
  BY <1>1, <1>3 DEF Core, NumberInv
<1>10. \A n \in Nodes : \A r \in DOMAIN runData'[n] : runData'[n][r].status \in Finished
  BY <1>3 DEF Core, EndInv
<1>11. EndInv'
  <2>1. status' # "error" /\ status' # "waiting" /\ status' \in {"running", "canceled"}
    BY <1>1
  <2> QED BY <1>1, <1>6, <1>10, <2>1 DEF EndInv
<1> QED BY <1>8, <1>9, <1>11 DEF Core

-----------------------------------------------------------------------------
(* Every packet is in one place. *)

\* When the engine starts, no packet is anywhere.
LEMMA InitInv == Init => Inv
<1> SUFFICES ASSUME Init PROVE Inv
  OBVIOUS
<1>1. HookInv
  BY InitHook
<1>2. /\ wf \in Workflows /\ wf.start \in Nodes
  BY WorkflowsAssumption DEF Init
<1>3. PICK e : e = Entry(wf.start, NoInputs)
  OBVIOUS
<1>4. e \in EntryType(wf) /\ PacketsOf(e.inputs) = {}
  <2>1. PICK n, f : n = wf.start /\ f = NoInputs
    OBVIOUS
  <2>2. f \in InputsOf(wf, n) /\ PacketsOf(f) = {}
    BY <2>1, NoInputsType
  <2>3. f \in Partial(Packet)
    BY <2>2, InputsFacts
  <2>4. e = [node |-> n, inputs |-> f, disabled |-> n \in wf.disabled]
    BY <1>3, <2>1 DEF Entry
  <2> QED BY <1>2, <2>1, <2>2, <2>3, <2>4 DEF EntryType
<1>5. /\ stack = <<e>> /\ current = e /\ stack \in Seq(EntryType(wf)) /\ DOMAIN stack = {1} /\ stack[1] = e
  BY <1>3, <1>4 DEF Init
<1>6. \A n \in Nodes : /\ waitingExecution[n] \in Partial(InputsOf(wf, n))
                       /\ DOMAIN waitingExecution[n] = {}
  BY PartialEmpty DEF Init, NoEntries
<1>7. waitingExecution \in WaitingType(wf)
  <2>1. waitingExecution = [n \in Nodes |-> waitingExecution[n]]
    BY DEF Init
  <2> QED BY <1>6, <2>1 DEF WaitingType
<1>8. \A n \in Nodes : runData[n] \in Seq(RunType(wf, n)) /\ DOMAIN runData[n] = {}
  <2>1. ASSUME NEW R PROVE << >> \in Seq(R) /\ DOMAIN << >> = {}
    OBVIOUS
  <2> QED BY <2>1 DEF Init
<1>9. runData \in RunDataType(wf)
  <2>1. runData = [n \in Nodes |-> runData[n]]
    BY DEF Init
  <2> QED BY <1>8, <2>1 DEF RunDataType
<1>10. waitingNodes \in Seq(Nodes) /\ DOMAIN waitingNodes = {}
  BY DEF Init
<1>11. TypeInv
  BY <1>2, <1>4, <1>5, <1>7, <1>9, <1>10 DEF TypeInv, Init
<1>12. WaitingInv
  BY <1>6, <1>10 DEF WaitingInv, Range
<1>13. TargetsInv /\ NumberInv /\ EndInv
  BY <1>8 DEF TargetsInv, NumberInv, EndInv, Init
<1>14. PlaceInv
  <2>1. Sent = {}
    <3> SUFFICES ASSUME NEW p \in Sent PROVE FALSE
      OBVIOUS
    <3>1. p \in Packet
      BY <1>11, SentFacts
    <3>2. p.connection.from \in Nodes
      BY <1>11, <3>1, TypeFacts
    <3> QED BY <1>8, <3>2 DEF Sent
  <2>2. ASSUME NEW p \in Packet PROVE ~Somewhere(p) /\ OnePlace(p)
    <3>1. p.connection.to \in Nodes
      BY <1>11, TypeFacts
    <3>2. ~OnStack(p) /\ OnceInStack(stack, p)
      BY <1>4, <1>5 DEF OnStack, InStack, OnceInStack
    <3>3. ~Waits(p) /\ OnceInWaiting(waitingExecution[p.connection.to], p)
      BY <1>6, <3>1 DEF Waits, InWaiting, OnceInWaiting
    <3>4. ~Used(p) /\ OnceInRuns(runData[p.connection.to], p)
      BY <1>8, <3>1 DEF Used, InRuns, OnceInRuns
    <3>5. ~InHand(p) /\ ~Due(p) /\ p \notin dropped /\ p \notin lost
      BY DEF Init, InHand, Due
    <3> QED BY <3>2, <3>3, <3>4, <3>5 DEF OnePlace, Apart, Somewhere
  <2> QED BY <2>1, <2>2 DEF PlaceInv
<1> QED BY <1>1, <1>11, <1>12, <1>13, <1>14 DEF Inv

\* The outputs over which data can go out are numbers.
LEMMA OutsFacts ==
    ASSUME TypeInv
    PROVE  /\ Outputs(current.node) \subseteq Nat
           /\ PassThrough(current) \subseteq Nat
<1>1. wf.connections \subseteq Connection
  BY WfFacts
<1>2. Outputs(current.node) \subseteq Nat
  BY <1>1 DEF Outputs, ConnectionsFrom, Connection
<1> QED BY <1>2 DEF PassThrough

\* Every step keeps the invariant.
LEMMA NextInv == Inv /\ [Next]_vars => Inv'
<1> SUFFICES ASSUME Inv, [Next]_vars PROVE Inv'
  OBVIOUS
<1>1. HookInv' /\ HookInv /\ Core /\ TypeInv /\ WaitingInv /\ TargetsInv /\ NumberInv /\ EndInv /\ PlaceInv
  BY NextHook DEF Inv, Core
<1> SUFFICES Core' /\ PlaceInv'
  BY <1>1 DEF Inv, Core
<1>q. ASSUME wf' = wf, UNCHANGED dataVars, UNCHANGED <<waitTill, executionError>>,
             early' \in BOOLEAN,
             phase # "running" => phase' # "running",
             phase = "running" => phase' = "running",
             phase' # "adding" => phase # "adding" \/ targets = {},
             phase \in Ending => phase' \in Ending,
             phase' \notin {"saving", "ended"} => status' \in {"running", "canceled"},
             status' = "error" => executionError = "error" \/ status = "error",
             status' = "waiting" => waitTill \/ status = "waiting"
      PROVE  Core' /\ PlaceInv'
  <2>1. Core'
    BY <1>1, <1>q, QuietCore
  <2>2. PlaceInv'
    BY <1>1, <1>q, QuietStep
  <2> QED BY <2>1, <2>2
<1>0. /\ early \in BOOLEAN
      /\ phase \notin {"saving", "ended"} => status \in {"running", "canceled"}
  BY <1>1 DEF TypeInv, EndInv
<1>2. CASE LoopEnds
  BY <1>0, <1>2, <1>q DEF LoopEnds, Ending
<1>3. CASE Timeout
  BY <1>0, <1>3, <1>q DEF Timeout, Ending
<1>4. CASE SkipNode
  BY <1>1, <1>4, SkipCore, SkipPlace
<1>5. CASE StartNode
  BY <1>1, <1>5, StartCore, StartPlace
<1>6. ASSUME NEW outs \in SUBSET Outputs(current.node), Succeed(outs) PROVE Core' /\ PlaceInv'
  <2>1. outs \in SUBSET Nat /\ "success" \in Finished /\ Record(outs, "success", "none")
    BY <1>1, <1>6, OutsFacts DEF Succeed, Finished
  <2> QED BY <1>1, <2>1, RecordCore, RecordPlace
<1>7. CASE ContinueOnFail
  <2>1. PICK outs \in SUBSET Nat : outs = PassThrough(current)
    BY <1>1, OutsFacts
  <2>2. "continued" \in Finished /\ Record(outs, "continued", "error")
    BY <1>7, <2>1 DEF ContinueOnFail, Finished
  <2> QED BY <1>1, <2>2, RecordCore, RecordPlace
<1>8. CASE ReturnNull
  BY <1>1, <1>8, NullCore, NullPlace
<1>9. ASSUME NEW e \in {"error", "canceled"}, FailNode(e) PROVE Core' /\ PlaceInv'
  <2>1. PutBack("error") /\ executionError' \in {"error", "canceled"} /\ waitTill' = waitTill
    BY <1>9 DEF FailNode
  <2> QED BY <1>1, <2>1, PutBackCore, PutBackPlace
<1>10. CASE PutToWait
  <2>1. PutBack("waiting") /\ executionError' = executionError /\ waitTill' = TRUE
    BY <1>10 DEF PutToWait
  <2> QED BY <1>1, <2>1, PutBackCore, PutBackPlace
<1>11. ASSUME NEW c \in wf.connections, AddNode(c) PROVE Core' /\ PlaceInv'
  BY <1>1, <1>11, AddNodeCore, AddNodePlace
<1>12. CASE AllAdded
  BY <1>0, <1>12, <1>q DEF AllAdded, Ending
<1>13. CASE NodeDone
  BY <1>1, <1>13, NodeDoneCore, NodeDonePlace
<1>14. CASE DestinationDone
  BY <1>0, <1>14, <1>q DEF DestinationDone, Ending
<1>15. CASE Settle
  <2>1. /\ status' = "error" => executionError = "error"
        /\ status' = "waiting" => waitTill
    BY <1>1, <1>15 DEF Settle, FinalStatus, HookInv
  <2> QED BY <1>0, <1>15, <1>q, <2>1 DEF Settle, Ending
<1>16. CASE Saved
  BY <1>0, <1>16, <1>q DEF Saved, Ending
<1>17. CASE Cancel
  BY <1>0, <1>17, <1>q DEF Cancel, Ending
<1>18. CASE Resume
  BY <1>1, <1>18, RestartCore, ResumePlace
<1>19. CASE Retry
  BY <1>1, <1>19, RestartCore, RetryPlace
<1>20. CASE UNCHANGED vars
  <2>1. /\ UNCHANGED dataVars /\ wf' = wf
        /\ UNCHANGED <<phase, status, waitTill, executionError, early>>
    BY <1>20 DEF vars, engineVars
  <2> QED BY <1>0, <1>q, <2>1
<1> QED
  BY <1>2, <1>3, <1>4, <1>5, <1>6, <1>7, <1>8, <1>9, <1>10, <1>11, <1>12, <1>13, <1>14, <1>15,
     <1>16, <1>17, <1>18, <1>19, <1>20 DEF Next, EngineStep

\* A packet that is in one place has one element in the set of its places.
LEMMA OnePlaceCounted ==
    ASSUME Inv, NEW p \in Sent PROVE Cardinality(PlacesOf(p)) = 1
<1> DEFINE to == p.connection.to
           Stacked == {j \in DOMAIN stack : p \in PacketsOf(stack[j].inputs)}
           Waiting == {k \in DOMAIN waitingExecution[to] : p \in PacketsOf(waitingExecution[to][k])}
           InRun == {r \in DOMAIN runData[to] :
                         Counts(runData[to][r]) /\ p \in PacketsOf(runData[to][r].inputs)}
           A == {Place("stack", stack[i].node, i) : i \in Stacked}
           B == {Place("waiting", to, i) : i \in Waiting}
           C == {Place("run", to, i) : i \in InRun}
           D == IF phase = "running" /\ p \in PacketsOf(current.inputs)
                THEN {Place("current", current.node, 0)} ELSE {}
           E == IF p.connection \in targets /\ p.run = runs THEN {Place("target", to, 0)} ELSE {}
           F == IF p \in dropped THEN {Place("dropped", to, 0)} ELSE {}
           G == IF p \in lost THEN {Place("lost", to, 0)} ELSE {}
<1>1. p \in Packet /\ to \in Nodes
  <2>1. p \in Packet
    BY SentFacts DEF Inv
  <2> QED BY <2>1, TypeFacts DEF Inv
<1>2. OnePlace(p) /\ Somewhere(p)
  BY <1>1 DEF Inv, PlaceInv
<1>3. PlacesOf(p) = A \cup B \cup C \cup D \cup E \cup F \cup G
  BY DEF PlacesOf
<1>4. IF OnStack(p) THEN \E x : A = {x} ELSE A = {}
  <2>1. CASE OnStack(p)
    <3>1. PICK i \in Stacked : TRUE
      BY <2>1 DEF OnStack, InStack
    <3>2. Stacked = {i}
      BY <3>1, <1>2 DEF OnePlace, OnceInStack
    <3>3. A = {Place("stack", stack[i].node, i)}
      BY <3>2
    <3> QED BY <2>1, <3>3
  <2>2. CASE ~OnStack(p)
    BY <2>2 DEF OnStack, InStack
  <2> QED BY <2>1, <2>2
<1>5. IF Waits(p) THEN \E x : B = {x} ELSE B = {}
  <2>1. CASE Waits(p)
    <3>1. PICK i \in Waiting : TRUE
      BY <2>1 DEF Waits, InWaiting
    <3>2. Waiting = {i}
      BY <3>1, <1>2 DEF OnePlace, OnceInWaiting
    <3>3. B = {Place("waiting", to, i)}
      BY <3>2
    <3> QED BY <2>1, <3>3
  <2>2. CASE ~Waits(p)
    BY <2>2 DEF Waits, InWaiting
  <2> QED BY <2>1, <2>2
<1>6. \A r \in DOMAIN runData[to] : Counts(runData[to][r]) <=> runData[to][r].status \in Finished
  BY <1>1 DEF Inv, EndInv, Counts, Finished, Ending
<1>7. IF Used(p) THEN \E x : C = {x} ELSE C = {}
  <2>1. CASE Used(p)
    <3>1. PICK i \in InRun : TRUE
      BY <2>1, <1>6 DEF Used, InRuns, UsedBy
    <3>2. InRun = {i}
      BY <3>1, <1>2, <1>6 DEF OnePlace, OnceInRuns, UsedBy
    <3>3. C = {Place("run", to, i)}
      BY <3>2
    <3> QED BY <2>1, <3>3
  <2>2. CASE ~Used(p)
    BY <2>2, <1>6 DEF Used, InRuns, UsedBy
  <2> QED BY <2>1, <2>2
<1>8. IF InHand(p) THEN \E x : D = {x} ELSE D = {}
  BY DEF InHand
<1>9. IF Due(p) THEN \E x : E = {x} ELSE E = {}
  BY DEF Due
<1>10. IF p \in dropped THEN \E x : F = {x} ELSE F = {}
  OBVIOUS
<1>11. IF p \in lost THEN \E x : G = {x} ELSE G = {}
  OBVIOUS
<1> HIDE DEF A, B, C, D, E, F, G
<1>12. \E x : PlacesOf(p) = {x}
  BY <1>2, <1>3, <1>4, <1>5, <1>7, <1>8, <1>9, <1>10, <1>11 DEF OnePlace, Apart, Somewhere
<1> QED BY <1>12, FS_Singleton

\* Every packet a run has sent is in exactly one place, for all workflows without
\* cycles and any number of restarts: data is neither duplicated nor forgotten by
\* the stack, the waiting entries, the runs and the restarts of the engine.
THEOREM PacketsInOnePlace == Spec => []EveryPacketOnce
<1>1. ASSUME Inv PROVE EveryPacketOnce
  BY <1>1, OnePlaceCounted DEF EveryPacketOnce
<1> QED BY <1>1, InitInv, NextInv, PTL DEF Spec

-----------------------------------------------------------------------------
(* The nodes before a node. *)

\* A set of nodes that no connection enters from outside.
ClosedBefore(w, S) == \A m \in S : Before(w, m) \subseteq S

\* One step of AllBefore's recursion.
Widened(w, S) == UNION {{m} \union Before(w, m) : m \in S}

\* A step of the recursion adds nodes until the set is closed.
LEMMA WidenedFacts ==
    ASSUME NEW w \in Workflows, NEW S \in SUBSET Nodes
    PROVE  /\ Widened(w, S) \in SUBSET Nodes
           /\ S \subseteq Widened(w, S)
           /\ ClosedBefore(w, S) <=> Widened(w, S) = S
           /\ \A T \in SUBSET Nodes : ClosedBefore(w, T) /\ S \subseteq T => Widened(w, S) \subseteq T
<1>1. \A m : Before(w, m) \subseteq Nodes
  BY WorkflowsAssumption DEF Before, Connection
<1> QED BY <1>1 DEF Widened, ClosedBefore

\* AllBefore is the last of a chain of sets, each the one before it widened.
IsChain(w, n, l, f) ==
    /\ f \in [0..l -> SUBSET Nodes]
    /\ f[0] = Before(w, n)
    /\ \A k \in 1..l : f[k] = Widened(w, f[k - 1])

\* The recursive function of AllBefore is such a chain.
LEMMA BeforeChain ==
    ASSUME NEW w \in Workflows, NEW n
    PROVE  \E f : IsChain(w, n, Cardinality(Nodes), f) /\ AllBefore(w, n) = f[Cardinality(Nodes)]
<1> DEFINE l == Cardinality(Nodes)
           D == SUBSET Nodes
           start == Before(w, n)
           F == [x \in (1..l) \X D |-> Widened(w, x[2])]
           Fix(h) == h = [i \in 0..l |-> IF i = 0 THEN Before(w, n)
                                         ELSE UNION {{m} \union Before(w, m) : m \in h[i - 1]}]
<1>1. l \in Nat
  BY WorkflowsAssumption, FS_CardinalityType
<1>2. start \in D
  BY WorkflowsAssumption DEF Before, Connection
<1>3. ASSUME NEW k \in 1..l, NEW d \in D PROVE F[<<k, d>>] = Widened(w, d) /\ F[<<k, d>>] \in D
  <2>1. Widened(w, d) \in D
    BY WidenedFacts
  <2>2. <<k, d>> \in (1..l) \X D /\ <<k, d>>[2] = d
    OBVIOUS
  <2> QED BY <2>1, <2>2
<1>a. AllBefore(w, n) = (CHOOSE h : Fix(h))[l]
  BY DEF AllBefore
<1> HIDE DEF F, l
<1>4. PICK g : SegmentRun(D, l, start, F, g)
  <2> HIDE DEF D, start
  <2> QED BY <1>1, <1>2, <1>3, SegmentRecursion
<1>5. g \in [0..l -> D] /\ g[0] = start
  BY <1>4 DEF SegmentRun
<1>6. ASSUME NEW k \in 1..l PROVE g[k] = Widened(w, g[k - 1])
  <2>1. g[k - 1] \in D
    BY <1>1, <1>5
  <2> QED BY <2>1, <1>3, <1>4 DEF SegmentRun
<1>7. Fix(g)
  <2> DEFINE rhs(i) == IF i = 0 THEN start ELSE Widened(w, g[i - 1])
  <2>1. ASSUME NEW i \in 0..l PROVE g[i] = rhs(i)
    <3>1. i = 0 \/ i \in 1..l
      BY <1>1
    <3>2. i \in 1..l => i # 0
      OBVIOUS
    <3> HIDE DEF start
    <3> QED BY <3>1, <3>2, <1>5, <1>6
  <2>2. g = [i \in 0..l |-> g[i]]
    BY <1>5
  <2> HIDE DEF rhs
  <2>3. g = [i \in 0..l |-> rhs(i)]
    BY <2>1, <2>2
  <2> QED BY <2>3 DEF rhs, Widened
<1> DEFINE c == CHOOSE h : Fix(h)
<1>8. Fix(c)
  <2> HIDE DEF Fix
  <2> QED BY <1>7
<1>9. c[0] = start /\ DOMAIN c = 0..l
  <2>1. 0 \in 0..l
    BY <1>1
  <2> HIDE DEF c
  <2> QED BY <1>8, <2>1
<1>10. \A k \in 1..l : c[k] = Widened(w, c[k - 1])
  <2> TAKE k \in 1..l
  <2>1. k \in 0..l /\ k # 0
    BY <1>1
  <2> HIDE DEF c
  <2> QED BY <1>8, <2>1 DEF Widened
<1> DEFINE T == {k \in 0..l : c[k] \in D}
<1> HIDE DEF c
<1>11. 0 \in T
  <2>1. 0 \in 0..l
    BY <1>1
  <2> QED BY <1>2, <1>9, <2>1
<1>12. ASSUME NEW k \in 1..l, k - 1 \in T PROVE k \in T
  <2>1. k \in 0..l /\ c[k - 1] \in D
    BY <1>1, <1>12
  <2>2. c[k] \in D
    BY <1>10, <2>1, WidenedFacts
  <2> QED BY <2>1, <2>2
<1> HIDE DEF T
<1>13. \A k \in 0..l : k \in T
  BY <1>1, <1>11, <1>12, SegmentInduction
<1>14. c \in [0..l -> D]
  <2>1. \A k \in 0..l : c[k] \in D
    BY <1>13 DEF T
  <2>2. c = [i \in 0..l |-> c[i]]
    BY <1>8 DEF c
  <2> QED BY <2>1, <2>2
<1>15. IsChain(w, n, l, c)
  BY <1>9, <1>10, <1>14 DEF IsChain
<1>16. AllBefore(w, n) = c[l]
  BY <1>a DEF c
<1> QED BY <1>15, <1>16 DEF l

(***************************************************************************)
(* The chain grows until it is closed, and there are no more sets in it    *)
(* than nodes: its last set is closed.  It is the least closed set with    *)
(* the nodes right before n.                                               *)
(***************************************************************************)
LEMMA AllBeforeFacts ==
    ASSUME NEW w \in Workflows, NEW n
    PROVE  /\ AllBefore(w, n) \in SUBSET Nodes
           /\ Before(w, n) \subseteq AllBefore(w, n)
           /\ ClosedBefore(w, AllBefore(w, n))
           /\ \A T \in SUBSET Nodes :
                 ClosedBefore(w, T) /\ Before(w, n) \subseteq T => AllBefore(w, n) \subseteq T
<1>1. PICK l \in Nat : l = Cardinality(Nodes)
  BY WorkflowsAssumption, FS_CardinalityType
<1>2. PICK f : IsChain(w, n, l, f) /\ AllBefore(w, n) = f[l]
  BY <1>1, BeforeChain
<1>3. /\ f \in [0..l -> SUBSET Nodes] /\ f[0] = Before(w, n) /\ AllBefore(w, n) = f[l]
      /\ \A k \in 1..l : f[k] = Widened(w, f[k - 1])
  BY <1>2 DEF IsChain
<1>4. IsFiniteSet(Nodes)
  BY WorkflowsAssumption
<1>5. \A k \in 0..l : f[k] \in SUBSET Nodes /\ IsFiniteSet(f[k]) /\ Cardinality(f[k]) \in Nat
  <2> TAKE k \in 0..l
  <2>1. f[k] \in SUBSET Nodes
    BY <1>3
  <2>2. IsFiniteSet(f[k])
    BY <1>4, <2>1, FS_Subset
  <2> QED BY <2>1, <2>2, FS_CardinalityType
<1>6. \A k \in 1..l : k \in 0..l /\ k - 1 \in 0..l /\ k \in Nat
  BY <1>1
<1>7. f[l] \in SUBSET Nodes /\ l \in 0..l /\ 0 \in 0..l
  BY <1>3
<1>8. ASSUME NEW T \in SUBSET Nodes, ClosedBefore(w, T), Before(w, n) \subseteq T
      PROVE  f[l] \subseteq T
  <2> DEFINE S == {k \in 0..l : f[k] \subseteq T}
  <2>1. 0 \in S
    BY <1>3, <1>7, <1>8
  <2>2. ASSUME NEW k \in 1..l, k - 1 \in S PROVE k \in S
    <3>1. f[k - 1] \in SUBSET Nodes /\ f[k - 1] \subseteq T
      BY <1>3, <1>6, <2>2
    <3>2. Widened(w, f[k - 1]) \subseteq T
      BY <1>8, <3>1, WidenedFacts
    <3> QED BY <1>3, <1>6, <3>2
  <2> HIDE DEF S
  <2>3. \A k \in 0..l : k \in S
    BY <2>1, <2>2, SegmentInduction
  <2> QED BY <1>7, <2>3 DEF S
<1>9. Before(w, n) \subseteq f[l]
  <2> DEFINE S == {k \in 0..l : Before(w, n) \subseteq f[k]}
  <2>1. 0 \in S
    BY <1>3, <1>7
  <2>2. ASSUME NEW k \in 1..l, k - 1 \in S PROVE k \in S
    <3>1. f[k - 1] \in SUBSET Nodes /\ Before(w, n) \subseteq f[k - 1]
      BY <1>3, <1>6, <2>2
    <3>2. f[k - 1] \subseteq Widened(w, f[k - 1])
      BY <3>1, WidenedFacts
    <3> QED BY <1>3, <1>6, <3>1, <3>2
  <2> HIDE DEF S
  <2>3. \A k \in 0..l : k \in S
    BY <2>1, <2>2, SegmentInduction
  <2> QED BY <1>7, <2>3 DEF S
<1>10. ClosedBefore(w, f[l])
  <2> DEFINE S == {k \in 0..l : ClosedBefore(w, f[k]) \/ Cardinality(f[k]) >= k}
  <2>1. 0 \in S
    BY <1>5, <1>7
  <2>2. ASSUME NEW k \in 1..l, k - 1 \in S PROVE k \in S
    <3>1. /\ f[k - 1] \in SUBSET Nodes /\ f[k] = Widened(w, f[k - 1])
          /\ k - 1 \in 0..l /\ k \in 0..l
      BY <1>3, <1>6
    <3>2. /\ f[k - 1] \subseteq f[k]
          /\ ClosedBefore(w, f[k - 1]) <=> f[k] = f[k - 1]
      BY <3>1, WidenedFacts
    <3>3. CASE ClosedBefore(w, f[k - 1])
      BY <3>1, <3>2, <3>3
    <3>4. CASE ~ClosedBefore(w, f[k - 1])
      <4>1. Cardinality(f[k - 1]) >= k - 1
        BY <2>2, <3>4
      <4>2. Cardinality(f[k - 1]) < Cardinality(f[k])
        <5>1. PICK a, b : a = f[k - 1] /\ b = f[k]
          OBVIOUS
        <5>2. IsFiniteSet(b) /\ a \subseteq b /\ a # b
          BY <1>5, <3>1, <3>2, <3>4, <5>1
        <5>3. Cardinality(a) < Cardinality(b)
          BY <5>2, FS_Subset, FS_CardinalityType
        <5> QED BY <5>1, <5>3
      <4>3. PICK x \in Nat, y \in Nat : x = Cardinality(f[k - 1]) /\ y = Cardinality(f[k])
        BY <1>5, <3>1
      <4>4. y >= k
        BY <4>1, <4>2, <4>3
      <4> QED BY <3>1, <4>3, <4>4
    <3> QED BY <3>3, <3>4
  <2> HIDE DEF S
  <2>3. \A k \in 0..l : k \in S
    BY <2>1, <2>2, SegmentInduction
  <2>4. ClosedBefore(w, f[l]) \/ Cardinality(f[l]) >= l
    BY <1>7, <2>3 DEF S
  <2>5. CASE Cardinality(f[l]) >= l
    <3>1. f[l] = Nodes
      <4> SUFFICES ASSUME f[l] # Nodes PROVE FALSE
        OBVIOUS
      <4>1. PICK a : a = f[l]
        OBVIOUS
      <4>2. a \subseteq Nodes /\ a # Nodes /\ Cardinality(a) \in Nat
        BY <1>5, <1>7, <4>1
      <4>3. Cardinality(a) < Cardinality(Nodes)
        BY <1>1, <1>4, <4>2, FS_Subset
      <4> QED BY <1>1, <2>5, <4>1, <4>2, <4>3
    <3>2. \A m : Before(w, m) \subseteq Nodes
      BY WorkflowsAssumption DEF Before, Connection
    <3> QED BY <3>1, <3>2 DEF ClosedBefore
  <2> QED BY <2>4, <2>5
<1> QED BY <1>3, <1>7, <1>8, <1>9, <1>10

\* What comes before a node before n comes before n.
LEMMA AllBeforeTransitive ==
    ASSUME NEW w \in Workflows, NEW n, NEW m \in AllBefore(w, n)
    PROVE  AllBefore(w, m) \subseteq AllBefore(w, n)
<1>1. AllBefore(w, n) \in SUBSET Nodes /\ ClosedBefore(w, AllBefore(w, n))
  BY AllBeforeFacts
<1>2. Before(w, m) \subseteq AllBefore(w, n)
  BY <1>1 DEF ClosedBefore
<1> QED BY <1>1, <1>2, AllBeforeFacts

\* Among some of the nodes there is one with none of them before it.
LEMMA FirstOfNodes ==
    ASSUME NEW w \in Workflows, NEW S \in SUBSET Nodes, S # {}
    PROVE  \E m \in S : AllBefore(w, m) \cap S = {}
<1> DEFINE size(m) == Cardinality(AllBefore(w, m))
           T == {size(m) : m \in S}
<1>1. \A m \in Nodes : IsFiniteSet(AllBefore(w, m)) /\ size(m) \in Nat
  <2> TAKE m \in Nodes
  <2>1. AllBefore(w, m) \in SUBSET Nodes /\ IsFiniteSet(Nodes)
    BY AllBeforeFacts, WorkflowsAssumption
  <2>2. IsFiniteSet(AllBefore(w, m))
    BY <2>1, FS_Subset
  <2> QED BY <2>2, FS_CardinalityType
<1>2. T \in SUBSET Nat /\ T # {}
  BY <1>1
<1>3. Min(T) \in T /\ \A y \in T : Min(T) <= y
  <2> HIDE DEF T
  <2> QED BY <1>2, MinOfNat
<1>4. PICK m \in S : size(m) = Min(T)
  BY <1>3
<1>5. ASSUME NEW x \in AllBefore(w, m) \cap S PROVE FALSE
  <2>1. AllBefore(w, x) \subseteq AllBefore(w, m)
    BY AllBeforeTransitive
  <2>2. x \notin AllBefore(w, x)
    BY WorkflowsAssumption
  <2>3. size(x) < size(m)
    <3>1. PICK a, b : a = AllBefore(w, x) /\ b = AllBefore(w, m)
      OBVIOUS
    <3>2. IsFiniteSet(b) /\ a \subseteq b /\ a # b
      BY <1>1, <1>4, <2>1, <2>2, <3>1
    <3>3. Cardinality(a) < Cardinality(b)
      BY <3>2, FS_Subset, FS_CardinalityType
    <3> QED BY <3>1, <3>3
  <2>4. size(m) <= size(x) /\ size(x) \in Nat /\ size(m) \in Nat
    BY <1>1, <1>3, <1>4
  <2> HIDE DEF size
  <2> QED BY <2>3, <2>4
<1>6. AllBefore(w, m) \cap S = {}
  BY <1>5
<1> QED BY <1>4, <1>6

-----------------------------------------------------------------------------
(* What is left waiting. *)

\* No waiting node may run without the inputs it has no data for.
NoneMayRun == \A n \in Range(waitingNodes) : ~MayRunIncomplete(n)

\* The loop does not end, unless by "continue", while a waiting node may run; it
\* ends with entries on the stack only for a reason other than success.
SearchInv ==
    /\ phase \in {"loop", "settling", "saving", "ended"} /\ stack = << >> /\ ~early => NoneMayRun
    /\ phase = "settling" /\ stack # << >> =>
          status = "canceled" \/ executionError # "none" \/ waitTill
    /\ phase \in {"saving", "ended"} /\ stack # << >> => status # "success"

\* The search depends on the workflow and the waiting entries only.
LEMMA NoneMayRunSame ==
    ASSUME wf' = wf, UNCHANGED <<waitingExecution, waitingNodes>>
    PROVE  NoneMayRun' <=> NoneMayRun
  BY DEF NoneMayRun, MayRunIncomplete, RequirementMet, firstRunIndex, getParentNodes

\* The stack is not empty when the engine starts.
LEMMA InitSearch == Init => SearchInv
<1> SUFFICES ASSUME Init PROVE SearchInv
  OBVIOUS
<1>1. stack # << >>
  BY DEF Init
<1> QED BY <1>1 DEF Init, SearchInv

\* Every step keeps the search's promise.
LEMMA NextSearch == Inv /\ SearchInv /\ [Next]_vars => SearchInv'
<1> SUFFICES ASSUME Inv, SearchInv, [Next]_vars PROVE SearchInv'
  OBVIOUS
<1>1. ASSUME UNCHANGED dataVars, wf' = wf PROVE stack' = stack /\ (NoneMayRun' <=> NoneMayRun)
  BY <1>1, NoneMayRunSame DEF dataVars
<1>2. CASE LoopEnds
  BY <1>1, <1>2 DEF LoopEnds, SearchInv
<1>3. CASE Timeout
  BY <1>1, <1>3 DEF Timeout, SearchInv
<1>4. CASE SkipNode
  BY <1>4 DEF SkipNode, TakeEntry, SearchInv
<1>5. CASE StartNode
  BY <1>5 DEF StartNode, TakeEntry, SearchInv
<1>6. ASSUME NEW outs \in SUBSET Outputs(current.node), Succeed(outs) PROVE SearchInv'
  BY <1>6 DEF Succeed, Record, SearchInv
<1>7. CASE ContinueOnFail
  BY <1>7 DEF ContinueOnFail, Record, SearchInv
<1>8. CASE ReturnNull
  BY <1>8 DEF ReturnNull, SearchInv
<1>9. ASSUME NEW s, PutBack(s), executionError' # "none" \/ waitTill' PROVE SearchInv'
  <2>1. stack' = <<current>> \o stack /\ stack \in Seq(EntryType(wf)) /\ current \in EntryType(wf)
    BY <1>9 DEF PutBack, Inv, TypeInv
  <2>2. stack' # << >>
    BY <2>1, PushFacts
  <2> QED BY <1>9, <2>2 DEF PutBack, SearchInv
<1>10. ASSUME NEW e \in {"error", "canceled"}, FailNode(e) PROVE SearchInv'
  BY <1>9, <1>10 DEF FailNode
<1>11. CASE PutToWait
  BY <1>9, <1>11 DEF PutToWait
<1>12. ASSUME NEW c \in wf.connections, AddNode(c) PROVE SearchInv'
  BY <1>12 DEF AddNode, engineVars, SearchInv
<1>13. CASE AllAdded
  BY <1>13 DEF AllAdded, SearchInv
<1>14. CASE NodeDone
  <2>1. phase' = "loop" /\ wf' = wf
    BY <1>14 DEF NodeDone
  <2>2. CASE FindsNone
    <3>1. stack' = << >> => NoneMayRun'
      BY <2>1, <2>2, NoneMayRunSame DEF FindsNone, NoneMayRun
    <3> QED BY <2>1, <3>1 DEF SearchInv
  <2>3. ASSUME NEW n, NEW k, TakesWaiting(n, k) PROVE SearchInv'
    <3>1. PICK e : e = Entry(n, waitingExecution[n][k])
      OBVIOUS
    <3>2. e \in EntryType(wf) /\ stack' = <<e>> \o stack /\ stack \in Seq(EntryType(wf))
      BY <2>3, <3>1, TakesWaitingFacts DEF TakesWaiting, Inv, TypeInv
    <3>3. stack' # << >>
      BY <3>2, PushFacts
    <3> QED BY <2>1, <3>3 DEF SearchInv
  <2> QED BY <1>14, <2>2, <2>3, NodeDoneFacts DEF Inv
<1>15. CASE DestinationDone
  BY <1>15 DEF DestinationDone, SearchInv
<1>16. CASE Settle
  <2>1. phase = "settling" /\ phase' \in {"saving", "ended"} /\ early' = early /\ status' = FinalStatus
    BY <1>16 DEF Settle
  <2>2. stack' = stack /\ (NoneMayRun' <=> NoneMayRun)
    BY <1>1, <1>16 DEF Settle
  <2>3. stack # << >> => status' # "success"
    BY <2>1 DEF SearchInv, FinalStatus, Inv, HookInv
  <2> QED BY <2>1, <2>2, <2>3 DEF SearchInv
<1>17. CASE Saved
  BY <1>1, <1>17 DEF Saved, SearchInv
<1>18. CASE Cancel
  BY <1>1, <1>18 DEF Cancel, SearchInv
<1>19. CASE Resume \/ Retry
  <2>1. /\ phase = "ended" /\ phase' = "loop" /\ wf' = wf /\ early' = early
        /\ UNCHANGED <<waitingExecution, waitingNodes>>
    BY <1>19 DEF Resume, Retry, Restart
  <2>2. stack' = << >> => stack = << >>
    <3>1. CASE Resume
      <4>1. PICK s, t : s = stack /\ t = stack'
        OBVIOUS
      <4>2. s \in Seq(EntryType(wf)) /\ t = [s EXCEPT ![1].disabled = TRUE]
        BY <3>1, <4>1 DEF Resume, Inv, TypeInv
      <4>3. Len(t) = Len(s) /\ t \in Seq(EntryType(wf))
        BY <4>2, MarkFacts
      <4> QED BY <4>1, <4>2, <4>3, EmptySeq
    <3>2. CASE Retry
      BY <3>2 DEF Retry
    <3> QED BY <1>19, <3>1, <3>2
  <2> QED BY <2>1, <2>2, NoneMayRunSame DEF SearchInv
<1>20. CASE UNCHANGED vars
  BY <1>1, <1>20 DEF vars, engineVars, SearchInv
<1> QED
  BY <1>2, <1>3, <1>4, <1>5, <1>6, <1>7, <1>8, <1>10, <1>11, <1>12, <1>13, <1>14, <1>15,
     <1>16, <1>17, <1>18, <1>19, <1>20 DEF Next, EngineStep

\* A successful execution whose last iteration did not end by "continue" leaves
\* data waiting only behind a required input that is missing, for all workflows
\* without cycles: of the waiting nodes with none of them before it, each lacks
\* such an input, or the search would have found it.
THEOREM OnlyLackingNodesWait == Spec => []LeftWaitingLacksInput
<1>1. ASSUME Inv, SearchInv PROVE LeftWaitingLacksInput
  <2> SUFFICES ASSUME phase = "ended", status = "success", ~early, NEW n \in Range(waitingNodes)
               PROVE  \E m \in (getParentNodes(n) \union {n}) \intersect Range(waitingNodes) :
                         ~RequirementMet(m, waitingExecution[m][firstRunIndex(m)])
    BY DEF LeftWaitingLacksInput
  <2> DEFINE S == (getParentNodes(n) \union {n}) \intersect Range(waitingNodes)
  <2>1. NoneMayRun
    BY <1>1 DEF SearchInv
  <2>2. wf \in Workflows /\ Range(waitingNodes) \subseteq Nodes
    BY <1>1, LenProperties DEF Inv, TypeInv, Range
  <2>3. S \in SUBSET Nodes /\ S # {}
    BY <2>2
  <2>4. PICK m \in S : AllBefore(wf, m) \cap S = {}
    <3> HIDE DEF S
    <3> QED BY <2>2, <2>3, FirstOfNodes
  <2>5. getParentNodes(m) \intersect Range(waitingNodes) = {}
    <3> SUFFICES ASSUME NEW x \in getParentNodes(m), x \in Range(waitingNodes) PROVE FALSE
      OBVIOUS
    <3>1. x \in AllBefore(wf, m)
      BY DEF getParentNodes
    <3>2. m = n \/ m \in AllBefore(wf, n)
      BY DEF getParentNodes
    <3>3. x \in AllBefore(wf, n)
      BY <2>2, <3>1, <3>2, AllBeforeTransitive
    <3>4. x \in S
      BY <3>3 DEF getParentNodes
    <3> QED BY <2>4, <3>1, <3>4
  <2>6. ~MayRunIncomplete(m)
    BY <2>1 DEF NoneMayRun
  <2>7. ~RequirementMet(m, waitingExecution[m][firstRunIndex(m)])
    BY <2>5, <2>6 DEF MayRunIncomplete
  <2> QED BY <2>7
<1> QED BY <1>1, InitInv, NextInv, InitSearch, NextSearch, PTL DEF Spec

-----------------------------------------------------------------------------
(* Data that never comes. *)

\* The members of a sequence, when it grows and shrinks.
LEMMA RangeFacts ==
    ASSUME NEW E, NEW s \in Seq(E)
    PROVE  /\ \A e \in E : Range(<<e>> \o s) = {e} \cup Range(s)
           /\ \A e \in E : Range(Append(s, e)) = Range(s) \cup {e}
           /\ s # << >> => Head(s) \in Range(s) /\ Range(Tail(s)) \subseteq Range(s)
           /\ s # << >> => Range(Front(s)) \subseteq Range(s)
<1>1. PICK n \in Nat : n = Len(s)
  BY LenProperties
<1>2. DOMAIN s = 1..n
  BY <1>1, LenProperties
<1>3. ASSUME NEW e \in E PROVE Range(<<e>> \o s) = {e} \cup Range(s)
  <2> DEFINE t == <<e>> \o s
  <2>1. <<e>> \in Seq(E) /\ Len(<<e>>) = 1 /\ <<e>>[1] = e
    OBVIOUS
  <2>2. /\ t \in Seq(E) /\ Len(t) = 1 + n
        /\ \A i \in 1..(1 + n) : t[i] = IF i <= 1 THEN <<e>>[i] ELSE s[i - 1]
    BY <1>1, <2>1, ConcatProperties
  <2>3. DOMAIN t = 1..(1 + n)
    BY <2>2, LenProperties
  <2> HIDE DEF t
  <2>4. t[1] = e /\ 1 \in DOMAIN t
    BY <2>1, <2>2, <2>3
  <2>5. \A i \in DOMAIN s : i + 1 \in DOMAIN t /\ t[i + 1] = s[i]
    <3> TAKE i \in DOMAIN s
    <3>1. i + 1 \in 1..(1 + n) /\ ~(i + 1 <= 1) /\ (i + 1) - 1 = i
      BY <1>2
    <3> QED BY <2>2, <2>3, <3>1
  <2>6. \A i \in DOMAIN t : i = 1 \/ (i - 1 \in DOMAIN s /\ t[i] = s[i - 1])
    <3> TAKE i \in DOMAIN t
    <3>1. CASE i # 1
      <4>1. i \in 1..(1 + n) /\ i - 1 \in 1..n /\ ~(i <= 1)
        BY <2>3, <3>1
      <4> QED BY <1>2, <2>2, <4>1
    <3> QED BY <3>1
  <2>7. Range(t) = {e} \cup Range(s)
    BY <2>4, <2>5, <2>6 DEF Range
  <2> QED BY <2>7 DEF t
<1>4. ASSUME NEW e \in E PROVE Range(Append(s, e)) = Range(s) \cup {e}
  <2> DEFINE t == Append(s, e)
  <2>1. /\ t \in Seq(E) /\ Len(t) = n + 1
        /\ \A i \in 1..n : t[i] = s[i]
        /\ t[n + 1] = e
    BY <1>1, AppendProperties
  <2>2. DOMAIN t = 1..(n + 1)
    BY <2>1, LenProperties
  <2> HIDE DEF t
  <2>3. \A i \in DOMAIN t : i = n + 1 \/ (i \in DOMAIN s /\ t[i] = s[i])
    BY <1>2, <2>1, <2>2
  <2>4. n + 1 \in DOMAIN t /\ \A i \in DOMAIN s : i \in DOMAIN t /\ t[i] = s[i]
    BY <1>2, <2>1, <2>2
  <2>5. Range(t) = Range(s) \cup {e}
    BY <2>1, <2>3, <2>4 DEF Range
  <2> QED BY <2>5 DEF t
<1>5. ASSUME s # << >> PROVE Head(s) \in Range(s) /\ Range(Tail(s)) \subseteq Range(s)
  <2> DEFINE t == Tail(s)
  <2>1. Head(s) = s[1] /\ n # 0
    BY <1>1, <1>5, EmptySeq
  <2>2. t \in Seq(E) /\ Len(t) = n - 1 /\ \A i \in 1..Len(t) : t[i] = s[i + 1]
    BY <1>1, <1>5, HeadTailProperties
  <2>3. DOMAIN t = 1..(n - 1)
    BY <2>2, LenProperties
  <2> HIDE DEF t
  <2>4. \A i \in DOMAIN t : i + 1 \in DOMAIN s /\ t[i] = s[i + 1]
    BY <1>2, <2>2, <2>3
  <2>5. Range(t) \subseteq Range(s)
    BY <2>4 DEF Range
  <2>6. 1 \in DOMAIN s
    BY <1>2, <2>1
  <2> QED BY <2>1, <2>5, <2>6 DEF Range, t
<1>6. ASSUME s # << >> PROVE Range(Front(s)) \subseteq Range(s)
  <2>1. \A r \in DOMAIN Front(s) : r \in DOMAIN s /\ Front(s)[r] = s[r]
    BY <1>6, FrontRunFacts
  <2> QED BY <2>1 DEF Range
<1> QED BY <1>3, <1>4, <1>5, <1>6

\* The node may still run, or send data.
Active(x) ==
    \/ \E e \in Range(stack) : e.node = x
    \/ x \in Range(waitingNodes)
    \/ phase = "running" /\ current.node = x
    \/ targets # {} /\ current.node = x

\* Node n was, or is about to be, or is being executed without data for the input.
Lacks(n, input) ==
    \/ \E e \in Range(stack) : e.node = n /\ input \notin DOMAIN e.inputs
    \/ \E run \in Range(runData[n]) : input \notin DOMAIN run.inputs
    \/ phase = "running" /\ current.node = n /\ input \notin DOMAIN current.inputs

\* Before a node that is executed without data for a connected input, no node is
\* active any more.
NoMoreInv ==
    \A c \in wf.connections : Lacks(c.to, c.input) => \A x \in AllBefore(wf, c.to) : ~Active(x)

\* A step that makes no node active and lets none lack an input.
LEMMA NoMoreKept ==
    ASSUME NoMoreInv, wf' = wf,
           \A x : Active(x)' => Active(x),
           \A c \in wf.connections : Lacks(c.to, c.input)' => Lacks(c.to, c.input)
    PROVE  NoMoreInv'
  BY DEF NoMoreInv

\* Only the start node is active at first, and it is not before itself.
LEMMA InitNoMore == Init => NoMoreInv
<1> SUFFICES ASSUME Init PROVE NoMoreInv
  OBVIOUS
<1>1. PICK e : e = Entry(wf.start, NoInputs)
  OBVIOUS
<1>2. stack = <<e>> /\ e.node = wf.start /\ Range(stack) = {e}
  BY <1>1 DEF Init, Entry, Range
<1>3. waitingNodes = << >> /\ Range(waitingNodes) = {}
  BY DEF Init, Range
<1>4. \A n \in Nodes : Range(runData[n]) = {}
  BY DEF Init, Range
<1>5. phase # "running" /\ targets = {}
  BY DEF Init
<1>6. \A x : Active(x) => x = wf.start
  BY <1>2, <1>3, <1>5 DEF Active
<1>7. wf \in Workflows
  BY DEF Init
<1>8. \A c \in wf.connections : c.to \in Nodes
  BY <1>7, WorkflowsAssumption DEF Connection
<1>9. \A c \in wf.connections : Lacks(c.to, c.input) => c.to = wf.start
  BY <1>2, <1>4, <1>5, <1>8 DEF Lacks
<1>10. \A n \in Nodes : n \notin AllBefore(wf, n)
  BY <1>7, WorkflowsAssumption
<1> QED BY <1>6, <1>8, <1>9, <1>10 DEF NoMoreInv

\* The inputs of a node are numbered from 0.
LEMMA InputNumbers ==
    ASSUME TypeInv, NEW n, ConnectionsTo(n) # {}
    PROVE  /\ NumberOfInputs(n) \in Nat
           /\ \A c \in wf.connections : c.to = n => c.input \in 0..(NumberOfInputs(n) - 1)
<1> DEFINE S == {c.input : c \in ConnectionsTo(n)}
<1>1. wf.connections \subseteq Connection /\ IsFiniteSet(wf.connections)
  BY WfFacts
<1>2. IsFiniteSet(ConnectionsTo(n))
  BY <1>1, FS_Subset DEF ConnectionsTo
<1>3. S \in SUBSET Nat /\ S # {}
  BY <1>1 DEF ConnectionsTo, Connection
<1>4. IsFiniteSet(S)
  <2> DEFINE g == [c \in ConnectionsTo(n) |-> c.input]
  <2>1. g \in Surjection(ConnectionsTo(n), S)
    BY DEF Surjection
  <2> HIDE DEF g, S
  <2> QED BY <1>2, <2>1, FS_Surjection
<1>5. NumberOfInputs(n) = 1 + Max(S)
  BY DEF NumberOfInputs
<1>6. \A c \in wf.connections : c.to = n => c.input \in S
  BY DEF ConnectionsTo
<1> HIDE DEF S
<1>7. Max(S) \in S /\ \A y \in S : Max(S) >= y
  BY <1>3, <1>4, MaxOfNat
<1>8. PICK m \in Nat : m = Max(S)
  BY <1>3, <1>7
<1>9. NumberOfInputs(n) = 1 + m
  BY <1>5, <1>8
<1>10. \A y \in S : y \in 0..((1 + m) - 1)
  BY <1>3, <1>7, <1>8
<1> QED BY <1>6, <1>9, <1>10

\* Inputs as many as the node has are all of them.
LEMMA CompleteInputs ==
    ASSUME TypeInv, NEW c \in wf.connections, NEW f \in InputsOf(wf, c.to),
           Cardinality(DOMAIN f) = NumberOfInputs(c.to)
    PROVE  c.input \in DOMAIN f
<1>1. ConnectionsTo(c.to) # {}
  BY DEF ConnectionsTo
<1>2. PICK l \in Nat : l = NumberOfInputs(c.to)
  BY <1>1, InputNumbers
<1>3. \A d \in wf.connections : d.to = c.to => d.input \in 0..(l - 1)
  BY <1>1, <1>2, InputNumbers
<1>4. DOMAIN f \subseteq 0..(l - 1)
  BY <1>3 DEF InputsOf
<1>5. IsFiniteSet(0..(l - 1)) /\ Cardinality(0..(l - 1)) = l
  <2>1. PICK m \in Int : m = l - 1
    OBVIOUS
  <2>2. 0 \in Int /\ IsFiniteSet(0..m) /\ Cardinality(0..m) = IF 0 > m THEN 0 ELSE m - 0 + 1
    BY FS_Interval
  <2> QED BY <2>1, <2>2
<1>6. DOMAIN f = 0..(l - 1)
  BY <1>2, <1>4, <1>5, FS_Subset
<1> QED BY <1>3, <1>6

\* A node with one input has its number 0.
LEMMA SingleInput ==
    ASSUME TypeInv, NEW c \in wf.connections, NEW d \in wf.connections, d.to = c.to,
           ~(NumberOfInputs(c.to) > 1)
    PROVE  d.input = c.input
<1>1. ConnectionsTo(c.to) # {}
  BY DEF ConnectionsTo
<1>2. PICK l \in Nat : l = NumberOfInputs(c.to)
  BY <1>1, InputNumbers
<1>3. c.input \in 0..(l - 1) /\ d.input \in 0..(l - 1)
  BY <1>1, <1>2, InputNumbers
<1>4. PICK x \in 0..(l - 1), y \in 0..(l - 1) : x = c.input /\ y = d.input
  BY <1>3
<1>5. x = 0 /\ y = 0
  BY <1>2
<1> QED BY <1>4, <1>5

\* Of the list of waiting nodes only what concerns the changed entries changes.
LEMMA ListFollows ==
    ASSUME TypeInv, TypeInv', WaitingInv, WaitingInv', NEW n,
           \A m \in Nodes : m # n => waitingExecution'[m] = waitingExecution[m]
    PROVE  Range(waitingNodes') \subseteq Range(waitingNodes) \cup {n}
<1> SUFFICES ASSUME NEW m \in Range(waitingNodes'), m # n PROVE m \in Range(waitingNodes)
  OBVIOUS
<1>1. waitingNodes' \in Seq(Nodes)
  BY DEF TypeInv
<1>2. m \in Nodes
  BY <1>1, LenProperties DEF Range
<1> QED BY <1>2 DEF WaitingInv

\* A node is put on the stack with data for all its inputs, or joins the waiting ones.
LEMMA AddNodeEffect ==
    ASSUME Inv, Core', NEW c \in wf.connections, AddNode(c)
    PROVE  /\ Range(waitingNodes') \subseteq Range(waitingNodes) \cup {c.to}
           /\ \A e \in Range(stack') :
                 \/ e \in Range(stack)
                 \/ /\ e.node = c.to
                    /\ \A d \in wf.connections : d.to = c.to => d.input \in DOMAIN e.inputs
<1>0. TypeInv /\ TypeInv' /\ WaitingInv /\ WaitingInv'
  BY DEF Inv, Core
<1>1. PICK packet : packet = [connection |-> c, run |-> runs]
  OBVIOUS
<1>2. /\ packet \in Packet /\ packet.connection = c
      /\ c.to \in Nodes /\ c.input \in Nat
      /\ wf.connections \subseteq Connection
      /\ stack \in Seq(EntryType(wf))
  BY <1>0, <1>1, WfFacts DEF Packet, Connection, TypeInv
<1>3. CASE NumberOfInputs(c.to) > 1
  <2>1. AddToWaiting(c, packet)
    BY <1>1, <1>3 DEF AddNode
  <2>2. PICK inputs, index, old, moved, created :
            AddedTo(c, packet, inputs, index, old, moved, created)
    BY <1>0, <1>2, <2>1, AddToWaitingFacts
  <2> DEFINE entry == Entry(c.to, inputs)
  <2>3. inputs \in InputsOf(wf, c.to)
    BY <2>2 DEF AddedTo
  <2>4. entry \in EntryType(wf) /\ entry.inputs = inputs /\ entry.node = c.to
    BY <1>0, <1>2, <2>3, EntryIsTyped
  <2> HIDE DEF entry
  <2>5. \A m \in Nodes : m # c.to => waitingExecution'[m] = waitingExecution[m]
    <3>1. PICK f : SetWaiting(c.to, f)
      BY <2>2 DEF AddedTo
    <3>2. DOMAIN waitingExecution = Nodes
      BY <1>0, TypeFacts
    <3> QED BY <3>1, <3>2 DEF SetWaiting
  <2>6. Range(waitingNodes') \subseteq Range(waitingNodes) \cup {c.to}
    BY <1>0, <2>5, ListFollows
  <2>7. CASE stack' = stack
    BY <2>6, <2>7
  <2>8. CASE Cardinality(DOMAIN inputs) = NumberOfInputs(c.to) /\ stack' = <<entry>> \o stack
    <3>1. Range(stack') = {entry} \cup Range(stack)
      BY <1>2, <2>4, <2>8, RangeFacts
    <3>2. ASSUME NEW d \in wf.connections, d.to = c.to PROVE d.input \in DOMAIN inputs
      <4>1. inputs \in InputsOf(wf, d.to) /\ Cardinality(DOMAIN inputs) = NumberOfInputs(d.to)
        BY <2>3, <2>8, <3>2
      <4> QED BY <1>0, <4>1, CompleteInputs
    <3> QED BY <2>4, <2>6, <3>1, <3>2
  <2> QED BY <2>2, <2>7, <2>8 DEF AddedTo, entry
<1>4. CASE ~(NumberOfInputs(c.to) > 1)
  <2> DEFINE inputs == With(NoInputs, c.input, packet)
             entry == Entry(c.to, inputs)
  <2>1. stack' = <<entry>> \o stack /\ waitingNodes' = waitingNodes
    BY <1>1, <1>4 DEF AddNode, Push
  <2>2. inputs \in InputsOf(wf, c.to) /\ c.input \in DOMAIN inputs
    <3>1. NoInputs \in InputsOf(wf, c.to) /\ c.input \notin DOMAIN NoInputs
      BY NoInputsType, PartialEmpty DEF NoInputs
    <3>2. PICK f : f = NoInputs
      OBVIOUS
    <3>3. f \in InputsOf(wf, c.to) /\ c.input \notin DOMAIN f
      BY <3>1, <3>2
    <3>4. With(f, c.input, packet) \in InputsOf(wf, c.to)
      BY <1>2, <3>3, InputsWith
    <3>5. c.input \in DOMAIN With(f, c.input, packet)
      BY DEF With
    <3> QED BY <3>2, <3>4, <3>5
  <2> HIDE DEF inputs
  <2>3. entry \in EntryType(wf) /\ entry.inputs = inputs /\ entry.node = c.to
    BY <1>0, <1>2, <2>2, EntryIsTyped
  <2> HIDE DEF entry
  <2>4. Range(stack') = {entry} \cup Range(stack)
    BY <1>2, <2>1, <2>3, RangeFacts
  <2>5. \A d \in wf.connections : d.to = c.to => d.input \in DOMAIN inputs
    BY <1>0, <1>4, <2>2, SingleInput
  <2> QED BY <2>1, <2>3, <2>4, <2>5
<1> QED BY <1>3, <1>4

\* The node added was sent data by an active node: it did not lack that input.
LEMMA AddNodeNoMore ==
    ASSUME Inv, Core', NoMoreInv, NEW c \in wf.connections, AddNode(c)
    PROVE  NoMoreInv' /\ ~Lacks(c.to, c.input)
<1>1. /\ phase = "adding" /\ phase' = "adding" /\ c \in targets /\ targets' = targets \ {c}
      /\ wf' = wf /\ runData' = runData /\ current' = current
  BY DEF AddNode, IsNextTarget, engineVars
<1>2. wf \in Workflows /\ c.from = current.node
  BY <1>1 DEF Inv, TypeInv, TargetsInv
<1>3. Active(c.from)
  BY <1>1, <1>2 DEF Active
<1>4. c.from \in Before(wf, c.to)
  BY DEF Before
<1>5. ~Lacks(c.to, c.input)
  <2>1. c.from \in AllBefore(wf, c.to)
    BY <1>2, <1>4, AllBeforeFacts
  <2> QED BY <1>3, <2>1 DEF NoMoreInv
<1>6. \A n : c.to \in AllBefore(wf, n) => c.from \in AllBefore(wf, n)
  BY <1>2, <1>4, AllBeforeFacts DEF ClosedBefore
<1>7. /\ Range(waitingNodes') \subseteq Range(waitingNodes) \cup {c.to}
      /\ \A e \in Range(stack') :
            \/ e \in Range(stack)
            \/ /\ e.node = c.to
               /\ \A d \in wf.connections : d.to = c.to => d.input \in DOMAIN e.inputs
  BY AddNodeEffect
<1>8. \A x : Active(x)' => Active(x) \/ x = c.to
  BY <1>1, <1>7 DEF Active
<1>9. \A d \in wf.connections : Lacks(d.to, d.input)' => Lacks(d.to, d.input)
  BY <1>1, <1>7 DEF Lacks
<1>10. NoMoreInv'
  <2> SUFFICES ASSUME NEW d \in wf.connections, Lacks(d.to, d.input)',
                      NEW x \in AllBefore(wf, d.to), Active(x)'
               PROVE  FALSE
    BY <1>1 DEF NoMoreInv
  <2>1. Lacks(d.to, d.input)
    BY <1>9
  <2> QED BY <1>3, <1>6, <1>8, <2>1 DEF NoMoreInv
<1> QED BY <1>5, <1>10

\* The search takes a waiting node before which no node waits, when there is
\* nothing else left to do.
LEMMA NodeDoneNoMore ==
    ASSUME Inv, Core', NoMoreInv, NodeDone PROVE NoMoreInv'
<1>1. /\ phase = "after" /\ phase' = "loop" /\ wf' = wf /\ runData' = runData /\ current' = current
      /\ targets' = targets
  BY DEF NodeDone
<1>2. targets = {} /\ wf \in Workflows /\ stack \in Seq(EntryType(wf))
  BY <1>1 DEF Inv, TargetsInv, TypeInv
<1>3. CASE FindsNone
  BY <1>1, <1>3, NoMoreKept DEF FindsNone, Active, Lacks
<1>4. ASSUME NEW n, NEW k, TakesWaiting(n, k) PROVE NoMoreInv'
  <2>1. PICK e : e = Entry(n, waitingExecution[n][k])
    OBVIOUS
  <2>2. e \in EntryType(wf) /\ e.node = n
    BY <1>4, <2>1, TakesWaitingFacts DEF Inv
  <2>3. /\ n \in Nodes /\ n \in Range(waitingNodes) /\ stack = << >> /\ stack' = <<e>> \o stack
        /\ getParentNodes(n) \cap Range(waitingNodes) = {}
    BY <1>4, <2>1 DEF TakesWaiting, MayRunIncomplete
  <2>4. Range(stack) = {} /\ Range(stack') = {e}
    <3>1. Range(stack') = {e} \cup Range(stack)
      <4>1. stack' = <<e>> \o stack
        BY <2>3
      <4> QED BY <1>2, <2>2, <4>1, RangeFacts
    <3>2. Range(stack) = {}
      BY <2>3 DEF Range
    <3> QED BY <3>1, <3>2
  <2>5. Range(waitingNodes') \subseteq Range(waitingNodes)
    <3>1. \A m \in Nodes : m # n => waitingExecution'[m] = waitingExecution[m]
      BY <1>4, TypeFacts DEF TakesWaiting, SetWaiting, Inv
    <3>2. Range(waitingNodes') \subseteq Range(waitingNodes) \cup {n}
      BY <3>1, ListFollows DEF Inv, Core
    <3> QED BY <2>3, <3>2
  <2>6. \A x : Active(x)' => x \in Range(waitingNodes)
    BY <1>1, <1>2, <2>2, <2>3, <2>4, <2>5 DEF Active
  <2>7. \A x : x \in Range(waitingNodes) => Active(x)
    BY DEF Active
  <2>8. \A d \in wf.connections : Lacks(d.to, d.input)' => Lacks(d.to, d.input) \/ d.to = n
    BY <1>1, <2>2, <2>4 DEF Lacks
  <2>9. \A x \in AllBefore(wf, n) : x \notin Range(waitingNodes)
    <3>1. n \notin AllBefore(wf, n)
      BY <1>2, <2>3, WorkflowsAssumption
    <3> QED BY <2>3, <3>1 DEF getParentNodes
  <2> QED BY <1>1, <2>6, <2>7, <2>8, <2>9 DEF NoMoreInv
<1> QED BY <1>3, <1>4, NodeDoneFacts DEF Inv

\* An entry leaves the stack.
LEMMA StartNoMore ==
    ASSUME Inv, NoMoreInv, SkipNode \/ StartNode PROVE NoMoreInv'
<1>1. /\ stack \in Seq(EntryType(wf)) /\ stack # << >> /\ stack' = Tail(stack)
  BY DEF SkipNode, StartNode, TakeEntry, Inv, TypeInv
<1>2. Head(stack) \in Range(stack) /\ Range(stack') \subseteq Range(stack)
  BY <1>1, RangeFacts
<1>3. /\ wf' = wf /\ waitingNodes' = waitingNodes /\ runData' = runData /\ targets' = targets
      /\ phase = "loop" /\ targets = {}
      /\ phase' = "running" => current' = Head(stack)
  BY DEF SkipNode, StartNode, TakeEntry, Inv, TargetsInv
<1>4. \A x : Active(x)' => Active(x)
  BY <1>2, <1>3 DEF Active
<1>5. \A d \in wf.connections : Lacks(d.to, d.input)' => Lacks(d.to, d.input)
  BY <1>2, <1>3 DEF Lacks
<1> QED BY <1>3, <1>4, <1>5, NoMoreKept

\* A run is recorded of the entry that lacked the input.
LEMMA RunNoMore ==
    ASSUME Inv, NoMoreInv, phase = "running", phase' # "running", wf' = wf, current' = current,
           waitingNodes' = waitingNodes, Range(stack') \subseteq Range(stack) \cup {current},
           NEW outs \in SUBSET Nat, NEW s \in Finished \cup {"error", "waiting"},
           AddRun(current, outs, s)
    PROVE  NoMoreInv'
<1>1. /\ runData'[current.node] = Append(runData[current.node], Run(current, outs, s))
      /\ \A n \in Nodes : n # current.node => runData'[n] = runData[n]
      /\ Run(current, outs, s) \in RunType(wf, current.node)
      /\ Run(current, outs, s).inputs = current.inputs
  BY RunAdded DEF Inv
<1>2. current.node \in Nodes /\ runData[current.node] \in Seq(RunType(wf, current.node))
  BY TypeFacts DEF Inv
<1>3. PICK run : run = Run(current, outs, s)
  OBVIOUS
<1>4. Range(runData'[current.node]) = Range(runData[current.node]) \cup {run} /\ run.inputs = current.inputs
  BY <1>1, <1>2, <1>3, RangeFacts
<1>5. \A x : Active(x)' => Active(x)
  BY DEF Active
<1>6. \A d \in wf.connections : d.to \in Nodes
  BY WfFacts DEF Connection, Inv
<1>7. \A d \in wf.connections : Lacks(d.to, d.input)' => Lacks(d.to, d.input)
  <2> SUFFICES ASSUME NEW d \in wf.connections, Lacks(d.to, d.input)' PROVE Lacks(d.to, d.input)
    OBVIOUS
  <2>1. CASE \E e \in Range(stack') : e.node = d.to /\ d.input \notin DOMAIN e.inputs
    BY <2>1 DEF Lacks
  <2>2. CASE \E r \in Range(runData'[d.to]) : d.input \notin DOMAIN r.inputs
    <3>1. CASE d.to = current.node
      BY <1>4, <2>2, <3>1 DEF Lacks
    <3>2. CASE d.to # current.node
      BY <1>1, <1>6, <2>2, <3>2 DEF Lacks
    <3> QED BY <3>1, <3>2
  <2> QED BY <2>1, <2>2 DEF Lacks
<1> QED BY <1>5, <1>7, NoMoreKept

\* Every step keeps the nodes before one that lacks an input inactive.
LEMMA NextNoMore == Inv /\ Core' /\ NoMoreInv /\ [Next]_vars => NoMoreInv'
<1> SUFFICES ASSUME Inv, Core', NoMoreInv, [Next]_vars PROVE NoMoreInv'
  OBVIOUS
<1>1. ASSUME UNCHANGED dataVars, wf' = wf, phase' = "running" => phase = "running" PROVE NoMoreInv'
  <2>1. UNCHANGED <<stack, waitingNodes, runData, current, targets>>
    BY <1>1 DEF dataVars
  <2>2. \A x : Active(x)' => Active(x)
    BY <1>1, <2>1 DEF Active
  <2>3. \A d \in wf.connections : Lacks(d.to, d.input)' => Lacks(d.to, d.input)
    BY <1>1, <2>1 DEF Lacks
  <2> QED BY <1>1, <2>2, <2>3, NoMoreKept
<1>2. CASE LoopEnds \/ Timeout \/ AllAdded \/ DestinationDone \/ Settle \/ Saved \/ Cancel
  <2>1. UNCHANGED dataVars /\ wf' = wf
    BY <1>2 DEF LoopEnds, Timeout, AllAdded, DestinationDone, Settle, Saved, Cancel
  <2>2. phase' = "running" => phase = "running"
    BY <1>2 DEF LoopEnds, Timeout, AllAdded, DestinationDone, Settle, Saved, Cancel
  <2> QED BY <1>1, <2>1, <2>2
<1>3. CASE SkipNode \/ StartNode
  BY <1>3, StartNoMore
<1>4. ASSUME NEW outs \in SUBSET Nat, NEW s \in Finished, NEW e, Record(outs, s, e) PROVE NoMoreInv'
  <2>1. /\ phase = "running" /\ phase' # "running" /\ wf' = wf /\ current' = current
        /\ waitingNodes' = waitingNodes /\ Range(stack') \subseteq Range(stack) \cup {current}
        /\ AddRun(current, outs, s) /\ s \in Finished \cup {"error", "waiting"}
    BY <1>4 DEF Record
  <2> QED BY <2>1, RunNoMore
<1>5. ASSUME NEW outs \in SUBSET Outputs(current.node), Succeed(outs) PROVE NoMoreInv'
  <2>1. outs \in SUBSET Nat /\ "success" \in Finished /\ Record(outs, "success", "none")
    BY <1>5, OutsFacts DEF Succeed, Finished, Inv
  <2> QED BY <1>4, <2>1
<1>6. CASE ContinueOnFail
  <2>1. PICK outs \in SUBSET Nat : outs = PassThrough(current)
    BY OutsFacts DEF Inv
  <2>2. "continued" \in Finished /\ Record(outs, "continued", "error")
    BY <1>6, <2>1 DEF ContinueOnFail, Finished
  <2> QED BY <1>4, <2>2
<1>7. CASE ReturnNull
  <2>1. UNCHANGED <<wf, stack, waitingNodes, runData, current, targets>> /\ phase' # "running"
    BY <1>7 DEF ReturnNull
  <2>2. \A x : Active(x)' => Active(x)
    BY <2>1 DEF Active
  <2>3. \A d \in wf.connections : Lacks(d.to, d.input)' => Lacks(d.to, d.input)
    BY <2>1 DEF Lacks
  <2> QED BY <2>1, <2>2, <2>3, NoMoreKept
<1>8. ASSUME NEW s \in {"error", "waiting"}, PutBack(s) PROVE NoMoreInv'
  <2>1. /\ phase = "running" /\ phase' # "running" /\ wf' = wf /\ current' = current
        /\ waitingNodes' = waitingNodes /\ stack' = <<current>> \o stack
        /\ AddRun(current, {}, s) /\ s \in Finished \cup {"error", "waiting"}
        /\ stack \in Seq(EntryType(wf)) /\ current \in EntryType(wf)
    BY <1>8 DEF PutBack, Inv, TypeInv
  <2>2. Range(stack') \subseteq Range(stack) \cup {current}
    BY <2>1, RangeFacts
  <2>3. {} \in SUBSET Nat
    OBVIOUS
  <2> QED BY <2>1, <2>2, <2>3, RunNoMore
<1>9. CASE PutToWait \/ \E e \in {"error", "canceled"} : FailNode(e)
  BY <1>8, <1>9 DEF PutToWait, FailNode
<1>10. ASSUME NEW c \in wf.connections, AddNode(c) PROVE NoMoreInv'
  BY <1>10, AddNodeNoMore
<1>11. CASE NodeDone
  BY <1>11, NodeDoneNoMore
<1>12. CASE Resume \/ Retry
  <2>1. /\ Restart /\ wf' = wf /\ phase' = "loop" /\ waitingNodes' = waitingNodes
        /\ targets' = targets /\ current' = current /\ status \in {"waiting", "error"}
    BY <1>12 DEF Resume, Retry, Restart
  <2>2. lastNodeExecuted \in Nodes /\ runData[lastNodeExecuted] # << >>
    BY <2>1, RestartRun DEF Inv
  <2>3. \A n \in Nodes : \A r \in DOMAIN runData'[n] :
           r \in DOMAIN runData[n] /\ runData'[n][r] = runData[n][r]
    BY <2>1, <2>2, RunRemoved DEF Inv
  <2>4. \A n \in Nodes : Range(runData'[n]) \subseteq Range(runData[n])
    BY <2>3 DEF Range
  <2>5. \A e \in Range(stack') : \E f \in Range(stack) : f.node = e.node /\ f.inputs = e.inputs
    <3>1. CASE Resume
      <4>1. PICK s, t : s = stack /\ t = stack'
        OBVIOUS
      <4>2. s \in Seq(EntryType(wf)) /\ t = [s EXCEPT ![1].disabled = TRUE]
        BY <3>1, <4>1 DEF Resume, Inv, TypeInv
      <4>3. \A i \in DOMAIN s : t[i].inputs = s[i].inputs /\ t[i].node = s[i].node
        BY <4>2, MarkFacts
      <4>4. DOMAIN t = DOMAIN s
        BY <4>2
      <4> QED BY <4>1, <4>3, <4>4 DEF Range
    <3>2. CASE Retry
      BY <3>2 DEF Retry
    <3> QED BY <1>12, <3>1, <3>2
  <2>6. \A x : Active(x)' => Active(x)
    BY <2>1, <2>5 DEF Active
  <2>7. \A d \in wf.connections : d.to \in Nodes
    BY WfFacts DEF Connection, Inv
  <2>8. \A d \in wf.connections : Lacks(d.to, d.input)' => Lacks(d.to, d.input)
    BY <2>1, <2>4, <2>5, <2>7 DEF Lacks
  <2> QED BY <2>1, <2>6, <2>8, NoMoreKept
<1>13. CASE UNCHANGED vars
  BY <1>1, <1>13 DEF vars, engineVars
<1> QED
  BY <1>2, <1>3, <1>5, <1>6, <1>7, <1>9, <1>10, <1>11, <1>12, <1>13 DEF Next, EngineStep

\* Of the connections still to be followed, a step takes only the one it adds.
LEMMA OnlyTargetTaken ==
    ASSUME Inv, [Next]_vars, NEW c \in targets, c \notin targets'
    PROVE  c \in wf.connections /\ AddNode(c)
<1>1. phase = "adding" /\ targets # {} /\ c \in wf.connections
  BY DEF Inv, TargetsInv, TypeInv
<1>2. ~(UNCHANGED targets)
  OBVIOUS
<1>3. ~LoopEnds /\ ~Timeout /\ ~SkipNode /\ ~StartNode /\ ~ReturnNull
  BY <1>1 DEF LoopEnds, Timeout, SkipNode, StartNode, TakeEntry, ReturnNull
<1>4. ~ContinueOnFail /\ ~PutToWait /\ \A outs : ~Succeed(outs) /\ \A e : ~FailNode(e)
  BY <1>1 DEF ContinueOnFail, PutToWait, Succeed, FailNode, Record, PutBack
<1>5. ~NodeDone /\ ~DestinationDone /\ ~Settle /\ ~Saved /\ ~Cancel /\ ~Resume /\ ~Retry
  BY <1>1 DEF NodeDone, DestinationDone, Settle, Saved, Cancel, Resume, Retry, Restart
<1>6. ~AllAdded /\ ~(UNCHANGED vars)
  BY <1>1, <1>2 DEF AllAdded, vars, dataVars
<1>7. PICK d \in wf.connections : AddNode(d)
  BY <1>3, <1>4, <1>5, <1>6 DEF Next, EngineStep
<1>8. d = c
  BY <1>7 DEF AddNode
<1> QED BY <1>1, <1>7, <1>8

\* Once a node is executed without data for an input, none is sent there any
\* more, for all workflows without cycles.
THEOREM MissingDataStaysAway == Spec => MissingDataNeverComes
<1>1. ASSUME Inv, Core', NoMoreInv, [Next]_vars
      PROVE  [\A c \in targets \ targets' : ~RunsWithout(c.to, c.input)]_vars
  <2> SUFFICES ASSUME NEW c \in targets, c \notin targets' PROVE ~RunsWithout(c.to, c.input)
    OBVIOUS
  <2>1. c \in wf.connections /\ AddNode(c)
    BY <1>1, OnlyTargetTaken
  <2>2. ~Lacks(c.to, c.input)
    BY <1>1, <2>1, AddNodeNoMore
  <2> QED BY <2>2 DEF Lacks, RunsWithout, Range
<1>2. Inv /\ [Next]_vars => Core'
  BY NextInv DEF Inv, Core
<1> QED
  BY <1>1, <1>2, InitInv, NextInv, InitNoMore, NextNoMore, PTL DEF Spec, MissingDataNeverComes

-----------------------------------------------------------------------------
(* Nodes are executed once, where no input is shared. *)

\* A stack has entries of node n; it has at most one of them.
HasNode(s, n) == \E i \in DOMAIN s : s[i].node = n
OnceNode(s, n) == \A i, j \in DOMAIN s : s[i].node = n /\ s[j].node = n => i = j

\* Some of the runs came to their end; at most one of them.
HasFinished(s) == \E r \in DOMAIN s : s[r].status \in Finished
OnceFinished(s) == \A r, q \in DOMAIN s : s[r].status \in Finished /\ s[q].status \in Finished => r = q

\* Node n is about to be executed; it has been; data has still to reach it.
Running(n) == phase = "running" /\ current.node = n
Busy(n) == HasNode(stack, n) \/ Running(n)
Over(n) == HasFinished(runData[n]) \/ \E p \in Packet : p.connection.from = n /\ Somewhere(p)
Expected(n) == n \in Range(waitingNodes) \/ \E c \in targets : c.to = n
Calm(n) == ~Busy(n) /\ ~Expected(n)

\* A node is taken up once, when nothing is left to do before it, and its data
\* waits in one entry, which lacks what is still to come.
TakenUpOnce(n) ==
    /\ Busy(n) => ~Over(n)
    /\ Busy(n) \/ Over(n) => ~Expected(n) /\ \A x \in AllBefore(wf, n) : Calm(x)
EntryOnce(n) ==
    /\ OnceNode(stack, n)
    /\ Running(n) => ~HasNode(stack, n)
WaitsOnce(n) ==
    /\ DOMAIN waitingExecution[n] \subseteq {0}
    /\ \A c \in targets : c.to = n /\ 0 \in DOMAIN waitingExecution[n] =>
          c.input \notin DOMAIN waitingExecution[n][0]

\* Only nodes that may go on after an error have done so, and only a node with
\* several inputs waits.
OnceInv ==
    /\ \A n \in Unshared : TakenUpOnce(n) /\ EntryOnce(n) /\ WaitsOnce(n) /\ OnceFinished(runData[n])
    /\ \A n \in Nodes : \A r \in DOMAIN runData[n] :
          runData[n][r].status = "continued" => n \in wf.continues
    /\ \A p \in lost : p.connection.to \in Unshared => p.connection.to \in wf.continues
    /\ \A n \in Range(waitingNodes) : NumberOfInputs(n) > 1

\* Unshared nodes: no two connections lead to one input, there or before.
LEMMA UnsharedFacts ==
    ASSUME TypeInv, NEW n \in Unshared
    PROVE  /\ n \in Nodes
           /\ \A c, d \in wf.connections : c.to = n /\ d.to = n /\ c.input = d.input => c = d
           /\ \A m \in AllBefore(wf, n) : m \in Unshared
<1>1. n \in Nodes /\ ~SharedInput(n)
  BY DEF Unshared
<1>2. \A c, d \in wf.connections : c.to = n /\ d.to = n /\ c.input = d.input => c = d
  BY <1>1 DEF SharedInput, ConnectionsTo
<1>3. ASSUME NEW m \in AllBefore(wf, n) PROVE m \in Unshared
  <2>1. wf \in Workflows /\ \A x \in Nodes : x \notin AllBefore(wf, x)
    BY WfFacts
  <2>2. AllBefore(wf, m) \subseteq AllBefore(wf, n) /\ m \in Nodes
    BY <1>3, <2>1, AllBeforeTransitive, AllBeforeFacts
  <2>3. \A x \in getParentNodes(m) \union {m} : x \in getParentNodes(n)
    BY <1>1, <1>3, <2>1, <2>2 DEF getParentNodes
  <2> QED BY <2>2, <2>3 DEF Unshared
<1> QED BY <1>1, <1>2, <1>3

\* The nodes of the entries left when one is taken from the stack.
LEMMA PopNode ==
    ASSUME NEW E, NEW s \in Seq(E), s # << >>, NEW n
    PROVE  /\ HasNode(s, n) <=> Head(s).node = n \/ HasNode(Tail(s), n)
           /\ OnceNode(s, n) => /\ OnceNode(Tail(s), n)
                                /\ ~(Head(s).node = n /\ HasNode(Tail(s), n))
<1> DEFINE t == Tail(s)
           l == Len(s)
<1>1. /\ t \in Seq(E) /\ Len(t) = l - 1
      /\ \A i \in 1..Len(t) : t[i] = s[i + 1]
  BY HeadTailProperties
<1>2. Head(s) = s[1]
  OBVIOUS
<1>3. l \in Nat \ {0} /\ DOMAIN s = 1..l
  BY EmptySeq, LenProperties
<1>4. DOMAIN t = 1..(l - 1)
  BY <1>1, LenProperties
<1> HIDE DEF t, l
<1>5. \A i \in 1..l : i = 1 \/ (i - 1 \in DOMAIN t /\ t[i - 1] = s[i])
  <2> TAKE i \in 1..l
  <2>1. CASE i # 1
    <3>1. i - 1 \in 1..(l - 1) /\ (i - 1) + 1 = i
      BY <1>3, <2>1
    <3> QED BY <3>1, <1>1, <1>4
  <2> QED BY <2>1
<1>6. \A i \in DOMAIN t : i + 1 \in 1..l /\ i + 1 # 1 /\ t[i] = s[i + 1] /\ i \in Nat
  BY <1>1, <1>3, <1>4
<1>7. 1 \in 1..l
  BY <1>3
<1>8. HasNode(s, n) <=> s[1].node = n \/ HasNode(t, n)
  BY <1>3, <1>5, <1>6, <1>7 DEF HasNode
<1>9. OnceNode(s, n) => OnceNode(t, n)
  <2> SUFFICES ASSUME OnceNode(s, n), NEW i \in DOMAIN t, NEW j \in DOMAIN t,
                      t[i].node = n, t[j].node = n
               PROVE  i = j
    BY DEF OnceNode
  <2>1. i + 1 = j + 1
    BY <1>3, <1>6 DEF OnceNode
  <2> QED BY <2>1, <1>6
<1>10. OnceNode(s, n) => ~(s[1].node = n /\ HasNode(t, n))
  BY <1>3, <1>6, <1>7 DEF HasNode, OnceNode
<1> QED BY <1>2, <1>8, <1>9, <1>10 DEF t

\* The nodes of the entries when one is put on the stack.
LEMMA PushNode ==
    ASSUME NEW E, NEW s \in Seq(E), NEW e \in E, NEW n
    PROVE  LET t == <<e>> \o s IN
           /\ HasNode(t, n) <=> e.node = n \/ HasNode(s, n)
           /\ OnceNode(s, n) /\ ~(e.node = n /\ HasNode(s, n)) => OnceNode(t, n)
<1> DEFINE t == <<e>> \o s
           l == Len(s)
<1>1. <<e>> \in Seq(E) /\ Len(<<e>>) = 1 /\ <<e>>[1] = e
  OBVIOUS
<1>2. l \in Nat /\ DOMAIN s = 1..l
  BY LenProperties
<1>3. /\ t \in Seq(E) /\ Len(t) = 1 + l
      /\ \A i \in 1..(1 + l) : t[i] = IF i <= 1 THEN <<e>>[i] ELSE s[i - 1]
  BY <1>1, ConcatProperties
<1>4. DOMAIN t = 1..(1 + l)
  BY <1>3, LenProperties
<1> HIDE DEF t, l
<1>6. t[1] = e /\ 1 \in DOMAIN t
  BY <1>1, <1>2, <1>3, <1>4
<1>7. \A i \in DOMAIN s : i \in Nat /\ i + 1 \in DOMAIN t /\ t[i + 1] = s[i] /\ i + 1 # 1
  <2> TAKE i \in DOMAIN s
  <2>1. i \in 1..l
    BY <1>2
  <2>2. i + 1 \in 1..(1 + l) /\ ~(i + 1 <= 1) /\ (i + 1) - 1 = i
    BY <1>2, <2>1
  <2> QED BY <2>1, <2>2, <1>3, <1>4
<1>8. \A i \in DOMAIN t : i = 1 \/ (i \in Nat /\ i - 1 \in DOMAIN s /\ t[i] = s[i - 1])
  <2> TAKE i \in DOMAIN t
  <2>1. CASE i # 1
    <3>1. i \in Nat /\ i - 1 \in 1..l /\ ~(i <= 1)
      BY <1>2, <1>4, <2>1
    <3> QED BY <3>1, <1>2, <1>3, <1>4
  <2> QED BY <2>1
<1>9. HasNode(t, n) <=> e.node = n \/ HasNode(s, n)
  <2>1. e.node = n => HasNode(t, n)
    BY <1>6 DEF HasNode
  <2>2. HasNode(s, n) => HasNode(t, n)
    BY <1>7 DEF HasNode
  <2>3. HasNode(t, n) => e.node = n \/ HasNode(s, n)
    BY <1>6, <1>8 DEF HasNode
  <2> QED BY <2>1, <2>2, <2>3
<1>10. OnceNode(s, n) /\ ~(e.node = n /\ HasNode(s, n)) => OnceNode(t, n)
  <2> SUFFICES ASSUME OnceNode(s, n), ~(e.node = n /\ HasNode(s, n)),
                      NEW i \in DOMAIN t, NEW j \in DOMAIN t, t[i].node = n, t[j].node = n
               PROVE  i = j
    BY DEF OnceNode
  <2>1. CASE i = 1 \/ j = 1
    <3>1. ASSUME NEW x \in DOMAIN t, x # 1, t[x].node = n
          PROVE  HasNode(s, n)
      BY <3>1, <1>8 DEF HasNode
    <3> QED BY <2>1, <3>1, <1>6
  <2>2. CASE i # 1 /\ j # 1
    <3>1. i - 1 = j - 1
      BY <2>2, <1>8 DEF OnceNode
    <3> QED BY <3>1, <2>2, <1>8
  <2> QED BY <2>1, <2>2
<1> QED BY <1>9, <1>10 DEF t

\* The runs of a node when one is recorded.
LEMMA AppendedRun ==
    ASSUME NEW R, NEW s \in Seq(R), NEW run \in R
    PROVE  LET t == Append(s, run) IN
           \A r \in DOMAIN t : (t[r] = run /\ r \notin DOMAIN s) \/ (r \in DOMAIN s /\ t[r] = s[r])
<1> DEFINE t == Append(s, run)
<1>1. PICK l \in Nat : l = Len(s)
  BY LenProperties
<1>2. DOMAIN s = 1..l
  BY <1>1, LenProperties
<1>3. t \in Seq(R) /\ Len(t) = l + 1 /\ (\A i \in 1..l : t[i] = s[i]) /\ t[l + 1] = run
  BY <1>1, AppendProperties
<1>4. DOMAIN t = 1..(l + 1)
  BY <1>3, LenProperties
<1> HIDE DEF t
<1>5. \A r \in DOMAIN t : (r = l + 1 /\ r \notin 1..l) \/ r \in 1..l
  BY <1>4
<1>6. \A r \in DOMAIN t : (t[r] = run /\ r \notin DOMAIN s) \/ (r \in DOMAIN s /\ t[r] = s[r])
  BY <1>2, <1>3, <1>5
<1> QED BY <1>6 DEF t

\* What is over depends on the packets and on the runs that came to their end.
LEMMA OverKept ==
    ASSUME SamePackets, NEW n, HasFinished(runData[n])' => HasFinished(runData[n])
    PROVE  Over(n)' => Over(n)
  BY DEF Over, SamePackets

\* A step that takes up no node, expects no data and lets no run come to its end.
LEMMA OnceKept ==
    ASSUME TypeInv, OnceInv, wf' = wf, SamePackets,
           \A n : Busy(n)' => Busy(n),
           \A n : EntryOnce(n) => EntryOnce(n)',
           UNCHANGED <<waitingExecution, waitingNodes, targets>>,
           \A n \in Nodes : \A r \in DOMAIN runData'[n] : runData'[n][r].status \in Finished =>
              r \in DOMAIN runData[n] /\ runData'[n][r] = runData[n][r],
           \A p \in lost' : p \in lost \/ p.connection.to \in wf.continues
    PROVE  OnceInv'
<1>1. Unshared' = Unshared /\ \A n : NumberOfInputs(n)' = NumberOfInputs(n)
  BY DEF Unshared, SharedInput, ConnectionsTo, getParentNodes, NumberOfInputs
<1>2. \A n \in Nodes : Over(n)' => Over(n)
  <2> SUFFICES ASSUME NEW n \in Nodes PROVE Over(n)' => Over(n)
    OBVIOUS
  <2>1. HasFinished(runData[n])' => HasFinished(runData[n])
    BY DEF HasFinished
  <2> QED BY <2>1, OverKept
<1>3. \A n : Expected(n)' <=> Expected(n)
  BY DEF Expected
<1>4. ASSUME NEW n \in Unshared
      PROVE  TakenUpOnce(n)' /\ EntryOnce(n)' /\ WaitsOnce(n)' /\ OnceFinished(runData[n])'
  <2>1. TakenUpOnce(n) /\ EntryOnce(n) /\ WaitsOnce(n) /\ OnceFinished(runData[n])
    BY <1>4 DEF OnceInv
  <2>2. n \in Nodes
    BY <1>4 DEF Unshared
  <2>3. TakenUpOnce(n)'
    BY <1>2, <1>3, <2>1, <2>2 DEF TakenUpOnce, Calm
  <2>4. WaitsOnce(n)'
    BY <2>1 DEF WaitsOnce
  <2>5. OnceFinished(runData[n])'
    BY <2>1, <2>2 DEF OnceFinished
  <2> QED BY <2>1, <2>3, <2>4, <2>5
<1>5. (\A n \in Nodes : \A r \in DOMAIN runData[n] :
          runData[n][r].status = "continued" => n \in wf.continues)'
  BY DEF OnceInv, Finished
<1>6. (\A p \in lost : p.connection.to \in Unshared => p.connection.to \in wf.continues)'
  BY <1>1 DEF OnceInv
<1>7. (\A n \in Range(waitingNodes) : NumberOfInputs(n) > 1)'
  BY <1>1 DEF OnceInv
<1> QED BY <1>1, <1>4, <1>5, <1>6, <1>7 DEF OnceInv

\* An entry leaves the stack, and its node may run.
LEMMA TakeOnce ==
    ASSUME Inv, OnceInv, SkipNode \/ StartNode PROVE OnceInv'
<1>1. /\ stack \in Seq(EntryType(wf)) /\ stack # << >> /\ stack' = Tail(stack)
      /\ wf' = wf /\ UNCHANGED <<waitingExecution, waitingNodes, targets, runData, lost>>
      /\ phase = "loop"
      /\ phase' = "running" => current' = Head(stack)
  BY DEF SkipNode, StartNode, TakeEntry, Inv, TypeInv
<1>2. \A n : /\ HasNode(stack, n) <=> Head(stack).node = n \/ HasNode(stack', n)
             /\ OnceNode(stack, n) => /\ OnceNode(stack', n)
                                      /\ ~(Head(stack).node = n /\ HasNode(stack', n))
  BY <1>1, PopNode
<1>3. \A n : Busy(n)' => Busy(n)
  BY <1>1, <1>2 DEF Busy, Running
<1>4. \A n : EntryOnce(n) => EntryOnce(n)'
  BY <1>1, <1>2 DEF EntryOnce, Running
<1>5. SamePackets
  BY SkipPlace, StartPlace DEF Inv
<1> QED BY <1>1, <1>3, <1>4, <1>5, OnceKept DEF Inv

\* The entry goes back to the stack.
LEMMA PutBackOnce ==
    ASSUME Inv, OnceInv, NEW s \in {"error", "waiting"}, PutBack(s) PROVE OnceInv'
<1>1. /\ AddRun(current, {}, s) /\ phase = "running" /\ phase' = "settling"
      /\ wf' = wf /\ stack' = <<current>> \o stack
      /\ stack \in Seq(EntryType(wf)) /\ current \in EntryType(wf)
      /\ UNCHANGED <<waitingExecution, waitingNodes, targets, lost>>
  BY DEF PutBack, Inv, TypeInv
<1>2. \A n : /\ HasNode(stack', n) <=> current.node = n \/ HasNode(stack, n)
             /\ OnceNode(stack, n) /\ ~(current.node = n /\ HasNode(stack, n)) => OnceNode(stack', n)
  BY <1>1, PushNode
<1>3. \A n : Busy(n)' => Busy(n)
  BY <1>1, <1>2 DEF Busy, Running
<1>4. \A n : EntryOnce(n) => EntryOnce(n)'
  BY <1>1, <1>2 DEF EntryOnce, Running
<1>5. SamePackets
  BY PutBackPlace DEF Inv
<1>6. \A n \in Nodes : \A r \in DOMAIN runData'[n] : runData'[n][r].status \in Finished =>
         r \in DOMAIN runData[n] /\ runData'[n][r] = runData[n][r]
  <2> DEFINE m == current.node
             run == Run(current, {}, s)
  <2>1. {} \in SUBSET Nat /\ s \in Finished \cup {"error", "waiting"}
    OBVIOUS
  <2>2. /\ runData'[m] = Append(runData[m], run)
        /\ \A n \in Nodes : n # m => runData'[n] = runData[n]
        /\ run \in RunType(wf, m) /\ run.status = s /\ runData[m] \in Seq(RunType(wf, m))
    BY <1>1, <2>1, RunAdded, TypeFacts DEF Inv
  <2> HIDE DEF m, run
  <2>3. \A r \in DOMAIN runData'[m] : runData'[m][r] = run \/ (r \in DOMAIN runData[m] /\ runData'[m][r] = runData[m][r])
    BY <2>2, AppendedRun
  <2>4. run.status \notin Finished
    BY <2>2 DEF Finished
  <2> QED BY <2>2, <2>3, <2>4
<1> QED BY <1>1, <1>3, <1>4, <1>5, <1>6, OnceKept DEF Inv

\* A restart takes up no node: the one that ended the execution is on the stack.
LEMMA RestartOnce ==
    ASSUME Inv, OnceInv, Resume \/ Retry PROVE OnceInv'
<1>1. /\ Restart /\ wf' = wf /\ phase' = "loop" /\ status \in {"waiting", "error"}
      /\ UNCHANGED <<waitingExecution, waitingNodes, targets>>
  BY DEF Resume, Retry, Restart
<1>2. lastNodeExecuted \in Nodes /\ runData[lastNodeExecuted] # << >>
  BY <1>1, RestartRun DEF Inv
<1>3. \A n \in Nodes : \A r \in DOMAIN runData'[n] :
         r \in DOMAIN runData[n] /\ runData'[n][r] = runData[n][r]
  BY <1>1, <1>2, RunRemoved DEF Inv
<1>4. DOMAIN stack' = DOMAIN stack /\ \A i \in DOMAIN stack : stack'[i].node = stack[i].node
  <2>1. CASE Resume
    <3>1. PICK s, t : s = stack /\ t = stack'
      OBVIOUS
    <3>2. s \in Seq(EntryType(wf)) /\ t = [s EXCEPT ![1].disabled = TRUE]
      BY <2>1, <3>1 DEF Resume, Inv, TypeInv
    <3>3. \A i \in DOMAIN s : t[i].node = s[i].node
      BY <3>2, MarkFacts
    <3>4. DOMAIN t = DOMAIN s
      BY <3>2
    <3> QED BY <3>1, <3>3, <3>4
  <2>2. CASE Retry
    BY <2>2 DEF Retry
  <2> QED BY <2>1, <2>2
<1>5. \A n : (HasNode(stack, n)' <=> HasNode(stack, n)) /\ (OnceNode(stack, n)' <=> OnceNode(stack, n))
  BY <1>4 DEF HasNode, OnceNode
<1>6. (\A n : Busy(n)' => Busy(n)) /\ (\A n : EntryOnce(n) => EntryOnce(n)')
  BY <1>1, <1>5 DEF Busy, EntryOnce, Running
<1>7. SamePackets
  BY ResumePlace, RetryPlace DEF Inv
<1>8. ASSUME NEW p \in lost', p \notin lost PROVE p.connection.to \in wf.continues
  <2> DEFINE l == lastNodeExecuted
  <2>1. LastRun.status = "continued" /\ p \in PacketsOf(LastRun.inputs)
    BY <1>8 DEF Resume, Retry, LastRun
  <2>2. LastRun \in RunType(wf, l)
    BY <1>1, <1>2, RunRemoved DEF Inv
  <2>3. p.connection.to = l
    BY <2>1, <2>2, InputsFacts DEF RunType
  <2>4. l \in wf.continues
    <3>1. runData[l] \in Seq(RunType(wf, l)) /\ runData[l] # << >>
      BY <1>2, TypeFacts DEF Inv
    <3>2. \E r \in DOMAIN runData[l] : runData[l][r] = LastRun
      BY <3>1, EmptySeq, LenProperties DEF LastRun, Last
    <3> QED BY <1>2, <2>1, <3>2 DEF OnceInv
  <2> QED BY <2>3, <2>4
<1>9. \A p \in lost' : p \in lost \/ p.connection.to \in wf.continues
  BY <1>8
<1>10. \A n \in Nodes : \A r \in DOMAIN runData'[n] : runData'[n][r].status \in Finished =>
          r \in DOMAIN runData[n] /\ runData'[n][r] = runData[n][r]
  BY <1>3
<1> QED BY <1>1, <1>6, <1>7, <1>9, <1>10, OnceKept DEF Inv

\* A packet that waits at a node, over the connection to its input.
LEMMA WaitingPacket ==
    ASSUME TypeInv, NEW n \in Unshared, NEW c \in wf.connections, c.to = n,
           NEW k \in DOMAIN waitingExecution[n], c.input \in DOMAIN waitingExecution[n][k]
    PROVE  Over(c.from)
<1>1. n \in Nodes
  BY UnsharedFacts
<1>2. waitingExecution[n] \in Partial(InputsOf(wf, n))
  BY <1>1, TypeFacts
<1>3. PICK f : f = waitingExecution[n][k]
  OBVIOUS
<1>4. f \in InputsOf(wf, n) /\ c.input \in DOMAIN f
  BY <1>2, <1>3, PartialFacts
<1>5. PICK p : p = f[c.input]
  OBVIOUS
<1>6. p \in PacketsOf(f) /\ p.connection \in wf.connections /\ p.connection.to = n /\ p.connection.input = c.input
  BY <1>4, <1>5 DEF InputsOf, PacketsOf
<1>7. p \in Packet
  BY <1>4, <1>6, InputsFacts
<1>8. p.connection = c
  BY <1>6, UnsharedFacts
<1>9. Waits(p)
  BY <1>3, <1>6 DEF Waits, InWaiting
<1> QED BY <1>7, <1>8, <1>9 DEF Over, Somewhere

\* A run is recorded: its node was busy, so that nothing after it had been taken up.
LEMMA RecordOnce ==
    ASSUME Inv, OnceInv, NEW outs \in SUBSET Nat, NEW s \in Finished, NEW e, Record(outs, s, e),
           s = "continued" => current.node \in wf.continues
    PROVE  OnceInv'
<1> DEFINE m == current.node
           run == Run(current, outs, s)
<1>0. TypeInv /\ PlaceInv /\ TargetsInv /\ NumberInv
  BY DEF Inv
<1>1. /\ AddRun(current, outs, s) /\ phase = "running" /\ phase' # "running"
      /\ \A c \in targets' : c \in wf.connections /\ c.from = m
      /\ wf' = wf /\ UNCHANGED <<stack, waitingExecution, waitingNodes, current, lost>>
  BY DEF Record, ConnectionsFrom
<1>2. /\ runData'[m] = Append(runData[m], run)
      /\ \A n \in Nodes : n # m => runData'[n] = runData[n]
      /\ run \in RunType(wf, m) /\ run.status = s /\ runData[m] \in Seq(RunType(wf, m))
      /\ m \in Nodes
  BY <1>0, <1>1, RunAdded, TypeFacts
<1>3. Busy(m) /\ Running(m)
  BY <1>1 DEF Busy, Running
<1> HIDE DEF run, m
<1>4. \A r \in DOMAIN runData'[m] : \/ runData'[m][r] = run
                                    \/ r \in DOMAIN runData[m] /\ runData'[m][r] = runData[m][r]
  BY <1>2, AppendedRun
<1>5. Unshared' = Unshared /\ \A n : NumberOfInputs(n)' = NumberOfInputs(n)
  BY <1>1 DEF Unshared, SharedInput, ConnectionsTo, getParentNodes, NumberOfInputs
<1>6. \A n : Busy(n)' => HasNode(stack, n) /\ Busy(n)
  BY <1>1 DEF Busy, Running
<1>7. \A n \in Nodes : Over(n)' => Over(n) \/ n = m
  <2> SUFFICES ASSUME NEW n \in Nodes, Over(n)', n # m PROVE Over(n)
    OBVIOUS
  <2>1. HasFinished(runData[n])' => HasFinished(runData[n])
    BY <1>2
  <2>2. ASSUME NEW p \in Packet, p.connection.from = n, Somewhere(p)' PROVE Somewhere(p)
    <3>1. Somewhere(p) \/ Due(p)'
      BY <1>0, <2>2, RecordPlace
    <3>2. Due(p)' => p.connection.from = m
      BY <1>1 DEF Due
    <3> QED BY <2>2, <3>1, <3>2
  <2> QED BY <2>1, <2>2 DEF Over
<1>8. \A n : Expected(n)' => Expected(n) \/ m \in Before(wf, n)
  BY <1>1 DEF Expected, Before
<1>9. wf \in Workflows
  BY <1>0 DEF TypeInv
<1>10. ASSUME NEW n \in Unshared
       PROVE  TakenUpOnce(n)' /\ EntryOnce(n)' /\ WaitsOnce(n)' /\ OnceFinished(runData[n])'
  <2>1. TakenUpOnce(n) /\ EntryOnce(n) /\ WaitsOnce(n) /\ OnceFinished(runData[n])
    BY <1>10 DEF OnceInv
  <2>2. n \in Nodes /\ \A x \in AllBefore(wf, n) : x \in Unshared
    BY <1>0, <1>10, UnsharedFacts
  <2>3. Before(wf, n) \subseteq AllBefore(wf, n) /\ ClosedBefore(wf, AllBefore(wf, n))
    BY <1>9, AllBeforeFacts
  <2>4. Busy(n)' => ~Over(n)'
    BY <1>6, <1>7, <1>3, <2>1, <2>2 DEF TakenUpOnce, EntryOnce
  <2>5. ASSUME Busy(n)' \/ Over(n)'
        PROVE  ~Expected(n)' /\ \A x \in AllBefore(wf, n) : Calm(x)'
    <3>1. Busy(n) \/ Over(n)
      BY <1>3, <1>6, <1>7, <2>2, <2>5
    <3>2. ~Expected(n) /\ \A x \in AllBefore(wf, n) : ~Busy(x) /\ ~Expected(x)
      BY <2>1, <3>1 DEF TakenUpOnce, Calm
    <3>3. m \notin AllBefore(wf, n)
      BY <1>3, <3>2
    <3>4. \A x \in AllBefore(wf, n) : m \notin Before(wf, x)
      BY <2>3, <3>3 DEF ClosedBefore
    <3> QED BY <1>6, <1>8, <2>3, <3>2, <3>3, <3>4 DEF Calm
  <2>6. TakenUpOnce(n)'
    BY <1>1, <2>4, <2>5 DEF TakenUpOnce
  <2>7. EntryOnce(n)'
    BY <1>1, <2>1 DEF EntryOnce, Running
  <2>8. WaitsOnce(n)'
    <3> SUFFICES ASSUME NEW c \in targets', c.to = n, 0 \in DOMAIN waitingExecution[n],
                        c.input \in DOMAIN waitingExecution[n][0]
                 PROVE  FALSE
      BY <1>1, <2>1 DEF WaitsOnce
    <3>1. Over(m)
      BY <1>0, <1>1, <1>10, WaitingPacket
    <3>2. m \in AllBefore(wf, n)
      BY <1>1, <2>3 DEF Before
    <3> QED BY <1>3, <2>2, <3>1, <3>2 DEF OnceInv, TakenUpOnce
  <2>9. OnceFinished(runData[n])'
    <3>1. CASE n = m
      <4>1. ~HasFinished(runData[m])
        BY <1>3, <2>1, <3>1 DEF TakenUpOnce, Over
      <4>2. \A r, q \in DOMAIN runData'[m] :
                runData'[m][r].status \in Finished /\ runData'[m][q].status \in Finished => r = q
        <5>1. \A r \in DOMAIN runData'[m] : runData'[m][r].status \in Finished => r \notin DOMAIN runData[m]
          BY <1>2, <4>1, AppendRunFacts DEF HasFinished
        <5>2. PICK l \in Nat : l = Len(runData[m])
          BY <1>2, LenProperties
        <5>3. DOMAIN runData[m] = 1..l /\ DOMAIN runData'[m] = 1..(l + 1)
          BY <1>2, <5>2, LenProperties, AppendRunFacts
        <5> QED BY <5>1, <5>3
      <4> QED BY <3>1, <4>2 DEF OnceFinished
    <3>2. CASE n # m
      BY <1>2, <2>1, <2>2, <3>2
    <3> QED BY <3>1, <3>2
  <2> QED BY <2>6, <2>7, <2>8, <2>9
<1>11. (\A n \in Nodes : \A r \in DOMAIN runData[n] :
          runData[n][r].status = "continued" => n \in wf.continues)'
  <2> SUFFICES ASSUME NEW n \in Nodes, NEW r \in DOMAIN runData'[n], runData'[n][r].status = "continued"
               PROVE  n \in wf.continues
    BY <1>1
  <2>1. CASE n = m
    BY <1>2, <1>4, <2>1 DEF OnceInv, m
  <2>2. CASE n # m
    BY <1>2, <2>2 DEF OnceInv
  <2> QED BY <2>1, <2>2
<1>12. (\A p \in lost : p.connection.to \in Unshared => p.connection.to \in wf.continues)'
  BY <1>1, <1>5 DEF OnceInv
<1>13. (\A n \in Range(waitingNodes) : NumberOfInputs(n) > 1)'
  BY <1>1, <1>5 DEF OnceInv
<1> QED BY <1>5, <1>10, <1>11, <1>12, <1>13 DEF OnceInv

\* The search takes up a node that waits, when no node before it is busy or waits.
LEMMA NodeDoneOnce ==
    ASSUME Inv, Core', OnceInv, NodeDone PROVE OnceInv'
<1>0. TypeInv /\ WaitingInv /\ PlaceInv /\ TargetsInv /\ TypeInv' /\ WaitingInv' /\ SamePackets
  BY NodeDonePlace DEF Inv, Core
<1>1. /\ phase = "after" /\ phase' = "loop" /\ wf' = wf /\ UNCHANGED <<runData, targets, lost>>
  BY DEF NodeDone
<1>2. targets = {} /\ wf \in Workflows /\ stack \in Seq(EntryType(wf))
  BY <1>0, <1>1 DEF TargetsInv, TypeInv
<1>3. CASE FindsNone
  <2>1. UNCHANGED <<stack, waitingExecution, waitingNodes>>
    BY <1>3 DEF FindsNone
  <2>2. (\A n : Busy(n)' => Busy(n)) /\ (\A n : EntryOnce(n) => EntryOnce(n)')
    BY <1>1, <2>1 DEF Busy, EntryOnce, Running
  <2> QED BY <1>0, <1>1, <2>1, <2>2, OnceKept
<1>4. ASSUME NEW n, NEW k, TakesWaiting(n, k) PROVE OnceInv'
  <2>1. PICK e : e = Entry(n, waitingExecution[n][k])
    OBVIOUS
  <2>2. e \in EntryType(wf) /\ e.node = n /\ Without(waitingExecution[n], k) \in Partial(InputsOf(wf, n))
    BY <1>0, <1>4, <2>1, TakesWaitingFacts
  <2>3. /\ n \in Nodes /\ n \in Range(waitingNodes) /\ stack = << >> /\ stack' = <<e>> \o stack
        /\ k \in DOMAIN waitingExecution[n]
        /\ SetWaiting(n, Without(waitingExecution[n], k))
        /\ getParentNodes(n) \cap Range(waitingNodes) = {}
    BY <1>4, <2>1 DEF TakesWaiting, MayRunIncomplete
  <2>4. \A x : ~HasNode(stack, x) /\ OnceNode(stack, x)
    BY <2>3 DEF HasNode, OnceNode
  <2>5. \A x : (HasNode(stack, x)' <=> x = n) /\ OnceNode(stack, x)'
    <3>1. stack' = <<e>> \o stack
      BY <2>3
    <3>2. \A x : /\ HasNode(stack', x) <=> e.node = x \/ HasNode(stack, x)
                 /\ OnceNode(stack, x) /\ ~(e.node = x /\ HasNode(stack, x)) => OnceNode(stack', x)
      BY <1>2, <2>2, <3>1, PushNode
    <3> QED BY <2>2, <2>4, <3>2
  <2>6. \A x : Busy(x)' <=> x = n
    BY <1>1, <2>5 DEF Busy, Running
  <2>7. \A x : Over(x)' => Over(x)
    BY <1>0, <1>1, OverKept
  <2>8. /\ waitingExecution'[n] = Without(waitingExecution[n], k)
        /\ \A x \in Nodes : x # n => waitingExecution'[x] = waitingExecution[x]
    BY <1>0, <2>2, <2>3, SetWaitingFacts
  <2>9. DOMAIN waitingExecution'[n] = DOMAIN waitingExecution[n] \ {k}
    BY <2>8 DEF Without
  <2>10. Range(waitingNodes') \subseteq Range(waitingNodes)
    <3>1. Range(waitingNodes') \subseteq Range(waitingNodes) \cup {n}
      BY <1>0, <2>8, ListFollows
    <3> QED BY <2>3, <3>1
  <2>11. \A x : Expected(x) <=> x \in Range(waitingNodes)
    BY <1>2 DEF Expected
  <2>12. \A x : Expected(x)' <=> x \in Range(waitingNodes')
    BY <1>1, <1>2 DEF Expected
  <2>13. Unshared' = Unshared /\ \A x : NumberOfInputs(x)' = NumberOfInputs(x)
    BY <1>1 DEF Unshared, SharedInput, ConnectionsTo, getParentNodes, NumberOfInputs
  <2>14. ASSUME NEW y \in Unshared
         PROVE  TakenUpOnce(y)' /\ EntryOnce(y)' /\ WaitsOnce(y)' /\ OnceFinished(runData[y])'
    <3>1. TakenUpOnce(y) /\ WaitsOnce(y) /\ OnceFinished(runData[y]) /\ y \in Nodes
      BY <2>14 DEF OnceInv, Unshared
    <3>2. CASE y = n
      <4>1. ~Over(n)'
        BY <2>3, <2>7, <2>11, <3>1, <3>2 DEF TakenUpOnce
      <4>2. DOMAIN waitingExecution'[n] = {}
        BY <2>3, <2>9, <3>1, <3>2 DEF WaitsOnce
      <4>3. ~Expected(n)'
        BY <1>0, <2>3, <2>12, <4>2 DEF WaitingInv
      <4>4. n \notin AllBefore(wf, n)
        BY <1>0, <2>3, WfFacts
      <4>5. \A x \in AllBefore(wf, n) : ~Busy(x)' /\ ~Expected(x)'
        BY <2>3, <2>6, <2>10, <2>12, <4>4 DEF getParentNodes
      <4>6. TakenUpOnce(n)'
        BY <1>1, <4>1, <4>3, <4>5 DEF TakenUpOnce, Calm
      <4>7. WaitsOnce(n)'
        BY <1>1, <1>2, <4>2 DEF WaitsOnce
      <4> QED BY <1>1, <2>5, <3>1, <3>2, <4>6, <4>7 DEF EntryOnce, Running
    <3>3. CASE y # n
      <4>1. Over(y)' => ~Expected(y) /\ \A x \in AllBefore(wf, y) : ~Expected(x)
        BY <2>7, <3>1 DEF TakenUpOnce, Calm
      <4>2. TakenUpOnce(y)'
        BY <1>1, <2>3, <2>6, <2>10, <2>11, <2>12, <3>3, <4>1 DEF TakenUpOnce, Calm
      <4>3. WaitsOnce(y)'
        BY <1>1, <1>2, <2>8, <3>1, <3>3 DEF WaitsOnce
      <4> QED BY <1>1, <2>5, <3>1, <4>2, <4>3 DEF EntryOnce, Running
    <3> QED BY <3>2, <3>3
  <2>15. (\A x \in Nodes : \A r \in DOMAIN runData[x] :
            runData[x][r].status = "continued" => x \in wf.continues)'
    BY <1>1 DEF OnceInv
  <2>16. (\A p \in lost : p.connection.to \in Unshared => p.connection.to \in wf.continues)'
    BY <1>1, <2>13 DEF OnceInv
  <2>17. (\A x \in Range(waitingNodes) : NumberOfInputs(x) > 1)'
    BY <2>10, <2>13 DEF OnceInv
  <2> QED BY <2>13, <2>14, <2>15, <2>16, <2>17 DEF OnceInv
<1> QED BY <1>0, <1>3, <1>4, NodeDoneFacts

\* All data has been sent to a node: nothing before it is left to be done.
LEMMA BeforeOver ==
    ASSUME TypeInv, OnceInv, NEW n \in Unshared,
           \A d \in wf.connections : d.to = n => Over(d.from)
    PROVE  \A x \in AllBefore(wf, n) : Calm(x)
<1> DEFINE T == {x \in Nodes : \E m \in Before(wf, n) : x = m \/ x \in AllBefore(wf, m)}
<1>1. wf \in Workflows /\ \A m \in AllBefore(wf, n) : m \in Unshared
  BY UnsharedFacts DEF TypeInv
<1>2. ASSUME NEW m
      PROVE  /\ AllBefore(wf, m) \subseteq Nodes /\ Before(wf, m) \subseteq AllBefore(wf, m)
             /\ ClosedBefore(wf, AllBefore(wf, m))
  BY <1>1, AllBeforeFacts
<1>3. \A m \in Before(wf, n) : m \in Unshared /\ Over(m)
  BY <1>1, <1>2 DEF Before
<1>4. ClosedBefore(wf, T) /\ Before(wf, n) \subseteq T
  <2>1. ASSUME NEW x \in T, NEW y \in Before(wf, x) PROVE y \in T
    <3>1. PICK m \in Before(wf, n) : x = m \/ x \in AllBefore(wf, m)
      BY <2>1
    <3>2. y \in AllBefore(wf, m)
      BY <1>2, <2>1, <3>1 DEF ClosedBefore
    <3>3. y \in Nodes
      BY <1>2, <3>2
    <3> QED BY <3>1, <3>2, <3>3
  <2>2. Before(wf, n) \subseteq T
    BY <1>2
  <2> HIDE DEF T
  <2> QED BY <2>1, <2>2 DEF ClosedBefore
<1>5. AllBefore(wf, n) \subseteq T
  <2>1. T \in SUBSET Nodes
    OBVIOUS
  <2> HIDE DEF T
  <2> QED BY <1>1, <1>4, <2>1, AllBeforeFacts
<1>6. \A m \in Before(wf, n) : Calm(m) /\ \A x \in AllBefore(wf, m) : Calm(x)
  BY <1>3 DEF OnceInv, TakenUpOnce, Calm
<1> QED BY <1>5, <1>6

\* Where data waits in one entry, addNodeToBeExecuted adds to this one.
LEMMA AddedFirst ==
    ASSUME TypeInv, NEW c \in wf.connections, c \in targets, WaitsOnce(c.to),
           NEW packet \in Packet, packet.connection = c, AddToWaiting(c, packet),
           NEW old, old = waitingExecution[c.to]
    PROVE  \E inputs :
              /\ inputs \in InputsOf(wf, c.to)
              /\ DOMAIN inputs = {c.input} \cup (IF 0 \in DOMAIN old THEN DOMAIN old[0] ELSE {})
              /\ lost' = lost
              /\ \/ /\ Cardinality(DOMAIN inputs) = NumberOfInputs(c.to)
                    /\ stack' = <<Entry(c.to, inputs)>> \o stack
                    /\ SetWaiting(c.to, Without(old, 0))
                 \/ /\ SetWaiting(c.to, With(old, 0, inputs))
                    /\ stack' = stack
<1> DEFINE index == waitingNodeIndex(c.to, c.input)
           missing == MissingInput(c.to, c.input)
           before == IF missing = {} THEN NoInputs ELSE old[index]
           inputs == With(before, c.input, packet)
<1>1. wf.connections \subseteq Connection /\ c.to \in Nodes
  BY WfFacts DEF Connection
<1>2. old \in Partial(InputsOf(wf, c.to))
  BY <1>1, TypeFacts
<1>3. old \in [DOMAIN old -> InputsOf(wf, c.to)]
  BY <1>2, PartialFacts
<1>4. DOMAIN old \subseteq {0} /\ (0 \in DOMAIN old => c.input \notin DOMAIN old[0])
  BY DEF WaitsOnce
<1>5. missing = DOMAIN old
  BY <1>4 DEF MissingInput
<1>6. index = 0
  <2>1. CASE missing = {}
    <3>1. index = Cardinality({})
      BY <1>5, <2>1 DEF waitingNodeIndex
    <3> QED BY <3>1, FS_EmptySet
  <2>2. CASE missing # {}
    <3>1. missing = {0} /\ index = Min(missing)
      BY <1>4, <1>5, <2>2 DEF waitingNodeIndex
    <3>2. missing \in SUBSET Nat
      BY <3>1
    <3> HIDE DEF missing
    <3>3. Min(missing) \in missing
      BY <2>2, <3>2, MinOfNat
    <3> QED BY <3>1, <3>3
  <2> QED BY <2>1, <2>2
<1>7. /\ before \in InputsOf(wf, c.to) /\ c.input \notin DOMAIN before
      /\ DOMAIN before = IF 0 \in DOMAIN old THEN DOMAIN old[0] ELSE {}
  <2>1. CASE missing = {}
    <3>1. NoInputs \in InputsOf(wf, c.to) /\ DOMAIN NoInputs = {}
      BY NoInputsType, PartialEmpty DEF NoInputs
    <3>2. before = NoInputs /\ 0 \notin DOMAIN old
      BY <1>5, <2>1
    <3> HIDE DEF before, NoInputs
    <3> QED BY <3>1, <3>2
  <2>2. CASE missing # {}
    <3>1. before = old[0] /\ 0 \in DOMAIN old
      BY <1>4, <1>5, <1>6, <2>2
    <3> HIDE DEF before
    <3> QED BY <1>3, <1>4, <3>1
  <2> QED BY <2>1, <2>2
<1>8. /\ IF Cardinality(DOMAIN inputs) = NumberOfInputs(c.to)
         THEN /\ stack' = <<Entry(c.to, inputs)>> \o stack
              /\ SetWaiting(c.to, Without(old, index))
         ELSE /\ SetWaiting(c.to, With(old, index, inputs))
              /\ stack' = stack
      /\ lost' = IF missing = {} /\ index \in DOMAIN old
                 THEN lost \cup PacketsOf(old[index])
                 ELSE lost
  BY DEF AddToWaiting, Push
<1>9. lost' = lost
  BY <1>5, <1>8
<1> HIDE DEF index, missing, before
<1>10. inputs \in InputsOf(wf, c.to) /\ DOMAIN inputs = DOMAIN before \cup {c.input}
  <2>1. PICK f : f = before
    OBVIOUS
  <2>2. f \in InputsOf(wf, c.to) /\ c.input \notin DOMAIN f
    BY <1>7, <2>1
  <2>3. With(f, c.input, packet) \in InputsOf(wf, c.to) /\ DOMAIN With(f, c.input, packet) = DOMAIN f \cup {c.input}
    BY <1>1, <2>2, InputsWith
  <2> QED BY <2>1, <2>3
<1> HIDE DEF inputs
<1>11. DOMAIN inputs = {c.input} \cup (IF 0 \in DOMAIN old THEN DOMAIN old[0] ELSE {})
  BY <1>7, <1>10
<1>12. \/ /\ Cardinality(DOMAIN inputs) = NumberOfInputs(c.to)
          /\ stack' = <<Entry(c.to, inputs)>> \o stack
          /\ SetWaiting(c.to, Without(old, 0))
       \/ /\ SetWaiting(c.to, With(old, 0, inputs))
          /\ stack' = stack
  BY <1>6, <1>8
<1> QED BY <1>9, <1>10, <1>11, <1>12

\* What a node added changes: an entry of it may be on the stack, or data waits there.
LEMMA AddNodeChanges ==
    ASSUME Inv, Core', NEW c \in wf.connections, AddNode(c)
    PROVE  /\ \/ stack' = stack
              \/ \E e \in EntryType(wf) : e.node = c.to /\ stack' = <<e>> \o stack
           /\ \A n \in Nodes : n # c.to => waitingExecution'[n] = waitingExecution[n]
           /\ Range(waitingNodes') \subseteq Range(waitingNodes) \cup {c.to}
           /\ \A p \in lost' : p \in lost \/ p.connection.to = c.to
           /\ ~(NumberOfInputs(c.to) > 1) => waitingNodes' = waitingNodes /\ waitingExecution' = waitingExecution
<1>0. TypeInv /\ TypeInv' /\ WaitingInv /\ WaitingInv'
  BY DEF Inv, Core
<1>1. PICK packet : packet = [connection |-> c, run |-> runs]
  OBVIOUS
<1>2. /\ packet \in Packet /\ packet.connection = c /\ c.to \in Nodes
      /\ wf.connections \subseteq Connection
  BY <1>0, <1>1, WfFacts DEF Packet, Connection, TypeInv
<1>3. Range(waitingNodes') \subseteq Range(waitingNodes) \cup {c.to}
  BY AddNodeEffect
<1>4. CASE NumberOfInputs(c.to) > 1
  <2>1. AddToWaiting(c, packet)
    BY <1>1, <1>4 DEF AddNode
  <2>2. PICK inputs, index, old, moved, created :
            AddedTo(c, packet, inputs, index, old, moved, created)
    BY <1>0, <1>2, <2>1, AddToWaitingFacts
  <2> DEFINE entry == Entry(c.to, inputs)
  <2>3. /\ old \in Partial(InputsOf(wf, c.to)) /\ inputs \in InputsOf(wf, c.to)
        /\ moved = IF index \in DOMAIN old THEN PacketsOf(old[index]) ELSE {}
        /\ lost' = lost \cup (IF created THEN moved ELSE {})
    BY <2>2 DEF AddedTo
  <2>4. entry \in EntryType(wf) /\ entry.node = c.to
    BY <1>0, <1>2, <2>3, EntryIsTyped
  <2> HIDE DEF entry
  <2>5. stack' = stack \/ stack' = <<entry>> \o stack
    BY <2>2 DEF AddedTo, entry
  <2>6. \A n \in Nodes : n # c.to => waitingExecution'[n] = waitingExecution[n]
    <3>1. PICK f : SetWaiting(c.to, f)
      BY <2>2 DEF AddedTo
    <3>2. DOMAIN waitingExecution = Nodes
      BY <1>0, TypeFacts
    <3> QED BY <3>1, <3>2 DEF SetWaiting
  <2>7. \A p \in moved : p.connection.to = c.to
    <3>1. old \in [DOMAIN old -> InputsOf(wf, c.to)]
      BY <2>3, PartialFacts
    <3> QED BY <2>3, <3>1, InputsFacts
  <2> QED BY <1>3, <1>4, <2>3, <2>4, <2>5, <2>6, <2>7
<1>5. CASE ~(NumberOfInputs(c.to) > 1)
  <2> DEFINE inputs == With(NoInputs, c.input, packet)
             entry == Entry(c.to, inputs)
  <2>1. stack' = <<entry>> \o stack /\ UNCHANGED <<waitingExecution, waitingNodes, lost>>
    BY <1>1, <1>5 DEF AddNode, Push
  <2>2. inputs \in InputsOf(wf, c.to)
    <3>1. NoInputs \in InputsOf(wf, c.to) /\ c.input \notin DOMAIN NoInputs
      BY NoInputsType, PartialEmpty DEF NoInputs
    <3>2. PICK f : f = NoInputs
      OBVIOUS
    <3>3. f \in InputsOf(wf, c.to) /\ c.input \notin DOMAIN f
      BY <3>1, <3>2
    <3>4. With(f, c.input, packet) \in InputsOf(wf, c.to)
      BY <1>2, <3>3, InputsWith
    <3> QED BY <3>2, <3>4
  <2> HIDE DEF inputs
  <2>3. entry \in EntryType(wf) /\ entry.node = c.to
    BY <1>0, <1>2, <2>2, EntryIsTyped
  <2> HIDE DEF entry
  <2> QED BY <1>3, <2>1, <2>3
<1> QED BY <1>4, <1>5

\* A node that is added and shares no input, if its data is complete, is taken up
\* for the first time: all data before it has been sent.
LEMMA AddedOnce ==
    ASSUME Inv, Core', OnceInv, NEW c \in wf.connections, AddNode(c), c.to \in Unshared
    PROVE  /\ WaitsOnce(c.to)'
           /\ \/ stack' = stack
              \/ ~Expected(c.to)' /\ \A x \in AllBefore(wf, c.to) : Calm(x)
           /\ lost' = lost
<1> DEFINE n == c.to
           old == waitingExecution[n]
<1>0. TypeInv /\ TypeInv' /\ WaitingInv /\ WaitingInv' /\ WaitsOnce(n)
  BY DEF Inv, Core, OnceInv
<1>1. PICK packet : packet = [connection |-> c, run |-> runs]
  OBVIOUS
<1>2. /\ packet \in Packet /\ packet.connection = c /\ n \in Nodes
      /\ c \in targets /\ targets' = targets \ {c} /\ targets \subseteq wf.connections
  BY <1>0, <1>1, WfFacts DEF Packet, Connection, TypeInv, AddNode, IsNextTarget
<1>3. Over(c.from)
  <2>1. Due(packet)
    BY <1>1, <1>2 DEF Due
  <2> QED BY <1>2, <2>1 DEF Over, Somewhere
<1>4. \A d \in wf.connections : d.to = n /\ d.input = c.input => d = c
  BY <1>0, UnsharedFacts
<1>5. CASE NumberOfInputs(n) > 1
  <2>1. AddToWaiting(c, packet)
    BY <1>1, <1>5 DEF AddNode
  <2> HIDE DEF old
  <2>2. PICK inputs :
              /\ inputs \in InputsOf(wf, n)
              /\ DOMAIN inputs = {c.input} \cup (IF 0 \in DOMAIN old THEN DOMAIN old[0] ELSE {})
              /\ lost' = lost
              /\ \/ /\ Cardinality(DOMAIN inputs) = NumberOfInputs(n)
                    /\ stack' = <<Entry(n, inputs)>> \o stack
                    /\ SetWaiting(n, Without(old, 0))
                 \/ /\ SetWaiting(n, With(old, 0, inputs))
                    /\ stack' = stack
    <3>1. old = waitingExecution[c.to]
      BY DEF old
    <3> QED BY <1>0, <1>2, <2>1, <3>1, AddedFirst
  <2>3. \A d \in wf.connections : d.to = n /\ d.input \in DOMAIN inputs /\ d # c =>
              0 \in DOMAIN old /\ d.input \in DOMAIN old[0]
    BY <1>4, <2>2
  <2>4. \A d \in targets' : d.to = n => d.input \notin DOMAIN inputs
    BY <1>0, <1>2, <2>3 DEF WaitsOnce, old
  <2>5. DOMAIN old \subseteq {0} /\ old \in Partial(InputsOf(wf, n))
    BY <1>0, <1>2, TypeFacts DEF WaitsOnce, old
  <2>6. CASE Cardinality(DOMAIN inputs) = NumberOfInputs(n) /\ SetWaiting(n, Without(old, 0))
    <3>1. Without(old, 0) \in Partial(InputsOf(wf, n)) /\ DOMAIN Without(old, 0) = {}
      <4>1. PICK V : V = InputsOf(wf, n)
        OBVIOUS
      <4>2. old \in Partial(V)
        BY <2>5, <4>1
      <4>3. Without(old, 0) \in Partial(V) /\ DOMAIN Without(old, 0) = DOMAIN old \ {0}
        BY <4>2, PartialWithout
      <4> QED BY <2>5, <4>1, <4>3
    <3>2. waitingExecution'[n] = Without(old, 0)
      BY <1>0, <1>2, <2>6, <3>1, SetWaitingFacts
    <3>3. DOMAIN waitingExecution'[n] = {}
      BY <3>1, <3>2
    <3>4. WaitsOnce(n)'
      BY <3>3 DEF WaitsOnce
    <3>5. ASSUME NEW d \in wf.connections, d.to = n PROVE d.input \in DOMAIN inputs
      <4>1. inputs \in InputsOf(wf, d.to) /\ Cardinality(DOMAIN inputs) = NumberOfInputs(d.to)
        BY <2>2, <2>6, <3>5
      <4> QED BY <1>0, <4>1, CompleteInputs
    <3>6. ~Expected(n)'
      <4>1. n \notin Range(waitingNodes')
        BY <1>0, <1>2, <3>3 DEF WaitingInv
      <4>2. ASSUME NEW d \in targets', d.to = n PROVE FALSE
        BY <1>2, <2>4, <3>5, <4>2
      <4> QED BY <4>1, <4>2 DEF Expected
    <3>7. \A d \in wf.connections : d.to = n => Over(d.from)
      <4> SUFFICES ASSUME NEW d \in wf.connections, d.to = n, d # c PROVE Over(d.from)
        BY <1>3
      <4>1. 0 \in DOMAIN old /\ d.input \in DOMAIN old[0]
        BY <2>3, <3>5
      <4>2. 0 \in DOMAIN waitingExecution[n] /\ d.input \in DOMAIN waitingExecution[n][0]
        BY <4>1 DEF old
      <4> HIDE DEF n
      <4>3. n \in Unshared
        BY DEF n
      <4> QED BY <1>0, <4>2, <4>3, WaitingPacket
    <3>8. \A x \in AllBefore(wf, n) : Calm(x)
      BY <1>0, <3>7, BeforeOver
    <3> QED BY <2>2, <3>4, <3>6, <3>8
  <2>7. CASE stack' = stack /\ SetWaiting(n, With(old, 0, inputs))
    <3>1. /\ With(old, 0, inputs) \in Partial(InputsOf(wf, n))
          /\ DOMAIN With(old, 0, inputs) = DOMAIN old \cup {0} /\ With(old, 0, inputs)[0] = inputs
      <4>1. PICK V : V = InputsOf(wf, n)
        OBVIOUS
      <4>2. old \in Partial(V) /\ inputs \in V
        BY <2>2, <2>5, <4>1
      <4>3. PICK k \in Nat : k = 0
        OBVIOUS
      <4>4. /\ With(old, k, inputs) \in Partial(V)
            /\ DOMAIN With(old, k, inputs) = DOMAIN old \cup {k} /\ With(old, k, inputs)[k] = inputs
        BY <4>2, PartialWith
      <4> QED BY <4>1, <4>3, <4>4
    <3>2. waitingExecution'[n] = With(old, 0, inputs)
      BY <1>0, <1>2, <2>7, <3>1, SetWaitingFacts
    <3>3. DOMAIN waitingExecution'[n] \subseteq {0} /\ waitingExecution'[n][0] = inputs
      BY <2>5, <3>1, <3>2
    <3>4. WaitsOnce(n)'
      BY <2>4, <3>3 DEF WaitsOnce
    <3> QED BY <2>2, <2>7, <3>4
  <2> QED BY <2>2, <2>6, <2>7
<1>6. CASE ~(NumberOfInputs(n) > 1)
  <2>1. UNCHANGED <<waitingExecution, waitingNodes, lost>>
    BY <1>6 DEF AddNode
  <2>2. WaitsOnce(n)'
    BY <1>0, <1>2, <2>1 DEF WaitsOnce
  <2>3. \A d \in wf.connections : d.to = n => d = c
    BY <1>0, <1>4, <1>6, SingleInput
  <2>4. ~Expected(n)'
    <3>1. n \notin Range(waitingNodes')
      BY <1>6, <2>1 DEF OnceInv
    <3>2. \A d \in targets' : d.to # n
      BY <1>2, <2>3
    <3> QED BY <3>1, <3>2 DEF Expected
  <2>5. \A d \in wf.connections : d.to = n => Over(d.from)
    BY <1>3, <2>3
  <2>6. \A x \in AllBefore(wf, n) : Calm(x)
    BY <1>0, <2>5, BeforeOver
  <2> QED BY <2>1, <2>2, <2>4, <2>6
<1> QED BY <1>5, <1>6

\* A node is added.
LEMMA AddNodeOnce ==
    ASSUME Inv, Core', OnceInv, NEW c \in wf.connections, AddNode(c) PROVE OnceInv'
<1>0. TypeInv /\ SamePackets /\ stack \in Seq(EntryType(wf))
  BY AddNodePlace DEF Inv, TypeInv
<1>1. /\ phase = "adding" /\ phase' = "adding" /\ c \in targets /\ targets' = targets \ {c}
      /\ wf' = wf /\ runData' = runData
  BY DEF AddNode, IsNextTarget, engineVars
<1>2. /\ \/ stack' = stack
         \/ \E e \in EntryType(wf) : e.node = c.to /\ stack' = <<e>> \o stack
      /\ \A n \in Nodes : n # c.to => waitingExecution'[n] = waitingExecution[n]
      /\ Range(waitingNodes') \subseteq Range(waitingNodes) \cup {c.to}
      /\ \A p \in lost' : p \in lost \/ p.connection.to = c.to
      /\ ~(NumberOfInputs(c.to) > 1) => waitingNodes' = waitingNodes
  BY AddNodeChanges
<1>3. \A n : /\ HasNode(stack, n)' => HasNode(stack, n) \/ n = c.to
             /\ OnceNode(stack, n) /\ (n = c.to => ~HasNode(stack, n)) => OnceNode(stack, n)'
  <2>1. CASE stack' = stack
    BY <2>1
  <2>2. ASSUME NEW e \in EntryType(wf), e.node = c.to, stack' = <<e>> \o stack
        PROVE  \A n : /\ HasNode(stack', n) => HasNode(stack, n) \/ n = c.to
                      /\ OnceNode(stack, n) /\ (n = c.to => ~HasNode(stack, n)) => OnceNode(stack', n)
    <3>1. \A n : /\ HasNode(stack', n) <=> e.node = n \/ HasNode(stack, n)
                 /\ OnceNode(stack, n) /\ ~(e.node = n /\ HasNode(stack, n)) => OnceNode(stack', n)
      BY <1>0, <2>2, PushNode
    <3> QED BY <2>2, <3>1
  <2> QED BY <1>2, <2>1, <2>2
<1>4. (\A n : Busy(n)' => Busy(n) \/ n = c.to) /\ (\A n : ~Running(n)')
  BY <1>1, <1>3 DEF Busy, Running
<1>5. \A n : Over(n)' => Over(n)
  BY <1>0, <1>1, OverKept
<1>6. Expected(c.to) /\ \A n : Expected(n)' => Expected(n)
  BY <1>1, <1>2 DEF Expected
<1>7. Unshared' = Unshared /\ \A n : NumberOfInputs(n)' = NumberOfInputs(n)
  BY <1>1 DEF Unshared, SharedInput, ConnectionsTo, getParentNodes, NumberOfInputs
<1>8. ASSUME NEW n \in Unshared
      PROVE  TakenUpOnce(n)' /\ EntryOnce(n)' /\ WaitsOnce(n)' /\ OnceFinished(runData[n])'
  <2>1. TakenUpOnce(n) /\ EntryOnce(n) /\ WaitsOnce(n) /\ OnceFinished(runData[n]) /\ n \in Nodes
    BY <1>8 DEF OnceInv, Unshared
  <2>2. CASE n # c.to
    <3>1. Busy(n) \/ Over(n) => c.to \notin AllBefore(wf, n)
      BY <1>6, <2>1 DEF TakenUpOnce, Calm
    <3>2. TakenUpOnce(n)'
      BY <1>1, <1>4, <1>5, <1>6, <2>1, <2>2, <3>1 DEF TakenUpOnce, Calm
    <3>3. EntryOnce(n)'
      BY <1>3, <1>4, <2>1, <2>2 DEF EntryOnce
    <3>4. WaitsOnce(n)'
      BY <1>1, <1>2, <2>1, <2>2 DEF WaitsOnce
    <3> QED BY <1>1, <2>1, <3>2, <3>3, <3>4
  <2>3. CASE n = c.to
    <3>1. /\ WaitsOnce(n)'
          /\ \/ stack' = stack
             \/ ~Expected(n)' /\ \A x \in AllBefore(wf, n) : Calm(x)
      BY <1>8, <2>3, AddedOnce
    <3>2. ~Busy(n) /\ ~Over(n) /\ ~Over(n)'
      BY <1>5, <1>6, <2>1, <2>3 DEF TakenUpOnce
    <3>3. EntryOnce(n)'
      BY <1>3, <1>4, <2>1, <3>2 DEF EntryOnce, Busy
    <3>4. n \notin AllBefore(wf, n)
      BY <1>0, <2>1, WfFacts
    <3>5. TakenUpOnce(n)'
      <4>1. CASE stack' = stack
        <5>1. ~Busy(n)'
          BY <1>4, <3>2, <4>1 DEF Busy
        <5> QED BY <3>2, <5>1 DEF TakenUpOnce
      <4>2. CASE ~Expected(n)' /\ \A x \in AllBefore(wf, n) : Calm(x)
        <5>1. \A x \in AllBefore(wf, n) : Calm(x)'
          BY <1>4, <1>6, <2>3, <3>4, <4>2 DEF Calm
        <5> QED BY <1>1, <3>2, <4>2, <5>1 DEF TakenUpOnce
      <4> QED BY <3>1, <4>1, <4>2
    <3> QED BY <1>1, <2>1, <3>1, <3>3, <3>5
  <2> QED BY <2>2, <2>3
<1>9. (\A n \in Nodes : \A r \in DOMAIN runData[n] :
          runData[n][r].status = "continued" => n \in wf.continues)'
  BY <1>1 DEF OnceInv
<1>10. (\A p \in lost : p.connection.to \in Unshared => p.connection.to \in wf.continues)'
  <2>1. c.to \in Unshared => lost' = lost
    BY AddedOnce
  <2>2. \A p \in lost' : p.connection.to \in Unshared => p \in lost
    BY <1>2, <2>1
  <2> QED BY <1>1, <1>7, <2>2 DEF OnceInv
<1>11. (\A n \in Range(waitingNodes) : NumberOfInputs(n) > 1)'
  BY <1>2, <1>7 DEF OnceInv
<1> QED BY <1>7, <1>8, <1>9, <1>10, <1>11 DEF OnceInv

\* At first only the start node is busy, and it is not before itself.
LEMMA InitOnce == Init => OnceInv
<1> SUFFICES ASSUME Init PROVE OnceInv
  OBVIOUS
<1>1. TypeInv /\ \A n \in Nodes : n \notin AllBefore(wf, n)
  BY InitInv, WfFacts DEF Inv
<1>2. PICK e : e = Entry(wf.start, NoInputs)
  OBVIOUS
<1>3. e.node = wf.start /\ e.inputs = << >> /\ stack = <<e>> /\ DOMAIN stack = {1} /\ stack[1] = e
  BY <1>2 DEF Init, Entry, NoInputs
<1>4. /\ \A n \in Nodes : DOMAIN runData[n] = {} /\ DOMAIN waitingExecution[n] = {}
      /\ DOMAIN waitingNodes = {} /\ targets = {} /\ phase = "loop" /\ dropped = {} /\ lost = {}
  BY PartialEmpty DEF Init, NoEntries
<1>5. \A n : (HasNode(stack, n) <=> n = wf.start) /\ OnceNode(stack, n)
  BY <1>3 DEF HasNode, OnceNode
<1>6. \A n : (Busy(n) <=> n = wf.start) /\ ~Running(n) /\ ~Expected(n)
  BY <1>4, <1>5 DEF Busy, Running, Expected, Range
<1>7. ASSUME NEW p \in Packet PROVE ~Somewhere(p)
  <2>1. p.connection.to \in Nodes
    BY <1>1, TypeFacts
  <2>2. DOMAIN << >> = {}
    BY PartialEmpty
  <2>3. ~OnStack(p)
    BY <1>3, <2>2 DEF OnStack, InStack, PacketsOf
  <2>4. ~Waits(p) /\ ~Used(p)
    BY <1>4, <2>1 DEF Waits, InWaiting, Used, InRuns
  <2> QED BY <1>4, <2>3, <2>4 DEF Somewhere, InHand, Due
<1>8. \A n \in Nodes : ~Over(n)
  BY <1>4, <1>7 DEF Over, HasFinished
<1>9. \A n \in Nodes : TakenUpOnce(n) /\ EntryOnce(n) /\ WaitsOnce(n) /\ OnceFinished(runData[n])
  BY <1>1, <1>4, <1>5, <1>6, <1>8 DEF TakenUpOnce, Calm, EntryOnce, WaitsOnce, OnceFinished
<1> QED BY <1>4, <1>9 DEF OnceInv, Unshared, Range

\* Every step keeps the nodes without shared inputs from being taken up again.
LEMMA NextOnce == Inv /\ Core' /\ OnceInv /\ [Next]_vars => OnceInv'
<1> SUFFICES ASSUME Inv, Core', OnceInv, [Next]_vars PROVE OnceInv'
  OBVIOUS
<1>1. ASSUME UNCHANGED dataVars, wf' = wf, phase' = "running" <=> phase = "running" PROVE OnceInv'
  <2>1. UNCHANGED <<stack, waitingExecution, waitingNodes, runData, current, targets, lost>>
    BY <1>1 DEF dataVars
  <2>2. (\A n : Busy(n)' => Busy(n)) /\ (\A n : EntryOnce(n) => EntryOnce(n)')
    BY <1>1, <2>1 DEF Busy, Running, EntryOnce
  <2>3. SamePackets
    BY <1>1, QuietStep DEF Inv
  <2> QED BY <1>1, <2>1, <2>2, <2>3, OnceKept DEF Inv
<1>2. CASE LoopEnds \/ Timeout \/ AllAdded \/ DestinationDone \/ Settle \/ Saved \/ Cancel
  <2>1. UNCHANGED dataVars /\ wf' = wf
    BY <1>2 DEF LoopEnds, Timeout, AllAdded, DestinationDone, Settle, Saved, Cancel
  <2>2. phase' = "running" <=> phase = "running"
    BY <1>2 DEF LoopEnds, Timeout, AllAdded, DestinationDone, Settle, Saved, Cancel
  <2> QED BY <1>1, <2>1, <2>2
<1>3. CASE SkipNode \/ StartNode
  BY <1>3, TakeOnce
<1>4. ASSUME NEW outs \in SUBSET Outputs(current.node), Succeed(outs) PROVE OnceInv'
  <2>1. outs \in SUBSET Nat /\ "success" \in Finished /\ Record(outs, "success", "none")
    BY <1>4, OutsFacts DEF Succeed, Finished, Inv
  <2> QED BY <2>1, RecordOnce
<1>5. CASE ContinueOnFail
  <2>1. PICK outs \in SUBSET Nat : outs = PassThrough(current)
    BY OutsFacts DEF Inv
  <2>2. "continued" \in Finished /\ Record(outs, "continued", "error") /\ current.node \in wf.continues
    BY <1>5, <2>1 DEF ContinueOnFail, Finished
  <2> QED BY <2>2, RecordOnce
<1>6. CASE ReturnNull
  <2>1. /\ UNCHANGED <<wf, stack, waitingExecution, waitingNodes, runData, current, targets, lost>>
        /\ phase' # "running"
    BY <1>6 DEF ReturnNull
  <2>2. (\A n : Busy(n)' => Busy(n)) /\ (\A n : EntryOnce(n) => EntryOnce(n)')
    BY <2>1 DEF Busy, Running, EntryOnce
  <2>3. SamePackets
    BY <1>6, NullPlace DEF Inv
  <2> QED BY <2>1, <2>2, <2>3, OnceKept DEF Inv
<1>7. CASE PutToWait \/ \E e \in {"error", "canceled"} : FailNode(e)
  BY <1>7, PutBackOnce DEF PutToWait, FailNode
<1>8. ASSUME NEW c \in wf.connections, AddNode(c) PROVE OnceInv'
  BY <1>8, AddNodeOnce
<1>9. CASE NodeDone
  BY <1>9, NodeDoneOnce
<1>10. CASE Resume \/ Retry
  BY <1>10, RestartOnce
<1>11. CASE UNCHANGED vars
  BY <1>1, <1>11 DEF vars, engineVars
<1> QED
  BY <1>2, <1>3, <1>4, <1>5, <1>6, <1>7, <1>8, <1>9, <1>10, <1>11 DEF Next, EngineStep

\* For all workflows without cycles, a node is executed to its end twice, or waiting
\* data is replaced, only where connections share an input, at the node or before it.
THEOREM RepeatsNeedSharedInput == Spec => []OnlySharedInputsRepeat
<1>1. ASSUME OnceInv PROVE OnlySharedInputsRepeat
  <2> SUFFICES ASSUME NEW n \in Unshared
               PROVE  /\ \A r, q \in DOMAIN runData[n] :
                            {runData[n][r].status, runData[n][q].status} \subseteq {"success", "continued"} => r = q
                      /\ \A p \in lost : p.connection.to = n => n \in wf.continues
    BY DEF OnlySharedInputsRepeat
  <2>1. OnceFinished(runData[n])
    BY <1>1 DEF OnceInv
  <2>2. \A p \in lost : p.connection.to = n => n \in wf.continues
    BY <1>1 DEF OnceInv
  <2> QED BY <2>1, <2>2 DEF OnceFinished, Finished
<1>2. Inv /\ [Next]_vars => Core'
  BY NextInv DEF Inv, Core
<1> QED BY <1>1, <1>2, InitInv, NextInv, InitOnce, NextOnce, PTL DEF Spec
=============================================================================
