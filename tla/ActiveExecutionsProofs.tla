----------------------- MODULE ActiveExecutionsProofs -----------------------
(***************************************************************************)
(* Proofs about the executions of one main process, for any executions,    *)
(* calls and limits.  The argument goes in four layers.                    *)
(*   1. Every step is a step of the concurrency control or leaves it       *)
(*      alone, which needs no more than the types of the handlers' own     *)
(*      variables.  What ConcurrencyControlProofs proves of the service    *)
(*      then holds of the process that uses it.                            *)
(*   2. Over the types alone, ActiveInv is inductive: the conditional      *)
(*      update of the row makes the calls of an execution exclusive, until *)
(*      a second save of hookFunctionsSave puts 'waiting' over another     *)
(*      status (Late).                                                     *)
(*   3. With QueuedOnce from the first layer, SlotInv and EntryInv are     *)
(*      inductive: a release can let only a call through that is still     *)
(*      inside reserve(), so that no other call's slot is disturbed.       *)
(*   4. With the second and third layer, PendingInv is inductive: the      *)
(*      entry of a call that is not put to wait stays until its promise    *)
(*      has settled.                                                       *)
(***************************************************************************)
EXTENDS ActiveExecutions, FiniteSetTheorems, SequenceTheorems, TLAPS

CCP == INSTANCE ConcurrencyControlProofs WITH RegularMode <- TRUE

\* TypeOK without the variables of the concurrency control.
OwnTypeOK ==
    /\ db \in [Executions -> Statuses]
    /\ run \in [Calls -> RunType]
    /\ activeExecutions \in [Executions -> Calls \cup {None}]
    /\ stopping \in [Executions -> {"idle", "read", "write"}]
    /\ phase \in {"up", "draining", "stopped"}
    /\ enqueued \subseteq Executions

\* What the proofs use of the constants.
LEMMA Constants ==
    /\ ExecutionOf \in [Calls -> Executions]
    /\ \A c, d \in NewCalls : ExecutionOf[c] = ExecutionOf[d] => c = d
    /\ NewCalls \subseteq Calls
    /\ None \notin Calls
  BY NewCallsAssumption DEF CC!ConstantsAssumption

LEMMA IdleRunType ==
    IdleRun \in RunType /\ IdleRun.pc = "idle" /\ IdleRun.promise = "none" /\ ~IdleRun.late
  BY DEF IdleRun, RunType, PCs

-----------------------------------------------------------------------------
(* The handlers' own variables. *)

\* What Settle does to the calls and the entries.
LEMMA SettleEffect ==
    ASSUME OwnTypeOK, NEW d \in Calls, NEW r \in [Calls -> RunType], Settle(d, r)
    PROVE  /\ run' \in [Calls -> RunType]
           /\ \A x \in Calls : x # d => run'[x] = r[x]
           /\ /\ run'[d].pc = r[d].pc /\ run'[d].status = r[d].status
              /\ run'[d].result = r[d].result /\ run'[d].cancel = r[d].cancel
              /\ run'[d].late = r[d].late
           /\ r[d].promise # "pending" =>
                 run' = r /\ activeExecutions' = activeExecutions /\ UNCHANGED ccVars
           /\ r[d].promise = "pending" =>
                 /\ CC!Release(d)
                 /\ run'[d].promise = "settled"
                 /\ IF r[d].status = "waiting" THEN activeExecutions' = activeExecutions
                    ELSE activeExecutions' = [activeExecutions EXCEPT ![ExecutionOf[d]] = None]
<1>1. CASE r[d].promise # "pending"
  BY <1>1 DEF Settle
<1>2. CASE r[d].promise = "pending" /\ r[d].status = "waiting"
  <2>1. CC!Release(d) /\ UNCHANGED activeExecutions
           /\ run' = [r EXCEPT ![d].promise = "settled", ![d].engine = None]
    BY <1>2 DEF Settle
  <2> DEFINE w == [r[d] EXCEPT !.promise = "settled"]
             v == [w EXCEPT !.engine = None]
  <2>2. run' = [r EXCEPT ![d] = v]
    BY <2>1
  <2>3. r[d] \in RunType
    OBVIOUS
  <2>4. /\ w \in RunType /\ w.promise = "settled" /\ w.pc = r[d].pc /\ w.status = r[d].status
        /\ w.result = r[d].result /\ w.cancel = r[d].cancel /\ w.late = r[d].late
    BY <2>3 DEF RunType
  <2> HIDE DEF w
  <2>5. /\ v \in RunType /\ v.promise = "settled" /\ v.pc = r[d].pc /\ v.status = r[d].status
        /\ v.result = r[d].result /\ v.cancel = r[d].cancel /\ v.late = r[d].late
    BY <2>4 DEF RunType
  <2> HIDE DEF v
  <2>6. run' \in [Calls -> RunType] /\ run'[d] = v /\ \A x \in Calls : x # d => run'[x] = r[x]
    BY <2>2, <2>5
  <2> QED
    BY <1>2, <2>1, <2>5, <2>6
<1>3. CASE r[d].promise = "pending" /\ r[d].status # "waiting"
  <2>1. CC!Release(d) /\ run' = [r EXCEPT ![d].promise = "settled"]
           /\ activeExecutions' = [activeExecutions EXCEPT ![ExecutionOf[d]] = None]
    BY <1>3 DEF Settle
  <2> DEFINE v == [r[d] EXCEPT !.promise = "settled"]
  <2>2. run' = [r EXCEPT ![d] = v]
    BY <2>1
  <2>3. r[d] \in RunType
    OBVIOUS
  <2>4. /\ v \in RunType /\ v.promise = "settled" /\ v.pc = r[d].pc /\ v.status = r[d].status
        /\ v.result = r[d].result /\ v.cancel = r[d].cancel /\ v.late = r[d].late
    BY <2>3 DEF RunType
  <2> HIDE DEF v
  <2>5. run' \in [Calls -> RunType] /\ run'[d] = v /\ \A x \in Calls : x # d => run'[x] = r[x]
    BY <2>2, <2>4
  <2> QED
    BY <1>3, <2>1, <2>4, <2>5
<1> QED
  BY <1>1, <1>2, <1>3

(***************************************************************************)
(* What finalizeExecution or stopExecution of execution e leaves, where r  *)
(* is what the handler did to the calls before: nothing more, or a dropped *)
(* entry that waits, or a settled promise with its slot given back.        *)
(***************************************************************************)
Settled(d, r) ==
    /\ r[d].promise = "pending" /\ CC!Release(d)
    /\ run' \in [Calls -> RunType]
    /\ \A x \in Calls : x # d => run'[x] = r[x]
    /\ run'[d].pc = r[d].pc /\ run'[d].status = r[d].status
    /\ run'[d].result = r[d].result /\ run'[d].promise = "settled"
    /\ run'[d].late = r[d].late
    /\ IF r[d].status = "waiting" THEN activeExecutions' = activeExecutions
       ELSE activeExecutions' = [activeExecutions EXCEPT ![ExecutionOf[d]] = None]

Outcome(e, r) ==
    \/ /\ run' = r /\ UNCHANGED ccVars
       /\ \/ activeExecutions' = activeExecutions
          \/ /\ r[activeExecutions[e]].status = "waiting"
             /\ activeExecutions' = [activeExecutions EXCEPT ![e] = None]
    \/ activeExecutions[e] \in Calls /\ Settled(activeExecutions[e], r)

LEMMA SettleOutcome ==
    ASSUME OwnTypeOK, NEW e \in Executions, activeExecutions[e] # None,
           NEW r \in [Calls -> RunType], Settle(activeExecutions[e], r)
    PROVE  Outcome(e, r)
<1> DEFINE d == activeExecutions[e]
<1>1. d \in Calls
  BY DEF OwnTypeOK
<1> HIDE DEF d
<1>2. CASE r[d].promise = "pending"
  BY <1>1, <1>2, SettleEffect DEF d, Outcome, Settled
<1>3. CASE r[d].promise # "pending"
  BY <1>1, <1>3, SettleEffect DEF d, Outcome
<1> QED
  BY <1>2, <1>3

\* finalizeExecution from the .then handler or after a denied run.
LEMMA FinalizeEffect ==
    ASSUME OwnTypeOK, NEW c \in Calls, FinalizeExecution(c)
    PROVE  LET r == [run EXCEPT ![c].pc = "done"] IN
           /\ r \in [Calls -> RunType]
           /\ run[c].pc \in {"saved", "denied"}
           /\ Outcome(ExecutionOf[c], r)
           /\ UNCHANGED <<db, stopping, phase, enqueued>>
<1> DEFINE r == [run EXCEPT ![c].pc = "done"]
           e == ExecutionOf[c]
<1>1. r \in [Calls -> RunType]
  BY DEF OwnTypeOK, RunType, PCs
<1>2. e \in Executions
  BY Constants
<1>3. run[c].pc \in {"saved", "denied"} /\ UNCHANGED <<db, stopping, phase, enqueued>>
  BY DEF FinalizeExecution
<1>4. \/ run' = r /\ UNCHANGED <<ccVars, activeExecutions>>
      \/ activeExecutions[e] # None /\ Settle(activeExecutions[e], r)
  BY DEF FinalizeExecution
<1> HIDE DEF r, e
<1>5. Outcome(e, r)
  BY <1>1, <1>2, <1>4, SettleOutcome DEF Outcome
<1> QED
  BY <1>1, <1>3, <1>5 DEF r, e

\* A failed start of the engine, with the finalizeExecution of processError.
LEMMA LaunchFailsEffect ==
    ASSUME OwnTypeOK, NEW c \in Calls, LaunchFails(c)
    PROVE  LET r == [run EXCEPT ![c].pc = "failed", ![c].result = "error"] IN
           /\ r \in [Calls -> RunType]
           /\ run[c].pc = "starting"
           /\ Outcome(ExecutionOf[c], r)
           /\ UNCHANGED <<db, stopping, phase, enqueued>>
<1> DEFINE r == [run EXCEPT ![c].pc = "failed", ![c].result = "error"]
           e == ExecutionOf[c]
<1>1. r \in [Calls -> RunType]
  <2> DEFINE r1 == [run EXCEPT ![c].pc = "failed"]
  <2>1. r1 \in [Calls -> RunType]
    BY DEF OwnTypeOK, RunType, PCs
  <2>2. r = [r1 EXCEPT ![c].result = "error"]
    BY DEF OwnTypeOK
  <2> HIDE DEF r1, r
  <2> QED
    BY <2>1, <2>2 DEF RunType
<1>2. e \in Executions
  BY Constants
<1>3. run[c].pc = "starting" /\ UNCHANGED <<db, stopping, phase, enqueued>>
  BY DEF LaunchFails
<1>4. \/ run' = r /\ UNCHANGED <<ccVars, activeExecutions>>
      \/ activeExecutions[e] # None /\ Settle(activeExecutions[e], r)
  BY DEF LaunchFails
<1> HIDE DEF r, e
<1>5. Outcome(e, r)
  BY <1>1, <1>2, <1>4, SettleOutcome DEF Outcome
<1> QED
  BY <1>1, <1>3, <1>5 DEF r, e

\* The two call maps differ in engines and cancellations only.
SameButCancel(r) ==
    /\ r \in [Calls -> RunType]
    /\ \A x \in Calls : /\ r[x].pc = run[x].pc /\ r[x].status = run[x].status
                        /\ r[x].promise = run[x].promise /\ r[x].result = run[x].result
                        /\ r[x].attached = run[x].attached /\ r[x].late = run[x].late

\* stopExecution changes no program counter, status or result.
LEMMA StopEffect ==
    ASSUME OwnTypeOK, NEW e \in Executions, StopExecution(e)
    PROVE  \E r : SameButCancel(r) /\ Outcome(e, r)
<1> DEFINE d == activeExecutions[e]
           w == run[d].engine
           r == IF w # None /\ Cancellable(w) THEN [run EXCEPT ![w].cancel = "requested"]
                ELSE run
<1>1. SameButCancel(run)
  BY DEF OwnTypeOK, SameButCancel
<1>2. CASE d = None
  BY <1>1, <1>2 DEF StopExecution, Outcome
<1>3. CASE d # None /\ run[d].status = "waiting"
  <2>1. activeExecutions' = [activeExecutions EXCEPT ![e] = None] /\ UNCHANGED <<ccVars, run>>
    BY <1>3 DEF StopExecution
  <2> QED
    BY <1>1, <1>3, <2>1 DEF Outcome
<1>4. CASE d # None /\ run[d].status # "waiting"
  <2>1. d \in Calls /\ (w \in Calls \/ w = None)
    BY <1>4 DEF OwnTypeOK, RunType
  <2>2. r \in [Calls -> RunType] /\ SameButCancel(r)
    <3>1. CASE w # None /\ Cancellable(w)
      <4>1. run \in [Calls -> RunType] /\ w \in Calls /\ r = [run EXCEPT ![w].cancel = "requested"]
        BY <2>1, <3>1 DEF OwnTypeOK
      <4> HIDE DEF w, r
      <4>2. run[w] \in RunType
        BY <4>1
      <4> DEFINE v == [run[w] EXCEPT !.cancel = "requested"]
      <4>3. v \in RunType /\ \A f \in {"pc", "status", "promise", "result", "boot", "attached", "late"} :
                                v[f] = run[w][f]
        BY <4>2 DEF RunType
      <4>4. r = [run EXCEPT ![w] = v]
        BY <4>1
      <4> HIDE DEF v
      <4> QED
        BY <4>1, <4>3, <4>4 DEF SameButCancel
    <3>2. CASE ~(w # None /\ Cancellable(w))
      <4>1. r = run
        BY <3>2
      <4> HIDE DEF r
      <4> QED
        BY <1>1, <4>1 DEF OwnTypeOK
    <3> QED
      BY <3>1, <3>2
  <2>3. Settle(d, r)
    BY <1>4 DEF StopExecution
  <2> HIDE DEF r
  <2>4. Outcome(e, r)
    BY <1>4, <2>2, <2>3, SettleOutcome
  <2> QED
    BY <2>2, <2>4
<1> QED
  BY <1>2, <1>3, <1>4

\* An outcome keeps the types of the calls and the entries.
LEMMA OutcomeType ==
    ASSUME OwnTypeOK, NEW e \in Executions, NEW r \in [Calls -> RunType], Outcome(e, r)
    PROVE  /\ run' \in [Calls -> RunType]
           /\ activeExecutions' \in [Executions -> Calls \cup {None}]
<1>1. activeExecutions \in [Executions -> Calls \cup {None}]
  BY DEF OwnTypeOK
<1>2. CASE run' = r /\ (activeExecutions' = activeExecutions
                          \/ activeExecutions' = [activeExecutions EXCEPT ![e] = None])
  BY <1>1, <1>2
<1>3. CASE activeExecutions[e] \in Calls /\ Settled(activeExecutions[e], r)
  BY <1>1, <1>3, Constants DEF Settled
<1> QED
  BY <1>2, <1>3 DEF Outcome

LEMMA InitOwnType == Init => OwnTypeOK
  BY IdleRunType DEF Init, OwnTypeOK, Statuses

\* The failed credentials check.
LEMMA DeniedEffect ==
    ASSUME OwnTypeOK, NEW c \in Calls, CredentialsDenied(c)
    PROVE  /\ run[c].pc = "registered" /\ db' = [db EXCEPT ![ExecutionOf[c]] = "error"]
           /\ UNCHANGED <<ccVars, activeExecutions, stopping, phase, enqueued>>
           /\ \E p \in {"denying", "denied"} :
                 run' = [run EXCEPT ![c].pc = p, ![c].result = "error"]
<1>1. /\ run[c].pc = "registered" /\ db' = [db EXCEPT ![ExecutionOf[c]] = "error"]
      /\ UNCHANGED <<ccVars, activeExecutions, stopping, phase, enqueued>>
  BY DEF CredentialsDenied
<1>2. PICK p \in AfterSave(c, "denying", "denied") :
         run' = [run EXCEPT ![c].pc = p, ![c].result = "error"]
  BY DEF CredentialsDenied
<1>3. p \in {"denying", "denied"}
  BY DEF AfterSave
<1> QED
  BY <1>1, <1>2, <1>3

\* The second write of the hook: where the call goes on, and when the write
\* is late.
LEMMA MergedEffect ==
    ASSUME OwnTypeOK, NEW c \in Calls, SaveMerged(c)
    PROVE  \E p \in {"saved", "denied", "done"}, l \in BOOLEAN :
              /\ run' = [run EXCEPT ![c].pc = p, ![c].late = l]
              /\ \/ run[c].pc = "merging" /\ p = "saved"
                 \/ run[c].pc = "denying" /\ p = "denied"
                 \/ run[c].pc = "failing" /\ p = "done"
              /\ run[c].late => l
              /\ (run[c].result = "waiting" /\ db[ExecutionOf[c]] # "waiting") => l
<1> DEFINE p == CASE run[c].pc = "merging" -> "saved" [] run[c].pc = "denying" -> "denied"
                  [] OTHER -> "done"
           l == run[c].late \/ (run[c].result = "waiting" /\ db[ExecutionOf[c]] # "waiting")
<1>1. run' = [run EXCEPT ![c].pc = p, ![c].late = l]
  BY DEF SaveMerged, OwnTypeOK
<1>2. l \in BOOLEAN
  BY DEF OwnTypeOK, RunType
<1>3. \/ run[c].pc = "merging" /\ p = "saved"
      \/ run[c].pc = "denying" /\ p = "denied"
      \/ run[c].pc = "failing" /\ p = "done"
  BY DEF SaveMerged
<1>4. /\ run[c].late => l
      /\ (run[c].result = "waiting" /\ db[ExecutionOf[c]] # "waiting") => l
  OBVIOUS
<1> HIDE DEF p, l
<1> QED
  BY <1>1, <1>2, <1>3, <1>4

\* The steps of a call up to its registration, and those that only write.
LEMMA CallStepType ==
    ASSUME OwnTypeOK, NEW c \in Calls,
           \/ Create(c) \/ BeginResume(c) \/ RunEnqueued(c) \/ Reserve(c) \/ WriteStatus(c)
           \/ RefuseResume(c) \/ Register(c) \/ CredentialsDenied(c) \/ RunRejected(c)
           \/ SetRunning(c) \/ Launch(c) \/ PutExecutionToWait(c) \/ Finish(c)
           \/ SaveResult(c) \/ SaveMerged(c) \/ SaveCanceled(c)
    PROVE  OwnTypeOK'
<1> USE Constants
<1>1. CASE Create(c)
  BY <1>1 DEF Create, OwnTypeOK, RunType, PCs, Statuses
<1>2. CASE BeginResume(c)
  BY <1>2 DEF BeginResume, OwnTypeOK, RunType, PCs
<1>3. CASE RunEnqueued(c)
  <2> DEFINE r1 == [run EXCEPT ![c].pc = "created"]
  <2>1. r1 \in [Calls -> RunType]
    BY DEF OwnTypeOK, RunType, PCs
  <2>2. run' = [r1 EXCEPT ![c].boot = TRUE]
    BY <1>3 DEF OwnTypeOK, RunEnqueued
  <2> HIDE DEF r1
  <2>3. run' \in [Calls -> RunType]
    <3>1. r1[c] \in RunType
      BY <2>1
    <3>2. [r1[c] EXCEPT !.boot = TRUE] \in RunType
      BY <3>1 DEF RunType
    <3> QED
      BY <2>1, <2>2, <3>2
  <2> QED
    BY <1>3, <2>3 DEF RunEnqueued, OwnTypeOK
<1>4. CASE Reserve(c)
  BY <1>4 DEF Reserve, OwnTypeOK, RunType, PCs
<1>5. CASE WriteStatus(c)
  BY <1>5 DEF WriteStatus, OwnTypeOK, RunType, PCs, Statuses
<1>6. CASE RefuseResume(c)
  BY <1>6 DEF RefuseResume, OwnTypeOK, RunType, PCs
<1>7. CASE Register(c)
  <2> DEFINE r1 == [run EXCEPT ![c].pc = "registered"]
  <2>1. r1 \in [Calls -> RunType]
    BY DEF OwnTypeOK, RunType, PCs
  <2>2. run' = [r1 EXCEPT ![c].promise = "pending"]
    BY <1>7 DEF OwnTypeOK, Register
  <2> HIDE DEF r1
  <2>3. run' \in [Calls -> RunType]
    BY <2>1, <2>2 DEF RunType
  <2> QED
    BY <1>7, <2>3 DEF Register, OwnTypeOK
<1>8. CASE CredentialsDenied(c)
  <2>1. PICK p \in {"denying", "denied"} : run' = [run EXCEPT ![c].pc = p, ![c].result = "error"]
    BY <1>8, DeniedEffect
  <2> DEFINE r1 == [run EXCEPT ![c].pc = p]
  <2>2. r1 \in [Calls -> RunType]
    BY DEF OwnTypeOK, RunType, PCs
  <2>3. run' = [r1 EXCEPT ![c].result = "error"]
    BY <2>1 DEF OwnTypeOK
  <2> HIDE DEF r1
  <2>4. run' \in [Calls -> RunType]
    BY <2>2, <2>3 DEF RunType
  <2> QED
    BY <1>8, <2>4, DeniedEffect DEF OwnTypeOK, Statuses
<1>9. CASE RunRejected(c)
  BY <1>9 DEF RunRejected, OwnTypeOK, RunType, PCs
<1>10. CASE SetRunning(c)
  BY <1>10 DEF SetRunning, OwnTypeOK, RunType, PCs, Statuses
<1>11. CASE Launch(c)
  <2> DEFINE d == activeExecutions[ExecutionOf[c]]
             r1 == [run EXCEPT ![c].pc = "executing"]
             r2 == [r1 EXCEPT ![c].attached = TRUE]
             r3 == [r2 EXCEPT ![d].engine = c]
  <2>1. r1 \in [Calls -> RunType]
    BY DEF OwnTypeOK, RunType, PCs
  <2>2. r2 \in [Calls -> RunType]
    <3> HIDE DEF r1
    <3>1. r1[c] \in RunType
      BY <2>1
    <3>2. [r1[c] EXCEPT !.attached = TRUE] \in RunType
      BY <3>1 DEF RunType
    <3> QED
      BY <2>1, <3>2
  <2>3. d # None => r3 \in [Calls -> RunType]
    <3>1. d # None => d \in Calls
      BY DEF OwnTypeOK
    <3> HIDE DEF d, r2
    <3>2. ASSUME d \in Calls PROVE [r2[d] EXCEPT !.engine = c] \in RunType
      <4>1. r2[d] \in RunType
        BY <2>2, <3>2
      <4> QED
        BY <4>1 DEF RunType
    <3> QED
      BY <2>2, <3>1, <3>2
  <2>4. IF d = None THEN run' = r1 ELSE run' = r3
    BY <1>11 DEF Launch, OwnTypeOK
  <2> HIDE DEF d, r1, r2, r3
  <2> QED
    BY <1>11, <2>1, <2>3, <2>4 DEF Launch, OwnTypeOK
<1>12. CASE PutExecutionToWait(c)
  <2> DEFINE d == activeExecutions[ExecutionOf[c]]
             r1 == [run EXCEPT ![c].result = "waiting"]
  <2>1. r1 \in [Calls -> RunType]
    BY DEF OwnTypeOK, RunType
  <2>2. d \in Calls
    BY <1>12 DEF PutExecutionToWait, OwnTypeOK
  <2>3. run' = [r1 EXCEPT ![d].status = "waiting"]
    BY <1>12 DEF PutExecutionToWait, OwnTypeOK
  <2> HIDE DEF d, r1
  <2>4. run' \in [Calls -> RunType]
    BY <2>1, <2>2, <2>3 DEF RunType
  <2> QED
    BY <1>12, <2>4 DEF PutExecutionToWait, OwnTypeOK
<1>13. CASE Finish(c)
  <2>1. ASSUME NEW r \in {"waiting", "success", "error"},
               run' = [run EXCEPT ![c].pc = "saving", ![c].result = r]
        PROVE  run' \in [Calls -> RunType]
    <3> DEFINE r1 == [run EXCEPT ![c].pc = "saving"]
    <3>1. r1 \in [Calls -> RunType]
      BY DEF OwnTypeOK, RunType, PCs
    <3>2. run' = [r1 EXCEPT ![c].result = r]
      BY <2>1 DEF OwnTypeOK
    <3> HIDE DEF r1
    <3> QED
      BY <3>1, <3>2 DEF RunType
  <2>2. ASSUME run' = [run EXCEPT ![c].pc = "saved"]
        PROVE  run' \in [Calls -> RunType]
    BY <2>2 DEF OwnTypeOK, RunType, PCs
  <2>3. run' \in [Calls -> RunType]
    BY <1>13, <2>1, <2>2 DEF Finish
  <2> QED
    BY <1>13, <2>3 DEF Finish, OwnTypeOK
<1>14. CASE SaveResult(c)
  <2>1. PICK p \in {"merging", "saved", "failing", "done"} : run' = [run EXCEPT ![c].pc = p]
    BY <1>14 DEF SaveResult, AfterSave
  <2>2. run' \in [Calls -> RunType]
    BY <2>1 DEF OwnTypeOK, RunType, PCs
  <2> QED
    BY <1>14, <2>2 DEF SaveResult, OwnTypeOK, RunType, Statuses
<1>15. CASE SaveCanceled(c)
  <2>1. PICK s \in {"merging", "saved"} : run' = [run EXCEPT ![c].cancel = s]
    BY <1>15 DEF SaveCanceled, AfterSave
  <2>2. run' \in [Calls -> RunType]
    BY <2>1 DEF OwnTypeOK, RunType
  <2> QED
    BY <1>15, <2>2 DEF SaveCanceled, OwnTypeOK, Statuses
<1>16. CASE SaveMerged(c)
  <2>1. PICK p \in {"saved", "denied", "done"}, l \in BOOLEAN :
           run' = [run EXCEPT ![c].pc = p, ![c].late = l]
    BY <1>16, MergedEffect
  <2> DEFINE r1 == [run EXCEPT ![c].pc = p]
  <2>2. r1 \in [Calls -> RunType]
    BY DEF OwnTypeOK, RunType, PCs
  <2>3. run' = [r1 EXCEPT ![c].late = l]
    BY <2>1 DEF OwnTypeOK
  <2> HIDE DEF r1
  <2>4. run' \in [Calls -> RunType]
    BY <2>2, <2>3 DEF RunType
  <2> QED
    BY <1>16, <2>4 DEF SaveMerged, OwnTypeOK, RunType, Statuses
<1> QED
  BY <1>1, <1>2, <1>3, <1>4, <1>5, <1>6, <1>7, <1>8, <1>9, <1>10, <1>11, <1>12, <1>13,
     <1>14, <1>15, <1>16

\* The steps that settle, stop, and those of the process.
LEMMA EndStepType ==
    ASSUME OwnTypeOK, Next,
           ~ \E c \in Calls :
               \/ Create(c) \/ BeginResume(c) \/ RunEnqueued(c) \/ Reserve(c) \/ WriteStatus(c)
               \/ RefuseResume(c) \/ Register(c) \/ CredentialsDenied(c) \/ RunRejected(c)
               \/ SetRunning(c) \/ Launch(c) \/ PutExecutionToWait(c) \/ Finish(c)
               \/ SaveResult(c) \/ SaveMerged(c) \/ SaveCanceled(c)
    PROVE  OwnTypeOK'
<1>1. ASSUME NEW c \in Calls, FinalizeExecution(c) PROVE OwnTypeOK'
  <2>1. /\ run' \in [Calls -> RunType]
        /\ activeExecutions' \in [Executions -> Calls \cup {None}]
    BY <1>1, Constants, FinalizeEffect, OutcomeType
  <2>2. UNCHANGED <<db, stopping, phase, enqueued>>
    BY <1>1 DEF FinalizeExecution
  <2> QED
    BY <2>1, <2>2 DEF OwnTypeOK
<1>2. ASSUME NEW c \in Calls, LaunchFails(c) PROVE OwnTypeOK'
  <2>1. /\ run' \in [Calls -> RunType]
        /\ activeExecutions' \in [Executions -> Calls \cup {None}]
    BY <1>2, Constants, LaunchFailsEffect, OutcomeType
  <2>2. UNCHANGED <<db, stopping, phase, enqueued>>
    BY <1>2 DEF LaunchFails
  <2> QED
    BY <2>1, <2>2 DEF OwnTypeOK
<1>3. ASSUME NEW e \in Executions, StopExecution(e)
      PROVE  /\ run' \in [Calls -> RunType]
             /\ activeExecutions' \in [Executions -> Calls \cup {None}]
  BY <1>3, StopEffect, OutcomeType DEF SameButCancel
<1>4. ASSUME NEW c \in Calls, TimeoutExecution(c) PROVE OwnTypeOK'
  BY <1>3, <1>4, Constants DEF TimeoutExecution, OwnTypeOK
<1>5. ASSUME NEW e \in Executions, StopRead(e) PROVE OwnTypeOK'
  BY <1>5 DEF StopRead, OwnTypeOK
<1>6. ASSUME NEW e \in Executions, StopInRegularMode(e) PROVE OwnTypeOK'
  <2>1. /\ run' \in [Calls -> RunType]
        /\ activeExecutions' \in [Executions -> Calls \cup {None}]
    BY <1>3, <1>6 DEF StopInRegularMode, OwnTypeOK
  <2> QED
    BY <1>6, <2>1 DEF StopInRegularMode, OwnTypeOK
<1>7. ASSUME NEW e \in Executions, StopWrite(e) PROVE OwnTypeOK'
  BY <1>7 DEF StopWrite, OwnTypeOK, Statuses
<1>8. CASE Shutdown
  BY <1>8 DEF Shutdown, OwnTypeOK
<1>9. CASE Drained
  BY <1>9 DEF Drained, OwnTypeOK
<1>10. CASE Restart
  <2>1. [IdleRun EXCEPT !.pc = "dead"] \in RunType
    BY DEF IdleRun, RunType, PCs
  <2> QED
    BY <1>10, <2>1, IdleRunType DEF Restart, OwnTypeOK
<1> QED
  BY <1>1, <1>2, <1>4, <1>5, <1>6, <1>7, <1>8, <1>9, <1>10 DEF Next, Step

LEMMA NextOwnType == OwnTypeOK /\ [Next]_vars => OwnTypeOK'
<1>1. ASSUME OwnTypeOK, UNCHANGED vars PROVE OwnTypeOK'
  BY <1>1 DEF OwnTypeOK, vars
<1> QED
  BY <1>1, CallStepType, EndStepType

-----------------------------------------------------------------------------
(* The use of the concurrency control. *)

LEMMA OutcomeUsesCC ==
    ASSUME NEW e, NEW r, Outcome(e, r)
    PROVE  [CC!Next]_(CC!vars)
<1>1. CASE UNCHANGED ccVars
  BY <1>1 DEF ccVars, CC!vars
<1>2. CASE activeExecutions[e] \in Calls /\ CC!Release(activeExecutions[e])
  BY <1>2 DEF CC!Next
<1> QED
  BY <1>1, <1>2 DEF Outcome, Settled

\* Every step is one of the concurrency control, or leaves it alone.
LEMMA StepUsesCC == OwnTypeOK /\ [Next]_vars => [CC!Next]_(CC!vars)
<1> SUFFICES ASSUME OwnTypeOK, [Next]_vars PROVE [CC!Next]_(CC!vars)
  OBVIOUS
<1>1. ASSUME UNCHANGED ccVars PROVE [CC!Next]_(CC!vars)
  BY <1>1 DEF ccVars, CC!vars
<1>2. ASSUME NEW e \in Executions, StopExecution(e) PROVE [CC!Next]_(CC!vars)
  BY <1>2, StopEffect, OutcomeUsesCC
<1>3. ASSUME NEW c \in Calls, Reserve(c) PROVE [CC!Next]_(CC!vars)
  BY <1>3 DEF Reserve, CC!Next
<1>4. ASSUME NEW c \in Calls, RefuseResume(c) PROVE [CC!Next]_(CC!vars)
  BY <1>4 DEF RefuseResume, CC!Next
<1>5. ASSUME NEW c \in Calls, FinalizeExecution(c) PROVE [CC!Next]_(CC!vars)
  BY <1>5, FinalizeEffect, OutcomeUsesCC
<1>6. ASSUME NEW c \in Calls, LaunchFails(c) PROVE [CC!Next]_(CC!vars)
  BY <1>6, LaunchFailsEffect, OutcomeUsesCC
<1>7. ASSUME NEW c \in Calls, TimeoutExecution(c) PROVE [CC!Next]_(CC!vars)
  BY <1>2, <1>7, Constants DEF TimeoutExecution
<1>8. ASSUME NEW e \in Executions, StopInRegularMode(e) PROVE [CC!Next]_(CC!vars)
  BY <1>2, <1>8 DEF StopInRegularMode, CC!Next
<1>9. CASE Shutdown
  BY <1>1, <1>9 DEF Shutdown, CC!Next
<1>10. CASE Restart
  BY <1>10 DEF Restart, CC!Next
<1>11. ASSUME NEW c \in Calls,
              \/ Create(c) \/ BeginResume(c) \/ RunEnqueued(c) \/ WriteStatus(c)
              \/ Register(c) \/ CredentialsDenied(c) \/ RunRejected(c)
              \/ SetRunning(c) \/ Launch(c) \/ PutExecutionToWait(c) \/ Finish(c)
              \/ SaveResult(c) \/ SaveMerged(c) \/ SaveCanceled(c)
       PROVE  UNCHANGED ccVars
  BY <1>11 DEF Create, BeginResume, RunEnqueued, WriteStatus, Register, CredentialsDenied,
     RunRejected, SetRunning, Launch, PutExecutionToWait, Finish, SaveResult, SaveMerged,
     SaveCanceled
<1>12. ASSUME NEW e \in Executions, StopRead(e) \/ StopWrite(e) PROVE UNCHANGED ccVars
  BY <1>12 DEF StopRead, StopWrite
<1>13. CASE Drained
  BY <1>1, <1>13 DEF Drained
<1>14. CASE UNCHANGED vars
  BY <1>1, <1>14 DEF vars
<1> QED
  BY <1>1, <1>3, <1>4, <1>5, <1>6, <1>7, <1>8, <1>9, <1>10, <1>11, <1>12, <1>13, <1>14
     DEF Next, Step

\* What is proved of the concurrency control holds in the process that uses it.
LEMMA SpecUsesCC == Spec => CC!Spec
<1>1. Init => CC!Init
  BY DEF Init
<1> QED
  BY <1>1, InitOwnType, NextOwnType, StepUsesCC, PTL DEF Spec, CC!Spec

\* The constants meet what the proofs of the concurrency control assume.
LEMMA CCConstants ==
    /\ CCP!IsFiniteSet(Calls)
    /\ ExecutionOf \in [Calls -> Executions]
    /\ ModeOf \in [Executions -> CCP!Modes]
    /\ ConfiguredLimit \in [CCP!QueueTypes -> Int \ {0}]
    /\ TRUE \in BOOLEAN
  BY NewCallsAssumption
     DEF CC!ConstantsAssumption, CC!IsFiniteSet, CCP!IsFiniteSet, CC!Modes, CCP!Modes,
         CC!QueueTypes, CCP!QueueTypes

\* The specification the proofs are about is the one that is used.
LEMMA SameCC ==
    /\ CC!Init => CCP!Init
    /\ CC!Next => CCP!Next
    /\ CC!vars = CCP!vars
<1>1. CC!Init => CCP!Init
  BY DEF CC!Init, CCP!Init, CC!InitiallyEnabled, CCP!InitiallyEnabled, CC!Queues,
     CCP!Queues, CC!limits, CCP!limits, CC!QueueTypes, CCP!QueueTypes
<1>2. CC!Next = CCP!Next
  BY DEF CC!Next, CCP!Next, CC!Reserve, CCP!Reserve, CC!Release, CCP!Release,
     CC!RemoveExecution, CCP!RemoveExecution, CC!Disable, CCP!Disable, CC!Restart,
     CCP!Restart, CC!isUnlimited, CCP!isUnlimited, CC!EnqueueAdmitted, CCP!EnqueueAdmitted,
     CC!EnqueueThrottled, CCP!EnqueueThrottled, CC!QueueOf, CCP!QueueOf, CC!getQueue,
     CCP!getQueue, CC!GiveBack, CCP!GiveBack, CC!IsFirstOf, CCP!IsFirstOf, CC!RemoveAt,
     CCP!RemoveAt, CC!Queues, CCP!Queues, CC!limits, CCP!limits, CC!QueueTypes,
     CCP!QueueTypes, CC!InitiallyEnabled, CCP!InitiallyEnabled
<1>3. CC!vars = CCP!vars
  BY DEF CC!vars, CCP!vars
<1> QED
  BY <1>1, <1>2, <1>3

\* The properties proved of it, under their names here.
LEMMA SameCCInvariants ==
    /\ CCP!TypeOK => CC!TypeOK
    /\ CCP!QueuedOnce => CC!QueuedOnce
    /\ CCP!CapacityAccounting => CC!CapacityAccounting
    /\ CCP!WorkConserving => CC!WorkConserving
<1> USE DEF CC!Queues, CCP!Queues, CC!limits, CCP!limits, CC!QueueTypes, CCP!QueueTypes
<1>1. CCP!TypeOK => CC!TypeOK
  BY DEF CC!TypeOK, CCP!TypeOK, CC!ReservationStates, CCP!ReservationStates
<1>2. CCP!QueuedOnce => CC!QueuedOnce
  BY DEF CC!QueuedOnce, CCP!QueuedOnce, CC!QueueOf, CCP!QueueOf, CC!getQueue, CCP!getQueue
<1>3. CCP!CapacityAccounting => CC!CapacityAccounting
  BY DEF CC!CapacityAccounting, CCP!CapacityAccounting, CC!Held, CCP!Held, CC!Cardinality, 
     CCP!Cardinality, CC!QueueOf, CCP!QueueOf, CC!getQueue, CCP!getQueue
<1>4. CCP!WorkConserving => CC!WorkConserving
  BY DEF CC!WorkConserving, CCP!WorkConserving, CC!Held, CCP!Held, CC!Cardinality, 
     CCP!Cardinality, CC!QueueOf, CCP!QueueOf, CC!getQueue, CCP!getQueue
<1> QED
  BY <1>1, <1>2, <1>3, <1>4

(***************************************************************************)
(* In the process as a whole, the pending reservations are the queued ones *)
(* and no slot is lost, invented or kept from a waiting execution.         *)
(***************************************************************************)
THEOREM SlotsAreAccounted ==
    Spec => [](/\ CC!TypeOK /\ CC!QueuedOnce
               /\ CC!CapacityAccounting /\ CC!WorkConserving)
<1>1. CCP!Spec => []CCP!TypeOK
  BY CCConstants, CCP!TypeCorrect, PTL
<1>2. CCP!Spec => []CCP!QueuedOnce
  BY CCConstants, CCP!WaitersAreQueuedOnce, PTL
<1>3. CCP!Spec => []CCP!CapacityAccounting
  BY CCConstants, CCP!CapacityIsAccounted, PTL
<1>4. CCP!Spec => []CCP!WorkConserving
  BY CCConstants, CCP!WorkIsConserved, PTL
<1>5. [CC!Next]_(CC!vars) => [CCP!Next]_(CCP!vars)
  BY SameCC DEF CC!vars, CCP!vars
<1>6. CC!Spec => CCP!Spec
  BY <1>5, SameCC, PTL DEF CC!Spec, CCP!Spec
<1> QED
  BY <1>1, <1>2, <1>3, <1>4, <1>6, SameCCInvariants, SpecUsesCC, PTL

-----------------------------------------------------------------------------
(* Slots, entries and promises. *)

\* The calls that have no postExecutePromise.
NoPromise == {"idle", "created", "reserved", "written", "refused", "dead"}

(***************************************************************************)
(* The slot of a call follows its progress: only a call inside reserve()   *)
(* waits, one that has written its status holds its slot, and after that   *)
(* the slot is held until the promise is settled.                          *)
(***************************************************************************)
SlotFollows(slot, call) ==
    /\ slot = "waiting" => call.pc = "reserved"
    /\ call.pc = "written" => slot = "held"
    /\ call.promise = "none" <=> call.pc \in NoPromise
    /\ call.promise = "pending" => slot = "held"
    /\ call.promise = "settled" => slot = "released"

SlotInv == \A c \in Calls : SlotFollows(reservation[c], run[c])

\* An entry is that of a call of its execution, registered and not settled,
\* or kept because it waits.
EntryInv ==
    \A e \in Executions : LET d == activeExecutions[e] IN
        d # None => /\ ExecutionOf[d] = e
                    /\ run[d].promise # "none"
                    /\ run[d].promise = "settled" => run[d].status = "waiting"

\* The calls between the write of their status and the write of their result.
Active == {"written", "registered", "starting", "executing", "saving"}

\* Those that may still write a row.
Writing == Active \cup {"merging", "saved", "denying", "denied", "failed", "failing"}

\* The calls that have the execution to themselves: the active ones, and those
\* that have ended it without putting it to wait.
Occupies(c) ==
    \/ run[c].pc \in Active
    \/ run[c].pc \in {"merging", "saved", "denying", "denied"} /\ run[c].result # "waiting"

(***************************************************************************)
(* The conditional update by which add() takes an execution is exclusive:  *)
(* until a late save, a call that occupies an execution is the only active *)
(* one, the row is not 'waiting' meanwhile, and none writes before the     *)
(* first run has been admitted.                                            *)
(***************************************************************************)
ActiveInv ==
    /\ \A c, d \in Calls : (/\ ExecutionOf[c] = ExecutionOf[d] /\ ~Late(ExecutionOf[c])
                            /\ Occupies(c) /\ run[d].pc \in Active) => c = d
    /\ \A c \in Calls : (Occupies(c) /\ ~Late(ExecutionOf[c])) => db[ExecutionOf[c]] # "waiting"
    /\ \A c \in Calls : run[c].pc \in {"failed", "failing", "denying", "denied"} =>
                            run[c].result = "error"
    /\ \A n \in NewCalls : run[n].pc \in {"idle", "created", "reserved"} =>
          /\ db[ExecutionOf[n]] \in {"none", "new", "canceled"}
          /\ \A c \in Calls : (ExecutionOf[c] = ExecutionOf[n] /\ c # n)
                                 => run[c].pc \notin Writing

-----------------------------------------------------------------------------
(* One active call per execution. *)

\* What was late stays late.
LateKept == \A x \in Calls : run[x].late => run'[x].late

\* The calls other than c are where they were.
OthersStay(c) ==
    /\ \A x \in Calls : x # c => run'[x].pc = run[x].pc /\ run'[x].result = run[x].result
    /\ LateKept

\* A step of call c that does not take its execution.
LEMMA ActiveStep ==
    ASSUME OwnTypeOK, ActiveInv, NEW c \in Calls,
           \/ Create(c) \/ BeginResume(c) \/ RunEnqueued(c) \/ Reserve(c) \/ RefuseResume(c)
           \/ Register(c) \/ CredentialsDenied(c) \/ RunRejected(c)
           \/ SetRunning(c) \/ Launch(c) \/ PutExecutionToWait(c) \/ Finish(c)
           \/ SaveResult(c) \/ SaveMerged(c) \/ SaveCanceled(c)
    PROVE  ActiveInv'
<1> DEFINE e == ExecutionOf[c]
<1>1. /\ e \in Executions /\ run[c] \in RunType /\ db \in [Executions -> Statuses]
      /\ run \in [Calls -> RunType]
  BY Constants DEF OwnTypeOK
<1> USE <1>1, Constants
<1>0. ASSUME OthersStay(c), run'[c].pc \in Writing => run[c].pc \in Writing,
             run'[c].pc \in Active => run[c].pc \in Active, Occupies(c)' => Occupies(c),
             run'[c].pc \in {"failed", "failing", "denying", "denied"} => run'[c].result = "error",
             run'[c].pc \in {"idle", "created", "reserved"} =>
                run[c].pc \in {"idle", "created", "reserved"},
             \/ db' = db
             \/ \E s \in {"none", "running", "success", "error", "canceled"} :
                   db' = [db EXCEPT ![e] = s] /\ (s = "canceled" \/ run[c].pc \in Writing)
             \/ db' = [db EXCEPT ![e] = "new"] /\ c \in NewCalls
             \/ /\ db' = [db EXCEPT ![e] = "waiting"] /\ run[c].pc \in Writing /\ ~Occupies(c)'
                /\ run[c].pc \in Active \/ run'[c].late \/ db[e] = "waiting"
      PROVE  ActiveInv'
  <2>1. \A x \in Executions : ~Late(x)' => ~Late(x)
    BY <1>0 DEF OthersStay, LateKept, Late
  <2>2. \A x \in Calls : /\ run'[x].pc \in Active => run[x].pc \in Active
                         /\ Occupies(x)' => Occupies(x)
                         /\ run'[x].pc \in Writing => run[x].pc \in Writing
    BY <1>0 DEF OthersStay, Occupies
  <2>3. \A x, y \in Calls : (/\ ExecutionOf[x] = ExecutionOf[y] /\ ~Late(ExecutionOf[x])'
                            /\ Occupies(x)' /\ run'[y].pc \in Active) => x = y
    BY <2>1, <2>2 DEF ActiveInv
  <2>4. ASSUME NEW x \in Calls, Occupies(x)', ~Late(ExecutionOf[x])'
        PROVE  db'[ExecutionOf[x]] # "waiting"
    <3>1. db[ExecutionOf[x]] # "waiting"
      BY <2>1, <2>2, <2>4 DEF ActiveInv
    <3>2. ASSUME db' = [db EXCEPT ![e] = "waiting"], ~Occupies(c)',
                 run[c].pc \in Active \/ run'[c].late \/ db[e] = "waiting"
          PROVE  ExecutionOf[x] # e
      <4>1. x # c
        BY <2>4, <3>2
      <4>2. CASE run[c].pc \in Active
        BY <2>1, <2>2, <2>4, <4>1, <4>2 DEF ActiveInv
      <4>3. CASE run'[c].late
        BY <2>4, <4>3 DEF Late
      <4>4. CASE db[e] = "waiting"
        BY <3>1, <4>4
      <4> QED
        BY <3>2, <4>2, <4>3, <4>4
    <3> QED
      BY <1>0, <3>1, <3>2
  <2>5. \A x \in Calls : run'[x].pc \in {"failed", "failing", "denying", "denied"} =>
                            run'[x].result = "error"
    BY <1>0 DEF OthersStay, ActiveInv
  <2>6. ASSUME NEW n \in NewCalls, run'[n].pc \in {"idle", "created", "reserved"}
        PROVE  /\ db'[ExecutionOf[n]] \in {"none", "new", "canceled"}
               /\ \A x \in Calls : (ExecutionOf[x] = ExecutionOf[n] /\ x # n)
                                      => run'[x].pc \notin Writing
    <3>1. run[n].pc \in {"idle", "created", "reserved"}
      BY <1>0, <2>6 DEF OthersStay
    <3>2. /\ db[ExecutionOf[n]] \in {"none", "new", "canceled"}
          /\ \A x \in Calls : (ExecutionOf[x] = ExecutionOf[n] /\ x # n)
                                 => run[x].pc \notin Writing
      BY <3>1 DEF ActiveInv
    <3>3. ExecutionOf[n] = e => run[c].pc \notin Writing
      BY <3>1, <3>2 DEF Writing, Active
    <3> QED
      BY <1>0, <2>2, <3>2, <3>3
  <2> QED
    BY <2>3, <2>4, <2>5, <2>6 DEF ActiveInv
<1> USE DEF Occupies, Writing, Active
<1>2. CASE Create(c)
  <2>1. OthersStay(c) /\ run'[c].pc = "created" /\ run[c].pc = "idle" /\ c \in NewCalls
           /\ db' = [db EXCEPT ![e] = "new"]
    BY <1>2 DEF Create, OthersStay, LateKept, RunType
  <2> QED
    BY <1>0, <2>1
<1>3. CASE BeginResume(c) \/ RunEnqueued(c) \/ Reserve(c) \/ RefuseResume(c)
  <2>1. /\ OthersStay(c) /\ db' = db
        /\ \/ run[c].pc = "idle" /\ run'[c].pc = "created"
           \/ run[c].pc = "created" /\ run'[c].pc = "reserved"
           \/ run'[c].pc = "refused"
    BY <1>3 DEF BeginResume, RunEnqueued, Reserve, RefuseResume, OthersStay, LateKept, RunType
  <2> QED
    BY <1>0, <2>1
<1>4. CASE Register(c) \/ RunRejected(c) \/ SetRunning(c) \/ Finish(c)
  <2>1. /\ OthersStay(c) /\ run[c].pc \in {"written", "registered", "executing"}
        /\ run'[c].pc \in {"registered", "done", "starting", "saved", "saving"}
        /\ db' = db \/ db' = [db EXCEPT ![e] = "running"]
    BY <1>4 DEF Register, RunRejected, SetRunning, Finish, OthersStay, LateKept, RunType
  <2> QED
    BY <1>0, <2>1
<1>5. CASE Launch(c)
  <2>1. OthersStay(c) /\ run[c].pc = "starting" /\ run'[c].pc = "executing" /\ db' = db
    BY <1>5 DEF Launch, OthersStay, LateKept, RunType, OwnTypeOK
  <2> QED
    BY <1>0, <2>1
<1>6. CASE PutExecutionToWait(c)
  <2>1. OthersStay(c) /\ run[c].pc = "executing" /\ run'[c].pc = "executing" /\ db' = db
    BY <1>6 DEF PutExecutionToWait, OthersStay, LateKept, RunType, OwnTypeOK
  <2> QED
    BY <1>0, <2>1
<1>7. CASE SaveResult(c)
  <2>1. PICK p \in {"merging", "saved", "failing", "done"} :
           /\ run' = [run EXCEPT ![c].pc = p] /\ db' = [db EXCEPT ![e] = run[c].result]
           /\ \/ run[c].pc = "saving" /\ p \in {"merging", "saved"}
              \/ run[c].pc = "failed" /\ p \in {"failing", "done"}
    BY <1>7 DEF SaveResult, AfterSave
  <2>2. OthersStay(c) /\ run'[c].pc = p /\ run'[c].result = run[c].result
    BY <2>1 DEF OthersStay, LateKept, RunType
  <2>3. run[c].pc = "failed" => run[c].result = "error"
    BY DEF ActiveInv
  <2>4. run[c].result \in {"none", "waiting", "success", "error"}
    BY DEF RunType
  <2> QED
    BY <1>0, <2>1, <2>2, <2>3, <2>4
<1>8. CASE SaveCanceled(c)
  <2>1. /\ OthersStay(c) /\ run'[c].pc = run[c].pc /\ run'[c].result = run[c].result
        /\ db' = [db EXCEPT ![e] = "canceled"]
    BY <1>8 DEF SaveCanceled, OthersStay, LateKept, RunType
  <2>2. run[c].pc \in {"failed", "failing", "denying", "denied"} => run[c].result = "error"
    BY DEF ActiveInv
  <2> QED
    BY <1>0, <2>1, <2>2
<1>9. CASE CredentialsDenied(c)
  <2>1. PICK p \in {"denying", "denied"} :
           /\ run' = [run EXCEPT ![c].pc = p, ![c].result = "error"]
           /\ run[c].pc = "registered" /\ db' = [db EXCEPT ![e] = "error"]
    BY <1>9, DeniedEffect
  <2>2. OthersStay(c) /\ run'[c].pc = p /\ run'[c].result = "error"
    BY <2>1 DEF OthersStay, LateKept, RunType
  <2> QED
    BY <1>0, <2>1, <2>2
<1>10. CASE SaveMerged(c)
  <2>1. PICK p \in {"saved", "denied", "done"}, l \in BOOLEAN :
           /\ run' = [run EXCEPT ![c].pc = p, ![c].late = l]
           /\ \/ run[c].pc = "merging" /\ p = "saved"
              \/ run[c].pc = "denying" /\ p = "denied"
              \/ run[c].pc = "failing" /\ p = "done"
           /\ run[c].late => l
           /\ (run[c].result = "waiting" /\ db[e] # "waiting") => l
    BY <1>10, MergedEffect
  <2>2. db' = [db EXCEPT ![e] = run[c].result]
    BY <1>10 DEF SaveMerged
  <2>3. OthersStay(c) /\ run'[c].pc = p /\ run'[c].result = run[c].result /\ run'[c].late = l
    BY <2>1 DEF OthersStay, LateKept, RunType
  <2>4. run[c].pc \in {"failing", "denying"} => run[c].result = "error"
    BY DEF ActiveInv
  <2>5. run[c].result \in {"none", "waiting", "success", "error"}
    BY DEF RunType
  <2> QED
    BY <1>0, <2>1, <2>2, <2>3, <2>4, <2>5
<1> QED
  BY <1>2, <1>3, <1>4, <1>5, <1>6, <1>7, <1>8, <1>9, <1>10

\* The write that takes the execution: the first run finds no other call
\* active, and a resumption finds the row waiting.
LEMMA ActiveWrite ==
    ASSUME OwnTypeOK, ActiveInv, NEW c \in Calls, WriteStatus(c)
    PROVE  ActiveInv'
<1> DEFINE e == ExecutionOf[c]
<1>1. /\ OthersStay(c) /\ run[c].pc = "reserved" /\ run'[c].pc = "written"
      /\ db' = [db EXCEPT ![e] = "running"] /\ e \in Executions
      /\ db \in [Executions -> Statuses]
  <2>1. run' = [run EXCEPT ![c].pc = "written"] /\ run[c].pc = "reserved"
           /\ db' = [db EXCEPT ![e] = "running"]
    BY DEF WriteStatus
  <2>2. e \in Executions /\ db \in [Executions -> Statuses] /\ run \in [Calls -> RunType]
    BY Constants DEF OwnTypeOK
  <2>3. /\ [run[c] EXCEPT !.pc = "written"].pc = "written"
        /\ [run[c] EXCEPT !.pc = "written"].late = run[c].late
    <3>1. run[c] \in RunType
      BY <2>2
    <3> QED
      BY <3>1 DEF RunType
  <2>4. run'[c] = [run[c] EXCEPT !.pc = "written"] /\ \A x \in Calls : x # c => run'[x] = run[x]
    BY <2>1, <2>2
  <2> QED
    BY <2>1, <2>2, <2>3, <2>4 DEF OthersStay, LateKept
<1>2. \A d \in Calls : (ExecutionOf[d] = e /\ d # c /\ ~Late(e)) => ~Occupies(d)
  <2>1. CASE c \in NewCalls
    BY <1>1, <2>1 DEF ActiveInv, Occupies, Writing
  <2>2. CASE db[e] = "waiting"
    BY <2>2, Constants DEF ActiveInv
  <2> QED
    BY <2>1, <2>2 DEF WriteStatus
<1>3. \A n \in NewCalls : (ExecutionOf[n] = e /\ n # c) =>
         run[n].pc \notin {"idle", "created", "reserved"}
  BY Constants DEF WriteStatus, ActiveInv
<1>4. \A x \in Executions : ~Late(x)' => ~Late(x)
  BY <1>1 DEF OthersStay, LateKept, Late
<1>5. \A x \in Calls : x # c => /\ run'[x].pc = run[x].pc /\ run'[x].result = run[x].result
                                /\ Occupies(x)' <=> Occupies(x)
  BY <1>1 DEF OthersStay, Occupies
<1>6. ASSUME NEW x \in Calls, NEW y \in Calls, ExecutionOf[x] = ExecutionOf[y],
             ~Late(ExecutionOf[x])', Occupies(x)', run'[y].pc \in Active
      PROVE  x = y
  <2>1. y # c => Occupies(y)
    BY <1>5, <1>6 DEF Occupies
  <2>2. ~Late(ExecutionOf[x])
    BY <1>4, <1>6, Constants
  <2> QED
    BY <1>2, <1>5, <1>6, <2>1, <2>2 DEF ActiveInv
<1>7. ASSUME NEW x \in Calls, Occupies(x)', ~Late(ExecutionOf[x])'
      PROVE  db'[ExecutionOf[x]] # "waiting"
  BY <1>1, <1>4, <1>5, <1>7, Constants DEF ActiveInv
<1>8. \A x \in Calls : run'[x].pc \in {"failed", "failing", "denying", "denied"} =>
                          run'[x].result = "error"
  BY <1>1, <1>5 DEF ActiveInv
<1>9. ASSUME NEW n \in NewCalls, run'[n].pc \in {"idle", "created", "reserved"}
      PROVE  /\ db'[ExecutionOf[n]] \in {"none", "new", "canceled"}
             /\ \A x \in Calls : (ExecutionOf[x] = ExecutionOf[n] /\ x # n)
                                    => run'[x].pc \notin Writing
  <2>1. n # c /\ run[n].pc \in {"idle", "created", "reserved"} /\ ExecutionOf[n] # e
    BY <1>1, <1>3, <1>5, <1>9, Constants
  <2> QED
    BY <1>1, <1>5, <2>1, Constants DEF ActiveInv
<1> QED
  BY <1>6, <1>7, <1>8, <1>9 DEF ActiveInv

\* An outcome leaves every call where the handler put it.
LEMMA OutcomeStays ==
    ASSUME NEW e, NEW r, Outcome(e, r), NEW x \in Calls
    PROVE  /\ run'[x].pc = r[x].pc /\ run'[x].result = r[x].result
           /\ run'[x].late = r[x].late
  BY DEF Outcome, Settled

\* Every step keeps it.
LEMMA NextActive == OwnTypeOK /\ ActiveInv /\ [Next]_vars => ActiveInv'
<1> SUFFICES ASSUME OwnTypeOK, ActiveInv, [Next]_vars PROVE ActiveInv'
  OBVIOUS
<1>1. ASSUME db' = db,
             \A x \in Calls : /\ run'[x].pc = run[x].pc /\ run'[x].result = run[x].result
                              /\ run'[x].late = run[x].late
      PROVE  ActiveInv'
  BY <1>1, Constants DEF ActiveInv, Occupies, Late
<1>0. ASSUME db' = db, NEW c \in Calls, OthersStay(c),
             \/ run[c].pc \in {"saved", "denied"} /\ run'[c].pc = "done"
             \/ run[c].pc = "starting" /\ run'[c].pc = "failed" /\ run'[c].result = "error"
      PROVE  ActiveInv'
  <2>1. \A x \in Calls : /\ run'[x].pc \in Active => run[x].pc \in Active
                         /\ Occupies(x)' => Occupies(x)
                         /\ run'[x].pc \in Writing => run[x].pc \in Writing
    BY <1>0 DEF OthersStay, Occupies, Active, Writing
  <2>2. \A x \in Executions : ~Late(x)' => ~Late(x)
    BY <1>0 DEF OthersStay, LateKept, Late
  <2>3. \A x \in Calls : /\ run'[x].pc \in {"idle", "created", "reserved"} =>
                               run[x].pc \in {"idle", "created", "reserved"}
                         /\ run'[x].pc \in {"failed", "failing", "denying", "denied"} =>
                               run'[x].result = "error"
    BY <1>0 DEF OthersStay, ActiveInv
  <2> QED
    BY <1>0, <2>1, <2>2, <2>3, Constants DEF ActiveInv
<1>2. ASSUME NEW c \in Calls, FinalizeExecution(c) PROVE ActiveInv'
  <2>1. /\ OthersStay(c) /\ run'[c].pc = "done" /\ db' = db
        /\ run[c].pc \in {"saved", "denied"}
    <3> DEFINE r == [run EXCEPT ![c].pc = "done"]
    <3>1. Outcome(ExecutionOf[c], r) /\ db' = db /\ run[c].pc \in {"saved", "denied"}
      BY <1>2, FinalizeEffect
    <3>2. /\ \A x \in Calls : x # c => r[x].pc = run[x].pc /\ r[x].result = run[x].result
          /\ \A x \in Calls : r[x].late = run[x].late
          /\ r[c].pc = "done"
      BY DEF OwnTypeOK, RunType
    <3> HIDE DEF r
    <3> QED
      BY <3>1, <3>2, OutcomeStays DEF OthersStay, LateKept
  <2> QED
    BY <1>0, <2>1
<1>3. ASSUME NEW c \in Calls, LaunchFails(c) PROVE ActiveInv'
  <2>1. /\ OthersStay(c) /\ run[c].pc = "starting" /\ run'[c].pc = "failed"
        /\ run'[c].result = "error" /\ db' = db
    <3> DEFINE r == [run EXCEPT ![c].pc = "failed", ![c].result = "error"]
    <3>1. Outcome(ExecutionOf[c], r) /\ db' = db /\ run[c].pc = "starting"
      BY <1>3, LaunchFailsEffect
    <3>2. /\ \A x \in Calls : x # c => r[x].pc = run[x].pc /\ r[x].result = run[x].result
          /\ \A x \in Calls : r[x].late = run[x].late
          /\ r[c].pc = "failed" /\ r[c].result = "error"
      BY DEF OwnTypeOK, RunType
    <3> HIDE DEF r
    <3> QED
      BY <3>1, <3>2, OutcomeStays DEF OthersStay, LateKept
  <2> QED
    BY <1>0, <2>1
<1>4. ASSUME NEW e \in Executions, StopExecution(e)
      PROVE  \A x \in Calls : /\ run'[x].pc = run[x].pc /\ run'[x].result = run[x].result
                              /\ run'[x].late = run[x].late
  BY <1>4, StopEffect, OutcomeStays DEF SameButCancel
<1>5. ASSUME NEW c \in Calls, TimeoutExecution(c) PROVE ActiveInv'
  BY <1>1, <1>4, <1>5, Constants DEF TimeoutExecution
<1>6. ASSUME NEW e \in Executions, StopInRegularMode(e) PROVE ActiveInv'
  BY <1>1, <1>4, <1>6 DEF StopInRegularMode
<1>7. ASSUME NEW e \in Executions, StopRead(e) PROVE ActiveInv'
  BY <1>1, <1>7 DEF StopRead
<1>8. ASSUME NEW e \in Executions, StopWrite(e) PROVE ActiveInv'
  BY <1>8, Constants DEF StopWrite, ActiveInv, OwnTypeOK, Occupies, Late
<1>9. CASE Shutdown
  BY <1>1, <1>9 DEF Shutdown
<1>10. CASE Drained
  BY <1>1, <1>10 DEF Drained
<1>11. CASE Restart
  <2>1. \A x \in Calls : /\ run'[x].pc \in {"idle", "dead"}
                         /\ run'[x].pc = "idle" => run[x].pc = "idle"
    BY <1>11 DEF Restart, IdleRun
  <2>2. db' = db
    BY <1>11 DEF Restart
  <2> QED
    BY <2>1, <2>2, Constants DEF ActiveInv, Active, Occupies, Writing
<1>12. CASE UNCHANGED vars
  BY <1>1, <1>12 DEF vars
<1> QED
  BY <1>2, <1>3, <1>5, <1>6, <1>7, <1>8, <1>9, <1>10, <1>11, <1>12, ActiveStep, ActiveWrite
     DEF Next, Step

LEMMA InitActive == Init => ActiveInv
  BY Constants, IdleRunType DEF Init, ActiveInv, Active, Occupies, Writing

\* At most one active call means at most one engine.
LEMMA ActiveOneEngine == ActiveInv => OneEngine
<1> SUFFICES ASSUME ActiveInv, NEW e \in Executions, ~Late(e)
             PROVE  Cardinality(Engines(e)) <= 1
  BY DEF OneEngine
<1>1. \A c, d \in Engines(e) : c = d
  BY DEF Engines, ActiveInv, Occupies, Active
<1>2. CASE Engines(e) = {}
  BY <1>2, FS_EmptySet
<1>3. CASE Engines(e) # {}
  <2>1. PICK c : c \in Engines(e)
    BY <1>3
  <2>2. Engines(e) = {c}
    BY <1>1, <2>1
  <2> QED
    <3>1. Cardinality({c}) = 1
      BY FS_Singleton
    <3> QED
      BY <2>2, <3>1
<1> QED
  BY <1>2, <1>3

(***************************************************************************)
(* However first run, resumptions, stops, timeouts and restarts interleave,*)
(* the row of the execution lets one call at a time run it, as long as no  *)
(* second save of hookFunctionsSave has put 'waiting' over another status. *)
(***************************************************************************)
THEOREM EngineIsUnique == Spec => []OneEngine
  BY InitOwnType, NextOwnType, InitActive, NextActive, ActiveOneEngine, PTL DEF Spec

-----------------------------------------------------------------------------
(* What the operations of the concurrency control do to the reservations. *)

LEMMA ReserveEffect ==
    ASSUME CC!TypeOK, NEW c \in Calls, CC!Reserve(c)
    PROVE  /\ reservation'[c] \in {"held", "waiting"}
           /\ \A x \in Calls : x # c => reservation'[x] = reservation[x]
  BY DEF CC!TypeOK, CC!Reserve, CC!EnqueueAdmitted, CC!EnqueueThrottled

\* The first of a queue that is not empty is a call that waits.
LEMMA HeadWaits ==
    ASSUME CC!TypeOK, CC!QueuedOnce, NEW q \in CC!Queues, queue[q] # <<>>
    PROVE  Head(queue[q]) \in Calls /\ reservation[Head(queue[q])] = "waiting"
<1>1. queue[q] \in Seq(Calls)
  BY DEF CC!TypeOK
<1>2. 1 \in DOMAIN queue[q] /\ Head(queue[q]) = queue[q][1] /\ Head(queue[q]) \in Calls
  BY <1>1, HeadTailProperties, LenProperties
<1> QED
  BY <1>2 DEF CC!QueuedOnce

\* release() gives the slot to nobody but a call that waits.
LEMMA ReleaseEffect ==
    ASSUME CC!TypeOK, CC!QueuedOnce, NEW d \in Calls, CC!Release(d)
    PROVE  /\ reservation[d] = "held" /\ reservation'[d] = "released"
           /\ \A x \in Calls : x # d =>
                 \/ reservation'[x] = reservation[x]
                 \/ reservation[x] = "waiting" /\ reservation'[x] = "held"
<1> DEFINE after == [reservation EXCEPT ![d] = "released"]
           q == CC!QueueOf(d)
<1>1. reservation[d] = "held" /\ reservation \in [Calls -> CC!ReservationStates]
  BY DEF CC!Release, CC!TypeOK
<1>2. CASE reservation' = after
  BY <1>1, <1>2
<1>3. CASE q \in CC!Queues /\ CC!GiveBack(q, queue[q], after)
  <2>1. CASE queue[q] = <<>>
    BY <1>2, <1>3, <2>1 DEF CC!GiveBack
  <2>2. CASE queue[q] # <<>>
    <3> DEFINE h == Head(queue[q])
    <3>1. h \in Calls /\ reservation[h] = "waiting"
      BY <1>3, <2>2, HeadWaits
    <3>2. reservation' = [after EXCEPT ![h] = "held"]
      BY <1>3, <2>2 DEF CC!GiveBack
    <3> HIDE DEF h
    <3> QED
      BY <1>1, <3>1, <3>2
  <2> QED
    BY <2>1, <2>2
<1> QED
  BY <1>2, <1>3 DEF CC!Release, CC!isUnlimited

\* remove() touches calls that wait, and no other.
LEMMA RemoveEffect ==
    ASSUME CC!TypeOK, CC!QueuedOnce, NEW e \in Executions, CC!RemoveExecution(e)
    PROVE  \A x \in Calls : \/ reservation'[x] = reservation[x]
                            \/ /\ reservation[x] = "waiting"
                               /\ reservation'[x] \in {"held", "dropped"}
<1>1. PICK q \in CC!Queues : \E i \in DOMAIN queue[q] :
         CC!GiveBack(q, CC!RemoveAt(queue[q], i), [reservation EXCEPT ![queue[q][i]] = "dropped"])
  BY DEF CC!RemoveExecution
<1>2. PICK m \in DOMAIN queue[q] :
         CC!GiveBack(q, CC!RemoveAt(queue[q], m), [reservation EXCEPT ![queue[q][m]] = "dropped"])
  BY <1>1
<1> DEFINE z == queue[q][m]
           rest == CC!RemoveAt(queue[q], m)
           after == [reservation EXCEPT ![z] = "dropped"]
<1>3. /\ queue[q] \in Seq(Calls) /\ z \in Calls /\ reservation[z] = "waiting"
      /\ reservation \in [Calls -> CC!ReservationStates] /\ m \in 1..Len(queue[q])
      /\ Len(queue[q]) \in Nat
  BY LenProperties DEF CC!TypeOK, CC!QueuedOnce
<1>4. /\ rest \in Seq(Calls) /\ Len(rest) = Len(queue[q]) - 1
      /\ \A k \in 1..(Len(queue[q]) - 1) :
            rest[k] = IF k < m THEN queue[q][k] ELSE queue[q][k + 1]
  <2>1. rest = CCP!RemoveAt(queue[q], m)
    BY DEF CC!RemoveAt, CCP!RemoveAt
  <2> DEFINE s == queue[q]
  <2>2. s \in Seq(Calls) /\ m \in DOMAIN s
    BY <1>3
  <2> HIDE DEF s, rest
  <2>3. /\ CCP!RemoveAt(s, m) \in Seq(Calls) /\ Len(CCP!RemoveAt(s, m)) = Len(s) - 1
        /\ \A k \in 1..(Len(s) - 1) :
              CCP!RemoveAt(s, m)[k] = IF k < m THEN s[k] ELSE s[k + 1]
    BY <2>2, CCConstants, CCP!RemoveAtIs
  <2> QED
    BY <2>1, <2>3 DEF s
<1> HIDE DEF rest, z
<1>5. CASE rest = <<>>
  BY <1>2, <1>3, <1>5 DEF CC!GiveBack, rest, z
<1>6. CASE rest # <<>>
  <2>1. /\ Head(rest) = rest[1] /\ Len(rest) \in Nat \ {0}
    <3>1. Head(rest) = rest[1] /\ Len(rest) \in Nat
      BY <1>4, <1>6, HeadTailProperties, LenProperties
    <3>2. Len(rest) # 0
      BY <1>4, <1>6, EmptySeq
    <3> QED
      BY <3>1, <3>2
  <2>2. 1 \in 1..(Len(queue[q]) - 1)
    <3> DEFINE n == Len(queue[q])
    <3>1. n \in Nat /\ n - 1 \in Nat \ {0}
      BY <1>3, <1>4, <2>1
    <3> HIDE DEF n
    <3>2. 1 \in 1..(n - 1)
      BY <3>1
    <3> QED
      BY <3>2 DEF n
  <2> DEFINE k == IF 1 < m THEN 1 ELSE 2
  <2>3. rest[1] = queue[q][k] /\ k \in DOMAIN queue[q]
    BY <1>3, <1>4, <2>2
  <2>4. rest[1] \in Calls /\ reservation[rest[1]] = "waiting"
    BY <1>3, <2>3 DEF CC!QueuedOnce
  <2>5. reservation' = [after EXCEPT ![rest[1]] = "held"]
    BY <1>2, <1>6, <2>1 DEF CC!GiveBack, rest, z
  <2> QED
    BY <1>3, <2>4, <2>5
<1> QED
  BY <1>5, <1>6

-----------------------------------------------------------------------------
(* Slots and entries follow the promises. *)

\* No promise is touched but that of c, and a status only becomes 'waiting'.
PromisesStay(c) ==
    /\ \A x \in Calls : x # c => run'[x].pc = run[x].pc /\ run'[x].promise = run[x].promise
    /\ \A x \in Calls : run'[x].status = run[x].status \/ run'[x].status = "waiting"

\* Steps of a call that reserve or release nothing.
LEMMA SlotStep ==
    ASSUME OwnTypeOK, SlotInv, EntryInv, NEW c \in Calls,
           \/ Create(c) \/ BeginResume(c) \/ RunEnqueued(c) \/ WriteStatus(c)
           \/ CredentialsDenied(c) \/ RunRejected(c)
           \/ SetRunning(c) \/ Launch(c) \/ PutExecutionToWait(c) \/ Finish(c)
           \/ SaveResult(c) \/ SaveMerged(c) \/ SaveCanceled(c)
    PROVE  SlotInv' /\ EntryInv'
<1>1. /\ run[c] \in RunType /\ run \in [Calls -> RunType]
      /\ activeExecutions \in [Executions -> Calls \cup {None}]
      /\ SlotFollows(reservation[c], run[c])
      /\ ExecutionOf[c] \in Executions
  BY Constants DEF OwnTypeOK, SlotInv
<1> USE <1>1
<1>2. /\ UNCHANGED <<reservation, activeExecutions>>
      /\ PromisesStay(c) /\ run'[c].promise = run[c].promise
      /\ \/ run[c].pc = "idle" /\ run'[c].pc = "created"
         \/ run[c].pc = "reserved" /\ reservation[c] = "held" /\ run'[c].pc = "written"
         \/ run[c].pc \notin NoPromise /\ run'[c].pc \notin NoPromise
         \/ run'[c].pc = run[c].pc
  <2>1. CASE Create(c) \/ BeginResume(c) \/ RunEnqueued(c)
    BY <2>1 DEF Create, BeginResume, RunEnqueued, PromisesStay, RunType, ccVars
  <2>2. CASE WriteStatus(c)
    BY <2>2 DEF WriteStatus, PromisesStay, RunType, ccVars
  <2>3. CASE RunRejected(c) \/ SetRunning(c) \/ Finish(c)
    BY <2>3 DEF RunRejected, SetRunning, Finish, PromisesStay, RunType, ccVars, NoPromise
  <2>8. CASE CredentialsDenied(c)
    <3>1. PICK p \in {"denying", "denied"} : run' = [run EXCEPT ![c].pc = p, ![c].result = "error"]
      BY <2>8, DeniedEffect
    <3>2. UNCHANGED <<ccVars, activeExecutions>> /\ run[c].pc = "registered"
      BY <2>8, DeniedEffect
    <3> QED
      BY <3>1, <3>2 DEF PromisesStay, RunType, ccVars, NoPromise
  <2>4. CASE Launch(c)
    <3> DEFINE d == activeExecutions[ExecutionOf[c]]
    <3>1. /\ d = None \/ d \in Calls
          /\ run[c].pc = "starting" /\ UNCHANGED <<ccVars, activeExecutions>>
          /\ run' = IF d = None THEN [run EXCEPT ![c].pc = "executing"]
                    ELSE [run EXCEPT ![c].pc = "executing", ![c].attached = TRUE,
                                     ![d].engine = c]
      BY <2>4 DEF Launch
    <3> HIDE DEF d
    <3> QED
      BY <3>1 DEF PromisesStay, RunType, ccVars, NoPromise
  <2>5. CASE PutExecutionToWait(c)
    <3> DEFINE d == activeExecutions[ExecutionOf[c]]
    <3>1. /\ d \in Calls
          /\ run[c].pc = "executing" /\ UNCHANGED <<ccVars, activeExecutions>>
          /\ run' = [run EXCEPT ![c].result = "waiting", ![d].status = "waiting"]
      BY <2>5 DEF PutExecutionToWait
    <3> HIDE DEF d
    <3> QED
      BY <3>1 DEF PromisesStay, RunType, ccVars, NoPromise
  <2>6. CASE SaveResult(c) \/ SaveCanceled(c)
    BY <2>6 DEF SaveResult, SaveCanceled, AfterSave, PromisesStay, RunType, ccVars, NoPromise
  <2>7. CASE SaveMerged(c)
    <3>1. PICK p \in {"saved", "denied", "done"}, l \in BOOLEAN :
             run' = [run EXCEPT ![c].pc = p, ![c].late = l]
      BY <2>7, MergedEffect
    <3>2. UNCHANGED <<ccVars, activeExecutions>> /\ run[c].pc \in {"merging", "denying", "failing"}
      BY <2>7 DEF SaveMerged
    <3> QED
      BY <3>1, <3>2 DEF PromisesStay, RunType, ccVars, NoPromise
  <2> QED
    BY <2>1, <2>2, <2>3, <2>4, <2>5, <2>6, <2>7, <2>8
<1>3. SlotFollows(reservation[c], run'[c])
  BY <1>2 DEF SlotFollows, NoPromise
<1>4. ASSUME NEW x \in Calls PROVE SlotFollows(reservation'[x], run'[x])
  BY <1>2, <1>3 DEF PromisesStay, SlotInv, SlotFollows
<1>5. EntryInv'
  BY <1>2 DEF EntryInv, PromisesStay
<1> QED
  BY <1>4, <1>5 DEF SlotInv

\* A call that was let through, or dropped, was inside reserve().
LEMMA AdmittedWasWaiting ==
    ASSUME NEW call, SlotFollows("waiting", call), NEW slot \in {"held", "dropped"}
    PROVE  SlotFollows(slot, call)
  BY DEF SlotFollows, NoPromise

\* reserve(), and the release of a refused resumption.
LEMMA SlotReserve ==
    ASSUME OwnTypeOK, CC!TypeOK, CC!QueuedOnce, SlotInv, EntryInv, NEW c \in Calls,
           Reserve(c) \/ RefuseResume(c)
    PROVE  SlotInv' /\ EntryInv'
<1>1. /\ run[c] \in RunType /\ run \in [Calls -> RunType]
      /\ activeExecutions \in [Executions -> Calls \cup {None}]
      /\ SlotFollows(reservation[c], run[c])
  BY DEF OwnTypeOK, SlotInv
<1>2. /\ UNCHANGED activeExecutions /\ PromisesStay(c) /\ run'[c].promise = run[c].promise
      /\ \/ run[c].pc = "created" /\ run'[c].pc = "reserved" /\ CC!Reserve(c)
         \/ run[c].pc = "reserved" /\ run'[c].pc = "refused" /\ CC!Release(c)
  BY <1>1 DEF Reserve, RefuseResume, PromisesStay, RunType
<1>3. /\ run[c].pc = "created" => reservation'[c] \in {"held", "waiting"}
      /\ run[c].pc = "reserved" => reservation'[c] = "released"
      /\ \A x \in Calls : x # c => \/ reservation'[x] = reservation[x]
                                   \/ reservation[x] = "waiting" /\ reservation'[x] = "held"
  BY <1>2, ReserveEffect, ReleaseEffect
<1>4. SlotFollows(reservation'[c], run'[c])
  BY <1>1, <1>2, <1>3 DEF SlotFollows, NoPromise
<1>5. ASSUME NEW x \in Calls, x # c PROVE SlotFollows(reservation'[x], run'[x])
  <2>1. SlotFollows(reservation[x], run'[x])
    BY <1>2, <1>5 DEF SlotInv, SlotFollows, PromisesStay
  <2> QED
    BY <1>3, <1>5, <2>1, AdmittedWasWaiting
<1>6. EntryInv'
  BY <1>1, <1>2 DEF EntryInv, PromisesStay
<1> QED
  BY <1>4, <1>5, <1>6 DEF SlotInv

\* Registration: the call holds its slot, its promise is pending.
LEMMA SlotRegister ==
    ASSUME OwnTypeOK, SlotInv, EntryInv, NEW c \in Calls, Register(c)
    PROVE  SlotInv' /\ EntryInv'
<1>1. /\ run[c] \in RunType /\ run \in [Calls -> RunType]
      /\ activeExecutions \in [Executions -> Calls \cup {None}]
      /\ SlotFollows(reservation[c], run[c])
      /\ ExecutionOf[c] \in Executions
  BY Constants DEF OwnTypeOK, SlotInv
<1>2. /\ UNCHANGED reservation /\ run[c].pc = "written"
      /\ activeExecutions' = [activeExecutions EXCEPT ![ExecutionOf[c]] = c]
      /\ PromisesStay(c) /\ run'[c].pc = "registered" /\ run'[c].promise = "pending"
  BY <1>1 DEF Register, PromisesStay, RunType, ccVars
<1>3. reservation[c] = "held" /\ SlotFollows(reservation'[c], run'[c])
  BY <1>1, <1>2 DEF SlotFollows, NoPromise
<1>4. ASSUME NEW x \in Calls PROVE SlotFollows(reservation'[x], run'[x])
  BY <1>2, <1>3 DEF SlotInv, SlotFollows, PromisesStay
<1>5. EntryInv'
  BY <1>1, <1>2, Constants DEF EntryInv, PromisesStay
<1> QED
  BY <1>4, <1>5 DEF SlotInv

(***************************************************************************)
(* What a handler did to the calls, r, before finalizeExecution or         *)
(* stopExecution: a call that has a promise may have moved on.             *)
(***************************************************************************)
Moved(r) ==
    /\ r \in [Calls -> RunType]
    /\ \A x \in Calls : /\ r[x].promise = run[x].promise /\ r[x].status = run[x].status
                        /\ r[x].pc \in NoPromise <=> run[x].pc \in NoPromise
                        /\ r[x].pc \in NoPromise => r[x].pc = run[x].pc

\* An outcome keeps slots and entries in step with the promises: the one
\* promise that settles is that of an entry, and its slot is given back.
LEMMA SlotOutcome ==
    ASSUME OwnTypeOK, CC!TypeOK, CC!QueuedOnce, SlotInv, EntryInv,
           NEW e \in Executions, NEW r, Moved(r), Outcome(e, r)
    PROVE  SlotInv' /\ EntryInv'
<1>1. activeExecutions \in [Executions -> Calls \cup {None}]
  BY DEF OwnTypeOK
<1>2. ASSUME NEW x \in Calls PROVE SlotFollows(reservation[x], r[x])
  BY DEF Moved, SlotInv, SlotFollows, NoPromise
<1>3. CASE run' = r /\ UNCHANGED ccVars /\ (activeExecutions' = activeExecutions
              \/ activeExecutions' = [activeExecutions EXCEPT ![e] = None])
  <2>1. SlotInv'
    BY <1>2, <1>3 DEF SlotInv, ccVars
  <2>2. EntryInv'
    BY <1>1, <1>3 DEF EntryInv, Moved
  <2> QED
    BY <2>1, <2>2
<1>4. CASE activeExecutions[e] \in Calls /\ Settled(activeExecutions[e], r)
  <2> DEFINE d == activeExecutions[e]
  <2>1. /\ d \in Calls /\ d # None /\ Settled(d, r) /\ ExecutionOf[d] = e
    BY <1>4, Constants DEF EntryInv
  <2> HIDE DEF d
  <2>2. /\ reservation'[d] = "released"
        /\ \A x \in Calls : x # d => \/ reservation'[x] = reservation[x]
                                     \/ reservation[x] = "waiting" /\ reservation'[x] = "held"
    BY <2>1, ReleaseEffect DEF Settled
  <2>3. /\ r[d].promise = "pending" /\ run'[d].promise = "settled"
        /\ run'[d].pc = r[d].pc /\ run'[d].status = r[d].status
        /\ \A x \in Calls : x # d => run'[x] = r[x]
    BY <2>1 DEF Settled
  <2>4. SlotFollows(reservation'[d], run'[d])
    BY <1>2, <2>1, <2>2, <2>3 DEF SlotFollows, NoPromise
  <2>5. ASSUME NEW x \in Calls, x # d PROVE SlotFollows(reservation'[x], run'[x])
    BY <1>2, <2>2, <2>3, <2>5, AdmittedWasWaiting
  <2>6. SlotInv'
    BY <2>4, <2>5 DEF SlotInv
  <2>7. IF r[d].status = "waiting" THEN activeExecutions' = activeExecutions
        ELSE activeExecutions' = [activeExecutions EXCEPT ![e] = None]
    BY <2>1 DEF Settled
  <2>8. ASSUME NEW f \in Executions, activeExecutions'[f] # None
        PROVE  /\ ExecutionOf[activeExecutions'[f]] = f
               /\ run'[activeExecutions'[f]].promise # "none"
               /\ run'[activeExecutions'[f]].promise = "settled" =>
                     run'[activeExecutions'[f]].status = "waiting"
    <3> DEFINE x == activeExecutions[f]
    <3>1. activeExecutions'[f] = x /\ x \in Calls /\ x # None
      BY <1>1, <2>7, <2>8
    <3>2. /\ ExecutionOf[x] = f /\ run[x].promise # "none"
          /\ run[x].promise = "settled" => run[x].status = "waiting"
      BY <3>1 DEF EntryInv
    <3>3. CASE x = d
      <4>1. e = f /\ r[d].status = "waiting"
        BY <1>1, <2>1, <2>7, <2>8, <3>2, <3>3
      <4> QED
        BY <2>3, <3>1, <3>2, <3>3, <4>1
    <3>4. CASE x # d
      BY <2>3, <3>1, <3>2, <3>4 DEF Moved
    <3> QED
      BY <3>3, <3>4
  <2>9. EntryInv'
    BY <2>8 DEF EntryInv
  <2> QED
    BY <2>6, <2>9
<1> QED
  BY <1>3, <1>4 DEF Outcome

\* finalizeExecution, stopExecution and the timer.
LEMMA SlotEnd ==
    ASSUME OwnTypeOK, CC!TypeOK, CC!QueuedOnce, SlotInv, EntryInv
    PROVE  /\ \A c \in Calls : FinalizeExecution(c) => SlotInv' /\ EntryInv'
           /\ \A c \in Calls : LaunchFails(c) => SlotInv' /\ EntryInv'
           /\ \A e \in Executions : StopExecution(e) => SlotInv' /\ EntryInv'
<1>1. ASSUME NEW c \in Calls, FinalizeExecution(c) PROVE SlotInv' /\ EntryInv'
  <2> DEFINE r == [run EXCEPT ![c].pc = "done"]
  <2>1. /\ r \in [Calls -> RunType] /\ run[c].pc \in {"saved", "denied"}
        /\ Outcome(ExecutionOf[c], r)
    BY <1>1, FinalizeEffect
  <2>2. Moved(r)
    BY <2>1 DEF Moved, OwnTypeOK, RunType, NoPromise
  <2> HIDE DEF r
  <2> QED
    BY <2>1, <2>2, SlotOutcome, Constants
<1>2. ASSUME NEW c \in Calls, LaunchFails(c) PROVE SlotInv' /\ EntryInv'
  <2> DEFINE r == [run EXCEPT ![c].pc = "failed", ![c].result = "error"]
  <2>1. /\ r \in [Calls -> RunType] /\ run[c].pc = "starting"
        /\ Outcome(ExecutionOf[c], r)
    BY <1>2, LaunchFailsEffect
  <2>2. Moved(r)
    BY <2>1 DEF Moved, OwnTypeOK, RunType, NoPromise
  <2> HIDE DEF r
  <2> QED
    BY <2>1, <2>2, SlotOutcome, Constants
<1>3. ASSUME NEW e \in Executions, StopExecution(e) PROVE SlotInv' /\ EntryInv'
  <2>1. PICK r : SameButCancel(r) /\ Outcome(e, r)
    BY <1>3, StopEffect
  <2>2. Moved(r)
    BY <2>1 DEF Moved, SameButCancel
  <2> QED
    BY <2>1, <2>2, SlotOutcome
<1> QED
  BY <1>1, <1>2, <1>3

\* Every step keeps slots and entries in step with the promises.
LEMMA NextSlot ==
    OwnTypeOK /\ CC!TypeOK /\ CC!QueuedOnce /\ SlotInv /\ EntryInv /\ [Next]_vars
       => SlotInv' /\ EntryInv'
<1> SUFFICES ASSUME OwnTypeOK, CC!TypeOK, CC!QueuedOnce, SlotInv, EntryInv, [Next]_vars
             PROVE  SlotInv' /\ EntryInv'
  OBVIOUS
<1>1. ASSUME UNCHANGED <<reservation, run, activeExecutions>> PROVE SlotInv' /\ EntryInv'
  BY <1>1 DEF SlotInv, EntryInv
<1>2. ASSUME NEW c \in Calls, TimeoutExecution(c) PROVE SlotInv' /\ EntryInv'
  BY <1>2, SlotEnd, Constants DEF TimeoutExecution
<1>3. ASSUME NEW e \in Executions, StopInRegularMode(e) PROVE SlotInv' /\ EntryInv'
  <2>1. CASE StopExecution(e)
    BY <2>1, SlotEnd
  <2>2. CASE CC!RemoveExecution(e) /\ UNCHANGED <<run, activeExecutions>>
    <3>1. ASSUME NEW x \in Calls PROVE SlotFollows(reservation'[x], run'[x])
      BY <2>2, RemoveEffect, AdmittedWasWaiting DEF SlotInv
    <3>2. EntryInv'
      BY <2>2 DEF EntryInv
    <3> QED
      BY <3>1, <3>2 DEF SlotInv
  <2> QED
    BY <1>3, <2>1, <2>2 DEF StopInRegularMode
<1>4. ASSUME NEW e \in Executions, StopRead(e) \/ StopWrite(e) PROVE SlotInv' /\ EntryInv'
  BY <1>1, <1>4 DEF StopRead, StopWrite, ccVars
<1>5. CASE Shutdown
  <2>1. UNCHANGED <<reservation, run>>
    BY <1>5 DEF Shutdown, CC!Disable, ccVars
  <2>2. \A e \in Executions : activeExecutions'[e] \in {activeExecutions[e], None}
    BY <1>5 DEF Shutdown
  <2> QED
    BY <2>1, <2>2 DEF SlotInv, EntryInv
<1>6. CASE Drained
  BY <1>1, <1>6 DEF Drained, ccVars
<1>7. CASE Restart
  <2>1. ASSUME NEW x \in Calls
        PROVE  /\ reservation'[x] # "waiting"
               /\ run'[x].pc \in {"idle", "dead"} /\ run'[x].promise = "none"
    BY <1>7 DEF Restart, CC!Restart, IdleRun
  <2>2. SlotInv'
    BY <2>1 DEF SlotInv, SlotFollows, NoPromise
  <2>3. EntryInv'
    BY <1>7 DEF Restart, EntryInv
  <2> QED
    BY <2>2, <2>3
<1>8. CASE UNCHANGED vars
  BY <1>1, <1>8 DEF vars, ccVars
<1> QED
  BY <1>2, <1>3, <1>4, <1>5, <1>6, <1>7, <1>8, SlotStep, SlotReserve, SlotRegister, SlotEnd
     DEF Next, Step

LEMMA InitSlot == Init => SlotInv /\ EntryInv
<1> SUFFICES ASSUME Init PROVE SlotInv /\ EntryInv
  OBVIOUS
<1>1. \A c \in Calls : run[c] = IdleRun /\ reservation[c] = "idle"
  BY DEF Init, CC!Init
<1>2. SlotInv
  BY <1>1, IdleRunType DEF SlotInv, SlotFollows, NoPromise
<1>3. EntryInv
  BY DEF Init, EntryInv
<1> QED
  BY <1>2, <1>3

LEMMA SlotsFollow == OwnTypeOK /\ SlotInv /\ EntryInv => SlotAndEntryFollowPromise
<1> SUFFICES ASSUME OwnTypeOK, SlotInv, EntryInv PROVE SlotAndEntryFollowPromise
  OBVIOUS
<1>1. ASSUME NEW c \in Calls, run[c].promise # "none"
      PROVE  run[c].promise = "pending" <=> reservation[c] = "held"
  <2>1. run[c].promise \in {"pending", "settled"}
    BY <1>1 DEF OwnTypeOK, RunType
  <2>2. SlotFollows(reservation[c], run[c])
    BY DEF SlotInv
  <2> QED
    BY <2>1, <2>2 DEF SlotFollows
<1> QED
  BY <1>1 DEF EntryInv, SlotAndEntryFollowPromise

(***************************************************************************)
(* The types of the registry, the calls, the rows and the reservations.    *)
(***************************************************************************)
THEOREM TypeCorrect == Spec => []TypeOK
<1>1. OwnTypeOK /\ CC!TypeOK => TypeOK
  BY DEF OwnTypeOK, TypeOK
<1> QED
  BY InitOwnType, NextOwnType, SlotsAreAccounted, <1>1, PTL DEF Spec

(***************************************************************************)
(* From registration to the settling of its promise, and no longer, a call *)
(* holds its slot, and the registry keeps no entry of a settled run unless *)
(* it waits: for any executions, calls and limits, through every stop,     *)
(* timeout, denial, failed start, shutdown and restart.                    *)
(***************************************************************************)
THEOREM SlotsAndEntriesFollow == Spec => []SlotAndEntryFollowPromise
<1>1. Spec => []OwnTypeOK
  BY InitOwnType, NextOwnType, PTL DEF Spec
<1> QED
  BY <1>1, InitSlot, NextSlot, SlotsFollow, SlotsAreAccounted, PTL DEF Spec

\* An active call excludes a waiting row.
LEMMA ActiveAtRest == OwnTypeOK /\ ActiveInv => WaitingIsAtRest
  BY DEF ActiveInv, Active, Occupies, WaitingIsAtRest, Engines

(***************************************************************************)
(* A row that says 'waiting', unless a late save wrote it, is that of an   *)
(* execution no engine runs.                                               *)
(***************************************************************************)
THEOREM WaitingRowsAreAtRest == Spec => []WaitingIsAtRest
  BY InitOwnType, NextOwnType, InitActive, NextActive, ActiveAtRest, PTL DEF Spec

-----------------------------------------------------------------------------
(* Promises and entries. *)

\* The promise of the call has still to be settled, it was not put to wait,
\* and no late save has let another call in.
Tracked(c) ==
    run[c].promise = "pending" /\ run[c].status = "running" /\ ~Late(ExecutionOf[c])

(***************************************************************************)
(* What is known of a call whose promise has still to settle: its entry is *)
(* there, and its progress will reach finalizeExecution with the handler   *)
(* attached.  As its result is not 'waiting' it occupies the execution     *)
(* until then, so that nobody can resume it and overwrite the entry.       *)
(***************************************************************************)
TrackedOK(c) ==
    /\ activeExecutions[ExecutionOf[c]] = c
    /\ run[c].pc \in {"registered", "starting", "executing", "saving", "merging", "saved",
                      "denying", "denied"}
    /\ run[c].pc \in {"executing", "saving", "merging", "saved"} => run[c].attached
    /\ run[c].result # "waiting"

\* A call that has not been registered has no result, and none is registered
\* before the first call of its execution.
FreshInv ==
    /\ \A c \in Calls : run[c].pc \in {"idle", "created", "reserved", "written"}
                            => run[c].result # "waiting"
    /\ \A n \in NewCalls : run[n].pc \in {"idle", "created", "reserved"} =>
          \A c \in Calls : ExecutionOf[c] = ExecutionOf[n] => run[c].promise = "none"

PendingInv == FreshInv /\ \A c \in Calls : Tracked(c) => TrackedOK(c)

\* The calls other than c are where they were, but may be marked as waiting.
OthersKept(c) ==
    /\ \A x \in Calls : x # c =>
          /\ run'[x].pc = run[x].pc /\ run'[x].promise = run[x].promise
          /\ run'[x].result = run[x].result /\ run'[x].attached = run[x].attached
          /\ run'[x].status = run[x].status \/ run'[x].status = "waiting"
    /\ LateKept

LEMMA LateStays == ASSUME LateKept, NEW e PROVE ~Late(e)' => ~Late(e)
  BY DEF LateKept, Late

\* While a call of the execution is active, no other call of it is tracked.
LEMMA ActiveIsAlone ==
    ASSUME ActiveInv, PendingInv, NEW c \in Calls, run[c].pc \in Active,
           NEW d \in Calls, d # c, ExecutionOf[d] = ExecutionOf[c]
    PROVE  ~Tracked(d)
<1> SUFFICES ASSUME Tracked(d) PROVE FALSE
  OBVIOUS
<1>1. Occupies(d) /\ ~Late(ExecutionOf[d])
  BY DEF PendingInv, TrackedOK, Tracked, Occupies, Active
<1> QED
  BY <1>1 DEF ActiveInv

\* A step of c that leaves the registry alone keeps the other calls tracked.
LEMMA PendingFrame ==
    ASSUME PendingInv, NEW c \in Calls, OthersKept(c),
           activeExecutions' = activeExecutions,
           FreshInv', Tracked(c)' => TrackedOK(c)'
    PROVE  PendingInv'
<1> SUFFICES ASSUME NEW x \in Calls, x # c, Tracked(x)' PROVE TrackedOK(x)'
  BY DEF PendingInv
<1>1. Tracked(x) /\ TrackedOK(x)
  BY LateStays DEF OthersKept, Tracked, PendingInv
<1>2. /\ run'[x].pc = run[x].pc /\ run'[x].result = run[x].result
      /\ run'[x].attached = run[x].attached
  BY DEF OthersKept
<1> QED
  BY <1>1, <1>2 DEF TrackedOK

\* The steps before a call writes its status, and a refusal.
LEMMA PendingStart ==
    ASSUME OwnTypeOK, ActiveInv, SlotInv, PendingInv, NEW c \in Calls,
           Create(c) \/ BeginResume(c) \/ RunEnqueued(c) \/ Reserve(c) \/ RefuseResume(c)
    PROVE  PendingInv'
<1>1. /\ run[c] \in RunType /\ run \in [Calls -> RunType] /\ SlotFollows(reservation[c], run[c])
  BY DEF OwnTypeOK, SlotInv
<1>2. /\ OthersKept(c) /\ activeExecutions' = activeExecutions
      /\ run'[c].promise = run[c].promise /\ run'[c].result = run[c].result
      /\ run[c].pc \in {"idle", "created", "reserved"}
      /\ \/ run'[c].pc \in {"created", "reserved"}
         \/ run'[c].pc = "refused"
  BY <1>1 DEF Create, BeginResume, RunEnqueued, Reserve, RefuseResume, OthersKept, LateKept,
     RunType
<1>3. run[c].promise = "none" /\ ~Tracked(c)'
  BY <1>1, <1>2 DEF SlotFollows, NoPromise, Tracked
<1>4. FreshInv'
  BY <1>2, <1>3, Constants DEF PendingInv, FreshInv, OthersKept
<1> QED
  BY <1>2, <1>3, <1>4, PendingFrame

\* The write that takes the execution.
LEMMA PendingWrite ==
    ASSUME OwnTypeOK, SlotInv, PendingInv, NEW c \in Calls, WriteStatus(c)
    PROVE  PendingInv'
<1>1. /\ run[c] \in RunType /\ run \in [Calls -> RunType] /\ SlotFollows(reservation[c], run[c])
  BY DEF OwnTypeOK, SlotInv
<1>2. /\ OthersKept(c) /\ activeExecutions' = activeExecutions
      /\ run'[c].promise = run[c].promise /\ run'[c].result = run[c].result
      /\ run[c].pc = "reserved" /\ run'[c].pc = "written"
  BY <1>1 DEF WriteStatus, OthersKept, LateKept, RunType
<1>3. run[c].promise = "none" /\ ~Tracked(c)'
  BY <1>1, <1>2 DEF SlotFollows, NoPromise, Tracked
<1>4. FreshInv'
  BY <1>2, <1>3, Constants DEF PendingInv, FreshInv, OthersKept
<1> QED
  BY <1>2, <1>3, <1>4, PendingFrame

\* Registration overwrites no entry of a tracked call.
LEMMA PendingRegister ==
    ASSUME OwnTypeOK, ActiveInv, SlotInv, PendingInv, NEW c \in Calls, Register(c)
    PROVE  PendingInv'
<1>1. /\ run[c] \in RunType /\ run \in [Calls -> RunType] /\ ExecutionOf[c] \in Executions
      /\ activeExecutions \in [Executions -> Calls \cup {None}]
  BY Constants DEF OwnTypeOK
<1>2. /\ OthersKept(c) /\ db' = db /\ run[c].pc = "written" /\ run'[c].pc = "registered"
      /\ run'[c].promise = "pending" /\ run'[c].result = run[c].result
      /\ activeExecutions' = [activeExecutions EXCEPT ![ExecutionOf[c]] = c]
  BY <1>1 DEF Register, OthersKept, LateKept, RunType
<1>3. FreshInv'
  <2>1. ASSUME NEW n \in NewCalls, run[n].pc \in {"idle", "created", "reserved"}
        PROVE  ExecutionOf[n] # ExecutionOf[c]
    BY <1>2, <2>1, Constants DEF ActiveInv, Active, Writing
  <2> QED
    BY <1>2, <2>1, Constants DEF PendingInv, FreshInv, OthersKept
<1>4. TrackedOK(c)'
  BY <1>1, <1>2 DEF TrackedOK, PendingInv, FreshInv
<1>5. ASSUME NEW x \in Calls, x # c, Tracked(x)' PROVE TrackedOK(x)'
  <2>1. Tracked(x) /\ TrackedOK(x)
    BY <1>2, <1>5, LateStays DEF OthersKept, Tracked, PendingInv
  <2>2. ExecutionOf[x] # ExecutionOf[c] /\ ExecutionOf[x] \in Executions
    BY <1>2, <1>5, <2>1, ActiveIsAlone, Constants DEF Active
  <2>3. activeExecutions'[ExecutionOf[x]] = activeExecutions[ExecutionOf[x]]
    BY <1>1, <1>2, <2>2
  <2>4. /\ run'[x].pc = run[x].pc /\ run'[x].result = run[x].result
        /\ run'[x].attached = run[x].attached
    BY <1>2, <1>5 DEF OthersKept
  <2> QED
    BY <2>1, <2>3, <2>4 DEF TrackedOK
<1> QED
  BY <1>3, <1>4, <1>5 DEF PendingInv

\* The steps of a registered call: a tracked one finds its own entry.
LEMMA PendingRun ==
    ASSUME OwnTypeOK, ActiveInv, PendingInv, NEW c \in Calls,
           \/ CredentialsDenied(c) \/ RunRejected(c) \/ SetRunning(c) \/ Launch(c)
           \/ PutExecutionToWait(c) \/ Finish(c) \/ SaveResult(c) \/ SaveMerged(c)
           \/ SaveCanceled(c)
    PROVE  PendingInv'
<1> DEFINE d == activeExecutions[ExecutionOf[c]]
<1>1. /\ run[c] \in RunType /\ run \in [Calls -> RunType] /\ ExecutionOf[c] \in Executions
      /\ d \in Calls \/ d = None
      /\ None \notin Calls
  BY Constants DEF OwnTypeOK
<1>2. ASSUME OthersKept(c), activeExecutions' = activeExecutions,
             run'[c].promise = run[c].promise,
             run'[c].pc \in {"idle", "created", "reserved", "written"} =>
                run'[c].pc = run[c].pc /\ run'[c].result = run[c].result,
             Tracked(c)' => Tracked(c) /\ TrackedOK(c)'
      PROVE  PendingInv'
  <2>1. FreshInv'
    BY <1>2, Constants DEF PendingInv, FreshInv, OthersKept
  <2> QED
    BY <1>2, <2>1, PendingFrame
<1>3. ASSUME LateKept, run'[c].promise = run[c].promise, run'[c].status = run[c].status, Tracked(c)'
      PROVE  Tracked(c) /\ TrackedOK(c)
  BY <1>3, LateStays DEF Tracked, PendingInv
<1>4. Tracked(c) => TrackedOK(c)
  BY DEF PendingInv
<1>5. CASE CredentialsDenied(c)
  <2>1. /\ OthersKept(c) /\ activeExecutions' = activeExecutions
        /\ run[c].pc = "registered" /\ run'[c].pc \in {"denying", "denied"}
        /\ run'[c].promise = run[c].promise /\ run'[c].status = run[c].status
        /\ run'[c].result = "error"
    <3>1. PICK p \in {"denying", "denied"} : run' = [run EXCEPT ![c].pc = p, ![c].result = "error"]
      BY <1>5, DeniedEffect
    <3>2. activeExecutions' = activeExecutions /\ run[c].pc = "registered"
      BY <1>5, DeniedEffect
    <3> QED
      BY <1>1, <3>1, <3>2 DEF OthersKept, LateKept, RunType
  <2>2. Tracked(c)' => Tracked(c) /\ TrackedOK(c)'
    BY <1>3, <2>1 DEF TrackedOK, OthersKept
  <2> QED
    BY <1>2, <2>1, <2>2
<1>6. CASE RunRejected(c)
  <2>1. /\ OthersKept(c) /\ activeExecutions' = activeExecutions
        /\ run[c].pc = "registered" /\ run'[c].pc = "done" /\ d = None
        /\ run'[c].promise = run[c].promise /\ run'[c].status = run[c].status
    BY <1>1, <1>6 DEF RunRejected, OthersKept, LateKept, RunType
  <2>2. ~Tracked(c)'
    BY <1>1, <1>3, <2>1 DEF TrackedOK, OthersKept
  <2> QED
    BY <1>2, <2>1, <2>2
<1>7. CASE SetRunning(c)
  <2>1. /\ OthersKept(c) /\ activeExecutions' = activeExecutions
        /\ run[c].pc = "registered" /\ run'[c].pc = "starting"
        /\ run'[c].promise = run[c].promise /\ run'[c].status = run[c].status
        /\ run'[c].result = run[c].result
    BY <1>1, <1>7 DEF SetRunning, OthersKept, LateKept, RunType
  <2>2. Tracked(c)' => Tracked(c) /\ TrackedOK(c)'
    BY <1>3, <2>1 DEF TrackedOK, OthersKept
  <2> QED
    BY <1>2, <2>1, <2>2
<1>8. CASE Launch(c)
  <2>1. /\ OthersKept(c) /\ activeExecutions' = activeExecutions
        /\ run[c].pc = "starting" /\ run'[c].pc = "executing"
        /\ run'[c].promise = run[c].promise /\ run'[c].status = run[c].status
        /\ run'[c].result = run[c].result /\ (d # None => run'[c].attached)
    <3>1. CASE d = None
      BY <1>1, <1>8, <3>1 DEF Launch, OthersKept, LateKept, RunType
    <3>2. CASE d # None
      <4> DEFINE r1 == [run EXCEPT ![c].pc = "executing", ![c].attached = TRUE]
      <4>1. run' = [r1 EXCEPT ![d].engine = c] /\ activeExecutions' = activeExecutions
               /\ run[c].pc = "starting"
        BY <1>1, <1>8, <3>2 DEF Launch
      <4>2. /\ r1 \in [Calls -> RunType] /\ r1[c].pc = "executing" /\ r1[c].attached
            /\ r1[c].promise = run[c].promise /\ r1[c].status = run[c].status
            /\ r1[c].result = run[c].result /\ \A x \in Calls : x # c => r1[x] = run[x]
            /\ r1[c].late = run[c].late
        BY <1>1 DEF RunType, PCs
      <4>3. d \in Calls
        BY <1>1, <3>2
      <4> HIDE DEF r1, d
      <4>4. \A x \in Calls : /\ run'[x].pc = r1[x].pc /\ run'[x].promise = r1[x].promise
                             /\ run'[x].status = r1[x].status /\ run'[x].result = r1[x].result
                             /\ run'[x].attached = r1[x].attached
                             /\ run'[x].late = r1[x].late
        <5>1. r1[d] \in RunType
          BY <4>2, <4>3
        <5>2. PICK v : v = [r1[d] EXCEPT !.engine = c]
          OBVIOUS
        <5>3. /\ v.pc = r1[d].pc /\ v.promise = r1[d].promise /\ v.status = r1[d].status
              /\ v.result = r1[d].result /\ v.attached = r1[d].attached
              /\ v.late = r1[d].late
          BY <5>1, <5>2 DEF RunType
        <5>4. run' = [r1 EXCEPT ![d] = v]
          BY <4>1, <5>2
        <5> QED
          BY <4>2, <4>3, <5>3, <5>4
      <4> QED
        BY <4>1, <4>2, <4>4 DEF OthersKept, LateKept
    <3> QED
      BY <3>1, <3>2
  <2>2. ASSUME Tracked(c)' PROVE Tracked(c) /\ TrackedOK(c)'
    <3>1. Tracked(c) /\ d = c /\ run[c].result # "waiting"
      BY <1>3, <2>1, <2>2 DEF TrackedOK, OthersKept
    <3>2. run'[c].attached
      BY <1>1, <2>1, <3>1
    <3>3. activeExecutions'[ExecutionOf[c]] = c /\ run'[c].pc = "executing" /\ run'[c].result # "waiting"
      BY <2>1, <3>1
    <3> HIDE DEF d
    <3> QED
      BY <3>1, <3>2, <3>3, Zenon DEF TrackedOK
  <2> QED
    BY <1>2, <2>1, <2>2
<1>9. CASE PutExecutionToWait(c)
  <2>1. /\ d \in Calls /\ run[c].pc = "executing" /\ activeExecutions' = activeExecutions
        /\ run' = [run EXCEPT ![c].result = "waiting", ![d].status = "waiting"]
    BY <1>1, <1>9 DEF PutExecutionToWait
  <2> DEFINE r1 == [run EXCEPT ![c].result = "waiting"]
  <2>2. /\ r1 \in [Calls -> RunType] /\ r1[c].pc = "executing" /\ r1[c].status = run[c].status
        /\ r1[c].promise = run[c].promise /\ r1[c].late = run[c].late
        /\ \A x \in Calls : x # c => r1[x] = run[x]
    BY <1>1, <2>1 DEF RunType, PCs
  <2>3. run' = [r1 EXCEPT ![d].status = "waiting"]
    BY <2>1
  <2> HIDE DEF r1, d
  <2>4. \A x \in Calls : /\ run'[x].pc = r1[x].pc /\ run'[x].promise = r1[x].promise
                         /\ run'[x].result = r1[x].result /\ run'[x].attached = r1[x].attached
                         /\ run'[x].late = r1[x].late
                         /\ IF x = d THEN run'[x].status = "waiting" ELSE run'[x].status = r1[x].status
    <3>1. r1[d] \in RunType
      BY <2>1, <2>2
    <3>2. PICK v : v = [r1[d] EXCEPT !.status = "waiting"]
      OBVIOUS
    <3>3. /\ v.pc = r1[d].pc /\ v.promise = r1[d].promise /\ v.status = "waiting"
          /\ v.result = r1[d].result /\ v.attached = r1[d].attached /\ v.late = r1[d].late
      BY <3>1, <3>2 DEF RunType
    <3>4. run' = [r1 EXCEPT ![d] = v]
      BY <2>3, <3>2
    <3> QED
      BY <2>1, <2>2, <3>3, <3>4
  <2>5. OthersKept(c)
    BY <2>2, <2>4 DEF OthersKept, LateKept
  <2>6. run'[c].pc = "executing" /\ run'[c].promise = run[c].promise
    BY <2>2, <2>4
  <2>7. ~Tracked(c)'
    <3>1. CASE d = c
      BY <2>1, <2>4, <3>1 DEF Tracked
    <3>2. CASE d # c
      <4>1. run'[c].status = run[c].status
        BY <2>2, <2>4, <3>2
      <4>2. Tracked(c)' => d = c
        BY <1>3, <2>5, <2>6, <4>1 DEF TrackedOK, OthersKept, d
      <4> QED
        BY <3>2, <4>2
    <3> QED
      BY <3>1, <3>2
  <2> QED
    BY <1>2, <2>1, <2>5, <2>6, <2>7
<1>10. CASE Finish(c)
  <2>1. /\ OthersKept(c) /\ activeExecutions' = activeExecutions
        /\ run[c].pc = "executing" /\ run'[c].pc \in {"saving", "saved"}
        /\ run'[c].promise = run[c].promise /\ run'[c].status = run[c].status
        /\ run'[c].attached = run[c].attached
        /\ run[c].result # "waiting" => run'[c].result # "waiting"
    <3>0. run[c].pc = "executing" /\ activeExecutions' = activeExecutions
      BY <1>10 DEF Finish
    <3>1. CASE run' = [run EXCEPT ![c].pc = "saved"]
      BY <1>1, <3>0, <3>1 DEF OthersKept, LateKept, RunType
    <3>2. ASSUME NEW r \in {"waiting", "success", "error"}, r = "waiting" => run[c].result = "waiting",
                 run' = [run EXCEPT ![c].pc = "saving", ![c].result = r]
          PROVE  /\ OthersKept(c) /\ run'[c].pc = "saving" /\ run'[c].promise = run[c].promise
                 /\ run'[c].status = run[c].status /\ run'[c].attached = run[c].attached
                 /\ run'[c].result = r
      BY <1>1, <3>2 DEF OthersKept, LateKept, RunType
    <3>3. CASE \E r \in IF run[c].result = "waiting" THEN {"waiting"} ELSE {"success", "error"} :
                  run' = [run EXCEPT ![c].pc = "saving", ![c].result = r]
      <4>1. PICK r \in IF run[c].result = "waiting" THEN {"waiting"} ELSE {"success", "error"} :
                  run' = [run EXCEPT ![c].pc = "saving", ![c].result = r]
        BY <3>3
      <4>2. r \in {"waiting", "success", "error"} /\ (r = "waiting" => run[c].result = "waiting")
        OBVIOUS
      <4>3. /\ OthersKept(c) /\ run'[c].pc = "saving" /\ run'[c].promise = run[c].promise
            /\ run'[c].status = run[c].status /\ run'[c].attached = run[c].attached
            /\ run'[c].result = r
        BY <3>2, <4>1, <4>2
      <4> QED
        BY <3>0, <4>2, <4>3
    <3> QED
      BY <1>10, <3>1, <3>3 DEF Finish
  <2>2. Tracked(c)' => Tracked(c) /\ TrackedOK(c)'
    BY <1>3, <2>1 DEF TrackedOK, OthersKept
  <2> QED
    BY <1>2, <2>1, <2>2
<1>11. CASE SaveResult(c)
  <2>1. PICK p \in {"merging", "saved", "failing", "done"} :
           /\ run' = [run EXCEPT ![c].pc = p] /\ activeExecutions' = activeExecutions
           /\ \/ run[c].pc = "saving" /\ p \in {"merging", "saved"}
              \/ run[c].pc = "failed" /\ p \in {"failing", "done"}
    BY <1>11 DEF SaveResult, AfterSave
  <2>2. /\ OthersKept(c) /\ run'[c].pc = p
        /\ run'[c].promise = run[c].promise /\ run'[c].status = run[c].status
        /\ run'[c].attached = run[c].attached /\ run'[c].result = run[c].result
    BY <1>1, <2>1 DEF OthersKept, LateKept, RunType
  <2>3. Tracked(c)' => Tracked(c) /\ TrackedOK(c)'
    BY <1>3, <2>1, <2>2 DEF TrackedOK, OthersKept
  <2> QED
    BY <1>2, <2>1, <2>2, <2>3
<1>12. CASE SaveCanceled(c)
  <2>1. /\ OthersKept(c) /\ activeExecutions' = activeExecutions
        /\ run'[c].pc = run[c].pc /\ run'[c].promise = run[c].promise
        /\ run'[c].status = run[c].status /\ run'[c].attached = run[c].attached
        /\ run'[c].result = run[c].result
    BY <1>1, <1>12 DEF SaveCanceled, OthersKept, LateKept, RunType
  <2>2. Tracked(c)' => Tracked(c) /\ TrackedOK(c)'
    BY <1>3, <2>1 DEF TrackedOK, OthersKept
  <2> QED
    BY <1>2, <2>1, <2>2
<1>13. CASE SaveMerged(c)
  <2>1. PICK p \in {"saved", "denied", "done"}, l \in BOOLEAN :
           /\ run' = [run EXCEPT ![c].pc = p, ![c].late = l]
           /\ \/ run[c].pc = "merging" /\ p = "saved"
              \/ run[c].pc = "denying" /\ p = "denied"
              \/ run[c].pc = "failing" /\ p = "done"
           /\ run[c].late => l
    BY <1>13, MergedEffect
  <2>2. /\ OthersKept(c) /\ run'[c].pc = p
        /\ run'[c].promise = run[c].promise /\ run'[c].status = run[c].status
        /\ run'[c].attached = run[c].attached /\ run'[c].result = run[c].result
    BY <1>1, <2>1 DEF OthersKept, LateKept, RunType
  <2>3. activeExecutions' = activeExecutions
    BY <1>13 DEF SaveMerged
  <2>4. Tracked(c)' => Tracked(c) /\ TrackedOK(c)'
    BY <1>3, <2>1, <2>2, <2>3 DEF TrackedOK, OthersKept
  <2> QED
    BY <1>2, <2>1, <2>2, <2>3, <2>4
<1> QED
  BY <1>5, <1>6, <1>7, <1>8, <1>9, <1>10, <1>11, <1>12, <1>13

\* finalizeExecution and stopExecution: only the promise that settles and an
\* entry that waits are dropped.
LEMMA PendingOutcome ==
    ASSUME OwnTypeOK, EntryInv, PendingInv, NEW e \in Executions,
           NEW r \in [Calls -> RunType], Outcome(e, r), db' = db,
           \A x \in Calls : /\ r[x].promise = run[x].promise /\ r[x].status = run[x].status
                            /\ r[x].attached = run[x].attached /\ r[x].late = run[x].late
                            /\ \/ r[x].pc = run[x].pc /\ r[x].result = run[x].result
                               \/ r[x].pc \in {"done", "failed"} /\ ~Tracked(x)'
    PROVE  PendingInv'
<1>1. activeExecutions \in [Executions -> Calls \cup {None}] /\ ExecutionOf \in [Calls -> Executions]
  BY Constants DEF OwnTypeOK
<1>2. ASSUME NEW x \in Calls
      PROVE  /\ run'[x].pc = r[x].pc /\ run'[x].result = r[x].result
             /\ run'[x].late = r[x].late
             /\ \/ run'[x] = r[x]
                \/ x = activeExecutions[e] /\ Settled(x, r)
  BY DEF Outcome, Settled
<1>5. LateKept
  BY <1>2 DEF LateKept
<1>3. FreshInv'
  <2>1. ASSUME NEW x \in Calls, run'[x].pc \in {"idle", "created", "reserved", "written"}
        PROVE  run'[x].pc = run[x].pc /\ run'[x].result = run[x].result
    BY <1>2, <2>1
  <2>2. ASSUME NEW x \in Calls, run[x].promise = "none" PROVE run'[x].promise = "none"
    BY <1>2, <2>2 DEF Settled
  <2> QED
    BY <2>1, <2>2, Constants DEF PendingInv, FreshInv
<1>4. ASSUME NEW x \in Calls, Tracked(x)' PROVE TrackedOK(x)'
  <2>1. run'[x] = r[x] /\ ~Settled(x, r)
    BY <1>2, <1>4 DEF Tracked, Settled
  <2>2. r[x].pc = run[x].pc /\ r[x].result = run[x].result /\ r[x].status = "running"
    BY <1>4, <2>1 DEF Tracked
  <2>3. Tracked(x) /\ TrackedOK(x)
    BY <1>4, <1>5, <2>1, <2>2, LateStays DEF Tracked, PendingInv
  <2>4. activeExecutions[ExecutionOf[x]] = x
    BY <2>3 DEF TrackedOK
  <2>5. activeExecutions'[ExecutionOf[x]] = x
    <3>1. CASE activeExecutions' = activeExecutions
      BY <2>4, <3>1
    <3>2. CASE /\ r[activeExecutions[e]].status = "waiting"
               /\ activeExecutions' = [activeExecutions EXCEPT ![e] = None]
      <4>1. ExecutionOf[x] # e
        BY <2>2, <2>4, <3>2
      <4> QED
        BY <1>1, <2>4, <3>2, <4>1
    <3>3. CASE activeExecutions[e] \in Calls /\ Settled(activeExecutions[e], r)
      <4>1. ExecutionOf[x] # e
        BY <2>1, <2>4, <3>3
      <4>2. ExecutionOf[activeExecutions[e]] = e
        BY <3>3, Constants DEF EntryInv
      <4> QED
        BY <1>1, <2>4, <3>3, <4>1, <4>2 DEF Settled
    <3> QED
      BY <3>1, <3>2, <3>3 DEF Outcome
  <2>6. run'[x].attached = run[x].attached /\ run'[x].pc = run[x].pc /\ run'[x].result = run[x].result
    BY <2>1, <2>2
  <2> QED
    BY <2>3, <2>5, <2>6 DEF TrackedOK
<1> QED
  BY <1>3, <1>4 DEF PendingInv

\* finalizeExecution of a tracked call settles its promise.
LEMMA PendingFinalize ==
    ASSUME OwnTypeOK, EntryInv, PendingInv, NEW c \in Calls,
           FinalizeExecution(c) \/ LaunchFails(c)
    PROVE  PendingInv'
<1>1. run \in [Calls -> RunType] /\ ExecutionOf[c] \in Executions /\ None \notin Calls
  BY Constants DEF OwnTypeOK
<1>2. CASE FinalizeExecution(c)
  <2> DEFINE r == [run EXCEPT ![c].pc = "done"]
  <2>1. /\ r \in [Calls -> RunType] /\ run[c].pc \in {"saved", "denied"}
        /\ Outcome(ExecutionOf[c], r) /\ db' = db
    BY <1>2, FinalizeEffect
  <2>2. \A x \in Calls : /\ r[x].promise = run[x].promise /\ r[x].status = run[x].status
                         /\ r[x].attached = run[x].attached /\ r[x].late = run[x].late
                         /\ x # c => r[x].pc = run[x].pc /\ r[x].result = run[x].result
    BY <1>1 DEF RunType
  <2>3. r[c].pc = "done"
    BY <1>1 DEF RunType
  <2>4. ASSUME Tracked(c) PROVE Settle(c, r)
    <3>1. activeExecutions[ExecutionOf[c]] = c /\ (run[c].pc = "saved" => run[c].attached)
      BY <2>4 DEF PendingInv, TrackedOK
    <3> QED
      BY <1>1, <1>2, <3>1 DEF FinalizeExecution
  <2> HIDE DEF r
  <2>5. ~Tracked(c)'
    <3>1. CASE Tracked(c)
      <4>1. r[c].promise = "pending"
        BY <2>2, <3>1 DEF Tracked
      <4>2. run'[c].promise = "settled"
        BY <2>1, <2>4, <3>1, <4>1, SettleEffect
      <4> QED
        BY <4>2 DEF Tracked
    <3>2. CASE ~Tracked(c)
      <4>1. LateKept
        BY <2>1, <2>2, OutcomeStays DEF LateKept
      <4>2. ~Late(ExecutionOf[c])' => ~Late(ExecutionOf[c])
        BY <4>1, LateStays
      <4>3. /\ run'[c].promise = "pending" => run[c].promise = "pending"
            /\ run'[c].status = run[c].status
        BY <2>1, <2>2 DEF Outcome, Settled
      <4> QED
        BY <3>2, <4>2, <4>3 DEF Tracked
    <3> QED
      BY <3>1, <3>2
  <2> QED
    BY <1>1, <2>1, <2>2, <2>3, <2>5, PendingOutcome
<1>3. CASE LaunchFails(c)
  <2> DEFINE r == [run EXCEPT ![c].pc = "failed", ![c].result = "error"]
  <2>1. /\ r \in [Calls -> RunType] /\ run[c].pc = "starting"
        /\ Outcome(ExecutionOf[c], r) /\ db' = db
    BY <1>3, LaunchFailsEffect
  <2>2. \A x \in Calls : /\ r[x].promise = run[x].promise /\ r[x].status = run[x].status
                         /\ r[x].attached = run[x].attached /\ r[x].late = run[x].late
                         /\ x # c => r[x].pc = run[x].pc /\ r[x].result = run[x].result
    BY <1>1 DEF RunType
  <2>3. r[c].pc = "failed"
    BY <1>1 DEF RunType
  <2>4. ASSUME Tracked(c) PROVE Settle(c, r)
    <3>1. activeExecutions[ExecutionOf[c]] = c
      BY <2>4 DEF PendingInv, TrackedOK
    <3> QED
      BY <1>1, <1>3, <3>1 DEF LaunchFails
  <2> HIDE DEF r
  <2>5. ~Tracked(c)'
    <3>1. CASE Tracked(c)
      <4>1. r[c].promise = "pending"
        BY <2>2, <3>1 DEF Tracked
      <4>2. run'[c].promise = "settled"
        BY <2>1, <2>4, <3>1, <4>1, SettleEffect
      <4> QED
        BY <4>2 DEF Tracked
    <3>2. CASE ~Tracked(c)
      <4>1. LateKept
        BY <2>1, <2>2, OutcomeStays DEF LateKept
      <4>2. ~Late(ExecutionOf[c])' => ~Late(ExecutionOf[c])
        BY <4>1, LateStays
      <4>3. /\ run'[c].promise = "pending" => run[c].promise = "pending"
            /\ run'[c].status = run[c].status
        BY <2>1, <2>2 DEF Outcome, Settled
      <4> QED
        BY <3>2, <4>2, <4>3 DEF Tracked
    <3> QED
      BY <3>1, <3>2
  <2> QED
    BY <1>1, <2>1, <2>2, <2>3, <2>5, PendingOutcome
<1> QED
  BY <1>2, <1>3

LEMMA PendingStop ==
    ASSUME OwnTypeOK, EntryInv, PendingInv, NEW e \in Executions, StopExecution(e), db' = db
    PROVE  PendingInv'
<1>1. PICK r : SameButCancel(r) /\ Outcome(e, r)
  BY StopEffect
<1> QED
  BY <1>1, PendingOutcome DEF SameButCancel

\* A step that moves no call and drops no tracked entry.
LEMMA PendingSame ==
    ASSUME PendingInv, run' = run,
           \A x \in Calls : Tracked(x) => activeExecutions'[ExecutionOf[x]] = x
    PROVE  PendingInv'
<1>2. FreshInv'
  BY DEF PendingInv, FreshInv
<1>3. ASSUME NEW x \in Calls, Tracked(x)' PROVE TrackedOK(x)'
  <2>1. Tracked(x) /\ TrackedOK(x)
    BY <1>3 DEF Tracked, PendingInv, Late
  <2> QED
    BY <2>1 DEF TrackedOK
<1> QED
  BY <1>2, <1>3 DEF PendingInv

\* Every step keeps the entries of the tracked calls.
LEMMA NextPending ==
    OwnTypeOK /\ ActiveInv /\ SlotInv /\ EntryInv /\ PendingInv /\ [Next]_vars => PendingInv'
<1> SUFFICES ASSUME OwnTypeOK, ActiveInv, SlotInv, EntryInv, PendingInv, [Next]_vars
             PROVE  PendingInv'
  OBVIOUS
<1>1. \A x \in Calls : Tracked(x) => activeExecutions[ExecutionOf[x]] = x
  BY DEF PendingInv, TrackedOK
<1>2. ASSUME NEW c \in Calls, TimeoutExecution(c) PROVE PendingInv'
  BY <1>2, PendingStop, Constants DEF TimeoutExecution
<1>3. ASSUME NEW e \in Executions, StopInRegularMode(e) PROVE PendingInv'
  <2>1. CASE StopExecution(e)
    BY <1>3, <2>1, PendingStop DEF StopInRegularMode
  <2>2. CASE UNCHANGED <<run, activeExecutions>>
    BY <1>1, <1>3, <2>2, PendingSame DEF StopInRegularMode
  <2> QED
    BY <1>3, <2>1, <2>2 DEF StopInRegularMode
<1>4. ASSUME NEW e \in Executions, StopRead(e) \/ StopWrite(e) PROVE PendingInv'
  BY <1>1, <1>4, PendingSame DEF StopRead, StopWrite
<1>5. CASE Shutdown
  <2>1. \A x \in Calls : Tracked(x) => activeExecutions'[ExecutionOf[x]] = x
    BY <1>1, <1>5, Constants DEF Shutdown, Tracked
  <2> QED
    BY <1>5, <2>1, PendingSame DEF Shutdown
<1>6. CASE Drained
  BY <1>1, <1>6, PendingSame DEF Drained
<1>7. CASE Restart
  <2>1. \A x \in Calls : run'[x].promise = "none" /\ run'[x].result = "none"
    BY <1>7 DEF Restart, IdleRun
  <2> QED
    BY <2>1, Constants DEF PendingInv, FreshInv, Tracked
<1>8. CASE UNCHANGED vars
  BY <1>1, <1>8, PendingSame DEF vars
<1> QED
  BY <1>2, <1>3, <1>4, <1>5, <1>6, <1>7, <1>8, PendingStart, PendingWrite, PendingRegister,
     PendingRun, PendingFinalize DEF Next, Step

LEMMA InitPending == Init => PendingInv
<1> SUFFICES ASSUME Init PROVE PendingInv
  OBVIOUS
<1>1. \A x \in Calls : run[x].promise = "none" /\ run[x].result = "none"
  BY DEF Init, IdleRun
<1> QED
  BY <1>1, Constants DEF PendingInv, FreshInv, Tracked

LEMMA PendingKept == OwnTypeOK /\ PendingInv => OnlyWaitingRunsAreForgotten
<1> SUFFICES ASSUME OwnTypeOK, PendingInv, NEW c \in Calls, run[c].promise = "pending",
                    activeExecutions[ExecutionOf[c]] # c, ~Late(ExecutionOf[c])
             PROVE  run[c].status = "waiting"
  BY DEF OnlyWaitingRunsAreForgotten
<1>1. ~Tracked(c)
  BY DEF PendingInv, TrackedOK
<1>2. run[c].status \in {"running", "waiting"}
  BY DEF OwnTypeOK, RunType
<1> QED
  BY <1>1, <1>2 DEF Tracked

(***************************************************************************)
(* No stop, timeout, resumption, shutdown, denial or failed start forgets  *)
(* a promise that has still to settle, with the slot that depends on it,   *)
(* unless a node has put that run to wait, as long as no late save has let *)
(* a second resumption in: for any executions, calls and limits.           *)
(***************************************************************************)
THEOREM OnlyWaitersAreForgotten == Spec => []OnlyWaitingRunsAreForgotten
<1>1. Spec => []OwnTypeOK
  BY InitOwnType, NextOwnType, PTL DEF Spec
<1>2. Spec => [](OwnTypeOK /\ ActiveInv)
  BY InitOwnType, NextOwnType, InitActive, NextActive, PTL DEF Spec
<1>3. Spec => [](SlotInv /\ EntryInv)
  BY <1>1, InitSlot, NextSlot, SlotsAreAccounted, PTL DEF Spec
<1> QED
  BY <1>2, <1>3, InitPending, NextPending, PendingKept, PTL DEF Spec

\* A call on its way is the only one that occupies the execution.
LEMMA StepSettles ==
    ASSUME ActiveInv, NEW c \in Calls, NEW d \in Calls, c # d,
           ExecutionOf[c] = ExecutionOf[d], ~Late(ExecutionOf[c]), OnWay(c),
           FinalizeExecution(d) \/ TimeoutExecution(d) \/ LaunchFails(d)
    PROVE  run[d].result = "waiting"
<1>1. run[c].pc \in Active /\ ~Occupies(d)
  BY DEF ActiveInv, OnWay, Active
<1>2. run[d].pc \in {"starting", "executing", "saving", "merging", "saved", "denied"}
  BY DEF FinalizeExecution, TimeoutExecution, LaunchFails
<1> QED
  BY <1>1, <1>2 DEF Occupies, Active

(***************************************************************************)
(* The end, the failed start or the timer of a run settles the promise of  *)
(* another run of the execution on its way only if it had put the          *)
(* execution to wait, for any executions, calls and limits.                *)
(***************************************************************************)
THEOREM OnlyWaitersSettle == Spec => OnlyWaitersSettleOthers
<1>1. ActiveInv /\ [Next]_vars =>
         [\A c, d \in Calls :
            (/\ c # d /\ ExecutionOf[c] = ExecutionOf[d] /\ ~Late(ExecutionOf[c])
             /\ OnWay(c) /\ run[c].promise = "pending" /\ run'[c].promise = "settled"
             /\ FinalizeExecution(d) \/ TimeoutExecution(d) \/ LaunchFails(d))
            => run[d].result = "waiting"]_vars
  BY StepSettles
<1> QED
  BY <1>1, InitOwnType, NextOwnType, InitActive, NextActive, PTL DEF Spec, OnlyWaitersSettleOthers
=============================================================================
