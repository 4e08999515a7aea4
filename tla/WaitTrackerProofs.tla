---------------------------- MODULE WaitTrackerProofs ------------------------
(***************************************************************************)
(* Proofs, for any number of main processes, executions, engines and       *)
(* waits, that an execution is resumed at most once for each time          *)
(* 'waiting' is written to its row, and that one that has ended is never   *)
(* brought back.  Neither depends on who leads: every leadership event of  *)
(* module Leadership is allowed at any time.                               *)
(***************************************************************************)
EXTENDS WaitTracker, TLAPS

\* Engine g will write wait w of execution e to the row again.
Again(g, e, w) == g.exec = e /\ g.pc = "merging" /\ g.save = "waiting" /\ g.wait = w

WaitsAt(e, w) == row[e].status = "waiting" /\ row[e].wait = w

Limit(e) == IF e \in Merged THEN 2 ELSE 1

\* Nobody knows of a wait that has not begun.
WaitsHaveBegun ==
    /\ \A e \in Executions : row[e].wait <= waits[e]
    /\ \A e \in Executions, w \in Waits : w > waits[e] => resumed[e][w] = 0
    /\ \A g \in engines : g.pc = "merging" =>
        /\ g.exec \in Merged
        /\ g.wait <= waits[g.exec]
        /\ g.save = "waiting" => g.wait # 0

\* One engine at most will write a wait again.
SavedAgainOnce == \A e \in Executions, w \in Waits : \A g, h \in engines :
    Again(g, e, w) /\ Again(h, e, w) => g = h

\* A row that waits, and an engine that will make it wait again, each leave room for a
\* resumption.
RoomToResume == \A e \in Executions, w \in Waits :
    /\ resumed[e][w] <= Limit(e)
    /\ WaitsAt(e, w) => resumed[e][w] + 1 <= Limit(e)
    /\ (\E g \in engines : Again(g, e, w)) => resumed[e][w] + 1 <= Limit(e)
    /\ WaitsAt(e, w) /\ (\E g \in engines : Again(g, e, w)) => resumed[e][w] + 2 <= Limit(e)

\* The inductive invariant.
IInv == TypeOK /\ WaitsHaveBegun /\ SavedAgainOnce /\ RoomToResume

-----------------------------------------------------------------------------

\* The types of what the trackers keep, and of the rows and those who write them.
TrackerTypeOK ==
    /\ mainTimer \in [Mains -> {"none", "live", "cleared"}]
    /\ leaked \in [Mains -> BOOLEAN]
    /\ entries \in [Mains -> [Executions -> Entries]]
    /\ polls \in [Mains -> SUBSET Found]
    /\ calls \in SUBSET Calls

RowTypeOK ==
    /\ row \in [Executions -> Rows]
    /\ waits \in [Executions -> 0..MaxWaits]
    /\ passed \in Found
    /\ resumed \in [Executions -> [Waits -> 0..2]]
    /\ engines \in SUBSET Engines

StopTypeOK == stops \in SUBSET Stops

LEMMA TypeParts ==
    /\ TypeOK <=> LTypeOK /\ RowTypeOK /\ StopTypeOK /\ TrackerTypeOK
    /\ TypeOK' <=> LTypeOK' /\ RowTypeOK' /\ StopTypeOK' /\ TrackerTypeOK'
BY DEF TypeOK, RowTypeOK, StopTypeOK, TrackerTypeOK

\* A step that leaves the rows and the engines alone.
LEMMA RowsKept ==
    ASSUME IInv, UNCHANGED rowVars, LTypeOK', StopTypeOK', TrackerTypeOK'
    PROVE  IInv'
<1>1. RowTypeOK'
  BY TypeParts DEF IInv, RowTypeOK, rowVars
<1>2. WaitsHaveBegun' /\ SavedAgainOnce' /\ RoomToResume'
  BY DEF IInv, WaitsHaveBegun, SavedAgainOnce, RoomToResume, WaitsAt, Again, rowVars
<1> QED
  BY <1>1, <1>2, TypeParts DEF IInv

\* Leadership keeps its own types.
LEMMA LeaderType ==
    ASSUME LTypeOK, NEW m \in Mains,
           \/ LStart(m) \/ LRegister(m) \/ LDemote(m) \/ LInitTracker(m) \/ LTakeover(m)
           \/ LStepdown(m) \/ LStopProcess(m) \/ LExit(m)
    PROVE  LTypeOK'
BY DEF LTypeOK, LStart, LRegister, LDemote, LInitTracker, LTakeover, LStepdown, LStopProcess,
   LExit, Enters, Becomes, Phases, Roles

LEMMA PollType ==
    ASSUME TrackerTypeOK, NEW m \in Mains, Poll(m)
    PROVE  polls' \in [Mains -> SUBSET Found]
<1>1. PICK found \in Found : polls' = [polls EXCEPT ![m] = @ \union ({found} \ {{}})]
  BY DEF Poll
<1>2. polls[m] \union ({found} \ {{}}) \in SUBSET Found
  BY DEF TrackerTypeOK
<1> QED
  BY <1>1, <1>2 DEF TrackerTypeOK

LEMMA StartTrackingType ==
    ASSUME TrackerTypeOK, NEW m \in Mains, StartTracking(m)
    PROVE  TrackerTypeOK'
<1>1. polls' \in [Mains -> SUBSET Found]
  BY PollType DEF StartTracking
<1>2. leaked' \in [Mains -> BOOLEAN]
  BY DEF StartTracking, TrackerTypeOK
<1>3. mainTimer' \in [Mains -> {"none", "live", "cleared"}]
  BY DEF StartTracking, TrackerTypeOK
<1>4. UNCHANGED <<entries, calls>>
  BY DEF StartTracking
<1> QED
  BY <1>1, <1>2, <1>3, <1>4 DEF TrackerTypeOK

\* A map of entries, changed execution by execution.
LEMMA EntriesType ==
    ASSUME TrackerTypeOK, NEW m \in Mains, NEW f,
           f \in [Executions -> Entries], entries' = [entries EXCEPT ![m] = f]
    PROVE  entries' \in [Mains -> [Executions -> Entries]]
BY DEF TrackerTypeOK

LEMMA StopTrackingType ==
    ASSUME TrackerTypeOK, NEW m \in Mains, StopTracking(m)
    PROVE  TrackerTypeOK'
<1>1. CASE UNCHANGED trackerVars
  BY <1>1 DEF TrackerTypeOK, trackerVars
<1>2. CASE /\ mainTimer' = [mainTimer EXCEPT ![m] = "cleared"]
           /\ entries' = [entries EXCEPT ![m] = [e \in Executions |->
                IF @[e] = NoEntry THEN NoEntry ELSE [@[e] EXCEPT !.armed = FALSE]]]
           /\ UNCHANGED <<leaked, polls, calls>>
  <2> DEFINE f == [e \in Executions |->
                IF entries[m][e] = NoEntry THEN NoEntry
                ELSE [entries[m][e] EXCEPT !.armed = FALSE]]
  <2>1. ASSUME NEW e \in Executions PROVE f[e] \in Entries
    <3>1. entries[m][e] \in Entries
      BY DEF TrackerTypeOK
    <3> QED
      BY <3>1 DEF Entries
  <2>2. f \in [Executions -> Entries]
    BY <2>1
  <2>3. entries' = [entries EXCEPT ![m] = f]
    BY <1>2
  <2> HIDE DEF f
  <2>4. entries' \in [Mains -> [Executions -> Entries]]
    BY <2>2, <2>3, EntriesType
  <2> QED
    BY <1>2, <2>4 DEF TrackerTypeOK
<1> QED
  BY <1>1, <1>2 DEF StopTracking

\* WaitTracker.init, the leadership events, and the start and end of a process.
LEMMA LeadershipInv ==
    ASSUME IInv, NEW m \in Mains,
           \/ Uninvolved(m) \/ InitTracker(m) \/ Takeover(m) \/ Stepdown(m)
           \/ StopProcess(m) \/ Exit(m)
    PROVE  IInv'
<1>1. LTypeOK /\ TrackerTypeOK /\ StopTypeOK
  BY TypeParts DEF IInv
<1>2. UNCHANGED rowVars /\ StopTypeOK'
  BY <1>1 DEF StopTypeOK, Uninvolved, InitTracker, Takeover, Stepdown, StopProcess, Exit
<1>3. LTypeOK'
  BY <1>1, LeaderType DEF Uninvolved, InitTracker, Takeover, Stepdown, StopProcess, Exit
<1>4. UNCHANGED trackerVars => TrackerTypeOK'
  BY <1>1 DEF TrackerTypeOK, trackerVars
<1>5. CASE Uninvolved(m) \/ InitTracker(m) \/ Takeover(m)
  BY <1>1, <1>2, <1>3, <1>4, <1>5, StartTrackingType, RowsKept
  DEF Uninvolved, InitTracker, Takeover
<1>6. CASE Stepdown(m) \/ StopProcess(m)
  BY <1>1, <1>2, <1>3, <1>4, <1>6, StopTrackingType, RowsKept DEF Stepdown, StopProcess
<1>7. CASE Exit(m)
  <2>1. entries' \in [Mains -> [Executions -> Entries]]
    <3>1. [e \in Executions |-> NoEntry] \in [Executions -> Entries]
      BY DEF Entries
    <3> QED
      BY <1>1, <1>7, <3>1 DEF Exit, TrackerTypeOK
  <2>2. /\ mainTimer' \in [Mains -> {"none", "live", "cleared"}]
        /\ polls' \in [Mains -> SUBSET Found]
        /\ calls' \in SUBSET Calls
    BY <1>1, <1>7 DEF Exit, TrackerTypeOK
  <2>3. leaked' \in [Mains -> BOOLEAN]
    BY <1>1, <1>7 DEF Exit, TrackerTypeOK
  <2> QED
    BY <1>2, <1>3, <2>1, <2>2, <2>3, RowsKept DEF TrackerTypeOK
<1> QED
  BY <1>5, <1>6, <1>7

\* Polls, timers and webhooks.
LEMMA TrackerInv ==
    ASSUME IInv, NEW m \in Mains,
           \/ PollTick(m) \/ PollHandled(m)
           \/ \E e \in Executions : TimerFires(m, e) \/ WebhookCalled(m, e)
    PROVE  IInv'
<1>1. LTypeOK /\ TrackerTypeOK /\ StopTypeOK
  BY TypeParts DEF IInv
<1>2. UNCHANGED rowVars /\ LTypeOK' /\ StopTypeOK'
  BY <1>1 DEF PollTick, PollHandled, TimerFires, WebhookCalled, leaderVars, LTypeOK, StopTypeOK
<1>3. CASE PollTick(m)
  <2>1. polls' \in [Mains -> SUBSET Found]
    BY <1>1, <1>3, PollType DEF PollTick
  <2>2. TrackerTypeOK'
    BY <1>1, <1>3, <2>1 DEF PollTick, TrackerTypeOK
  <2> QED
    BY <1>2, <2>2, RowsKept
<1>4. CASE PollHandled(m)
  <2>1. PICK found \in polls[m] :
          /\ polls' = [polls EXCEPT ![m] = @ \ {found}]
          /\ entries' = [entries EXCEPT ![m] = [e \in Executions |->
                IF @[e] = NoEntry /\ \E w \in Waits : <<e, w>> \in found
                THEN [wait |-> CHOOSE w \in Waits : <<e, w>> \in found, armed |-> TRUE]
                ELSE @[e]]]
    BY <1>4 DEF PollHandled
  <2> DEFINE f == [e \in Executions |->
                IF entries[m][e] = NoEntry /\ \E w \in Waits : <<e, w>> \in found
                THEN [wait |-> CHOOSE w \in Waits : <<e, w>> \in found, armed |-> TRUE]
                ELSE entries[m][e]]
  <2>2. ASSUME NEW e \in Executions PROVE f[e] \in Entries
    <3>1. entries[m][e] \in Entries
      BY <1>1 DEF TrackerTypeOK
    <3>2. ASSUME \E w \in Waits : <<e, w>> \in found
          PROVE  [wait |-> CHOOSE w \in Waits : <<e, w>> \in found, armed |-> TRUE] \in Entries
      <4>1. (CHOOSE w \in Waits : <<e, w>> \in found) \in Waits
        BY <3>2
      <4> QED
        BY <4>1 DEF Entries
    <3> QED
      BY <3>1, <3>2
  <2>3. f \in [Executions -> Entries]
    BY <2>2
  <2>4. entries' = [entries EXCEPT ![m] = f]
    BY <2>1
  <2> HIDE DEF f
  <2>5. entries' \in [Mains -> [Executions -> Entries]]
    BY <1>1, <2>3, <2>4, EntriesType
  <2>6. polls' \in [Mains -> SUBSET Found]
    BY <1>1, <2>1 DEF TrackerTypeOK
  <2>7. UNCHANGED <<mainTimer, leaked, calls>>
    BY <1>4 DEF PollHandled
  <2>8. TrackerTypeOK'
    BY <1>1, <2>5, <2>6, <2>7 DEF TrackerTypeOK
  <2> QED
    BY <1>2, <2>8, RowsKept
<1>5. ASSUME NEW e \in Executions, TimerFires(m, e) PROVE IInv'
  <2>1. entries' \in [Mains -> [Executions -> Entries]]
    BY <1>1, <1>5 DEF TimerFires, TrackerTypeOK, Entries
  <2>2. calls' \in SUBSET Calls
    BY <1>1, <1>5 DEF TimerFires, Starts, NewCall, Calls, TrackerTypeOK
  <2>3. UNCHANGED <<mainTimer, leaked, polls>>
    BY <1>5 DEF TimerFires
  <2>4. TrackerTypeOK'
    BY <1>1, <2>1, <2>2, <2>3 DEF TrackerTypeOK
  <2> QED
    BY <1>2, <2>4, RowsKept
<1>6. ASSUME NEW e \in Executions, WebhookCalled(m, e) PROVE IInv'
  <2>1. calls' \in SUBSET Calls
    BY <1>1, <1>6 DEF WebhookCalled, NewCall, Calls, TrackerTypeOK
  <2>2. UNCHANGED <<mainTimer, leaked, entries, polls>>
    BY <1>6 DEF WebhookCalled
  <2>3. TrackerTypeOK'
    BY <1>1, <2>1, <2>2 DEF TrackerTypeOK
  <2> QED
    BY <1>2, <2>3, RowsKept
<1> QED
  BY <1>3, <1>4, <1>5, <1>6

-----------------------------------------------------------------------------
(* ExecutionService.stop *)

LEMMA StopInv ==
    ASSUME IInv,
           \/ \E m \in Mains, e \in Executions : StopRead(m, e)
           \/ \E x \in stops : StopEntry(x)
    PROVE  IInv'
<1>1. LTypeOK /\ TrackerTypeOK /\ StopTypeOK
  BY TypeParts DEF IInv
<1>2. ASSUME NEW m \in Mains, NEW e \in Executions, StopRead(m, e) PROVE IInv'
  <2>1. StopTypeOK'
    BY <1>1, <1>2 DEF StopRead, StopTypeOK, Stops
  <2>2. LTypeOK' /\ TrackerTypeOK' /\ UNCHANGED rowVars
    BY <1>1, <1>2 DEF StopRead, leaderVars, trackerVars, LTypeOK, TrackerTypeOK
  <2> QED
    BY <2>1, <2>2, RowsKept
<1>3. ASSUME NEW x \in stops, StopEntry(x) PROVE IInv'
  <2>1. x.main \in Mains /\ x.exec \in Executions /\ [x EXCEPT !.pc = "write"] \in Stops
    BY <1>1 DEF StopTypeOK, Stops
  <2>2. StopTypeOK'
    BY <1>1, <1>3, <2>1 DEF StopEntry, StopTypeOK
  <2>3. entries' \in [Mains -> [Executions -> Entries]]
    BY <1>1, <1>3, <2>1 DEF StopEntry, TrackerTypeOK, Entries
  <2>4. UNCHANGED <<leaderVars, rowVars, mainTimer, leaked, polls, calls>>
    BY <1>3 DEF StopEntry
  <2>5. LTypeOK' /\ TrackerTypeOK'
    BY <1>1, <2>3, <2>4 DEF leaderVars, LTypeOK, TrackerTypeOK
  <2> QED
    BY <2>2, <2>4, <2>5, RowsKept
<1> QED
  BY <1>2, <1>3

-----------------------------------------------------------------------------
(* Steps that write a row *)

\* What the trackers and the stops keep is left alone, or loses elements.
LEMMA OthersKept ==
    ASSUME IInv, UNCHANGED <<leaderVars, mainTimer, leaked, entries, polls>>,
           calls' \subseteq calls, stops' \subseteq stops
    PROVE  LTypeOK' /\ StopTypeOK' /\ TrackerTypeOK'
<1>1. LTypeOK /\ StopTypeOK /\ TrackerTypeOK
  BY TypeParts DEF IInv
<1> QED
  BY <1>1 DEF LTypeOK, StopTypeOK, TrackerTypeOK, leaderVars

\* What the invariant says of one execution and one of its waits.
LEMMA RowFacts ==
    ASSUME IInv, NEW e \in Executions
    PROVE  /\ row[e] \in Rows
           /\ row[e].wait \in Nat /\ waits[e] \in Nat /\ row[e].wait <= waits[e]
           /\ waits[e] <= MaxWaits
           /\ \A w \in Waits : resumed[e][w] \in 0..2
           /\ Limit(e) \in {1, 2}
BY WaitAssumption DEF IInv, TypeOK, Rows, WaitsHaveBegun, Limit

\* A resumption takes the room that the waiting row left.
LEMMA ResumeInv ==
    ASSUME IInv, NEW c \in calls, ResumeWrite(c)
    PROVE  IInv'
<1> DEFINE e == c.exec
           w == row[e].wait
           n == [exec |-> e, from |-> w, nth |-> resumed[e][w] + 1,
                 pc |-> "starting", save |-> "running", wait |-> 0]
<1>1. e \in Executions
  BY DEF IInv, TypeOK, Calls
<1>2. LTypeOK' /\ StopTypeOK' /\ TrackerTypeOK'
  BY OthersKept DEF ResumeWrite
<1>3. CASE ~ Waiting(e)
  BY <1>2, <1>3, RowsKept DEF ResumeWrite, rowVars
<1>4. CASE Waiting(e)
  <2>1. /\ row' = [row EXCEPT ![e] = [status |-> "running", wait |-> 0]]
        /\ resumed' = [resumed EXCEPT ![e][w] = @ + 1]
        /\ engines' = engines \union {n}
        /\ UNCHANGED <<waits, passed>>
    BY <1>4 DEF ResumeWrite, Resume
  <2>2. row[e] \in Rows /\ row[e].status = "waiting"
    BY <1>1, <1>4, RowFacts DEF Waiting
  <2>3. w \in Waits /\ w \in 0..MaxWaits
    BY <2>2, WaitAssumption DEF Rows, Waits
  <2>4. resumed[e][w] \in 0..2 /\ resumed[e][w] + 1 <= Limit(e) /\ Limit(e) \in {1, 2}
    BY <1>1, <2>2, <2>3, RowFacts DEF IInv, RoomToResume, WaitsAt
  <2>5. resumed[e][w] + 1 \in 0..2
    BY <2>4
  <2>6. n \in Engines
    BY <1>1, <2>3, <2>5, WaitAssumption DEF Engines, Statuses
  <2> HIDE DEF w
  <2>7. RowTypeOK'
    <3>1. RowTypeOK
      BY TypeParts DEF IInv
    <3>2. [status |-> "running", wait |-> 0] \in Rows
      BY WaitAssumption DEF Rows, Statuses
    <3>3. row' \in [Executions -> Rows]
      BY <1>1, <2>1, <3>1, <3>2 DEF RowTypeOK
    <3>4. resumed' \in [Executions -> [Waits -> 0..2]]
      BY <1>1, <2>1, <2>3, <2>5, <3>1 DEF RowTypeOK
    <3>5. engines' \in SUBSET Engines
      BY <2>1, <2>6, <3>1 DEF RowTypeOK
    <3> QED
      BY <2>1, <3>1, <3>3, <3>4, <3>5 DEF RowTypeOK
  <2>8. \A f \in Executions, v \in Waits :
          /\ row'[f] = IF f = e THEN [status |-> "running", wait |-> 0] ELSE row[f]
          /\ resumed'[f][v] = IF f = e /\ v = w THEN resumed[e][w] + 1 ELSE resumed[f][v]
    BY <1>1, <2>1, <2>3 DEF IInv, TypeOK
  <2>9. \A f \in Executions : row'[f].wait = (IF f = e THEN 0 ELSE row[f].wait)
    BY <1>1, <2>1 DEF IInv, TypeOK
  <2>10. \A g \in engines' : g.pc = "merging" => g \in engines
    BY <2>1
  <2>11. \A g \in engines', f \in Executions, v \in Waits : Again(g, f, v) => g \in engines
    BY <2>10 DEF Again
  <2>12. WaitsHaveBegun'
    <3>1. w <= waits[e] /\ waits[e] \in Nat /\ w \in Nat
      BY <1>1, RowFacts DEF w
    <3>2. \A f \in Executions : row'[f].wait <= waits'[f]
      BY <1>1, <2>1, <2>9, <3>1 DEF IInv, WaitsHaveBegun
    <3>3. \A f \in Executions, v \in Waits : v > waits'[f] => resumed'[f][v] = 0
      BY <2>1, <2>8, <3>1 DEF IInv, WaitsHaveBegun
    <3> QED
      BY <2>1, <2>10, <3>2, <3>3 DEF IInv, WaitsHaveBegun
  <2>13. SavedAgainOnce'
    BY <2>11 DEF IInv, SavedAgainOnce, Again
  <2>14. RoomToResume'
    <3> SUFFICES ASSUME NEW f \in Executions, NEW v \in Waits
                 PROVE  /\ resumed'[f][v] <= Limit(f)
                        /\ WaitsAt(f, v)' => resumed'[f][v] + 1 <= Limit(f)
                        /\ (\E g \in engines' : Again(g, f, v))
                              => resumed'[f][v] + 1 <= Limit(f)
                        /\ WaitsAt(f, v)' /\ (\E g \in engines' : Again(g, f, v))
                              => resumed'[f][v] + 2 <= Limit(f)
      BY DEF RoomToResume, Again, Limit
    <3>1. (\E g \in engines' : Again(g, f, v)) => \E g \in engines : Again(g, f, v)
      BY <2>11
    <3>2. WaitsAt(e, w)
      BY <2>2 DEF WaitsAt, w
    <3>3. resumed[f][v] \in 0..2 /\ Limit(f) \in {1, 2}
      BY RowFacts
    <3>4. CASE f = e /\ v = w
      <4>1. ~ WaitsAt(f, v)'
        BY <2>8, <3>4 DEF WaitsAt
      <4>2. (\E g \in engines : Again(g, f, v)) => resumed[f][v] + 2 <= Limit(f)
        BY <3>2, <3>4 DEF IInv, RoomToResume
      <4>3. resumed'[f][v] = resumed[f][v] + 1
        BY <2>8, <3>4
      <4> QED
        BY <2>4, <3>1, <3>3, <3>4, <4>1, <4>2, <4>3
    <3>5. CASE ~ (f = e /\ v = w)
      <4>1. resumed'[f][v] = resumed[f][v]
        BY <2>8, <3>5
      <4>2. WaitsAt(f, v)' => WaitsAt(f, v)
        BY <2>8 DEF WaitsAt
      <4> QED
        BY <3>1, <4>1, <4>2 DEF IInv, RoomToResume
    <3> QED
      BY <3>4, <3>5
  <2> QED
    BY <1>2, <2>7, <2>12, <2>13, <2>14, TypeParts DEF IInv
<1> QED
  BY <1>3, <1>4

\* A step that writes the row of e, does not let it wait, and creates no engine that will:
\* setRunning, a stop, the save of a run that ends, and the loss of an engine.
LEMMA NoWaitWritten ==
    ASSUME IInv, LTypeOK', StopTypeOK', TrackerTypeOK', UNCHANGED <<waits, passed, resumed>>,
           NEW e \in Executions, NEW r \in Rows, row' = [row EXCEPT ![e] = r],
           r.wait <= waits[e], r.status = "waiting" => r = row[e],
           engines' \in SUBSET Engines,
           \A g \in engines' : g.pc = "merging" =>
                \/ g \in engines
                \/ g.exec \in Merged /\ g.wait = 0 /\ g.save # "waiting"
    PROVE  IInv'
<1>1. RowTypeOK
  BY TypeParts DEF IInv
<1>2. RowTypeOK'
  BY <1>1 DEF RowTypeOK
<1>3. /\ row'[e] = r
      /\ \A f \in Executions : f # e => row'[f] = row[f]
  BY <1>1 DEF RowTypeOK
<1>4. \A g \in engines', f \in Executions, v \in Waits : Again(g, f, v) => g \in engines
  BY DEF Again
<1>5. \A f \in Executions, v \in Waits : WaitsAt(f, v)' => WaitsAt(f, v)
  BY <1>3 DEF WaitsAt
<1>6. WaitsHaveBegun'
  <2>1. \A f \in Executions : row'[f].wait <= waits'[f]
    BY <1>3 DEF IInv, WaitsHaveBegun
  <2>2. \A g \in engines' : g.pc = "merging" =>
          g.exec \in Merged /\ g.wait <= waits'[g.exec] /\ (g.save = "waiting" => g.wait # 0)
    <3> SUFFICES ASSUME NEW g \in engines', g.pc = "merging"
                 PROVE  /\ g.exec \in Merged /\ g.wait <= waits[g.exec]
                        /\ g.save = "waiting" => g.wait # 0
      OBVIOUS
    <3>1. CASE g \in engines
      BY <3>1 DEF IInv, WaitsHaveBegun
    <3>2. CASE g.exec \in Merged /\ g.wait = 0 /\ g.save # "waiting"
      <4>1. waits[g.exec] \in Nat
        BY <3>2, RowFacts, WaitAssumption
      <4> QED
        BY <3>2, <4>1
    <3> QED
      BY <3>1, <3>2
  <2> QED
    BY <2>1, <2>2 DEF IInv, WaitsHaveBegun
<1>7. SavedAgainOnce'
  BY <1>4 DEF IInv, SavedAgainOnce, Again
<1>8. RoomToResume'
  <2> SUFFICES ASSUME NEW f \in Executions, NEW v \in Waits
               PROVE  /\ resumed[f][v] <= Limit(f)
                      /\ WaitsAt(f, v)' => resumed[f][v] + 1 <= Limit(f)
                      /\ (\E g \in engines' : Again(g, f, v)) => resumed[f][v] + 1 <= Limit(f)
                      /\ WaitsAt(f, v)' /\ (\E g \in engines' : Again(g, f, v))
                            => resumed[f][v] + 2 <= Limit(f)
    BY DEF RoomToResume, Again, Limit
  <2>1. (\E g \in engines' : Again(g, f, v)) => \E g \in engines : Again(g, f, v)
    BY <1>4
  <2> QED
    BY <1>5, <2>1 DEF IInv, RoomToResume
<1> QED
  BY <1>2, <1>6, <1>7, <1>8, TypeParts DEF IInv

\* A run that waits begins a new wait: nobody has been resumed from it, no row or engine
\* knows it, and hookFunctionsSave may write it twice.
LEMMA NewWaitInv ==
    ASSUME IInv, LTypeOK', StopTypeOK', TrackerTypeOK', UNCHANGED <<passed, resumed>>,
           NEW g \in engines, waits[g.exec] < MaxWaits,
           row' = [row EXCEPT ![g.exec] = [status |-> "waiting", wait |-> waits[g.exec] + 1]],
           waits' = [waits EXCEPT ![g.exec] = waits[g.exec] + 1],
           \/ engines' = engines \ {g}
           \/ /\ g.exec \in Merged
              /\ engines' = (engines \ {g}) \union {[g EXCEPT !.pc = "merging",
                                !.save = "waiting", !.wait = waits[g.exec] + 1]}
    PROVE  IInv'
<1> DEFINE e == g.exec
           w == waits[e] + 1
           h == [g EXCEPT !.pc = "merging", !.save = "waiting", !.wait = w]
<1>1. RowTypeOK /\ e \in Executions /\ g \in Engines
  BY TypeParts DEF IInv, RowTypeOK, Engines
<1>2. w \in Waits /\ w \in 0..MaxWaits /\ w # 0 /\ waits[e] \in Nat /\ w \in Nat
  BY <1>1, RowFacts, WaitAssumption DEF Waits
<1>3. /\ h \in Engines /\ h.exec = e /\ h.pc = "merging" /\ h.save = "waiting" /\ h.wait = w
  BY <1>1, <1>2 DEF Engines, Statuses
<1> HIDE DEF w, h
<1>4. /\ row' = [row EXCEPT ![e] = [status |-> "waiting", wait |-> w]]
      /\ waits' = [waits EXCEPT ![e] = w]
  BY DEF w
<1>5. engines' = engines \ {g} \/ (e \in Merged /\ engines' = (engines \ {g}) \union {h})
  BY DEF w, h
<1>6. RowTypeOK'
  <2>1. [status |-> "waiting", wait |-> w] \in Rows
    BY <1>2 DEF Rows, Statuses
  <2> QED
    BY <1>1, <1>2, <1>3, <1>4, <1>5, <2>1 DEF RowTypeOK
<1>7. \A f \in Executions :
        /\ row'[f] = IF f = e THEN [status |-> "waiting", wait |-> w] ELSE row[f]
        /\ waits'[f] = IF f = e THEN w ELSE waits[f]
  BY <1>1, <1>4 DEF RowTypeOK
<1>8. \A f \in engines' : f \in engines \/ (f = h /\ e \in Merged)
  BY <1>5
<1>9. \A f \in Executions, v \in Waits : WaitsAt(f, v)' =>
        (f = e /\ v = w) \/ (f # e /\ WaitsAt(f, v))
  BY <1>7 DEF WaitsAt
\* What is known of a wait that has not begun.
<1>10. w > waits[e] /\ resumed[e][w] = 0 /\ \A f \in engines : ~ Again(f, e, w)
  <2>1. w > waits[e] /\ ~ (w <= waits[e])
    BY <1>2 DEF w
  <2>2. resumed[e][w] = 0
    BY <1>1, <1>2, <2>1 DEF IInv, WaitsHaveBegun
  <2>3. \A f \in engines : ~ Again(f, e, w)
    BY <2>1 DEF IInv, WaitsHaveBegun, Again
  <2> QED
    BY <2>1, <2>2, <2>3
<1>11. WaitsHaveBegun'
  <2>1. \A f \in Executions : waits[f] \in Nat /\ waits'[f] \in Nat /\ waits[f] <= waits'[f]
    <3>1. \A f \in Executions : waits[f] \in Nat
      BY RowFacts
    <3> QED
      BY <1>2, <1>7, <1>10, <3>1
  <2>2. \A f \in Executions : row'[f].wait <= waits'[f]
    BY <1>2, <1>7, RowFacts
  <2>3. \A f \in Executions, v \in Waits : v > waits'[f] => resumed[f][v] = 0
    <3> SUFFICES ASSUME NEW f \in Executions, NEW v \in Waits, v > waits'[f]
                 PROVE  resumed[f][v] = 0
      OBVIOUS
    <3>1. v > waits[f]
      BY <2>1, WaitAssumption DEF Waits
    <3> QED
      BY <3>1 DEF IInv, WaitsHaveBegun
  <2>4. ASSUME NEW f \in engines', f.pc = "merging"
        PROVE  /\ f.exec \in Merged /\ f.wait <= waits'[f.exec]
               /\ f.save = "waiting" => f.wait # 0
    <3>1. CASE f \in engines
      <4>1. /\ f.exec \in Merged /\ f.wait <= waits[f.exec]
            /\ f.save = "waiting" => f.wait # 0
        BY <2>4, <3>1 DEF IInv, WaitsHaveBegun
      <4>2. f.exec \in Executions /\ f.wait \in Nat
        BY <1>1, <3>1, WaitAssumption DEF RowTypeOK, Engines
      <4> QED
        BY <2>1, <4>1, <4>2
    <3>2. CASE f = h /\ e \in Merged
      BY <1>1, <1>2, <1>3, <1>7, <3>2
    <3> QED
      BY <1>8, <3>1, <3>2
  <2> QED
    BY <2>2, <2>3, <2>4 DEF WaitsHaveBegun
<1>12. SavedAgainOnce'
  <2> SUFFICES ASSUME NEW f \in Executions, NEW v \in Waits, NEW a \in engines',
                      NEW b \in engines', Again(a, f, v), Again(b, f, v)
               PROVE  a = b
    BY DEF SavedAgainOnce, Again
  <2>1. CASE f = e /\ v = w
    BY <1>8, <1>10, <2>1
  <2>2. CASE ~ (f = e /\ v = w)
    BY <1>3, <1>8, <2>2 DEF IInv, SavedAgainOnce, Again
  <2> QED
    BY <2>1, <2>2
<1>13. RoomToResume'
  <2> SUFFICES ASSUME NEW f \in Executions, NEW v \in Waits
               PROVE  /\ resumed[f][v] <= Limit(f)
                      /\ WaitsAt(f, v)' => resumed[f][v] + 1 <= Limit(f)
                      /\ (\E a \in engines' : Again(a, f, v)) => resumed[f][v] + 1 <= Limit(f)
                      /\ WaitsAt(f, v)' /\ (\E a \in engines' : Again(a, f, v))
                            => resumed[f][v] + 2 <= Limit(f)
    BY DEF RoomToResume, Again, Limit
  <2>1. CASE f = e /\ v = w
    <3>1. (\E a \in engines' : Again(a, f, v)) => Limit(f) = 2
      BY <1>8, <1>10, <2>1 DEF Limit
    <3> QED
      BY <1>10, <2>1, <3>1, RowFacts
  <2>2. CASE ~ (f = e /\ v = w)
    <3>1. WaitsAt(f, v)' => WaitsAt(f, v)
      BY <1>9, <2>2
    <3>2. (\E a \in engines' : Again(a, f, v)) => \E a \in engines : Again(a, f, v)
      BY <1>3, <1>8, <2>2 DEF Again
    <3> QED
      BY <3>1, <3>2 DEF IInv, RoomToResume
  <2> QED
    BY <2>1, <2>2
<1> QED
  BY <1>6, <1>11, <1>12, <1>13, TypeParts DEF IInv

\* Written again, a wait takes the room that the engine left.
LEMMA WaitAgainInv ==
    ASSUME IInv, LTypeOK', StopTypeOK', TrackerTypeOK', UNCHANGED <<waits, passed, resumed>>,
           NEW g \in engines, g.pc = "merging", g.save = "waiting",
           row' = [row EXCEPT ![g.exec] = [status |-> "waiting", wait |-> g.wait]],
           engines' = engines \ {g}
    PROVE  IInv'
<1> DEFINE e == g.exec
           w == g.wait
<1>1. RowTypeOK /\ e \in Executions /\ g \in Engines
  BY TypeParts DEF IInv, RowTypeOK, Engines
<1>2. /\ w \in Waits /\ w \in 0..MaxWaits /\ w # 0 /\ w <= waits[e]
  <2>1. w \in 0..MaxWaits /\ w # 0 /\ w <= waits[e]
    BY <1>1 DEF Engines, IInv, WaitsHaveBegun
  <2> QED
    BY <2>1, WaitAssumption DEF Waits
<1>3. Again(g, e, w)
  BY DEF Again
<1> HIDE DEF w, e
<1>4. row' = [row EXCEPT ![e] = [status |-> "waiting", wait |-> w]]
  BY DEF w, e
<1>5. RowTypeOK'
  <2>1. [status |-> "waiting", wait |-> w] \in Rows
    BY <1>2 DEF Rows, Statuses
  <2> QED
    BY <1>1, <1>4, <2>1 DEF RowTypeOK
<1>6. \A f \in Executions :
        row'[f] = IF f = e THEN [status |-> "waiting", wait |-> w] ELSE row[f]
  BY <1>1, <1>4 DEF RowTypeOK
<1>7. WaitsHaveBegun'
  BY <1>2, <1>6 DEF IInv, WaitsHaveBegun
<1>8. SavedAgainOnce'
  BY DEF IInv, SavedAgainOnce, Again
<1>9. \A f \in engines' : ~ Again(f, e, w)
  BY <1>1, <1>2, <1>3 DEF IInv, SavedAgainOnce
<1>10. RoomToResume'
  <2> SUFFICES ASSUME NEW f \in Executions, NEW v \in Waits
               PROVE  /\ resumed[f][v] <= Limit(f)
                      /\ WaitsAt(f, v)' => resumed[f][v] + 1 <= Limit(f)
                      /\ (\E a \in engines' : Again(a, f, v)) => resumed[f][v] + 1 <= Limit(f)
                      /\ WaitsAt(f, v)' /\ (\E a \in engines' : Again(a, f, v))
                            => resumed[f][v] + 2 <= Limit(f)
    BY DEF RoomToResume, Again, Limit
  <2>1. CASE f = e /\ v = w
    BY <1>3, <1>9, <2>1 DEF IInv, RoomToResume
  <2>2. CASE ~ (f = e /\ v = w)
    <3>1. WaitsAt(f, v)' => WaitsAt(f, v)
      BY <1>6, <2>2 DEF WaitsAt
    <3> QED
      BY <3>1 DEF IInv, RoomToResume
  <2> QED
    BY <2>1, <2>2
<1> QED
  BY <1>5, <1>7, <1>8, <1>10, TypeParts DEF IInv

\* What the engines and a stop write.
LEMMA WriteInv ==
    ASSUME IInv,
           \/ \E x \in stops : StopWrite(x)
           \/ \E g \in engines : SetRunning(g) \/ Save(g) \/ SaveAgain(g) \/ LoseEngine(g)
    PROVE  IInv'
<1>1. RowTypeOK /\ StopTypeOK /\ TypeOK
  BY TypeParts DEF IInv
<1>2. LTypeOK' /\ StopTypeOK' /\ TrackerTypeOK'
  BY OthersKept DEF StopWrite, SetRunning, Save, SaveAgain, LoseEngine, trackerVars
<1>3. ASSUME NEW x \in stops, StopWrite(x) PROVE IInv'
  <2>1. x.exec \in Executions
    BY <1>1 DEF StopTypeOK, Stops
  <2>2. [status |-> "canceled", wait |-> 0] \in Rows /\ 0 <= waits[x.exec]
    BY <2>1, RowFacts, WaitAssumption DEF Rows, Statuses, Final
  <2>3. engines' \in SUBSET Engines /\ engines' = engines
    BY <1>1, <1>3 DEF StopWrite, RowTypeOK
  <2>4. UNCHANGED <<waits, passed, resumed>>
        /\ row' = [row EXCEPT ![x.exec] = [status |-> "canceled", wait |-> 0]]
    BY <1>3 DEF StopWrite
  <2> QED
    BY <1>2, <2>1, <2>2, <2>3, <2>4, NoWaitWritten
<1>4. ASSUME NEW g \in engines PROVE g \in Engines /\ g.exec \in Executions
  BY <1>1 DEF RowTypeOK, Engines
<1>5. ASSUME NEW g \in engines, SetRunning(g) PROVE IInv'
  <2>1. row[g.exec] \in Rows
    BY <1>4, RowFacts
  <2> DEFINE r == [status |-> "running", wait |-> row[g.exec].wait]
  <2>2. r \in Rows /\ r.wait <= waits[g.exec] /\ r.status # "waiting"
    BY <1>4, <2>1, RowFacts DEF Rows, Statuses
  <2>3. row' = [row EXCEPT ![g.exec] = r]
    <3>1. [row[g.exec] EXCEPT !.status = "running"] = r
      BY <2>1 DEF Rows
    <3>2. row' = [row EXCEPT ![g.exec] = [row[g.exec] EXCEPT !.status = "running"]]
      BY <1>1, <1>4, <1>5 DEF SetRunning, RowTypeOK
    <3> QED
      BY <3>1, <3>2
  <2>4. [g EXCEPT !.pc = "running"] \in Engines
    BY <1>4 DEF Engines
  <2>5. engines' \in SUBSET Engines
    BY <1>1, <1>5, <2>4 DEF SetRunning, RowTypeOK
  <2>6. [g EXCEPT !.pc = "running"].pc = "running"
    BY <1>4 DEF Engines
  <2>7. \A h \in engines' : h.pc = "merging" => h \in engines
    BY <1>5, <2>6 DEF SetRunning
  <2>8. UNCHANGED <<waits, passed, resumed>>
    BY <1>5 DEF SetRunning
  <2> HIDE DEF r
  <2> QED
    BY <1>2, <1>4, <2>2, <2>3, <2>5, <2>7, <2>8, NoWaitWritten
<1>6. ASSUME NEW g \in engines, Save(g) PROVE IInv'
  <2> DEFINE e == g.exec
             v(s) == IF s = "waiting" THEN waits[e] + 1 ELSE 0
             h(s) == [g EXCEPT !.pc = "merging", !.save = s, !.wait = v(s)]
  <2>1. PICK s \in Ends(e) :
          /\ row' = [row EXCEPT ![e] = Saved(@, s, v(s))]
          /\ waits' = [waits EXCEPT ![e] = IF s = "waiting" THEN v(s) ELSE @]
          /\ engines' = engines \ {g} \/ (e \in Merged /\ engines' = (engines \ {g}) \union {h(s)})
          /\ UNCHANGED <<passed, resumed>>
    BY <1>6 DEF Save
  <2>2. e \in Executions /\ g \in Engines
    BY <1>4
  <2>3. CASE s = "waiting"
    <3>1. waits[e] < MaxWaits
      BY <2>1, <2>3 DEF Ends, Final
    <3>2. row' = [row EXCEPT ![e] = [status |-> "waiting", wait |-> waits[e] + 1]]
      BY <1>1, <2>1, <2>2, <2>3 DEF Saved, RowTypeOK
    <3> QED
      BY <1>2, <2>1, <2>3, <3>1, <3>2, NewWaitInv
  <2>4. CASE s # "waiting"
    <3> DEFINE r == [status |-> s, wait |-> row[e].wait]
    <3>1. s \in Final /\ s \in Statuses
      BY <2>1, <2>4 DEF Ends, Statuses
    <3>2. r \in Rows /\ r.wait <= waits[e] /\ r.status # "waiting"
      BY <2>2, <2>4, <3>1, RowFacts DEF Rows
    <3>3. row' = [row EXCEPT ![e] = r] /\ waits' = waits
      BY <1>1, <2>1, <2>2, <2>4 DEF Saved, RowTypeOK
    <3>4. h(s) \in Engines /\ h(s).exec = e /\ h(s).save = s /\ h(s).wait = 0
      <4>1. v(s) = 0
        BY <2>4
      <4>2. h(s) = [g EXCEPT !.pc = "merging", !.save = s, !.wait = 0]
        BY <4>1
      <4> HIDE DEF h, v
      <4>3. 0 \in 0..MaxWaits
        BY WaitAssumption
      <4> QED
        BY <2>2, <3>1, <4>2, <4>3 DEF Engines
    <3>5. engines' \in SUBSET Engines
      BY <1>1, <2>1, <3>4 DEF RowTypeOK
    <3>6. \A f \in engines' : f.pc = "merging" =>
            f \in engines \/ (f.exec \in Merged /\ f.wait = 0 /\ f.save # "waiting")
      BY <2>1, <2>4, <3>4
    <3> HIDE DEF r
    <3> QED
      BY <1>2, <2>1, <2>2, <3>2, <3>3, <3>5, <3>6, NoWaitWritten
  <2> QED
    BY <2>3, <2>4
<1>7. ASSUME NEW g \in engines, SaveAgain(g) PROVE IInv'
  <2>1. /\ g.pc = "merging"
        /\ row' = [row EXCEPT ![g.exec] = Saved(@, g.save, g.wait)]
        /\ engines' = engines \ {g}
        /\ UNCHANGED <<waits, passed, resumed>>
    BY <1>7 DEF SaveAgain
  <2>2. CASE g.save = "waiting"
    <3>1. row' = [row EXCEPT ![g.exec] = [status |-> "waiting", wait |-> g.wait]]
      BY <1>1, <1>4, <2>1, <2>2 DEF Saved, RowTypeOK
    <3> QED
      BY <1>2, <2>1, <2>2, <3>1, WaitAgainInv
  <2>3. CASE g.save # "waiting"
    <3> DEFINE r == [status |-> g.save, wait |-> row[g.exec].wait]
    <3>1. r \in Rows /\ r.wait <= waits[g.exec] /\ r.status # "waiting"
      BY <1>4, <2>3, RowFacts DEF Rows, Engines
    <3>2. row' = [row EXCEPT ![g.exec] = r]
      BY <1>1, <1>4, <2>1, <2>3 DEF Saved, RowTypeOK
    <3>3. engines' \in SUBSET Engines /\ engines' \subseteq engines
      BY <1>1, <2>1 DEF RowTypeOK
    <3> HIDE DEF r
    <3> QED
      BY <1>2, <1>4, <2>1, <3>1, <3>2, <3>3, NoWaitWritten
  <2> QED
    BY <2>2, <2>3
<1>8. ASSUME NEW g \in engines, LoseEngine(g) PROVE IInv'
  <2>1. row' = [row EXCEPT ![g.exec] = row[g.exec]]
    BY <1>1, <1>4, <1>8 DEF LoseEngine, RowTypeOK
  <2>2. row[g.exec] \in Rows /\ row[g.exec].wait <= waits[g.exec]
    BY <1>4, RowFacts
  <2>3. engines' \in SUBSET Engines /\ engines' \subseteq engines
        /\ UNCHANGED <<waits, passed, resumed>>
    BY <1>1, <1>8 DEF LoseEngine, RowTypeOK
  <2> QED
    BY <1>2, <1>4, <2>1, <2>2, <2>3, NoWaitWritten
<1> QED
  BY <1>3, <1>5, <1>6, <1>7, <1>8

LEMMA TimeInv ==
    ASSUME IInv, NEW e \in Executions, NEW w \in Waits, TimePasses(e, w)
    PROVE  IInv'
<1>1. LTypeOK /\ RowTypeOK /\ StopTypeOK /\ TrackerTypeOK
  BY TypeParts DEF IInv
<1>2. /\ UNCHANGED <<leaderVars, row, waits, resumed, engines, stops, trackerVars>>
      /\ passed' = passed \union {<<e, w>>}
  BY DEF TimePasses
<1>3. passed' \in Found
  BY <1>1, <1>2 DEF RowTypeOK, Found
<1>4. LTypeOK' /\ RowTypeOK' /\ StopTypeOK' /\ TrackerTypeOK'
  BY <1>1, <1>2, <1>3
  DEF LTypeOK, RowTypeOK, StopTypeOK, TrackerTypeOK, leaderVars, trackerVars
<1>5. WaitsHaveBegun' /\ SavedAgainOnce' /\ RoomToResume'
  BY <1>2 DEF IInv, WaitsHaveBegun, SavedAgainOnce, RoomToResume, WaitsAt, Again
<1> QED
  BY <1>4, <1>5, TypeParts DEF IInv

-----------------------------------------------------------------------------

LEMMA InitInv == Init => IInv
<1> SUFFICES ASSUME Init PROVE IInv
  OBVIOUS
<1>1. LTypeOK
  BY DEF Init, LInit, LTypeOK, Phases, Roles
<1>2. RowTypeOK
  <2>1. \A e \in Executions : FirstEngine(e) \in Engines
    BY WaitAssumption DEF FirstEngine, Engines, Statuses
  <2>2. engines \in SUBSET Engines
    BY <2>1 DEF Init
  <2>3. row \in [Executions -> Rows]
    BY WaitAssumption DEF Init, Rows, Statuses
  <2> QED
    BY <2>2, <2>3, WaitAssumption DEF Init, RowTypeOK, Found
<1>3. TrackerTypeOK /\ StopTypeOK
  <2>1. leaked \in [Mains -> BOOLEAN]
    BY Zenon DEF Init
  <2>2. /\ mainTimer \in [Mains -> {"none", "live", "cleared"}]
        /\ entries \in [Mains -> [Executions -> Entries]]
        /\ polls \in [Mains -> SUBSET Found]
        /\ calls \in SUBSET Calls
        /\ stops \in SUBSET Stops
    BY DEF Init, Entries
  <2> QED
    BY <2>1, <2>2 DEF TrackerTypeOK, StopTypeOK
<1>4. \A g \in engines : g.pc # "merging"
  BY DEF Init, FirstEngine
<1>5. WaitsHaveBegun /\ SavedAgainOnce
  BY <1>4 DEF Init, WaitsHaveBegun, SavedAgainOnce, Again
<1>6. RoomToResume
  BY <1>4 DEF Init, RoomToResume, WaitsAt, Again, Limit
<1> QED
  BY <1>1, <1>2, <1>3, <1>5, <1>6, TypeParts DEF IInv

LEMMA NextInv == IInv /\ [Next]_vars => IInv'
<1> SUFFICES ASSUME IInv, [Next]_vars PROVE IInv'
  OBVIOUS
<1>1. CASE UNCHANGED vars
  <2>1. UNCHANGED <<leaderVars, mainTimer, leaked, entries, polls, calls, stops, rowVars>>
    BY <1>1 DEF vars, trackerVars
  <2>2. LTypeOK' /\ StopTypeOK' /\ TrackerTypeOK'
    BY <2>1, OthersKept
  <2> QED
    BY <2>1, <2>2, RowsKept
<1>2. CASE \E m \in Mains :
        \/ Uninvolved(m) \/ InitTracker(m) \/ Takeover(m) \/ Stepdown(m)
        \/ StopProcess(m) \/ Exit(m)
  BY <1>2, LeadershipInv
<1>3. CASE \E m \in Mains :
        \/ PollTick(m) \/ PollHandled(m)
        \/ \E e \in Executions : TimerFires(m, e) \/ WebhookCalled(m, e)
  BY <1>3, TrackerInv
<1>4. CASE \/ \E m \in Mains, e \in Executions : StopRead(m, e)
           \/ \E x \in stops : StopEntry(x)
  BY <1>4, StopInv
<1>5. CASE \E c \in calls : ResumeWrite(c)
  BY <1>5, ResumeInv
<1>6. CASE \/ \E x \in stops : StopWrite(x)
           \/ \E g \in engines : SetRunning(g) \/ Save(g) \/ SaveAgain(g) \/ LoseEngine(g)
  BY <1>6, WriteInv
<1>7. CASE \E e \in Executions, w \in Waits : TimePasses(e, w)
  BY <1>7, TimeInv
<1> QED
  BY <1>1, <1>2, <1>3, <1>4, <1>5, <1>6, <1>7 DEF Next

\* The variables have their types, for any number of processes, executions and waits.
THEOREM TypeCorrect == Spec => []TypeOK
<1>1. IInv => TypeOK
  BY DEF IInv
<1> QED
  BY <1>1, InitInv, NextInv, PTL DEF Spec

\* For any number of processes that track the same execution, whoever of them leads, any
\* number of webhooks and stops, and with saves that write 'waiting' over whatever the row
\* says: an execution is resumed at most once for each time 'waiting' is written to its row,
\* once a wait, or twice if hookFunctionsSave saves it again (active-executions.ts,
\* requireStatus).
THEOREM ResumedOnce == Spec => []OneResumptionPerWait
<1>1. IInv => OneResumptionPerWait
  BY DEF IInv, RoomToResume, OneResumptionPerWait, Limit
<1> QED
  BY <1>1, InitInv, NextInv, PTL DEF Spec

\* Once the engines and stops of an execution have written that it ended, no timer, poll,
\* webhook or call that survives, on any process, brings it back (wait-tracker.ts,
\* startExecution; active-executions.ts, add).
THEOREM NeverBroughtBack == Spec => EndedStaysEnded
<1>1. ASSUME IInv, [Next]_vars
      PROVE  [\A e \in Executions : Ended(e) => Ended(e)' /\ row'[e] = row[e]]_vars
  <2> SUFFICES ASSUME NEW e \in Executions, Ended(e), Next
               PROVE  Ended(e)' /\ row'[e] = row[e]
    BY <1>1 DEF Ended
  <2>1. /\ row \in [Executions -> Rows] /\ calls \in SUBSET Calls
        /\ row[e].status \in Final
        /\ \A g \in engines : g.exec # e
        /\ \A x \in stops : x.exec # e
    BY <1>1 DEF IInv, TypeOK, Ended
  <2> SUFFICES /\ row'[e] = row[e]
               /\ \A g \in engines' : g.exec # e
               /\ \A x \in stops' : x.exec # e
    BY <2>1 DEF Ended
  <2>2. ASSUME NEW c \in calls, ResumeWrite(c)
        PROVE  /\ row'[e] = row[e] /\ stops' = stops
               /\ \A g \in engines' : g.exec # e
    <3>1. CASE ~ Waiting(c.exec)
      BY <2>1, <2>2, <3>1 DEF ResumeWrite
    <3>2. CASE Waiting(c.exec)
      <4>1. c.exec # e
        BY <2>1, <3>2 DEF Waiting, Final
      <4> QED
        BY <2>1, <2>2, <3>2, <4>1 DEF ResumeWrite, Resume
    <3> QED
      BY <3>1, <3>2
  <2>3. ASSUME NEW m \in Mains, NEW f \in Executions, StopRead(m, f)
        PROVE  UNCHANGED rowVars /\ \A x \in stops' : x.exec # e
    BY <2>1, <2>3 DEF StopRead, Final
  <2>4. ASSUME NEW x \in stops, StopEntry(x)
        PROVE  UNCHANGED rowVars /\ \A y \in stops' : y.exec # e
    <3>1. [x EXCEPT !.pc = "write"].exec = x.exec
      BY <1>1 DEF IInv, TypeOK, Stops
    <3> QED
      BY <2>1, <2>4, <3>1 DEF StopEntry
  <2>5. ASSUME NEW x \in stops, StopWrite(x)
        PROVE  row'[e] = row[e] /\ engines' = engines /\ stops' \subseteq stops
    BY <2>1, <2>5 DEF StopWrite
  <2>6. ASSUME NEW g \in engines, SetRunning(g) \/ Save(g) \/ SaveAgain(g) \/ LoseEngine(g)
        PROVE  row'[e] = row[e] /\ stops' = stops /\ \A h \in engines' : h.exec # e
    <3>1. g \in Engines /\ g.exec # e
      BY <1>1, <2>1 DEF IInv, TypeOK
    <3>2. row'[e] = row[e] /\ stops' = stops
      BY <2>1, <2>6, <3>1 DEF SetRunning, Save, SaveAgain, LoseEngine
    <3>3. CASE SetRunning(g)
      <4>1. [g EXCEPT !.pc = "running"].exec = g.exec
        BY <3>1 DEF Engines
      <4> QED
        BY <2>1, <3>1, <3>2, <3>3, <4>1 DEF SetRunning
    <3>4. CASE Save(g)
      <4> DEFINE v(s) == IF s = "waiting" THEN waits[g.exec] + 1 ELSE 0
                 n(s) == [g EXCEPT !.pc = "merging", !.save = s, !.wait = v(s)]
      <4>1. PICK s \in Ends(g.exec) :
              engines' = engines \ {g} \/ engines' = (engines \ {g}) \union {n(s)}
        BY <3>4 DEF Save
      <4>2. n(s).exec = g.exec
        BY <3>1 DEF Engines
      <4> HIDE DEF n
      <4> QED
        BY <2>1, <3>1, <3>2, <4>1, <4>2
    <3>5. CASE SaveAgain(g) \/ LoseEngine(g)
      BY <2>1, <3>2, <3>5 DEF SaveAgain, LoseEngine
    <3> QED
      BY <2>6, <3>3, <3>4, <3>5
  <2>7. ASSUME NEW m \in Mains,
               \/ Uninvolved(m) \/ InitTracker(m) \/ Takeover(m) \/ Stepdown(m)
               \/ StopProcess(m) \/ Exit(m) \/ PollTick(m) \/ PollHandled(m)
               \/ \E f \in Executions : TimerFires(m, f) \/ WebhookCalled(m, f)
        PROVE  UNCHANGED rowVars /\ stops' \subseteq stops
    BY <2>7 DEF Uninvolved, InitTracker, Takeover, Stepdown, StopProcess, Exit, PollTick,
       PollHandled, TimerFires, WebhookCalled
  <2>8. ASSUME NEW f \in Executions, NEW w \in Waits, TimePasses(f, w)
        PROVE  UNCHANGED <<row, engines, stops>>
    BY <2>8 DEF TimePasses
  <2> QED
    BY <2>1, <2>2, <2>3, <2>4, <2>5, <2>6, <2>7, <2>8 DEF Next, rowVars
<1> QED
  BY <1>1, InitInv, NextInv, PTL DEF Spec, EndedStaysEnded
=============================================================================
