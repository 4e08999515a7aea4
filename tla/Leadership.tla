----------------------------- MODULE Leadership -----------------------------
(***************************************************************************)
(* What the services of a main process (wait tracker, queue recovery,      *)
(* pruning, triggers) see of leadership: the start and the end of the      *)
(* process, its role, and the events 'leader-takeover' and                 *)
(* 'leader-stepdown' that MultiMainSetup emits.  This is the abstract      *)
(* specification that MultiMain implements and WaitTracker builds on: it   *)
(* says nothing of who becomes leader, and allows several at a time.       *)
(***************************************************************************)

CONSTANT Mains   \* the main processes, by hostId (a restart keeps it, as in Docker)

VARIABLES
    phase,   \* how far each process is in Start.init and Start.stopProcess
    role     \* instanceSettings.instanceRole

leaderVars == <<phase, role>>

(***************************************************************************)
(* "starting"  Start.init, up to WaitTracker.init                          *)
(* "tracking"  WaitTracker.init has run, no event handler is registered    *)
(* "ready"     the event handlers are registered                           *)
(* "stopping"  Start.stopProcess has stopped the wait tracker              *)
(***************************************************************************)
Phases == {"down", "starting", "tracking", "ready", "stopping"}
Roles == {"unset", "leader", "follower"}

Alive(m) == phase[m] # "down"

\* The phases in which the events reach the services.
Registered == {"ready", "stopping"}

LTypeOK ==
    /\ phase \in [Mains -> Phases]
    /\ role \in [Mains -> Roles]

LInit ==
    /\ phase = [m \in Mains |-> "down"]
    /\ role = [m \in Mains |-> "unset"]

Enters(m, p) == phase' = [phase EXCEPT ![m] = p]
Becomes(m, r) == role' = [role EXCEPT ![m] = r]

LStart(m) == phase[m] = "down" /\ Enters(m, "starting") /\ UNCHANGED role

\* The process gains leadership and 'leader-takeover' is emitted, also when it
\* believed to lead already.
LTakeover(m) == Alive(m) /\ Becomes(m, "leader") /\ UNCHANGED phase

\* The process loses leadership or finds it vacant, and 'leader-stepdown' is emitted.
LStepdown(m) == Alive(m) /\ Becomes(m, "follower") /\ UNCHANGED phase

\* The process becomes a follower and no event says so.
LDemote(m) == Alive(m) /\ Becomes(m, "follower") /\ UNCHANGED phase

\* Start.init goes on once the first election has given the process a role.
LInitTracker(m) ==
    /\ phase[m] = "starting"
    /\ role[m] # "unset"
    /\ Enters(m, "tracking")
    /\ UNCHANGED role

LRegister(m) == phase[m] = "tracking" /\ Enters(m, "ready") /\ UNCHANGED role

LStopProcess(m) == phase[m] = "ready" /\ Enters(m, "stopping") /\ UNCHANGED role

\* The process ends: in order, or by a crash at any point.
LExit(m) == Alive(m) /\ Enters(m, "down") /\ Becomes(m, "unset")

LNext == \E m \in Mains :
    \/ LStart(m) \/ LTakeover(m) \/ LStepdown(m) \/ LDemote(m)
    \/ LInitTracker(m) \/ LRegister(m) \/ LStopProcess(m) \/ LExit(m)

LSpec == LInit /\ [][LNext]_leaderVars
=============================================================================
