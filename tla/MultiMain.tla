----------------------------- MODULE MultiMain ------------------------------
(***************************************************************************)
(* MultiMainSetup: main processes elect a leader through a Redis key that  *)
(* expires.  Each process talks to Redis over one connection, on which     *)
(* commands are executed and answered in order; an interval starts a check *)
(* whether or not the previous one has ended.  The part of each handler    *)
(* behind an `await` is the action that takes the reply off the            *)
(* connection.                                                             *)
(***************************************************************************)
EXTENDS Naturals, Sequences

CONSTANTS
    Mains,        \* the main processes, by hostId (a restart keeps it, as in Docker)
    None,         \* no leader key
    TTL,          \* time to live of the key, in check intervals
    MaxPipeline,  \* bound: commands of one process under way
    Stoppable     \* bound: the processes that end, in order or by a crash

ASSUME MultiMainAssumption ==
    /\ None \notin Mains
    /\ TTL \in Nat /\ TTL >= 2
    /\ MaxPipeline \in Nat \ {0}
    /\ Stoppable \subseteq Mains

VARIABLES
    phase,  \* how far each process is in Start.init and Start.stopProcess
    role,   \* instanceSettings.instanceRole
    event,  \* the last event each process emitted since its start
    key,    \* the value of the leader key in Redis
    ttl,    \* intervals until it expires
    conn,   \* per process, the commands under way, the oldest first
    due,    \* whether the check interval of a process has elapsed
    late    \* whether time has ever passed while a check was due or under way

leaderVars == <<phase, role, event>>
electionVars == <<key, ttl, conn, due, late>>
vars == <<leaderVars, electionVars>>

(***************************************************************************)
(* "init"      MultiMainSetup.init awaits its first tryBecomeLeader        *)
(* "elected"   the check interval runs, the services are not started       *)
(* "tracking"  WaitTracker.init has run, no event handler is registered    *)
(* "ready"     the event handlers are registered                           *)
(* "stopping"  Start.stopProcess has stopped the wait tracker              *)
(* "leaving"   MultiMainSetup.shutdown awaits the removal of the key       *)
(***************************************************************************)
Phases == {"down", "init", "elected", "tracking", "ready", "stopping", "leaving"}
Roles == {"unset", "leader", "follower"}
Events == {"none", "takeover", "stepdown"}

Alive(m) == phase[m] # "down"
Enters(m, p) == phase' = [phase EXCEPT ![m] = p]
Becomes(m, r) == role' = [role EXCEPT ![m] = r]
Emits(m, e) == event' = [event EXCEPT ![m] = e]

\* SETNX answers with the caller's id for OK and with None for a refusal.
Commands == [cmd : {"get", "setnx", "expire", "del"},
             done : BOOLEAN,
             reply : Mains \union {None}]

Command(c) == [cmd |-> c, done |-> FALSE, reply |-> None]

TypeOK ==
    /\ phase \in [Mains -> Phases]
    /\ role \in [Mains -> Roles]
    /\ event \in [Mains -> Events]
    /\ key \in Mains \union {None}
    /\ ttl \in 0..TTL
    /\ conn \in [Mains -> Seq(Commands)]
    /\ due \in [Mains -> BOOLEAN]
    /\ late \in BOOLEAN

Init ==
    /\ phase = [m \in Mains |-> "down"]
    /\ role = [m \in Mains |-> "unset"]
    /\ event = [m \in Mains |-> "none"]
    /\ key = None
    /\ ttl = 0
    /\ conn = [m \in Mains |-> <<>>]
    /\ due = [m \in Mains |-> FALSE]
    /\ late = FALSE

-----------------------------------------------------------------------------
(* Redis *)

\* The position of the first command of m that Redis has not executed.
IsNextCommand(m, i) ==
    /\ i \in 1..Len(conn[m])
    /\ ~ conn[m][i].done
    /\ \A j \in 1..(i - 1) : conn[m][j].done

Answer(m, i, r) ==
    conn' = [conn EXCEPT ![m][i] = [@ EXCEPT !.done = TRUE, !.reply = r]]

\* publisher.get
RedisGet(m, i) ==
    /\ conn[m][i].cmd = "get"
    /\ Answer(m, i, key)
    /\ UNCHANGED <<key, ttl>>

\* publisher.setIfNotExists: SET with EX and NX.
RedisSetIfNotExists(m, i) ==
    /\ conn[m][i].cmd = "setnx"
    /\ \/ /\ key = None
          /\ key' = m
          /\ ttl' = TTL
          /\ Answer(m, i, m)
       \/ /\ key # None
          /\ Answer(m, i, None)
          /\ UNCHANGED <<key, ttl>>

\* publisher.setExpiration: EXPIRE renews the key whoever holds it by now.
RedisExpire(m, i) ==
    /\ conn[m][i].cmd = "expire"
    /\ ttl' = IF key = None THEN ttl ELSE TTL
    /\ Answer(m, i, None)
    /\ UNCHANGED key

\* publisher.clear: DEL removes the key whoever holds it by now.
RedisDel(m, i) ==
    /\ conn[m][i].cmd = "del"
    /\ key' = None
    /\ ttl' = 0
    /\ Answer(m, i, None)

RedisExecutes(m) == \E i \in 1..Len(conn[m]) :
    /\ IsNextCommand(m, i)
    /\ RedisGet(m, i) \/ RedisSetIfNotExists(m, i) \/ RedisExpire(m, i) \/ RedisDel(m, i)
    /\ UNCHANGED <<leaderVars, due, late>>

\* Some process has not caught up with the last elapsed interval.
Behind == \E m \in Mains : due[m] \/ conn[m] # <<>>

Intervals == {"elected", "tracking", "ready", "stopping"}

\* An interval elapses: checks become due, and a key that is not renewed expires.
IntervalElapses ==
    /\ ttl' = IF key = None THEN 0 ELSE ttl - 1
    /\ key' = IF ttl = 1 THEN None ELSE key
    /\ due' = [m \in Mains |-> phase[m] \in Intervals]
    /\ UNCHANGED <<leaderVars, conn>>

Tick == ~ Behind /\ IntervalElapses /\ UNCHANGED late

\* A process or Redis is slow: time passes with checks due or under way.
LateTick == Behind /\ IntervalElapses /\ late' = TRUE

-----------------------------------------------------------------------------
(* MultiMainSetup *)

Send(m, c) == conn' = [conn EXCEPT ![m] = Append(@, Command(c))]
Received(m, c) ==
    /\ conn[m] # <<>>
    /\ Head(conn[m]).done
    /\ Head(conn[m]).cmd = c
Reply(m) == Head(conn[m]).reply
Take(m) == conn' = [conn EXCEPT ![m] = Tail(@)]
TakeAndSend(m, c) == conn' = [conn EXCEPT ![m] = Append(Tail(@), Command(c))]

\* init() up to its await: the key is asked for at once.
Start(m) ==
    /\ phase[m] = "down"
    /\ Enters(m, "init")
    /\ Send(m, "setnx")
    /\ UNCHANGED <<role, event, key, ttl, due, late>>

\* The interval calls checkLeader(), which asks for the key.
CheckLeader(m) ==
    /\ due[m]
    /\ Len(conn[m]) < MaxPipeline
    /\ due' = [due EXCEPT ![m] = FALSE]
    /\ Send(m, "get")
    /\ UNCHANGED <<leaderVars, key, ttl, late>>

KeyIsOwn_NotRenewed(m) ==
    /\ Received(m, "get")
    /\ Reply(m) = m
    /\ Becomes(m, "leader")
    /\ IF role[m] # "leader" THEN Emits(m, "takeover") ELSE UNCHANGED event
    /\ Take(m)
    /\ UNCHANGED <<phase, key, ttl, due, late>>

\* checkLeader(): this process holds the key.
KeyIsOwn(m) ==
    /\ Received(m, "get")
    /\ Reply(m) = m
    /\ Becomes(m, "leader")
    /\ IF role[m] # "leader" THEN Emits(m, "takeover") ELSE UNCHANGED event
    /\ TakeAndSend(m, "expire")
    /\ UNCHANGED <<phase, key, ttl, due, late>>

KeyIsOthers_Ignored(m) ==
    /\ Received(m, "get")
    /\ Reply(m) \notin {m, None}
    /\ Take(m)
    /\ UNCHANGED <<leaderVars, key, ttl, due, late>>

\* checkLeader(): another process holds the key.
KeyIsOthers(m) ==
    /\ Received(m, "get")
    /\ Reply(m) \notin {m, None}
    /\ \/ /\ role[m] = "leader"
          /\ Becomes(m, "follower")
          /\ Emits(m, "stepdown")
       \/ /\ role[m] # "leader"
          /\ UNCHANGED <<role, event>>
    /\ Take(m)
    /\ UNCHANGED <<phase, key, ttl, due, late>>

\* checkLeader(): nobody holds the key; tryBecomeLeader() asks for it.
KeyIsVacant(m) ==
    /\ Received(m, "get")
    /\ Reply(m) = None
    /\ Becomes(m, "follower")
    /\ Emits(m, "stepdown")
    /\ TakeAndSend(m, "setnx")
    /\ UNCHANGED <<phase, key, ttl, due, late>>

\* tryBecomeLeader() behind its await; the first one ends init().
TriedToBecomeLeader(m) ==
    /\ Received(m, "setnx")
    /\ \/ /\ Reply(m) = m
          /\ Becomes(m, "leader")
          /\ Emits(m, "takeover")
       \/ /\ Reply(m) = None
          /\ Becomes(m, "follower")
          /\ UNCHANGED event
    /\ phase' = IF phase[m] = "init" THEN [phase EXCEPT ![m] = "elected"] ELSE phase
    /\ Take(m)
    /\ UNCHANGED <<key, ttl, due, late>>

\* setExpiration() has been answered: checkLeader() ends.
Renewed(m) ==
    /\ Received(m, "expire")
    /\ Take(m)
    /\ UNCHANGED <<leaderVars, key, ttl, due, late>>

InitTracker_NotAwaited(m) ==
    /\ phase[m] \in {"init", "elected"}
    /\ Enters(m, "tracking")
    /\ UNCHANGED <<role, event, electionVars>>

\* Start.init goes on: WaitTracker.init, and later registerEventHandlers.
InitTracker(m) ==
    /\ phase[m] = "elected"
    /\ Enters(m, "tracking")
    /\ UNCHANGED <<role, event, electionVars>>

RegisterEventHandlers(m) ==
    /\ phase[m] = "tracking"
    /\ Enters(m, "ready")
    /\ UNCHANGED <<role, event, electionVars>>

\* Start.stopProcess, up to the shutdown of the multi-main setup.
StopProcess(m) ==
    /\ m \in Stoppable
    /\ phase[m] = "ready"
    /\ Enters(m, "stopping")
    /\ UNCHANGED <<role, event, electionVars>>

\* shutdown(): the interval is cleared; a process that believes to lead removes the key.
ShutdownLeader(m) ==
    /\ phase[m] = "stopping"
    /\ role[m] = "leader"
    /\ Enters(m, "leaving")
    /\ due' = [due EXCEPT ![m] = FALSE]
    /\ Send(m, "del")
    /\ UNCHANGED <<role, event, key, ttl, late>>

\* The process and its connection are gone; commands Redis has not executed are lost.
Gone(m) ==
    /\ Enters(m, "down")
    /\ Becomes(m, "unset")
    /\ Emits(m, "none")
    /\ conn' = [conn EXCEPT ![m] = <<>>]
    /\ due' = [due EXCEPT ![m] = FALSE]
    /\ UNCHANGED <<key, ttl, late>>

\* shutdown() has nothing to remove, or has removed it: Publisher.shutdown follows.
ShutdownFollower(m) == phase[m] = "stopping" /\ role[m] # "leader" /\ Gone(m)
KeyCleared(m) == Received(m, "del") /\ Gone(m)

Crash(m) == m \in Stoppable /\ Alive(m) /\ Gone(m)

Handle(m) ==
    \/ KeyIsOwn(m) \/ KeyIsOthers(m) \/ KeyIsVacant(m)
    \/ TriedToBecomeLeader(m) \/ Renewed(m) \/ KeyCleared(m)

Startup(m) == InitTracker(m) \/ RegisterEventHandlers(m)
Shutdown(m) == ShutdownLeader(m) \/ ShutdownFollower(m)

Next ==
    \/ Tick \/ LateTick
    \/ \E m \in Mains :
        \/ RedisExecutes(m) \/ CheckLeader(m) \/ Handle(m)
        \/ Start(m) \/ Startup(m) \/ StopProcess(m) \/ Shutdown(m) \/ Crash(m)

Spec == Init /\ [][Next]_vars

\* Redis answers, event loops run, time passes.  Nobody need start or stop a process.
Fairness ==
    /\ WF_vars(Tick)
    /\ \A m \in Mains :
        /\ WF_vars(RedisExecutes(m))
        /\ WF_vars(CheckLeader(m))
        /\ WF_vars(Handle(m))
        /\ WF_vars(Startup(m))
        /\ WF_vars(Shutdown(m))

FairSpec == Spec /\ Fairness

-----------------------------------------------------------------------------
(* Properties *)

\* While no process and no answer has been late, a process that believes to lead
\* holds the key, so that there is at most one: the TTL outlives the interval
\* (multi-main-setup.ee.ts, checkLeader).  The key of a process that is about to
\* leave is gone before the process is.
TimelyLeaderHoldsKey ==
    ~ late => \A m \in Mains :
        role[m] = "leader" /\ phase[m] # "leaving" => key = m

\* From some point on nothing is late, and processes neither start nor end.
Settled ==
    /\ \A m \in Mains : phase[m] \in {"ready", "down"}
    /\ \E m \in Mains : phase[m] = "ready"

\* However many leaders there were (a slow one whose key expired, one whose check
\* overtook its own renewal, one that was restarted under its old id and finds its
\* own key): once the processes keep up there is one leader for good, it holds the key,
\* the others know that they follow, and its services were told to start.
OneLeaderInTheEnd ==
    (<>[]Settled /\ <>[][~ LateTick]_vars) =>
        <>[](\E m \in Mains :
                /\ key = m
                /\ phase[m] = "ready"
                /\ role[m] = "leader"
                /\ event[m] = "takeover"
                /\ \A n \in Mains \ {m} : role[n] # "leader")

\* The services' view: what the first await and the removal of the key hide.
ServicePhase == [m \in Mains |->
    CASE phase[m] \in {"init", "elected"} -> "starting"
      [] phase[m] = "leaving" -> "stopping"
      [] OTHER -> phase[m]]

L == INSTANCE Leadership WITH phase <- ServicePhase

\* What the services of a process see is what the abstract specification they are
\* written against allows: a process has a role before its services start, none after
\* it has ended, and no check that is still in flight at either end changes that.
ImplementsLeadership == L!LSpec
=============================================================================
