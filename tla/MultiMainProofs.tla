-------------------------- MODULE MultiMainProofs ---------------------------
(***************************************************************************)
(* Proofs, for any set of main processes and any TTL of at least two       *)
(* intervals, that a leader holds the leader key as long as nothing has    *)
(* been late, and that the election implements the leadership events that  *)
(* the services of a process are written against.                          *)
(***************************************************************************)
EXTENDS MultiMain, SequenceTheorems, TLAPS

\* The commands under way on a connection.
Under(s) == {s[i] : i \in DOMAIN s}

\* The key is asked to be removed once.
OneDel(s) == \A i, j \in DOMAIN s : s[i].cmd = "del" /\ s[j].cmd = "del" => i = j

\* A command that will renew the key of m, or an answer that will make m do so.
Renews(c, m) ==
    \/ c.cmd = "get" /\ (~ c.done \/ c.reply = m)
    \/ c.cmd = "expire" /\ ~ c.done

\* What holds of a process m in phase p and role r, with connection s and due flag d, late
\* or not: it is silent when down, has no role and asks for nothing but the key before
\* its first election, has a role after it, and removes the key once, as it leaves.
Orderly(p, r, s, d) ==
    /\ p = "down" => s = <<>> /\ ~ d
    /\ p = "init" => ~ d /\ \A c \in Under(s) : c.cmd = "setnx"
    /\ p \in {"down", "init"} => r = "unset"
    /\ p = "elected" => r # "unset"
    /\ \A c \in Under(s) : c.cmd = "del" => p = "leaving"
    /\ OneDel(s)

\* What m knows of its own key is true: it leads, or an answer that has not reached it says
\* that it holds the key; when that is the answer of SETNX, no time has passed since.
\* The key it asks to remove is its own.
KnowsItsKey(m, p, r, s) ==
    /\ r = "leader" /\ p # "leaving" => key = m
    /\ p # "leaving" => \A c \in Under(s) : c.done /\ c.reply = m =>
        /\ c.cmd = "get" => key = m
        /\ c.cmd = "setnx" => key = m /\ ttl = TTL
    /\ \A c \in Under(s) : c.cmd = "del" /\ ~ c.done => key = m

\* The key of a leader is fresh, or will be before time passes.
KeyIsRenewed(m, p, r, s, d) ==
    r = "leader" /\ p # "leaving" => ttl = TTL \/ d \/ \E c \in Under(s) : Renews(c, m)

Local(m, p, r, s, d) ==
    /\ Orderly(p, r, s, d)
    /\ ~ late => KnowsItsKey(m, p, r, s) /\ KeyIsRenewed(m, p, r, s, d)

\* The key is set only as long as it has time to live.
KeyLives == key # None => ttl >= 1

\* The inductive invariant.
IInv ==
    /\ TypeOK
    /\ KeyLives
    /\ \A m \in Mains : Local(m, phase[m], role[m], conn[m], due[m])

-----------------------------------------------------------------------------
(* Connections *)

LEMMA UnderAppend ==
    ASSUME NEW S, NEW s \in Seq(S), NEW x \in S
    PROVE  Append(s, x) \in Seq(S) /\ Under(Append(s, x)) = Under(s) \union {x}
<1>1. Append(s, x) \in Seq(S) /\ Len(Append(s, x)) = Len(s) + 1 /\ Len(s) \in Nat
  OBVIOUS
<1>2. DOMAIN s = 1..Len(s) /\ DOMAIN Append(s, x) = 1..(Len(s) + 1)
  BY <1>1
<1>3. \A i \in 1..Len(s) : Append(s, x)[i] = s[i]
  BY <1>1
<1>4. Append(s, x)[Len(s) + 1] = x
  BY <1>1
<1>5. \A i \in 1..(Len(s) + 1) : i \in 1..Len(s) \/ i = Len(s) + 1
  BY <1>1
<1>6. \A i \in 1..Len(s) : i \in 1..(Len(s) + 1)
  BY <1>1
<1>7. Len(s) + 1 \in 1..(Len(s) + 1)
  BY <1>1
<1> QED
  BY <1>1, <1>2, <1>3, <1>4, <1>5, <1>6, <1>7 DEF Under

LEMMA UnderTail ==
    ASSUME NEW S, NEW s \in Seq(S), s # <<>>
    PROVE  /\ Tail(s) \in Seq(S)
           /\ Head(s) \in Under(s)
           /\ Under(s) = {Head(s)} \union Under(Tail(s))
<1>1. Tail(s) \in Seq(S) /\ Len(s) \in Nat /\ Len(s) >= 1 /\ Len(Tail(s)) = Len(s) - 1
  OBVIOUS
<1>2. DOMAIN s = 1..Len(s) /\ DOMAIN Tail(s) = 1..(Len(s) - 1)
  BY <1>1
<1>3. Head(s) = s[1] /\ 1 \in DOMAIN s
  BY <1>1, <1>2
<1>4. \A i \in 1..(Len(s) - 1) : Tail(s)[i] = s[i + 1] /\ i + 1 \in 1..Len(s)
  BY <1>1
<1>5. \A i \in 1..Len(s) : i = 1 \/ (i - 1 \in 1..(Len(s) - 1) /\ (i - 1) + 1 = i)
  BY <1>1
<1>6. Under(Tail(s)) \subseteq Under(s)
  BY <1>2, <1>4 DEF Under
<1>7. ASSUME NEW i \in 1..Len(s), i # 1 PROVE s[i] \in Under(Tail(s))
  <2>1. i - 1 \in DOMAIN Tail(s) /\ Tail(s)[i - 1] = s[i]
    BY <1>2, <1>4, <1>5, <1>7
  <2> QED
    BY <2>1 DEF Under
<1> QED
  BY <1>1, <1>2, <1>3, <1>6, <1>7 DEF Under

LEMMA UnderAnswer ==
    ASSUME NEW S, NEW s \in Seq(S), NEW i \in DOMAIN s, NEW x \in S
    PROVE  /\ [s EXCEPT ![i] = x] \in Seq(S)
           /\ x \in Under([s EXCEPT ![i] = x])
           /\ Under([s EXCEPT ![i] = x]) \subseteq Under(s) \union {x}
           /\ \A c \in Under(s) : c = s[i] \/ c \in Under([s EXCEPT ![i] = x])
<1> DEFINE t == [s EXCEPT ![i] = x]
<1>1. t \in Seq(S)
  BY ExceptSeq
<1>2. DOMAIN t = DOMAIN s /\ t[i] = x /\ \A j \in DOMAIN s \ {i} : t[j] = s[j]
  OBVIOUS
<1> HIDE DEF t
<1>3. x \in Under(t)
  BY <1>2 DEF Under
<1>4. Under(t) \subseteq Under(s) \union {x}
  BY <1>2 DEF Under
<1>5. \A c \in Under(s) : c = s[i] \/ c \in Under(t)
  BY <1>2 DEF Under
<1> QED
  BY <1>1, <1>3, <1>4, <1>5 DEF t

LEMMA UnderEmpty == Under(<<>>) = {} /\ OneDel(<<>>)
BY DEF Under, OneDel

LEMMA OneDelAppend ==
    ASSUME NEW S, NEW s \in Seq(S), NEW x \in S, OneDel(s),
           x.cmd # "del" \/ \A c \in Under(s) : c.cmd # "del"
    PROVE  OneDel(Append(s, x))
<1>1. Len(s) \in Nat /\ DOMAIN s = 1..Len(s) /\ DOMAIN Append(s, x) = 1..(Len(s) + 1)
  OBVIOUS
<1>2. \A i \in 1..Len(s) : Append(s, x)[i] = s[i] /\ s[i] \in Under(s)
  BY <1>1 DEF Under
<1>3. Append(s, x)[Len(s) + 1] = x
  BY <1>1
<1>4. \A i \in 1..(Len(s) + 1) : i \in 1..Len(s) \/ i = Len(s) + 1
  BY <1>1
<1> QED
  BY <1>1, <1>2, <1>3, <1>4 DEF OneDel

LEMMA OneDelTail ==
    ASSUME NEW S, NEW s \in Seq(S), s # <<>>, OneDel(s)
    PROVE  OneDel(Tail(s))
<1>1. Len(s) \in Nat /\ DOMAIN s = 1..Len(s) /\ DOMAIN Tail(s) = 1..(Len(s) - 1)
  OBVIOUS
<1>2. \A i \in 1..(Len(s) - 1) : Tail(s)[i] = s[i + 1] /\ i + 1 \in 1..Len(s)
  BY <1>1
<1>3. \A i, j \in 1..(Len(s) - 1) : i + 1 = j + 1 => i = j
  BY <1>1
<1> QED
  BY <1>1, <1>2, <1>3 DEF OneDel

LEMMA OneDelAnswer ==
    ASSUME NEW s, NEW i \in DOMAIN s, NEW x, x.cmd = s[i].cmd, OneDel(s)
    PROVE  OneDel([s EXCEPT ![i] = x])
BY DEF OneDel

LEMMA UnderType ==
    ASSUME NEW S, NEW s \in Seq(S)
    PROVE  Under(s) \subseteq S
<1>1. DOMAIN s = 1..Len(s) /\ \A i \in 1..Len(s) : s[i] \in S
  BY ElementOfSeq, LenProperties
<1> QED
  BY <1>1 DEF Under

LEMMA CommandType ==
    ASSUME NEW x \in {"get", "setnx", "expire", "del"}
    PROVE  /\ Command(x) \in Commands
           /\ Command(x).cmd = x
           /\ Command(x).done = FALSE
BY DEF Command, Commands

-----------------------------------------------------------------------------
(* Steps of one process *)

\* What the handlers of m leave alone.
OnlyProcess(m) ==
    /\ UNCHANGED <<key, ttl, late>>
    /\ \A n \in Mains \ {m} :
        /\ phase'[n] = phase[n] /\ role'[n] = role[n]
        /\ conn'[n] = conn[n] /\ due'[n] = due[n]

\* A step of one process that keeps its own part of the invariant keeps all of it.
LEMMA ProcessStep ==
    ASSUME IInv, NEW m \in Mains, TypeOK', OnlyProcess(m),
           Local(m, phase[m], role[m], conn[m], due[m])'
    PROVE  IInv'
<1>1. KeyLives'
  BY DEF IInv, KeyLives, OnlyProcess
<1>2. ASSUME NEW n \in Mains \ {m}
      PROVE  Local(n, phase[n], role[n], conn[n], due[n])'
  <2>1. Local(n, phase[n], role[n], conn[n], due[n])
    BY DEF IInv
  <2>2. /\ UNCHANGED <<key, ttl, late>>
        /\ phase'[n] = phase[n] /\ role'[n] = role[n]
        /\ conn'[n] = conn[n] /\ due'[n] = due[n]
    BY DEF OnlyProcess
  <2> QED
    BY <2>1, <2>2 DEF Local, Orderly, KnowsItsKey, KeyIsRenewed, Renews
<1>3. \A n \in Mains : Local(n, phase[n], role[n], conn[n], due[n])'
  BY <1>2
<1> QED
  BY <1>1, <1>3 DEF IInv

\* A command is sent.
LEMMA Sent ==
    ASSUME TypeOK, NEW m \in Mains, NEW x \in {"get", "setnx", "expire", "del"}, Send(m, x)
    PROVE  /\ conn' \in [Mains -> Seq(Commands)]
           /\ \A n \in Mains \ {m} : conn'[n] = conn[n]
           /\ Under(conn'[m]) = Under(conn[m]) \union {Command(x)}
           /\ OneDel(conn[m]) /\ (x # "del" \/ \A c \in Under(conn[m]) : c.cmd # "del")
                => OneDel(conn'[m])
<1>1. conn[m] \in Seq(Commands) /\ Command(x) \in Commands
  BY CommandType DEF TypeOK
<1>2. /\ Append(conn[m], Command(x)) \in Seq(Commands)
      /\ Under(Append(conn[m], Command(x))) = Under(conn[m]) \union {Command(x)}
  BY <1>1, UnderAppend
<1>3. ASSUME OneDel(conn[m]), x # "del" \/ \A c \in Under(conn[m]) : c.cmd # "del"
      PROVE  OneDel(Append(conn[m], Command(x)))
  BY <1>1, <1>3, CommandType, OneDelAppend
<1> QED
  BY <1>2, <1>3 DEF Send, TypeOK

\* The oldest answer is taken.
LEMMA Taken ==
    ASSUME TypeOK, NEW m \in Mains, conn[m] # <<>>, Take(m)
    PROVE  /\ conn' \in [Mains -> Seq(Commands)]
           /\ \A n \in Mains \ {m} : conn'[n] = conn[n]
           /\ Head(conn[m]) \in Under(conn[m])
           /\ Under(conn[m]) = {Head(conn[m])} \union Under(conn'[m])
           /\ OneDel(conn[m]) => OneDel(conn'[m])
<1>1. conn[m] \in Seq(Commands)
  BY DEF TypeOK
<1>2. /\ Tail(conn[m]) \in Seq(Commands)
      /\ Head(conn[m]) \in Under(conn[m])
      /\ Under(conn[m]) = {Head(conn[m])} \union Under(Tail(conn[m]))
  BY <1>1, UnderTail
<1>3. OneDel(conn[m]) => OneDel(Tail(conn[m]))
  BY <1>1, OneDelTail
<1> QED
  BY <1>2, <1>3 DEF Take, TypeOK

\* The oldest answer is taken, and a command sent.
LEMMA TakenAndSent ==
    ASSUME TypeOK, NEW m \in Mains, conn[m] # <<>>,
           NEW x \in {"get", "setnx", "expire", "del"}, TakeAndSend(m, x)
    PROVE  /\ conn' \in [Mains -> Seq(Commands)]
           /\ \A n \in Mains \ {m} : conn'[n] = conn[n]
           /\ Head(conn[m]) \in Under(conn[m])
           /\ Under(conn'[m]) \subseteq Under(conn[m]) \union {Command(x)}
           /\ Command(x) \in Under(conn'[m])
           /\ OneDel(conn[m]) /\ x # "del" => OneDel(conn'[m])
<1> DEFINE rest == Tail(conn[m])
           y == Command(x)
<1>1. conn[m] \in Seq(Commands) /\ y \in Commands
  BY CommandType DEF TypeOK
<1>2. /\ rest \in Seq(Commands)
      /\ Head(conn[m]) \in Under(conn[m])
      /\ Under(conn[m]) = {Head(conn[m])} \union Under(rest)
  BY <1>1, UnderTail
<1>3. conn' = [conn EXCEPT ![m] = Append(rest, y)]
  BY DEF TakeAndSend
<1>4. OneDel(conn[m]) => OneDel(rest)
  BY <1>1, OneDelTail
<1>5. x # "del" => y.cmd # "del"
  BY CommandType
<1> HIDE DEF rest, y
<1>6. Append(rest, y) \in Seq(Commands) /\ Under(Append(rest, y)) = Under(rest) \union {y}
  BY <1>1, <1>2, UnderAppend
<1>7. OneDel(rest) /\ y.cmd # "del" => OneDel(Append(rest, y))
  BY <1>1, <1>2, OneDelAppend
<1>8. conn' \in [Mains -> Seq(Commands)] /\ conn'[m] = Append(rest, y)
  BY <1>3, <1>6 DEF TypeOK
<1>9. \A n \in Mains \ {m} : conn'[n] = conn[n]
  BY <1>3 DEF TypeOK
<1> QED
  BY <1>2, <1>4, <1>5, <1>6, <1>7, <1>8, <1>9 DEF y

\* What is known of process m before a step.
LEMMA LocalFacts ==
    ASSUME IInv, NEW m \in Mains
    PROVE  /\ TypeOK
           /\ phase[m] \in Phases /\ role[m] \in Roles /\ due[m] \in BOOLEAN
           /\ Under(conn[m]) \subseteq Commands
           /\ Orderly(phase[m], role[m], conn[m], due[m])
           /\ ~ late => /\ KnowsItsKey(m, phase[m], role[m], conn[m])
                        /\ KeyIsRenewed(m, phase[m], role[m], conn[m], due[m])
<1>1. conn[m] \in Seq(Commands)
  BY DEF IInv, TypeOK
<1> QED
  BY <1>1, UnderType DEF IInv, TypeOK, Local

LEMMA StartInv ==
    ASSUME IInv, NEW m \in Mains, Start(m)
    PROVE  IInv'
<1> USE LocalFacts
<1>1. /\ conn' \in [Mains -> Seq(Commands)]
      /\ \A n \in Mains \ {m} : conn'[n] = conn[n]
      /\ Under(conn'[m]) = Under(conn[m]) \union {Command("setnx")}
      /\ OneDel(conn'[m])
  BY CommandType, Sent DEF Orderly, Start
<1>2. Under(conn'[m]) = {Command("setnx")}
  BY <1>1, UnderEmpty DEF Start, Orderly
<1>3. TypeOK'
  BY <1>1 DEF Start, TypeOK, Enters, Phases
<1>4. OnlyProcess(m)
  BY <1>1 DEF Start, OnlyProcess, Enters, TypeOK
<1>5. phase'[m] = "init" /\ role'[m] = "unset" /\ due'[m] = FALSE
  BY DEF Start, Enters, Orderly, TypeOK
<1>6. Local(m, phase[m], role[m], conn[m], due[m])'
  BY <1>1, <1>2, <1>5, CommandType DEF Local, Orderly, KnowsItsKey, KeyIsRenewed
<1> QED
  BY <1>3, <1>4, <1>6, ProcessStep

LEMMA CheckLeaderInv ==
    ASSUME IInv, NEW m \in Mains, CheckLeader(m)
    PROVE  IInv'
<1> USE LocalFacts
<1>1. /\ conn' \in [Mains -> Seq(Commands)]
      /\ \A n \in Mains \ {m} : conn'[n] = conn[n]
      /\ Under(conn'[m]) = Under(conn[m]) \union {Command("get")}
      /\ OneDel(conn'[m])
  BY CommandType, Sent DEF Orderly, CheckLeader
<1>2. TypeOK'
  BY <1>1 DEF CheckLeader, TypeOK, leaderVars
<1>3. OnlyProcess(m)
  BY <1>1 DEF CheckLeader, OnlyProcess, TypeOK, leaderVars
<1>4. /\ phase'[m] = phase[m] /\ role'[m] = role[m] /\ due'[m] = FALSE
      /\ phase[m] \notin {"down", "init"}
      /\ UNCHANGED <<key, ttl, late>>
  BY DEF CheckLeader, leaderVars, Orderly, TypeOK
<1>5. Command("get").cmd = "get" /\ Command("get").done = FALSE
  BY CommandType
<1>6. Orderly(phase[m], role[m], conn[m], due[m])'
  BY <1>1, <1>4, <1>5 DEF Orderly
<1>7. ASSUME ~ late
      PROVE  KnowsItsKey(m, phase[m], role[m], conn[m])'
  BY <1>1, <1>4, <1>5, <1>7 DEF KnowsItsKey
<1>8. KeyIsRenewed(m, phase[m], role[m], conn[m], due[m])'
  BY <1>1, <1>4, <1>5 DEF KeyIsRenewed, Renews
<1>9. Local(m, phase[m], role[m], conn[m], due[m])'
  BY <1>4, <1>6, <1>7, <1>8 DEF Local
<1> QED
  BY <1>2, <1>3, <1>9, ProcessStep

LEMMA KeyIsOwnInv ==
    ASSUME IInv, NEW m \in Mains, KeyIsOwn(m)
    PROVE  IInv'
<1> USE LocalFacts
<1>1. /\ conn' \in [Mains -> Seq(Commands)]
      /\ \A n \in Mains \ {m} : conn'[n] = conn[n]
      /\ Head(conn[m]) \in Under(conn[m])
      /\ Under(conn'[m]) \subseteq Under(conn[m]) \union {Command("expire")}
      /\ Command("expire") \in Under(conn'[m])
      /\ OneDel(conn'[m])
  BY TakenAndSent DEF Orderly, KeyIsOwn, Received
<1>2. TypeOK'
  BY <1>1 DEF KeyIsOwn, TypeOK, Becomes, Emits, Roles, Events
<1>3. OnlyProcess(m)
  BY <1>1 DEF KeyIsOwn, OnlyProcess, Becomes, TypeOK
<1>4. /\ phase'[m] = phase[m] /\ role'[m] = "leader" /\ due'[m] = due[m]
      /\ UNCHANGED <<key, ttl, late>>
  BY DEF KeyIsOwn, Becomes, TypeOK
<1>5. Head(conn[m]).cmd = "get" /\ Head(conn[m]).done /\ Head(conn[m]).reply = m
  BY DEF KeyIsOwn, Received, Reply
<1>6. phase[m] \notin {"down", "init"}
  BY <1>1, <1>5, UnderEmpty DEF Orderly
<1>7. Command("expire").cmd = "expire" /\ Command("expire").done = FALSE
  BY CommandType
<1>8. Orderly(phase[m], role[m], conn[m], due[m])'
  BY <1>1, <1>4, <1>6, <1>7 DEF Orderly
<1>9. ASSUME ~ late
      PROVE  KnowsItsKey(m, phase[m], role[m], conn[m])'
  BY <1>1, <1>4, <1>5, <1>7, <1>9 DEF KnowsItsKey
<1>10. KeyIsRenewed(m, phase[m], role[m], conn[m], due[m])'
  BY <1>1, <1>4, <1>7 DEF KeyIsRenewed, Renews
<1>11. Local(m, phase[m], role[m], conn[m], due[m])'
  BY <1>4, <1>8, <1>9, <1>10 DEF Local
<1> QED
  BY <1>2, <1>3, <1>11, ProcessStep

LEMMA KeyIsOthersInv ==
    ASSUME IInv, NEW m \in Mains, KeyIsOthers(m)
    PROVE  IInv'
<1> USE LocalFacts
<1>1. /\ conn' \in [Mains -> Seq(Commands)]
      /\ \A n \in Mains \ {m} : conn'[n] = conn[n]
      /\ Head(conn[m]) \in Under(conn[m])
      /\ Under(conn[m]) = {Head(conn[m])} \union Under(conn'[m])
      /\ OneDel(conn'[m])
  BY Taken DEF Orderly, KeyIsOthers, Received
<1>2. TypeOK'
  BY <1>1 DEF KeyIsOthers, TypeOK, Becomes, Emits, Roles, Events
<1>3. OnlyProcess(m)
  BY <1>1 DEF KeyIsOthers, OnlyProcess, Becomes, TypeOK
<1>4. /\ phase'[m] = phase[m] /\ due'[m] = due[m]
      /\ role'[m] # "leader" /\ (role'[m] = role[m] \/ role'[m] = "follower")
      /\ UNCHANGED <<key, ttl, late>>
  BY DEF KeyIsOthers, Becomes, TypeOK
<1>5. Head(conn[m]).cmd = "get"
  BY DEF KeyIsOthers, Received
<1>6. phase[m] \notin {"down", "init"}
  BY <1>1, <1>5, UnderEmpty DEF Orderly
<1>7. Orderly(phase[m], role[m], conn[m], due[m])'
  BY <1>1, <1>4, <1>6 DEF Orderly
<1>8. ASSUME ~ late
      PROVE  KnowsItsKey(m, phase[m], role[m], conn[m])'
  BY <1>1, <1>4, <1>8 DEF KnowsItsKey
<1>9. KeyIsRenewed(m, phase[m], role[m], conn[m], due[m])'
  BY <1>4 DEF KeyIsRenewed
<1>10. Local(m, phase[m], role[m], conn[m], due[m])'
  BY <1>4, <1>7, <1>8, <1>9 DEF Local
<1> QED
  BY <1>2, <1>3, <1>10, ProcessStep

LEMMA KeyIsVacantInv ==
    ASSUME IInv, NEW m \in Mains, KeyIsVacant(m)
    PROVE  IInv'
<1> USE LocalFacts
<1>1. /\ conn' \in [Mains -> Seq(Commands)]
      /\ \A n \in Mains \ {m} : conn'[n] = conn[n]
      /\ Head(conn[m]) \in Under(conn[m])
      /\ Under(conn'[m]) \subseteq Under(conn[m]) \union {Command("setnx")}
      /\ Command("setnx") \in Under(conn'[m])
      /\ OneDel(conn'[m])
  BY TakenAndSent DEF Orderly, KeyIsVacant, Received
<1>2. TypeOK'
  BY <1>1 DEF KeyIsVacant, TypeOK, Becomes, Emits, Roles, Events
<1>3. OnlyProcess(m)
  BY <1>1 DEF KeyIsVacant, OnlyProcess, Becomes, TypeOK
<1>4. /\ phase'[m] = phase[m] /\ role'[m] = "follower" /\ due'[m] = due[m]
      /\ UNCHANGED <<key, ttl, late>>
  BY DEF KeyIsVacant, Becomes, TypeOK
<1>5. Head(conn[m]).cmd = "get"
  BY DEF KeyIsVacant, Received
<1>6. phase[m] \notin {"down", "init"}
  BY <1>1, <1>5, UnderEmpty DEF Orderly
<1>7. Command("setnx").cmd = "setnx" /\ Command("setnx").done = FALSE
  BY CommandType
<1>8. Orderly(phase[m], role[m], conn[m], due[m])'
  BY <1>1, <1>4, <1>6, <1>7 DEF Orderly
<1>9. ASSUME ~ late
      PROVE  KnowsItsKey(m, phase[m], role[m], conn[m])'
  BY <1>1, <1>4, <1>7, <1>9 DEF KnowsItsKey
<1>10. KeyIsRenewed(m, phase[m], role[m], conn[m], due[m])'
  BY <1>4 DEF KeyIsRenewed
<1>11. Local(m, phase[m], role[m], conn[m], due[m])'
  BY <1>4, <1>8, <1>9, <1>10 DEF Local
<1> QED
  BY <1>2, <1>3, <1>11, ProcessStep

LEMMA TriedToBecomeLeaderInv ==
    ASSUME IInv, NEW m \in Mains, TriedToBecomeLeader(m)
    PROVE  IInv'
<1> USE LocalFacts
<1>1. /\ conn' \in [Mains -> Seq(Commands)]
      /\ \A n \in Mains \ {m} : conn'[n] = conn[n]
      /\ Head(conn[m]) \in Under(conn[m])
      /\ Under(conn[m]) = {Head(conn[m])} \union Under(conn'[m])
      /\ OneDel(conn'[m])
  BY Taken DEF Orderly, TriedToBecomeLeader, Received
<1>2. phase' \in [Mains -> Phases] /\ \A n \in Mains \ {m} : phase'[n] = phase[n]
  BY DEF TriedToBecomeLeader, TypeOK, Phases
<1>3. TypeOK'
  BY <1>1, <1>2 DEF TriedToBecomeLeader, TypeOK, Becomes, Emits, Roles, Events
<1>4. OnlyProcess(m)
  BY <1>1, <1>2 DEF TriedToBecomeLeader, OnlyProcess, Becomes, TypeOK
<1>5. /\ phase'[m] = IF phase[m] = "init" THEN "elected" ELSE phase[m]
      /\ due'[m] = due[m]
      /\ UNCHANGED <<key, ttl, late>>
  BY DEF TriedToBecomeLeader, TypeOK
<1>6. /\ Head(conn[m]).cmd = "setnx" /\ Head(conn[m]).done
      /\ \/ role'[m] = "leader" /\ Head(conn[m]).reply = m
         \/ role'[m] = "follower"
  BY DEF TriedToBecomeLeader, Received, Reply, Becomes, TypeOK
<1>7. phase[m] # "down"
  BY <1>1, UnderEmpty DEF Orderly
<1>8. Orderly(phase[m], role[m], conn[m], due[m])'
  BY <1>1, <1>5, <1>6, <1>7 DEF Orderly
<1>9. ASSUME ~ late
      PROVE  KnowsItsKey(m, phase[m], role[m], conn[m])'
  BY <1>1, <1>5, <1>6, <1>9 DEF KnowsItsKey
<1>10. ASSUME ~ late
       PROVE  KeyIsRenewed(m, phase[m], role[m], conn[m], due[m])'
  BY <1>1, <1>5, <1>6, <1>10 DEF KnowsItsKey, KeyIsRenewed
<1>11. Local(m, phase[m], role[m], conn[m], due[m])'
  BY <1>5, <1>8, <1>9, <1>10 DEF Local
<1> QED
  BY <1>3, <1>4, <1>11, ProcessStep

LEMMA RenewedInv ==
    ASSUME IInv, NEW m \in Mains, Renewed(m)
    PROVE  IInv'
<1> USE LocalFacts
<1>1. /\ conn' \in [Mains -> Seq(Commands)]
      /\ \A n \in Mains \ {m} : conn'[n] = conn[n]
      /\ Head(conn[m]) \in Under(conn[m])
      /\ Under(conn[m]) = {Head(conn[m])} \union Under(conn'[m])
      /\ OneDel(conn'[m])
  BY Taken DEF Orderly, Renewed, Received
<1>2. TypeOK'
  BY <1>1 DEF Renewed, TypeOK, leaderVars
<1>3. OnlyProcess(m)
  BY <1>1 DEF Renewed, OnlyProcess, leaderVars
<1>4. /\ phase'[m] = phase[m] /\ role'[m] = role[m] /\ due'[m] = due[m]
      /\ UNCHANGED <<key, ttl, late>>
  BY DEF Renewed, leaderVars
<1>5. Head(conn[m]).cmd = "expire" /\ Head(conn[m]).done
  BY DEF Renewed, Received
<1>6. phase[m] \notin {"down", "init"}
  BY <1>1, <1>5, UnderEmpty DEF Orderly
<1>7. Orderly(phase[m], role[m], conn[m], due[m])'
  BY <1>1, <1>4, <1>6 DEF Orderly
<1>8. ASSUME ~ late
      PROVE  KnowsItsKey(m, phase[m], role[m], conn[m])'
  BY <1>1, <1>4, <1>8 DEF KnowsItsKey
<1>9. ~ Renews(Head(conn[m]), m)
  BY <1>5 DEF Renews
<1>10. \A c \in Under(conn[m]) : Renews(c, m) => c \in Under(conn'[m])
  BY <1>1, <1>9
<1>11. ASSUME ~ late
       PROVE  KeyIsRenewed(m, phase[m], role[m], conn[m], due[m])'
  BY <1>4, <1>10, <1>11 DEF KeyIsRenewed, Renews
<1>12. Local(m, phase[m], role[m], conn[m], due[m])'
  BY <1>4, <1>7, <1>8, <1>11 DEF Local
<1> QED
  BY <1>2, <1>3, <1>12, ProcessStep

\* The phases of a process that has a role, up to its leaving.
LEMMA StartupInv ==
    ASSUME IInv, NEW m \in Mains, Startup(m) \/ StopProcess(m)
    PROVE  IInv'
<1> USE LocalFacts
<1>1. /\ phase[m] \in {"elected", "tracking", "ready"}
      /\ phase' \in [Mains -> Phases]
      /\ phase'[m] \in {"tracking", "ready", "stopping"}
      /\ \A n \in Mains \ {m} : phase'[n] = phase[n]
      /\ UNCHANGED <<role, event, key, ttl, conn, due, late>>
  BY DEF Startup, InitTracker, RegisterEventHandlers, StopProcess, Enters, electionVars,
         TypeOK, Phases
<1>2. TypeOK'
  BY <1>1 DEF TypeOK
<1>3. OnlyProcess(m)
  BY <1>1 DEF OnlyProcess
<1>4. Local(m, phase[m], role[m], conn[m], due[m])'
  BY <1>1 DEF Local, Orderly, KnowsItsKey, KeyIsRenewed, Renews
<1> QED
  BY <1>2, <1>3, <1>4, ProcessStep

LEMMA ShutdownLeaderInv ==
    ASSUME IInv, NEW m \in Mains, ShutdownLeader(m)
    PROVE  IInv'
<1> USE LocalFacts
<1>1. /\ conn' \in [Mains -> Seq(Commands)]
      /\ \A n \in Mains \ {m} : conn'[n] = conn[n]
      /\ Under(conn'[m]) = Under(conn[m]) \union {Command("del")}
      /\ OneDel(conn'[m])
  BY CommandType, Sent DEF Orderly, ShutdownLeader
<1>2. TypeOK'
  BY <1>1 DEF ShutdownLeader, TypeOK, Enters, Phases
<1>3. OnlyProcess(m)
  BY <1>1 DEF ShutdownLeader, OnlyProcess, Enters, TypeOK
<1>4. /\ phase[m] = "stopping" /\ role[m] = "leader"
      /\ phase'[m] = "leaving" /\ role'[m] = role[m]
      /\ UNCHANGED <<key, ttl, late>>
  BY DEF ShutdownLeader, Enters, TypeOK
<1>5. Orderly(phase[m], role[m], conn[m], due[m])'
  BY <1>1, <1>4 DEF Orderly
<1>6. ASSUME ~ late
      PROVE  KnowsItsKey(m, phase[m], role[m], conn[m])'
  <2>1. key = m
    BY <1>4, <1>6 DEF KnowsItsKey
  <2> QED
    BY <1>4, <2>1 DEF KnowsItsKey
<1>7. KeyIsRenewed(m, phase[m], role[m], conn[m], due[m])'
  BY <1>4 DEF KeyIsRenewed
<1>8. Local(m, phase[m], role[m], conn[m], due[m])'
  BY <1>4, <1>5, <1>6, <1>7 DEF Local
<1> QED
  BY <1>2, <1>3, <1>8, ProcessStep

LEMMA GoneInv ==
    ASSUME IInv, NEW m \in Mains, Gone(m)
    PROVE  IInv'
<1> USE LocalFacts
<1>1. TypeOK'
  BY EmptySeq DEF Gone, TypeOK, Enters, Becomes, Emits, Phases, Roles, Events
<1>2. OnlyProcess(m)
  BY DEF Gone, OnlyProcess, Enters, Becomes, TypeOK
<1>3. phase'[m] = "down" /\ role'[m] = "unset" /\ conn'[m] = <<>> /\ due'[m] = FALSE
  BY DEF Gone, Enters, Becomes, TypeOK
<1>4. Local(m, phase[m], role[m], conn[m], due[m])'
  BY <1>3, UnderEmpty DEF Local, Orderly, KnowsItsKey, KeyIsRenewed
<1> QED
  BY <1>1, <1>2, <1>4, ProcessStep

-----------------------------------------------------------------------------
(* Steps of Redis, and time *)

\* The connection of m after Redis has executed its command i with answer r.
LEMMA Answered ==
    ASSUME TypeOK, NEW m \in Mains, NEW i \in 1..Len(conn[m]),
           NEW r \in Mains \union {None}, Answer(m, i, r), conn[m][i].done = FALSE
    PROVE  /\ conn' \in [Mains -> Seq(Commands)]
           /\ \A n \in Mains \ {m} : conn'[n] = conn[n]
           /\ conn[m][i] \in Under(conn[m])
           /\ OneDel(conn[m]) => OneDel(conn'[m])
           /\ \E a \in Under(conn'[m]) :
                /\ a.cmd = conn[m][i].cmd /\ a.done = TRUE /\ a.reply = r
                /\ Under(conn'[m]) \subseteq Under(conn[m]) \union {a}
                /\ \A c \in Under(conn[m]) : c = conn[m][i] \/ c \in Under(conn'[m])
<1> DEFINE a == [conn[m][i] EXCEPT !.done = TRUE, !.reply = r]
<1>1. conn[m] \in Seq(Commands)
  BY DEF TypeOK
<1>2. DOMAIN conn[m] = 1..Len(conn[m]) /\ conn[m][i] \in Commands
  BY <1>1, LenProperties, ElementOfSeq
<1>3. a \in Commands /\ a.cmd = conn[m][i].cmd /\ a.done = TRUE /\ a.reply = r
  BY <1>2 DEF Commands
<1>4. conn' = [conn EXCEPT ![m] = [conn[m] EXCEPT ![i] = a]]
  BY <1>1, <1>2 DEF Answer, TypeOK
<1> HIDE DEF a
<1>5. i \in DOMAIN conn[m] /\ a \in Commands
  BY <1>2, <1>3
<1>6. /\ [conn[m] EXCEPT ![i] = a] \in Seq(Commands)
      /\ a \in Under([conn[m] EXCEPT ![i] = a])
      /\ Under([conn[m] EXCEPT ![i] = a]) \subseteq Under(conn[m]) \union {a}
      /\ \A c \in Under(conn[m]) :
            c = conn[m][i] \/ c \in Under([conn[m] EXCEPT ![i] = a])
  BY <1>1, <1>5, UnderAnswer
<1>7. conn' \in [Mains -> Seq(Commands)] /\ conn'[m] = [conn[m] EXCEPT ![i] = a]
  BY <1>4, <1>6 DEF TypeOK
<1>8. \A n \in Mains \ {m} : conn'[n] = conn[n]
  BY <1>4 DEF TypeOK
<1>9. conn[m][i] \in Under(conn[m])
  BY <1>5 DEF Under
<1>10. OneDel(conn[m]) => OneDel([conn[m] EXCEPT ![i] = a])
  BY <1>3, <1>5, OneDelAnswer
<1> QED
  BY <1>3, <1>10, <1>6, <1>7, <1>8, <1>9

\* Once Redis has removed the key for m, m does not ask for it again.
LEMMA OnlyDelDone ==
    ASSUME TypeOK, NEW m \in Mains, NEW i \in 1..Len(conn[m]), conn[m][i].cmd = "del",
           NEW r \in Mains \union {None}, Answer(m, i, r), OneDel(conn'[m])
    PROVE  \A c \in Under(conn'[m]) : c.cmd = "del" => c.done = TRUE
<1>1. conn[m] \in Seq(Commands)
  BY DEF TypeOK
<1>2. DOMAIN conn[m] = 1..Len(conn[m]) /\ conn[m][i] \in Commands
  BY <1>1, LenProperties, ElementOfSeq
<1>3. conn'[m] = [conn[m] EXCEPT ![i] = [conn[m][i] EXCEPT !.done = TRUE, !.reply = r]]
  BY <1>1, <1>2 DEF Answer, TypeOK
<1>4. DOMAIN conn'[m] = DOMAIN conn[m] /\ conn'[m][i].cmd = "del" /\ conn'[m][i].done = TRUE
  BY <1>2, <1>3 DEF Commands
<1>5. \A j \in DOMAIN conn'[m] : conn'[m][j].cmd = "del" => j = i
  BY <1>2, <1>4 DEF OneDel
<1> QED
  BY <1>4, <1>5 DEF Under

\* What a step of Redis for m leaves alone.
OnlyRedis(m) ==
    /\ UNCHANGED <<phase, role, event, due, late>>
    /\ \A n \in Mains \ {m} : conn'[n] = conn[n]

\* The form and the size of a connection do not depend on the answers in it.
LEMMA OrderlyAnswered ==
    ASSUME IInv, NEW m \in Mains, OnlyRedis(m), OneDel(conn'[m]),
           \A c \in Under(conn'[m]) : \E b \in Under(conn[m]) : c.cmd = b.cmd,
           Under(conn[m]) # {}
    PROVE  \A n \in Mains : Orderly(phase[n], role[n], conn[n], due[n])'
<1>1. ASSUME NEW n \in Mains \ {m} PROVE Orderly(phase[n], role[n], conn[n], due[n])'
  <2>1. Orderly(phase[n], role[n], conn[n], due[n])
    BY LocalFacts
  <2>2. conn'[n] = conn[n] /\ UNCHANGED <<phase, role, due>>
    BY DEF OnlyRedis
  <2> QED
    BY <2>1, <2>2 DEF Orderly
<1>2. Orderly(phase[m], role[m], conn[m], due[m])'
  <2>1. Orderly(phase[m], role[m], conn[m], due[m])
    BY LocalFacts
  <2>2. phase[m] # "down"
    BY <2>1, UnderEmpty DEF Orderly
  <2> QED
    BY <2>1, <2>2 DEF Orderly, OnlyRedis
<1> QED
  BY <1>1, <1>2

\* What the invariant needs after a step of Redis.
LEMMA RedisStep ==
    ASSUME IInv, NEW m \in Mains, OnlyRedis(m), TypeOK', KeyLives',
           \A n \in Mains : Orderly(phase[n], role[n], conn[n], due[n])',
           ~ late => \A n \in Mains :
                /\ KnowsItsKey(n, phase[n], role[n], conn[n])'
                /\ KeyIsRenewed(n, phase[n], role[n], conn[n], due[n])'
    PROVE  IInv'
<1>1. late' = late
  BY DEF OnlyRedis
<1> QED
  BY <1>1 DEF IInv, Local

LEMMA RedisInv ==
    ASSUME IInv, NEW m \in Mains, RedisExecutes(m)
    PROVE  IInv'
<1> USE LocalFacts
<1>1. PICK i \in 1..Len(conn[m]) :
        /\ IsNextCommand(m, i)
        /\ RedisGet(m, i) \/ RedisSetIfNotExists(m, i) \/ RedisExpire(m, i) \/ RedisDel(m, i)
  BY DEF RedisExecutes
<1>2. PICK r \in Mains \union {None} : Answer(m, i, r)
  BY <1>1 DEF RedisGet, RedisSetIfNotExists, RedisExpire, RedisDel, TypeOK
<1>3. conn[m][i] \in Under(conn[m]) /\ conn[m][i].done = FALSE
  <2>1. conn[m] \in Seq(Commands)
    BY DEF TypeOK
  <2>2. DOMAIN conn[m] = 1..Len(conn[m]) /\ conn[m][i] \in Commands
    BY <2>1, LenProperties, ElementOfSeq
  <2>3. conn[m][i].done \in BOOLEAN
    BY <2>2 DEF Commands
  <2> QED
    BY <1>1, <2>2, <2>3 DEF IsNextCommand, Under
<1> DEFINE AnsweredWith(x) ==
      \E a \in Under(conn'[m]) :
        /\ a.cmd = conn[m][i].cmd /\ a.done = TRUE /\ a.reply = x
        /\ Under(conn'[m]) \subseteq Under(conn[m]) \union {a}
        /\ \A c \in Under(conn[m]) : c = conn[m][i] \/ c \in Under(conn'[m])
<1>4. ASSUME NEW x \in Mains \union {None}, Answer(m, i, x) PROVE AnsweredWith(x)
  BY <1>3, <1>4, Answered
<1>5. /\ conn' \in [Mains -> Seq(Commands)]
      /\ \A n \in Mains \ {m} : conn'[n] = conn[n]
      /\ OneDel(conn'[m])
  BY <1>2, <1>3, Answered DEF Orderly
<1>6. OnlyRedis(m)
  BY <1>5 DEF RedisExecutes, OnlyRedis, leaderVars
<1>7. \A n \in Mains : Orderly(phase[n], role[n], conn[n], due[n])'
  <2>1. AnsweredWith(r)
    BY <1>2, <1>4
  <2> QED
    BY <1>3, <1>5, <1>6, <2>1, OrderlyAnswered
<1>8. TypeOK' /\ KeyLives'
  <2>1. /\ phase' \in [Mains -> Phases] /\ role' \in [Mains -> Roles]
        /\ event' \in [Mains -> Events] /\ due' \in [Mains -> BOOLEAN]
        /\ late' \in BOOLEAN
    BY <1>6 DEF OnlyRedis, TypeOK
  <2>2. key' \in Mains \union {None} /\ ttl' \in 0..TTL /\ KeyLives'
    BY <1>1, MultiMainAssumption
    DEF RedisGet, RedisSetIfNotExists, RedisExpire, RedisDel, TypeOK, IInv, KeyLives
  <2> QED
    BY <1>5, <2>1, <2>2 DEF TypeOK
<1>9. ASSUME ~ late, NEW n \in Mains
      PROVE  /\ KnowsItsKey(n, phase[n], role[n], conn[n])'
             /\ KeyIsRenewed(n, phase[n], role[n], conn[n], due[n])'
  <2>1. /\ KnowsItsKey(n, phase[n], role[n], conn[n])
        /\ KeyIsRenewed(n, phase[n], role[n], conn[n], due[n])
        /\ KnowsItsKey(m, phase[m], role[m], conn[m])
    BY <1>9
  <2>2. /\ phase'[n] = phase[n] /\ role'[n] = role[n] /\ due'[n] = due[n]
        /\ n # m => conn'[n] = conn[n]
    BY <1>6 DEF OnlyRedis
  <2>3. n # None
    BY MultiMainAssumption
  <2>4. CASE RedisGet(m, i)
    <3>1. PICK a \in Under(conn'[m]) :
            /\ a.cmd = "get" /\ a.done = TRUE /\ a.reply = key
            /\ Under(conn'[m]) \subseteq Under(conn[m]) \union {a}
            /\ \A c \in Under(conn[m]) : c = conn[m][i] \/ c \in Under(conn'[m])
      BY <1>4, <2>4 DEF RedisGet, TypeOK
    <3>2. key' = key /\ ttl' = ttl
      BY <2>4 DEF RedisGet
    <3>3. KnowsItsKey(n, phase[n], role[n], conn[n])'
      BY <2>1, <2>2, <3>1, <3>2 DEF KnowsItsKey
    <3>4. CASE n = m
      BY <2>1, <2>2, <3>1, <3>2, <3>4 DEF KnowsItsKey, KeyIsRenewed, Renews
    <3>5. CASE n # m
      BY <2>1, <2>2, <3>2, <3>3, <3>5 DEF KeyIsRenewed, Renews
    <3> QED
      BY <3>3, <3>4, <3>5
  <2>5. CASE RedisSetIfNotExists(m, i)
    <3>1. CASE key = None
      <4>1. PICK a \in Under(conn'[m]) :
              /\ a.cmd = "setnx"
              /\ Under(conn'[m]) \subseteq Under(conn[m]) \union {a}
        BY <1>4, <2>5, <3>1 DEF RedisSetIfNotExists
      <4>2. key' = m /\ ttl' = TTL
        BY <2>5, <3>1 DEF RedisSetIfNotExists
      <4>3. CASE n = m
        BY <2>1, <2>2, <4>1, <4>2, <4>3 DEF KnowsItsKey, KeyIsRenewed
      <4>4. CASE n # m
        BY <2>1, <2>2, <2>3, <3>1, <4>2, <4>4 DEF KnowsItsKey, KeyIsRenewed
      <4> QED
        BY <4>3, <4>4
    <3>2. CASE key # None
      <4>1. PICK a \in Under(conn'[m]) :
              /\ a.cmd = "setnx" /\ a.done = TRUE /\ a.reply = None
              /\ Under(conn'[m]) \subseteq Under(conn[m]) \union {a}
              /\ \A c \in Under(conn[m]) : c = conn[m][i] \/ c \in Under(conn'[m])
        BY <1>4, <2>5, <3>2 DEF RedisSetIfNotExists
      <4>2. key' = key /\ ttl' = ttl /\ conn[m][i].cmd = "setnx"
        BY <2>5, <3>2 DEF RedisSetIfNotExists
      <4>3. KnowsItsKey(n, phase[n], role[n], conn[n])'
        BY <2>1, <2>2, <2>3, <4>1, <4>2 DEF KnowsItsKey
      <4>4. ~ Renews(conn[m][i], m)
        BY <4>2 DEF Renews
      <4>5. CASE n = m
        BY <2>1, <2>2, <4>1, <4>2, <4>3, <4>4, <4>5 DEF KeyIsRenewed, Renews
      <4>6. CASE n # m
        BY <2>1, <2>2, <4>2, <4>3, <4>6 DEF KeyIsRenewed, Renews
      <4> QED
        BY <4>5, <4>6
    <3> QED
      BY <3>1, <3>2
  <2>6. CASE RedisExpire(m, i)
    <3>1. PICK a \in Under(conn'[m]) :
            /\ a.cmd = "expire"
            /\ Under(conn'[m]) \subseteq Under(conn[m]) \union {a}
      BY <1>4, <2>6 DEF RedisExpire
    <3>2. key' = key /\ (key # None => ttl' = TTL)
      BY <2>6 DEF RedisExpire
    <3>3. KnowsItsKey(n, phase[n], role[n], conn[n])'
      BY <2>1, <2>2, <2>3, <3>1, <3>2 DEF KnowsItsKey
    <3>4. KeyIsRenewed(n, phase[n], role[n], conn[n], due[n])'
      BY <2>1, <2>2, <2>3, <3>2 DEF KnowsItsKey, KeyIsRenewed
    <3> QED
      BY <3>3, <3>4
  <2>7. CASE RedisDel(m, i)
    <3>1. conn[m][i].cmd = "del" /\ key' = None
      BY <2>7 DEF RedisDel
    <3>2. key = m /\ phase[m] = "leaving"
      BY <1>3, <2>1, <3>1 DEF KnowsItsKey, Orderly
    <3>3. CASE n = m
      <4>1. \A c \in Under(conn'[m]) : c.cmd = "del" => c.done = TRUE
        BY <1>5, <2>7, OnlyDelDone DEF RedisDel
      <4> QED
        BY <2>2, <3>2, <3>3, <4>1 DEF KnowsItsKey, KeyIsRenewed
    <3>4. CASE n # m
      BY <2>1, <2>2, <3>2, <3>4 DEF KnowsItsKey, KeyIsRenewed
    <3> QED
      BY <3>3, <3>4
  <2> QED
    BY <1>1, <2>4, <2>5, <2>6, <2>7
<1> QED
  BY <1>6, <1>7, <1>8, <1>9, RedisStep

LEMMA ElapsesType ==
    ASSUME IInv, IntervalElapses, late' \in BOOLEAN
    PROVE  TypeOK' /\ KeyLives'
<1>1. TypeOK /\ KeyLives
  BY DEF IInv
<1>2. key' \in Mains \union {None} /\ ttl' \in 0..TTL /\ KeyLives'
  BY <1>1, MultiMainAssumption DEF IntervalElapses, TypeOK, KeyLives
<1>3. /\ phase' \in [Mains -> Phases] /\ role' \in [Mains -> Roles]
      /\ event' \in [Mains -> Events] /\ due' \in [Mains -> BOOLEAN]
      /\ conn' \in [Mains -> Seq(Commands)]
  BY <1>1 DEF IntervalElapses, TypeOK, leaderVars
<1> QED
  BY <1>2, <1>3 DEF TypeOK

LEMMA ElapsesOrderly ==
    ASSUME IInv, IntervalElapses, NEW m \in Mains
    PROVE  Orderly(phase[m], role[m], conn[m], due[m])'
<1>1. Orderly(phase[m], role[m], conn[m], due[m])
  BY LocalFacts
<1>2. /\ phase' = phase /\ role' = role /\ conn' = conn
      /\ phase[m] \in {"down", "init"} => ~ due'[m]
  BY DEF IntervalElapses, leaderVars, Intervals
<1> QED
  BY <1>1, <1>2 DEF Orderly

\* With nothing due and nothing under way the key of a leader is fresh: it outlives the
\* interval, at whose end a check is due.
LEMMA TickInv ==
    ASSUME IInv, Tick
    PROVE  IInv'
<1>1. IntervalElapses /\ late' = late /\ late \in BOOLEAN
  BY DEF Tick, IInv, TypeOK
<1>2. TypeOK' /\ KeyLives'
  BY <1>1, ElapsesType
<1>3. ASSUME NEW m \in Mains
      PROVE  Local(m, phase[m], role[m], conn[m], due[m])'
  <2>1. Orderly(phase[m], role[m], conn[m], due[m])'
    BY <1>1, ElapsesOrderly
  <2>2. ASSUME ~ late
        PROVE  /\ KnowsItsKey(m, phase[m], role[m], conn[m])'
               /\ KeyIsRenewed(m, phase[m], role[m], conn[m], due[m])'
    <3>1. /\ KnowsItsKey(m, phase[m], role[m], conn[m])
          /\ KeyIsRenewed(m, phase[m], role[m], conn[m], due[m])
          /\ Orderly(phase[m], role[m], conn[m], due[m])
          /\ phase[m] \in Phases
      BY <2>2, LocalFacts
    <3>2. /\ conn[m] = <<>> /\ ~ due[m]
          /\ phase' = phase /\ role' = role /\ conn' = conn
      BY DEF Tick, Behind, IntervalElapses, leaderVars
    <3>3. Under(conn[m]) = {}
      BY <3>2, UnderEmpty
    <3>4. CASE role[m] = "leader" /\ phase[m] # "leaving"
      <4>1. key = m /\ ttl = TTL
        BY <3>1, <3>2, <3>3, <3>4 DEF KnowsItsKey, KeyIsRenewed
      <4>2. key' = m
        BY <1>1, <4>1, MultiMainAssumption DEF IntervalElapses
      <4>3. phase[m] \in Intervals
        BY <3>1, <3>4 DEF Orderly, Phases, Intervals
      <4>4. due'[m]
        BY <1>1, <4>3 DEF IntervalElapses
      <4> QED
        BY <3>2, <3>3, <4>2, <4>4 DEF KnowsItsKey, KeyIsRenewed
    <3>5. CASE ~ (role[m] = "leader" /\ phase[m] # "leaving")
      BY <3>2, <3>3, <3>5 DEF KnowsItsKey, KeyIsRenewed
    <3> QED
      BY <3>4, <3>5
  <2> QED
    BY <1>1, <2>1, <2>2 DEF Local
<1> QED
  BY <1>2, <1>3 DEF IInv

LEMMA LateTickInv ==
    ASSUME IInv, LateTick
    PROVE  IInv'
<1>1. IntervalElapses /\ late' = TRUE
  BY DEF LateTick
<1>2. TypeOK' /\ KeyLives'
  BY <1>1, ElapsesType
<1>3. ASSUME NEW m \in Mains
      PROVE  Local(m, phase[m], role[m], conn[m], due[m])'
  BY <1>1, ElapsesOrderly DEF Local
<1> QED
  BY <1>2, <1>3 DEF IInv

-----------------------------------------------------------------------------

LEMMA InitInv == Init => IInv
<1> SUFFICES ASSUME Init PROVE IInv
  OBVIOUS
<1>1. TypeOK
  <2>1. conn \in [Mains -> Seq(Commands)]
    <3>1. <<>> \in Seq(Commands)
      BY EmptySeq
    <3> QED
      BY <3>1 DEF Init
  <2>2. due \in [Mains -> BOOLEAN] /\ late \in BOOLEAN
    BY Zenon DEF Init
  <2>3. key \in Mains \union {None} /\ ttl \in 0..TTL
    BY MultiMainAssumption DEF Init
  <2>4. /\ phase \in [Mains -> Phases] /\ role \in [Mains -> Roles]
        /\ event \in [Mains -> Events]
    BY DEF Init, Phases, Roles, Events
  <2> QED
    BY <2>1, <2>2, <2>3, <2>4 DEF TypeOK
<1>2. KeyLives
  BY DEF Init, KeyLives
<1>3. ASSUME NEW m \in Mains
      PROVE  Local(m, phase[m], role[m], conn[m], due[m])
  <2>1. phase[m] = "down" /\ role[m] = "unset" /\ conn[m] = <<>> /\ due[m] = FALSE
    BY DEF Init
  <2> QED
    BY <2>1, UnderEmpty DEF Local, Orderly, KnowsItsKey, KeyIsRenewed
<1> QED
  BY <1>1, <1>2, <1>3 DEF IInv

LEMMA NextInv == IInv /\ [Next]_vars => IInv'
<1> SUFFICES ASSUME IInv, [Next]_vars PROVE IInv'
  OBVIOUS
<1>1. CASE UNCHANGED vars
  <2>1. TypeOK' /\ KeyLives'
    BY <1>1 DEF IInv, TypeOK, KeyLives, vars, leaderVars, electionVars
  <2>2. ASSUME NEW m \in Mains
        PROVE  Local(m, phase[m], role[m], conn[m], due[m])'
    BY <1>1 DEF IInv, Local, Orderly, KnowsItsKey, KeyIsRenewed, Renews,
                vars, leaderVars, electionVars
  <2> QED
    BY <2>1, <2>2 DEF IInv
<1>2. CASE Tick \/ LateTick
  BY <1>2, TickInv, LateTickInv
<1>3. ASSUME NEW m \in Mains, RedisExecutes(m) \/ CheckLeader(m) \/ Start(m) PROVE IInv'
  BY <1>3, RedisInv, CheckLeaderInv, StartInv
<1>4. ASSUME NEW m \in Mains, Handle(m) PROVE IInv'
  BY <1>4, KeyIsOwnInv, KeyIsOthersInv, KeyIsVacantInv, TriedToBecomeLeaderInv, RenewedInv,
     GoneInv DEF Handle, KeyCleared
<1>5. ASSUME NEW m \in Mains, Startup(m) \/ StopProcess(m) \/ Shutdown(m) \/ Crash(m)
      PROVE  IInv'
  BY <1>5, StartupInv, ShutdownLeaderInv, GoneInv DEF Shutdown, ShutdownFollower, Crash
<1> QED
  BY <1>1, <1>2, <1>3, <1>4, <1>5 DEF Next

\* The variables of the election have their types, for any number of processes and any
\* pipeline: the time to live never falls below zero, since an expired key is gone.
THEOREM TypeCorrect == Spec => []TypeOK
<1>1. IInv => TypeOK
  BY DEF IInv
<1> QED
  BY <1>1, InitInv, NextInv, PTL DEF Spec

\* For any number of main processes and any TTL of two intervals or more: as long as no
\* process and no answer has been late, a process that believes to lead holds the key,
\* so that no two lead at a time (checkLeader, tryBecomeLeader, shutdown).
THEOREM TimelyLeader == Spec => []TimelyLeaderHoldsKey
<1>1. IInv => TimelyLeaderHoldsKey
  BY DEF IInv, Local, KnowsItsKey, TimelyLeaderHoldsKey
<1> QED
  BY <1>1, InitInv, NextInv, PTL DEF Spec

-----------------------------------------------------------------------------
(* The election implements Leadership *)

\* The view of the services changes with the phase of the process that steps.
LEMMA ServicePhaseIs ==
    /\ \A m \in Mains : ServicePhase[m] =
        IF phase[m] \in {"init", "elected"} THEN "starting"
        ELSE IF phase[m] = "leaving" THEN "stopping" ELSE phase[m]
    /\ \A m \in Mains : ServicePhase'[m] =
        IF phase'[m] \in {"init", "elected"} THEN "starting"
        ELSE IF phase'[m] = "leaving" THEN "stopping" ELSE phase'[m]
BY DEF ServicePhase

\* Phases the services cannot tell apart.
SameToServices(p, q) ==
    p = q \/ {p, q} = {"init", "elected"} \/ {p, q} = {"stopping", "leaving"}

LEMMA ServicePhaseKept ==
    ASSUME \A m \in Mains : SameToServices(phase[m], phase'[m])
    PROVE  ServicePhase' = ServicePhase
BY DEF ServicePhase, SameToServices

\* A process whose services see it enter phase q.
LEMMA ServicePhaseEntered ==
    ASSUME TypeOK, NEW m \in Mains, NEW p \in Phases, Enters(m, p)
    PROVE  ServicePhase' = [ServicePhase EXCEPT ![m] =
              IF p \in {"init", "elected"} THEN "starting"
              ELSE IF p = "leaving" THEN "stopping" ELSE p]
BY DEF ServicePhase, Enters, TypeOK, Phases

LEMMA StepImplements ==
    ASSUME IInv, [Next]_vars
    PROVE  [L!LNext]_(L!leaderVars)
<1> USE LocalFacts
<1> DEFINE Still == ServicePhase' = ServicePhase /\ role' = role
<1>1. Still => [L!LNext]_(L!leaderVars)
  BY DEF L!leaderVars
<1>2. UNCHANGED <<phase, role>> => Still
  BY DEF ServicePhase
<1> HIDE DEF Still
<1>3. CASE UNCHANGED vars \/ Tick \/ LateTick
  BY <1>1, <1>2, <1>3 DEF vars, leaderVars, Tick, LateTick, IntervalElapses
<1>4. ASSUME NEW m \in Mains, RedisExecutes(m) \/ CheckLeader(m) \/ Renewed(m)
      PROVE  [L!LNext]_(L!leaderVars)
  BY <1>1, <1>2, <1>4 DEF RedisExecutes, CheckLeader, Renewed, leaderVars
<1>5. ASSUME NEW m \in Mains, Start(m) PROVE L!LStart(m)
  BY <1>5, ServicePhaseEntered, ServicePhaseIs DEF Start, L!LStart, L!Enters, Phases
<1>6. ASSUME NEW m \in Mains, InitTracker(m) PROVE L!LInitTracker(m)
  BY <1>6, ServicePhaseEntered, ServicePhaseIs
  DEF InitTracker, L!LInitTracker, L!Enters, Phases, Orderly
<1>7. ASSUME NEW m \in Mains, RegisterEventHandlers(m) PROVE L!LRegister(m)
  BY <1>7, ServicePhaseEntered, ServicePhaseIs
  DEF RegisterEventHandlers, L!LRegister, L!Enters, Phases
<1>8. ASSUME NEW m \in Mains, StopProcess(m) PROVE L!LStopProcess(m)
  BY <1>8, ServicePhaseEntered, ServicePhaseIs DEF StopProcess, L!LStopProcess, L!Enters, Phases
<1>9. ASSUME NEW m \in Mains, ShutdownLeader(m) PROVE Still
  <2>1. \A n \in Mains : SameToServices(phase[n], phase'[n])
    BY <1>9 DEF ShutdownLeader, Enters, SameToServices, TypeOK
  <2> QED
    BY <1>9, <2>1, ServicePhaseKept DEF ShutdownLeader, Still
<1>10. ASSUME NEW m \in Mains, conn[m] # <<>> \/ phase[m] # "down" PROVE L!Alive(m)
  BY <1>10, ServicePhaseIs DEF L!Alive, Orderly, Phases
<1>11. ASSUME NEW m \in Mains, Gone(m), conn[m] # <<>> \/ phase[m] # "down" PROVE L!LExit(m)
  BY <1>10, <1>11, ServicePhaseEntered DEF Gone, Becomes, L!LExit, L!Enters, L!Becomes, Phases
<1>12. ASSUME NEW m \in Mains, KeyIsOwn(m) PROVE L!LTakeover(m)
  BY <1>10, <1>12, <1>2 DEF KeyIsOwn, Received, Becomes, L!LTakeover, L!Becomes, ServicePhase
<1>13. ASSUME NEW m \in Mains, KeyIsOthers(m) PROVE L!LStepdown(m) \/ Still
  BY <1>10, <1>13, <1>2
  DEF KeyIsOthers, Received, Becomes, L!LStepdown, L!Becomes, ServicePhase
<1>14. ASSUME NEW m \in Mains, KeyIsVacant(m) PROVE L!LStepdown(m)
  BY <1>10, <1>14 DEF KeyIsVacant, Received, Becomes, L!LStepdown, L!Becomes, ServicePhase
<1>15. ASSUME NEW m \in Mains, TriedToBecomeLeader(m) PROVE L!LTakeover(m) \/ L!LDemote(m)
  <2>1. \A n \in Mains : SameToServices(phase[n], phase'[n])
    BY <1>15 DEF TriedToBecomeLeader, SameToServices, TypeOK
  <2>2. ServicePhase' = ServicePhase
    BY <2>1, ServicePhaseKept
  <2> QED
    BY <1>10, <1>15, <2>2
    DEF TriedToBecomeLeader, Received, Becomes, L!LTakeover, L!LDemote, L!Becomes
<1>16. ASSUME NEW m \in Mains, Handle(m) PROVE [L!LNext]_(L!leaderVars)
  <2>1. KeyCleared(m) => L!LExit(m)
    BY <1>11 DEF KeyCleared, Received
  <2> QED
    BY <1>1, <1>4, <1>12, <1>13, <1>14, <1>15, <1>16, <2>1 DEF Handle, L!LNext
<1>17. ASSUME NEW m \in Mains, Startup(m) \/ StopProcess(m) \/ Start(m)
       PROVE  [L!LNext]_(L!leaderVars)
  BY <1>5, <1>6, <1>7, <1>8, <1>17 DEF Startup, L!LNext
<1>18. ASSUME NEW m \in Mains, Shutdown(m) \/ Crash(m) PROVE [L!LNext]_(L!leaderVars)
  <2>1. ShutdownFollower(m) \/ Crash(m) => L!LExit(m)
    BY <1>11 DEF ShutdownFollower, Crash, Alive
  <2> QED
    BY <1>1, <1>9, <1>18, <2>1 DEF Shutdown, L!LNext
<1> QED
  BY <1>3, <1>4, <1>16, <1>17, <1>18 DEF Next

\* The election implements the abstract specification that the services of a process are
\* written against, for any number of processes: what reaches WaitTracker, queue recovery
\* and pruning is a behaviour of Leadership.
THEOREM LeadershipImplemented == Spec => ImplementsLeadership
<1>1. Init => L!LInit
  BY DEF Init, L!LInit, ServicePhase
<1>2. IInv /\ [Next]_vars => [L!LNext]_(L!leaderVars)
  BY StepImplements
<1> QED
  BY <1>1, <1>2, InitInv, NextInv, PTL DEF Spec, ImplementsLeadership, L!LSpec
=============================================================================
