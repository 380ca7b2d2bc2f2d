------------------------------- MODULE Timers -------------------------------
(***************************************************************************)
(* Time in the routers: when a node sends its vector, and when it takes a  *)
(* neighbour for dead.                                                     *)
(*                                                                         *)
(* "now" is the true time; a node sees Reading, an int that wraps.  A node *)
(* n takes a turn of the main loop at least every Poll[n], and a datagram  *)
(* is read at most Delay after it was sent, or lost.  Distances are left   *)
(* out (Router): whether a vector changes them is open here.  So are chat  *)
(* packets, which show that their sender is alive and no more (Retry has   *)
(* their clock).                                                           *)
(***************************************************************************)
EXTENDS Clock

CONSTANTS
  Node,
  Links,          \* Links[n]: the neighbours of n in enlaces.config
  HeartbeatTime,  \* options.heartbeat
  HeartcheckTime, \* options.heartcheck
  Second,         \* the 1000 ms of router_dropcheck
  Poll, Delay,    \* how long a turn of each node's loop, and a datagram, may take
  FirstReadings,  \* what sys_getMilli may return at first: below a second
  Operated,       \* the nodes where somebody types
  Orders,         \* the commands they use
  Broadcast,      \*   and those of them they give to everybody, with /all
  MaxTime,        \* bound on the time
  MaxEvents       \* bound on commands, chat packets, losses and new distances

ASSUME LinksAssumption ==
  /\ Links \in [Node -> SUBSET Node]
  /\ \A n \in Node : n \notin Links[n]
  /\ \A n, m \in Node : m \in Links[n] => n \in Links[m]

ASSUME TimesAssumption ==
  /\ HeartbeatTime \in Nat \ {0} /\ HeartcheckTime \in Nat \ {0}
  /\ Second \in Nat /\ Poll \in [Node -> Nat] /\ Delay \in Nat
  /\ MaxTime \in Nat /\ MaxEvents \in Nat
  /\ FirstReadings \subseteq 0 .. MaxTime

ASSUME OrdersAssumption ==
  /\ Operated \subseteq Node
  /\ Orders \subseteq {"sleep", "wake", "stall", "hb", "hc"} /\ Broadcast \subseteq Orders

\* A node waits for its neighbours long enough: 4000 against 2000 ms.  The
\* first reading, below 1000, counts as silence of all.
ASSUME PatienceAssumption ==
  /\ \A n \in Node : HeartbeatTime + Poll[n] + Delay <= HeartcheckTime
  /\ \A t \in FirstReadings : t <= HeartbeatTime

VARIABLES
  now,             \* the true time
  time, nextHeartBeat, nextHeartCheck,  \* the static variables of router.c
  online,          \* online[n]: the neighbours n holds alive
  lastTime,        \* lastTime[n][m]: what net_recv noted of m
  sleeping, stalled,            \* options
  transit,         \* datagrams under way; equal ones are one
  events,          \* a bound on the model only
  turned,          \* history: the last turn of the loop,
  since,           \*   the last /sleep, or the last restart,
  spoke,           \*   the last vector sent,
  heard,           \*   heard[n][m]: the last datagram of m, orders excepted,
  missed           \*   missed[n][m]: n missed a vector of m since

routerVars == <<time, nextHeartBeat, nextHeartCheck>>
vars == <<now, routerVars, online, lastTime, sleeping, stalled, transit, events,
          turned, since, spoke, heard, missed>>

Datagram == [kind : {"dv", "rbl"} \cup Orders, from : Node, to : Node, sent : Int]

-----------------------------------------------------------------------------
(* sys_getMilli *)
Reading == Wrap(now)

(* The vector of n for the nodes of "on".                                  *)
Vectors(n, on) ==
  {[kind |-> "dv", from |-> n, to |-> m, sent |-> now] : m \in on}

(* send_dv of n when its neighbours are "on".                              *)
SendDv(n, on) == IF sleeping[n] THEN {} ELSE Vectors(n, on)

(* History: n spoke, to the nodes of "on" only.                            *)
Spoke(n) == spoke' = [spoke EXCEPT ![n] = IF sleeping[n] THEN @ ELSE now]

MissedBut(mis, n, on) ==
  [m \in Node |-> [mis[m] EXCEPT ![n] = @ \/ m \notin on]]

Init ==
  /\ now \in FirstReadings
  /\ time = [n \in Node |-> Reading]
  /\ nextHeartBeat = [n \in Node |-> Sum(Reading, HeartbeatTime)]
  /\ nextHeartCheck = [n \in Node |-> Sum(Reading, HeartcheckTime)]
  /\ online = Links
  /\ lastTime = [n \in Node |-> [m \in Node |-> 0]]
  /\ sleeping = [n \in Node |-> FALSE] /\ stalled = [n \in Node |-> FALSE]
  /\ transit = UNION {Vectors(n, Links[n]) : n \in Node}
  /\ events = 0
  /\ turned = [n \in Node |-> now] /\ since = [n \in Node |-> now]
  /\ spoke = [n \in Node |-> now]
  /\ heard = [n \in Node |-> [m \in Node |-> 0]]
  /\ missed = [n \in Node |-> [m \in Node |-> m \notin Links[n]]]

-----------------------------------------------------------------------------
(* Time passes, unless a turn or a datagram is due.                        *)
Tick ==
  /\ now < MaxTime
  /\ \A n \in Node : now < turned[n] + Poll[n]
  /\ \A f \in transit : now < f.sent + Delay
  /\ now' = now + 1
  /\ UNCHANGED <<routerVars, online, lastTime, sleeping, stalled,
                 transit, events, turned, since, spoke, heard, missed>>

-----------------------------------------------------------------------------
(* The two ways of router_dropcheck to tell who is gone.                   *)

\* Seeded fault: the neighbours are given one heartbeat.
SilentForABeat(n, t) ==
  {m \in online[n] : Sum(lastTime[n][m], HeartbeatTime) < t}

Silent(n, t) == {m \in online[n] : Sum(lastTime[n][m], HeartcheckTime) < t}

\* Seeded fault: the comparison is turned round, and the latest are dropped.
Ahead(n) ==
  {m \in online[n] : \E k \in online[n] : lastTime[n][k] < lastTime[n][m] - Second}

(* largest_time starts from -1.                                            *)
Behind(n) ==
  {m \in online[n] :
     \/ lastTime[n][m] < -1 - Second
     \/ \E k \in online[n] : lastTime[n][m] < lastTime[n][k] - Second}

(* The neighbours router_dropcheck drops when the static time is t.        *)
Gone(n, t) ==
  CASE sleeping[n] -> {}
    [] ~ sleeping[n] /\ stalled[n] -> Behind(n)
    [] OTHER -> Silent(n, t)

-----------------------------------------------------------------------------
BeatDue(n) == ~ stalled[n] /\ Reading >= nextHeartBeat[n]

CheckDue(n) == ~ stalled[n] /\ Reading >= nextHeartCheck[n]

\* Seeded fault: every heartbeat puts the heartcheck off.
NextCheckPutOff(n) ==
  IF BeatDue(n) \/ CheckDue(n) THEN Sum(Reading, HeartcheckTime) ELSE nextHeartCheck[n]

NextCheck(n) ==
  IF CheckDue(n) THEN Sum(Reading, HeartcheckTime) ELSE nextHeartCheck[n]

(* router_logic, in every turn of the main loop.                           *)
Turn(n) ==
  LET gone == IF CheckDue(n) THEN Gone(n, Reading) ELSE {}
      on == online[n] \ gone
      beat == IF BeatDue(n) THEN SendDv(n, online[n]) ELSE {}
      news == IF gone # {} THEN SendDv(n, on) ELSE {}
  IN  /\ time' = [time EXCEPT ![n] = Reading]
      /\ nextHeartBeat' = [nextHeartBeat EXCEPT ![n] =
                             IF BeatDue(n) THEN Sum(Reading, HeartbeatTime) ELSE @]
      /\ nextHeartCheck' = [nextHeartCheck EXCEPT ![n] = NextCheck(n)]
      /\ online' = [online EXCEPT ![n] = on]
      /\ IF BeatDue(n) \/ gone # {}
         THEN Spoke(n) /\ missed' = MissedBut(missed, n, on)
         ELSE UNCHANGED <<spoke, missed>>
      /\ transit' = transit \cup beat \cup news
      /\ turned' = [turned EXCEPT ![n] = now]
      /\ UNCHANGED <<now, lastTime, sleeping, stalled, events, since, heard>>

-----------------------------------------------------------------------------
Event == events < MaxEvents /\ events' = events + 1

\* Seeded fault: an order shows that its sender is alive.
NotedAlways(f) == TRUE

(* net_recv notes the time of every datagram but an order.                 *)
Noted(f) == f.kind \notin Orders

Note(f) ==
  /\ lastTime' = [lastTime EXCEPT ![f.to][f.from] = IF Noted(f) THEN Reading ELSE @]
  /\ heard' = [heard EXCEPT ![f.to][f.from] = IF f.kind \in Orders THEN @ ELSE now]

(* History: a node that sleeps or is stalled goes on being missed.         *)
MissedAfter(f) ==
  [missed EXCEPT ![f.to][f.from] = sleeping[f.from] \/ stalled[f.from]]

(* recv_dv: a sender that was not online comes online, which is a change;  *)
(* whether the distances change is left open, and counts as an event.      *)
ReceiveDv(f) ==
  LET n == f.to
      on == online[n] \cup ({f.from} \cap Links[n])
      changed == on # online[n]
  IN  /\ f.kind = "dv" /\ ~ sleeping[n]
      /\ Note(f)
      /\ online' = [online EXCEPT ![n] = on]
      /\ \/ /\ (changed /\ UNCHANGED events) \/ (~ changed /\ Event)
            /\ transit' = (transit \ {f}) \cup SendDv(n, on)
            /\ Spoke(n)
            /\ missed' = MissedBut(MissedAfter(f), n, on)
         \/ /\ ~ changed
            /\ transit' = transit \ {f}
            /\ missed' = MissedAfter(f)
            /\ UNCHANGED <<events, spoke>>
      /\ UNCHANGED <<now, routerVars, sleeping, stalled, turned, since>>

(* A chat packet, or a confirmation, of the neighbour.                     *)
ReceiveRbl(f) ==
  /\ f.kind = "rbl" /\ ~ sleeping[f.to]
  /\ Note(f)
  /\ transit' = transit \ {f}
  /\ missed' = MissedAfter(f)
  /\ UNCHANGED <<now, routerVars, online, sleeping, stalled, events, turned, since,
                 spoke>>

(* A sleeping node reads everything and obeys orders only.                 *)
Discard(f) ==
  /\ f.kind \notin Orders /\ sleeping[f.to]
  /\ Note(f)
  /\ transit' = transit \ {f}
  /\ missed' = MissedAfter(f)
  /\ UNCHANGED <<now, routerVars, online, sleeping, stalled, events,
                 turned, since, spoke>>

-----------------------------------------------------------------------------
(* The commands; "rest" is what is under way beside the order, if any.     *)

NobodyHears(n) == MissedBut(missed, n, {})

CmdSleep(n, rest) ==
  /\ sleeping' = [sleeping EXCEPT ![n] = TRUE]
  /\ since' = [since EXCEPT ![n] = IF sleeping[n] THEN @ ELSE now]
  /\ missed' = NobodyHears(n)
  /\ transit' = rest
  /\ UNCHANGED <<routerVars, online, stalled, spoke>>

\* Seeded fault: the restart forgets the heartbeat.
GreetNobody(n, rest) == transit' = rest /\ UNCHANGED <<spoke, missed>>

(* The heartbeat of a restart.                                             *)
Greet(n, rest) ==
  /\ transit' = rest \cup Vectors(n, Links[n])
  /\ spoke' = [spoke EXCEPT ![n] = now]
  /\ missed' = MissedBut(missed, n, Links[n])

\* Seeded fault: the restart takes every known node for a neighbour.
RestoredAll(n) == Node

(* Who is online after net_loadLinks.                                      *)
Restored(n) == Links[n]

(* cmd_wake: router_restart with its heartbeat, then reset_timeouts.       *)
CmdWake(n, rest) ==
  /\ sleeping' = [sleeping EXCEPT ![n] = FALSE]
  /\ online' = [online EXCEPT ![n] = Restored(n)]
  /\ Greet(n, rest)
  /\ time' = [time EXCEPT ![n] = Reading]
  /\ nextHeartBeat' = [nextHeartBeat EXCEPT ![n] = Sum(Reading, HeartbeatTime)]
  /\ nextHeartCheck' = [nextHeartCheck EXCEPT ![n] = Sum(Reading, HeartcheckTime)]
  /\ since' = [since EXCEPT ![n] = now]
  /\ UNCHANGED stalled

CmdStall(n, rest) ==
  /\ stalled' = [stalled EXCEPT ![n] = TRUE]
  /\ missed' = NobodyHears(n)
  /\ transit' = rest
  /\ UNCHANGED <<routerVars, online, sleeping, since, spoke>>

CmdHeartbeat(n, rest) ==
  /\ transit' = rest \cup SendDv(n, online[n])
  /\ Spoke(n)
  /\ missed' = MissedBut(missed, n, online[n])
  /\ UNCHANGED <<routerVars, online, sleeping, stalled, since>>

(* The static time is that of the last turn.                               *)
CmdHeartcheck(n, rest) ==
  LET gone == Gone(n, time[n])
      on == online[n] \ gone
  IN  /\ online' = [online EXCEPT ![n] = on]
      /\ transit' = rest \cup (IF gone # {} THEN SendDv(n, on) ELSE {})
      /\ IF gone # {}
         THEN Spoke(n) /\ missed' = MissedBut(missed, n, on)
         ELSE UNCHANGED <<spoke, missed>>
      /\ UNCHANGED <<routerVars, sleeping, stalled, since>>

Command(n, c, rest) ==
  /\ \/ c = "sleep" /\ CmdSleep(n, rest)
     \/ c = "wake"  /\ CmdWake(n, rest)
     \/ c = "stall" /\ CmdStall(n, rest)
     \/ c = "hb"    /\ CmdHeartbeat(n, rest)
     \/ c = "hc"    /\ CmdHeartcheck(n, rest)
  /\ UNCHANGED <<now, turned>>

(* cmd_order: what another node, or this one, has asked for with /all.     *)
ReceiveOrder(f) ==
  /\ f.kind \in Orders
  /\ Note(f)
  /\ Command(f.to, f.kind, transit \ {f})
  /\ UNCHANGED events

(* router_sendmessage to a neighbour, for a message of n or of another.    *)
SendRbl(n, m) ==
  /\ Event
  /\ ~ sleeping[n] /\ m \in online[n]
  /\ transit' = transit \cup {[kind |-> "rbl", from |-> n, to |-> m, sent |-> now]}
  /\ UNCHANGED <<now, routerVars, online, lastTime, sleeping, stalled, turned, since,
                 spoke, heard, missed>>

(* A line typed at n.                                                      *)
Typed(n, c) == Event /\ Command(n, c, transit) /\ UNCHANGED <<lastTime, heard>>

(* /all: net_secretsend asks neither whether n sleeps nor who is online.   *)
CmdAll(n, c) ==
  /\ Event
  /\ transit' = transit \cup
                  {[kind |-> c, from |-> n, to |-> m, sent |-> now] : m \in Node}
  /\ UNCHANGED <<now, routerVars, online, lastTime, sleeping, stalled,
                 turned, since, spoke, heard, missed>>

Lose(f) ==
  /\ Event
  /\ transit' = transit \ {f}
  /\ missed' = [missed EXCEPT ![f.to][f.from] = TRUE]
  /\ UNCHANGED <<now, routerVars, online, lastTime, sleeping, stalled,
                 turned, since, spoke, heard>>

-----------------------------------------------------------------------------
Receive(f) == ReceiveDv(f) \/ ReceiveRbl(f) \/ Discard(f) \/ ReceiveOrder(f)

Next ==
  \/ Tick
  \/ \E n \in Node : Turn(n)
  \/ \E n \in Operated :
       \/ \E m \in Node : SendRbl(n, m)
       \/ \E c \in Orders : Typed(n, c)
       \/ \E c \in Broadcast : CmdAll(n, c)
  \/ \E f \in transit : Receive(f) \/ Lose(f)

Spec == Init /\ [][Next]_vars

-----------------------------------------------------------------------------
TypeOK ==
  /\ now \in 0 .. MaxTime /\ events \in 0 .. MaxEvents
  /\ time \in [Node -> Int]
  /\ nextHeartBeat \in [Node -> Int] /\ nextHeartCheck \in [Node -> Int]
  /\ online \in [Node -> SUBSET Node] /\ \A n \in Node : online[n] \subseteq Links[n]
  /\ lastTime \in [Node -> [Node -> Int]] /\ heard \in [Node -> [Node -> Int]]
  /\ sleeping \in [Node -> BOOLEAN] /\ stalled \in [Node -> BOOLEAN]
  /\ transit \subseteq Datagram
  /\ turned \in [Node -> Int] /\ since \in [Node -> Int] /\ spoke \in [Node -> Int]
  /\ missed \in [Node -> [Node -> BOOLEAN]]

(* A node that is awake and not stalled sends its vector in every period   *)
(* of the heartbeat, whatever else it does (router.c, HEARTBEAT).          *)
BeatsInTime ==
  \A n \in Node : ~ sleeping[n] /\ ~ stalled[n] =>
    now < spoke[n] + HeartbeatTime + Poll[n]

(* What the failure detection promises: nobody is dropped before it has    *)
(* been silent for more than heartcheck, and nobody is trusted after two   *)
(* of them ("se faz tempo q o vizinho nao manda nada... derruba ele").     *)
Watching == [n \in Node |-> IF sleeping[n] \/ stalled[n] THEN -1 ELSE since[n]]

Detector == INSTANCE FailureDetector WITH
  clock <- now, trust <- online, watch <- Watching,
  Patience <- HeartcheckTime, Lag <- Poll

ImplementsDetector == Detector!DetectorSpec

(* Nobody is dropped who is awake, speaks in time and is heard: when the   *)
(* heartcheck drops a node, that node has slept or was stalled, or a       *)
(* packet of it was lost or a vector of it went to others only, since it   *)
(* was last heard.                                                         *)
OnlyMissedAreDropped ==
  [][ \A n \in Node : ~ stalled[n] =>
        \A m \in online[n] \ online'[n] : missed[n][m] ]_vars

(* A node that sleeps is found out by those awake, the orders it goes on   *)
(* sending notwithstanding (the "pequeno hack" of net_recv).               *)
SleeperDropped ==
  \A n, m \in Node :
    /\ ~ sleeping[n] /\ ~ stalled[n]
    /\ sleeping[m] /\ m \in online[n]
    => now < Detector!Later(since[m] + Delay, since[n]) + 2 * HeartcheckTime + Poll[n]

(* The neighbours n heard last.                                            *)
Latest(n) == {m \in online[n] : \A k \in online[n] : heard[n][k] <= heard[n][m]}

(* When the algorithm is stalled silence is measured against the neighbour *)
(* heard last: however long all have been silent, /hc drops neither that   *)
(* neighbour nor any that was heard within a second before it              *)
(* (router_dropcheck, the other method).                                   *)
StalledKeepsLatest ==
  [][ \A n \in Node : stalled[n] =>
        /\ Latest(n) \subseteq online'[n]
        /\ \A m \in online[n] \ online'[n] :
             \E k \in Latest(n) : heard[n][m] + Second < heard[n][k] ]_vars

-----------------------------------------------------------------------------
(* Why this holds, as long as no int overflows.                            *)
NoWrap ==
  MaxTime + HeartbeatTime <= IntMax /\ MaxTime + HeartcheckTime <= IntMax

(* Nothing is later than now, no turn and no datagram is overdue, and      *)
(* net_recv has noted the true times.                                      *)
ClockInv ==
  /\ \A n \in Node :
       /\ turned[n] <= now /\ now <= turned[n] + Poll[n]
       /\ time[n] <= now
       /\ 0 <= since[n] /\ since[n] <= now /\ spoke[n] <= now
       /\ \A m \in Node : 0 <= heard[n][m] /\ heard[n][m] <= now
  /\ \A f \in transit : f.sent <= now /\ now <= f.sent + Delay
  /\ lastTime = heard

(* The deadlines of a node that runs lie ahead of its last turn, that of   *)
(* the heartbeat one period after it spoke, that of the heartcheck two     *)
(* after it heard any neighbour it trusts.                                 *)
DeadlineInv ==
  \A n \in Node : ~ stalled[n] =>
    /\ turned[n] < nextHeartBeat[n] /\ turned[n] < nextHeartCheck[n]
    /\ nextHeartCheck[n] <= now + HeartcheckTime
    /\ ~ sleeping[n] =>
         /\ nextHeartBeat[n] <= spoke[n] + HeartbeatTime
         /\ \A m \in online[n] :
              nextHeartCheck[n] <= Detector!Later(heard[n][m], since[n]) + 2 * HeartcheckTime

(* A vector of m is on its way to n, sent one period after n heard m.      *)
NewsComes(n, m) ==
  \E f \in transit :
    /\ f.kind = "dv" /\ f.from = m /\ f.to = n
    /\ f.sent <= heard[n][m] + HeartbeatTime + Poll[m]

(* Who is not missed has been heard since it last spoke, or will be.       *)
FreshInv ==
  \A m \in Node : \A n \in Links[m] : ~ missed[n][m] =>
    /\ ~ sleeping[m] /\ ~ stalled[m]
    /\ spoke[m] <= heard[n][m] \/ NewsComes(n, m)

(* Packets pass between neighbours, and a sleeping node sends orders only. *)
SilenceInv ==
  /\ \A f \in transit : f.kind \notin Orders =>
       /\ f.to \in Links[f.from]
       /\ sleeping[f.from] => f.sent <= since[f.from]
  /\ \A n, m \in Node : sleeping[m] => heard[n][m] <= since[m] + Delay

(* The inductive invariant.                                                *)
TimersInv ==
  TypeOK /\ ClockInv /\ DeadlineInv /\ FreshInv /\ SilenceInv

=============================================================================
