----------------------------- MODULE Forwarding -----------------------------
(***************************************************************************)
(* The way of reliable packets through the network: rbl_readmessage at the *)
(* nodes they pass and at the one they are for, router_sendmessage, and    *)
(* the one-byte fields they carry (szb.c).                                 *)
(*                                                                         *)
(* Routing tables are given, and may change under way in any manner, loops *)
(* included.  A next hop is a live neighbour (Router, NextHopIsNeighbour), *)
(* so net_send takes every packet.  What packets say is left to Reliable:  *)
(* here each CHAT has a number of its own, and a retry is another CHAT;    *)
(* "arrived" is about the packet, not about the line on the screen.        *)
(***************************************************************************)
EXTENDS Integers, FiniteSets

CONSTANTS
  Node,       \* the ids of roteador.config
  Routes,     \* routing tables to start with: next hops or None
  Ttls,       \* values of options.ttl
  MaxChats,   \* bound on the CHATs sent
  MaxHops,    \* where the history of hops stops counting
  MaxFaults   \* bound on losses, changes of route and /ttl commands

None == -1

ASSUME NodeAssumption == Node \subseteq Nat /\ IsFiniteSet(Node)

ASSUME RoutesAssumption == Routes \subseteq [Node -> [Node -> Node \cup {None}]]

ASSUME BoundsAssumption ==
  Ttls \subseteq Int /\ MaxChats \in Nat /\ MaxHops \in Nat /\ MaxFaults \in Nat

\* No walk within its time to live is as long as MaxHops.
ASSUME HopsAssumption == \A t \in Ttls : (t % 256) + 1 < MaxHops

VARIABLES
  via,        \* via[n][d]: next hop of n for d
  ttl,        \* options.ttl of each node
  transit,    \* packets on a link, each on its way to node "at"
  sent,       \* number of CHATs sent
  arrived,    \* CHATs that reached the node they were for
  confirmed,  \* CHATs whose CONFIRM came back
  faults      \* a bound on the model only

vars == <<via, ttl, transit, sent, arrived, confirmed, faults>>

-----------------------------------------------------------------------------
(* What szb_read8 makes of a number that went through szb_write8: plain    *)
(* char is signed where this program is built.                             *)
AsByte(v) == ((v + 128) % 256) - 128

Byte == -128 .. 127

(* History: "goal", the node it was meant for; "hops", the links it went   *)
(* over; "limit", the time to live its sender gave it.                     *)
Packet ==
  [ cmd : {"chat", "confirm"}, k : 1 .. MaxChats, at : Node, to : Byte, from : Byte,
    ttl : Byte, goal : Int, hops : 0 .. MaxHops, limit : Ttls ]

(* get_rt_via: a number that is no node has the default row.               *)
NextHop(n, d) == IF d \in Node THEN via[n][d] ELSE None

(* router_sendmessage: p leaves n for its next hop, if there is one.       *)
SentFrom(n, d, p) ==
  IF NextHop(n, d) = None
  THEN {}
  ELSE {[p EXCEPT !.at = NextHop(n, d), !.hops = IF @ < MaxHops THEN @ + 1 ELSE @]}

Fresh(cmd, k, from, to) ==
  [ cmd |-> cmd, k |-> k, at |-> from, to |-> AsByte(to), from |-> AsByte(from),
    ttl |-> AsByte(ttl[from]), goal |-> to, hops |-> 0, limit |-> ttl[from] ]

TypeOK ==
  /\ via \in [Node -> [Node -> Node \cup {None}]]
  /\ ttl \in [Node -> Ttls]
  /\ transit \subseteq Packet
  /\ sent \in 0 .. MaxChats
  /\ arrived \subseteq 1 .. MaxChats /\ confirmed \subseteq 1 .. MaxChats
  /\ faults \in 0 .. MaxFaults

Init ==
  /\ via \in Routes
  /\ \E t \in Ttls : ttl = [n \in Node |-> t]
  /\ transit = {}
  /\ sent = 0
  /\ arrived = {} /\ confirmed = {}
  /\ faults = 0

-----------------------------------------------------------------------------
(* An attempt of rbl_logic to send a message of n to d.                    *)
Originate(n, d) ==
  /\ sent < MaxChats
  /\ NextHop(n, d) # None
  /\ transit' = transit \cup SentFrom(n, d, Fresh("chat", sent + 1, n, d))
  /\ sent' = sent + 1
  /\ UNCHANGED <<via, ttl, arrived, confirmed, faults>>

\* Seeded fault: only a positive time to live lets a packet pass.
LivesPositive(p) == p.ttl > 0

Lives(p) == p.ttl # 0

\* Seeded fault: the packet passes as it is.
AgedNot(p) == p

\* Seeded fault: the count runs below what the byte can hold.
AgedUnwrapped(p) == [p EXCEPT !.ttl = @ - 1]

Aged(p) == [p EXCEPT !.ttl = AsByte(@ - 1)]

(* A node that p is not for sends it on while it lives, else drops it.     *)
Forward(p) ==
  /\ p.to # p.at
  /\ transit' = (transit \ {p}) \cup
                  (IF Lives(p) THEN SentFrom(p.at, p.to, Aged(p)) ELSE {})
  /\ UNCHANGED <<via, ttl, sent, arrived, confirmed, faults>>

(* The CHAT is for this node, which confirms it with a time to live of its *)
(* own.                                                                    *)
DeliverChat(p) ==
  /\ p.to = p.at /\ p.cmd = "chat"
  /\ arrived' = arrived \cup {p.k}
  /\ transit' = (transit \ {p}) \cup
                  SentFrom(p.at, p.from, Fresh("confirm", p.k, p.at, p.from))
  /\ UNCHANGED <<via, ttl, sent, confirmed, faults>>

DeliverConfirm(p) ==
  /\ p.to = p.at /\ p.cmd = "confirm"
  /\ confirmed' = confirmed \cup {p.k}
  /\ transit' = transit \ {p}
  /\ UNCHANGED <<via, ttl, sent, arrived, faults>>

Receive(p) == Forward(p) \/ DeliverChat(p) \/ DeliverConfirm(p)

-----------------------------------------------------------------------------
Fault == faults < MaxFaults /\ faults' = faults + 1

(* A datagram is lost, or the node it reaches sleeps.                      *)
Lose(p) ==
  /\ Fault
  /\ transit' = transit \ {p}
  /\ UNCHANGED <<via, ttl, sent, arrived, confirmed>>

(* The router of n changes its mind about d.                               *)
Reroute(n, d, v) ==
  /\ Fault
  /\ via' = [via EXCEPT ![n][d] = v]
  /\ UNCHANGED <<ttl, transit, sent, arrived, confirmed>>

(* /ttl *)
CmdTtl(n, t) ==
  /\ Fault
  /\ ttl' = [ttl EXCEPT ![n] = t]
  /\ UNCHANGED <<via, transit, sent, arrived, confirmed>>

Next ==
  \/ \E n, d \in Node :
       \/ Originate(n, d)
       \/ \E v \in Node \cup {None} : n \notin {d, v} /\ Reroute(n, d, v)
  \/ \E n \in Node, t \in Ttls : CmdTtl(n, t)
  \/ \E p \in transit : Receive(p) \/ Lose(p)

Spec == Init /\ [][Next]_vars

(* The main loop of every node drains its socket: a packet on a link is    *)
(* received.                                                               *)
Fairness == \A k \in 1 .. MaxChats :
              WF_vars(\E p \in transit : p.k = k /\ Receive(p))

FairSpec == Spec /\ Fairness

-----------------------------------------------------------------------------
(* Whatever the routing tables do meanwhile, a packet crosses at most one  *)
(* link more than the time to live it started with, taken modulo 256: the  *)
(* links behind it and the time it has left add up to that.                *)
WalkBounded ==
  \A p \in transit : p.hops + (p.ttl % 256) = (p.limit % 256) + 1

(* The next hops lead p where it was meant to go, in the time it has left: *)
(* path is the way, and meets the goal at its end only.                    *)
InReach(p) ==
  /\ p.goal \in Node
  /\ \E k \in 0 .. Cardinality(Node) - 1 : \E path \in [0 .. k -> Node] :
       /\ k <= p.ttl % 256
       /\ path[0] = p.at /\ path[k] = p.goal
       /\ \A i \in 0 .. k - 1 :
            path[i] # p.goal /\ path[i + 1] = NextHop(path[i], p.goal)

(* What becomes of p when a node has received it: the node it was meant    *)
(* for has taken it, or it is on the next link and in reach.               *)
Arrives(p) ==
  /\ p.at = p.goal
  /\ IF p.cmd = "chat" THEN p.k \in arrived ELSE p.k \in confirmed

GoesOn(p) ==
  \E q \in transit :
    q.cmd = p.cmd /\ q.k = p.k /\ q.goal = p.goal /\ InReach(q)

(* A packet in reach of its goal stays in reach until it is there, unless  *)
(* something happens to the network or to the packet first: no node on the *)
(* way drops it for its age, takes it for its own or sends it astray.      *)
StaysInReach ==
  [][\A p \in transit : InReach(p) /\ faults' = faults =>
       Arrives(p)' \/ GoesOn(p)']_vars

(* Every walk ends, loops or no loops (rbl_readmessage drops a packet at   *)
(* time to live 0 and counts it down before).                              *)
EveryWalkEnds == \A k \in 1 .. MaxChats :
  (\E p \in transit : p.k = k) ~> ~ (\E p \in transit : p.k = k)

=============================================================================
