-------------------------- MODULE ForwardingProofs --------------------------
(***************************************************************************)
(* No walk is longer than its time to live, whatever the tables do, and    *)
(* none ends before its goal without need.                                 *)
(***************************************************************************)
EXTENDS Forwarding, FiniteSetTheorems, TLAPS

-----------------------------------------------------------------------------
(* A number read back from its byte is the same modulo 256.                *)
LEMMA AsByteType == ASSUME NEW v \in Int PROVE AsByte(v) \in Byte
BY Z3 DEF AsByte, Byte

LEMMA AsByteMod == ASSUME NEW v \in Int PROVE AsByte(v) % 256 = v % 256
BY Z3 DEF AsByte

(* Counting down takes one from a time to live, the step from -128 to 127  *)
(* included.                                                               *)
LEMMA CountDown ==
  ASSUME NEW t \in Byte, t # 0
  PROVE  AsByte(t - 1) % 256 = (t % 256) - 1
BY Z3 DEF AsByte, Byte

-----------------------------------------------------------------------------
(* WalkBounded of one packet on a link, and what it is before the packet   *)
(* leaves a node: one link less.                                           *)
Bounded(p) == p.hops + (p.ttl % 256) = (p.limit % 256) + 1

Leaving(p) == p.hops + (p.ttl % 256) = p.limit % 256

WalkInv == TypeOK /\ WalkBounded

LEMMA PacketFields ==
  ASSUME NEW p \in Packet
  PROVE  /\ p.k \in 1 .. MaxChats /\ p.at \in Node
         /\ p.from \in Int /\ p.to \in Int
         /\ p.ttl \in Byte /\ p.ttl \in Int
         /\ p.hops \in 0 .. MaxHops /\ p.hops \in Int
         /\ p.limit \in Ttls /\ p.limit \in Int
<1>1. /\ p.k \in 1 .. MaxChats /\ p.at \in Node /\ p.from \in Byte /\ p.to \in Byte
      /\ p.ttl \in Byte /\ p.hops \in 0 .. MaxHops /\ p.limit \in Ttls
  BY DEF Packet
<1>2. p.from \in Int /\ p.to \in Int /\ p.ttl \in Int
  BY <1>1 DEF Byte
<1>3. p.hops \in Int
  BY <1>1
<1>4. p.limit \in Int
  BY <1>1, BoundsAssumption
<1> QED
  BY <1>1, <1>2, <1>3, <1>4

LEMMA FreshLeaves ==
  ASSUME TypeOK, NEW cmd \in {"chat", "confirm"}, NEW k \in 1 .. MaxChats,
         NEW from \in Node, NEW to \in Int
  PROVE  Fresh(cmd, k, from, to) \in Packet /\ Leaving(Fresh(cmd, k, from, to))
<1>1. ttl[from] \in Ttls /\ ttl[from] \in Int /\ from \in Int
  <2>1. ttl \in [Node -> Ttls]
    BY DEF TypeOK
  <2>2. ttl[from] \in Ttls
    BY <2>1
  <2>3. from \in Int
    BY NodeAssumption
  <2>4. ttl[from] \in Int
    BY <2>2, BoundsAssumption
  <2> QED
    BY <2>2, <2>3, <2>4
<1>2. AsByte(to) \in Byte /\ AsByte(from) \in Byte /\ AsByte(ttl[from]) \in Byte
  BY <1>1, AsByteType
<1>3. Fresh(cmd, k, from, to) \in Packet
  BY <1>1, <1>2, BoundsAssumption DEF Fresh, Packet
<1>4. AsByte(ttl[from]) % 256 = ttl[from] % 256
  BY <1>1, AsByteMod
<1>5. ttl[from] % 256 \in Int
  BY <1>1
<1> QED
  BY <1>3, <1>4, <1>5 DEF Fresh, Leaving

LEMMA SentBounded ==
  ASSUME TypeOK, NEW n \in Node, NEW d, NEW p \in Packet, Leaving(p)
  PROVE  /\ SentFrom(n, d, p) \subseteq Packet
         /\ \A q \in SentFrom(n, d, p) : Bounded(q)
<1> SUFFICES ASSUME NEW q \in SentFrom(n, d, p)
             PROVE  q \in Packet /\ Bounded(q)
  OBVIOUS
<1>1. NextHop(n, d) \in Node
  BY DEF SentFrom, NextHop, TypeOK
<1>2. q = [p EXCEPT !.at = NextHop(n, d),
                    !.hops = IF p.hops < MaxHops THEN p.hops + 1 ELSE p.hops]
  BY DEF SentFrom
<1>3. /\ p.hops \in 0 .. MaxHops /\ p.limit \in Ttls
      /\ p.ttl % 256 \in 0 .. 255 /\ p.limit % 256 \in Int
  <2>1. p.ttl \in Int /\ p.limit \in Int
    BY PacketFields
  <2> QED
    BY <2>1, PacketFields
<1>4. p.hops + 1 \in 0 .. MaxHops /\ p.hops < MaxHops
  <2>1. (p.limit % 256) + 1 < MaxHops
    BY <1>3, HopsAssumption
  <2>2. MaxHops \in Nat
    BY BoundsAssumption
  <2> QED
    BY <1>3, <2>1, <2>2 DEF Leaving
<1>5. q = [p EXCEPT !.at = NextHop(n, d), !.hops = p.hops + 1]
  BY <1>2, <1>4
<1>6. q \in Packet
  BY <1>1, <1>4, <1>5 DEF Packet
<1>7. q.hops = p.hops + 1 /\ q.ttl = p.ttl /\ q.limit = p.limit
  BY <1>5 DEF Packet
<1> QED
  BY <1>3, <1>6, <1>7 DEF Leaving, Bounded

(* A packet that is sent on has been counted down once for the link behind *)
(* it.                                                                     *)
LEMMA AgedLeaves ==
  ASSUME NEW p \in Packet, Bounded(p), Lives(p)
  PROVE  Aged(p) \in Packet /\ Leaving(Aged(p))
<1>1. p.ttl \in Byte /\ p.ttl # 0 /\ p.hops \in Int /\ p.limit \in Int
  BY PacketFields DEF Lives
<1>2. AsByte(p.ttl - 1) \in Byte
  <2>1. p.ttl - 1 \in Int
    BY PacketFields
  <2> QED
    BY <2>1, AsByteType
<1>3. AsByte(p.ttl - 1) % 256 = (p.ttl % 256) - 1
  BY <1>1, CountDown
<1>4. /\ Aged(p) \in Packet
      /\ Aged(p).ttl = AsByte(p.ttl - 1)
      /\ Aged(p).hops = p.hops /\ Aged(p).limit = p.limit
  BY <1>2 DEF Aged, Packet
<1>5. p.ttl % 256 \in Int /\ p.limit % 256 \in Int
  BY <1>1 DEF Byte
<1> QED
  BY <1>1, <1>3, <1>4, <1>5 DEF Bounded, Leaving

-----------------------------------------------------------------------------
LEMMA WalkInit == Init => WalkInv
BY BoundsAssumption, RoutesAssumption DEF Init, WalkInv, TypeOK, WalkBounded

LEMMA WalkStep == WalkInv /\ [Next]_vars => WalkInv'
<1> SUFFICES ASSUME WalkInv, [Next]_vars
             PROVE  WalkInv'
  OBVIOUS
<1> USE DEF WalkInv
(* Whatever is on a link afterwards was there before or has just been sent *)
(* by a node.                                                              *)
<1>T. ASSUME NEW S, S \subseteq Packet, \A q \in S : Bounded(q),
             transit' \subseteq transit \cup S
      PROVE  (transit \subseteq Packet)' /\ WalkBounded'
  BY <1>T DEF TypeOK, WalkBounded, Bounded
<1>1. ASSUME NEW n \in Node, NEW d \in Node, Originate(n, d)
      PROVE  WalkInv'
  <2> DEFINE p == Fresh("chat", sent + 1, n, d)
  <2>1. sent + 1 \in 1 .. MaxChats
    BY <1>1, BoundsAssumption DEF Originate, TypeOK
  <2>2. p \in Packet /\ Leaving(p)
    BY <2>1, FreshLeaves, NodeAssumption
  <2>3. SentFrom(n, d, p) \subseteq Packet /\ \A q \in SentFrom(n, d, p) : Bounded(q)
    BY <2>2, SentBounded
  <2>4. (transit \subseteq Packet)' /\ WalkBounded'
    BY <1>1, <1>T, <2>3 DEF Originate
  <2> QED
    BY <1>1, <2>1, <2>4 DEF Originate, TypeOK
<1>2. ASSUME NEW p \in transit, Forward(p)
      PROVE  WalkInv'
  <2> DEFINE S == IF Lives(p) THEN SentFrom(p.at, p.to, Aged(p)) ELSE {}
  <2>1. p \in Packet /\ p.at \in Node /\ Bounded(p)
    BY PacketFields DEF TypeOK, WalkBounded, Bounded
  <2>2. S \subseteq Packet /\ \A q \in S : Bounded(q)
    <3>1. CASE Lives(p)
      BY <2>1, <3>1, AgedLeaves, SentBounded
    <3>2. CASE ~ Lives(p)
      BY <3>2
    <3> QED
      BY <3>1, <3>2
  <2>3. transit' \subseteq transit \cup S
    BY <1>2 DEF Forward
  <2> HIDE DEF S
  <2>4. (transit \subseteq Packet)' /\ WalkBounded'
    BY <1>T, <2>2, <2>3
  <2> QED
    BY <1>2, <2>4 DEF Forward, TypeOK
<1>3. ASSUME NEW p \in transit, DeliverChat(p)
      PROVE  WalkInv'
  <2> DEFINE r == Fresh("confirm", p.k, p.at, p.from)
  <2>1. p \in Packet /\ p.at \in Node /\ p.k \in 1 .. MaxChats /\ p.from \in Int
    BY PacketFields DEF TypeOK
  <2>2. r \in Packet /\ Leaving(r)
    BY <2>1, FreshLeaves
  <2>3. /\ SentFrom(p.at, p.from, r) \subseteq Packet
        /\ \A q \in SentFrom(p.at, p.from, r) : Bounded(q)
    BY <2>1, <2>2, SentBounded
  <2>4. transit' \subseteq transit \cup SentFrom(p.at, p.from, r)
    BY <1>3 DEF DeliverChat
  <2>5. (transit \subseteq Packet)' /\ WalkBounded'
    BY <1>T, <2>3, <2>4
  <2> QED
    BY <1>3, <2>1, <2>5 DEF DeliverChat, TypeOK
<1>4. ASSUME NEW p \in transit, DeliverConfirm(p)
      PROVE  WalkInv'
  <2>1. p.k \in 1 .. MaxChats
    BY PacketFields DEF TypeOK
  <2>2. transit' \subseteq transit
    BY <1>4 DEF DeliverConfirm
  <2>3. (transit \subseteq Packet)' /\ WalkBounded'
    BY <2>2 DEF TypeOK, WalkBounded
  <2> QED
    BY <1>4, <2>1, <2>3 DEF DeliverConfirm, TypeOK
<1>5. ASSUME NEW p \in transit, Lose(p)
      PROVE  WalkInv'
  <2>1. transit' \subseteq transit
    BY <1>5 DEF Lose
  <2>2. (transit \subseteq Packet)' /\ WalkBounded'
    BY <2>1 DEF TypeOK, WalkBounded
  <2> QED
    BY <1>5, <2>2, BoundsAssumption DEF Lose, Fault, TypeOK
<1>6. ASSUME NEW n \in Node, NEW d \in Node, NEW v \in Node \cup {None},
             Reroute(n, d, v)
      PROVE  WalkInv'
  BY <1>6, BoundsAssumption DEF Reroute, Fault, TypeOK, WalkBounded
<1>7. ASSUME NEW n \in Node, NEW t \in Ttls, CmdTtl(n, t)
      PROVE  WalkInv'
  BY <1>7, BoundsAssumption DEF CmdTtl, Fault, TypeOK, WalkBounded
<1>8. CASE UNCHANGED vars
  BY <1>8 DEF vars, TypeOK, WalkBounded
<1> QED
  BY <1>1, <1>2, <1>3, <1>4, <1>5, <1>6, <1>7, <1>8 DEF Next, Receive

LEMMA WalkCorrect == Spec => []WalkInv
BY WalkInit, WalkStep, PTL DEF Spec

-----------------------------------------------------------------------------
(* Type correctness: in particular a time to live never leaves its byte,   *)
(* and no walk reaches the bound on the history of hops.                   *)
THEOREM TypeCorrect == Spec => []TypeOK
<1>1. WalkInv => TypeOK
  BY DEF WalkInv
<1> QED
  BY <1>1, WalkCorrect, PTL

(* rbl_readmessage counts down once per link, so that no packet crosses    *)
(* more links than its time to live and one, in tables that loop or change *)
(* in any manner, for times to live beyond a signed byte too.              *)
THEOREM WalksAreBounded == Spec => []WalkBounded
<1>1. WalkInv => WalkBounded
  BY DEF WalkInv
<1> QED
  BY <1>1, WalkCorrect, PTL

-----------------------------------------------------------------------------
(* Ids that fit a signed byte.  With others InReach is no promise: the run *)
(* forwarding_ids shows a packet for node 200 that every node drops.       *)
SmallIds == Node \subseteq 0 .. 127

(* The byte a packet carries names its goal.                               *)
Addressed == \A p \in transit : p.to = AsByte(p.goal)

LEMMA SmallIsItself == ASSUME NEW v \in 0 .. 127 PROVE AsByte(v) = v
BY Z3 DEF AsByte

(* The fields a node leaves alone when it sends a packet.                  *)
LEMMA SentFields ==
  ASSUME NEW n, NEW d, NEW p \in Packet, NEW q \in SentFrom(n, d, p)
  PROVE  /\ q.to = p.to /\ q.goal = p.goal /\ q.cmd = p.cmd /\ q.k = p.k
         /\ q.ttl = p.ttl /\ q.at = NextHop(n, d)
BY DEF SentFrom, Packet

LEMMA AgedFields ==
  ASSUME NEW p \in Packet
  PROVE  /\ Aged(p).to = p.to /\ Aged(p).goal = p.goal
         /\ Aged(p).cmd = p.cmd /\ Aged(p).k = p.k
         /\ Aged(p).at = p.at /\ Aged(p).ttl = AsByte(p.ttl - 1)
BY DEF Aged, Packet

LEMMA AddressedStep ==
  ASSUME WalkInv, Addressed, [Next]_vars
  PROVE  Addressed'
<1>T. ASSUME NEW S, \A q \in S : q.to = AsByte(q.goal), transit' \subseteq transit \cup S
      PROVE  Addressed'
  BY <1>T DEF Addressed
<1>1. ASSUME NEW n \in Node, NEW d \in Node, Originate(n, d)
      PROVE  Addressed'
  <2> DEFINE p == Fresh("chat", sent + 1, n, d)
  <2>1. sent + 1 \in 1 .. MaxChats
    BY <1>1, BoundsAssumption DEF Originate, TypeOK, WalkInv
  <2>2. p \in Packet /\ p.to = AsByte(p.goal)
    BY <2>1, FreshLeaves, NodeAssumption DEF WalkInv, Fresh
  <2> HIDE DEF p
  <2>3. \A q \in SentFrom(n, d, p) : q.to = AsByte(q.goal)
    BY <2>2, SentFields
  <2> QED
    BY <1>1, <1>T, <2>3 DEF Originate, p
<1>2. ASSUME NEW p \in transit, Forward(p)
      PROVE  Addressed'
  <2> DEFINE S == SentFrom(p.at, p.to, Aged(p))
  <2>1. p \in Packet /\ p.to = AsByte(p.goal) /\ Bounded(p)
    BY DEF WalkInv, TypeOK, WalkBounded, Bounded, Addressed
  <2>2. CASE Lives(p)
    <3>1. Aged(p) \in Packet
      BY <2>1, <2>2, AgedLeaves
    <3>2. \A q \in S : q.to = AsByte(q.goal)
      BY <2>1, <3>1, SentFields, AgedFields
    <3> QED
      BY <1>2, <1>T, <3>2 DEF Forward
  <2>3. CASE ~ Lives(p)
    BY <1>2, <2>3 DEF Forward, Addressed
  <2> QED
    BY <2>2, <2>3
<1>3. ASSUME NEW p \in transit, DeliverChat(p)
      PROVE  Addressed'
  <2> DEFINE r == Fresh("confirm", p.k, p.at, p.from)
  <2>1. p.at \in Node /\ p.k \in 1 .. MaxChats /\ p.from \in Int
    BY PacketFields DEF WalkInv, TypeOK
  <2>2. r \in Packet /\ r.to = AsByte(r.goal)
    BY <2>1, FreshLeaves DEF WalkInv, Fresh
  <2> HIDE DEF r
  <2>3. \A q \in SentFrom(p.at, p.from, r) : q.to = AsByte(q.goal)
    BY <2>2, SentFields
  <2> QED
    BY <1>3, <1>T, <2>3 DEF DeliverChat, r
<1>4. CASE transit' \subseteq transit
  BY <1>4 DEF Addressed
<1> QED
  BY <1>1, <1>2, <1>3, <1>4
     DEF Next, Receive, DeliverConfirm, Lose, Reroute, CmdTtl, vars

-----------------------------------------------------------------------------
(* InReach of a packet, k links from its goal along path.                  *)
WayTo(p, k, path) ==
  /\ k \in 0 .. Cardinality(Node) - 1 /\ path \in [0 .. k -> Node]
  /\ k <= p.ttl % 256
  /\ path[0] = p.at /\ path[k] = p.goal
  /\ \A i \in 0 .. k - 1 : path[i] # p.goal /\ path[i + 1] = NextHop(path[i], p.goal)

(* The node after the first is one link nearer, and the packet that        *)
(* reaches it one count older.                                              *)
LEMMA ReachForward ==
  ASSUME SmallIds, WalkInv, Addressed, NEW p \in transit, InReach(p), Forward(p)
  PROVE  GoesOn(p)'
<1>1. p \in Packet /\ Bounded(p) /\ p.goal \in Node /\ p.ttl \in Byte /\ p.ttl \in Int
  BY PacketFields DEF WalkInv, TypeOK, WalkBounded, Bounded, InReach
<1>2. p.to = p.goal
  BY <1>1, SmallIsItself DEF Addressed, SmallIds
<1>3. PICK k \in 0 .. Cardinality(Node) - 1 : \E path \in [0 .. k -> Node] : WayTo(p, k, path)
  BY DEF InReach, WayTo
<1>4. PICK path \in [0 .. k -> Node] : WayTo(p, k, path)
  BY <1>3
<1>5. Cardinality(Node) \in Nat
  BY NodeAssumption, FS_CardinalityType
<1>6. k \in 1 .. Cardinality(Node) - 1
  <2>1. p.at # p.goal
    BY <1>2 DEF Forward
  <2>2. k # 0
    BY <1>4, <2>1 DEF WayTo
  <2> QED
    BY <1>3, <1>5, <2>2
<1>7. /\ path[1] = NextHop(p.at, p.to) /\ path[1] \in Node
      /\ path[1] # None
  <2>1. 0 \in 0 .. k - 1 /\ 1 \in 0 .. k /\ 0 + 1 = 1
    BY <1>6
  <2>2. path[0 + 1] = NextHop(path[0], p.goal) /\ path[0] = p.at
    BY <1>4, <2>1 DEF WayTo
  <2>3. path[1] \in Node
    BY <1>4, <2>1
  <2> QED
    BY <1>2, <2>1, <2>2, <2>3, NodeAssumption DEF None
<1>8. p.ttl # 0
  BY <1>1, <1>4, <1>6 DEF WayTo
<1>9. AsByte(p.ttl - 1) % 256 = (p.ttl % 256) - 1
  BY <1>1, <1>8, CountDown
<1>10. Aged(p) \in Packet
  BY <1>1, <1>8, AgedLeaves DEF Lives
<1>11. PICK q \in SentFrom(p.at, p.to, Aged(p)) : TRUE
  BY <1>7 DEF SentFrom
<1>12. q \in transit'
  BY <1>8, <1>11 DEF Forward, Lives
<1>13. /\ q.goal = p.goal /\ q.cmd = p.cmd /\ q.k = p.k
       /\ q.at = path[1] /\ q.ttl % 256 = (p.ttl % 256) - 1
  <2>1. /\ q.goal = Aged(p).goal /\ q.cmd = Aged(p).cmd /\ q.k = Aged(p).k
        /\ q.at = NextHop(p.at, p.to) /\ q.ttl = Aged(p).ttl
    BY <1>10, <1>11, SentFields
  <2>2. /\ Aged(p).goal = p.goal /\ Aged(p).cmd = p.cmd /\ Aged(p).k = p.k
        /\ Aged(p).ttl = AsByte(p.ttl - 1)
    BY <1>1, AgedFields
  <2> QED
    BY <1>7, <1>9, <2>1, <2>2
<1> DEFINE rest == [i \in 0 .. k - 1 |-> path[i + 1]]
<1>14. k - 1 \in 0 .. Cardinality(Node) - 1 /\ rest \in [0 .. k - 1 -> Node]
  BY <1>4, <1>5, <1>6
<1>15. k - 1 <= q.ttl % 256 /\ rest[0] = q.at /\ rest[k - 1] = q.goal
  <2>1. p.ttl % 256 \in Int
    BY <1>1
  <2>2. k <= p.ttl % 256 /\ path[k] = p.goal
    BY <1>4 DEF WayTo
  <2>3. rest[0] = path[1] /\ rest[k - 1] = path[k]
    BY <1>6
  <2> QED
    BY <1>6, <1>13, <2>1, <2>2, <2>3
<1>16. ASSUME NEW i \in 0 .. (k - 1) - 1
       PROVE  rest[i] # q.goal /\ rest[i + 1] = NextHop(rest[i], q.goal)
  <2>1. i + 1 \in 0 .. k - 1 /\ i \in 0 .. k - 1
    BY <1>6
  <2>2. rest[i] = path[i + 1] /\ rest[i + 1] = path[(i + 1) + 1]
    BY <2>1
  <2>3. path[i + 1] # p.goal /\ path[(i + 1) + 1] = NextHop(path[i + 1], p.goal)
    BY <1>4, <2>1 DEF WayTo
  <2> QED
    BY <1>13, <2>2, <2>3
<1> HIDE DEF rest
<1>17. UNCHANGED via
  BY DEF Forward
<1>18. InReach(q)'
  <2>1. \A n, d : NextHop(n, d)' = NextHop(n, d)
    BY <1>17 DEF NextHop
  <2>2. q.goal \in Node
    BY <1>1, <1>13
  <2> QED
    BY <1>14, <1>15, <1>16, <2>1, <2>2 DEF InReach
<1> QED
  BY <1>12, <1>13, <1>18 DEF GoesOn

(* A node takes for its own what is for it only.                           *)
LEMMA ReachDelivered ==
  ASSUME SmallIds, WalkInv, Addressed, NEW p \in transit, InReach(p),
         DeliverChat(p) \/ DeliverConfirm(p)
  PROVE  Arrives(p)'
<1>1. p.goal \in Node /\ p.to = p.goal
  BY SmallIsItself DEF Addressed, SmallIds, InReach
<1> QED
  BY <1>1 DEF Arrives, DeliverChat, DeliverConfirm

LEMMA ReachStep ==
  ASSUME SmallIds, WalkInv, Addressed, [Next]_vars, faults' = faults,
         NEW p \in transit, InReach(p)
  PROVE  Arrives(p)' \/ GoesOn(p)'
<1>1. faults \in Int
  BY DEF WalkInv, TypeOK
<1>2. ~ Fault
  BY <1>1 DEF Fault
<1>3. UNCHANGED via
  BY <1>2 DEF Next, Originate, Receive, Forward, DeliverChat, DeliverConfirm,
              Lose, Reroute, CmdTtl, vars
<1>4. CASE p \in transit'
  <2>1. \A n, d : NextHop(n, d)' = NextHop(n, d)
    BY <1>3 DEF NextHop
  <2>2. InReach(p)'
    BY <2>1 DEF InReach
  <2> QED
    BY <1>4, <2>2 DEF GoesOn
<1>5. CASE p \notin transit'
  <2>1. Receive(p)
    BY <1>2, <1>5 DEF Next, Receive, Originate, Forward, DeliverChat, DeliverConfirm,
                      Lose, Reroute, CmdTtl, vars
  <2> QED
    BY <2>1, ReachForward, ReachDelivered DEF Receive
<1> QED
  BY <1>4, <1>5

-----------------------------------------------------------------------------
(* rbl_readmessage on the way: with ids that fit the byte they are sent    *)
(* in, and any time to live, a packet whose next hops lead to its goal in  *)
(* the time it has left is neither dropped nor taken by another node nor   *)
(* sent astray, whatever else happens in the network but a fault.          *)
THEOREM PacketsStayInReach == SmallIds /\ Spec => StaysInReach
<1>1. Init => Addressed
  BY DEF Init, Addressed
<1>2. WalkInv /\ Addressed /\ [Next]_vars => Addressed'
  BY AddressedStep
<1>3. SmallIds /\ WalkInv /\ Addressed /\ [Next]_vars
        => [\A p \in transit : InReach(p) /\ faults' = faults =>
              Arrives(p)' \/ GoesOn(p)']_vars
  BY ReachStep
<1>4. CASE SmallIds
  <2>1. WalkInv /\ Addressed /\ [Next]_vars
          => [\A p \in transit : InReach(p) /\ faults' = faults =>
                Arrives(p)' \/ GoesOn(p)']_vars
    BY <1>3, <1>4
  <2> QED
    BY <1>1, <1>2, <2>1, WalkCorrect, PTL DEF Spec, StaysInReach
<1>5. CASE ~ SmallIds
  BY <1>5
<1> QED
  BY <1>4, <1>5

=============================================================================
