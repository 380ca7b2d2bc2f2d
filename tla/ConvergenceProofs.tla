------------------------- MODULE ConvergenceProofs -------------------------
(***************************************************************************)
(* Theorems about the tables of Router and the walks of the network, for   *)
(* any network and any number of faults.                                   *)
(***************************************************************************)
EXTENDS RouterProofs, Convergence

-----------------------------------------------------------------------------
(* Walks, one link at a time.                                              *)
LEMMA WalkFacts ==
  ASSUME NEW w \in Walks
  PROVE  /\ w.len \in Nat \ {0} /\ w.len < Infinity
         /\ w.node \in [0 .. w.len -> Node]
         /\ w.rest \in [0 .. w.len -> Nat]
         /\ \A i \in 0 .. w.len : w.rest[i] < Infinity
         /\ w.rest[w.len] = 0
         /\ \A i \in 0 .. w.len - 1 :
              /\ w.node[i] # w.node[w.len]
              /\ w.node[i + 1] \in Linked(w.node[i])
              /\ w.rest[i] = Cost[w.node[i]][w.node[i + 1]] + w.rest[i + 1]
<1>1. PICK k \in 1 .. Infinity - 1 : w \in WalksOfLength(k)
  BY DEF Walks
<1>2. /\ w \in [len : {k}, node : [0 .. k -> Node], rest : [0 .. k -> 0 .. Infinity - 1]]
      /\ w.rest[k] = 0
      /\ \A i \in 0 .. k - 1 :
           /\ w.node[i] # w.node[k]
           /\ w.node[i + 1] \in Linked(w.node[i])
           /\ w.rest[i] = Cost[w.node[i]][w.node[i + 1]] + w.rest[i + 1]
  BY <1>1 DEF WalksOfLength
<1>3. w.len = k /\ w.node \in [0 .. k -> Node] /\ w.rest \in [0 .. k -> 0 .. Infinity - 1]
  BY <1>2
<1>4. k \in Nat \ {0} /\ k < Infinity
  BY InfinityAssumption
<1>5. w.rest \in [0 .. k -> Nat] /\ \A i \in 0 .. k : w.rest[i] < Infinity
  BY <1>3, InfinityAssumption
<1> QED
  BY <1>2, <1>3, <1>4, <1>5

LEMMA WalkIntro ==
  ASSUME NEW k \in Nat \ {0}, k < Infinity,
         NEW node \in [0 .. k -> Node], NEW rest \in [0 .. k -> Nat],
         \A i \in 0 .. k : rest[i] < Infinity,
         rest[k] = 0,
         \A i \in 0 .. k - 1 : /\ node[i] # node[k]
                               /\ node[i + 1] \in Linked(node[i])
                               /\ rest[i] = Cost[node[i]][node[i + 1]] + rest[i + 1]
  PROVE  [len |-> k, node |-> node, rest |-> rest] \in Walks
<1>1. k \in 1 .. Infinity - 1
  BY InfinityAssumption
<1>2. rest \in [0 .. k -> 0 .. Infinity - 1]
  BY InfinityAssumption
<1>3. [len |-> k, node |-> node, rest |-> rest] \in WalksOfLength(k)
  BY <1>2 DEF WalksOfLength
<1> QED
  BY <1>1, <1>3 DEF Walks

(* A set of naturals that is not empty has a least element: a claim about  *)
(* all naturals is proved by its least counterexample.                     *)
LEMMA LeastOf ==
  ASSUME NEW S \in SUBSET Nat, S # {}
  PROVE  \E m \in S : \A y \in S : m <= y
BY MinOfNaturals

(* Each link costs at least 1, so that a walk has no more links than cost. *)
LEMMA WalkIsShort ==
  ASSUME PositiveCosts, NEW w \in Walks
  PROVE  w.len <= w.rest[0]
<1> DEFINE k == w.len
           S == {j \in 0 .. k : ~ (j <= w.rest[k - j])}
<1>1. k \in Nat \ {0} /\ w.rest \in [0 .. k -> Nat] /\ w.rest[k] = 0
      /\ w.node \in [0 .. k -> Node]
  BY WalkFacts
<1> HIDE DEF k
<1>2. SUFFICES S = {}
  <2>1. k \in 0 .. k /\ k - k = 0
    BY <1>1
  <2> QED
    BY <2>1 DEF k
<1>3. SUFFICES ASSUME S # {}
               PROVE  FALSE
  OBVIOUS
<1>4. S \in SUBSET Nat
  BY <1>1
<1> HIDE DEF S
<1>5. PICK j \in S : \A y \in S : j <= y
  BY <1>3, <1>4, LeastOf
<1>6. j \in 0 .. k /\ ~ (j <= w.rest[k - j])
  BY <1>5 DEF S
<1>7. j # 0
  BY <1>1, <1>6
<1> DEFINE i == k - j
<1>8. i \in 0 .. k - 1 /\ i \in 0 .. k /\ i + 1 \in 0 .. k /\ j - 1 \in 0 .. k /\ k - (j - 1) = i + 1
  BY <1>1, <1>6, <1>7
<1>9. j - 1 \notin S
  BY <1>5, <1>6, <1>1
<1>10. j - 1 <= w.rest[i + 1]
  BY <1>8, <1>9 DEF S
<1>11. /\ w.node[i + 1] \in Linked(w.node[i])
       /\ w.rest[i] = Cost[w.node[i]][w.node[i + 1]] + w.rest[i + 1]
  BY <1>8, WalkFacts DEF k
<1>12. w.node[i] \in Node /\ w.node[i + 1] \in Node /\ w.rest[i] \in Nat /\ w.rest[i + 1] \in Nat
  BY <1>1, <1>8
<1>13. Cost[w.node[i]][w.node[i + 1]] \in Nat /\ Cost[w.node[i]][w.node[i + 1]] > 0
  BY <1>11, <1>12, CostType DEF PositiveCosts
<1>14. j <= w.rest[i]
  BY <1>6, <1>10, <1>11, <1>12, <1>13
<1> QED
  BY <1>6, <1>14

LEMMA LinkWalk ==
  ASSUME PositiveCosts, NEW a \in Node, NEW b \in Linked(a), Cost[a][b] < Infinity
  PROVE  LET w == [len  |-> 1,
                   node |-> [i \in 0 .. 1 |-> IF i = 0 THEN a ELSE b],
                   rest |-> [i \in 0 .. 1 |-> IF i = 0 THEN Cost[a][b] ELSE 0]]
         IN  w \in WalksFrom(a, b)
<1> DEFINE node == [i \in 0 .. 1 |-> IF i = 0 THEN a ELSE b]
           rest == [i \in 0 .. 1 |-> IF i = 0 THEN Cost[a][b] ELSE 0]
<1>1. b \in Node /\ b # a /\ Cost[a][b] \in Nat /\ Cost[a][b] > 0
  BY CostType DEF Linked, PositiveCosts
<1>2. 1 < Infinity
  BY <1>1, InfinityAssumption
<1>3. node \in [0 .. 1 -> Node] /\ rest \in [0 .. 1 -> Nat]
  BY <1>1
<1>4. rest[0] = Cost[a][b] /\ rest[1] = 0 /\ node[0] = a /\ node[1] = b
  OBVIOUS
<1>5. \A i \in 0 .. 1 : rest[i] < Infinity
  BY <1>1, <1>2, InfinityAssumption
<1>6. \A i \in 0 .. 1 - 1 : i = 0
  OBVIOUS
<1> HIDE DEF node, rest
<1>7. \A i \in 0 .. 1 - 1 : /\ node[i] # node[1]
                            /\ node[i + 1] \in Linked(node[i])
                            /\ rest[i] = Cost[node[i]][node[i + 1]] + rest[i + 1]
  BY <1>1, <1>4, <1>6
<1>8. [len |-> 1, node |-> node, rest |-> rest] \in Walks
  <2>1. 1 \in Nat \ {0}
    OBVIOUS
  <2> QED
    BY <1>2, <1>3, <1>4, <1>5, <1>7, <2>1, WalkIntro
<1>9. [len |-> 1, node |-> node, rest |-> rest] \in WalksFrom(a, b)
  BY <1>4, <1>8 DEF WalksFrom
<1> QED
  BY <1>9 DEF node, rest

(* The walk that starts at a, goes to the first node of w and follows w.   *)
Prepend(a, w) ==
  LET c == Cost[a][w.node[0]] + w.rest[0]
  IN  [ len  |-> w.len + 1,
        node |-> [i \in 0 .. w.len + 1 |-> IF i = 0 THEN a ELSE w.node[i - 1]],
        rest |-> [i \in 0 .. w.len + 1 |-> IF i = 0 THEN c ELSE w.rest[i - 1]] ]

LEMMA PrependWalk ==
  ASSUME PositiveCosts, NEW a \in Node, NEW m \in Linked(a), NEW b \in Node \ {a},
         NEW w \in WalksFrom(m, b), Cost[a][m] + w.rest[0] < Infinity
  PROVE  /\ Prepend(a, w) \in WalksFrom(a, b)
         /\ Prepend(a, w).len = w.len + 1
         /\ Prepend(a, w).rest[0] = Cost[a][m] + w.rest[0]
         /\ Prepend(a, w).node[0] = a /\ Prepend(a, w).node[1] = m
         /\ \A i \in 1 .. w.len + 1 : Prepend(a, w).node[i] = w.node[i - 1]
<1> DEFINE k    == w.len + 1
           c    == Cost[a][m] + w.rest[0]
           node == [i \in 0 .. k |-> IF i = 0 THEN a ELSE w.node[i - 1]]
           rest == [i \in 0 .. k |-> IF i = 0 THEN c ELSE w.rest[i - 1]]
<1>1. w \in Walks /\ w.node[0] = m /\ w.node[w.len] = b
  BY DEF WalksFrom
<1>2. /\ w.len \in Nat \ {0}
      /\ w.node \in [0 .. w.len -> Node]
      /\ w.rest \in [0 .. w.len -> Nat]
      /\ \A i \in 0 .. w.len : w.rest[i] < Infinity
      /\ w.rest[w.len] = 0
      /\ \A i \in 0 .. w.len - 1 :
           /\ w.node[i] # w.node[w.len]
           /\ w.node[i + 1] \in Linked(w.node[i])
           /\ w.rest[i] = Cost[w.node[i]][w.node[i + 1]] + w.rest[i + 1]
      /\ w.len <= w.rest[0]
  BY <1>1, WalkFacts, WalkIsShort
<1>3. /\ m \in Node /\ Cost[a][m] \in Nat /\ Cost[a][m] > 0
  BY CostType DEF Linked, PositiveCosts
<1>4. w.rest[0] \in Nat /\ c \in Nat /\ c < Infinity /\ k \in Nat \ {0} /\ k <= c
  BY <1>2, <1>3
<1>5. k < Infinity
  BY <1>4, InfinityAssumption
<1>6. \A i \in 0 .. k : i # 0 => i - 1 \in 0 .. w.len
  BY <1>2
<1>7. node \in [0 .. k -> Node] /\ rest \in [0 .. k -> Nat]
  BY <1>2, <1>4, <1>6
<1>8. \A i \in 0 .. k : rest[i] < Infinity
  BY <1>2, <1>4, <1>6
<1>9. /\ 0 \in 0 .. k /\ 1 \in 0 .. k /\ k \in 0 .. k /\ k # 0 /\ k - 1 = w.len /\ 1 - 1 = 0
  BY <1>2
<1>10. node[0] = a /\ rest[0] = c /\ node[1] = m /\ rest[k] = 0 /\ node[k] = b
  BY <1>1, <1>2, <1>9
<1>11. \A i \in 1 .. k : node[i] = w.node[i - 1] /\ rest[i] = w.rest[i - 1]
  BY <1>4
<1>12. \A i \in 0 .. k - 1 : /\ node[i] # node[k]
                              /\ node[i + 1] \in Linked(node[i])
                              /\ rest[i] = Cost[node[i]][node[i + 1]] + rest[i + 1]
  <2> SUFFICES ASSUME NEW i \in 0 .. k - 1
               PROVE  /\ node[i] # node[k]
                      /\ node[i + 1] \in Linked(node[i])
                      /\ rest[i] = Cost[node[i]][node[i + 1]] + rest[i + 1]
    OBVIOUS
  <2>1. i + 1 \in 1 .. k /\ (i + 1) - 1 = i
    BY <1>4
  <2>2. node[i + 1] = w.node[i] /\ rest[i + 1] = w.rest[i]
    BY <1>11, <2>1
  <2>3. CASE i = 0
    BY <1>1, <1>10, <2>2, <2>3
  <2>4. CASE i # 0
    <3>1. i \in 1 .. k /\ i - 1 \in 0 .. w.len - 1 /\ (i - 1) + 1 = i
      BY <1>4, <1>2, <2>4
    <3>2. node[i] = w.node[i - 1] /\ rest[i] = w.rest[i - 1]
      BY <1>11, <3>1
    <3>3. /\ w.node[i - 1] # b
          /\ w.node[(i - 1) + 1] \in Linked(w.node[i - 1])
          /\ w.rest[i - 1] = Cost[w.node[i - 1]][w.node[(i - 1) + 1]] + w.rest[(i - 1) + 1]
      BY <1>1, <1>2, <3>1
    <3> QED
      BY <1>10, <2>2, <3>1, <3>2, <3>3
  <2> QED
    BY <2>3, <2>4
<1>13. Prepend(a, w) = [len |-> k, node |-> node, rest |-> rest]
  BY <1>1 DEF Prepend
<1> HIDE DEF node, rest, k, c
<1>14. Prepend(a, w) \in Walks
  <2>1. k \in Nat \ {0} /\ rest[k] = 0
    BY <1>4, <1>10
  <2>2. [len |-> k, node |-> node, rest |-> rest] \in Walks
    BY <1>5, <1>7, <1>8, <1>12, <2>1, WalkIntro
  <2> QED
    BY <1>13, <2>2
<1>15. Prepend(a, w).len = k /\ Prepend(a, w).node = node /\ Prepend(a, w).rest = rest
  BY <1>13
<1>16. Prepend(a, w) \in WalksFrom(a, b)
  BY <1>10, <1>14, <1>15 DEF WalksFrom
<1> QED
  BY <1>10, <1>11, <1>15, <1>16 DEF k, c

-----------------------------------------------------------------------------
(* Every distance is the cost of some way.                                 *)
IsWay(a, b, d) == Exists(d) => <<a, b, d>> \in Ways

LEMMA WayOfLink ==
  ASSUME NEW a \in Node, NEW b \in Linked(a)
  PROVE  <<a, b, Cost[a][b]>> \in Ways
<1>1. <<a, b>> \in Link
  BY DEF Link, Linked
<1> QED
  BY <1>1 DEF Ways

LEMMA WayOfWalk ==
  ASSUME NEW a, NEW b, NEW w \in WalksFrom(a, b)
  PROVE  <<a, b, w.rest[0]>> \in Ways
BY DEF Ways, WalksFrom

(* The way from n by its neighbour m, and on along a way from m.           *)
IsWayBy(n, m, to, d) == Exists(d) => d \in CostsBy(n, m, to)

LEMMA ThroughIsBy ==
  ASSUME NEW n \in Node, NEW m \in Linked(n), NEW to \in Node,
         NEW d \in Dist, IsWay(m, to, d)
  PROVE  IsWayBy(n, m, to, Through(d, Cost[n][m]))
<1> DEFINE c == Cost[n][m]
<1>1. c \in Nat
  BY CostType DEF Linked
<1>2. SUFFICES ASSUME Exists(d), d + c < Infinity
               PROVE  d + c \in CostsBy(n, m, to)
  BY DEF IsWayBy, Through, Exists, None
<1>3. d \in Nat
  BY <1>2 DEF Dist, Exists, None
<1>4. d + c \in 0 .. Infinity - 1 /\ (d + c) - c = d
  BY <1>1, <1>2, <1>3, InfinityAssumption
<1>5. <<m, to, d>> \in Ways
  BY <1>2 DEF IsWay
<1> QED
  BY <1>4, <1>5 DEF CostsBy

LEMMA ByIsWay ==
  ASSUME PositiveCosts, NEW n \in Node, NEW m \in Linked(n), NEW to \in Node \ {n},
         NEW c \in CostsBy(n, m, to)
  PROVE  <<n, to, c>> \in Ways
<1> DEFINE d == c - Cost[n][m]
<1>1. /\ m \in Node /\ Cost[n][m] \in Nat /\ Cost[n][m] > 0
  BY CostType DEF Linked, PositiveCosts
<1>2. CASE m = to /\ c = Cost[n][m]
  BY <1>2, WayOfLink
<1>3. CASE c \in 0 .. Infinity - 1 /\ <<m, to, d>> \in Ways
  <2>1. c \in Int /\ Cost[n][m] + d = c /\ c < Infinity /\ d < Infinity /\ d \in Int
        /\ Infinity \in Nat
    BY <1>1, <1>3, InfinityAssumption
  <2>2. ASSUME NEW w \in WalksFrom(m, to), w.rest[0] = d
        PROVE  <<n, to, c>> \in Ways
    <3>1. Cost[n][m] + w.rest[0] = c
      BY <2>1, <2>2
    <3>2. Prepend(n, w) \in WalksFrom(n, to) /\ Prepend(n, w).rest[0] = c
      <4> HIDE DEF d
      <4> QED
        BY <2>1, <3>1, PrependWalk
    <3> QED
      BY <3>2, WayOfWalk
  <2> HIDE DEF d
  <2>3. CASE \E w \in Walks : <<m, to, d>> = <<w.node[0], w.node[w.len], w.rest[0]>>
    <3>1. PICK w \in Walks : m = w.node[0] /\ to = w.node[w.len] /\ d = w.rest[0]
      BY <2>3
    <3>2. w \in WalksFrom(m, to)
      BY <3>1 DEF WalksFrom
    <3> QED
      BY <2>2, <3>1, <3>2
  <2>4. CASE \E l \in Link : <<m, to, d>> = <<l[1], l[2], Cost[l[1]][l[2]]>>
    <3>1. to \in Linked(m) /\ d = Cost[m][to]
      BY <2>4 DEF Link
    <3> DEFINE w == [len  |-> 1,
                     node |-> [i \in 0 .. 1 |-> IF i = 0 THEN m ELSE to],
                     rest |-> [i \in 0 .. 1 |-> IF i = 0 THEN Cost[m][to] ELSE 0]]
    <3>2. w \in WalksFrom(m, to)
      BY <1>1, <2>1, <3>1, LinkWalk
    <3>3. w.rest[0] = d
      BY <3>1
    <3> QED
      BY <2>2, <3>2, <3>3
  <2>5. CASE \E k \in Node : <<m, to, d>> = <<k, k, 0>>
    <3>1. to = m /\ d = 0
      BY <2>5
    <3>2. c = Cost[n][m]
      BY <1>1, <2>1, <3>1
    <3> QED
      BY <3>1, <3>2, WayOfLink
  <2>6. <<m, to, d>> \in Ways
    BY <1>3 DEF d
  <2> QED
    BY <2>3, <2>4, <2>5, <2>6 DEF Ways
<1> QED
  BY <1>2, <1>3 DEF CostsBy

(* What the invariant says of one table, of one vector and of the queues.  *)
TableWays(n, t) ==
  \A to \in Node : /\ IsWay(n, to, t.dist[to])
                   /\ \A v \in Linked(n) : to # n => IsWayBy(n, v, to, t.dv[v][to])

VectorWays(n, vec) == \A to \in Node : IsWay(n, to, vec.dist[to])

QueueWays(ch) ==
  \A l \in Link : \A k \in DOMAIN ch[l] : VectorWays(l[1], ch[l][k])

LEMMA DistancesByTable ==
  DistancesAreWalks <=> (\A n \in Node : TableWays(n, tab[n])) /\ QueueWays(chan)
BY DEF DistancesAreWalks, TableWays, VectorWays, QueueWays, IsWay, IsWayBy

LEMMA NextDistancesByTable ==
  ASSUME \A n \in Node : TableWays(n, tab'[n]), QueueWays(chan')
  PROVE  DistancesAreWalks'
BY DEF DistancesAreWalks, TableWays, VectorWays, QueueWays, IsWay, IsWayBy

LEMMA LoadLinksWays ==
  ASSUME NEW n \in Node
  PROVE  TableWays(n, LoadLinks(n))
<1> SUFFICES ASSUME NEW to \in Node
             PROVE  /\ IsWay(n, to, LoadLinks(n).dist[to])
                    /\ \A v \in Linked(n) : IsWayBy(n, v, to, LoadLinks(n).dv[v][to])
  BY DEF TableWays
<1>1. LoadLinks(n).dist[to] = Cost[n][to]
  BY DEF LoadLinks
<1>2. \A v \in Linked(n) : LoadLinks(n).dv[v][to] = None
  BY DEF LoadLinks, Linked
<1>3. CASE to = n
  <2>1. Cost[n][n] = 0 /\ <<n, n, 0>> \in Ways
    BY CostType DEF Ways
  <2> QED
    BY <1>1, <1>2, <1>3, <2>1 DEF IsWay, IsWayBy, Exists, None
<1>4. CASE to \in Linked(n)
  BY <1>1, <1>2, <1>4, WayOfLink DEF IsWay, IsWayBy, Exists, None
<1>5. CASE to \notin Linked(n) /\ to # n
  <2>1. Cost[n][to] = None
    BY <1>5 DEF Linked
  <2> QED
    BY <1>1, <1>2, <2>1 DEF IsWay, IsWayBy, Exists, None
<1> QED
  BY <1>3, <1>4, <1>5

LEMMA AddNeighbourWays ==
  ASSUME NEW n \in Node, NEW m \in Linked(n), NEW t \in Table, TableWays(n, t)
  PROVE  TableWays(n, AddNeighbour(n, t, m))
<1> DEFINE u == AddNeighbour(n, t, m)
<1>1. m \in Node
  BY DEF Linked
<1>2. /\ u.dv = t.dv
      /\ \A to \in Node : \/ u.dist[to] = t.dist[to]
                          \/ to = m /\ u.dist[to] = Cost[n][m]
  BY <1>1 DEF AddNeighbour, Table
<1> HIDE DEF u
<1>3. \A to \in Node : IsWay(n, to, u.dist[to])
  BY <1>2, WayOfLink DEF TableWays, IsWay
<1>4. TableWays(n, u)
  BY <1>2, <1>3 DEF TableWays
<1> QED
  BY <1>4 DEF u

LEMMA ReadVectorWays ==
  ASSUME NEW n \in Node, NEW m \in Linked(n), NEW t \in Table,
         TableWays(n, t), NEW vec \in Vector, VectorWays(m, vec)
  PROVE  TableWays(n, ReadVector(n, t, m, vec))
<1> DEFINE u == ReadVector(n, t, m, vec)
<1>1. m \in Node
  BY DEF Linked
<1>2. /\ u.dist = t.dist
      /\ \A v \in Node, to \in Node :
           \/ u.dv[v][to] = t.dv[v][to]
           \/ v = m /\ u.dv[v][to] = Through(vec.dist[to], Cost[n][m])
  BY <1>1 DEF ReadVector, Table
<1> HIDE DEF u
<1>3. \A to \in Node : IsWayBy(n, m, to, Through(vec.dist[to], Cost[n][m]))
  BY ThroughIsBy DEF VectorWays, Vector
<1>4. \A v \in Linked(n) : \A to \in Node \ {n} : IsWayBy(n, v, to, u.dv[v][to])
  BY <1>2, <1>3 DEF TableWays, Linked
<1>5. TableWays(n, u)
  BY <1>2, <1>4 DEF TableWays
<1> QED
  BY <1>5 DEF u

LEMMA DropNeighboursWays ==
  ASSUME NEW n \in Node, NEW D, NEW t \in Table, TableWays(n, t)
  PROVE  TableWays(n, DropNeighbours(t, D))
<1> DEFINE u == DropNeighbours(t, D)
<1>1. /\ u.dv = t.dv
      /\ \A to \in Node : u.dist[to] = t.dist[to] \/ u.dist[to] = None
  BY DEF DropNeighbours, Table
<1> HIDE DEF u
<1>2. \A to \in Node : IsWay(n, to, u.dist[to])
  BY <1>1 DEF TableWays, IsWay, Exists, None
<1>3. TableWays(n, u)
  BY <1>1, <1>2 DEF TableWays
<1> QED
  BY <1>3 DEF u

LEMMA UpdateRtWays ==
  ASSUME PositiveCosts, NEW n \in Node, NEW t, Coherent(n, t), TableWays(n, t)
  PROVE  TableWays(n, UpdateRt(n, t))
<1> DEFINE u == UpdateRt(n, t)
<1>0. t \in Table /\ t.online \subseteq Linked(n)
  BY DEF Coherent
<1>1. /\ u.dv = t.dv
      /\ \A to \in Node \ {n} : u.dist[to] \in {t.dist[to], BestDist(n, t, to)}
      /\ u.dist[n] = t.dist[n]
  BY <1>0 DEF UpdateRt, Table
<1> HIDE DEF u
<1>2. ASSUME NEW to \in Node \ {n}
      PROVE  IsWay(n, to, BestDist(n, t, to))
  <2>1. CASE Offers(n, t, to) = {}
    BY <2>1 DEF BestDist, IsWay, Exists, None
  <2>2. CASE Offers(n, t, to) # {}
    <3>1. BestDist(n, t, to) \in Offers(n, t, to)
      BY <2>2, BestDistIsBest DEF IsBest
    <3>2. \/ \E v \in t.online : BestDist(n, t, to) = t.dv[v][to]
          \/ to \in t.online /\ BestDist(n, t, to) = Cost[n][to]
      BY <3>1 DEF Offers
    <3> QED
      BY <1>0, <3>2, WayOfLink, ByIsWay DEF TableWays, IsWay, IsWayBy
  <2> QED
    BY <2>1, <2>2
<1>3. \A to \in Node : IsWay(n, to, u.dist[to])
  <2> TAKE to \in Node
  <2>1. IsWay(n, to, t.dist[to]) /\ (to # n => IsWay(n, to, BestDist(n, t, to)))
    BY <1>2 DEF TableWays
  <2> QED
    BY <1>1, <2>1
<1>4. TableWays(n, u)
  BY <1>1, <1>3 DEF TableWays
<1> QED
  BY <1>4 DEF u

-----------------------------------------------------------------------------
(* What is in the queues after a vector was sent, or one was taken.        *)
LEMMA SendDvElements ==
  ASSUME NEW n \in Node, NEW t \in Table, NEW ch \in Queues, NEW l \in Link,
         NEW k \in DOMAIN SendDv(n, t, ch)[l]
  PROVE  \/ \E j \in DOMAIN ch[l] : SendDv(n, t, ch)[l][k] = ch[l][j]
         \/ /\ l[1] = n /\ l[2] \in t.online /\ l \notin down
            /\ SendDv(n, t, ch)[l][k] = VectorOf(t)
<1>1. ch[l] \in Seq(Vector) /\ VectorOf(t) \in Vector
  BY VectorOfType DEF Queues
<1>2. CASE /\ l[1] = n /\ l[2] \in t.online /\ l \notin down
           /\ Len(ch[l]) < QueueCap[l]
  <2>1. SendDv(n, t, ch)[l] = Append(ch[l], VectorOf(t))
    BY <1>2 DEF SendDv
  <2>2. k \in 1 .. Len(ch[l]) + 1
    BY <1>1, <2>1
  <2>3. CASE k = Len(ch[l]) + 1
    BY <1>1, <1>2, <2>1, <2>3
  <2>4. CASE k # Len(ch[l]) + 1
    <3>1. k \in 1 .. Len(ch[l])
      BY <1>1, <2>2, <2>4
    <3>2. k \in DOMAIN ch[l] /\ Append(ch[l], VectorOf(t))[k] = ch[l][k]
      BY <1>1, <3>1
    <3> QED
      BY <2>1, <3>2
  <2> QED
    BY <2>3, <2>4
<1>3. CASE ~ (/\ l[1] = n /\ l[2] \in t.online /\ l \notin down
              /\ Len(ch[l]) < QueueCap[l])
  <2>1. SendDv(n, t, ch)[l] = ch[l]
    BY <1>3 DEF SendDv
  <2> QED
    BY <2>1
<1> QED
  BY <1>2, <1>3

LEMMA TakeElements ==
  ASSUME chan \in Queues, NEW m, NEW n, <<m, n>> \in Link,
         NEW k \in DOMAIN chan[<<m, n>>], NEW l \in Link,
         NEW i \in DOMAIN Take(m, n, k)[l]
  PROVE  \E j \in DOMAIN chan[l] : Take(m, n, k)[l][i] = chan[l][j]
<1> DEFINE s == chan[<<m, n>>]
           r == RemoveAt(s, k)
<1>1. CASE l # <<m, n>>
  BY <1>1 DEF Take, Queues
<1>2. CASE l = <<m, n>>
  <2>1. s \in Seq(Vector) /\ k \in 1 .. Len(s) /\ Len(s) \in Nat
    BY DEF Queues
  <2>2. Take(m, n, k)[l] = r
    BY <1>2 DEF Take, Queues
  <2>3. i \in DOMAIN r
    BY <2>2
  <2> HIDE DEF s
  <2> DEFINE pre == SubSeq(s, 1, k - 1)
             post == SubSeq(s, k + 1, Len(s))
  <2>4. /\ pre \in Seq(Vector) /\ Len(pre) = k - 1
        /\ \A j \in 1 .. k - 1 : pre[j] = s[j]
    <3>1. k - 1 \in Nat /\ k - 1 <= Len(s) /\ \A j \in 1 .. k - 1 : 1 + j - 1 = j
      BY <2>1
    <3> QED
      BY <2>1, <3>1, SubSeqProperties
  <2>5. /\ post \in Seq(Vector) /\ Len(post) = Len(s) - k
        /\ \A j \in 1 .. Len(s) - k : post[j] = s[k + j]
    <3>1. k + 1 \in 1 .. Len(s) + 1 /\ \A j \in 1 .. Len(s) - k : (k + 1) + j - 1 = k + j
      BY <2>1
    <3> QED
      BY <2>1, <3>1, SubSeqProperties
  <2>6. r = pre \o post
    BY DEF RemoveAt
  <2> HIDE DEF r, pre, post
  <2>7. /\ Len(r) = Len(s) - 1
        /\ \A j \in 1 .. Len(s) - 1 : r[j] = IF j <= k - 1 THEN pre[j] ELSE post[j - (k - 1)]
        /\ r \in Seq(Vector)
    BY <2>1, <2>4, <2>5, <2>6, ConcatProperties
  <2>8. i \in 1 .. Len(s) - 1
    BY <2>3, <2>7
  <2>9. CASE i <= k - 1
    <3>1. i \in 1 .. Len(s) /\ r[i] = s[i]
      BY <2>1, <2>4, <2>7, <2>8, <2>9
    <3>2. i \in DOMAIN s
      BY <2>1, <3>1
    <3> QED
      BY <1>2, <2>2, <3>1, <3>2 DEF s
  <2>10. CASE ~ (i <= k - 1)
    <3>1. i + 1 \in 1 .. Len(s) /\ i - (k - 1) \in 1 .. Len(s) - k /\ k + (i - (k - 1)) = i + 1
      BY <2>1, <2>8, <2>10
    <3>2. r[i] = s[i + 1]
      BY <2>5, <2>7, <2>8, <2>10, <3>1
    <3>3. i + 1 \in DOMAIN s
      BY <2>1, <3>1
    <3> QED
      BY <1>2, <2>2, <3>2, <3>3 DEF s
  <2> QED
    BY <2>9, <2>10
<1> QED
  BY <1>1, <1>2

-----------------------------------------------------------------------------
LEMMA VectorOfWays ==
  ASSUME NEW n, NEW t, TableWays(n, t)
  PROVE  VectorWays(n, VectorOf(t))
BY DEF TableWays, VectorWays, VectorOf

LEMMA SendDvWays ==
  ASSUME NEW n \in Node, NEW t \in Table, TableWays(n, t),
         NEW ch \in Queues, QueueWays(ch)
  PROVE  QueueWays(SendDv(n, t, ch))
<1> SUFFICES ASSUME NEW l \in Link, NEW k \in DOMAIN SendDv(n, t, ch)[l]
             PROVE  VectorWays(l[1], SendDv(n, t, ch)[l][k])
  BY DEF QueueWays
<1> QED
  BY SendDvElements, VectorOfWays DEF QueueWays

LEMMA TakeWays ==
  ASSUME chan \in Queues, QueueWays(chan), NEW m, NEW n, <<m, n>> \in Link,
         NEW k \in DOMAIN chan[<<m, n>>]
  PROVE  QueueWays(Take(m, n, k))
<1> SUFFICES ASSUME NEW l \in Link, NEW i \in DOMAIN Take(m, n, k)[l]
             PROVE  VectorWays(l[1], Take(m, n, k)[l][i])
  BY DEF QueueWays
<1> QED
  BY TakeElements DEF QueueWays

(* The step that replaces the table of one node.                           *)
LEMMA WaysTableStep ==
  ASSUME RouterInv, DistancesAreWalks, NEW n \in Node, NEW t, TableWays(n, t),
         tab' = [tab EXCEPT ![n] = t], QueueWays(chan')
  PROVE  DistancesAreWalks'
<1>1. \A k \in Node : TableWays(k, tab'[k])
  BY TablesCoherent, DistancesByTable
<1> QED
  BY <1>1, NextDistancesByTable

LEMMA WaysInit == Init => DistancesAreWalks
<1> SUFFICES ASSUME Init
             PROVE  DistancesAreWalks
  OBVIOUS
<1>1. \A n \in Node : TableWays(n, tab[n])
  BY LoadLinksWays DEF Init
<1>2. QueueWays(chan)
  <2> SUFFICES ASSUME NEW l \in Link, NEW k \in DOMAIN chan[l]
               PROVE  VectorWays(l[1], chan[l][k])
    BY DEF QueueWays
  <2>1. l[1] \in Node
    BY LinkEnds
  <2>2. chan[l] = <<>> \/ chan[l] = <<VectorOf(LoadLinks(l[1]))>>
    BY DEF Init
  <2>3. chan[l][k] = VectorOf(LoadLinks(l[1]))
    BY <2>2
  <2> QED
    BY <2>1, <2>3, LoadLinksWays, VectorOfWays
<1> QED
  BY <1>1, <1>2, DistancesByTable

LEMMA WaysRecvDv ==
  ASSUME PositiveCosts, RouterInv, DistancesAreWalks, NEW l \in Link,
         RecvDv(l[1], l[2])
  PROVE  DistancesAreWalks'
<1> DEFINE m == l[1]
           n == l[2]
<1>1. /\ m \in Node /\ n \in Node /\ l = <<m, n>> /\ m \in Linked(n)
  BY LinkEnds
<1> HIDE DEF m, n
<1>2. PICK k \in DOMAIN chan[<<m, n>>] :
      \E stored \in {Stored(n, m, chan[<<m, n>>][k])} :
      \E t \in {UpdateRt(n, stored)} :
       /\ tab' = [tab EXCEPT ![n] = t]
       /\ chan' = IF RoutesChanged(n, m, t)
                  THEN SendDv(n, t, Take(m, n, k))
                  ELSE Take(m, n, k)
  BY DEF RecvDv, m, n
<1> DEFINE vec    == chan[<<m, n>>][k]
           added  == AddNeighbour(n, tab[n], m)
           stored == ReadVector(n, added, m, vec)
           t      == UpdateRt(n, stored)
<1>3. vec \in Vector /\ VectorWays(m, vec)
  BY <1>1, TablesCoherent, DistancesByTable DEF Queues, QueueWays
<1>4. Coherent(n, added) /\ TableWays(n, added)
  BY <1>1, AddNeighbourCoherent, AddNeighbourWays, TablesCoherent, DistancesByTable
     DEF Coherent
<1>5. Coherent(n, stored) /\ TableWays(n, stored)
  <2> HIDE DEF added, vec
  <2> QED
    BY <1>1, <1>3, <1>4, ReadVectorCoherent, ReadVectorWays DEF Coherent
<1>6. Coherent(n, t) /\ TableWays(n, t)
  <2> HIDE DEF stored
  <2> QED
    BY <1>1, <1>5, UpdateRtCoherent, UpdateRtWays
<1>7. /\ tab' = [tab EXCEPT ![n] = t]
      /\ chan' \in {SendDv(n, t, Take(m, n, k)), Take(m, n, k)}
  BY <1>2 DEF Stored
<1>8. Take(m, n, k) \in Queues /\ QueueWays(Take(m, n, k))
  BY <1>1, TakeType, TakeWays, TablesCoherent, DistancesByTable
<1> HIDE DEF t
<1>9. QueueWays(SendDv(n, t, Take(m, n, k)))
  BY <1>1, <1>6, <1>8, SendDvWays DEF Coherent
<1>10. QueueWays(chan')
  BY <1>7, <1>8, <1>9
<1> QED
  BY <1>1, <1>6, <1>7, <1>10, WaysTableStep

LEMMA WaysDropCheck ==
  ASSUME PositiveCosts, RouterInv, DistancesAreWalks, NEW n \in Node, DropCheck(n)
  PROVE  DistancesAreWalks'
<1> DEFINE D       == tab[n].online \cap silent[n]
           dropped == DropNeighbours(tab[n], D)
           t       == UpdateRt(n, dropped)
<1>1. D \in SUBSET Hop /\ tab[n] \in Table /\ chan \in Queues
  BY TablesCoherent DEF Hop
<1>2. Coherent(n, dropped) /\ TableWays(n, dropped)
  BY <1>1, DropNeighboursCoherent, DropNeighboursWays, TablesCoherent, DistancesByTable
<1>3. Coherent(n, t) /\ TableWays(n, t)
  <2> HIDE DEF dropped
  <2> QED
    BY <1>2, UpdateRtCoherent, UpdateRtWays
<1>4. tab' = [tab EXCEPT ![n] = t] /\ chan' = SendDv(n, t, chan)
  BY DEF DropCheck
<1> HIDE DEF t
<1>5. QueueWays(chan')
  BY <1>1, <1>3, <1>4, SendDvWays, DistancesByTable DEF Coherent
<1> QED
  BY <1>3, <1>4, <1>5, WaysTableStep

LEMMA WaysStep ==
  ASSUME PositiveCosts, RouterInv, DistancesAreWalks, [Next]_vars
  PROVE  DistancesAreWalks'
<1>t. /\ chan \in Queues /\ QueueWays(chan)
      /\ tab \in [Node -> Table] /\ \A n \in Node : TableWays(n, tab[n])
  BY TablesCoherent, DistancesByTable
<1>1. ASSUME NEW l \in Link, RecvDv(l[1], l[2])
      PROVE  DistancesAreWalks'
  BY <1>1, WaysRecvDv
<1>2. ASSUME NEW l \in Link, DiscardDv(l[1], l[2]) \/ Lose(l[1], l[2])
      PROVE  DistancesAreWalks'
  <2>1. <<l[1], l[2]>> \in Link
    BY LinkEnds
  <2>2. UNCHANGED tab /\ \E k \in DOMAIN chan[<<l[1], l[2]>>] : chan' = Take(l[1], l[2], k)
    BY <1>2 DEF DiscardDv, Lose
  <2>3. QueueWays(chan')
    BY <1>t, <2>1, <2>2, TakeWays
  <2> QED
    BY <1>t, <2>2, <2>3, NextDistancesByTable
<1>3. ASSUME NEW l \in Link, LinkFail(l[1], l[2])
      PROVE  DistancesAreWalks'
  <2>1. /\ UNCHANGED tab
        /\ chan' = [chan EXCEPT ![<<l[1], l[2]>>] = <<>>, ![<<l[2], l[1]>>] = <<>>]
    BY <1>3 DEF LinkFail
  <2>2. \A j \in Link : chan'[j] = chan[j] \/ chan'[j] = <<>>
    BY <1>t, <2>1 DEF Queues
  <2>3. QueueWays(chan')
    BY <1>t, <2>2 DEF QueueWays
  <2> QED
    BY <1>t, <2>1, <2>3, NextDistancesByTable
<1>4. ASSUME NEW n \in Node, HeartBeat(n)
      PROVE  DistancesAreWalks'
  <2>1. UNCHANGED tab /\ chan' = SendDv(n, tab[n], chan)
    BY <1>4 DEF HeartBeat
  <2>2. QueueWays(chan')
    BY <1>t, <2>1, SendDvWays
  <2> QED
    BY <1>t, <2>1, <2>2, NextDistancesByTable
<1>5. ASSUME NEW n \in Node, DropCheck(n)
      PROVE  DistancesAreWalks'
  BY <1>5, WaysDropCheck
<1>6. ASSUME NEW n \in Node, Wake(n)
      PROVE  DistancesAreWalks'
  <2>1. tab' = [tab EXCEPT ![n] = LoadLinks(n)] /\ chan' = SendDv(n, LoadLinks(n), chan)
    BY <1>6 DEF Wake
  <2>2. LoadLinks(n) \in Table /\ TableWays(n, LoadLinks(n))
    BY LoadLinksCoherent, LoadLinksWays DEF Coherent
  <2>3. QueueWays(chan')
    BY <1>t, <2>1, <2>2, SendDvWays
  <2> QED
    BY <2>1, <2>2, <2>3, WaysTableStep
<1>7. ASSUME NEW n \in Node, NEW d \in Hop, DropCommand(n, d)
      PROVE  DistancesAreWalks'
  <2> DEFINE t == DropNeighbours(tab[n], {d})
  <2>1. tab' = [tab EXCEPT ![n] = t] /\ UNCHANGED chan
    BY <1>7 DEF DropCommand
  <2>2. TableWays(n, t)
    BY <1>t, DropNeighboursWays
  <2> HIDE DEF t
  <2>3. QueueWays(chan')
    BY <1>t, <2>1
  <2> QED
    BY <2>1, <2>2, <2>3, WaysTableStep
<1>8. ASSUME UNCHANGED <<tab, chan>>
      PROVE  DistancesAreWalks'
  BY <1>8, <1>t, NextDistancesByTable
<1> QED
  BY <1>1, <1>2, <1>3, <1>4, <1>5, <1>6, <1>7, <1>8
     DEF Next, vars, FallSilent, SeemSilent, LinkRepair, Sleep

(* The invariant and what is proved with it.                               *)
LEMMA WaysCorrect ==
  ASSUME PositiveCosts
  PROVE  Spec => []DistancesAreWalks
<1>1. RouterInv /\ DistancesAreWalks /\ [Next]_vars => DistancesAreWalks'
  BY WaysStep
<1> QED
  BY <1>1, WaysInit, RouterCorrect, PTL DEF Spec

-----------------------------------------------------------------------------
(* Two facts that hold by themselves: a node is at distance 0 of itself,   *)
(* unless /drop was given its own number; and a link fails both ways.      *)
SelfInv ==
  /\ \A n \in Node : tab[n].dist[n] = 0 \/ tab[n].dist[n] = None
  /\ \A l \in Link : l \in down => <<l[2], l[1]>> \in down

LEMMA SelfKept ==
  ASSUME NEW n \in Node, NEW t \in Table, NEW m \in Linked(n), NEW vec, NEW D
  PROVE  /\ AddNeighbour(n, t, m).dist[n] = t.dist[n]
         /\ ReadVector(n, t, m, vec).dist[n] = t.dist[n]
         /\ UpdateRt(n, t).dist[n] = t.dist[n]
<1>1. m # n /\ m \in Node
  BY DEF Linked
<1>2. AddNeighbour(n, t, m).dist[n] = t.dist[n]
  BY <1>1 DEF AddNeighbour, Table
<1>3. ReadVector(n, t, m, vec).dist[n] = t.dist[n]
  BY DEF ReadVector, Table
<1>4. UpdateRt(n, t).dist[n] = t.dist[n]
  BY DEF UpdateRt, Table
<1> QED
  BY <1>2, <1>3, <1>4

LEMMA SelfInit == Init => SelfInv
<1> SUFFICES ASSUME Init
             PROVE  SelfInv
  OBVIOUS
<1>1. \A n \in Node : tab[n].dist[n] = 0
  BY CostType DEF Init, LoadLinks
<1> QED
  BY <1>1 DEF Init, SelfInv

LEMMA SelfTableStep ==
  ASSUME RouterInv, SelfInv, NEW n \in Node, NEW t,
         t.dist[n] = 0 \/ t.dist[n] = None,
         tab' = [tab EXCEPT ![n] = t], UNCHANGED down
  PROVE  SelfInv'
<1>1. \A k \in Node : tab'[k] = IF k = n THEN t ELSE tab[k]
  BY TablesCoherent
<1>2. \A k \in Node : tab'[k].dist[k] = 0 \/ tab'[k].dist[k] = None
  BY <1>1 DEF SelfInv
<1> QED
  BY <1>2 DEF SelfInv

LEMMA SelfStep ==
  ASSUME RouterInv, SelfInv, [Next]_vars
  PROVE  SelfInv'
<1>t. /\ tab \in [Node -> Table]
      /\ \A n \in Node : tab[n].dist[n] = 0 \/ tab[n].dist[n] = None
      /\ \A n \in Node : Coherent(n, tab[n])
  BY TablesCoherent DEF SelfInv
<1>1. ASSUME NEW l \in Link, RecvDv(l[1], l[2])
      PROVE  SelfInv'
  <2> DEFINE m == l[1]
             n == l[2]
  <2>1. /\ m \in Node /\ n \in Node /\ l = <<m, n>> /\ m \in Linked(n)
    BY LinkEnds
  <2> HIDE DEF m, n
  <2>2. PICK k \in DOMAIN chan[<<m, n>>] :
          tab' = [tab EXCEPT ![n] = UpdateRt(n, Stored(n, m, chan[<<m, n>>][k]))]
    BY <1>1 DEF RecvDv, m, n
  <2> DEFINE vec    == chan[<<m, n>>][k]
             added  == AddNeighbour(n, tab[n], m)
             stored == ReadVector(n, added, m, vec)
  <2>3. vec \in Vector
    BY <2>1, TablesCoherent DEF Queues
  <2>4. Coherent(n, added) /\ added.dist[n] = tab[n].dist[n]
    BY <1>t, <2>1, AddNeighbourCoherent, SelfKept
  <2>5. Coherent(n, stored) /\ stored.dist[n] = tab[n].dist[n]
    <3> HIDE DEF added, vec
    <3>1. added \in Table
      BY <2>4 DEF Coherent
    <3> QED
      BY <2>1, <2>3, <2>4, <3>1, ReadVectorCoherent, SelfKept
  <2>6. UpdateRt(n, stored).dist[n] = tab[n].dist[n]
    <3> HIDE DEF stored
    <3>1. stored \in Table
      BY <2>5 DEF Coherent
    <3> QED
      BY <2>1, <2>5, <3>1, SelfKept
  <2>7. tab' = [tab EXCEPT ![n] = UpdateRt(n, stored)] /\ UNCHANGED down
    BY <1>1, <2>2 DEF Stored, RecvDv
  <2> HIDE DEF stored
  <2> QED
    BY <1>t, <2>1, <2>6, <2>7, SelfTableStep
<1>2. ASSUME NEW n \in Node, DropCheck(n)
      PROVE  SelfInv'
  <2> DEFINE D       == tab[n].online \cap silent[n]
             dropped == DropNeighbours(tab[n], D)
  <2>1. dropped.dist[n] = 0 \/ dropped.dist[n] = None
    BY <1>t DEF DropNeighbours, Table
  <2>2. dropped \in Table
    <3>1. D \in SUBSET Hop
      BY TablesCoherent DEF Hop
    <3> QED
      BY <1>t, <3>1, DropNeighboursCoherent DEF Coherent
  <2>3. tab' = [tab EXCEPT ![n] = UpdateRt(n, dropped)] /\ UNCHANGED down
    BY <1>2 DEF DropCheck
  <2> HIDE DEF dropped
  <2>4. UpdateRt(n, dropped).dist[n] = dropped.dist[n]
    BY <2>2 DEF UpdateRt, Table
  <2> QED
    BY <2>1, <2>3, <2>4, SelfTableStep
<1>3. ASSUME NEW n \in Node, Wake(n)
      PROVE  SelfInv'
  <2>1. LoadLinks(n).dist[n] = 0
    BY CostType DEF LoadLinks
  <2> QED
    BY <1>3, <2>1, SelfTableStep DEF Wake
<1>4. ASSUME NEW n \in Node, NEW d \in Hop, DropCommand(n, d)
      PROVE  SelfInv'
  <2> DEFINE t == DropNeighbours(tab[n], {d})
  <2>1. t.dist[n] = 0 \/ t.dist[n] = None
    BY <1>t DEF DropNeighbours, Table
  <2>2. tab' = [tab EXCEPT ![n] = t] /\ UNCHANGED down
    BY <1>4 DEF DropCommand
  <2> HIDE DEF t
  <2> QED
    BY <2>1, <2>2, SelfTableStep
<1>5. ASSUME NEW l \in Link, LinkFail(l[1], l[2]) \/ LinkRepair(l[1], l[2])
      PROVE  SelfInv'
  <2>1. /\ UNCHANGED tab
        /\ \/ down' = down \cup {<<l[1], l[2]>>, <<l[2], l[1]>>}
           \/ down' = down \ {<<l[1], l[2]>>, <<l[2], l[1]>>}
    BY <1>5 DEF LinkFail, LinkRepair
  <2>2. ASSUME NEW k \in Link, k \in down'
        PROVE  <<k[2], k[1]>> \in down'
    <3>1. k = <<k[1], k[2]>> /\ l = <<l[1], l[2]>>
      BY LinkEnds
    <3>2. k \in down => <<k[2], k[1]>> \in down
      BY DEF SelfInv
    <3> QED
      BY <2>1, <2>2, <3>1, <3>2
  <2> QED
    BY <1>t, <2>1, <2>2 DEF SelfInv
<1>6. ASSUME UNCHANGED <<tab, down>>
      PROVE  SelfInv'
  BY <1>6 DEF SelfInv
<1> QED
  BY <1>1, <1>2, <1>3, <1>4, <1>5, <1>6
     DEF Next, vars, DiscardDv, FallSilent, SeemSilent, Lose, HeartBeat, Sleep

LEMMA SelfCorrect == Spec => []SelfInv
<1>1. RouterInv /\ SelfInv /\ [Next]_vars => SelfInv'
  BY SelfStep
<1> QED
  BY <1>1, SelfInit, RouterCorrect, PTL DEF Spec

(* No distance is invented, by any order of vectors, losses, drops and     *)
(* restarts, in a network without free links.                              *)
THEOREM NoDistanceInvented ==
  ASSUME PositiveCosts
  PROVE  Spec => []DistancesAreWalks
BY WaysCorrect

-----------------------------------------------------------------------------
(* What it says of a table that storing a vector leaves it as it is.       *)
LEMMA NothingNew ==
  ASSUME NEW n \in Node, NEW m \in Linked(n), NEW t \in Table, NEW vec \in Vector,
         ReadVector(n, AddNeighbour(n, t, m), m, vec) = t
  PROVE  /\ m \in t.online
         /\ vec.known \subseteq t.known
         /\ \A to \in vec.known : t.dv[m][to] = Through(vec.dist[to], Cost[n][m])
<1> DEFINE u == AddNeighbour(n, t, m)
<1>1. m \in Node /\ Cost[n][m] # None
  BY DEF Linked
<1>2. m \in u.online /\ u \in [online : SUBSET Node, via : [Node -> Hop],
         dist : [Node -> Dist], dv : [Node -> [Node -> Dist]], known : SUBSET Node]
  BY <1>1, CostType DEF AddNeighbour, Table, Hop, Dist
<1> HIDE DEF u
<1>3. /\ t.online = u.online
      /\ t.known = u.known \cup vec.known
      /\ t.dv = [u.dv EXCEPT ![m] = [to \in Node |->
                   IF to \in vec.known THEN Through(vec.dist[to], Cost[n][m]) ELSE @[to]]]
  <2>1. t = ReadVector(n, u, m, vec)
    BY DEF u
  <2> QED
    BY <1>2, <2>1 DEF ReadVector
<1>4. \A to \in vec.known : t.dv[m][to] = Through(vec.dist[to], Cost[n][m])
  BY <1>1, <1>2, <1>3 DEF Vector
<1> QED
  BY <1>2, <1>3, <1>4

LEMMA WorksBack ==
  ASSUME RouterInv, SelfInv, NEW a, NEW b, Works(a, b)
  PROVE  /\ a \in Node /\ b \in Node /\ a \in Linked(b) /\ b \in Linked(a)
         /\ Works(b, a)
<1>1. <<a, b>> \in Link /\ <<a, b>> \notin down /\ ~ sleeping[a] /\ ~ sleeping[b]
  BY DEF Works
<1>2. /\ a \in Node /\ b \in Node /\ a \in Linked(b) /\ b \in Linked(a)
      /\ <<b, a>> \in Link
  BY <1>1, CostAssumption DEF Link, Linked
<1>3. <<b, a>> \notin down
  BY <1>1, <1>2 DEF SelfInv
<1> QED
  BY <1>1, <1>2, <1>3 DEF Works

(* In a settled network every working neighbour is held alive, and what    *)
(* is stored of it is what it would send.                                  *)
LEMMA SettledHolds ==
  ASSUME RouterInv, SelfInv, Settled, NEW n, NEW m, Works(m, n)
  PROVE  /\ m \in tab[n].online
         /\ \A to \in Node : tab[n].dv[m][to] = Through(tab[m].dist[to], Cost[n][m])
<1>1. /\ m \in Node /\ n \in Node /\ m \in Linked(n) /\ n \in Linked(m)
      /\ Works(n, m) /\ ~ sleeping[m] /\ ~ sleeping[n]
  BY WorksBack DEF Works
<1>2. /\ tab[n] \in Table /\ tab[m] \in Table
      /\ KnowsAll(n, tab[n]) /\ KnowsAll(m, tab[m])
  BY <1>1, TablesCoherent DEF Coherent
<1>3. VectorOf(tab[n]) \in Vector /\ VectorOf(tab[m]) \in Vector
  BY <1>2, VectorOfType
<1>4. /\ ReadVector(n, AddNeighbour(n, tab[n], m), m, VectorOf(tab[m])) = tab[n]
      /\ ReadVector(m, AddNeighbour(m, tab[m], n), n, VectorOf(tab[n])) = tab[m]
  BY <1>1 DEF Settled, Stored
<1>5. /\ m \in tab[n].online
      /\ VectorOf(tab[m]).known \subseteq tab[n].known
      /\ \A to \in VectorOf(tab[m]).known :
           tab[n].dv[m][to] = Through(VectorOf(tab[m]).dist[to], Cost[n][m])
  BY <1>1, <1>2, <1>3, <1>4, NothingNew
<1>6. VectorOf(tab[n]).known \subseteq tab[m].known
  BY <1>1, <1>2, <1>3, <1>4, NothingNew
<1>7. tab[m].known = tab[n].known
  BY <1>5, <1>6 DEF VectorOf
<1>8. ASSUME NEW to \in Node, to \notin tab[m].known
      PROVE  tab[n].dv[m][to] = Through(tab[m].dist[to], Cost[n][m])
  <2>1. tab[m].dist[to] = None /\ tab[n].dv[m][to] = None
    BY <1>1, <1>2, <1>7, <1>8 DEF KnowsAll
  <2> QED
    BY <2>1 DEF Through, Exists, None
<1> QED
  BY <1>5, <1>8 DEF VectorOf

(* The neighbour m is the first step of a way from a to b at the distance  *)
(* a announces.                                                            *)
HopFits(a, b, m) ==
  \/ /\ m = b
     /\ Works(a, b)
     /\ tab[a].dist[b] = Cost[a][b]
  \/ /\ m \in Node \ {b}
     /\ Works(a, m)
     /\ Exists(tab[m].dist[b])
     /\ tab[a].dist[b] = Cost[a][m] + tab[m].dist[b]
     /\ tab[a].dist[b] < Infinity

(* A stored distance that a announces makes its neighbour fit.             *)
LEMMA OfferFits ==
  ASSUME RouterInv, SelfInv, Settled, NEW a \in Node, NEW b \in Node, a # b,
         ~ sleeping[a], Exists(tab[a].dist[b]), NEW m \in tab[a].online,
         \/ m = b /\ tab[a].dist[b] = Cost[a][b]
         \/ tab[a].dv[m][b] = tab[a].dist[b]
  PROVE  HopFits(a, b, m)
<1>1. Works(m, a)
  BY DEF Settled
<1>2. /\ m \in Node /\ m \in Linked(a) /\ Works(a, m)
      /\ tab[a].dv[m][b] = Through(tab[m].dist[b], Cost[a][m])
  BY <1>1, WorksBack, SettledHolds
<1>3. CASE m = b /\ tab[a].dist[b] = Cost[a][b]
  BY <1>2, <1>3 DEF HopFits
<1>4. CASE tab[a].dv[m][b] = tab[a].dist[b]
  <2>1. tab[a].dist[b] = Through(tab[m].dist[b], Cost[a][m])
    BY <1>2, <1>4
  <2>2. Exists(Through(tab[m].dist[b], Cost[a][m]))
    BY <2>1
  <2>3. /\ Exists(tab[m].dist[b]) /\ tab[m].dist[b] + Cost[a][m] < Infinity
        /\ tab[a].dist[b] = tab[m].dist[b] + Cost[a][m]
    BY <2>1, <2>2 DEF Through, Exists, None
  <2>4. tab[m].dist[b] \in Nat /\ Cost[a][m] \in Nat
    <3>1. tab[m].dist[b] \in Dist
      BY <1>2, TablesCoherent DEF Table
    <3> QED
      BY <1>2, <2>3, <3>1, CostType DEF Dist, Exists, None
  <2>5. CASE m = b
    <3>1. tab[b].dist[b] = 0
      BY <2>3, <2>5 DEF SelfInv, Exists, None
    <3> QED
      BY <1>2, <2>3, <2>4, <2>5, <3>1 DEF HopFits
  <2>6. CASE m # b
    BY <1>2, <2>3, <2>4, <2>6 DEF HopFits
  <2> QED
    BY <2>5, <2>6
<1> QED
  BY <1>3, <1>4

(* What update_rt made of the offers, seen from the network: a distance    *)
(* announced has a first step that fits, and none exceeds what a working   *)
(* neighbour gives.                                                        *)
LEMMA SettledBest ==
  ASSUME RouterInv, SelfInv, Settled, NEW a \in Node, NEW b \in Node, a # b,
         ~ sleeping[a]
  PROVE  /\ tab[a].dist[b] \in Dist
         /\ Exists(tab[a].dist[b]) => \E m \in tab[a].online : HopFits(a, b, m)
         /\ Works(a, b) => Exists(tab[a].dist[b]) /\ tab[a].dist[b] <= Cost[a][b]
         /\ \A m \in Node :
              /\ Works(a, m) /\ Exists(tab[m].dist[b])
              /\ Cost[a][m] + tab[m].dist[b] < Infinity
              => /\ Exists(tab[a].dist[b])
                 /\ tab[a].dist[b] <= Cost[a][m] + tab[m].dist[b]
<1> DEFINE offers == Offers(a, tab[a], b)
           d      == tab[a].dist[b]
<1>1. /\ Coherent(a, tab[a]) /\ tab[a] \in Table /\ tab[a].online \subseteq Linked(a)
      /\ d \in Dist /\ HoldsBest(a, tab[a])
  <2>1. ~ edited[a]
    BY DEF Settled
  <2> QED
    BY <2>1, TablesCoherent DEF Coherent, Table, DistanceIsBest
<1>2. /\ offers = {} => d = None
      /\ offers # {} => d \in offers /\ \A o \in offers : d <= o
  BY <1>1 DEF HoldsBest, IsBest
<1>3. offers \in SUBSET Nat
  BY <1>1, OffersType
<1>4. Exists(d) => \E m \in tab[a].online : HopFits(a, b, m)
  <2> SUFFICES ASSUME Exists(d)
               PROVE  \E m \in tab[a].online : HopFits(a, b, m)
    OBVIOUS
  <2>1. d \in offers
    BY <1>2 DEF Exists, None
  <2>2. CASE \E v \in tab[a].online : d = tab[a].dv[v][b]
    BY <2>2, OfferFits
  <2>3. CASE b \in tab[a].online /\ d = Cost[a][b]
    BY <2>3, OfferFits
  <2> QED
    BY <2>1, <2>2, <2>3 DEF Offers
<1>5. ASSUME NEW o \in offers
      PROVE  Exists(d) /\ d <= o
  <2>1. d \in Nat /\ d <= o
    BY <1>2, <1>3
  <2> QED
    BY <2>1 DEF Exists
<1>6. ASSUME Works(a, b)
      PROVE  Exists(d) /\ d <= Cost[a][b]
  <2>1. b \in tab[a].online
    BY <1>6, WorksBack, SettledHolds
  <2>2. Cost[a][b] \in offers
    BY <2>1 DEF Offers
  <2> QED
    BY <1>5, <2>2
<1>7. ASSUME NEW m \in Node, Works(a, m), Exists(tab[m].dist[b]),
             Cost[a][m] + tab[m].dist[b] < Infinity
      PROVE  Exists(d) /\ d <= Cost[a][m] + tab[m].dist[b]
  <2>1. /\ m \in tab[a].online /\ m \in Linked(a)
        /\ tab[a].dv[m][b] = Through(tab[m].dist[b], Cost[a][m])
    BY <1>7, WorksBack, SettledHolds
  <2>2. tab[m].dist[b] \in Nat /\ Cost[a][m] \in Nat
    <3>1. tab[m].dist[b] \in Dist
      BY TablesCoherent DEF Table
    <3> QED
      BY <1>7, <2>1, <3>1, CostType DEF Dist, Exists, None
  <2>3. /\ tab[a].dv[m][b] = Cost[a][m] + tab[m].dist[b]
        /\ Exists(tab[a].dv[m][b])
    BY <1>7, <2>1, <2>2, InfinityAssumption DEF Through, Exists
  <2>4. Cost[a][m] + tab[m].dist[b] \in offers
    BY <2>1, <2>3 DEF Offers
  <2> QED
    BY <1>5, <2>4
<1> QED
  BY <1>1, <1>4, <1>6, <1>7

(* No announced distance exceeds the cost of an open walk: the last node   *)
(* on the walk to announce more than the rest of it costs has a successor  *)
(* that does not, and would have heard of it.                              *)
LEMMA SettledLower ==
  ASSUME RouterInv, SelfInv, Settled, NEW a \in Node, NEW b \in Node, a # b,
         NEW w \in WalksFrom(a, b), Open(w)
  PROVE  Exists(tab[a].dist[b]) /\ tab[a].dist[b] <= w.rest[0]
<1> DEFINE k == w.len
           Low(i) == \/ w.node[i] = b
                     \/ /\ Exists(tab[w.node[i]].dist[b])
                        /\ tab[w.node[i]].dist[b] <= w.rest[i]
           S == {j \in 0 .. k : ~ Low(k - j)}
<1>1. /\ k \in Nat \ {0} /\ w.node \in [0 .. k -> Node] /\ w.rest \in [0 .. k -> Nat]
      /\ w.node[0] = a /\ w.node[k] = b
      /\ \A i \in 0 .. k : w.rest[i] < Infinity
      /\ \A i \in 0 .. k - 1 :
           /\ w.node[i + 1] \in Linked(w.node[i])
           /\ w.rest[i] = Cost[w.node[i]][w.node[i + 1]] + w.rest[i + 1]
      /\ \A i \in 0 .. k - 1 : Works(w.node[i], w.node[i + 1])
  BY WalkFacts DEF WalksFrom, Open
<1> HIDE DEF k
<1>2. SUFFICES S = {}
  <2>1. k \in 0 .. k /\ k - k = 0
    BY <1>1
  <2>2. Low(0)
    BY <2>1
  <2> QED
    BY <1>1, <2>2
<1>3. SUFFICES ASSUME S # {}
               PROVE  FALSE
  OBVIOUS
<1>4. S \in SUBSET Nat
  BY <1>1
<1> HIDE DEF S
<1>5. PICK j \in S : \A y \in S : j <= y
  BY <1>3, <1>4, LeastOf
<1>6. j \in 0 .. k /\ ~ Low(k - j)
  BY <1>5 DEF S
<1>7. j # 0
  BY <1>1, <1>6
<1> DEFINE i == k - j
           x == w.node[i]
           m == w.node[i + 1]
<1>8. /\ i \in 0 .. k - 1 /\ i \in 0 .. k /\ i + 1 \in 0 .. k
      /\ j - 1 \in 0 .. k /\ k - (j - 1) = i + 1
  BY <1>1, <1>6, <1>7
<1>9. Low(i + 1)
  <2>1. j - 1 \notin S
    BY <1>1, <1>5, <1>6
  <2> QED
    BY <1>8, <2>1 DEF S
<1>10. /\ x \in Node /\ m \in Linked(x) /\ m \in Node /\ Works(x, m)
       /\ w.rest[i] \in Nat /\ w.rest[i + 1] \in Nat
       /\ w.rest[i] = Cost[x][m] + w.rest[i + 1] /\ w.rest[i] < Infinity
  BY <1>1, <1>8
<1>11. x # b /\ ~ (Exists(tab[x].dist[b]) /\ tab[x].dist[b] <= w.rest[i])
  BY <1>6
<1>12. Cost[x][m] \in Nat /\ ~ sleeping[x] /\ Infinity \in Nat
  BY <1>10, CostType, InfinityAssumption DEF Works
<1>13. tab[x].dist[b] \in Dist
  BY <1>10, <1>11, <1>12, SettledBest
<1>14. CASE m = b
  <2>1. Exists(tab[x].dist[b]) /\ tab[x].dist[b] <= Cost[x][b]
    BY <1>10, <1>11, <1>12, <1>14, SettledBest
  <2>2. tab[x].dist[b] <= w.rest[i]
    BY <1>10, <1>12, <1>13, <1>14, <2>1 DEF Dist, None
  <2> QED
    BY <1>11, <2>1, <2>2
<1>15. CASE m # b
  <2>1. Exists(tab[m].dist[b]) /\ tab[m].dist[b] <= w.rest[i + 1]
    BY <1>9, <1>15
  <2>2. tab[m].dist[b] \in Dist
    BY <1>10, TablesCoherent DEF Table
  <2>3. tab[m].dist[b] \in Nat
    BY <2>1, <2>2 DEF Dist, Exists, None
  <2>4. /\ Cost[x][m] + tab[m].dist[b] <= w.rest[i]
        /\ Cost[x][m] + tab[m].dist[b] < Infinity
    BY <1>10, <1>12, <2>1, <2>3
  <2>5. Exists(tab[x].dist[b]) /\ tab[x].dist[b] <= Cost[x][m] + tab[m].dist[b]
    BY <1>10, <1>11, <1>12, <2>1, <2>4, SettledBest
  <2>6. tab[x].dist[b] <= w.rest[i]
    BY <1>10, <1>12, <1>13, <2>3, <2>4, <2>5 DEF Dist, None
  <2> QED
    BY <1>11, <2>5, <2>6
<1> QED
  BY <1>14, <1>15

(* The way of an announced distance, for any choice h of fitting first     *)
(* steps: the direct link, or an open walk that h leads along.  The        *)
(* smallest distance without one would have a fitting first step that      *)
(* announces less.                                                         *)
HopLeads(h, a, b) ==
  \/ /\ h[a] = b
     /\ Works(a, b)
     /\ tab[a].dist[b] = Cost[a][b]
  \/ \E w \in WalksFrom(a, b) :
       /\ Open(w)
       /\ w.rest[0] = tab[a].dist[b]
       /\ \A i \in 0 .. w.len - 1 : h[w.node[i]] = w.node[i + 1]

LEMMA SettledWalks ==
  ASSUME PositiveCosts, RouterInv, NEW b \in Node, NEW h,
         \A a \in Node \ {b} :
           ~ sleeping[a] /\ Exists(tab[a].dist[b]) => HopFits(a, b, h[a])
  PROVE  \A a \in Node \ {b} :
           ~ sleeping[a] /\ Exists(tab[a].dist[b]) => HopLeads(h, a, b)
<1> DEFINE Lost(a) == /\ ~ sleeping[a] /\ Exists(tab[a].dist[b])
                      /\ ~ HopLeads(h, a, b)
           S == {tab[a].dist[b] : a \in {x \in Node \ {b} : Lost(x)}}
<1>1. SUFFICES ASSUME S # {}
               PROVE  FALSE
  OBVIOUS
<1>2. \A a \in Node : tab[a].dist[b] \in Dist
  BY TablesCoherent DEF Table
<1>3. S \in SUBSET Nat
  BY <1>2 DEF Dist, Exists, None
<1>4. PICK d \in S : \A y \in S : d <= y
  BY <1>1, <1>3, LeastOf
<1>5. PICK a \in Node \ {b} : Lost(a) /\ tab[a].dist[b] = d
  BY <1>4
<1> DEFINE m == h[a]
<1>6. HopFits(a, b, m) /\ d \in Nat
  BY <1>3, <1>5
<1>7. CASE m = b /\ Works(a, b) /\ tab[a].dist[b] = Cost[a][b]
  BY <1>5, <1>7 DEF HopLeads
<1>8. CASE /\ m \in Node \ {b} /\ Works(a, m) /\ Exists(tab[m].dist[b])
           /\ tab[a].dist[b] = Cost[a][m] + tab[m].dist[b]
           /\ tab[a].dist[b] < Infinity
  <2>1. m \in Linked(a) /\ Cost[a][m] \in Nat /\ Cost[a][m] > 0 /\ ~ sleeping[m]
    <3>1. m \in Linked(a)
      BY <1>8 DEF Works, Link
    <3> QED
      BY <1>8, <3>1, CostType DEF Works, PositiveCosts
  <2>2. tab[m].dist[b] \in Nat /\ Infinity \in Nat
    BY <1>2, <1>8, InfinityAssumption DEF Dist, Exists, None
  <2>3. tab[m].dist[b] < d /\ tab[m].dist[b] < Infinity
    BY <1>5, <1>6, <1>8, <2>1, <2>2
  <2>4. ~ Lost(m)
    <3>1. tab[m].dist[b] \notin S
      <4> HIDE DEF S
      <4> QED
        BY <1>4, <1>6, <2>2, <2>3
    <3> QED
      BY <1>8, <3>1
  <2>5. HopLeads(h, m, b)
    BY <1>8, <2>1, <2>4
  <2>6. PICK w \in WalksFrom(m, b) :
          /\ Open(w)
          /\ w.rest[0] = tab[m].dist[b]
          /\ \A i \in 0 .. w.len - 1 : h[w.node[i]] = w.node[i + 1]
    <3>1. CASE h[m] = b /\ Works(m, b) /\ tab[m].dist[b] = Cost[m][b]
      <4> DEFINE node == [i \in 0 .. 1 |-> IF i = 0 THEN m ELSE b]
                 rest == [i \in 0 .. 1 |-> IF i = 0 THEN Cost[m][b] ELSE 0]
                 w == [len |-> 1, node |-> node, rest |-> rest]
      <4>1. b \in Linked(m) /\ Cost[m][b] < Infinity
        BY <2>3, <3>1 DEF Works, Link
      <4>2. w \in WalksFrom(m, b)
        BY <1>8, <4>1, LinkWalk
      <4>3. /\ w.len = 1 /\ w.rest[0] = Cost[m][b]
            /\ w.node[0] = m /\ w.node[1] = b /\ w.node[0 + 1] = b
        OBVIOUS
      <4> HIDE DEF w
      <4>4. \A i \in 0 .. w.len - 1 : i = 0
        BY <4>3
      <4>5. Open(w) /\ \A i \in 0 .. w.len - 1 : h[w.node[i]] = w.node[i + 1]
        BY <3>1, <4>3, <4>4 DEF Open
      <4> QED
        BY <3>1, <4>2, <4>3, <4>5
    <3> QED
      BY <2>5, <3>1 DEF HopLeads
  <2> DEFINE v == Prepend(a, w)
  <2>7. /\ v \in WalksFrom(a, b) /\ v.len = w.len + 1
        /\ v.rest[0] = Cost[a][m] + w.rest[0]
        /\ v.node[0] = a /\ v.node[1] = m
        /\ \A i \in 1 .. w.len + 1 : v.node[i] = w.node[i - 1]
    <3>1. Cost[a][m] + w.rest[0] < Infinity
      BY <1>8, <2>6
    <3> QED
      BY <2>1, <2>6, <3>1, PrependWalk
  <2>8. w.len \in Nat
    BY <2>6, WalkFacts DEF WalksFrom
  <2> HIDE DEF v
  <2>9. ASSUME NEW i \in 0 .. v.len - 1
        PROVE  Works(v.node[i], v.node[i + 1]) /\ h[v.node[i]] = v.node[i + 1]
    <3>1. CASE i = 0
      <4>1. i + 1 = 1
        BY <3>1
      <4> QED
        BY <1>8, <2>7, <3>1, <4>1
    <3>2. CASE i # 0
      <4>1. /\ i \in 1 .. w.len + 1 /\ i + 1 \in 1 .. w.len + 1
            /\ i - 1 \in 0 .. w.len - 1 /\ (i - 1) + 1 = i /\ (i + 1) - 1 = i
        BY <2>7, <2>8, <3>2
      <4>2. v.node[i] = w.node[i - 1] /\ v.node[i + 1] = w.node[i]
        BY <2>7, <4>1
      <4>3. Works(w.node[i - 1], w.node[i]) /\ h[w.node[i - 1]] = w.node[i]
        BY <2>6, <4>1 DEF Open
      <4> QED
        BY <4>2, <4>3
    <3> QED
      BY <3>1, <3>2
  <2>10. v.rest[0] = tab[a].dist[b]
    BY <1>8, <2>6, <2>7
  <2>11. HopLeads(h, a, b)
    BY <2>7, <2>9, <2>10 DEF HopLeads, Open
  <2> QED
    BY <1>5, <2>11
<1> QED
  BY <1>6, <1>7, <1>8 DEF HopFits

LEMMA MinIs ==
  ASSUME NEW S \in SUBSET Nat, NEW d \in S, \A y \in S : d <= y
  PROVE  Min(S) = d
<1>1. Min(S) \in S /\ Min(S) <= d
  BY MinOfNaturals
<1>2. Min(S) \in Nat /\ d \in Nat /\ d <= Min(S)
  BY <1>1
<1> QED
  BY <1>1, <1>2

LEMMA SettledIsTrue ==
  ASSUME PositiveCosts, RouterInv, SelfInv, Settled,
         NEW a \in Node, NEW b \in Node, a # b, ~ sleeping[a]
  PROVE  tab[a].dist[b] = TrueDist(a, b)
<1> DEFINE d    == tab[a].dist[b]
           near == {w.rest[0] : w \in {v \in WalksFrom(a, b) : Open(v)}}
           h    == [x \in Node |-> CHOOSE m \in tab[x].online : HopFits(x, b, m)]
<1>1. near \in SUBSET Nat /\ \A y \in near : y < Infinity
  <2> SUFFICES ASSUME NEW w \in WalksFrom(a, b)
               PROVE  w.rest[0] \in Nat /\ w.rest[0] < Infinity
    OBVIOUS
  <2>1. /\ w.len \in Nat \ {0} /\ w.rest \in [0 .. w.len -> Nat]
        /\ \A i \in 0 .. w.len : w.rest[i] < Infinity
    BY WalkFacts DEF WalksFrom
  <2>2. 0 \in 0 .. w.len
    BY <2>1
  <2> QED
    BY <2>1, <2>2
<1>2. \A y \in near : Exists(d) /\ d <= y
  BY SettledLower
<1>3. d \in Dist
  BY SettledBest
<1>4. \A x \in Node \ {b} : ~ sleeping[x] /\ Exists(tab[x].dist[b]) => HopFits(x, b, h[x])
  BY SettledBest
<1> HIDE DEF h
<1>5. Exists(d) => HopLeads(h, a, b)
  BY <1>4, SettledWalks
<1>6. TrueDist(a, b) = IF near # {} THEN Min(near)
                       ELSE IF Works(a, b) THEN Cost[a][b] ELSE None
  BY DEF TrueDist
<1>7. ASSUME d \in near
      PROVE  d = TrueDist(a, b)
  <2>1. Min(near) = d
    <3> HIDE DEF near, d
    <3> QED
      BY <1>1, <1>2, <1>7, MinIs
  <2> QED
    BY <1>6, <1>7, <2>1
<1>8. CASE Exists(d)
  <2>1. CASE \E w \in WalksFrom(a, b) : Open(w) /\ w.rest[0] = d
    BY <1>7, <2>1
  <2>2. CASE h[a] = b /\ Works(a, b) /\ d = Cost[a][b]
    <3>1. b \in Linked(a) /\ d \in Nat /\ Infinity \in Nat
      BY <1>3, <1>8, <2>2, InfinityAssumption DEF Works, Link, Dist, Exists, None
    <3>2. CASE d < Infinity
      <4> DEFINE node == [i \in 0 .. 1 |-> IF i = 0 THEN a ELSE b]
                 rest == [i \in 0 .. 1 |-> IF i = 0 THEN Cost[a][b] ELSE 0]
                 w == [len |-> 1, node |-> node, rest |-> rest]
      <4>1. w \in WalksFrom(a, b)
        BY <2>2, <3>1, <3>2, LinkWalk
      <4>2. /\ w.len = 1 /\ w.rest[0] = d /\ w.node[0] = a /\ w.node[0 + 1] = b
        BY <2>2
      <4> HIDE DEF w
      <4>3. \A i \in 0 .. w.len - 1 : i = 0
        BY <4>2
      <4>4. Open(w)
        BY <2>2, <4>2, <4>3 DEF Open
      <4> QED
        BY <1>7, <4>1, <4>2, <4>4
    <3>3. CASE ~ (d < Infinity)
      <4>1. near = {}
        <5>1. \A y \in near : y \in Nat /\ d <= y /\ y < Infinity
          BY <1>1, <1>2
        <5> HIDE DEF near, d
        <5> QED
          BY <3>1, <3>3, <5>1
      <4> QED
        BY <1>6, <2>2, <4>1
    <3> QED
      BY <3>2, <3>3
  <2> QED
    BY <1>5, <1>8, <2>1, <2>2 DEF HopLeads
<1>9. CASE ~ Exists(d)
  <2>1. d = None
    BY <1>3, <1>9 DEF Dist, Exists
  <2>2. near = {}
    BY <1>2, <1>9
  <2>3. ~ Works(a, b)
    BY <1>9, SettledBest
  <2> QED
    BY <1>6, <2>1, <2>2, <2>3
<1> QED
  BY <1>8, <1>9

(* Tables that agree with each other agree with the network: whatever      *)
(* faults, drops and restarts led there, a settled network keeps no        *)
(* phantom route (README: "prevenção de contagem ao infinito") and misses  *)
(* no shorter way.                                                         *)
THEOREM SettledIsConverged ==
  ASSUME PositiveCosts
  PROVE  Spec => []SettledConverged
<1>1. RouterInv /\ SelfInv => SettledConverged
  BY SettledIsTrue DEF SettledConverged, Converged
<1> QED
  BY <1>1, RouterCorrect, SelfCorrect, PTL

LEMMA SettledLeads ==
  ASSUME PositiveCosts, RouterInv, SelfInv, HopsOffer, Settled,
         NEW n \in Node, NEW to \in Node \ {n},
         ~ sleeping[n], Exists(TrueDist(n, to))
  PROVE  RouteLeads(n, to)
<1> DEFINE h == [x \in Node |-> tab[x].via[to]]
<1>1. Exists(tab[n].dist[to])
  BY SettledIsTrue
<1>2. ASSUME NEW x \in Node \ {to}, ~ sleeping[x], Exists(tab[x].dist[to])
      PROVE  HopFits(x, to, h[x])
  <2>1. h[x] # None /\ h[x] \in tab[x].online
    BY <1>2, TablesCoherent DEF Coherent, HopsAlive
  <2>2. HopOffers(x, tab[x], to)
    BY <1>2 DEF HopsOffer
  <2>3. \/ h[x] = to /\ tab[x].dist[to] = Cost[x][to]
        \/ tab[x].dv[h[x]][to] = tab[x].dist[to]
    BY <2>1, <2>2 DEF HopOffers
  <2> QED
    BY <1>2, <2>1, <2>3, OfferFits
<1>3. HopLeads(h, n, to)
  <2>1. \A a \in Node \ {to} :
          ~ sleeping[a] /\ Exists(tab[a].dist[to]) => HopFits(a, to, h[a])
    BY <1>2
  <2> HIDE DEF h
  <2> QED
    BY <1>1, <2>1, SettledWalks
<1>4. \A w \in WalksFrom(n, to) : \A i \in 0 .. w.len - 1 : w.node[i] \in Node
  <2> SUFFICES ASSUME NEW w \in WalksFrom(n, to), NEW i \in 0 .. w.len - 1
               PROVE  w.node[i] \in Node
    OBVIOUS
  <2>1. w.len \in Nat \ {0} /\ w.node \in [0 .. w.len -> Node]
    BY WalkFacts DEF WalksFrom
  <2>2. i \in 0 .. w.len
    BY <2>1
  <2> QED
    BY <2>1, <2>2
<1> QED
  BY <1>3, <1>4 DEF HopLeads, RouteLeads

(* In a settled network the next hops of router_sendmessage lead to every  *)
(* destination that a working path reaches, at the cost announced, as long *)
(* as every next hop offers the distance announced.                        *)
THEOREM SettledRoutesLead ==
  ASSUME PositiveCosts
  PROVE  Spec => [](HopsOffer => SettledRoutesReach)
<1>1. RouterInv /\ SelfInv => (HopsOffer => SettledRoutesReach)
  BY SettledLeads DEF SettledRoutesReach
<1> QED
  BY <1>1, RouterCorrect, SelfCorrect, PTL

-----------------------------------------------------------------------------
(* A network at rest.                                                      *)

(* A table that holds the best of its offers is what update_rt makes of it. *)
LEMMA NothingToUpdate ==
  ASSUME NEW n \in Node, NEW t, Coherent(n, t), HoldsBest(n, t)
  PROVE  UpdateRt(n, t) = t
<1>t. t \in Table
  BY DEF Coherent
<1>1. \A to \in Node \ {n} : t.dist[to] = BestDist(n, t, to)
  <2> SUFFICES ASSUME NEW to \in Node \ {n}
               PROVE  t.dist[to] = BestDist(n, t, to)
    OBVIOUS
  <2>1. IsBest(t.dist[to], Offers(n, t, to)) /\ Offers(n, t, to) \in SUBSET Nat
    BY OffersType DEF HoldsBest
  <2>2. CASE Offers(n, t, to) = {}
    BY <2>1, <2>2 DEF IsBest, BestDist
  <2>3. CASE Offers(n, t, to) # {}
    <3>1. /\ t.dist[to] \in Offers(n, t, to)
          /\ \A o \in Offers(n, t, to) : t.dist[to] <= o
      BY <2>1, <2>3 DEF IsBest
    <3>2. Min(Offers(n, t, to)) = t.dist[to]
      BY <2>1, <3>1, MinIs
    <3> QED
      BY <2>3, <3>2 DEF BestDist
  <2> QED
    BY <2>2, <2>3
<1>2. {to \in t.known \ {n} : t.dist[to] # BestDist(n, t, to)} = {}
  BY <1>t, <1>1 DEF Table
<1>3. /\ UpdateRt(n, t) = [t EXCEPT !.dist = [to \in Node |-> t.dist[to]],
                                   !.via  = [to \in Node |-> t.via[to]]]
  BY <1>2 DEF UpdateRt
<1>4. [to \in Node |-> t.dist[to]] = t.dist /\ [to \in Node |-> t.via[to]] = t.via
  BY <1>t DEF Table
<1> QED
  BY <1>t, <1>3, <1>4 DEF Table

(* What AtRest says of the queues, for one link.                           *)
LinkAtRest(l, q) ==
  ~ sleeping[l[2]] =>
    \A k \in DOMAIN q : Works(l[1], l[2]) /\ q[k] = VectorOf(tab[l[1]])

LEMMA QueuesAtRest ==
  ASSUME AtRest, NEW l \in Link
  PROVE  LinkAtRest(l, chan[l])
<1>1. l[2] \in Node /\ l[1] \in Linked(l[2]) /\ l = <<l[1], l[2]>>
  BY LinkEnds
<1> QED
  BY <1>1 DEF AtRest, LinkAtRest

(* The step that changes no table and adds nothing new.                    *)
LEMMA RestStep ==
  ASSUME RouterInv, AtRest, UNCHANGED <<tab, sleeping, down>>,
         \A n \in Node : ~ sleeping[n] =>
           ~ edited'[n] /\ tab[n].online \cap silent'[n] = {},
         \A l \in Link : LinkAtRest(l, chan'[l])
  PROVE  AtRest'
<1>1. Settled'
  BY DEF AtRest, Settled, Works, Stored
<1>2. ASSUME NEW n \in Node, NEW m \in Linked(n), ~ sleeping[n],
             NEW k \in DOMAIN chan'[<<m, n>>]
      PROVE  Works(m, n)' /\ chan'[<<m, n>>][k] = VectorOf(tab[m])'
  <2>1. <<m, n>> \in Link
    BY CostAssumption DEF Link, Linked
  <2>2. LinkAtRest(<<m, n>>, chan'[<<m, n>>])
    BY <2>1
  <2>3. Works(m, n) /\ chan'[<<m, n>>][k] = VectorOf(tab[m])
    BY <1>2, <2>2 DEF LinkAtRest
  <2> QED
    BY <2>3 DEF Works
<1> QED
  BY <1>1, <1>2 DEF AtRest

LEMMA RestRecvDv ==
  ASSUME RouterInv, SelfInv, AtRest, NEW l \in Link, RecvDv(l[1], l[2])
  PROVE  AtRest' /\ UNCHANGED tab
<1> DEFINE m == l[1]
           n == l[2]
<1>1. /\ m \in Node /\ n \in Node /\ l = <<m, n>> /\ m \in Linked(n)
  BY LinkEnds
<1> HIDE DEF m, n
<1>2. PICK k \in DOMAIN chan[<<m, n>>] :
      \E stored \in {Stored(n, m, chan[<<m, n>>][k])} :
      \E t \in {UpdateRt(n, stored)} :
       /\ tab' = [tab EXCEPT ![n] = t]
       /\ chan' = IF RoutesChanged(n, m, t)
                  THEN SendDv(n, t, Take(m, n, k))
                  ELSE Take(m, n, k)
  BY DEF RecvDv, m, n
<1>3. /\ ~ sleeping[n]
      /\ silent' = [silent EXCEPT ![n] = @ \ {m}]
      /\ edited' = [edited EXCEPT ![n] = FALSE]
      /\ UNCHANGED <<sleeping, down>>
  BY DEF RecvDv, m, n
<1>4. Works(m, n) /\ chan[<<m, n>>][k] = VectorOf(tab[m])
  BY <1>1, <1>3, QueuesAtRest DEF LinkAtRest
<1>5. Stored(n, m, chan[<<m, n>>][k]) = tab[n] /\ m \in tab[n].online
  BY <1>1, <1>3, <1>4, SettledHolds DEF AtRest, Settled
<1>6. UpdateRt(n, tab[n]) = tab[n]
  <2>1. Coherent(n, tab[n]) /\ HoldsBest(n, tab[n])
    BY <1>1, <1>3, TablesCoherent DEF AtRest, Settled, DistanceIsBest
  <2> QED
    BY <1>1, <2>1, NothingToUpdate
<1>7. tab \in [Node -> Table] /\ chan \in Queues /\ silent \in [Node -> SUBSET Node]
      /\ edited \in [Node -> BOOLEAN]
  BY TablesCoherent
<1>8. UNCHANGED tab /\ ~ RoutesChanged(n, m, tab[n])
  BY <1>1, <1>2, <1>5, <1>6, <1>7 DEF RoutesChanged
<1>9. chan' = Take(m, n, k)
  BY <1>2, <1>5, <1>6, <1>8
<1>10. ASSUME NEW j \in Link
       PROVE  LinkAtRest(j, chan'[j])
  <2>1. LinkAtRest(j, chan[j])
    BY QueuesAtRest
  <2>2. ASSUME NEW i \in DOMAIN Take(m, n, k)[j]
        PROVE  \E x \in DOMAIN chan[j] : Take(m, n, k)[j][i] = chan[j][x]
    BY <1>1, <1>7, TakeElements
  <2> QED
    BY <1>9, <2>1, <2>2 DEF LinkAtRest
<1>11. ASSUME NEW p \in Node, ~ sleeping[p]
       PROVE  ~ edited'[p] /\ tab[p].online \cap silent'[p] = {}
  BY <1>1, <1>3, <1>7, <1>11 DEF AtRest, Settled
<1> QED
  BY <1>3, <1>8, <1>10, <1>11, RestStep

LEMMA RestHeartBeat ==
  ASSUME RouterInv, SelfInv, AtRest, NEW n \in Node, HeartBeat(n)
  PROVE  AtRest' /\ UNCHANGED tab
<1>1. /\ ~ sleeping[n]
      /\ chan' = SendDv(n, tab[n], chan)
      /\ UNCHANGED <<tab, sleeping, silent, down, edited>>
  BY DEF HeartBeat
<1>2. tab[n] \in Table /\ chan \in Queues
  BY TablesCoherent
<1>3. ASSUME NEW l \in Link
      PROVE  LinkAtRest(l, chan'[l])
  <2> SUFFICES ASSUME ~ sleeping[l[2]], NEW k \in DOMAIN chan'[l]
               PROVE  Works(l[1], l[2]) /\ chan'[l][k] = VectorOf(tab[l[1]])
    BY DEF LinkAtRest
  <2>1. LinkAtRest(l, chan[l])
    BY QueuesAtRest
  <2>2. CASE \E j \in DOMAIN chan[l] : chan'[l][k] = chan[l][j]
    BY <2>1, <2>2 DEF LinkAtRest
  <2>3. CASE l[1] = n /\ l[2] \in tab[n].online /\ chan'[l][k] = VectorOf(tab[n])
    <3>1. Works(l[2], n)
      BY <1>1, <2>3 DEF AtRest, Settled
    <3> QED
      BY <2>3, <3>1, WorksBack
  <2> QED
    BY <1>1, <1>2, <2>2, <2>3, SendDvElements
<1>4. \A p \in Node : ~ sleeping[p] =>
        ~ edited'[p] /\ tab[p].online \cap silent'[p] = {}
  BY <1>1 DEF AtRest, Settled
<1> QED
  BY <1>1, <1>3, <1>4, RestStep

(* A node that discards a datagram sleeps: nothing is asked of its queues. *)
LEMMA RestDiscardDv ==
  ASSUME RouterInv, AtRest, NEW l \in Link, DiscardDv(l[1], l[2])
  PROVE  AtRest' /\ UNCHANGED tab
<1>0. l[1] \in Node /\ l[2] \in Node /\ <<l[1], l[2]>> \in Link
  BY LinkEnds
<1>1. PICK k \in DOMAIN chan[<<l[1], l[2]>>] : chan' = Take(l[1], l[2], k)
  BY DEF DiscardDv
<1>2. /\ silent' = [silent EXCEPT ![l[2]] = @ \ {l[1]}]
      /\ UNCHANGED <<tab, sleeping, down, edited>>
  BY DEF DiscardDv
<1>3. chan \in Queues /\ silent \in [Node -> SUBSET Node]
  BY TablesCoherent
<1>4. ASSUME NEW j \in Link
      PROVE  LinkAtRest(j, chan'[j])
  <2>1. LinkAtRest(j, chan[j])
    BY QueuesAtRest
  <2>2. ASSUME NEW i \in DOMAIN Take(l[1], l[2], k)[j]
        PROVE  \E x \in DOMAIN chan[j] : Take(l[1], l[2], k)[j][i] = chan[j][x]
    BY <1>0, <1>3, TakeElements
  <2> QED
    BY <1>1, <2>1, <2>2 DEF LinkAtRest
<1>5. ASSUME NEW p \in Node, ~ sleeping[p]
      PROVE  ~ edited'[p] /\ tab[p].online \cap silent'[p] = {}
  <2>1. silent'[p] \subseteq silent[p]
    BY <1>0, <1>2, <1>3
  <2> QED
    BY <1>2, <1>5, <2>1 DEF AtRest, Settled
<1> QED
  BY <1>2, <1>4, <1>5, RestStep

(* Heartbeats of a neighbour held alive in a settled network do arrive.    *)
LEMMA RestFallSilent ==
  ASSUME RouterInv, SelfInv, AtRest, NEW l \in Link, FallSilent(l[1], l[2])
  PROVE  AtRest' /\ UNCHANGED tab
<1> DEFINE m == l[1]
           n == l[2]
<1>1. m \in Node /\ n \in Node
  BY LinkEnds
<1>2. /\ Mute(m, n)
      /\ silent' = [silent EXCEPT ![n] = @ \cup {m}]
      /\ UNCHANGED <<tab, sleeping, chan, down, edited>>
  BY DEF FallSilent
<1>3. \A j \in Link : LinkAtRest(j, chan'[j])
  BY <1>2, QueuesAtRest
<1>4. ASSUME ~ sleeping[n], m \in tab[n].online
      PROVE  FALSE
  <2>1. Works(m, n) /\ Works(n, m) /\ Settled
    BY <1>1, <1>4, WorksBack DEF AtRest, Settled
  <2>2. n \in tab[m].online
    BY <2>1, SettledHolds
  <2> QED
    BY <1>2, <1>4, <2>1, <2>2 DEF Mute, Works
<1>5. ASSUME NEW p \in Node, ~ sleeping[p]
      PROVE  ~ edited'[p] /\ tab[p].online \cap silent'[p] = {}
  <2>1. silent \in [Node -> SUBSET Node]
    BY TablesCoherent
  <2>2. tab[p].online \cap silent[p] = {} /\ ~ edited[p]
    BY <1>5 DEF AtRest, Settled
  <2> HIDE DEF m, n
  <2>3. CASE p = n
    BY <1>2, <1>4, <1>5, <2>1, <2>2, <2>3
  <2>4. CASE p # n
    BY <1>1, <1>2, <2>1, <2>2, <2>4
  <2> QED
    BY <2>3, <2>4
<1> QED
  BY <1>2, <1>3, <1>5, RestStep

LEMMA RestNext ==
  ASSUME RouterInv, SelfInv, AtRest, [Next]_vars, UNCHANGED <<faults, sleeping, down>>
  PROVE  AtRest' /\ UNCHANGED tab
<1>1. ASSUME UNCHANGED vars
      PROVE  AtRest' /\ UNCHANGED tab
  <2>1. \A l \in Link : LinkAtRest(l, chan'[l])
    BY <1>1, QueuesAtRest DEF vars
  <2>2. \A n \in Node : ~ sleeping[n] =>
          ~ edited'[n] /\ tab[n].online \cap silent'[n] = {}
    BY <1>1 DEF vars, AtRest, Settled
  <2> QED
    BY <1>1, <2>1, <2>2, RestStep DEF vars
<1>2. ASSUME NEW kind
      PROVE  ~ Spend(kind)
  BY TablesCoherent DEF Spend
<1>3. ASSUME NEW l \in Link, LinkRepair(l[1], l[2])
      PROVE  FALSE
  BY <1>3 DEF LinkRepair
<1>4. ASSUME NEW n \in Node, Wake(n)
      PROVE  FALSE
  <2>1. sleeping[n]
    BY <1>2, <1>4 DEF Wake
  <2>2. sleeping' = [sleeping EXCEPT ![n] = FALSE] /\ sleeping \in [Node -> BOOLEAN]
    BY <1>4, TablesCoherent DEF Wake
  <2> QED
    BY <2>1, <2>2
<1>5. ASSUME NEW n \in Node, DropCheck(n)
      PROVE  FALSE
  BY <1>5 DEF DropCheck, AtRest
<1>6. ASSUME NEW l \in Link, SeemSilent(l[1], l[2]) \/ Lose(l[1], l[2]) \/ LinkFail(l[1], l[2])
      PROVE  FALSE
  BY <1>2, <1>6 DEF SeemSilent, Lose, LinkFail
<1>7. ASSUME NEW n \in Node, Sleep(n) \/ \E d \in Hop : DropCommand(n, d)
      PROVE  FALSE
  BY <1>2, <1>7 DEF Sleep, DropCommand
<1> QED
  BY <1>1, <1>3, <1>4, <1>5, <1>6, <1>7, RestRecvDv, RestDiscardDv, RestFallSilent,
     RestHeartBeat DEF Next

(* A network at rest stays at rest, its tables as they are, until the next *)
(* fault, command or repair: no order of heartbeats, heartchecks and       *)
(* vectors makes update_rt flap or router_dropcheck drop a neighbour.      *)
THEOREM RestIsStable == Spec => RestLasts
<1>1. RouterInv /\ SelfInv /\ [Next]_vars =>
        (UNCHANGED <<faults, sleeping, down>> /\ AtRest => AtRest' /\ UNCHANGED tab)
  BY RestNext
<1>2. RouterInv /\ SelfInv /\ [Next]_vars =>
        [UNCHANGED <<faults, sleeping, down>> /\ AtRest => AtRest' /\ UNCHANGED tab]_vars
  BY <1>1
<1>3. Spec => [][UNCHANGED <<faults, sleeping, down>> /\ AtRest => AtRest' /\ UNCHANGED tab]_vars
  BY <1>2, RouterCorrect, SelfCorrect, PTL DEF Spec
<1> QED
  BY <1>3 DEF RestLasts

-----------------------------------------------------------------------------
(* Next hops that offer what is announced.                                 *)

(* A next hop chosen by update_rt does.                                    *)
LEMMA BestViaOffers ==
  ASSUME NEW n \in Node, NEW t, Coherent(n, t), NEW to \in Node \ {n}
  PROVE  \/ BestVia(n, t, to) = None
         \/ BestVia(n, t, to) = to /\ Cost[n][to] = BestDist(n, t, to)
         \/ t.dv[BestVia(n, t, to)][to] = BestDist(n, t, to)
<1> DEFINE best == BestDist(n, t, to)
           ties == {v \in t.online : t.dv[v][to] = best}
<1>1. CASE best = None
  BY <1>1 DEF BestVia
<1>2. CASE best # None /\ to \in t.online /\ Cost[n][to] = best
  BY <1>2 DEF BestVia
<1>3. CASE best # None /\ ~ (to \in t.online /\ Cost[n][to] = best)
  <2>1. best \in Offers(n, t, to)
    BY <1>3, BestDistIsBest DEF IsBest
  <2>2. ties # {}
    BY <1>3, <2>1 DEF Offers
  <2>3. ties \in SUBSET Nat
    BY DEF Coherent, Linked, Node
  <2>4. Min(ties) \in ties
    BY <2>2, <2>3, MinOfNaturals
  <2>5. BestVia(n, t, to) = Min(ties)
    BY <1>3 DEF BestVia
  <2> QED
    BY <2>4, <2>5
<1> QED
  BY <1>1, <1>2, <1>3

(* update_rt takes the offer from no next hop but one that another ties.   *)
LEMMA UpdateRtHops ==
  ASSUME NEW n \in Node, NEW t, Coherent(n, t), NEW to \in Node \ {n},
         ~ HopOffers(n, UpdateRt(n, t), to)
  PROVE  /\ ~ HopOffers(n, t, to)
         /\ UpdateRt(n, t).via[to] = t.via[to]
         /\ UpdateRt(n, t).dist[to] = t.dist[to]
         /\ UpdateRt(n, t).dist[to] \in Offers(n, UpdateRt(n, t), to)
<1> DEFINE moved == {x \in t.known \ {n} : t.dist[x] # BestDist(n, t, x)}
           u == UpdateRt(n, t)
<1>1. t \in Table /\ Coherent(n, u) /\ HoldsBest(n, u)
  BY UpdateRtCoherent DEF Coherent
<1>2. /\ u.dist[to] = IF to \in moved THEN BestDist(n, t, to) ELSE t.dist[to]
      /\ u.via[to] = IF to \in moved THEN BestVia(n, t, to) ELSE t.via[to]
      /\ u.dv = t.dv
  BY <1>1 DEF UpdateRt, Table
<1> HIDE DEF u, moved
<1>3. ~ HopOffers(n, u, to)
  BY DEF u
<1>4. to \notin moved
  <2> SUFFICES ASSUME to \in moved
               PROVE  HopOffers(n, u, to)
    BY <1>3
  <2> QED
    BY <1>2, BestViaOffers DEF HopOffers
<1>5. u.dist[to] = t.dist[to] /\ u.via[to] = t.via[to]
  BY <1>2, <1>4
<1>6. ~ HopOffers(n, t, to)
  BY <1>2, <1>3, <1>5 DEF HopOffers
<1>7. u.dist[to] \in Offers(n, u, to)
  <2>1. u.via[to] # None
    BY <1>3 DEF HopOffers
  <2>2. Exists(u.dist[to])
    BY <1>1, <2>1 DEF Coherent, HopsAlive
  <2>3. IsBest(u.dist[to], Offers(n, u, to))
    BY <1>1 DEF HoldsBest
  <2> QED
    BY <2>2, <2>3 DEF IsBest, Exists, None
<1> QED
  BY <1>5, <1>6, <1>7 DEF u

(* A next hop may stop offering when the vector of a neighbour is stored,  *)
(* but not because the neighbour is added.                                 *)
LEMMA StoredHops ==
  ASSUME NEW n \in Node, NEW m \in Linked(n), NEW t \in Table, NEW vec,
         NEW to \in Node \ {n},
         HopOffers(n, t, to),
         ~ HopOffers(n, ReadVector(n, AddNeighbour(n, t, m), m, vec), to)
  PROVE  /\ ReadVector(n, AddNeighbour(n, t, m), m, vec).via[to] = t.via[to]
         /\ ReadVector(n, AddNeighbour(n, t, m), m, vec).dist[to] = t.dist[to]
<1> DEFINE u == AddNeighbour(n, t, m)
           s == ReadVector(n, u, m, vec)
<1>1. m \in Node /\ Cost[n][m] # None
  BY DEF Linked
<1>2. \/ u.via[to] = t.via[to] /\ u.dist[to] = t.dist[to]
      \/ to = m /\ u.via[to] = m /\ u.dist[to] = Cost[n][m]
  BY <1>1 DEF AddNeighbour, Table
<1> HIDE DEF u
<1>3. s.via = u.via /\ s.dist = u.dist
  BY DEF ReadVector
<1> HIDE DEF s
<1>4. ~ HopOffers(n, s, to)
  BY DEF s, u
<1>5. s.via[to] = t.via[to] /\ s.dist[to] = t.dist[to]
  BY <1>2, <1>3, <1>4 DEF HopOffers
<1> QED
  BY <1>5 DEF s, u

LEMMA DropHops ==
  ASSUME NEW n \in Node, NEW D, NEW t \in Table, NEW to \in Node \ {n},
         HopOffers(n, t, to)
  PROVE  HopOffers(n, DropNeighbours(t, D), to)
<1> DEFINE u == DropNeighbours(t, D)
<1>1. /\ u.dv = t.dv
      /\ \/ u.via[to] = None
         \/ u.via[to] = t.via[to] /\ u.dist[to] = t.dist[to]
  BY DEF DropNeighbours, Table
<1> HIDE DEF u
<1>2. HopOffers(n, u, to)
  BY <1>1 DEF HopOffers
<1> QED
  BY <1>2 DEF u

HopLost(n, to) ==
  HopOffers(n, tab[n], to) /\ ~ HopOffers(n, tab'[n], to) =>
    /\ tab'[n].via[to] = tab[n].via[to]
    /\ tab'[n].dist[to] = tab[n].dist[to]
    /\ tab'[n].dist[to] \in Offers(n, tab'[n], to)

LEMMA HopsStep ==
  ASSUME RouterInv, [Next]_vars, NEW n \in Node, NEW to \in Node \ {n}
  PROVE  HopLost(n, to)
<1>t. tab \in [Node -> Table] /\ chan \in Queues /\ \A k \in Node : Coherent(k, tab[k])
  BY TablesCoherent
<1>0. ASSUME tab'[n] = tab[n]
      PROVE  HopLost(n, to)
  BY <1>0 DEF HopLost
<1>1. ASSUME NEW l \in Link, RecvDv(l[1], l[2])
      PROVE  HopLost(n, to)
  <2>1. /\ l[1] \in Node /\ l[2] \in Node /\ <<l[1], l[2]>> \in Link
        /\ l[1] \in Linked(l[2])
    BY LinkEnds
  <2>2. PICK k \in DOMAIN chan[<<l[1], l[2]>>] :
          tab' = [tab EXCEPT ![l[2]] =
                    UpdateRt(l[2], Stored(l[2], l[1], chan[<<l[1], l[2]>>][k]))]
    BY <1>1 DEF RecvDv
  <2>3. CASE l[2] # n
    BY <1>0, <1>t, <2>1, <2>2, <2>3
  <2>4. CASE l[2] = n
    <3> DEFINE m     == l[1]
               vec   == chan[<<m, n>>][k]
               added == AddNeighbour(n, tab[n], m)
               s     == ReadVector(n, added, m, vec)
    <3>1. vec \in Vector
      BY <1>t, <2>1, <2>4 DEF Queues
    <3>2. Coherent(n, added)
      BY <1>t, <2>1, <2>4, AddNeighbourCoherent
    <3>3. Coherent(n, s)
      <4> HIDE DEF added, vec
      <4> QED
        BY <2>1, <2>4, <3>1, <3>2, ReadVectorCoherent
    <3>4. tab'[n] = UpdateRt(n, s)
      BY <1>t, <2>2, <2>4 DEF Stored
    <3>5. HopOffers(n, tab[n], to) /\ ~ HopOffers(n, s, to) =>
            s.via[to] = tab[n].via[to] /\ s.dist[to] = tab[n].dist[to]
      BY <1>t, <2>1, <2>4, StoredHops
    <3> HIDE DEF s
    <3>6. ~ HopOffers(n, UpdateRt(n, s), to) =>
            /\ ~ HopOffers(n, s, to)
            /\ UpdateRt(n, s).via[to] = s.via[to]
            /\ UpdateRt(n, s).dist[to] = s.dist[to]
            /\ UpdateRt(n, s).dist[to] \in Offers(n, UpdateRt(n, s), to)
      BY <3>3, UpdateRtHops
    <3> QED
      BY <3>4, <3>5, <3>6 DEF HopLost
  <2> QED
    BY <2>3, <2>4
<1>2. ASSUME NEW k \in Node, DropCheck(k)
      PROVE  HopLost(n, to)
  <2> DEFINE D       == tab[k].online \cap silent[k]
             dropped == DropNeighbours(tab[k], D)
  <2>1. tab' = [tab EXCEPT ![k] = UpdateRt(k, dropped)]
    BY <1>2 DEF DropCheck
  <2>2. CASE k # n
    BY <1>0, <1>t, <2>1, <2>2
  <2>3. CASE k = n
    <3>1. D \in SUBSET Hop
      BY <1>2, TablesCoherent DEF Hop
    <3>2. Coherent(k, dropped)
      BY <1>2, <1>t, <3>1, DropNeighboursCoherent
    <3>3. HopOffers(n, tab[n], to) => HopOffers(n, dropped, to)
      BY <1>t, <2>3, DropHops
    <3>4. tab'[n] = UpdateRt(n, dropped)
      BY <1>t, <2>1, <2>3
    <3> HIDE DEF dropped
    <3>5. ~ HopOffers(n, UpdateRt(n, dropped), to) => ~ HopOffers(n, dropped, to)
      BY <2>3, <3>2, UpdateRtHops
    <3> QED
      BY <3>3, <3>4, <3>5 DEF HopLost
  <2> QED
    BY <2>2, <2>3
<1>3. ASSUME NEW k \in Node, Wake(k)
      PROVE  HopLost(n, to)
  <2>1. tab' = [tab EXCEPT ![k] = LoadLinks(k)]
    BY <1>3 DEF Wake
  <2>2. CASE k # n
    BY <1>0, <1>t, <2>1, <2>2
  <2>3. CASE k = n
    <3>1. HopOffers(n, LoadLinks(n), to)
      BY DEF HopOffers, LoadLinks
    <3> QED
      BY <1>t, <2>1, <2>3, <3>1 DEF HopLost
  <2> QED
    BY <2>2, <2>3
<1>4. ASSUME NEW k \in Node, NEW d \in Hop, DropCommand(k, d)
      PROVE  HopLost(n, to)
  <2>1. tab' = [tab EXCEPT ![k] = DropNeighbours(tab[k], {d})]
    BY <1>4, <1>t DEF DropCommand
  <2>2. CASE k # n
    BY <1>0, <1>t, <2>1, <2>2
  <2>3. CASE k = n
    <3>1. HopOffers(n, tab[n], to) => HopOffers(n, tab'[n], to)
      BY <1>t, <2>1, <2>3, DropHops
    <3> QED
      BY <3>1 DEF HopLost
  <2> QED
    BY <2>2, <2>3
<1>5. ASSUME UNCHANGED tab
      PROVE  HopLost(n, to)
  BY <1>0, <1>5
<1> QED
  BY <1>1, <1>2, <1>3, <1>4, <1>5
     DEF Next, vars, DiscardDv, FallSilent, SeemSilent, Lose, LinkFail, LinkRepair,
         HeartBeat, Sleep

(* A next hop that offers the distance announced ceases to do so in one    *)
(* way only: another neighbour takes the same distance over at that        *)
(* moment, and update_rt does not look at the next hop of a distance that  *)
(* has not changed.                                                        *)
THEOREM HopsAreLostToTies == Spec => HopsLostToTiesOnly
<1>1. RouterInv /\ [Next]_vars => [\A n \in Node : \A to \in Node \ {n} : HopLost(n, to)]_vars
  BY HopsStep
<1>2. Spec => [][\A n \in Node : \A to \in Node \ {n} : HopLost(n, to)]_vars
  BY <1>1, RouterCorrect, PTL DEF Spec
<1> QED
  BY <1>2 DEF HopsLostToTiesOnly, HopLost

-----------------------------------------------------------------------------
(* Neighbours that have dropped each other.                                *)
LEMMA EstrangedNext ==
  ASSUME RouterInv, [Next]_vars, NEW l \in Link, Estranged(l[1], l[2])
  PROVE  Estranged(l[1], l[2])' \/ Wake(l[1]) \/ Wake(l[2])
<1> DEFINE m == l[1]
           n == l[2]
<1>1. /\ m \in Node /\ n \in Node /\ m # n
      /\ <<m, n>> \in Link /\ <<n, m>> \in Link
  BY LinkEnds DEF Linked
<1> HIDE DEF m, n
<1>2. /\ m \notin tab[n].online /\ n \notin tab[m].online
      /\ chan[<<m, n>>] = <<>> /\ chan[<<n, m>>] = <<>>
      /\ tab \in [Node -> Table] /\ chan \in Queues
  BY TablesCoherent DEF Estranged, m, n
<1> DEFINE Apart(t, ch) == /\ m \notin t[n].online /\ n \notin t[m].online
                           /\ ch[<<m, n>>] = <<>> /\ ch[<<n, m>>] = <<>>
<1>3. SUFFICES ASSUME ~ Wake(m), ~ Wake(n)
               PROVE  Apart(tab', chan')
  BY DEF Estranged, m, n
<1>4. ASSUME NEW k \in Node, NEW t, k = n => m \notin t.online, k = m => n \notin t.online,
             NEW ch, ch[<<m, n>>] = <<>>, ch[<<n, m>>] = <<>>
      PROVE  SendDv(k, t, ch)[<<m, n>>] = <<>> /\ SendDv(k, t, ch)[<<n, m>>] = <<>>
  BY <1>1, <1>4 DEF SendDv
<1>5. ASSUME NEW j \in Link, NEW i \in DOMAIN chan[<<j[1], j[2]>>]
      PROVE  /\ Take(j[1], j[2], i)[<<m, n>>] = <<>>
             /\ Take(j[1], j[2], i)[<<n, m>>] = <<>>
  <2>1. j = <<j[1], j[2]>>
    BY LinkEnds
  <2>2. j # <<m, n>> /\ j # <<n, m>>
    BY <1>2, <1>5, <2>1
  <2> QED
    BY <1>1, <1>2, <2>1, <2>2 DEF Take, Queues
<1>6. ASSUME NEW j \in Link, RecvDv(j[1], j[2])
      PROVE  Apart(tab', chan')
  <2>1. PICK i \in DOMAIN chan[<<j[1], j[2]>>] :
        \E s \in {Stored(j[2], j[1], chan[<<j[1], j[2]>>][i])} :
        \E t \in {UpdateRt(j[2], s)} :
         /\ tab' = [tab EXCEPT ![j[2]] = t]
         /\ chan' = IF RoutesChanged(j[2], j[1], t)
                    THEN SendDv(j[2], t, Take(j[1], j[2], i))
                    ELSE Take(j[1], j[2], i)
    BY <1>6 DEF RecvDv
  <2> DEFINE s == Stored(j[2], j[1], chan[<<j[1], j[2]>>][i])
             t == UpdateRt(j[2], s)
  <2>2. /\ j[1] \in Node /\ j[2] \in Node /\ j = <<j[1], j[2]>>
        /\ j # <<m, n>> /\ j # <<n, m>>
    <3>1. j[1] \in Node /\ j[2] \in Node /\ j = <<j[1], j[2]>>
      BY LinkEnds
    <3>2. chan[<<j[1], j[2]>>] # <<>>
      BY <2>1
    <3> QED
      BY <1>2, <3>1, <3>2
  <2>3. t.online = s.online /\ s.online \subseteq tab[j[2]].online \cup {j[1]}
    BY <1>2, <2>2 DEF UpdateRt, Stored, ReadVector, AddNeighbour, Table
  <2>4. /\ tab' = [tab EXCEPT ![j[2]] = t]
        /\ chan' \in {SendDv(j[2], t, Take(j[1], j[2], i)), Take(j[1], j[2], i)}
    BY <2>1
  <2> HIDE DEF s, t
  <2>5. (j[2] = n => m \notin t.online) /\ (j[2] = m => n \notin t.online)
    BY <1>1, <1>2, <2>2, <2>3
  <2>6. m \notin tab'[n].online /\ n \notin tab'[m].online
    BY <1>1, <1>2, <2>2, <2>4, <2>5
  <2>7. chan'[<<m, n>>] = <<>> /\ chan'[<<n, m>>] = <<>>
    <3> DEFINE ch == Take(j[1], j[2], i)
    <3>1. ch[<<m, n>>] = <<>> /\ ch[<<n, m>>] = <<>>
      BY <1>5
    <3>2. chan' \in {SendDv(j[2], t, ch), ch}
      BY <2>4
    <3> HIDE DEF ch
    <3>3. j[2] \in Node
      BY <2>2
    <3>4. SendDv(j[2], t, ch)[<<m, n>>] = <<>> /\ SendDv(j[2], t, ch)[<<n, m>>] = <<>>
      BY <1>1, <2>5, <3>1, <3>3 DEF SendDv
    <3> QED
      BY <3>1, <3>2, <3>4
  <2> QED
    BY <2>6, <2>7
<1>7. ASSUME NEW j \in Link, DiscardDv(j[1], j[2]) \/ Lose(j[1], j[2])
      PROVE  Apart(tab', chan')
  <2>1. UNCHANGED tab /\ \E i \in DOMAIN chan[<<j[1], j[2]>>] : chan' = Take(j[1], j[2], i)
    BY <1>7 DEF DiscardDv, Lose
  <2> QED
    BY <1>2, <1>5, <2>1
<1>8. ASSUME NEW j \in Link, LinkFail(j[1], j[2])
      PROVE  Apart(tab', chan')
  <2>1. /\ UNCHANGED tab
        /\ chan' = [chan EXCEPT ![<<j[1], j[2]>>] = <<>>, ![<<j[2], j[1]>>] = <<>>]
    BY <1>8 DEF LinkFail
  <2> QED
    BY <1>1, <1>2, <2>1 DEF Queues
<1>9. ASSUME NEW k \in Node, HeartBeat(k)
      PROVE  Apart(tab', chan')
  <2>1. UNCHANGED tab /\ chan' = SendDv(k, tab[k], chan)
    BY <1>9 DEF HeartBeat
  <2> QED
    BY <1>2, <1>4, <2>1
<1>10. ASSUME NEW k \in Node, DropCheck(k)
       PROVE  Apart(tab', chan')
  <2> DEFINE t == UpdateRt(k, DropNeighbours(tab[k], tab[k].online \cap silent[k]))
  <2>1. tab' = [tab EXCEPT ![k] = t] /\ chan' = SendDv(k, t, chan)
    BY <1>10 DEF DropCheck
  <2>2. t.online \subseteq tab[k].online
    BY <1>2 DEF UpdateRt, DropNeighbours, Table
  <2> HIDE DEF t
  <2> QED
    BY <1>1, <1>2, <1>4, <2>1, <2>2
<1>11. ASSUME NEW k \in Node, Wake(k)
       PROVE  Apart(tab', chan')
  <2>1. k # m /\ k # n
    BY <1>3, <1>11
  <2>2. tab' = [tab EXCEPT ![k] = LoadLinks(k)] /\ chan' = SendDv(k, LoadLinks(k), chan)
    BY <1>11 DEF Wake
  <2> QED
    BY <1>1, <1>2, <1>4, <2>1, <2>2
<1>12. ASSUME NEW k \in Node, NEW d \in Hop, DropCommand(k, d)
       PROVE  Apart(tab', chan')
  <2>1. tab' = [tab EXCEPT ![k] = DropNeighbours(tab[k], {d})] /\ UNCHANGED chan
    BY <1>2, <1>12 DEF DropCommand
  <2>2. DropNeighbours(tab[k], {d}).online \subseteq tab[k].online
    BY <1>2 DEF DropNeighbours, Table
  <2> QED
    BY <1>1, <1>2, <2>1, <2>2
<1>13. ASSUME UNCHANGED <<tab, chan>>
       PROVE  Apart(tab', chan')
  BY <1>2, <1>13
<1> QED
  BY <1>6, <1>7, <1>8, <1>9, <1>10, <1>11, <1>12, <1>13
     DEF Next, vars, FallSilent, SeemSilent, LinkRepair, Sleep

(* What router_heal finds on one link is so in every network: neighbours   *)
(* that have dropped each other stay apart until one of them is restarted. *)
THEOREM EstrangementLasts == Spec => EstrangedStay
<1>1. RouterInv /\ [Next]_vars =>
        [\A l \in Link : Estranged(l[1], l[2]) =>
           Estranged(l[1], l[2])' \/ Wake(l[1]) \/ Wake(l[2])]_vars
  BY EstrangedNext
<1>2. Spec => [][\A l \in Link : Estranged(l[1], l[2]) =>
                   Estranged(l[1], l[2])' \/ Wake(l[1]) \/ Wake(l[2])]_vars
  BY <1>1, RouterCorrect, PTL DEF Spec
<1> QED
  BY <1>2 DEF EstrangedStay

-----------------------------------------------------------------------------
(* Distances of a node nobody hears of any more.                           *)

(* Based on a rumour of now, and longer than one.                          *)
Old(x, d)   == Exists(d) => \E o \in Rumours(x) : o <= d
Grown(x, d) == Exists(d) => \E o \in Rumours(x) : o < d

(* What becomes of the table of another node.                              *)
TableGrows(x, n, t) ==
  /\ Old(x, t.dist[x])
  /\ \A v \in Node \ {x} : t.dv[v][x] = tab[n].dv[v][x] \/ Grown(x, t.dv[v][x])

QueuesGrow(x, ch) ==
  \A l \in Link : l[1] # x => \A k \in DOMAIN ch[l] : Old(x, ch[l][k].dist[x])

LEMMA RumourTypes ==
  ASSUME RouterInv, NEW x \in Node
  PROVE  /\ Rumours(x) \subseteq Nat
         /\ \A n \in Node \ {x} : \A d \in {tab[n].dist[x]} : Exists(d) => d \in Rumours(x)
         /\ \A n \in Node \ {x} : \A v \in Node \ {x} :
              Exists(tab[n].dv[v][x]) => tab[n].dv[v][x] \in Rumours(x)
         /\ \A l \in Link : l[1] # x => \A k \in DOMAIN chan[l] :
              Exists(chan[l][k].dist[x]) => chan[l][k].dist[x] \in Rumours(x)
<1>t. tab \in [Node -> Table] /\ chan \in Queues
  BY TablesCoherent
<1>1. \A n \in Node, v \in Node : tab[n].dist[x] \in Dist /\ tab[n].dv[v][x] \in Dist
  BY <1>t DEF Table
<1>2. \A l \in Link : \A k \in DOMAIN chan[l] : chan[l][k].dist[x] \in Dist
  <2> SUFFICES ASSUME NEW l \in Link, NEW k \in DOMAIN chan[l]
               PROVE  chan[l][k].dist[x] \in Dist
    OBVIOUS
  <2>1. chan[l] \in Seq(Vector)
    BY <1>t DEF Queues
  <2>2. chan[l][k] \in Vector
    BY <2>1
  <2> QED
    BY <2>2 DEF Vector
<1>3. Rumours(x) \subseteq Nat
  BY <1>1, <1>2 DEF Rumours, Dist, Exists, None
<1>4. \A n \in Node \ {x} : Exists(tab[n].dist[x]) => tab[n].dist[x] \in Rumours(x)
  BY DEF Rumours
<1>5. \A n \in Node \ {x} : \A v \in Node \ {x} :
        Exists(tab[n].dv[v][x]) => tab[n].dv[v][x] \in Rumours(x)
  BY DEF Rumours
<1>6. \A l \in Link : l[1] # x => \A k \in DOMAIN chan[l] :
        Exists(chan[l][k].dist[x]) => chan[l][k].dist[x] \in Rumours(x)
  <2> SUFFICES ASSUME NEW l \in Link, l[1] # x, NEW k \in DOMAIN chan[l],
                      Exists(chan[l][k].dist[x])
               PROVE  chan[l][k].dist[x] \in Rumours(x)
    OBVIOUS
  <2>1. l \in {j \in Link : j[1] # x}
    OBVIOUS
  <2>2. chan[l][k].dist[x] \in UNION {{chan[j][i].dist[x] : i \in DOMAIN chan[j]} :
                                        j \in {y \in Link : y[1] # x}}
    BY <2>1
  <2> QED
    BY <2>2 DEF Rumours
<1> QED
  BY <1>3, <1>4, <1>5, <1>6

(* What is told already is old.                                            *)
LEMMA RumoursAreOld ==
  ASSUME RouterInv, NEW x \in Node
  PROVE  /\ \A n \in Node \ {x} : TableGrows(x, n, tab[n])
         /\ QueuesGrow(x, chan)
<1>1. \A d \in Rumours(x) : d <= d
  BY RumourTypes
<1> QED
  BY <1>1, RumourTypes DEF TableGrows, QueuesGrow, Old

(* A table that grows and no direct link to x: update_rt and send_dv only  *)
(* repeat what it says.                                                    *)
LEMMA UpdateRtGrows ==
  ASSUME RouterInv, NEW x \in Node, NEW n \in Node \ {x}, NEW t,
         Coherent(n, t), x \notin t.online, TableGrows(x, n, t)
  PROVE  TableGrows(x, n, UpdateRt(n, t))
<1> DEFINE u == UpdateRt(n, t)
<1>0. t \in Table /\ t.online \subseteq Node
  BY DEF Coherent, Linked
<1>1. u.dv = t.dv /\ u.dist[x] \in {t.dist[x], BestDist(n, t, x)}
  BY <1>0 DEF UpdateRt, Table
<1> HIDE DEF u
<1>2. \A v \in Node \ {x} : Old(x, t.dv[v][x])
  <2> SUFFICES ASSUME NEW v \in Node \ {x}, Exists(t.dv[v][x])
               PROVE  \E o \in Rumours(x) : o <= t.dv[v][x]
    BY DEF Old
  <2>1. Rumours(x) \subseteq Nat /\ t.dv[v][x] \in Dist
    BY <1>0, RumourTypes DEF Table
  <2>2. CASE t.dv[v][x] = tab[n].dv[v][x]
    <3>1. t.dv[v][x] \in Rumours(x)
      BY <2>2, RumourTypes
    <3> QED
      BY <2>1, <3>1
  <2>3. CASE \E o \in Rumours(x) : o < t.dv[v][x]
    BY <2>1, <2>3 DEF Dist, None
  <2> QED
    BY <2>2, <2>3 DEF TableGrows, Grown
<1>3. Old(x, BestDist(n, t, x))
  <2>1. CASE Offers(n, t, x) = {}
    BY <2>1 DEF BestDist, Old, Exists, None
  <2>2. CASE Offers(n, t, x) # {}
    <3>1. BestDist(n, t, x) \in Offers(n, t, x)
      BY <2>2, BestDistIsBest DEF IsBest
    <3>2. \E v \in t.online : BestDist(n, t, x) = t.dv[v][x]
      BY <3>1 DEF Offers
    <3> QED
      BY <1>0, <1>2, <3>2
  <2> QED
    BY <2>1, <2>2
<1>4. TableGrows(x, n, u)
  BY <1>1, <1>3 DEF TableGrows
<1> QED
  BY <1>4 DEF u

LEMMA SendDvGrows ==
  ASSUME RouterInv, NEW x \in Node, NEW n \in Node, NEW t \in Table,
         n # x => TableGrows(x, n, t), NEW ch \in Queues, QueuesGrow(x, ch)
  PROVE  QueuesGrow(x, SendDv(n, t, ch))
<1> SUFFICES ASSUME NEW l \in Link, l[1] # x, NEW k \in DOMAIN SendDv(n, t, ch)[l]
             PROVE  Old(x, SendDv(n, t, ch)[l][k].dist[x])
  BY DEF QueuesGrow
<1>1. CASE \E j \in DOMAIN ch[l] : SendDv(n, t, ch)[l][k] = ch[l][j]
  BY <1>1 DEF QueuesGrow
<1>2. CASE l[1] = n /\ SendDv(n, t, ch)[l][k] = VectorOf(t)
  BY <1>2 DEF TableGrows, VectorOf
<1> QED
  BY <1>1, <1>2, SendDvElements

LEMMA TakeGrows ==
  ASSUME RouterInv, NEW x \in Node, NEW l \in Link, NEW k \in DOMAIN chan[<<l[1], l[2]>>]
  PROVE  QueuesGrow(x, Take(l[1], l[2], k)) /\ Take(l[1], l[2], k) \in Queues
<1>1. /\ <<l[1], l[2]>> \in Link /\ l[1] \in Node /\ l[2] \in Node
      /\ chan \in Queues /\ QueuesGrow(x, chan)
  BY LinkEnds, TablesCoherent, RumoursAreOld
<1>2. ASSUME NEW j \in Link, j[1] # x, NEW i \in DOMAIN Take(l[1], l[2], k)[j]
      PROVE  Old(x, Take(l[1], l[2], k)[j][i].dist[x])
  <2>1. \E y \in DOMAIN chan[j] : Take(l[1], l[2], k)[j][i] = chan[j][y]
    BY <1>1, TakeElements
  <2> QED
    BY <1>1, <1>2, <2>1 DEF QueuesGrow
<1> QED
  BY <1>1, <1>2, TakeType DEF QueuesGrow

LEMMA RecvDvGrows ==
  ASSUME PositiveCosts, RouterInv, NEW x \in Node, Forgotten(x),
         NEW j \in Link, RecvDv(j[1], j[2])
  PROVE  (\A n \in Node \ {x} : TableGrows(x, n, tab'[n])) /\ QueuesGrow(x, chan')
<1> DEFINE m == j[1]
           n == j[2]
<1>1. /\ m \in Node /\ n \in Node /\ j = <<m, n>> /\ m \in Linked(n)
  BY LinkEnds
<1> HIDE DEF m, n
<1>2. PICK k \in DOMAIN chan[<<m, n>>] :
      \E s \in {Stored(n, m, chan[<<m, n>>][k])} :
      \E t \in {UpdateRt(n, s)} :
       /\ tab' = [tab EXCEPT ![n] = t]
       /\ chan' = IF RoutesChanged(n, m, t)
                  THEN SendDv(n, t, Take(m, n, k))
                  ELSE Take(m, n, k)
  BY DEF RecvDv, m, n
<1> DEFINE vec   == chan[<<m, n>>][k]
           added == AddNeighbour(n, tab[n], m)
           s     == ReadVector(n, added, m, vec)
           t     == UpdateRt(n, s)
<1>3. /\ tab' = [tab EXCEPT ![n] = t]
      /\ chan' \in {SendDv(n, t, Take(m, n, k)), Take(m, n, k)}
  BY <1>2 DEF Stored
<1>4. /\ tab \in [Node -> Table] /\ vec \in Vector /\ Coherent(n, tab[n])
      /\ \A i \in Node \ {x} : TableGrows(x, i, tab[i])
      /\ QueuesGrow(x, chan)
  BY <1>1, TablesCoherent, RumoursAreOld DEF Queues
<1>5. Take(m, n, k) \in Queues /\ QueuesGrow(x, Take(m, n, k))
  BY <1>1, TakeGrows DEF m, n
<1>6. Coherent(n, added)
  BY <1>1, <1>4, AddNeighbourCoherent
<1>7. Coherent(n, s)
  <2> HIDE DEF added, vec
  <2> QED
    BY <1>1, <1>4, <1>6, ReadVectorCoherent
<1>8. Coherent(n, t)
  <2> HIDE DEF s
  <2> QED
    BY <1>1, <1>7, UpdateRtCoherent
<1>9. ASSUME n # x
      PROVE  TableGrows(x, n, t)
  <2>1. m # x
    <3>1. m = x => n \in Linked(x)
      BY <1>1, CostAssumption DEF Linked
    <3>2. chan[<<m, n>>] # <<>>
      BY <1>2
    <3> QED
      BY <3>1, <3>2 DEF Forgotten
  <2>2. x \notin tab[n].online
    <3>1. x \in Linked(n) => n \in Linked(x)
      BY <1>1, CostAssumption DEF Linked
    <3> QED
      BY <1>4, <3>1 DEF Forgotten, Coherent
  <2>3. /\ added.dist[x] = tab[n].dist[x] /\ added.dv = tab[n].dv
        /\ added.online \subseteq tab[n].online \cup {m}
    BY <1>1, <1>4, <2>1 DEF AddNeighbour, Table
  <2>4. /\ s.dist[x] = tab[n].dist[x] /\ s.online \subseteq tab[n].online \cup {m}
        /\ \A v \in Node : \/ s.dv[v][x] = tab[n].dv[v][x]
                           \/ v = m /\ s.dv[v][x] = Through(vec.dist[x], Cost[n][m])
    <3>1. added \in Table
      BY <1>6 DEF Coherent
    <3> HIDE DEF added, vec
    <3> QED
      BY <1>1, <2>3, <3>1 DEF ReadVector, Table
  <2>5. Grown(x, Through(vec.dist[x], Cost[n][m]))
    <3> SUFFICES ASSUME Exists(Through(vec.dist[x], Cost[n][m]))
                 PROVE  \E o \in Rumours(x) : o < Through(vec.dist[x], Cost[n][m])
      BY DEF Grown
    <3>1. Exists(vec.dist[x]) /\ Through(vec.dist[x], Cost[n][m]) = vec.dist[x] + Cost[n][m]
      BY DEF Through, Exists, None
    <3>2. vec.dist[x] \in Rumours(x)
      <4>1. <<m, n>> \in Link /\ <<m, n>>[1] = m
        BY <1>1
      <4> QED
        BY <2>1, <3>1, <4>1, RumourTypes
    <3>3. vec.dist[x] \in Nat /\ Cost[n][m] \in Nat /\ Cost[n][m] > 0
      BY <1>1, <3>2, RumourTypes, CostType DEF PositiveCosts, Linked
    <3>4. vec.dist[x] < vec.dist[x] + Cost[n][m]
      BY <3>3
    <3> QED
      BY <3>1, <3>2, <3>4
  <2>6. TableGrows(x, n, s)
    <3> HIDE DEF s, vec
    <3> QED
      BY <1>1, <1>4, <1>9, <2>4, <2>5 DEF TableGrows
  <2>7. x \notin s.online
    BY <2>1, <2>2, <2>4
  <2> HIDE DEF s
  <2> QED
    BY <1>1, <1>7, <1>9, <2>6, <2>7, UpdateRtGrows
<1> HIDE DEF t
<1>10. QueuesGrow(x, SendDv(n, t, Take(m, n, k)))
  BY <1>1, <1>5, <1>8, <1>9, SendDvGrows DEF Coherent
<1>11. \A i \in Node \ {x} : TableGrows(x, i, tab'[i])
  BY <1>1, <1>3, <1>4, <1>9
<1> QED
  BY <1>3, <1>5, <1>10, <1>11

LEMMA GrowNext ==
  ASSUME PositiveCosts, RouterInv, [Next]_vars, NEW x \in Node, Forgotten(x), Forgotten(x)'
  PROVE  (\A n \in Node \ {x} : TableGrows(x, n, tab'[n])) /\ QueuesGrow(x, chan')
<1> DEFINE Grow == (\A n \in Node \ {x} : TableGrows(x, n, tab'[n])) /\ QueuesGrow(x, chan')
<1>t. /\ tab \in [Node -> Table] /\ chan \in Queues
      /\ \A n \in Node : Coherent(n, tab[n])
      /\ \A n \in Node \ {x} : TableGrows(x, n, tab[n])
      /\ QueuesGrow(x, chan)
  BY TablesCoherent, RumoursAreOld
<1>f. ASSUME NEW n \in Node \ {x}
      PROVE  x \notin tab[n].online
  <2>1. x \in Linked(n) => n \in Linked(x)
    BY CostAssumption DEF Linked
  <2> QED
    BY <1>t, <2>1 DEF Forgotten, Coherent
<1>1. ASSUME NEW j \in Link, RecvDv(j[1], j[2])
      PROVE  Grow
  BY <1>1, RecvDvGrows
<1>2. ASSUME NEW j \in Link, DiscardDv(j[1], j[2]) \/ Lose(j[1], j[2])
      PROVE  Grow
  <2>1. UNCHANGED tab /\ \E i \in DOMAIN chan[<<j[1], j[2]>>] : chan' = Take(j[1], j[2], i)
    BY <1>2 DEF DiscardDv, Lose
  <2>2. PICK i \in DOMAIN chan[<<j[1], j[2]>>] : chan' = Take(j[1], j[2], i)
    BY <2>1
  <2>3. QueuesGrow(x, Take(j[1], j[2], i))
    BY TakeGrows
  <2>4. QueuesGrow(x, chan')
    BY <2>2, <2>3
  <2>5. tab' = tab
    BY <2>1
  <2> QED
    BY <1>t, <2>4, <2>5
<1>3. ASSUME NEW j \in Link, LinkFail(j[1], j[2])
      PROVE  Grow
  <2>1. /\ UNCHANGED tab
        /\ chan' = [chan EXCEPT ![<<j[1], j[2]>>] = <<>>, ![<<j[2], j[1]>>] = <<>>]
    BY <1>3 DEF LinkFail
  <2>2. \A l \in Link : chan'[l] = chan[l] \/ chan'[l] = <<>>
    BY <1>t, <2>1 DEF Queues
  <2>3. \A l \in Link : \A i \in DOMAIN chan'[l] : i \in DOMAIN chan[l] /\ chan'[l][i] = chan[l][i]
    BY <2>2
  <2>4. QueuesGrow(x, chan')
    BY <1>t, <2>3 DEF QueuesGrow
  <2> QED
    BY <1>t, <2>1, <2>4
<1>4. ASSUME NEW n \in Node, HeartBeat(n)
      PROVE  Grow
  <2>1. UNCHANGED tab /\ chan' = SendDv(n, tab[n], chan)
    BY <1>4 DEF HeartBeat
  <2>2. QueuesGrow(x, chan')
    BY <1>t, <2>1, SendDvGrows
  <2> QED
    BY <1>t, <2>1, <2>2
<1>5. ASSUME NEW n \in Node, DropCheck(n)
      PROVE  Grow
  <2> DEFINE D       == tab[n].online \cap silent[n]
             dropped == DropNeighbours(tab[n], D)
             t       == UpdateRt(n, dropped)
  <2>1. tab' = [tab EXCEPT ![n] = t] /\ chan' = SendDv(n, t, chan)
    BY <1>5 DEF DropCheck
  <2>2. Coherent(n, dropped)
    <3>1. D \in SUBSET Hop
      BY <1>t DEF Table, Hop
    <3> QED
      BY <1>t, <3>1, DropNeighboursCoherent
  <2>3. /\ dropped.dv = tab[n].dv /\ dropped.online \subseteq tab[n].online
        /\ dropped.dist[x] = tab[n].dist[x] \/ dropped.dist[x] = None
    BY <1>t DEF DropNeighbours, Table
  <2> HIDE DEF dropped
  <2>4. n # x => TableGrows(x, n, dropped)
    BY <1>t, <2>3 DEF TableGrows, Old, Exists, None
  <2>5. Coherent(n, t)
    BY <2>2, UpdateRtCoherent
  <2>6. n # x => TableGrows(x, n, t)
    BY <1>f, <2>2, <2>3, <2>4, UpdateRtGrows
  <2> HIDE DEF t
  <2>7. QueuesGrow(x, chan')
    BY <1>t, <2>1, <2>5, <2>6, SendDvGrows DEF Coherent
  <2> QED
    BY <1>t, <2>1, <2>6, <2>7
<1>6. ASSUME NEW n \in Node, Wake(n)
      PROVE  Grow
  <2> DEFINE t == LoadLinks(n)
  <2>1. tab' = [tab EXCEPT ![n] = t] /\ chan' = SendDv(n, t, chan)
    BY <1>6 DEF Wake
  <2>2. t \in Table
    BY LoadLinksCoherent DEF Coherent
  <2>3. ASSUME n # x
        PROVE  TableGrows(x, n, t)
    <3>1. n \notin Linked(x)
      <4>1. t.online = Linked(n) /\ tab'[n] = t
        BY <1>t, <2>1 DEF LoadLinks
      <4>2. n \in Linked(x) => x \in Linked(n)
        BY CostAssumption DEF Linked
      <4> QED
        BY <4>1, <4>2 DEF Forgotten
    <3>2. Cost[n][x] = None
      BY <2>3, <3>1, CostAssumption DEF Linked
    <3>3. t.dist[x] = None /\ \A v \in Node : t.dv[v][x] = None
      BY <2>3, <3>2 DEF LoadLinks
    <3> HIDE DEF t
    <3> QED
      BY <3>3 DEF TableGrows, Old, Grown, Exists, None
  <2> HIDE DEF t
  <2>4. QueuesGrow(x, chan')
    BY <1>t, <2>1, <2>2, <2>3, SendDvGrows
  <2> QED
    BY <1>t, <2>1, <2>3, <2>4
<1>7. ASSUME NEW n \in Node, NEW d \in Hop, DropCommand(n, d)
      PROVE  Grow
  <2> DEFINE t == DropNeighbours(tab[n], {d})
  <2>1. tab' = [tab EXCEPT ![n] = t] /\ UNCHANGED chan
    BY <1>t, <1>7 DEF DropCommand
  <2>2. /\ t.dv = tab[n].dv
        /\ t.dist[x] = tab[n].dist[x] \/ t.dist[x] = None
    BY <1>t DEF DropNeighbours, Table
  <2> HIDE DEF t
  <2>3. n # x => TableGrows(x, n, t)
    BY <1>t, <2>2 DEF TableGrows, Old, Exists, None
  <2> QED
    BY <1>t, <2>1, <2>3
<1>8. ASSUME UNCHANGED <<tab, chan>>
      PROVE  Grow
  BY <1>t, <1>8
<1> QED
  BY <1>1, <1>2, <1>3, <1>4, <1>5, <1>6, <1>7, <1>8
     DEF Next, vars, FallSilent, SeemSilent, LinkRepair, Sleep

RumourGrowth(x) ==
  /\ \A d \in Rumours(x)' : \E o \in Rumours(x) : o <= d
  /\ \A n \in Node \ {x} : \A v \in Node \ {x} :
       LET d == tab'[n].dv[v][x]
       IN  Exists(d) /\ d # tab[n].dv[v][x] => \E o \in Rumours(x) : o < d

LEMMA GrowthNext ==
  ASSUME PositiveCosts, RouterInv, [Next]_vars, NEW x \in Node, Forgotten(x), Forgotten(x)'
  PROVE  RumourGrowth(x)
<1>1. /\ \A n \in Node \ {x} : TableGrows(x, n, tab'[n])
      /\ QueuesGrow(x, chan')
  BY GrowNext
<1>2. ASSUME NEW n \in Node \ {x}, NEW v \in Node \ {x}
      PROVE  Old(x, tab'[n].dv[v][x])
  <2> SUFFICES ASSUME Exists(tab'[n].dv[v][x])
               PROVE  \E o \in Rumours(x) : o <= tab'[n].dv[v][x]
    BY DEF Old
  <2>1. Rumours(x) \subseteq Nat /\ tab'[n].dv[v][x] \in Dist
    <3>1. tab' \in [Node -> Table]
      BY RouterStep, TablesCoherent DEF RouterInv, TypeOK
    <3> QED
      BY <3>1, RumourTypes DEF Table
  <2>2. CASE tab'[n].dv[v][x] = tab[n].dv[v][x]
    <3>1. tab'[n].dv[v][x] \in Rumours(x)
      BY <2>2, RumourTypes
    <3> QED
      BY <2>1, <3>1
  <2>3. CASE \E o \in Rumours(x) : o < tab'[n].dv[v][x]
    BY <2>1, <2>3 DEF Dist, None
  <2> QED
    BY <1>1, <2>2, <2>3 DEF TableGrows, Grown
<1>3. \A d \in Rumours(x)' : \E o \in Rumours(x) : o <= d
  <2> SUFFICES ASSUME NEW d \in Rumours(x)'
               PROVE  Old(x, d) /\ Exists(d)
    BY DEF Old
  <2>1. Exists(d)
    BY DEF Rumours
  <2>2. CASE \E n \in Node \ {x} : d = tab'[n].dist[x]
    BY <1>1, <2>1, <2>2 DEF TableGrows
  <2>3. CASE \E n \in Node \ {x}, v \in Node \ {x} : d = tab'[n].dv[v][x]
    BY <1>2, <2>1, <2>3
  <2>4. CASE \E l \in Link : l[1] # x /\ \E k \in DOMAIN chan'[l] : d = chan'[l][k].dist[x]
    BY <1>1, <2>1, <2>4 DEF QueuesGrow
  <2> QED
    BY <2>2, <2>3, <2>4 DEF Rumours
<1>4. \A n \in Node \ {x} : \A v \in Node \ {x} :
        Exists(tab'[n].dv[v][x]) /\ tab'[n].dv[v][x] # tab[n].dv[v][x] =>
          \E o \in Rumours(x) : o < tab'[n].dv[v][x]
  BY <1>1 DEF TableGrows, Grown
<1> QED
  BY <1>3, <1>4 DEF RumourGrowth

(* Distances of a node that nobody hears of only grow, in every network    *)
(* without free links: recv_dv adds a cost to each it stores.  The counting *)
(* goes upwards only, to options.infinity.                                 *)
THEOREM CountingIsUpwards ==
  ASSUME PositiveCosts
  PROVE  Spec => RumoursGrow
<1>1. RouterInv /\ [Next]_vars =>
        [\A x \in Node : Forgotten(x) /\ Forgotten(x)' => RumourGrowth(x)]_vars
  BY GrowthNext
<1>2. Spec => [][\A x \in Node : Forgotten(x) /\ Forgotten(x)' => RumourGrowth(x)]_vars
  BY <1>1, RouterCorrect, PTL DEF Spec
<1> QED
  BY <1>2 DEF RumoursGrow, RumourGrowth

=============================================================================
