---------------------------- MODULE RouterProofs ----------------------------
(***************************************************************************)
(* Theorems about Router, for any network and any number of faults.        *)
(***************************************************************************)
EXTENDS Router, SequenceTheorems, WellFoundedInduction, TLAPS

(* A non-empty set of naturals has a smallest element, and Min is it.      *)
LEMMA MinOfNaturals ==
  ASSUME NEW S \in SUBSET Nat, S # {}
  PROVE  Min(S) \in S /\ \A y \in S : Min(S) <= y
<1> DEFINE Less == {ss \in Nat \X Nat : ss[1] < ss[2]}
<1>1. IsWellFoundedOn(Less, Nat)
  BY NatLessThanWellFounded DEF OpToRel
<1>2. PICK m \in S : \A y \in S : <<y, m>> \notin Less
  BY <1>1, WFMin
<1>3. \A y \in S : m <= y
  <2> TAKE y \in S
  <2>1. m \in Nat /\ y \in Nat
    OBVIOUS
  <2>2. ~ (y < m)
    BY <1>2, <2>1
  <2> QED
    BY <2>1, <2>2
<1> QED
  BY <1>3 DEF Min

-----------------------------------------------------------------------------
(* What is said of a table at rest between two operations.                 *)
Coherent(n, t) ==
  /\ t \in Table
  /\ BelowInfinity(n, t)
  /\ t.online \subseteq Linked(n)
  /\ KnowsAll(n, t)
  /\ HopsAlive(n, t)

LEMMA CostType ==
  ASSUME NEW a \in Node, NEW b \in Node
  PROVE  /\ Cost[a][b] \in Nat \cup {None}
         /\ Cost[a] \in [Node -> Nat \cup {None}]
         /\ Cost[a][a] = 0
         /\ b \in Linked(a) => Cost[a][b] \in Nat
BY CostAssumption DEF Linked, None

LEMMA LoadLinksCoherent ==
  ASSUME NEW n \in Node
  PROVE  Coherent(n, LoadLinks(n)) /\ HoldsBest(n, LoadLinks(n))
<1> DEFINE t == LoadLinks(n)
<1>1. /\ t.online = Linked(n)
      /\ t.via = [m \in Node |-> IF m \in Linked(n) THEN m ELSE None]
      /\ t.dist = Cost[n]
      /\ t.dv = [v \in Node |-> [m \in Node |-> IF v = n /\ m = n THEN 0 ELSE None]]
      /\ t.known = UpTo(Linked(n) \cup {n})
  BY DEF LoadLinks
<1>2. t \in Table
  BY CostType DEF LoadLinks, Table, Linked, UpTo, Hop, Dist
<1> HIDE DEF t
<1>3. Linked(n) \cup {n} \subseteq t.known
  <2>1. \A m \in Node : m <= m
    BY DEF Node
  <2> QED
    BY <1>1, <2>1 DEF UpTo, Linked
<1>4. BelowInfinity(n, t)
  BY <1>1, InfinityAssumption DEF BelowInfinity, None
<1>5. KnowsAll(n, t)
  BY <1>1, <1>3 DEF KnowsAll, Linked
<1>6. HopsAlive(n, t)
  <2> SUFFICES ASSUME NEW to \in Node \ {n}
               PROVE  /\ t.via[to] # None => t.via[to] \in t.online
                      /\ Exists(t.dist[to]) <=> t.via[to] # None
    BY DEF HopsAlive
  <2>1. to \in Linked(n) => to # None
    BY DEF None, Node
  <2>2. to \in Linked(n) <=> Cost[n][to] # None
    BY DEF Linked
  <2>3. Exists(Cost[n][to]) <=> Cost[n][to] # None
    BY CostType DEF Exists, None
  <2> QED
    BY <1>1, <2>1, <2>2, <2>3
<1>7. HoldsBest(n, t)
  <2> SUFFICES ASSUME NEW to \in Node \ {n}
               PROVE  IsBest(t.dist[to], Offers(n, t, to))
    BY DEF HoldsBest
  <2>1. \A v \in t.online : t.dv[v][to] = None
    BY <1>1 DEF Linked
  <2>2. Offers(n, t, to) = IF to \in Linked(n) THEN {Cost[n][to]} ELSE {}
    BY <1>1, <2>1 DEF Offers, Exists, None
  <2>3. CASE to \in Linked(n)
    <3>1. t.dist[to] = Cost[n][to] /\ Cost[n][to] \in Nat
      BY <1>1, <2>3, CostType
    <3> QED
      BY <2>2, <2>3, <3>1 DEF IsBest
  <2>4. CASE to \notin Linked(n)
    BY <1>1, <2>2, <2>4 DEF IsBest, Linked
  <2> QED
    BY <2>3, <2>4
<1> QED
  BY <1>1, <1>2, <1>4, <1>5, <1>6, <1>7 DEF Coherent, t

LEMMA AddNeighbourCoherent ==
  ASSUME NEW n \in Node, NEW m \in Linked(n), NEW t, Coherent(n, t)
  PROVE  Coherent(n, AddNeighbour(n, t, m))
<1> DEFINE u == AddNeighbour(n, t, m)
<1>1. CASE m \in t.online
  BY <1>1 DEF AddNeighbour
<1>2. CASE m \notin t.online
  <2>0. /\ m \in Node /\ m # n /\ Cost[n][m] \in Nat
        /\ t \in Table
    BY CostType DEF Linked, Coherent
  <2>1. u = [t EXCEPT !.online = @ \cup {m}, !.via[m] = m, !.dist[m] = Cost[n][m]]
    BY <1>2, <2>0 DEF AddNeighbour, None
  <2> HIDE DEF u
  <2>2. /\ u.online = t.online \cup {m}
        /\ u.via = [t.via EXCEPT ![m] = m]
        /\ u.dist = [t.dist EXCEPT ![m] = Cost[n][m]]
        /\ u.dv = t.dv
        /\ u.known = t.known
    BY <2>0, <2>1 DEF Table
  <2>3. u \in Table
    BY <2>0, <2>1 DEF Table, Hop, Dist
  <2>4. BelowInfinity(n, u)
    BY <2>2 DEF Coherent, BelowInfinity
  <2>5. KnowsAll(n, u)
    BY <2>0, <2>2 DEF Coherent, KnowsAll, Table
  <2>6. HopsAlive(n, u)
    <3> SUFFICES ASSUME NEW to \in Node \ {n}
                 PROVE  /\ u.via[to] # None => u.via[to] \in u.online
                        /\ Exists(u.dist[to]) <=> u.via[to] # None
      BY DEF HopsAlive
    <3>1. CASE to = m
      <4>1. u.via[to] = m /\ u.dist[to] = Cost[n][m]
        BY <2>0, <2>2, <3>1 DEF Table
      <4> QED
        BY <2>0, <2>2, <4>1 DEF Exists, None, Node
    <3>2. CASE to # m
      <4>1. u.via[to] = t.via[to] /\ u.dist[to] = t.dist[to]
        BY <2>0, <2>2, <3>2 DEF Table
      <4> QED
        BY <2>2, <4>1 DEF Coherent, HopsAlive
    <3> QED
      BY <3>1, <3>2
  <2> QED
    BY <2>2, <2>3, <2>4, <2>5, <2>6 DEF Coherent, u
<1> QED
  BY <1>1, <1>2

LEMMA ReadVectorCoherent ==
  ASSUME NEW n \in Node, NEW m \in Linked(n), NEW t, Coherent(n, t),
         NEW vec \in Vector
  PROVE  Coherent(n, ReadVector(n, t, m, vec))
<1> DEFINE row == [to \in Node |-> IF to \in vec.known
                                   THEN Through(vec.dist[to], Cost[n][m])
                                   ELSE t.dv[m][to]]
           u == ReadVector(n, t, m, vec)
<1>0. /\ m \in Node /\ m # n /\ Cost[n][m] \in Nat
      /\ t \in Table
  BY CostType DEF Linked, Coherent
<1>1. \A d \in Dist : /\ Through(d, Cost[n][m]) \in Dist
                      /\ Through(d, Cost[n][m]) < Infinity
  BY <1>0, InfinityAssumption DEF Through, Dist, Exists, None
<1>2. row \in [Node -> Dist] /\ \A to \in Node : row[to] < Infinity
  <2>1. \A to \in Node : vec.dist[to] \in Dist /\ t.dv[m][to] \in Dist
    BY <1>0 DEF Vector, Table
  <2>2. \A to \in Node : t.dv[m][to] < Infinity
    BY <1>0 DEF Coherent, BelowInfinity
  <2> QED
    BY <1>1, <2>1, <2>2
<1>3. u = [t EXCEPT !.dv[m] = row, !.known = @ \cup vec.known]
  BY <1>0 DEF ReadVector, Table
<1>r. \A to \in Node : to \notin vec.known => row[to] = t.dv[m][to]
  OBVIOUS
<1> HIDE DEF u, row
<1>4. /\ u.online = t.online /\ u.via = t.via /\ u.dist = t.dist
      /\ u.dv = [t.dv EXCEPT ![m] = row]
      /\ u.known = t.known \cup vec.known
  BY <1>0, <1>3 DEF Table
<1>5. u \in Table
  BY <1>0, <1>2, <1>3 DEF Table, Vector
<1>6. BelowInfinity(n, u)
  BY <1>0, <1>2, <1>4 DEF Coherent, BelowInfinity, Table
<1>7. KnowsAll(n, u)
  BY <1>0, <1>r, <1>4 DEF Coherent, KnowsAll, Table
<1>8. HopsAlive(n, u)
  BY <1>4 DEF Coherent, HopsAlive
<1> QED
  BY <1>4, <1>5, <1>6, <1>7, <1>8 DEF Coherent, u

LEMMA DropNeighboursCoherent ==
  ASSUME NEW n \in Node, NEW D \in SUBSET Hop, NEW t, Coherent(n, t)
  PROVE  Coherent(n, DropNeighbours(t, D))
<1> DEFINE erased == {to \in Node : to \in D \/ t.via[to] \in D}
           u == DropNeighbours(t, D)
<1>0. t \in Table
  BY DEF Coherent
<1>1. u = [t EXCEPT !.online = @ \ D,
                    !.via   = [to \in Node |-> IF to \in erased THEN None ELSE t.via[to]],
                    !.dist  = [to \in Node |-> IF to \in erased THEN None ELSE t.dist[to]],
                    !.known = @ \cup UpTo(D)]
  BY <1>0 DEF DropNeighbours, Table
<1> HIDE DEF u
<1>2. /\ u.online = t.online \ D
      /\ u.via = [to \in Node |-> IF to \in erased THEN None ELSE t.via[to]]
      /\ u.dist = [to \in Node |-> IF to \in erased THEN None ELSE t.dist[to]]
      /\ u.dv = t.dv
      /\ u.known = t.known \cup UpTo(D)
  BY <1>0, <1>1 DEF Table
<1>3. u \in Table
  BY <1>0, <1>1 DEF Table, UpTo, Hop, Dist
<1>4. BelowInfinity(n, u)
  BY <1>2 DEF Coherent, BelowInfinity
<1>5. KnowsAll(n, u)
  BY <1>0, <1>2 DEF Coherent, KnowsAll, Table
<1>6. HopsAlive(n, u)
  <2> SUFFICES ASSUME NEW to \in Node \ {n}
               PROVE  /\ u.via[to] # None => u.via[to] \in u.online
                      /\ Exists(u.dist[to]) <=> u.via[to] # None
    BY DEF HopsAlive
  <2>1. CASE to \in erased
    BY <1>2, <2>1 DEF Exists, None
  <2>2. CASE to \notin erased
    <3>1. t.via[to] \notin D
      BY <2>2
    <3> QED
      BY <1>2, <2>2, <3>1 DEF Coherent, HopsAlive
  <2> QED
    BY <2>1, <2>2
<1> QED
  BY <1>2, <1>3, <1>4, <1>5, <1>6 DEF Coherent, u

-----------------------------------------------------------------------------
(* The smallest offer is one of them, and has a next hop.                  *)
LEMMA OffersType ==
  ASSUME NEW n \in Node, NEW t, Coherent(n, t), NEW to \in Node
  PROVE  Offers(n, t, to) \in SUBSET Nat
<1>1. \A v \in t.online : t.dv[v][to] \in Dist
  BY DEF Coherent, Table
<1>2. to \in t.online => Cost[n][to] \in Nat
  BY CostType DEF Coherent
<1> QED
  BY <1>1, <1>2 DEF Offers, Exists, Dist, None

LEMMA BestDistIsBest ==
  ASSUME NEW n \in Node, NEW t, Coherent(n, t), NEW to \in Node
  PROVE  /\ IsBest(BestDist(n, t, to), Offers(n, t, to))
         /\ BestDist(n, t, to) \in Dist
         /\ BestDist(n, t, to) = None <=> Offers(n, t, to) = {}
<1>1. CASE Offers(n, t, to) = {}
  BY <1>1 DEF BestDist, IsBest, Dist
<1>2. CASE Offers(n, t, to) # {}
  <2> DEFINE S == Offers(n, t, to)
  <2>1. S \in SUBSET Nat
    BY OffersType
  <2>2. Min(S) \in S /\ \A y \in S : Min(S) <= y
    BY <1>2, <2>1, MinOfNaturals
  <2>3. BestDist(n, t, to) = Min(S)
    BY <1>2 DEF BestDist
  <2> QED
    BY <1>2, <2>1, <2>2, <2>3 DEF IsBest, Dist, None
<1> QED
  BY <1>1, <1>2

LEMMA BestViaIsNeighbour ==
  ASSUME NEW n \in Node, NEW t, Coherent(n, t), NEW to \in Node
  PROVE  /\ BestVia(n, t, to) \in Hop
         /\ BestVia(n, t, to) # None => BestVia(n, t, to) \in t.online
         /\ BestVia(n, t, to) = None <=> BestDist(n, t, to) = None
<1> DEFINE best == BestDist(n, t, to)
           via  == BestVia(n, t, to)
           ties == {v \in t.online : t.dv[v][to] = best}
<1>0. t.online \subseteq Node /\ None \notin Node
  BY DEF Coherent, Linked, None, Node
<1>1. CASE best = None
  <2>1. via = None
    BY <1>1 DEF BestVia
  <2> QED
    BY <1>1, <2>1 DEF Hop
<1>2. CASE best # None /\ to \in t.online /\ Cost[n][to] = best
  <2>1. via = to
    BY <1>2 DEF BestVia
  <2> QED
    BY <1>0, <1>2, <2>1 DEF Hop
<1>3. CASE best # None /\ ~ (to \in t.online /\ Cost[n][to] = best)
  <2>1. best \in Offers(n, t, to)
    BY <1>3, BestDistIsBest DEF IsBest
  <2>2. ties # {}
    BY <1>3, <2>1 DEF Offers
  <2>3. ties \in SUBSET Nat
    BY <1>0 DEF Node
  <2>4. Min(ties) \in ties
    BY <2>2, <2>3, MinOfNaturals
  <2>5. via = Min(ties)
    BY <1>3 DEF BestVia
  <2> QED
    BY <1>0, <1>3, <2>4, <2>5 DEF Hop
<1> QED
  BY <1>1, <1>2, <1>3

(* update_rt keeps the table coherent and leaves the best distances, those *)
(* of columns it does not visit included.                                  *)
LEMMA UpdateRtCoherent ==
  ASSUME NEW n \in Node, NEW t, Coherent(n, t)
  PROVE  Coherent(n, UpdateRt(n, t)) /\ HoldsBest(n, UpdateRt(n, t))
<1> DEFINE moved == {to \in t.known \ {n} : t.dist[to] # BestDist(n, t, to)}
           u == UpdateRt(n, t)
<1>0. t \in Table
  BY DEF Coherent
<1>1. u = [t EXCEPT
             !.dist = [to \in Node |-> IF to \in moved THEN BestDist(n, t, to) ELSE t.dist[to]],
             !.via  = [to \in Node |-> IF to \in moved THEN BestVia(n, t, to) ELSE t.via[to]]]
  BY <1>0 DEF UpdateRt, Table
<1> HIDE DEF u
<1>2. /\ u.dist = [to \in Node |-> IF to \in moved THEN BestDist(n, t, to) ELSE t.dist[to]]
      /\ u.via = [to \in Node |-> IF to \in moved THEN BestVia(n, t, to) ELSE t.via[to]]
      /\ u.online = t.online /\ u.dv = t.dv /\ u.known = t.known
  BY <1>0, <1>1 DEF Table
<1>m. moved \subseteq Node \ {n} /\ moved \subseteq t.known
  BY <1>0 DEF Table
<1>d. \A to \in Node \ {n} : to \in t.known => (to \in moved <=> t.dist[to] # BestDist(n, t, to))
  OBVIOUS
<1> HIDE DEF moved
<1>3. u \in Table
  <2>1. u.dist \in [Node -> Dist]
    BY <1>0, <1>2, BestDistIsBest DEF Table
  <2>2. u.via \in [Node -> Hop]
    BY <1>0, <1>2, BestViaIsNeighbour DEF Table
  <2> QED
    BY <1>0, <1>1, <1>2, <2>1, <2>2 DEF Table
<1>4. BelowInfinity(n, u)
  BY <1>2 DEF Coherent, BelowInfinity
<1>5. KnowsAll(n, u)
  BY <1>0, <1>2, <1>m DEF Coherent, KnowsAll, Table
<1>6. HopsAlive(n, u)
  <2> SUFFICES ASSUME NEW to \in Node \ {n}
               PROVE  /\ u.via[to] # None => u.via[to] \in u.online
                      /\ Exists(u.dist[to]) <=> u.via[to] # None
    BY DEF HopsAlive
  <2>1. CASE to \in moved
    <3>1. u.dist[to] = BestDist(n, t, to) /\ u.via[to] = BestVia(n, t, to)
      BY <1>2, <2>1
    <3>2. Exists(BestDist(n, t, to)) <=> BestDist(n, t, to) # None
      BY BestDistIsBest DEF Exists, Dist, None
    <3> QED
      BY <1>2, <3>1, <3>2, BestViaIsNeighbour
  <2>2. CASE to \notin moved
    BY <1>2, <2>2 DEF Coherent, HopsAlive
  <2> QED
    BY <2>1, <2>2
<1>7. HoldsBest(n, u)
  <2> SUFFICES ASSUME NEW to \in Node \ {n}
               PROVE  IsBest(u.dist[to], Offers(n, u, to))
    BY DEF HoldsBest
  <2>1. Offers(n, u, to) = Offers(n, t, to)
    BY <1>2 DEF Offers
  <2>2. CASE to \in t.known
    <3>1. u.dist[to] = BestDist(n, t, to)
      BY <1>2, <1>d, <2>2
    <3> QED
      BY <2>1, <3>1, BestDistIsBest
  <2>3. CASE to \notin t.known
    <3>1. u.dist[to] = None /\ to \notin t.online
      BY <1>2, <1>m, <2>3 DEF Coherent, KnowsAll
    <3>2. \A v \in t.online : t.dv[v][to] = None
      BY <2>3 DEF Coherent, KnowsAll, Linked
    <3>3. Offers(n, t, to) = {}
      BY <3>1, <3>2 DEF Offers, Exists, None
    <3> QED
      BY <2>1, <3>1, <3>3 DEF IsBest
  <2> QED
    BY <2>2, <2>3
<1> QED
  BY <1>2, <1>3, <1>4, <1>5, <1>6, <1>7 DEF Coherent, u

-----------------------------------------------------------------------------
(* The queues of all links at once.                                        *)
Queues ==
  {ch \in [Link -> Seq(Vector)] : \A l \in Link : Len(ch[l]) <= QueueCap[l]}

LEMMA CapOfLink ==
  \A l \in Link : QueueCap[l] \in Nat /\ QueueCap[l] >= 1
BY QueueCapAssumption DEF Link

LEMMA VectorOfType ==
  ASSUME NEW t \in Table
  PROVE  VectorOf(t) \in Vector
BY DEF VectorOf, Vector, Table

LEMMA SendDvType ==
  ASSUME NEW n \in Node, NEW t \in Table, NEW ch \in Queues
  PROVE  SendDv(n, t, ch) \in Queues
<1>1. VectorOf(t) \in Vector
  BY VectorOfType
<1>2. ASSUME NEW l \in Link
      PROVE  /\ SendDv(n, t, ch)[l] \in Seq(Vector)
             /\ Len(SendDv(n, t, ch)[l]) <= QueueCap[l]
  <2>1. ch[l] \in Seq(Vector) /\ Len(ch[l]) <= QueueCap[l] /\ Len(ch[l]) \in Nat
    BY DEF Queues
  <2>2. /\ Append(ch[l], VectorOf(t)) \in Seq(Vector)
        /\ Len(Append(ch[l], VectorOf(t))) = Len(ch[l]) + 1
    BY <1>1, <2>1
  <2>3. \/ SendDv(n, t, ch)[l] = ch[l]
        \/ /\ SendDv(n, t, ch)[l] = Append(ch[l], VectorOf(t))
           /\ Len(ch[l]) < QueueCap[l]
    BY DEF SendDv
  <2>4. QueueCap[l] \in Nat
    BY CapOfLink
  <2>5. CASE SendDv(n, t, ch)[l] = ch[l]
    BY <2>1, <2>5
  <2>6. CASE /\ SendDv(n, t, ch)[l] = Append(ch[l], VectorOf(t))
             /\ Len(ch[l]) < QueueCap[l]
    BY <2>1, <2>2, <2>4, <2>6
  <2> QED
    BY <2>3, <2>5, <2>6
<1>3. SendDv(n, t, ch) \in [Link -> Seq(Vector)]
  <2> DEFINE f == SendDv(n, t, ch)
  <2>1. f = [l \in Link |-> f[l]]
    BY DEF SendDv
  <2>2. \A l \in Link : f[l] \in Seq(Vector)
    BY <1>2
  <2> HIDE DEF f
  <2>3. f \in [Link -> Seq(Vector)]
    BY <2>1, <2>2
  <2> QED
    BY <2>3 DEF f
<1> QED
  BY <1>2, <1>3 DEF Queues

LEMMA TakeType ==
  ASSUME chan \in Queues, NEW m, NEW n, <<m, n>> \in Link,
         NEW k \in DOMAIN chan[<<m, n>>]
  PROVE  Take(m, n, k) \in Queues
<1> DEFINE s == chan[<<m, n>>]
           r == RemoveAt(s, k)
<1>1. s \in Seq(Vector) /\ Len(s) <= QueueCap[<<m, n>>]
  BY DEF Queues
<1>2. k \in 1 .. Len(s) /\ Len(s) \in Nat
  BY <1>1
<1> HIDE DEF s
<1> DEFINE pre == SubSeq(s, 1, k - 1)
           post == SubSeq(s, k + 1, Len(s))
<1>3. pre \in Seq(Vector) /\ Len(pre) = k - 1
  BY <1>1, <1>2, SubSeqProperties
<1>4. post \in Seq(Vector) /\ Len(post) = Len(s) - k
  BY <1>1, <1>2, SubSeqProperties
<1>5. r \in Seq(Vector) /\ Len(r) = Len(s) - 1
  <2>1. r = pre \o post
    BY DEF RemoveAt
  <2> HIDE DEF r, pre, post
  <2>2. Len(pre \o post) = Len(pre) + Len(post) /\ pre \o post \in Seq(Vector)
    BY <1>3, <1>4, ConcatProperties
  <2> QED
    BY <1>2, <1>3, <1>4, <2>1, <2>2
<1>6. Take(m, n, k) = [chan EXCEPT ![<<m, n>>] = r]
  BY DEF Take, s, Queues
<1>7. Len(r) <= QueueCap[<<m, n>>]
  BY <1>1, <1>2, <1>5, CapOfLink
<1> HIDE DEF r
<1>8. [chan EXCEPT ![<<m, n>>] = r] \in Queues
  BY <1>5, <1>7 DEF Queues
<1> QED
  BY <1>6, <1>8

-----------------------------------------------------------------------------
(* The invariant as the steps use it: one statement per table.             *)
RouterInv == TypeOK /\ RoutingInv

LEMMA TablesCoherent ==
  RouterInv <=>
    /\ \A n \in Node : Coherent(n, tab[n])
    /\ tab \in [Node -> Table]
    /\ DistanceIsBest
    /\ sleeping \in [Node -> BOOLEAN]
    /\ silent \in [Node -> SUBSET Node]
    /\ chan \in Queues
    /\ down \in SUBSET Link
    /\ edited \in [Node -> BOOLEAN]
    /\ faults \in 0 .. MaxFaults
BY DEF RouterInv, TypeOK, RoutingInv, OnlineIsLinked, NextHopIsNeighbour, Queues,
       Coherent

(* The step that replaces the table of one node by a coherent one.         *)
LEMMA TableStep ==
  ASSUME RouterInv, NEW n \in Node, NEW t, Coherent(n, t),
         tab' = [tab EXCEPT ![n] = t],
         \/ HoldsBest(n, t) /\ edited' = [edited EXCEPT ![n] = FALSE]
         \/ edited' = [edited EXCEPT ![n] = TRUE]
  PROVE  /\ \A k \in Node : Coherent(k, tab'[k])
         /\ tab' \in [Node -> Table]
         /\ DistanceIsBest'
         /\ edited' \in [Node -> BOOLEAN]
<1>1. /\ tab \in [Node -> Table] /\ edited \in [Node -> BOOLEAN]
      /\ DistanceIsBest
      /\ \A k \in Node : Coherent(k, tab[k])
  BY TablesCoherent
<1>2. tab'[n] = t /\ \A k \in Node \ {n} : tab'[k] = tab[k]
  BY <1>1
<1>3. \A k \in Node : Coherent(k, tab'[k])
  BY <1>1, <1>2
<1>4. tab' \in [Node -> Table]
  BY <1>1 DEF Coherent
<1>5. edited' \in [Node -> BOOLEAN] /\ \A k \in Node \ {n} : edited'[k] = edited[k]
  BY <1>1
<1>6. DistanceIsBest'
  <2> SUFFICES ASSUME NEW k \in Node, ~ edited'[k]
               PROVE  HoldsBest(k, tab'[k])
    BY DEF DistanceIsBest
  <2>1. CASE k = n
    BY <1>1, <1>2, <2>1
  <2>2. CASE k # n
    <3>1. ~ edited[k] /\ tab'[k] = tab[k]
      BY <1>2, <1>5, <2>2
    <3> QED
      BY <1>1, <3>1 DEF DistanceIsBest
  <2> QED
    BY <2>1, <2>2
<1> QED
  BY <1>3, <1>4, <1>5, <1>6

LEMMA RouterInit == Init => RouterInv
<1> SUFFICES ASSUME Init
             PROVE  RouterInv
  OBVIOUS
<1>1. \A n \in Node : Coherent(n, tab[n]) /\ HoldsBest(n, tab[n])
  BY LoadLinksCoherent DEF Init
<1>2. tab \in [Node -> Table]
  BY LoadLinksCoherent DEF Init, Coherent
<1>3. chan \in Queues
  <2>1. \A l \in Link : <<VectorOf(LoadLinks(l[1]))>> \in Seq(Vector)
    BY LoadLinksCoherent, VectorOfType DEF Coherent, Link
  <2>2. PICK lost \in SUBSET Link :
          chan = [l \in Link |->
                    IF l \in lost THEN <<>> ELSE <<VectorOf(LoadLinks(l[1]))>>]
    BY DEF Init
  <2>3. \A l \in Link : chan[l] \in Seq(Vector) /\ Len(chan[l]) <= 1
    BY <2>1, <2>2
  <2>4. chan \in [Link -> Seq(Vector)]
    BY <2>1, <2>2
  <2> QED
    BY <2>3, <2>4, CapOfLink DEF Queues
<1>4. DistanceIsBest
  BY <1>1 DEF DistanceIsBest
<1>5. /\ sleeping \in [Node -> BOOLEAN] /\ silent \in [Node -> SUBSET Node]
      /\ down \in SUBSET Link /\ edited \in [Node -> BOOLEAN]
      /\ faults \in 0 .. MaxFaults
  BY MaxFaultsAssumption DEF Init
<1> QED
  BY <1>1, <1>2, <1>3, <1>4, <1>5, TablesCoherent

-----------------------------------------------------------------------------
LEMMA NextTablesCoherent ==
  ASSUME /\ \A n \in Node : Coherent(n, tab'[n])
         /\ tab' \in [Node -> Table]
         /\ DistanceIsBest'
         /\ sleeping' \in [Node -> BOOLEAN]
         /\ silent' \in [Node -> SUBSET Node]
         /\ chan' \in Queues
         /\ down' \in SUBSET Link
         /\ edited' \in [Node -> BOOLEAN]
         /\ faults' \in 0 .. MaxFaults
  PROVE  RouterInv'
BY DEF RouterInv, TypeOK, RoutingInv, OnlineIsLinked, NextHopIsNeighbour, Queues,
       Coherent

LEMMA LinkEnds ==
  ASSUME NEW l \in Link
  PROVE  /\ l[1] \in Node /\ l[2] \in Node
         /\ l = <<l[1], l[2]>> /\ <<l[2], l[1]>> \in Link
         /\ l[1] \in Linked(l[2])
<1>1. l \in Node \X Node /\ l[2] \in Linked(l[1])
  BY DEF Link
<1>2. Cost[l[1]][l[2]] = Cost[l[2]][l[1]]
  BY <1>1, CostAssumption
<1>3. l[1] \in Linked(l[2])
  BY <1>1, <1>2 DEF Linked
<1> QED
  BY <1>1, <1>3 DEF Link

LEMMA SpendType ==
  ASSUME faults \in 0 .. MaxFaults, NEW kind, Spend(kind)
  PROVE  faults' \in 0 .. MaxFaults
BY MaxFaultsAssumption DEF Spend

LEMMA RecvDvStep ==
  ASSUME RouterInv, NEW l \in Link, RecvDv(l[1], l[2])
  PROVE  RouterInv'
<1> DEFINE m == l[1]
           n == l[2]
<1>1. /\ m \in Node /\ n \in Node /\ l = <<m, n>> /\ m \in Linked(n)
  BY LinkEnds
<1> HIDE DEF m, n
<1>2. PICK k \in DOMAIN chan[<<m, n>>] :
      \E stored \in {Stored(n, m, chan[<<m, n>>][k])} :
      \E t \in {UpdateRt(n, stored)} :
       /\ tab' = [tab EXCEPT ![n] = t]
       /\ chan' = IF RoutesChanged(n, m, t)
                  THEN SendDv(n, t, Take(m, n, k))
                  ELSE Take(m, n, k)
  BY DEF RecvDv, m, n
<1> DEFINE vec    == chan[<<m, n>>][k]
           stored == Stored(n, m, vec)
           t      == UpdateRt(n, stored)
<1>3. vec \in Vector
  BY <1>1, TablesCoherent DEF Queues
<1>4. Coherent(n, stored)
  <2>1. Coherent(n, AddNeighbour(n, tab[n], m))
    BY <1>1, AddNeighbourCoherent, TablesCoherent
  <2> QED
    BY <1>1, <1>3, <2>1, ReadVectorCoherent DEF Stored
<1>5. Coherent(n, t) /\ HoldsBest(n, t)
  BY <1>1, <1>4, UpdateRtCoherent
<1>6. /\ tab' = [tab EXCEPT ![n] = t]
      /\ chan' \in {SendDv(n, t, Take(m, n, k)), Take(m, n, k)}
  BY <1>2
<1>7. Take(m, n, k) \in Queues
  BY <1>1, TakeType, TablesCoherent
<1> HIDE DEF t
<1>8. SendDv(n, t, Take(m, n, k)) \in Queues
  BY <1>1, <1>5, <1>7, SendDvType DEF Coherent
<1>9. /\ silent' = [silent EXCEPT ![n] = @ \ {m}]
      /\ edited' = [edited EXCEPT ![n] = FALSE]
      /\ UNCHANGED <<sleeping, down, faults>>
  BY DEF RecvDv, m, n
<1>10. silent' \in [Node -> SUBSET Node]
  BY <1>1, <1>9, TablesCoherent
<1>11. /\ sleeping' \in [Node -> BOOLEAN] /\ down' \in SUBSET Link
       /\ faults' \in 0 .. MaxFaults
  BY <1>9, TablesCoherent
<1>12. /\ \A j \in Node : Coherent(j, tab'[j])
       /\ tab' \in [Node -> Table]
       /\ DistanceIsBest'
       /\ edited' \in [Node -> BOOLEAN]
  BY <1>1, <1>5, <1>6, <1>9, TableStep
<1> QED
  BY <1>6, <1>7, <1>8, <1>10, <1>11, <1>12, NextTablesCoherent

LEMMA DropCheckStep ==
  ASSUME RouterInv, NEW n \in Node, DropCheck(n)
  PROVE  RouterInv'
<1> DEFINE D       == tab[n].online \cap silent[n]
           dropped == DropNeighbours(tab[n], D)
           t       == UpdateRt(n, dropped)
<1>1. D \in SUBSET Hop
  BY TablesCoherent DEF Hop
<1>2. Coherent(n, dropped)
  BY <1>1, DropNeighboursCoherent, TablesCoherent
<1>3. Coherent(n, t) /\ HoldsBest(n, t)
  BY <1>2, UpdateRtCoherent
<1>4. /\ tab' = [tab EXCEPT ![n] = t]
      /\ chan' = SendDv(n, t, chan)
      /\ edited' = [edited EXCEPT ![n] = FALSE]
      /\ UNCHANGED <<sleeping, silent, down, faults>>
  BY DEF DropCheck
<1> HIDE DEF t
<1>5. chan' \in Queues
  BY <1>3, <1>4, SendDvType, TablesCoherent DEF Coherent
<1>6. /\ \A j \in Node : Coherent(j, tab'[j])
      /\ tab' \in [Node -> Table]
      /\ DistanceIsBest'
      /\ edited' \in [Node -> BOOLEAN]
  BY <1>3, <1>4, TableStep
<1>7. /\ sleeping' \in [Node -> BOOLEAN] /\ down' \in SUBSET Link
      /\ silent' \in [Node -> SUBSET Node] /\ faults' \in 0 .. MaxFaults
  BY <1>4, TablesCoherent
<1> QED
  BY <1>5, <1>6, <1>7, NextTablesCoherent

LEMMA WakeStep ==
  ASSUME RouterInv, NEW n \in Node, Wake(n)
  PROVE  RouterInv'
<1> DEFINE t == LoadLinks(n)
<1>1. Coherent(n, t) /\ HoldsBest(n, t)
  BY LoadLinksCoherent
<1>2. /\ tab' = [tab EXCEPT ![n] = t]
      /\ chan' = SendDv(n, t, chan)
      /\ edited' = [edited EXCEPT ![n] = FALSE]
      /\ sleeping' = [sleeping EXCEPT ![n] = FALSE]
      /\ UNCHANGED <<silent, down>>
  BY DEF Wake
<1>3. faults' \in 0 .. MaxFaults
  BY SpendType, TablesCoherent DEF Wake
<1> HIDE DEF t
<1>4. chan' \in Queues
  BY <1>1, <1>2, SendDvType, TablesCoherent DEF Coherent
<1>5. /\ \A j \in Node : Coherent(j, tab'[j])
      /\ tab' \in [Node -> Table]
      /\ DistanceIsBest'
      /\ edited' \in [Node -> BOOLEAN]
  BY <1>1, <1>2, TableStep
<1>6. /\ sleeping' \in [Node -> BOOLEAN] /\ down' \in SUBSET Link
      /\ silent' \in [Node -> SUBSET Node]
  BY <1>2, TablesCoherent
<1> QED
  BY <1>3, <1>4, <1>5, <1>6, NextTablesCoherent

LEMMA DropCommandStep ==
  ASSUME RouterInv, NEW n \in Node, NEW d \in Hop, DropCommand(n, d)
  PROVE  RouterInv'
<1> DEFINE t == DropNeighbours(tab[n], {d})
<1>1. Coherent(n, t)
  BY DropNeighboursCoherent, TablesCoherent
<1>2. /\ tab' = [tab EXCEPT ![n] = t]
      /\ edited' = [edited EXCEPT ![n] = TRUE]
      /\ UNCHANGED <<sleeping, silent, chan, down>>
  BY DEF DropCommand
<1>3. faults' \in 0 .. MaxFaults
  BY SpendType, TablesCoherent DEF DropCommand
<1> HIDE DEF t
<1>4. /\ \A j \in Node : Coherent(j, tab'[j])
      /\ tab' \in [Node -> Table]
      /\ DistanceIsBest'
      /\ edited' \in [Node -> BOOLEAN]
  BY <1>1, <1>2, TableStep
<1>5. /\ sleeping' \in [Node -> BOOLEAN] /\ down' \in SUBSET Link
      /\ silent' \in [Node -> SUBSET Node] /\ chan' \in Queues
  BY <1>2, TablesCoherent
<1> QED
  BY <1>3, <1>4, <1>5, NextTablesCoherent

(* A step that leaves the tables alone has only types to keep.             *)
LEMMA OtherStep ==
  ASSUME RouterInv, UNCHANGED <<tab, edited>>,
         sleeping' \in [Node -> BOOLEAN],
         silent' \in [Node -> SUBSET Node],
         chan' \in Queues,
         down' \in SUBSET Link,
         faults' \in 0 .. MaxFaults
  PROVE  RouterInv'
<1>1. DistanceIsBest'
  BY TablesCoherent DEF DistanceIsBest
<1> QED
  BY <1>1, TablesCoherent, NextTablesCoherent

LEMMA RouterStep == RouterInv /\ [Next]_vars => RouterInv'
<1> SUFFICES ASSUME RouterInv, [Next]_vars
             PROVE  RouterInv'
  OBVIOUS
<1>t. /\ sleeping \in [Node -> BOOLEAN] /\ silent \in [Node -> SUBSET Node]
      /\ chan \in Queues /\ down \in SUBSET Link /\ faults \in 0 .. MaxFaults
  BY TablesCoherent
<1>1. ASSUME NEW l \in Link, RecvDv(l[1], l[2])
      PROVE  RouterInv'
  BY <1>1, RecvDvStep
<1>2. ASSUME NEW l \in Link, DiscardDv(l[1], l[2]) \/ Lose(l[1], l[2])
      PROVE  RouterInv'
  <2>1. <<l[1], l[2]>> \in Link /\ l[1] \in Node /\ l[2] \in Node
    BY LinkEnds
  <2>2. PICK k \in DOMAIN chan[<<l[1], l[2]>>] : chan' = Take(l[1], l[2], k)
    BY <1>2 DEF DiscardDv, Lose
  <2>3. chan' \in Queues
    BY <1>t, <2>1, <2>2, TakeType
  <2>4. silent' \in [Node -> SUBSET Node] /\ UNCHANGED <<tab, edited, sleeping, down>>
    BY <1>2, <1>t, <2>1 DEF DiscardDv, Lose
  <2>5. faults' \in 0 .. MaxFaults
    BY <1>2, <1>t, SpendType DEF DiscardDv, Lose
  <2> QED
    BY <1>t, <2>3, <2>4, <2>5, OtherStep
<1>3. ASSUME NEW l \in Link, FallSilent(l[1], l[2]) \/ SeemSilent(l[1], l[2])
      PROVE  RouterInv'
  <2>1. l[1] \in Node /\ l[2] \in Node
    BY LinkEnds
  <2>2. /\ silent' = [silent EXCEPT ![l[2]] = @ \cup {l[1]}]
        /\ UNCHANGED <<tab, edited, sleeping, chan, down>>
    BY <1>3 DEF FallSilent, SeemSilent
  <2>3. silent' \in [Node -> SUBSET Node]
    BY <1>t, <2>1, <2>2
  <2>4. faults' \in 0 .. MaxFaults
    BY <1>3, <1>t, SpendType DEF FallSilent, SeemSilent
  <2> QED
    BY <1>t, <2>2, <2>3, <2>4, OtherStep
<1>4. ASSUME NEW l \in Link, LinkFail(l[1], l[2])
      PROVE  RouterInv'
  <2>1. <<l[1], l[2]>> \in Link /\ <<l[2], l[1]>> \in Link
    BY LinkEnds
  <2>2. /\ chan' = [chan EXCEPT ![<<l[1], l[2]>>] = <<>>, ![<<l[2], l[1]>>] = <<>>]
        /\ down' = down \cup {<<l[1], l[2]>>, <<l[2], l[1]>>}
        /\ UNCHANGED <<tab, edited, sleeping, silent>>
    BY <1>4 DEF LinkFail
  <2>3. chan' \in Queues
    <3>1. <<>> \in Seq(Vector) /\ \A k \in Link : Len(<<>>) <= QueueCap[k]
      BY CapOfLink
    <3>2. chan' \in [Link -> Seq(Vector)]
      BY <1>t, <2>2, <3>1 DEF Queues
    <3>3. ASSUME NEW k \in Link
          PROVE  Len(chan'[k]) <= QueueCap[k]
      <4>1. chan'[k] = chan[k] \/ chan'[k] = <<>>
        BY <1>t, <2>2 DEF Queues
      <4> QED
        BY <1>t, <3>1, <4>1 DEF Queues
    <3> QED
      BY <3>2, <3>3 DEF Queues
  <2>4. down' \in SUBSET Link
    BY <1>t, <2>1, <2>2
  <2>5. faults' \in 0 .. MaxFaults
    BY <1>4, <1>t, SpendType DEF LinkFail
  <2> QED
    BY <1>t, <2>2, <2>3, <2>4, <2>5, OtherStep
<1>5. ASSUME NEW l \in Link, LinkRepair(l[1], l[2])
      PROVE  RouterInv'
  BY <1>5, <1>t, OtherStep DEF LinkRepair
<1>6. ASSUME NEW n \in Node, HeartBeat(n)
      PROVE  RouterInv'
  <2>1. tab[n] \in Table
    BY TablesCoherent
  <2>2. chan' = SendDv(n, tab[n], chan) /\ UNCHANGED <<tab, edited, sleeping, silent, down, faults>>
    BY <1>6 DEF HeartBeat
  <2>3. chan' \in Queues
    BY <1>t, <2>1, <2>2, SendDvType
  <2> QED
    BY <1>t, <2>2, <2>3, OtherStep
<1>7. ASSUME NEW n \in Node, Sleep(n)
      PROVE  RouterInv'
  <2>1. faults' \in 0 .. MaxFaults
    BY <1>7, <1>t, SpendType DEF Sleep
  <2> QED
    BY <1>7, <1>t, <2>1, OtherStep DEF Sleep
<1>8. ASSUME NEW n \in Node, DropCheck(n)
      PROVE  RouterInv'
  BY <1>8, DropCheckStep
<1>9. ASSUME NEW n \in Node, Wake(n)
      PROVE  RouterInv'
  BY <1>9, WakeStep
<1>10. ASSUME NEW n \in Node, NEW d \in Hop, DropCommand(n, d)
       PROVE  RouterInv'
  BY <1>10, DropCommandStep
<1>11. ASSUME UNCHANGED vars
       PROVE  RouterInv'
  BY <1>11, <1>t, OtherStep DEF vars
<1> QED
  BY <1>1, <1>2, <1>3, <1>4, <1>5, <1>6, <1>7, <1>8, <1>9, <1>10, <1>11 DEF Next

LEMMA RouterCorrect == Spec => []RouterInv
BY RouterInit, RouterStep, PTL DEF Spec

-----------------------------------------------------------------------------
(* The tables are well formed, learnt distances stay below                 *)
(* options.infinity and queues within their bound, in every network.       *)
THEOREM TypeCorrect == Spec => []TypeOK
<1>1. RouterInv => TypeOK
  BY DEF RouterInv
<1> QED
  BY <1>1, RouterCorrect, PTL

(* The inductive invariant holds: update_rt, drop_neighbour, add_neighbour *)
(* and net_loadLinks keep the tables coherent in any order of packets,     *)
(* timers, commands and faults.                                            *)
THEOREM RoutingCorrect == Spec => []RoutingInv
<1>1. RouterInv => RoutingInv
  BY DEF RouterInv
<1> QED
  BY <1>1, RouterCorrect, PTL

(* router_sendmessage never hands net_send a node that is not a neighbour. *)
THEOREM RoutesUsable == Spec => []NextHopIsNeighbour
<1>1. RoutingInv => NextHopIsNeighbour
  BY DEF RoutingInv
<1> QED
  BY <1>1, RoutingCorrect, PTL

(* No order of vectors, drops and restarts leaves a node advertising a     *)
(* distance that none of its neighbours offers any more, or one above the  *)
(* smallest offered.                                                       *)
THEOREM AdvertisedIsBest == Spec => []DistanceIsBest
<1>1. RoutingInv => DistanceIsBest
  BY DEF RoutingInv
<1> QED
  BY <1>1, RoutingCorrect, PTL

=============================================================================
