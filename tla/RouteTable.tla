----------------------------- MODULE RouteTable -----------------------------
(***************************************************************************)
(* The tables of one node (alltabs.c) and the computations the router      *)
(* makes over them (router.c, net_loadLinks of net.c).                     *)
(*                                                                         *)
(* A table is a value; each operation of the C code is an operator from a  *)
(* table to the table it leaves behind.  The C arrays grow on demand and   *)
(* answer a default row beyond their end, so here every column exists and  *)
(* "known" holds the columns that num_destinations() counts: the loops of  *)
(* send_dv and update_rt stop there.                                       *)
(***************************************************************************)
EXTENDS Integers, FiniteSetsExt

CONSTANTS
  N,         \* nodes are numbered 0 .. N-1, as in roteador.config
  Cost,      \* Cost[a][b]: cost of the link a--b in enlaces.config, or None
  Infinity   \* options.infinity: a learnt distance this large means no route

None == -1   \* both "no next hop" and "infinite distance" in the tables

Node == 0 .. N-1

ASSUME NAssumption == N \in Nat \ {0}

ASSUME InfinityAssumption == Infinity \in Nat

(* Every node reads the same enlaces.config, and loads a link whichever of *)
(* its ends it is, so costs are symmetric; a node is at cost 0 from itself. *)
ASSUME CostAssumption ==
  /\ Cost \in [Node -> [Node -> Nat \cup {None}]]
  /\ \A a, b \in Node : Cost[a][b] = Cost[b][a]
  /\ \A a \in Node : Cost[a][a] = 0

Linked(n) == {m \in Node \ {n} : Cost[n][m] # None}

Exists(d) == d >= 0

Dist == Nat \cup {None}
Hop  == Node \cup {None}

Table ==
  [ online : SUBSET Node,              \* neighbours detected as alive
    via    : [Node -> Hop],            \* next hop of each destination
    dist   : [Node -> Dist],           \* computed distance
    dv     : [Node -> [Node -> Dist]], \* dv[v][to]: distance to "to" through v
    known  : SUBSET Node ]             \* columns below num_destinations()

(* What send_dv puts in a packet: one entry per known destination.         *)
Vector == [known : SUBSET Node, dist : [Node -> Dist]]

VectorOf(t) == [known |-> t.known, dist |-> t.dist]

(* Writing to column k creates all the columns before it.                  *)
UpTo(S) == {m \in Node : \E k \in S : m <= k}

-----------------------------------------------------------------------------
(* Fresh tables, then net_loadLinks: every configured neighbour is taken   *)
(* to be alive and reached directly.                                       *)
LoadLinks(n) ==
  [ online |-> Linked(n),
    via    |-> [m \in Node |-> IF m \in Linked(n) THEN m ELSE None],
    dist   |-> Cost[n],
    dv     |-> [v \in Node |-> [m \in Node |->
                  IF v = n /\ m = n THEN 0 ELSE None]],
    known  |-> UpTo(Linked(n) \cup {n}) ]

(* Seeded fault: a neighbour comes back without a route to it.             *)
AddNeighbourOnlineOnly(n, t, m) ==
  IF Cost[n][m] = None \/ m \in t.online
  THEN t
  ELSE [t EXCEPT !.online = @ \cup {m}, !.dist[m] = Cost[n][m]]

(* A potential neighbour that was offline comes back on its direct link.   *)
AddNeighbour(n, t, m) ==
  IF Cost[n][m] = None \/ m \in t.online
  THEN t
  ELSE [t EXCEPT !.online = @ \cup {m},
                 !.via[m]  = m,
                 !.dist[m] = Cost[n][m]]

(* Seeded fault: only the route to the neighbour itself is erased.         *)
DropKeepsRoutes(t, D) ==
  [t EXCEPT !.online = @ \ D,
            !.via    = [to \in Node |-> IF to \in D THEN None ELSE @[to]],
            !.dist   = [to \in Node |-> IF to \in D THEN None ELSE @[to]],
            !.known  = @ \cup UpTo(D)]

(* drop_neighbour for each member of D in turn: the neighbour is offline   *)
(* and every route through it is erased.  D may hold any number the user   *)
(* typed; None matches the "via" of every destination without next hop.    *)
DropNeighbours(t, D) ==
  LET erased == {to \in Node : to \in D \/ t.via[to] \in D}
  IN  [t EXCEPT !.online = @ \ D,
                !.via    = [to \in Node |-> IF to \in erased THEN None ELSE @[to]],
                !.dist   = [to \in Node |-> IF to \in erased THEN None ELSE @[to]],
                !.known  = @ \cup UpTo(D)]

-----------------------------------------------------------------------------
(* Seeded fault: distances are added up and never cut at infinity.         *)
ThroughUnbounded(d, c) == IF Exists(d) THEN d + c ELSE d

(* Seeded fault: the cost of the link to the neighbour is not added.       *)
ThroughFree(d, c) == IF Exists(d) /\ d < Infinity THEN d ELSE None

(* A neighbour at cost c is at distance d of a destination.                *)
Through(d, c) ==
  IF Exists(d) /\ d + c < Infinity THEN d + c ELSE None

(* recv_dv stores the vector received from m, entry by entry: entries the  *)
(* packet does not carry keep what an earlier packet left there.           *)
ReadVector(n, t, m, vec) ==
  [t EXCEPT !.dv[m] = [to \in Node |->
                         IF to \in vec.known
                         THEN Through(vec.dist[to], Cost[n][m])
                         ELSE @[to]],
            !.known = @ \cup vec.known]

(* The distances update_rt compares: the direct link, if it is up, and the *)
(* path through each neighbour that has one.                               *)
Offers(n, t, to) ==
  {d \in {t.dv[v][to] : v \in t.online} : Exists(d)}
    \cup (IF to \in t.online THEN {Cost[n][to]} ELSE {})

BestDist(n, t, to) ==
  IF Offers(n, t, to) = {} THEN None ELSE Min(Offers(n, t, to))

(* Seeded fault: a direct link that is up is taken for the best next hop   *)
(* without comparing its cost.                                             *)
BestViaDirect(n, t, to) ==
  LET best == BestDist(n, t, to)
  IN  CASE best = None -> None
        [] best # None /\ to \in t.online -> to
        [] OTHER -> Min({v \in t.online : t.dv[v][to] = best})

(* The direct link is tried first and DIST_LESS is strict, so it wins a    *)
(* tie; among the others the lowest numbered neighbour does.               *)
BestVia(n, t, to) ==
  LET best == BestDist(n, t, to)
  IN  CASE best = None -> None
        [] best # None /\ to \in t.online /\ Cost[n][to] = best -> to
        [] OTHER -> Min({v \in t.online : t.dv[v][to] = best})

(* Seeded fault: a route is replaced only by a shorter one.                *)
UpdateRtOnlyShorter(n, t) ==
  LET moved == {to \in t.known \ {n} :
                  /\ Exists(BestDist(n, t, to))
                  /\ \/ ~ Exists(t.dist[to])
                     \/ BestDist(n, t, to) < t.dist[to]}
  IN  [t EXCEPT
         !.dist = [to \in Node |-> IF to \in moved THEN BestDist(n, t, to) ELSE @[to]],
         !.via  = [to \in Node |-> IF to \in moved THEN BestVia(n, t, to) ELSE @[to]]]

(* The route computation.  An entry is rewritten, next hop included, only  *)
(* when its distance changes.                                              *)
UpdateRt(n, t) ==
  LET moved == {to \in t.known \ {n} : t.dist[to] # BestDist(n, t, to)}
  IN  [t EXCEPT
         !.dist = [to \in Node |-> IF to \in moved THEN BestDist(n, t, to) ELSE @[to]],
         !.via  = [to \in Node |-> IF to \in moved THEN BestVia(n, t, to) ELSE @[to]]]

-----------------------------------------------------------------------------
(* What the operations above are to preserve in the table of node n.       *)

(* A next hop is a neighbour held alive, and there is one exactly where    *)
(* there is a distance.                                                    *)
HopsAlive(n, t) ==
  \A to \in Node \ {n} :
    /\ t.via[to] # None => t.via[to] \in t.online
    /\ Exists(t.dist[to]) <=> t.via[to] # None

(* d is the smallest of the offers, or None when there is none.            *)
IsBest(d, offers) ==
  IF offers = {}
  THEN d = None
  ELSE d \in offers /\ \A o \in offers : d <= o

HoldsBest(n, t) ==
  \A to \in Node \ {n} : IsBest(t.dist[to], Offers(n, t, to))

(* The loops of update_rt miss no destination: a column that does not      *)
(* exist yet holds no neighbour, no distance and no stored vector.         *)
KnowsAll(n, t) ==
  /\ Linked(n) \cup {n} \subseteq t.known
  /\ \A to \in Node \ t.known :
       /\ t.dist[to] = None
       /\ \A v \in Node : t.dv[v][to] = None

(* Learnt distances stay below infinity.                                   *)
BelowInfinity(n, t) ==
  \A v \in Node \ {n} : \A to \in Node : t.dv[v][to] < Infinity

=============================================================================
