------------------------------ MODULE MCRouter ------------------------------
(***************************************************************************)
(* Small networks for Router and Convergence, and what must come about in  *)
(* them in the end.                                                        *)
(***************************************************************************)
EXTENDS Convergence

AllFaults == {"late", "loss", "cut", "repair", "sleep", "restart", "drop"}

(* A function of link costs from the lines of an enlaces.config.           *)
CostsOf(lines) ==
  [a \in Node |-> [b \in Node |->
     IF a = b THEN 0
     ELSE IF \E e \in lines : {e[1], e[2]} = {a, b}
          THEN (CHOOSE e \in lines : {e[1], e[2]} = {a, b})[3]
          ELSE None]]

(* A single link.                                                          *)
PairCost == CostsOf({<<0, 1, 1>>})

(* 0 -- 1 -- 2: the network in which distance vectors count to infinity.   *)
LineCost == CostsOf({<<0, 1, 1>>, <<1, 2, 1>>})

(* The same line, the link 0 -- 1 for nothing: the counting never ends     *)
(* (README, Bounds).                                                       *)
FreeCost == CostsOf({<<0, 1, 0>>, <<1, 2, 1>>})

(* 0 -- 1 -- 2 with a slower direct link 0 -- 2.                           *)
TriangleCost == CostsOf({<<0, 1, 1>>, <<1, 2, 1>>, <<0, 2, 3>>})

(* Two paths of equal cost between 0 and 3.                                *)
DiamondCost == CostsOf({<<0, 1, 1>>, <<0, 2, 1>>, <<1, 3, 1>>, <<2, 3, 1>>})

(* One datagram at a time from a node to a neighbour, or two from node 0,  *)
(* of which the later may overtake the earlier.                            *)
OneAtATime == [l \in Node \X Node |-> 1]
TwoFromFirst == [l \in Node \X Node |-> IF l[1] = 0 THEN 2 ELSE 1]

-----------------------------------------------------------------------------
(* Faults, drops and restarts being over (they are bounded), all nodes     *)
(* that are awake come to hold the true distances and keep them: a node    *)
(* that fell asleep or was cut off is forgotten although its neighbours    *)
(* keep offering each other old routes to it (README: "/infinity ...       *)
(* prevenção de contagem ao infinito").                                    *)
EventuallyConverged == <>[]Converged

(* Two neighbours whose link works for good hold each other alive again    *)
(* and again ("descobre a topologia de forma dinâmica", README.md).        *)
NeighboursRedetected ==
  \A l \in Link : <>[]Works(l[1], l[2]) => []<>(l[2] \in tab[l[1]].online)

-----------------------------------------------------------------------------
(* A start from a network at rest: the tables once every node has heard    *)
(* all its neighbours N times, in rounds.                                  *)
Heard(tabs) ==
  [n \in Node |->
     FoldSet(LAMBDA m, t : UpdateRt(n, ReadVector(n, t, m, VectorOf(tabs[m]))),
             tabs[n], Linked(n))]

RestInit ==
  /\ tab = LET round[k \in 0 .. N] ==
                 IF k = 0 THEN [n \in Node |-> LoadLinks(n)]
                 ELSE Heard(round[k - 1])
           IN  round[N]
  /\ sleeping = [n \in Node |-> FALSE]
  /\ silent = [n \in Node |-> {}]
  /\ chan = [l \in Link |-> <<>>]
  /\ down = {}
  /\ edited = [n \in Node |-> FALSE]
  /\ faults = 0

RestSpec == RestInit /\ [][Next]_vars

=============================================================================
