---------------------------- MODULE MCForwarding ----------------------------
(***************************************************************************)
(* Small networks for Forwarding, and when a packet must arrive.           *)
(***************************************************************************)
EXTENDS Forwarding

CONSTANTS a, b, c   \* the ids of three nodes

(* Everything a table can say of the way from a to c and of the way back   *)
(* by b or by the direct link, dead ends and loops included.               *)
AllRoutes ==
  LET Hops(n) == (Node \ {n}) \cup {None}
      Table(ac, bc, ba, ca) ==
        [n \in Node |-> [d \in Node |->
           CASE n = d -> None
             [] n = a /\ d = c -> ac
             [] n = b /\ d = c -> bc
             [] n = b /\ d = a -> ba
             [] n = c /\ d = a -> ca
             [] OTHER -> d]]
  IN  {Table(ac, bc, ba, ca) : ac \in Hops(a), bc \in Hops(b),
                               ba \in Hops(b), ca \in Hops(c)}

(* A line a -- b -- c.                                                     *)
LineRoutes ==
  {[n \in Node |-> [d \in Node |->
      CASE n = d -> None
        [] n = b \/ d = b -> d
        [] OTHER -> b]]}

(* A packet in reach of its goal gets there, unless something happens to   *)
(* the network first: no link too few is granted by the time to live, and  *)
(* "basta digitar o número do nó de destino" (README.md) holds of every    *)
(* node of roteador.config.                                                *)
RouteDelivers ==
  \A k \in 1 .. MaxChats, f \in 0 .. MaxFaults :
    /\ (\E p \in transit : p.k = k /\ p.cmd = "chat" /\ InReach(p)) /\ faults = f
         ~> k \in arrived \/ faults > f
    /\ (\E p \in transit : p.k = k /\ p.cmd = "confirm" /\ InReach(p)) /\ faults = f
         ~> k \in confirmed \/ faults > f

=============================================================================
