--------------------------- MODULE FailureDetector ---------------------------
(***************************************************************************)
(* What the failure detection of a router promises, whatever timers it     *)
(* keeps: a node that watches its neighbours takes none for dead before it *)
(* has been silent for longer than Patience, and trusts none that has been *)
(* silent for two Patiences and the Lag of the node.                       *)
(***************************************************************************)
EXTENDS Integers

CONSTANTS
  Node,
  Patience,
  Lag  \* Lag[n]: how late n may notice

VARIABLES
  clock,  \* the true time
  trust,  \* trust[n]: the nodes n takes for alive
  heard,  \* heard[n][m]: when a packet of m last reached n
  watch   \* watch[n]: since when n watches its neighbours, Off when it does not

detectorVars == <<clock, trust, heard, watch>>

Off == -1

Later(s, t) == IF s > t THEN s ELSE t

(* When n must have noticed the silence of m.                              *)
Deadline(n, m) == Later(heard[n][m], watch[n]) + 2 * Patience + Lag[n]

DetectorInit ==
  /\ clock \in Nat
  /\ trust \in [Node -> SUBSET Node]
  /\ heard = [n \in Node |-> [m \in Node |-> 0]]
  /\ watch = [n \in Node |-> clock]

(* Time stands still for a node that has to decide.                        *)
Pass ==
  /\ clock' = clock + 1
  /\ \A n \in Node : watch[n] # Off => \A m \in trust[n] : clock' < Deadline(n, m)
  /\ UNCHANGED <<trust, heard, watch>>

Hear(n, m) ==
  /\ heard' = [heard EXCEPT ![n][m] = clock]
  /\ \/ UNCHANGED trust
     \/ trust' = [trust EXCEPT ![n] = @ \cup {m}]
  /\ UNCHANGED <<clock, watch>>

Suspect(n, S) ==
  /\ watch[n] # Off
  /\ \A m \in S : heard[n][m] + Patience < clock
  /\ trust' = [trust EXCEPT ![n] = @ \ S]
  /\ UNCHANGED <<clock, heard, watch>>

(* A node that starts to watch has everything to learn.                    *)
Start(n, S) ==
  /\ watch' = [watch EXCEPT ![n] = clock]
  /\ trust' = [trust EXCEPT ![n] = S]
  /\ UNCHANGED <<clock, heard>>

Stop(n) ==
  /\ watch' = [watch EXCEPT ![n] = Off]
  /\ UNCHANGED <<clock, trust, heard>>

(* Nothing is promised of a node that does not watch.                      *)
Idle(n, S) ==
  /\ watch[n] = Off
  /\ trust' = [trust EXCEPT ![n] = S]
  /\ UNCHANGED <<clock, heard, watch>>

DetectorNext ==
  \/ Pass
  \/ \E n, m \in Node : Hear(n, m)
  \/ \E n \in Node, S \in SUBSET Node : Suspect(n, S) \/ Start(n, S) \/ Idle(n, S)
  \/ \E n \in Node : Stop(n)

DetectorSpec == DetectorInit /\ [][DetectorNext]_detectorVars

=============================================================================
