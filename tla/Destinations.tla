---------------------------- MODULE Destinations ----------------------------
(***************************************************************************)
(* How many destinations a node counts, and what becomes of its heartbeats *)
(* when they are too many.  The tables of alltabs.c widen with every       *)
(* number written to them, be it that of a node or one somebody typed;     *)
(* num_destinations counts their columns and send_dv writes an entry for   *)
(* each.  Only the columns are kept here: what the cells say is in Router. *)
(***************************************************************************)
EXTENDS Tables

CONSTANTS
  N,             \* the nodes are 0 .. N - 1
  Links,         \* Links[n]: the neighbours of n in enlaces.config
  Typed,         \* the numbers typed, in a chat line or after /drop
  MaxDatagram,   \* what sendto takes: 65507 bytes
  MaxPacket      \* MAX_PACKET_SIZE

Node == 0 .. N - 1
Link == {l \in Node \X Node : l[2] \in Links[l[1]]}

VARIABLES
  mvec, mtab,    \* the columns of the two tables of each node
  transit        \* the newest vector under way on each link: how many
                 \*   destinations it tells of, 0 if there is none

vars == <<mvec, mtab, transit>>

-----------------------------------------------------------------------------
NumDestinations(n) == Larger(mvec[n], mtab[n])

(* <command> <id> [<node> <distance>]* <-1>                                *)
VectorSize(count) == 1 + 4 + 8 * count + 4

(* The columns once a cell of each number of S has been written.           *)
WidenedBy(cols, S) ==
  CHOOSE c \in {cols} \cup {Widened(cols, k) : k \in S} :
    c >= cols /\ \A k \in S : c >= Widened(cols, k)

(* The destinations that are read of a vector, cut off at MaxPacket.       *)
Told(count) == {k \in 0 .. count - 1 : 1 + 4 + 8 * k + 4 <= MaxPacket}

(* send_dv: sendto refuses a vector that is too long.                      *)
Vectors(n, count) ==
  [ l \in Link |->
      IF l[1] = n /\ VectorSize(count) <= MaxDatagram THEN count ELSE transit[l] ]

(* tabs_init and net_loadLinks.                                            *)
LoadedVec(n) == WidenedBy(0, Links[n] \cup {n})
LoadedTab(n) == WidenedBy(0, {n})

Init ==
  /\ mvec = [n \in Node |-> LoadedVec(n)]
  /\ mtab = [n \in Node |-> LoadedTab(n)]
  /\ transit = [l \in Link |-> 0]

-----------------------------------------------------------------------------
(* The heartbeat of router_logic.                                          *)
SendDv(n) ==
  /\ transit' = Vectors(n, NumDestinations(n))
  /\ UNCHANGED <<mvec, mtab>>

(* recv_dv: the row of the neighbour is written, then update_rt writes the *)
(* routes that change, and if any did the node sends its own vector.       *)
RecvDv(l) ==
  LET to == l[2] IN
  /\ transit[l] > 0
  /\ mtab' = [mtab EXCEPT ![to] = WidenedBy(@, Told(transit[l]))]
  /\ \E changed \in SUBSET {d \in Node : d < Larger(mvec[to], mtab'[to])} :
       /\ mvec' = [mvec EXCEPT ![to] = WidenedBy(@, changed)]
       /\ transit' = [ IF changed = {} THEN transit
                       ELSE Vectors(to, Larger(mvec'[to], mtab'[to])) EXCEPT ![l] = 0 ]

Lose(l) ==
  /\ transit[l] > 0
  /\ transit' = [transit EXCEPT ![l] = 0]
  /\ UNCHANGED <<mvec, mtab>>

(* rbl_logic gives up a message to d: no attempt is left, or there is no   *)
(* route, as there is none to a number that is no node.                    *)
GiveUp(n, d) ==
  /\ mvec' = [mvec EXCEPT ![n] = Widened(@, d)]
  /\ UNCHANGED <<mtab, transit>>

(* drop_neighbour, after /drop d.                                          *)
CmdDrop(n, d) ==
  /\ mvec' = [mvec EXCEPT ![n] = Widened(@, d)]
  /\ UNCHANGED <<mtab, transit>>

(* router_restart, after /wake.                                            *)
Restart(n) ==
  /\ mvec' = [mvec EXCEPT ![n] = LoadedVec(n)]
  /\ mtab' = [mtab EXCEPT ![n] = LoadedTab(n)]
  /\ transit' = Vectors(n, Larger(LoadedVec(n), LoadedTab(n)))

Next ==
  \/ \E n \in Node : SendDv(n) \/ Restart(n)
  \/ \E l \in Link : RecvDv(l) \/ Lose(l)
  \/ \E n \in Node, d \in Typed : GiveUp(n, d) \/ CmdDrop(n, d)

Spec == Init /\ [][Next]_vars

(* The main loop goes on: every node sends a heartbeat again and again.    *)
FairSpec == Spec /\ \A n \in Node : WF_vars(SendDv(n))

-----------------------------------------------------------------------------
(* Every node counts the nodes of the network and no more (router.c:33,    *)
(* "pega o total de nós conhecidos na rede").                              *)
OnlyNodesCounted == \A n \in Node : NumDestinations(n) <= N

(* Every neighbour gets a vector again and again, whatever was typed       *)
(* (router.c:10, "o envio periódico do meu vetor-distância pros meus       *)
(* vizinhos").                                                             *)
NeighboursKeepHearing == \A l \in Link : []<>(transit[l] > 0)

=============================================================================
