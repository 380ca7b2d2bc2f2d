------------------------------- MODULE Router -------------------------------
(***************************************************************************)
(* The distance-vector router (router.c) on every node of the network, the *)
(* datagrams between them (net.c) and what can happen to both: operators   *)
(* putting nodes to sleep, waking them and dropping neighbours by hand     *)
(* (command.c), links failing, datagrams lost or reordered.                *)
(*                                                                         *)
(* Clock readings are abstracted to the one question the code asks of      *)
(* them: "silent" holds the neighbours not heard of for options.heartcheck *)
(* milliseconds.  Timers expire at any time.                               *)
(***************************************************************************)
EXTENDS RouteTable, Sequences, SequencesExt

CONSTANTS
  QueueCap,    \* datagrams in flight from a to b; one more is lost
  FaultKinds,  \* the faults and commands this instance lets happen
  MaxFaults    \* bound on their number

ASSUME QueueCapAssumption == QueueCap \in [Node \X Node -> Nat \ {0}]

ASSUME FaultKindsAssumption ==
  FaultKinds \subseteq {"late", "loss", "cut", "repair", "sleep", "restart", "drop"}

ASSUME MaxFaultsAssumption == MaxFaults \in Nat

VARIABLES
  tab,        \* tab[n]: the tables of node n
  sleeping,   \* options.sleeping of each node
  silent,     \* silent[n]: neighbours not heard of for heartcheck ms
  chan,       \* chan[<<a, b>>]: vectors in flight from a to b
  down,       \* link directions that carry nothing
  edited,     \* history: /drop changed the tables since the last update_rt
  faults      \* faults and commands so far, a bound on the model only

vars == <<tab, sleeping, silent, chan, down, edited, faults>>

Link == {l \in Node \X Node : l[2] \in Linked(l[1])}

TypeOK ==
  /\ tab \in [Node -> Table]
  /\ \A n \in Node : BelowInfinity(n, tab[n])
  /\ sleeping \in [Node -> BOOLEAN]
  /\ silent \in [Node -> SUBSET Node]
  /\ chan \in [Link -> Seq(Vector)]
  /\ \A l \in Link : Len(chan[l]) <= QueueCap[l]
  /\ down \in SUBSET Link
  /\ edited \in [Node -> BOOLEAN]
  /\ faults \in 0 .. MaxFaults

(* Every process has just run router_init; any of the first heartbeats may *)
(* be lost, as they are when processes start one after the other.          *)
Init ==
  /\ tab = [n \in Node |-> LoadLinks(n)]
  /\ sleeping = [n \in Node |-> FALSE]
  /\ silent = [n \in Node |-> {}]
  /\ \E lost \in SUBSET Link :
       chan = [l \in Link |->
                 IF l \in lost THEN <<>> ELSE <<VectorOf(LoadLinks(l[1]))>>]
  /\ down = {}
  /\ edited = [n \in Node |-> FALSE]
  /\ faults = 0

-----------------------------------------------------------------------------
(* Seeded fault: the loop over the neighbours starts after node 0.         *)
SendDvFromOne(n, t, ch) ==
  [l \in Link |->
     IF /\ l[1] = n
        /\ l[2] \in t.online \ {0}
        /\ l \notin down
        /\ Len(ch[l]) < QueueCap[l]
     THEN Append(ch[l], VectorOf(t))
     ELSE ch[l]]

(* Seeded fault: configured neighbours are sent to, alive or not.          *)
SendDvToAll(n, t, ch) ==
  [l \in Link |->
     IF l[1] = n /\ l \notin down /\ Len(ch[l]) < QueueCap[l]
     THEN Append(ch[l], VectorOf(t))
     ELSE ch[l]]

(* send_dv: n sends its distances to every neighbour it holds alive.       *)
SendDv(n, t, ch) ==
  [l \in Link |->
     IF /\ l[1] = n
        /\ l[2] \in t.online
        /\ l \notin down
        /\ Len(ch[l]) < QueueCap[l]
     THEN Append(ch[l], VectorOf(t))
     ELSE ch[l]]

(* One more fault or command, while the bound allows it.                   *)
Spend(kind) ==
  /\ kind \in FaultKinds
  /\ faults < MaxFaults
  /\ faults' = faults + 1

(* A datagram leaves the link; reordering lets any of them be the next.    *)
Take(m, n, k) == [chan EXCEPT ![<<m, n>>] = RemoveAt(@, k)]

(* The tables recv_dv computes from: the sender is a neighbour again and   *)
(* its vector is stored.                                                   *)
Stored(n, m, vec) == ReadVector(n, AddNeighbour(n, tab[n], m), m, vec)

(* Whether add_neighbour or update_rt reported a change.                   *)
RoutesChanged(n, m, t) ==
  \/ m \notin tab[n].online
  \/ t.dist # tab[n].dist

(* n, awake, receives a vector of m: net_recv, router_readmessage, recv_dv. *)
(* Neighbours hear of the outcome only when something changed.             *)
RecvDv(m, n) ==
  /\ ~ sleeping[n]
  /\ \E k \in DOMAIN chan[<<m, n>>] :
     \E stored \in {Stored(n, m, chan[<<m, n>>][k])} :
     \E t \in {UpdateRt(n, stored)} :
       /\ tab' = [tab EXCEPT ![n] = t]
       /\ chan' = IF RoutesChanged(n, m, t)
                  THEN SendDv(n, t, Take(m, n, k))
                  ELSE Take(m, n, k)
  /\ silent' = [silent EXCEPT ![n] = @ \ {m}]
  /\ edited' = [edited EXCEPT ![n] = FALSE]
  /\ UNCHANGED <<sleeping, down, faults>>

(* A sleeping node reads the datagram, notes when it came and discards it.  *)
DiscardDv(m, n) ==
  /\ sleeping[n]
  /\ \E k \in DOMAIN chan[<<m, n>>] : chan' = Take(m, n, k)
  /\ silent' = [silent EXCEPT ![n] = @ \ {m}]
  /\ UNCHANGED <<tab, sleeping, down, edited, faults>>

(* The heartbeat timer, or the command /hb.                                *)
HeartBeat(n) ==
  /\ ~ sleeping[n]
  /\ chan' = SendDv(n, tab[n], chan)
  /\ UNCHANGED <<tab, sleeping, silent, down, edited, faults>>

(* Seeded fault: the comparison of times is the wrong way round.           *)
DropCheckReversed(n) ==
  /\ ~ sleeping[n]
  /\ tab[n].online \ silent[n] # {}
  /\ \E dropped \in {DropNeighbours(tab[n], tab[n].online \ silent[n])} :
     \E t \in {UpdateRt(n, dropped)} :
       /\ tab' = [tab EXCEPT ![n] = t]
       /\ chan' = SendDv(n, t, chan)
  /\ edited' = [edited EXCEPT ![n] = FALSE]
  /\ UNCHANGED <<sleeping, silent, down, faults>>

(* The heartcheck timer, or /hc, when some neighbour has been silent: all  *)
(* such neighbours are dropped, routes recomputed and the vector sent.     *)
DropCheck(n) ==
  /\ ~ sleeping[n]
  /\ tab[n].online \cap silent[n] # {}
  /\ \E dropped \in {DropNeighbours(tab[n], tab[n].online \cap silent[n])} :
     \E t \in {UpdateRt(n, dropped)} :
       /\ tab' = [tab EXCEPT ![n] = t]
       /\ chan' = SendDv(n, t, chan)
  /\ edited' = [edited EXCEPT ![n] = FALSE]
  /\ UNCHANGED <<sleeping, silent, down, faults>>

-----------------------------------------------------------------------------
(* Nothing of m will reach n: m sleeps, the link is down, or m dropped n   *)
(* and hears nothing that would make it take n back (heartbeats being more *)
(* frequent than heartchecks, a heartbeat of n would have come in time).    *)
Mute(m, n) ==
  \/ sleeping[m]
  \/ <<m, n>> \in down
  \/ /\ n \notin tab[m].online
     /\ sleeping[n] \/ m \notin tab[n].online

(* heartcheck milliseconds go by without a packet of m.                    *)
FallSilent(m, n) ==
  /\ m \notin silent[n]
  /\ Mute(m, n)
  /\ chan[<<m, n>>] = <<>>
  /\ silent' = [silent EXCEPT ![n] = @ \cup {m}]
  /\ UNCHANGED <<tab, sleeping, chan, down, edited, faults>>

(* The same of a neighbour that is alive: its packets are late.            *)
SeemSilent(m, n) ==
  /\ m \notin silent[n]
  /\ Spend("late")
  /\ silent' = [silent EXCEPT ![n] = @ \cup {m}]
  /\ UNCHANGED <<tab, sleeping, chan, down, edited>>

(* A datagram is lost on its way (options.errRate, or the network).        *)
Lose(m, n) ==
  /\ Spend("loss")
  /\ \E k \in DOMAIN chan[<<m, n>>] : chan' = Take(m, n, k)
  /\ UNCHANGED <<tab, sleeping, silent, down, edited>>

(* A link breaks in both directions, with what it carried, and comes back. *)
LinkFail(m, n) ==
  /\ <<m, n>> \notin down
  /\ Spend("cut")
  /\ down' = down \cup {<<m, n>>, <<n, m>>}
  /\ chan' = [chan EXCEPT ![<<m, n>>] = <<>>, ![<<n, m>>] = <<>>]
  /\ UNCHANGED <<tab, sleeping, silent, edited>>

LinkRepair(m, n) ==
  /\ "repair" \in FaultKinds
  /\ <<m, n>> \in down
  /\ down' = down \ {<<m, n>>, <<n, m>>}
  /\ UNCHANGED <<tab, sleeping, silent, chan, edited, faults>>

-----------------------------------------------------------------------------
(* /sleep *)
Sleep(n) ==
  /\ ~ sleeping[n]
  /\ Spend("sleep")
  /\ sleeping' = [sleeping EXCEPT ![n] = TRUE]
  /\ UNCHANGED <<tab, silent, chan, down, edited>>

(* /wake, accepted from a node that is awake as well: router_restart.  The *)
(* times of the last packets survive it.                                   *)
Wake(n) ==
  /\ IF sleeping[n] THEN faults' = faults ELSE Spend("restart")
  /\ sleeping' = [sleeping EXCEPT ![n] = FALSE]
  /\ tab' = [tab EXCEPT ![n] = LoadLinks(n)]
  /\ chan' = SendDv(n, LoadLinks(n), chan)
  /\ edited' = [edited EXCEPT ![n] = FALSE]
  /\ UNCHANGED <<silent, down>>

(* /drop d, for whatever number d the operator types: no route is          *)
(* recomputed.                                                             *)
DropCommand(n, d) ==
  /\ Spend("drop")
  /\ tab' = [tab EXCEPT ![n] = DropNeighbours(@, {d})]
  /\ edited' = [edited EXCEPT ![n] = TRUE]
  /\ UNCHANGED <<sleeping, silent, chan, down>>

-----------------------------------------------------------------------------
Next ==
  \/ \E l \in Link :
       \/ RecvDv(l[1], l[2])
       \/ DiscardDv(l[1], l[2])
       \/ FallSilent(l[1], l[2])
       \/ SeemSilent(l[1], l[2])
       \/ Lose(l[1], l[2])
       \/ LinkFail(l[1], l[2])
       \/ LinkRepair(l[1], l[2])
  \/ \E n \in Node :
       \/ HeartBeat(n)
       \/ DropCheck(n)
       \/ Sleep(n)
       \/ Wake(n)
       \/ \E d \in Hop : DropCommand(n, d)

Spec == Init /\ [][Next]_vars

(* The main loop of every process keeps turning: it drains its socket,     *)
(* its timers expire again and again, and time passes.  Nothing makes an   *)
(* operator act, a fault happen or a link come back.                       *)
Fairness ==
  /\ \A l \in Link : /\ WF_vars(RecvDv(l[1], l[2]))
                     /\ WF_vars(DiscardDv(l[1], l[2]))
                     /\ WF_vars(FallSilent(l[1], l[2]))
  /\ \A n \in Node : /\ WF_vars(HeartBeat(n))
                     /\ WF_vars(DropCheck(n))

FairSpec == Spec /\ Fairness

-----------------------------------------------------------------------------
(* The next hop of every route is a neighbour held alive, and there is a   *)
(* next hop exactly where there is a distance: router_sendmessage never    *)
(* hands net_send a node it refuses ("cheater!!", net.c:80), whatever the  *)
(* order of packets, timers and commands.                                  *)
NextHopIsNeighbour == \A n \in Node : HopsAlive(n, tab[n])

(* Only configured neighbours are ever held alive: recv_dv's assertion     *)
(* that the sender has a cost, and send_dv's use of net_send.              *)
OnlineIsLinked == \A n \in Node : tab[n].online \subseteq Linked(n)

(* The distances a node advertises are those its stored vectors and live   *)
(* links give: no order of vectors, drops and restarts leaves update_rt    *)
(* with a distance nobody offers any more.  After /drop they are stale     *)
(* until the next computation (the FIXME of cmd_drop).                     *)
DistanceIsBest == \A n \in Node : ~ edited[n] => HoldsBest(n, tab[n])

(* The inductive invariant of the three.                                   *)
RoutingInv ==
  /\ OnlineIsLinked
  /\ \A n \in Node : KnowsAll(n, tab[n])
  /\ NextHopIsNeighbour
  /\ DistanceIsBest

=============================================================================
