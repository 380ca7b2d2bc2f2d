---------------------------- MODULE Convergence ----------------------------
(***************************************************************************)
(* What the tables of Router are to be compared with: the walks of the     *)
(* network, the true distances, tables that agree with each other, and     *)
(* next hops that lead to the destination at the cost announced.           *)
(***************************************************************************)
EXTENDS Router

(* Links of cost 0 are accepted by net_loadLinks; the theorems that need   *)
(* it say that there are none.                                             *)
PositiveCosts == \A a \in Node : \A b \in Linked(a) : Cost[a][b] > 0

(* Reference: a walk over configured links that costs less than Infinity   *)
(* and ends where it first meets its destination.  node[i] is its i-th     *)
(* node, rest[i] the cost of the way from there on.                        *)
WalksOfLength(k) ==
  {w \in [len : {k}, node : [0 .. k -> Node], rest : [0 .. k -> 0 .. Infinity - 1]] :
     /\ w.rest[k] = 0
     /\ \A i \in 0 .. k - 1 :
          /\ w.node[i] # w.node[k]
          /\ w.node[i + 1] \in Linked(w.node[i])
          /\ w.rest[i] = Cost[w.node[i]][w.node[i + 1]] + w.rest[i + 1]}

Walks == UNION {WalksOfLength(k) : k \in 1 .. Infinity - 1}

WalksFrom(a, b) == {w \in Walks : w.node[0] = a /\ w.node[w.len] = b}

(* <<a, b, c>>: some way from a to b costs c.  A direct link is used       *)
(* whatever its cost.                                                      *)
Ways ==
  {<<w.node[0], w.node[w.len], w.rest[0]>> : w \in Walks}
    \cup {<<l[1], l[2], Cost[l[1]][l[2]]>> : l \in Link}
    \cup {<<n, n, 0>> : n \in Node}

(* What the ways from n to another node may cost that begin with the link  *)
(* to v.                                                                   *)
CostsBy(n, v, to) ==
  {c \in 0 .. Infinity - 1 : <<v, to, c - Cost[n][v]>> \in Ways}
    \cup {c \in {Cost[n][v]} : v = to}

-----------------------------------------------------------------------------
(* A link works when both its ends are awake and it carries datagrams.     *)
Works(a, b) ==
  /\ <<a, b>> \in Link \ down
  /\ ~ sleeping[a] /\ ~ sleeping[b]

Open(w) == \A i \in 0 .. w.len - 1 : Works(w.node[i], w.node[i + 1])

(* The distance a correct table holds: the shortest working walk when it   *)
(* is below infinity, else the direct link, which has no such limit.       *)
TrueDist(a, b) ==
  LET near == {w.rest[0] : w \in {v \in WalksFrom(a, b) : Open(v)}}
  IN  IF near # {} THEN Min(near)
      ELSE IF Works(a, b) THEN Cost[a][b] ELSE None

Converged ==
  \A a \in Node : ~ sleeping[a] =>
    \A b \in Node \ {a} : tab[a].dist[b] = TrueDist(a, b)

(* The tables agree: nobody dead is held alive, no table is as /drop left  *)
(* it, and one more heartbeat of anyone would tell nobody anything new.    *)
Settled ==
  \A n \in Node : ~ sleeping[n] =>
    /\ ~ edited[n]
    /\ \A m \in tab[n].online : Works(m, n)
    /\ \A m \in Node : Works(m, n) => Stored(n, m, VectorOf(tab[m])) = tab[n]

(* Nothing is under way either that would disturb a settled network.       *)
AtRest ==
  /\ \A n \in Node : ~ sleeping[n] =>
       /\ tab[n].online \cap silent[n] = {}
       /\ \A m \in Linked(n) : \A k \in DOMAIN chan[<<m, n>>] :
            Works(m, n) /\ chan[<<m, n>>][k] = VectorOf(tab[m])
  /\ Settled

-----------------------------------------------------------------------------
(* The neighbour n sends packets for "to" to offers the distance n         *)
(* announces, itself or by the direct link.                                *)
HopOffers(n, t, to) ==
  \/ t.via[to] = None
  \/ t.via[to] = to /\ Cost[n][to] = t.dist[to]
  \/ t.dv[t.via[to]][to] = t.dist[to]

HopsOffer == \A n \in Node : \A to \in Node \ {n} : HopOffers(n, tab[n], to)

(* The way along the next hops ends at "to" and costs what n announces.    *)
RouteLeads(n, to) ==
  \/ tab[n].via[to] = to /\ tab[n].dist[to] = Cost[n][to]
  \/ \E w \in WalksFrom(n, to) :
       /\ w.rest[0] = tab[n].dist[to]
       /\ \A i \in 0 .. w.len - 1 : tab[w.node[i]].via[to] = w.node[i + 1]

-----------------------------------------------------------------------------
(* Two neighbours have dropped each other and nothing is under way.        *)
Estranged(m, n) ==
  /\ m \notin tab[n].online /\ chan[<<m, n>>] = <<>>
  /\ n \notin tab[m].online /\ chan[<<n, m>>] = <<>>

(* Nobody holds x alive and nothing of x is under way.                     *)
Forgotten(x) ==
  \A n \in Linked(x) : x \notin tab[n].online /\ chan[<<x, n>>] = <<>>

(* The distances of x that are still told, here and there.                 *)
Rumours(x) ==
  {d \in UNION { {tab[n].dist[x] : n \in Node \ {x}},
                 {tab[n].dv[v][x] : n \in Node \ {x}, v \in Node \ {x}},
                 UNION {{chan[l][k].dist[x] : k \in DOMAIN chan[l]} :
                          l \in {j \in Link : j[1] # x}} } : Exists(d)}

-----------------------------------------------------------------------------
(* No distance is invented: whatever is lost, late, overtaken or restarted, *)
(* every distance in a table or in a datagram is the cost of some way over  *)
(* configured links, if an old and long one, and every distance stored for  *)
(* a neighbour that of a way which begins with it.                          *)
DistancesAreWalks ==
  /\ \A n, to \in Node :
       /\ Exists(tab[n].dist[to]) => <<n, to, tab[n].dist[to]>> \in Ways
       /\ \A v \in Linked(n) : to # n /\ Exists(tab[n].dv[v][to]) =>
            tab[n].dv[v][to] \in CostsBy(n, v, to)
  /\ \A l \in Link : \A k \in DOMAIN chan[l] : \A to \in Node :
       Exists(chan[l][k].dist[to]) => <<l[1], to, chan[l][k].dist[to]>> \in Ways

(* Tables that agree with each other agree with the network: no phantom    *)
(* route survives in a settled one, and no shorter way is missed.          *)
SettledConverged == Settled => Converged

(* Once the network has settled, a datagram that follows the next hops     *)
(* (router_sendmessage at each node) reaches every destination a working   *)
(* path leads to, at exactly the cost the tables announce.                 *)
SettledRoutesReach ==
  Settled =>
    \A n \in Node : \A to \in Node \ {n} :
      ~ sleeping[n] /\ Exists(TrueDist(n, to)) => RouteLeads(n, to)

(* A network at rest stays at rest, and its tables stay as they are, until *)
(* the next fault, command or repair: heartbeats, heartchecks and the      *)
(* vectors they send, in any order, drop nobody and change no route.       *)
RestLasts ==
  [][UNCHANGED <<faults, sleeping, down>> /\ AtRest => AtRest' /\ UNCHANGED tab]_vars

(* A next hop that offers the distance announced ceases to do so in one    *)
(* way only: another neighbour offers the same distance at that moment,    *)
(* and update_rt, which rewrites a route when its distance changes, leaves *)
(* it.                                                                     *)
HopsLostToTiesOnly ==
  [][\A n \in Node : \A to \in Node \ {n} :
       HopOffers(n, tab[n], to) /\ ~ HopOffers(n, tab'[n], to) =>
         /\ tab'[n].via[to] = tab[n].via[to]
         /\ tab'[n].dist[to] = tab[n].dist[to]
         /\ tab'[n].dist[to] \in Offers(n, tab'[n], to)]_vars

(* Neighbours that have dropped each other stay apart until one of them is *)
(* restarted, repaired link or not: send_dv speaks to online neighbours    *)
(* only, and only a vector brings a neighbour online.                      *)
EstrangedStay ==
  [][\A l \in Link : Estranged(l[1], l[2]) =>
       Estranged(l[1], l[2])' \/ Wake(l[1]) \/ Wake(l[2])]_vars

(* The distances told of a node that is forgotten only grow: each is based *)
(* on one that was told before, and each that is stored anew is longer.    *)
(* Counting to infinity has no other way to go.                            *)
RumoursGrow ==
  [][\A x \in Node : Forgotten(x) /\ Forgotten(x)' =>
       /\ \A d \in Rumours(x)' : \E o \in Rumours(x) : o <= d
       /\ \A n \in Node \ {x} : \A v \in Node \ {x} :
            LET d == tab'[n].dv[v][x]
            IN  Exists(d) /\ d # tab[n].dv[v][x] => \E o \in Rumours(x) : o < d]_vars

=============================================================================
