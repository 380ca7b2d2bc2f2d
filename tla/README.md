# netrt2 in TLA+

netrt2 is a router for a small network of UDP processes. Every process reads
the same two files (`roteador.config`: addresses; `enlaces.config`: links and
costs), keeps distance-vector routing tables, and carries chat messages to any
node with sequence numbers, confirmations and retries. This directory holds
its models, the TLC configurations that check them and the theorems proved
about them. `PROJECT.json` maps every definition to its lines.

## 1. Inventory

One process is one thread: `main` reads every datagram waiting, then calls
`router_logic`, `rbl_logic` and `con_checkInput`, sleeps 20 ms and starts again.
Nothing is interrupted inside a handler; what interleaves is the handlers of
different processes, the datagrams between them, and the operators' commands.

| Part | State | Operations | Talks to |
|---|---|---|---|
| Tables, `alltabs.c` | per node: cost, online, via, distance, in/out sequence numbers; per neighbour: its last vector | `add_neighbour`, `drop_neighbour`, getters and setters, `num_destinations` | `tables.c` |
| Growing table, `tables.c` | rows x columns that appear on the first write | `tab_get`, `tab_set`, `tab_resize` | - |
| Router, `router.c` | deadlines of heartbeat and heartcheck | `send_dv`, `recv_dv`, `update_rt`, `router_dropcheck`, `router_restart`, `router_logic`, `router_sendmessage` | tables, net |
| Chat, `reliable.c` | one message: pending, buffer, target, attempts, next attempt | `rbl_sendmessage`, `rbl_logic`, `rbl_readmessage`, `rbl_confirm` | tables, router |
| Network, `net.c` | addresses, time of the last packet of each node, socket | `net_send`, `net_secretsend`, `net_recv`, `net_loadLinks` | sockets |
| Commands, `command.c` | `options` | `/drop /sleep /wake /hb /hc /stall /all` and settings | all of the above |
| Console, `console.c` | keyboard buffer, quit flag | `con_checkInput`, `con_run`, `con_runfile` | commands |
| Buffer, `szb.c` | bytes, position, size | reads and writes of 8 and 32 bits and strings | - |
| Clock, `timer.c` | - | `sys_getMilli`, an `int` of milliseconds | - |
| Main loop, `main.c` | - | dispatch by packet type; a sleeping node obeys orders only | all |

What is hard, and what makes each part correct:

* **Routing.** Vectors are lost, late and overtake one another, links break,
  nodes restart, operators drop neighbours by hand. A next hop must be a live
  neighbour; an advertised distance must be one somebody still offers; when
  things calm down the distances must be the true ones, counting to infinity
  must end, and the next hops must lead where they say.
* **Failure detection.** Silence stands for death; a heartbeat may just be late.
  A neighbour that is back must be noticed.
* **Chat.** Packets and confirmations are lost, late, repeated; either end may be
  restarted, which resets its numbers. A message must be shown once and in order,
  success must be true, and every message must be answered.
* **Forwarding.** Routes disagree for a while: time to live must end every walk.
* **Numbers.** A clock that wraps, signed bytes on the wire, the cost limit.

The hazards, each at its line and with the properties that cover it, are in
`PROJECT.json`.

## 2. Modules

| Module | What it is |
|---|---|
| `RouteTable` | the tables of one node as a value; `LoadLinks`, `AddNeighbour`, `DropNeighbours`, `ReadVector`, `UpdateRt` are the functions of the same names |
| `Router` | `RouteTable` on every node, the links between them, failures and commands |
| `Convergence` | the reference for `Router`: the walks of the network, true distances, tables that agree, next hops that lead; the properties stated on them |
| `MCRouter` | networks for TLC, and what must come about in the end |
| `RouterProofs` | theorems about `Router`: the inductive invariant of the tables |
| `ConvergenceProofs` | theorems about `Convergence`: settled tables are true, routes lead, rest lasts |
| `ChatService` | what a user of the chat sees on the screens: the abstract specification |
| `Reliable` | `reliable.c` on every node over a network that may do anything to packets |
| `MCReliable` | instances of `Reliable` for TLC |
| `ReliableProofs` | theorems about `Reliable`, refinement of `ChatService` included |
| `Forwarding` | the way of chat packets from node to node, time to live, one-byte fields |
| `MCForwarding` | tables for TLC, and when a packet must arrive |
| `ForwardingProofs` | theorems about `Forwarding` |
| `Clock` | readings of `sys_getMilli` and sums of times, in an `int` that wraps |
| `FailureDetector` | what failure detection promises: an abstract specification |
| `Timers` | heartbeat, heartcheck, stalled mode, `/sleep /wake /stall /hb /hc /all`, on a clock |
| `MCTimers`, `TimersProofs` | its instance for TLC, and the theorems, refinement of `FailureDetector` included |
| `Retry`, `RetryProofs` | the clock of a chat message: attempts, giving up, `/sleep` in between; its theorems |
| `Buffer` | `szb.c`: bytes, position, size, capacity |
| `Packets` | the packets of `router.c`, `reliable.c` and `command.c`, written and read byte for byte |
| `MCPackets`, `PacketsProofs` | its instance, and the theorems about it and `Buffer` |
| `Tables` | `tables.c`: rows and columns in one block of memory |
| `Destinations` | how many destinations a node counts, and whether its vectors can be sent |
| `MCDestinations`, `DestinationsProofs` | its instance, and the theorems about it and `Tables` |

**RouteTable and Router.** `tab[n]` is the row `mvec` (`online`, `via`, `dist`) and
the matrix `mtab` (`dv`) of node n; the cost column is the constant `Cost`, as
`net_loadLinks` writes it once. `known` is the set of columns below
`num_destinations()`: the loops of `send_dv` and `update_rt` see no others. An
action is a whole handler: `RecvDv` is `recv_dv` with `add_neighbour`, the storing
of the vector, `update_rt` and the `send_dv` at its end. `update_rt` is translated
with its quirk: a route is rewritten only when its distance changes. `chan` holds
the datagrams of each link direction and any of them may be the next to arrive.
The clock is reduced to the question `router_dropcheck` asks of it: `silent[n]`
holds the neighbours last heard of more than `heartcheck` ago. `FallSilent` puts
there a neighbour from which nothing can come; `SeemSilent`, a fault that is
counted, one that is merely late. A datagram, the discarded ones of a sleeping node
included, takes its sender out again, as `net_recv` notes its time. The history
variable `edited` says that `/drop` changed the table and no computation came since.

**Convergence** adds no state. A `Walk` goes over configured links, ends where it first
meets its destination and costs less than `Infinity`; a `Way` is a walk or a direct link,
which has no such limit. `TrueDist` is the shortest walk over links that work. Tables are
`Settled` when nobody dead is held alive and one more heartbeat of anyone would tell
nobody anything new: a condition on what neighbours have stored of each other, which
does not mention the network's distances. `AtRest` adds that nothing is under way but
what the tables say anyway. A next hop `HopOffers` the distance announced when the vector
stored of it (or the direct link) gives that distance; `RouteLeads` when following next
hops from node to node ends at the destination, at the cost announced.

**Reliable.** `pending`, `sendtarget`, `attempts` are the static variables of the
file; the text in `sndbuf` is the number of the message. `net` is the set of all
packets ever sent, so that any may arrive late, again or never; the routers are
not modelled here, and a route may be missing at any time (`GiveUp`). `/wake` resets
both sequence numbers and leaves the pending message alone, as the code does.
`said`, `verdict`, `heard` and `everHeard` record what the screens have shown;
`ChatService` is stated on these four only. Its refinement mapping is the identity
on them.

**Forwarding.** The other half of `rbl_readmessage`: a node that the packet is not for
sends it on through `router_sendmessage` while its time to live lasts. `transit` holds
the packets on a link, each with the node it is about to reach; what a node reads of
the destination, the sender and the time to live has gone through `szb_write8` and
`szb_read8`, that is through a `char`, signed where this program is built
(`AsByte`). The routing tables are any tables (`via`), and `Reroute` changes an
entry in any way: what `Router` guarantees of them is not needed for a walk to end,
and a next hop is a live neighbour by `RoutesUsable`, so `net_send` takes the packet.
Every attempt of the sender is a CHAT with a number of its own. `goal`, `hops` and
`limit` of a packet are history: where it was meant to go, the links behind it, the
time to live its sender chose.

**Timers.** `now` is the true time, `Reading` what `sys_getMilli` makes of it. Every node
takes a turn of the main loop (`Turn` is `router_logic`, heartbeat before heartcheck) at
least every `Poll[n]`; `transit` holds datagrams, each read within `Delay` or lost. `time`,
`nextHeartBeat`, `nextHeartCheck` are the static variables of `router.c`, `lastTime` is
the field of `net.c`, and `Gone` has both ways of `router_dropcheck`. `Command` is what the
commands do; it is used when one is typed (`Typed`) and when one arrives as an order
(`ReceiveOrder`), asleep or not. Distances are left out: whether a vector changes
anything, and is answered by one, is open. The history variables `turned`, `since`,
`spoke`, `heard` and `missed` say when a node last took a turn, slept or restarted, sent
its vector, was heard, and whether a vector of it went past its neighbour; the properties
are stated on them. `FailureDetector` knows `online`, `heard` and the time only: nobody is
suspected before `Patience`, time stands still rather than let a suspicion come later
than two patiences and the `Lag` of the node, and a node that sleeps or is stalled promises nothing.

**Retry.** One node, as nodes meet in the confirmation only. `sendtime` is advanced from
its own old value, not from the clock, so that attempts slept through are made up for
in successive turns after `/wake`; the answer is in time, the spacing is not kept. `Reliable`
says what the answer is worth, `Retry` when it comes.

**Buffer and Packets.** A buffer is a record with the four fields of `szb_s`; what lies
from `size` on is left over or was never written (`Junk`). `Packets` follows one packet at
a time through `out` (the buffer of the sender), `wire` and `in`, the one buffer of `main` that
every arrival reuses; a vector is written and read one entry at a step. `PacketByte` is the
reference: the form the comments of the code give a packet.

**Tables and Destinations.** `Tables` is pure: `Set` and `Get` over a block that `Resize`
copies. `Destinations` keeps the columns of `mvec` and `mtab` only, which is what
`num_destinations` reads, and whether a vector of that many entries can be sent. Neighbours
stay online in it: whether they are dropped is a question for `Timers`.

## 3. Runs

| Run | Question | Instance | Answer |
|---|---|---|---|
| `router_safety` | coherent tables, live next hops, best distances, none invented; true distances and usable routes once settled; rest and estrangement last | triangle 1, 1, 3; Infinity 3; one fault or command of any kind | holds |
| `router_converge` | distances become the true ones for good, stale vectors notwithstanding; rumours only grow | line of 3, Infinity 4; two datagrams under way from an end node; one fault | holds |
| `router_tie` | routes once settled, two next hops of equal cost | diamond at rest, one link fails | **violated** |
| `router_heal` | neighbours find each other again | one link, fails and is repaired | **violated** |
| `reliable_safety` | the chat protocol, its service and its inductive invariant | 3 nodes, one talks (3 messages, 2 attempts), another restarts | holds |
| `reliable_wake` | true success when the sender restarts | 2 nodes, 2 messages, 1 attempt | **violated** |
| `forwarding_walks` | walks are short, end, and lead to their goal, step by step and in the end | all 81 tables of 3 nodes for the ways from a to c and from c or b back; time to live 0, 1, 2, 130, 257; one fault | holds |
| `forwarding_ids` | every node of the configuration can be written to | line of 3, ids 1, 2, 200 | **violated** |
| `timers_safety` | heartbeats in time, no false suspicion, no undetected silence, the neighbours heard last kept in stalled mode, refinement of `FailureDetector` | line of 3, heartbeat 1, heartcheck 3, eight units of time, two events | holds |
| `retry_spaced` | an answer in time, attempts apart | 2 attempts 4 units apart, 18 units of time | holds |
| `packets_told` | what is written is read | packets of 24 bytes; vectors of up to 4 entries; 2 packets, 2 relays | holds |
| `destinations_typed` | heartbeats go on whatever is typed | 2 nodes, the sizes of the program, 2 and 9000 typed | **violated** |

The five violations are in `PROJECT.json` "findings":

* `update_rt` keeps the next hop of a path that broke when another of equal cost
  exists. Two nodes then send packets to each other for ever although the tables
  are settled and a path works.
* Two neighbours that have dropped each other never speak again: `send_dv` sends
  to online neighbours only, and only a vector brings a neighbour online.
* A confirmation is judged by its number alone, and `/wake` starts the numbers
  again: a late one is taken for that of a message nobody has shown.
* The ids of a chat packet are one signed byte. A node of 128 or more can be routed to
  (vectors carry 32 bits) but never written to. A time to live beyond 127 is
  negative too, and does no harm: it counts on through -128 to 127.
* A message to a number that is no node, or `/drop` of it, widens the tables to that
  number, and every vector with them. From 8187 on the vector does not fit in a
  datagram: the node is silent until `/wake`. Smaller numbers spread to the
  neighbours, 511 at most, and come back from them after `/wake`.

**Bounds.** Three nodes are the fewest with a path that is not a link, two
neighbours to choose from and counting to infinity (the line); the triangle has
a detour cheaper than a link whose cost reaches `Infinity`, and four nodes make the
tie. `Infinity` 3 or 4 is above every true distance of those networks (the slow
side of the triangle excepted, on purpose). `QueueCap` bounds the datagrams in
flight on each link; one more is lost, as a full socket buffer loses it. With 1 nothing
overtakes on a link, though datagrams of different links do; in `router_converge` node 0
has 2. `MaxFaults` 1 is one disturbance of a network in any state of its life, the
start included, where any first heartbeat may be missing. `router_tie` starts at
rest to reach the tie at once. In the triangle and the line no tie comes up, so next hops
always offer what is announced (`HopsOffer`); `router_tie` is the run where they do not. In `router_converge`
the end node that goes may leave two vectors under way, and the distances told of it count
from 2 to `Infinity`. All links of the runs cost something. With `FreeCost` in place of
`LineCost` in `MCRouter_converge.cfg` both of its properties fail: across a link of cost 0, which
`enlaces.config` may hold, `recv_dv` adds nothing, the two ends offer each other a route to a
node that is gone for ever, and the cut at `infinity` never comes.
In `Reliable` two attempts let a retry meet the
confirmation of the first; three messages let a late packet meet the next but one;
two restarts are a `/sleep` and a `/wake`, or two `/wake`. In `Forwarding` packets do not
meet, so one CHAT and its confirmation are enough; three nodes make a loop of two
that the packet enters from outside, and as every table is a start, one fault makes or
mends any loop. 130 is a time to live that travels as -126 and still allows 131 links,
257 one that travels as 1. `MaxHops` is above every time to live plus one:
`WalkBounded` and `TypeOK` would fail before it is reached.
In `Timers` the unit is two seconds, with a heartbeat of one unit and a heartcheck of three, and
`Second` 0 then says that a neighbour heard in an earlier unit than another was heard more than
a second before it. `Poll` 2 of the middle node lets its turns miss a heartbeat; `Delay` 0 means
that a datagram is read in the unit it was sent in, in any order with what else happens in it. The
middle node has two neighbours, so that `/hc` of a stalled node has to choose between them: one
whose heartbeat of the unit has come and one whose has not. Eight units are two heartchecks and a
late turn after the start, the time `SleeperDropped` allows, and let a neighbour be dropped and
come back. Two events are a command and its undoing, `/stall` and `/hc`, an order to
all, or two lost datagrams in a row, which make a false suspicion. All commands are typed at
the middle node; `/sleep` and `/hc` are also given to all, itself included (`Broadcast`: with
all five the instance is several times as large). The ends may be exchanged (`SYMMETRY`), as every
property quantifies over all nodes.
`IntMax` is above every sum: the clock does not wrap in the run (`NoWrap`).
In `Retry` 18 units hold two messages, one of them slept upon.
24 bytes leave the same three bytes behind the last whole entry as the 4096 of the program
do, two entries fit, and vectors of three and four are cut; two packets let the second
find what the first left in the buffer. Bytes above 127 occur in distances, sequence
numbers, times to live and texts. The capacity of a buffer grows in the program in steps
of 256, here to what is asked: what lies beyond the size is not read in either.

**Fairness.** `Fairness` of `Router`: the main loop drains the socket (`RecvDv`,
`DiscardDv`), the timers expire again and again (`HeartBeat`, `DropCheck`) and time
passes (`FallSilent`). Each is weak and per link or node, and none is asked of a
fault, of a command or of a repair. `FallSilent` may happen only when nothing can
come, since heartbeats are more frequent than heartchecks (`heartcheck` is twice
`heartbeat` by default, three times in `autoexec.script`); that this is enough is
`OnlyMissedAreDropped` of `Timers`. `Reliable`: `rbl_logic` is
called in every turn of the loop of an awake node; nothing makes a packet arrive.
`Forwarding`: a packet on a link is received or lost, as the main loop drains its
socket; `RouteDelivers` asks for arrival only when no fault happens on the way.
`Destinations`: the heartbeat of every node comes again and again. `Timers` and `Retry` need
no fairness: that something happens in time is a bound on the time (`BeatsInTime`,
`SleeperDropped`, `AnswerInTime`), which `Tick` may not pass while a turn is due.
Deadlock is not checked in the runs of `Reliable`, `Retry`, `Packets` and `Forwarding`: once the
bounded users have nothing more to say and all answers are in, or the time is up, the
system is done.

`EventuallyConverged` is checked only where links are not repaired: with repairs
it fails for the reason `router_heal` shows. That distances do become the true ones is
temporal and stays with TLC. The safety half, that tables which agree are true, is
`SettledConverged`, and next hops are in `SettledRoutesReach`: both hold with repairs too,
and are proved for every network without free links, the second where next hops offer the distance
announced.

## 4. Proofs

All theorems are about the specifications TLC checks, for every value of the
constants under the named assumptions.

**`RouterProofs`** (any number of nodes, symmetric non-negative costs, any
`Infinity`, any faults). `RoutingInv` is inductive together with `TypeOK`. Beside the two
properties users care for, it says that only configured neighbours are online
and that a column not yet known holds nothing: without the latter `update_rt`,
which stops at `num_destinations()`, could miss a distance. `RouterProofs` first
shows of each table operation that it keeps a table `Coherent`, and of `UpdateRt` that it
leaves the best distances (`MinOfNaturals` shows that `Min` is the minimum;
`BestViaIsNeighbour` that a tie is broken among live neighbours), then has one step
per action. Theorems: `TypeCorrect`, `RoutingCorrect`, `RoutesUsable`, `AdvertisedIsBest`.

**`ConvergenceProofs`** (any number of nodes, costs, `Infinity`, faults, repairs and
commands; where it is said, `PositiveCosts`: no link is free).

* `NoDistanceInvented` (`PositiveCosts`): every distance in a table or under way is the cost of
  some way, and one stored for a neighbour that of a way which begins with it. Prefixing a
  link to a walk is a walk (`Prepend`), unless it comes back to the destination, where the
  vector says 0; this is what makes an old vector harmless.
* `SettledIsConverged` (`PositiveCosts`): a settled network has true distances. Upwards, the
  smallest announced distance without an open walk would have a first step that announces less
  (`HopFits`, `SettledWalks`: here a free link would break the argument, as it does with
  `FreeCost`); downwards, every open walk bounds what its nodes announce, from its end to
  its start (`SettledLower`). Beside `RoutingInv` it uses `SelfInv`: a node is at distance 0 of
  itself unless `/drop` was given its own number, and links fail in both directions. There is no
  induction over walks: the provers take the least counterexample instead (`LeastOf`).
* `SettledRoutesLead` (`PositiveCosts`): where next hops offer the distance announced, those of a
  settled network lead where they say. `HopsAreLostToTies` (any network): a next hop ceases to do
  so by a tie and in no other way (the one property here no run checks: the runs without
  ties check `HopsOffer`, which says more). `router_tie` shows such a tie, after which routes do
  not lead. That the shortest routes of a network have no ties, as those of `enlaces.config` have none, does
  not exclude it: offers of old ways and of ways that bounce between neighbours are compared too
  (from 2 to 6 such ways through 4 and through 5 cost 20). Nothing is therefore claimed of next
  hops from the costs of the links alone.
* `RestIsStable` (any network): at rest, heartbeats and heartchecks in any order change nothing.
* `EstrangementLasts` (any network): what `router_heal` finds on one link, neighbours that never
  speak again, is so on every link of every network until an operator types `/wake`.
* `CountingIsUpwards` (`PositiveCosts`): what is told of a node nobody hears of is based on what
  was told before, and every distance stored anew is longer. Together with the cut at `Infinity`
  (`TypeCorrect`) this is why counting to infinity ends; that it does is `router_converge`.

**`ReliableProofs`**. `TypeCorrect` holds of every instance. `SendingCorrect`,
`SuccessIsTrue`, `ShownInOrderOnce` and `ReliableImplementsService` assume
`Talker \cap Restarter = {}`: no node that types messages is restarted. That
assumption is needed: `reliable_wake` shows it fail without. The inductive invariant
`SendingInv` says that the number in use for a target is above all numbers of packets and
confirmations under way, those of the pending message excepted; that
numbers and messages grow together; that a confirmation of the number in use
exists only once its target has shown the message; and that whatever a receiver
would still show comes after all it has shown. Each action of `Reliable` is then
an action of `ChatService` or leaves the screens alone.

**`ForwardingProofs`** (any nodes, tables and integers as times to live). The links behind a
packet and the time it has left, taken modulo 256, add up to the time it started
with and one (`WalkBounded`, inductive with `TypeOK`). `CountDown` is the fact about
bytes it rests on: a time to live that is not 0 loses one modulo 256 when it
is counted down and written, the step from -128 to 127 included. `FreshLeaves`, `AgedLeaves`
and `SentBounded` follow a packet from the node that makes it or sends it on to the link.
`PacketsStayInReach` is the safety half of `RouteDelivers`: with ids up to 127 (`SmallIds`, needed
as `forwarding_ids` shows) a packet that its next hops lead to its goal in the time it has
left is, after the next node has handled it, at its goal or still such a packet. The path
loses its first node and the time to live one (`ReachForward`).

**`TimersProofs`** (any network, periods, delays and commands, under
`PatienceAssumption`: a heartbeat, a late turn and a delay fit into a heartcheck; and
`NoWrap`: no sum of times overflows; types need neither). `TimersInv` is inductive.
`ClockInv` says that nothing is later than now and nothing due is overdue; `DeadlineInv` that
the heartbeat is due one period after the node last spoke and the heartcheck at most
two after it heard any neighbour it trusts; `FreshInv` that a neighbour who missed
nothing has heard the last vector or has one under way; `SilenceInv` that a sleeper
sends orders only. From `DeadlineInv` follow `BeatsInTime` and the second half of
the detector, from `FreshInv` that only the missed are dropped, and every action is one of
`FailureDetector` or leaves its variables alone. In stalled mode
a node loses only those `Behind` (`StalledDropsBehind`), and nobody behind is among the latest,
of whom there is always one (`SomeoneIsLatest`, `LatestKept`).

**`RetryProofs`** (any timeout, attempts and bound on a turn, `NoWrap`). `AttemptsInv` keeps an
account of time: `sendtime` plus one timeout for every attempt left is the time the
answer is due, and the turns of an awake node keep up with it.

**`PacketsProofs`** (any packet size that is a multiple of 8, any 32-bit distances and
sequence numbers, ids up to 127, any texts). `BitsValue` shows that four bytes make the int
again, sign included. `PacketsInv` with the well-formedness of buffers is
inductive; a step of the loop in `send_dv` extends the form by an entry, one of `recv_dv` reads one.
`MaxPacket % 8 = 0` is used for a cut vector: the three bytes left over end the loop as
a number whose missing byte reads as a sign.

**`DestinationsProofs`**. `WrittenIsRead`: for a table of any size and any cell,
`tab_set` then `tab_get` gives what was written there and what was before
elsewhere. Row and column are found again from the place in the block (`CellFound`,
`CellHasPlace`), so the copy of `tab_resize` moves every cell to its own. `OnlyNodesAreCounted` and
`HeartbeatsAreTold` assume that only numbers of nodes are typed, and the second that the
nodes fit in a datagram; `destinations_typed` shows what happens otherwise.

Only model-checked is what is temporal: `EventuallyConverged`, `NeighboursRedetected`,
`EveryMessageAnswered`, `EveryWalkEnds`, `RouteDelivers`, `NeighboursKeepHearing`. Liveness
under fairness is out of the prover's reach. `HopsOffer` is only checked too: it holds in networks
where no tie comes up, and is no property of every network. Every other invariant and every
action property of a passing run is stated by a theorem too.

## 5. Not modelled, and the plan

Not modelled, with the hazards that remain in `PROJECT.json` without a property:

* The clock beyond 24.8 days. `Clock` wraps as `sys_getMilli` does; the properties of `Timers` and
  `Retry` are claimed below the limit of the `int` and fail beyond it, as an
  instance with `IntMax = 7` shows (a live neighbour is dropped when the sum
  with `heartcheck` wraps). A clock that is set while the program runs is not modelled.
* The console: `con_checkInput`, `con_run` and `con_runfile` turn keys and script lines into
  commands, one after the other in one process. Its two oddities (a single trailing
  blank is stripped, long script lines are split) are in the hazards.
* The text of commands, orders included, and initialisation (`autoexec.script` runs
  before `rbl_init`).
* The composition of all modules into one. They meet in few places, each checked
  where it is: next hops are live neighbours (`RoutesUsable`) as `Forwarding` needs,
  packets arrive as they were sent (`Packets`) as `Router` and `Reliable` assume, silence
  means death (`Timers`) as `FallSilent` of `Router` assumes, the network that does anything to
  packets of `Reliable` allows all that `Forwarding` does.
* Printing and debug output, terminal modes, sockets and addresses, parsing of the
  command line. Changing `options.infinity` or the timeouts while running is left
  out: they are constants of the models. A link from a node to itself and
  negative costs are assumed absent from `enlaces.config` (`CostAssumption`).

The plan from here: the wrap of the clock as a run of its own; the line discipline of the
console; one turn of the main loop after the other, with `Router`, `Forwarding` and
`Reliable` instantiated together.
