------------------------------- MODULE Packets -------------------------------
(***************************************************************************)
(* What a packet carries from the node that builds it to the one that      *)
(* reads it: a vector of distances written and read in a loop, a chat      *)
(* message or its confirmation aged by the nodes that relay it, an order.  *)
(* One packet at a time (what the network does to whole packets is in      *)
(* Router and Reliable), and one buffer that every arrival reuses.         *)
(***************************************************************************)
EXTENDS Buffer

CONSTANTS
  MaxPacket,           \* MAX_PACKET_SIZE
  Ids, Seqs, Ttls,     \* nodes, sequence numbers and times to live of messages
  Texts,               \* what is typed
  Dists, MaxNodes,     \* distances and lengths of a vector
  MaxPackets,          \* bound on the packets built
  MaxRelays            \* bound on the nodes that relay one

ASSUME PacketsAssumption ==
  /\ MaxPacket \in Nat \ {0} /\ MaxPacket % 8 = 0    \* 4096
  /\ Ids \subseteq 0 .. 127     \* the larger ones are misread: Forwarding
  /\ Seqs \subseteq Int32 /\ Ttls \subseteq Int
  /\ Texts \subseteq Seq(1 .. 255)
  /\ \A t \in Texts : Len(t) + 9 <= MaxPacket       \* 100 characters at most
  /\ Dists \subseteq Int32 /\ MaxNodes \in Nat /\ MaxNodes <= MaxInt32
  /\ MaxPackets \in Nat /\ MaxRelays \in Nat

CmdOrder == 1
CmdDv == 11
CmdChat == 21
CmdConfirm == 22

(* What a packet is built from.                                            *)
Vector(id, n, dist) == [ cmd |-> CmdDv, id |-> id, size |-> n, dist |-> dist ]
Message(cmd, to, from, ttl, seq, text) ==
  [ cmd |-> cmd, to |-> to, from |-> from, ttl |-> ttl, seq |-> seq, text |-> text ]
Order(text) == [ cmd |-> CmdOrder, text |-> text ]
Nothing == [ cmd |-> 0 ]

VARIABLES
  pc,         \* where the packet has come
  out, next,  \* msg and i of send_dv
  wire,       \* the datagram sent
  in,         \* msg of the main loop
  via, got,   \* what recv_dv has read: the neighbour, and pairs of node and distance
  shown,      \* what the destination of a message or of an order has read of it
  told,       \* history: what the packet carries,
  built,      \*   how many were built,
  relays      \*   how many nodes have relayed it

sender == <<out, next>>
reader == <<in, via, got, shown>>
vars == <<pc, wire, sender, reader, told, built, relays>>

Datagram(buf) == [ size |-> buf.size, data |-> [i \in 0 .. buf.size - 1 |-> buf.data[i]] ]
NoDatagram == Datagram(Create)

Init ==
  /\ pc = "idle" /\ wire = NoDatagram
  /\ out = Create /\ next = 0
  /\ in = Create /\ via = -1 /\ got = <<>> /\ shown = Nothing
  /\ told = Nothing /\ built = 0 /\ relays = 0

Build(m) ==
  /\ pc = "idle" /\ built < MaxPackets
  /\ told' = m /\ built' = built + 1 /\ relays' = 0
  /\ shown' = Nothing
  /\ UNCHANGED <<in, via, got>>

-----------------------------------------------------------------------------
(* send_dv: the head of the vector, then its loop.                         *)
BeginVector(id, n, dist) ==
  /\ Build(Vector(id, n, dist))
  /\ out' = Write32(Write8(Create, CmdDv), id)
  /\ next' = 0 /\ pc' = "telling"
  /\ UNCHANGED wire

TellOne ==
  /\ pc = "telling" /\ next < told.size
  /\ out' = Write32(Write32(out, next), told.dist[next])
  /\ next' = next + 1
  /\ UNCHANGED <<pc, wire, reader, told, built, relays>>

EndVector ==
  /\ pc = "telling" /\ next = told.size
  /\ wire' = Datagram(Write32(out, -1)) /\ pc' = "sent"
  /\ out' = Create /\ next' = 0
  /\ UNCHANGED <<reader, told, built, relays>>

(* The head of a chat message or a confirmation.                           *)
Head8(cmd, to, from, ttl, seq) ==
  Write32(Write8(Write8(Write8(Write8(Create, cmd), to), from), ttl), seq)

(* An attempt of rbl_logic.                                                *)
SendChat(to, from, ttl, seq, text) ==
  /\ Build(Message(CmdChat, to, from, ttl, seq, text))
  /\ wire' = Datagram(WriteCStr(Head8(CmdChat, to, from, ttl, seq), text)) /\ pc' = "sent"
  /\ UNCHANGED sender

(* cmd_all, to one of the nodes.                                           *)
SendOrder(text) ==
  /\ Build(Order(text))
  /\ wire' = Datagram(WriteCStr(Write8(Create, CmdOrder), text)) /\ pc' = "sent"
  /\ UNCHANGED sender

-----------------------------------------------------------------------------
(* net_recv: the datagram, cut to the size of the buffer, over what the    *)
(* buffer held.                                                            *)
NetRecv(buf, d) ==
  LET room == Resize(buf, MaxPacket)
      len  == IF d.size > MaxPacket THEN MaxPacket ELSE d.size
  IN Rewind(Resize(Rewind([room EXCEPT
       !.data = [i \in DOMAIN @ |-> IF i < len THEN d.data[i] ELSE @[i]]]), len))

Receive ==
  /\ pc = "sent"
  /\ in' = NetRecv(in, wire) /\ wire' = NoDatagram /\ pc' = "arrived"
  /\ UNCHANGED <<sender, via, got, shown, told, built, relays>>

Arrived(cmds) == pc = "arrived" /\ Read8(in) \in cmds

(* recv_dv: who tells, then its loop, up to a negative node.               *)
HearVector ==
  /\ Arrived({CmdDv})
  /\ via' = Read32(After8(in)) /\ got' = <<>>
  /\ in' = After32(After8(in)) /\ pc' = "hearing"
  /\ UNCHANGED <<wire, sender, shown, told, built, relays>>

HearOne ==
  /\ pc = "hearing" /\ Read32(in) >= 0
  /\ got' = Append(got, <<Read32(in), Read32(After32(in))>>)
  /\ in' = After32(After32(in))
  /\ UNCHANGED <<pc, wire, sender, via, shown, told, built, relays>>

EndHearing ==
  /\ pc = "hearing" /\ Read32(in) < 0
  /\ in' = After32(in) /\ via' = -1 /\ got' = <<>>
  /\ pc' = "idle" /\ told' = Nothing
  /\ UNCHANGED <<wire, sender, shown, built, relays>>

-----------------------------------------------------------------------------
(* rbl_readmessage: the fields of the message in the buffer.               *)
Body     == After8(in)
To       == Read8(Body)
From     == Read8(After8(Body))
Ttl      == Read8(After8(After8(Body)))
AfterTtl == After8(After8(After8(Body)))
Seqno    == Read32(AfterTtl)
Rest     == After32(AfterTtl)

(* Another node than the destination writes the time to live over its old  *)
(* place and sends the packet on, or drops it.                             *)
Relay(me) ==
  /\ Arrived({CmdChat, CmdConfirm}) /\ To # me /\ Ttl # 0
  /\ relays < MaxRelays
  /\ in' = Write8(After8(After8(After8(Rewind(in)))), Ttl - 1)
  /\ wire' = Datagram(in') /\ pc' = "sent"
  /\ told' = [told EXCEPT !.ttl = @ - 1] /\ relays' = relays + 1
  /\ UNCHANGED <<sender, via, got, shown, built>>

Drop(me) ==
  /\ Arrived({CmdChat, CmdConfirm}) /\ To # me /\ Ttl = 0
  /\ in' = Rest /\ pc' = "idle" /\ told' = Nothing
  /\ UNCHANGED <<wire, sender, via, got, shown, built, relays>>

(* The destination confirms a chat message and shows it (which ones it     *)
(* shows is said in Reliable).                                             *)
DeliverChat(me, ttl) ==
  /\ Arrived({CmdChat}) /\ To = me
  /\ wire' = Datagram(Head8(CmdConfirm, From, me, ttl, Seqno)) /\ pc' = "sent"
  /\ told' = Message(CmdConfirm, From, me, ttl, Seqno, <<>>) /\ relays' = 0
  /\ shown' = [ cmd |-> CmdChat, from |-> From, seq |-> Seqno, text |-> Text(Rest) ]
  /\ in' = Rest
  /\ UNCHANGED <<sender, via, got, built>>

DeliverConfirm(me) ==
  /\ Arrived({CmdConfirm}) /\ To = me
  /\ shown' = [ cmd |-> CmdConfirm, from |-> From, seq |-> Seqno ]
  /\ in' = Rest /\ pc' = "idle" /\ told' = Nothing
  /\ UNCHANGED <<wire, sender, via, got, built, relays>>

(* cmd_order: what the command interpreter is given.                       *)
Obey ==
  /\ Arrived({CmdOrder})
  /\ shown' = [ cmd |-> CmdOrder, text |-> Text(Body) ]
  /\ in' = Body /\ pc' = "idle" /\ told' = Nothing
  /\ UNCHANGED <<wire, sender, via, got, built, relays>>

Next ==
  \/ \E id \in Ids, n \in 0 .. MaxNodes :
       \E dist \in [0 .. n - 1 -> Dists] : BeginVector(id, n, dist)
  \/ TellOne \/ EndVector
  \/ \E to, from \in Ids, ttl \in Ttls, seq \in Seqs, text \in Texts :
       SendChat(to, from, ttl, seq, text)
  \/ \E text \in Texts : SendOrder(text)
  \/ Receive
  \/ HearVector \/ HearOne \/ EndHearing
  \/ \E me \in Ids : Relay(me) \/ Drop(me) \/ DeliverConfirm(me)
  \/ \E me \in Ids, ttl \in Ttls : DeliverChat(me, ttl)
  \/ Obey

Spec == Init /\ [][Next]_vars

-----------------------------------------------------------------------------
(* The form the comments of router.c and reliable.c give a packet:         *)
(* <command> <id> [<node> <distance>]* <-1>,                               *)
(* <command> <to> <from> <timetolive> <seqno> <msg>.                       *)
Size(m) == IF m.cmd = CmdDv THEN 9 + 8 * m.size
           ELSE IF m.cmd = CmdChat THEN 9 + Len(m.text)
           ELSE IF m.cmd = CmdConfirm THEN 8
           ELSE 2 + Len(m.text)

(* The byte i of the entries: a node and its distance in turn, then -1.    *)
EntryByte(m, i) == LET node == i \div 8
                       byte == i % 8
                   IN IF node >= m.size THEN 255
                      ELSE IF byte < 4 THEN Bits(node, byte) ELSE Bits(m.dist[node], byte - 4)

VectorByte(m, i) == IF i = 0 THEN CmdDv ELSE IF i < 5 THEN Bits(m.id, i - 1) ELSE EntryByte(m, i - 5)

MessageByte(m, i) == IF i < 4 THEN <<m.cmd, m.to, m.from, m.ttl % 256>>[i + 1]
                     ELSE IF i < 8 THEN Bits(m.seq, i - 4) ELSE TextByte(m.text, i - 8)

OrderByte(m, i) == IF i = 0 THEN CmdOrder ELSE TextByte(m.text, i - 1)

PacketByte(m, i) == IF m.cmd = CmdDv THEN VectorByte(m, i)
                    ELSE IF m.cmd = CmdOrder THEN OrderByte(m, i) ELSE MessageByte(m, i)

(* How many entries of a vector a packet has room for: the last 3 bytes of *)
(* a full one are the start of a node, whose missing byte reads as a sign. *)
Room == (MaxPacket \div 8) - 1

-----------------------------------------------------------------------------
(* What recv_dv takes from a packet (router.c:145-166, szb.c:104) is who   *)
(* tells and, in their order, the entries told, distances of any sign and  *)
(* size unharmed; when it stops it has them all or, of a packet that was   *)
(* cut (net.c:104), the first ones that fit: never half an entry nor one   *)
(* that an earlier packet left in the buffer.                              *)
VectorsHeard ==
  pc = "hearing" =>
    /\ via = told.id
    /\ Len(got) <= told.size
    /\ got = [k \in 1 .. Len(got) |-> <<k - 1, told.dist[k - 1]>>]
    /\ Read32(in) < 0 => Len(got) = IF told.size <= Room THEN told.size ELSE Room

Shown(m) ==
  IF m.cmd = CmdOrder THEN m
  ELSE IF m.cmd = CmdChat
    THEN [ cmd |-> CmdChat, from |-> m.from, seq |-> m.seq, text |-> m.text ]
  ELSE [ cmd |-> CmdConfirm, from |-> m.from, seq |-> m.seq ]

(* A destination reads of a message what its source wrote, whoever relayed *)
(* it and whatever came before in its buffer, and a node is given an order *)
(* as it was typed (reliable.c:78-101, main.c:30).                         *)
ShownAsSent ==
  [][ Obey \/ (\E me \in Ids : DeliverConfirm(me) \/ \E ttl \in Ttls : DeliverChat(me, ttl))
        => shown' = Shown(told) ]_vars

(* A packet sent on is the packet received but for its time to live, one   *)
(* less in eight bits: a write in the middle of a buffer neither shortens  *)
(* nor lengthens the message (reliable.c:86-92, szb.c:24-29).              *)
RelayedWhole ==
  [][ (\E me \in Ids : Relay(me)) =>
        /\ wire'.size = in.size
        /\ \A i \in 0 .. in.size - 1 :
             wire'.data[i] = IF i = 3 THEN (in.data[3] - 1) % 256 ELSE in.data[i] ]_vars

(* A packet has its form, and what arrives is the packet up to the size of *)
(* the buffer.                                                             *)
HasForm(data, n, m) == \A i \in 0 .. n - 1 : data[i] = PacketByte(m, i)

Cut(n) == IF n > MaxPacket THEN MaxPacket ELSE n

PacketsInv ==
  /\ pc = "telling" =>
       /\ out.pos = 5 + 8 * next /\ out.size = out.pos /\ next <= told.size
       /\ HasForm(out.data, out.size, told)
  /\ pc = "sent" => wire.size = Size(told) /\ HasForm(wire.data, wire.size, told)
  /\ pc \in {"arrived", "hearing"} =>
       /\ in.size = Cut(Size(told)) /\ HasForm(in.data, in.size, told)
       /\ in.pos = IF pc = "arrived" THEN 0 ELSE 5 + 8 * Len(got)

=============================================================================
