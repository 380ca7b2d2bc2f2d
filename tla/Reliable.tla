------------------------------ MODULE Reliable ------------------------------
(***************************************************************************)
(* The reliable chat messages of reliable.c: one message at a time per     *)
(* node, sequence numbers per pair of nodes, confirmations and retries.    *)
(*                                                                         *)
(* The network between two nodes is whatever the routers make of it:       *)
(* "net" holds every packet ever sent, so that one may be received late,   *)
(* out of order, again, or never.  A copy is what a retry sends too.       *)
(* The clock is left out: an attempt may come at any time.                 *)
(***************************************************************************)
EXTENDS Integers, Sequences

CONSTANTS
  Node,
  Talker,       \* nodes where a user types messages
  Restarter,    \* nodes an operator puts to sleep and wakes
  RAttempts,    \* options.rattempts
  MaxMessages,  \* bound on the messages a talker accepts
  MaxRestarts   \* bound on the /sleep and /wake commands

ASSUME ReliableAssumption ==
  /\ Talker \subseteq Node
  /\ Restarter \subseteq Node
  /\ RAttempts \in Nat
  /\ MaxMessages \in Nat
  /\ MaxRestarts \in Nat

VARIABLES
  pending, sendtarget, attempts,  \* the static variables of reliable.c
  sndbuf,                         \* number of the message in the buffer
  inseqno, outseqno,              \* inseqno[m][n]: what m expects next from n
  sleeping,                       \* options.sleeping
  net,                            \* packets sent so far
  restarts,                       \* commands so far, a bound on the model only
  said, verdict, heard, everHeard \* what the screens have shown

service == INSTANCE ChatService

senderVars == <<pending, sendtarget, attempts, sndbuf>>
screens    == <<said, verdict, heard, everHeard>>
vars == <<senderVars, inseqno, outseqno, sleeping, net, restarts, screens>>

(* <command> <to> <from> <timetolive> <seqno> <msg>                        *)
Chat == [cmd : {"chat"}, to : Node, from : Node, seqno : Nat, msg : Nat]
Confirm == [cmd : {"confirm"}, to : Node, from : Node, seqno : Nat]

TypeOK ==
  /\ pending \in [Node -> BOOLEAN]
  /\ sendtarget \in [Node -> Node]
  /\ attempts \in [Node -> -1 .. RAttempts]
  /\ sndbuf \in [Node -> Nat]
  /\ inseqno \in [Node -> [Node -> Nat]]
  /\ outseqno \in [Node -> [Node -> Nat]]
  /\ sleeping \in [Node -> BOOLEAN]
  /\ net \subseteq Chat \cup Confirm
  /\ restarts \in 0 .. MaxRestarts
  /\ said \in [Node -> Seq(Node)]
  /\ verdict \in [Node -> Seq({"open", "sucessful", "error"})]
  /\ heard \in [Node -> [Node -> Seq(Nat)]]
  /\ everHeard \in [Node -> SUBSET (Node \X Nat)]

Init ==
  /\ pending = [n \in Node |-> FALSE]
  /\ sendtarget \in {[n \in Node |-> d] : d \in Node}
  /\ attempts = [n \in Node |-> 0]
  /\ sndbuf = [n \in Node |-> 0]
  /\ inseqno = [m \in Node |-> [n \in Node |-> 0]]
  /\ outseqno = [n \in Node |-> [m \in Node |-> 0]]
  /\ sleeping = [n \in Node |-> FALSE]
  /\ net = {}
  /\ restarts = 0
  /\ service!ServiceInit

-----------------------------------------------------------------------------
(* The user of n types a message for d.  While one is pending the line is  *)
(* refused, whether or not n sleeps.                                       *)
RblSendMessage(n, d) ==
  /\ Len(said[n]) < MaxMessages
  /\ ~ pending[n]
  /\ pending' = [pending EXCEPT ![n] = TRUE]
  /\ sendtarget' = [sendtarget EXCEPT ![n] = d]
  /\ attempts' = [attempts EXCEPT ![n] = RAttempts]
  /\ sndbuf' = [sndbuf EXCEPT ![n] = Len(said[n]) + 1]
  /\ said' = [said EXCEPT ![n] = Append(@, d)]
  /\ verdict' = [verdict EXCEPT ![n] = Append(@, "open")]
  /\ UNCHANGED <<inseqno, outseqno, sleeping, net, restarts, heard, everHeard>>

(* Seeded fault: the message stays in the buffer after the error.          *)
AbandonedStillPending(n) ==
  /\ outseqno' = [outseqno EXCEPT ![n][sendtarget[n]] = @ + 1]
  /\ pending' = pending

(* Seeded fault: the sequence number of a lost message is used again.      *)
AbandonedSameSeqno(n) ==
  /\ outseqno' = outseqno
  /\ pending' = [pending EXCEPT ![n] = FALSE]

(* n gives up the message: the next one takes another sequence number.     *)
Abandoned(n) ==
  /\ outseqno' = [outseqno EXCEPT ![n][sendtarget[n]] = @ + 1]
  /\ pending' = [pending EXCEPT ![n] = FALSE]

(* One attempt less.                                                       *)
CountAttempt(n) == attempts' = [attempts EXCEPT ![n] = @ - 1]

(* Seeded fault: without a route the message waits for one.                *)
GiveUpOnlyExhausted(n) ==
  /\ pending[n] /\ ~ sleeping[n]
  /\ attempts[n] <= 0
  /\ CountAttempt(n)
  /\ Abandoned(n)
  /\ verdict' = [verdict EXCEPT ![n][sndbuf[n]] = "error"]
  /\ UNCHANGED <<sendtarget, sndbuf, inseqno, sleeping, net, restarts,
                 said, heard, everHeard>>

(* rbl_logic when no attempt is left, or when the routing table has no     *)
(* next hop for the target, as it may at any time.                         *)
GiveUp(n) ==
  /\ pending[n] /\ ~ sleeping[n]
  /\ CountAttempt(n)
  /\ Abandoned(n)
  /\ verdict' = [verdict EXCEPT ![n][sndbuf[n]] = "error"]
  /\ UNCHANGED <<sendtarget, sndbuf, inseqno, sleeping, net, restarts,
                 said, heard, everHeard>>

(* rbl_logic when it has a next hop, which no node has for itself.         *)
Attempt(n) ==
  /\ pending[n] /\ ~ sleeping[n]
  /\ attempts[n] > 0
  /\ sendtarget[n] # n
  /\ CountAttempt(n)
  /\ net' = net \cup {[cmd |-> "chat", to |-> sendtarget[n], from |-> n,
                       seqno |-> outseqno[n][sendtarget[n]], msg |-> sndbuf[n]]}
  /\ UNCHANGED <<pending, sendtarget, sndbuf, inseqno, outseqno, sleeping,
                 restarts, screens>>

-----------------------------------------------------------------------------
(* Seeded fault: every message received is shown.                          *)
ExpectedAny(p) == TRUE

(* A message is shown when its number is the one expected, or a later one. *)
Expected(p) == p.seqno >= inseqno[p.to][p.from]

(* rbl_readmessage of a CHAT: it is confirmed whatever its number.         *)
ReadChat(p) ==
  /\ p \in net /\ p.cmd = "chat" /\ ~ sleeping[p.to]
  /\ net' = net \cup {[cmd |-> "confirm", to |-> p.from, from |-> p.to,
                       seqno |-> p.seqno]}
  /\ IF Expected(p)
     THEN /\ inseqno' = [inseqno EXCEPT ![p.to][p.from] = p.seqno + 1]
          /\ heard' = [heard EXCEPT ![p.to][p.from] = Append(@, p.msg)]
          /\ everHeard' = [everHeard EXCEPT ![p.to] = @ \cup {<<p.from, p.msg>>}]
     ELSE UNCHANGED <<inseqno, heard, everHeard>>
  /\ UNCHANGED <<senderVars, outseqno, sleeping, restarts, said, verdict>>

(* Seeded fault: any CONFIRM that comes while one is awaited will do.      *)
AwaitedAny(p) == pending[p.to]

(* The number is the only thing a CONFIRM is judged by.                    *)
Awaited(p) == p.seqno = outseqno[p.to][p.from]

(* rbl_readmessage of a CONFIRM; one with another number changes nothing.  *)
ReadConfirm(p) ==
  /\ p \in net /\ p.cmd = "confirm" /\ ~ sleeping[p.to]
  /\ Awaited(p)
  /\ outseqno' = [outseqno EXCEPT ![p.to][p.from] = p.seqno + 1]
  /\ pending' = [pending EXCEPT ![p.to] = FALSE]
  /\ verdict' = [verdict EXCEPT ![p.to][sndbuf[p.to]] = "sucessful"]
  /\ UNCHANGED <<sendtarget, attempts, sndbuf, inseqno, sleeping, net, restarts,
                 said, heard, everHeard>>

-----------------------------------------------------------------------------
(* /sleep *)
Sleep(n) ==
  /\ restarts < MaxRestarts
  /\ ~ sleeping[n]
  /\ sleeping' = [sleeping EXCEPT ![n] = TRUE]
  /\ restarts' = restarts + 1
  /\ UNCHANGED <<senderVars, inseqno, outseqno, net, screens>>

(* /wake: router_restart makes all tables anew, the sequence numbers with  *)
(* them; the message being sent, which is not in a table, survives.        *)
Wake(n) ==
  /\ restarts < MaxRestarts
  /\ sleeping' = [sleeping EXCEPT ![n] = FALSE]
  /\ inseqno' = [inseqno EXCEPT ![n] = [m \in Node |-> 0]]
  /\ outseqno' = [outseqno EXCEPT ![n] = [m \in Node |-> 0]]
  /\ heard' = [heard EXCEPT ![n] = [m \in Node |-> <<>>]]
  /\ restarts' = restarts + 1
  /\ UNCHANGED <<senderVars, net, said, verdict, everHeard>>

-----------------------------------------------------------------------------
Next ==
  \/ \E n \in Talker :
       \/ \E d \in Node : RblSendMessage(n, d)
       \/ GiveUp(n)
       \/ Attempt(n)
  \/ \E p \in net : ReadChat(p) \/ ReadConfirm(p)
  \/ \E n \in Restarter : Sleep(n) \/ Wake(n)

Spec == Init /\ [][Next]_vars

(* The main loop calls rbl_logic again and again and the clock moves on.   *)
(* Nothing makes a packet arrive.                                          *)
FairSpec == Spec /\ \A n \in Talker : WF_vars(GiveUp(n) \/ Attempt(n))

-----------------------------------------------------------------------------
(* A message reported "sucessful" has been shown where it was sent,        *)
(* whichever packets are lost, late or repeated (rbl_readmessage confirms  *)
(* before it looks at the sequence number, and does not ask whether a      *)
(* message is pending, or for whom).                                       *)
SuccessImpliesHeard ==
  \A n \in Node : \A k \in DOMAIN verdict[n] :
    verdict[n][k] = "sucessful" => <<n, k>> \in everHeard[said[n][k]]

(* Between two restarts a node shows the messages of another at most once  *)
(* each and in the order typed, although retries repeat them and the       *)
(* network reorders them.                                                  *)
HeardInOrderOnce ==
  \A m, n \in Node : \A i, j \in DOMAIN heard[m][n] :
    i < j => heard[m][n][i] < heard[m][n][j]

(* The screens show nothing the chat service does not promise.             *)
ImplementsService == service!ServiceSpec

(* A message never blocks the chat for ever: its sender is told something. *)
EveryMessageAnswered == \A n \in Talker : pending[n] ~> ~ pending[n]

-----------------------------------------------------------------------------
(* Why the two properties hold when no talker is restarted: the sequence   *)
(* number of the message being sent is above all the numbers in the net    *)
(* and in the tables but those that belong to that very message.           *)

ChatsTo(m, n) == {p \in net : p.cmd = "chat" /\ p.from = n /\ p.to = m}

(* The message in the buffer is the last one accepted, the only open one,  *)
(* and a pending one has not been overtaken by its own sequence number.    *)
BufferInv ==
  \A n \in Node :
    /\ Len(verdict[n]) = Len(said[n])
    /\ \A k \in DOMAIN said[n] :
         verdict[n][k] = "open" <=> pending[n] /\ k = sndbuf[n]
    /\ pending[n] => /\ n \in Talker
                     /\ Len(said[n]) > 0
                     /\ sndbuf[n] = Len(said[n])
                     /\ said[n][sndbuf[n]] = sendtarget[n]

(* m has heard the message n is sending it.                                *)
HasHeard(m, n) ==
  pending[n] /\ sendtarget[n] = m /\ <<n, sndbuf[n]>> \in everHeard[m]

(* A chat packet carries a message said to its target; its number is that  *)
(* of the pending message just when it carries that message.               *)
ChatInv ==
  \A n, m \in Node : \A p \in ChatsTo(m, n) :
    /\ n \in Talker
    /\ p.msg \in DOMAIN said[n] /\ said[n][p.msg] = m
    /\ p.seqno <= outseqno[n][m]
    /\ p.seqno = outseqno[n][m] => pending[n]
    /\ pending[n] => (p.seqno = outseqno[n][m] <=> p.msg = sndbuf[n])

(* Numbers and messages of a pair of nodes grow together.                  *)
ChatOrderInv ==
  \A n, m \in Node : \A p, q \in ChatsTo(m, n) :
    /\ p.seqno < q.seqno => p.msg < q.msg
    /\ p.seqno = q.seqno => p.msg = q.msg

(* A confirmation of the number in use is of the message in the buffer,    *)
(* and its target has shown it.                                            *)
ConfirmInv ==
  \A p \in net : p.cmd = "confirm" =>
    /\ p.to \in Talker
    /\ p.seqno <= outseqno[p.to][p.from]
    /\ p.seqno = outseqno[p.to][p.from] => HasHeard(p.from, p.to)

(* A receiver is at most one number ahead, by the message it has shown.    *)
SeqnoInv ==
  \A m, n \in Node :
    /\ inseqno[m][n] > 0 => n \in Talker
    /\ inseqno[m][n] > 0 => inseqno[m][n] <= outseqno[n][m] + 1
    /\ inseqno[m][n] = outseqno[n][m] + 1 => HasHeard(m, n)

(* What m would still show of n comes after all it has shown.              *)
HeardInv ==
  \A m, n \in Node : \A i \in DOMAIN heard[m][n] :
    /\ heard[m][n][i] \in DOMAIN said[n]
    /\ \A p \in ChatsTo(m, n) :
         p.seqno >= inseqno[m][n] => heard[m][n][i] < p.msg
    /\ pending[n] /\ sendtarget[n] = m /\ inseqno[m][n] <= outseqno[n][m] =>
         heard[m][n][i] < sndbuf[n]

(* The inductive invariant.                                                *)
SendingInv ==
  /\ BufferInv
  /\ ChatInv
  /\ ChatOrderInv
  /\ ConfirmInv
  /\ SeqnoInv
  /\ HeardInv
  /\ HeardInOrderOnce
  /\ SuccessImpliesHeard

=============================================================================
