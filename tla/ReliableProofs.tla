--------------------------- MODULE ReliableProofs ---------------------------
(***************************************************************************)
(* Theorems about Reliable, for any number of nodes and messages.          *)
(***************************************************************************)
EXTENDS Reliable, SequenceTheorems, TLAPS

(* Updates of functions of functions and of functions of sequences.        *)
LEMMA UpdateType ==
  ASSUME NEW A, NEW B, NEW S, NEW f \in [A -> [B -> S]],
         NEW a \in A, NEW b \in B, NEW e \in S
  PROVE  [f EXCEPT ![a][b] = e] \in [A -> [B -> S]]
OBVIOUS

LEMMA UpdateSeqType ==
  ASSUME NEW A, NEW S, NEW f \in [A -> Seq(S)], NEW a \in A, NEW i, NEW e \in S
  PROVE  [f EXCEPT ![a][i] = e] \in [A -> Seq(S)]
<1> DEFINE s == f[a]
           t == [s EXCEPT ![i] = e]
<1>1. s \in Seq(S)
  OBVIOUS
<1>2. DOMAIN s = 1 .. Len(s) /\ Len(s) \in Nat
  BY <1>1
<1>3. DOMAIN t = 1 .. Len(s)
  BY <1>2
<1>4. t \in [1 .. Len(s) -> S]
  <2>1. s \in [1 .. Len(s) -> S]
    BY <1>1
  <2> QED
    BY <1>2, <2>1
<1>5. t \in Seq(S)
  BY <1>2, <1>4, SeqDef
<1> QED
  BY <1>5

LEMMA AppendType ==
  ASSUME NEW A, NEW S, NEW f \in [A -> Seq(S)], NEW a \in A, NEW e \in S
  PROVE  [f EXCEPT ![a] = Append(@, e)] \in [A -> Seq(S)]
OBVIOUS

(* The fields of a packet in the net.                                      *)
LEMMA PacketType ==
  ASSUME TypeOK, NEW p \in net
  PROVE  /\ p.to \in Node /\ p.from \in Node /\ p.seqno \in Nat
         /\ p.cmd = "chat" => p \in Chat /\ p.msg \in Nat
         /\ p.cmd = "confirm" => p \in Confirm
BY DEF TypeOK, Chat, Confirm

(* A pending message has attempts left to count down.                      *)
AttemptsInv == \A n \in Node : pending[n] => attempts[n] >= 0

LEMMA TypeInit == Init => TypeOK /\ AttemptsInv
BY ReliableAssumption DEF Init, TypeOK, AttemptsInv, service!ServiceInit

LEMMA TypeStep == TypeOK /\ AttemptsInv /\ [Next]_vars => TypeOK' /\ AttemptsInv'
<1> SUFFICES ASSUME TypeOK, AttemptsInv, [Next]_vars
             PROVE  TypeOK' /\ AttemptsInv'
  OBVIOUS
<1>a. attempts \in [Node -> -1 .. RAttempts] /\ RAttempts \in Nat
  BY ReliableAssumption DEF TypeOK
<1>b. pending \in [Node -> BOOLEAN]
  BY DEF TypeOK
<1>c. outseqno \in [Node -> [Node -> Nat]] /\ inseqno \in [Node -> [Node -> Nat]]
  BY DEF TypeOK
<1>d. sndbuf \in [Node -> Nat] /\ sendtarget \in [Node -> Node]
  BY DEF TypeOK
<1>e. said \in [Node -> Seq(Node)]
  BY DEF TypeOK
<1>f. verdict \in [Node -> Seq({"open", "sucessful", "error"})]
  BY DEF TypeOK
<1>g. heard \in [Node -> [Node -> Seq(Nat)]]
  BY DEF TypeOK
<1>h. everHeard \in [Node -> SUBSET (Node \X Nat)]
  BY DEF TypeOK
<1>i. net \subseteq Chat \cup Confirm
  BY DEF TypeOK
<1>j. sleeping \in [Node -> BOOLEAN] /\ restarts \in 0 .. MaxRestarts
  BY DEF TypeOK
<1>k. Talker \subseteq Node /\ Restarter \subseteq Node /\ MaxRestarts \in Nat
  BY ReliableAssumption
<1>1. ASSUME NEW n \in Talker, NEW d \in Node, RblSendMessage(n, d)
      PROVE  TypeOK' /\ AttemptsInv'
  <2>1. pending' \in [Node -> BOOLEAN] /\ sendtarget' \in [Node -> Node]
    BY <1>1, <1>b, <1>d DEF RblSendMessage
  <2>2. attempts' \in [Node -> -1 .. RAttempts] /\ AttemptsInv'
    BY <1>1, <1>a, <1>b, <1>k DEF AttemptsInv, RblSendMessage
  <2>3. sndbuf' \in [Node -> Nat]
    BY <1>1, <1>d, <1>e, <1>k DEF RblSendMessage
  <2>4. said' \in [Node -> Seq(Node)]
    BY <1>1, <1>e, <1>k, AppendType DEF RblSendMessage
  <2>5. verdict' \in [Node -> Seq({"open", "sucessful", "error"})]
    BY <1>1, <1>f, <1>k, AppendType DEF RblSendMessage
  <2> QED
    BY <1>1, <2>1, <2>2, <2>3, <2>4, <2>5 DEF TypeOK, RblSendMessage
<1>2. ASSUME NEW n \in Talker, GiveUp(n)
      PROVE  TypeOK' /\ AttemptsInv'
  <2>1. pending' \in [Node -> BOOLEAN]
    BY <1>2, <1>b DEF GiveUp, Abandoned
  <2>2. attempts' \in [Node -> -1 .. RAttempts] /\ AttemptsInv'
    BY <1>2, <1>a, <1>b, <1>k DEF AttemptsInv, GiveUp, Abandoned, CountAttempt
  <2>3. outseqno' \in [Node -> [Node -> Nat]]
    BY <1>2, <1>c, <1>d, <1>k DEF GiveUp, Abandoned
  <2>4. verdict' \in [Node -> Seq({"open", "sucessful", "error"})]
    BY <1>2, <1>f, <1>k, UpdateSeqType DEF GiveUp
  <2> QED
    BY <1>2, <2>1, <2>2, <2>3, <2>4 DEF TypeOK, GiveUp
<1>3. ASSUME NEW n \in Talker, Attempt(n)
      PROVE  TypeOK' /\ AttemptsInv'
  <2>1. attempts' \in [Node -> -1 .. RAttempts] /\ AttemptsInv'
    BY <1>3, <1>a, <1>b, <1>k DEF AttemptsInv, Attempt, CountAttempt
  <2>2. net' \subseteq Chat \cup Confirm
    <3>1. n \in Node /\ sendtarget[n] \in Node /\ sndbuf[n] \in Nat
          /\ outseqno[n][sendtarget[n]] \in Nat
      BY <1>c, <1>d, <1>k
    <3> QED
      BY <1>3, <1>i, <3>1 DEF Attempt, Chat
  <2> QED
    BY <1>3, <2>1, <2>2 DEF TypeOK, Attempt, screens
<1>4. ASSUME NEW p \in net, ReadChat(p)
      PROVE  TypeOK' /\ AttemptsInv'
  <2>1. p.to \in Node /\ p.from \in Node /\ p.seqno \in Nat /\ p.msg \in Nat
    BY <1>4, PacketType DEF ReadChat
  <2>2. net' \subseteq Chat \cup Confirm
    BY <1>4, <1>i, <2>1 DEF ReadChat, Confirm
  <2>3. CASE Expected(p)
    <3>1. inseqno' \in [Node -> [Node -> Nat]]
      <4>1. inseqno' = [inseqno EXCEPT ![p.to][p.from] = p.seqno + 1]
        BY <1>4, <2>3 DEF ReadChat
      <4> QED
        BY <1>c, <2>1, <4>1
    <3>2. heard' \in [Node -> [Node -> Seq(Nat)]]
      <4>1. heard' = [heard EXCEPT ![p.to][p.from] = Append(@, p.msg)]
        BY <1>4, <2>3 DEF ReadChat
      <4>2. Append(heard[p.to][p.from], p.msg) \in Seq(Nat)
        BY <1>g, <2>1
      <4> QED
        BY <1>g, <2>1, <4>1, <4>2
    <3>3. everHeard' \in [Node -> SUBSET (Node \X Nat)]
      BY <1>4, <1>h, <2>1, <2>3 DEF ReadChat
    <3> QED
      BY <1>4, <2>2, <3>1, <3>2, <3>3
      DEF TypeOK, AttemptsInv, ReadChat, senderVars
  <2>4. CASE ~ Expected(p)
    BY <1>4, <2>2, <2>4 DEF TypeOK, AttemptsInv, ReadChat, senderVars
  <2> QED
    BY <2>3, <2>4
<1>5. ASSUME NEW p \in net, ReadConfirm(p)
      PROVE  TypeOK' /\ AttemptsInv'
  <2>1. p.to \in Node /\ p.from \in Node /\ p.seqno \in Nat
    BY <1>5, PacketType
  <2>2. outseqno' \in [Node -> [Node -> Nat]]
    BY <1>5, <1>c, <2>1 DEF ReadConfirm
  <2>3. verdict' \in [Node -> Seq({"open", "sucessful", "error"})]
    <3>1. verdict' = [verdict EXCEPT ![p.to][sndbuf[p.to]] = "sucessful"]
      BY <1>5 DEF ReadConfirm
    <3>2. \A S, f, a, i, e : f \in [Node -> Seq(S)] /\ a \in Node /\ e \in S
             => [f EXCEPT ![a][i] = e] \in [Node -> Seq(S)]
      BY UpdateSeqType
    <3> QED
      BY <1>f, <2>1, <3>1, <3>2
  <2>4. pending' \in [Node -> BOOLEAN] /\ AttemptsInv'
    BY <1>5, <1>b, <2>1 DEF AttemptsInv, ReadConfirm
  <2> QED
    BY <1>5, <2>2, <2>3, <2>4 DEF TypeOK, ReadConfirm
<1>6. ASSUME NEW n \in Restarter, Sleep(n)
      PROVE  TypeOK' /\ AttemptsInv'
  <2>1. sleeping' \in [Node -> BOOLEAN] /\ restarts' \in 0 .. MaxRestarts
    BY <1>6, <1>j, <1>k DEF Sleep
  <2> QED
    BY <1>6, <2>1 DEF TypeOK, AttemptsInv, Sleep, senderVars, screens
<1>7. ASSUME NEW n \in Restarter, Wake(n)
      PROVE  TypeOK' /\ AttemptsInv'
  <2>1. /\ inseqno' \in [Node -> [Node -> Nat]]
        /\ outseqno' \in [Node -> [Node -> Nat]]
    BY <1>7, <1>c, <1>k DEF Wake
  <2>2. heard' \in [Node -> [Node -> Seq(Nat)]]
    BY <1>7, <1>g, <1>k DEF Wake
  <2>3. sleeping' \in [Node -> BOOLEAN] /\ restarts' \in 0 .. MaxRestarts
    BY <1>7, <1>j, <1>k DEF Wake
  <2> QED
    BY <1>7, <2>1, <2>2, <2>3 DEF TypeOK, AttemptsInv, Wake, senderVars
<1>8. CASE UNCHANGED vars
  BY <1>8 DEF TypeOK, AttemptsInv, vars, senderVars, screens
<1> QED
  BY <1>1, <1>2, <1>3, <1>4, <1>5, <1>6, <1>7, <1>8 DEF Next

(* Every variable keeps its type (TypeOK): rbl_logic in particular never   *)
(* counts the attempts below -1.                                           *)
THEOREM TypeCorrect == Spec => []TypeOK
<1> QED
  BY TypeInit, TypeStep, PTL DEF Spec

-----------------------------------------------------------------------------
(* The chat packets of the net between two nodes.                          *)
LEMMA ChatType ==
  ASSUME TypeOK, NEW n \in Node, NEW m \in Node, NEW p \in ChatsTo(m, n)
  PROVE  /\ p \in net /\ p.cmd = "chat" /\ p.from = n /\ p.to = m
         /\ p.seqno \in Nat /\ p.msg \in Nat
BY PacketType DEF ChatsTo

LEMMA SendingInit == Init => SendingInv
<1> SUFFICES ASSUME Init PROVE SendingInv
  OBVIOUS
<1> USE DEF Init, service!ServiceInit
<1>1. BufferInv
  <2>1. \A n \in Node : said[n] = <<>> /\ verdict[n] = <<>> /\ ~ pending[n]
    OBVIOUS
  <2>2. DOMAIN <<>> = {}
    OBVIOUS
  <2>3. \A n \in Node : DOMAIN said[n] = {} /\ Len(verdict[n]) = Len(said[n])
    BY ONLY <2>1, <2>2
  <2> QED
    BY ONLY <2>1, <2>3 DEF BufferInv
<1>2. \A m, n \in Node : ChatsTo(m, n) = {}
  BY DEF ChatsTo
<1>3. ChatInv /\ ChatOrderInv
  BY <1>2 DEF ChatInv, ChatOrderInv
<1>4. ConfirmInv
  BY DEF ConfirmInv
<1>5. SeqnoInv
  <2>1. \A m, n \in Node : inseqno[m][n] = 0 /\ outseqno[n][m] = 0
    OBVIOUS
  <2> QED
    BY ONLY <2>1 DEF SeqnoInv
<1>6. HeardInv /\ HeardInOrderOnce /\ SuccessImpliesHeard
  BY DEF HeardInv, HeardInOrderOnce, SuccessImpliesHeard
<1> QED
  BY <1>1, <1>3, <1>4, <1>5, <1>6 DEF SendingInv

(* A message that has been accepted starts from a clean slate: its sequence *)
(* number is in no packet and no receiver is ahead of it.                   *)
LEMMA SendingSay ==
  ASSUME TypeOK, SendingInv, NEW n \in Talker, NEW d \in Node, RblSendMessage(n, d)
  PROVE  SendingInv'
<1>a. /\ n \in Node /\ ~ pending[n]
      /\ pending' = [pending EXCEPT ![n] = TRUE]
      /\ sendtarget' = [sendtarget EXCEPT ![n] = d]
      /\ sndbuf' = [sndbuf EXCEPT ![n] = Len(said[n]) + 1]
      /\ said' = [said EXCEPT ![n] = Append(@, d)]
      /\ verdict' = [verdict EXCEPT ![n] = Append(@, "open")]
      /\ UNCHANGED <<inseqno, outseqno, net, heard, everHeard>>
  BY ReliableAssumption DEF RblSendMessage
<1>b. /\ pending \in [Node -> BOOLEAN]
      /\ sendtarget \in [Node -> Node]
      /\ sndbuf \in [Node -> Nat]
      /\ said \in [Node -> Seq(Node)]
      /\ verdict \in [Node -> Seq({"open", "sucessful", "error"})]
  BY DEF TypeOK
<1>c. \A x \in Node : /\ Len(said[x]) \in Nat
                      /\ DOMAIN said[x] = 1 .. Len(said[x])
                      /\ Len(verdict[x]) \in Nat
                      /\ DOMAIN verdict[x] = 1 .. Len(verdict[x])
  BY <1>b
<1>d. /\ Len(said'[n]) = Len(said[n]) + 1
      /\ DOMAIN said'[n] = 1 .. Len(said[n]) + 1
      /\ said'[n][Len(said[n]) + 1] = d
      /\ \A k \in DOMAIN said[n] : said'[n][k] = said[n][k]
  BY <1>a, <1>b
<1>e. /\ Len(verdict'[n]) = Len(verdict[n]) + 1
      /\ DOMAIN verdict'[n] = 1 .. Len(verdict[n]) + 1
      /\ verdict'[n][Len(verdict[n]) + 1] = "open"
      /\ \A k \in DOMAIN verdict[n] : verdict'[n][k] = verdict[n][k]
  BY <1>a, <1>b
<1>f. \A x \in Node \ {n} : /\ said'[x] = said[x] /\ verdict'[x] = verdict[x]
                            /\ pending'[x] = pending[x]
                            /\ sndbuf'[x] = sndbuf[x]
                            /\ sendtarget'[x] = sendtarget[x]
  BY <1>a, <1>b
<1>g. pending'[n] /\ sndbuf'[n] = Len(said[n]) + 1 /\ sendtarget'[n] = d
  BY <1>a, <1>b
<1>1. BufferInv'
  <2> SUFFICES ASSUME NEW x \in Node
               PROVE  /\ Len(verdict'[x]) = Len(said'[x])
                      /\ \A k \in DOMAIN said'[x] :
                           verdict'[x][k] = "open" <=> pending'[x] /\ k = sndbuf'[x]
                      /\ pending'[x] => /\ x \in Talker
                                        /\ Len(said'[x]) > 0
                                        /\ sndbuf'[x] = Len(said'[x])
                                        /\ said'[x][sndbuf'[x]] = sendtarget'[x]
    BY DEF BufferInv
  <2>1. CASE x = n
    BY <2>1, <1>a, <1>c, <1>d, <1>e, <1>g DEF SendingInv, BufferInv
  <2>2. CASE x # n
    BY <2>2, <1>f DEF SendingInv, BufferInv
  <2> QED
    BY <2>1, <2>2
<1>2. \A m, x \in Node : ChatsTo(m, x)' = ChatsTo(m, x)
  BY <1>a DEF ChatsTo
<1>3. ChatInv'
  <2> SUFFICES ASSUME NEW x \in Node, NEW m \in Node, NEW p \in ChatsTo(m, x)
               PROVE  /\ x \in Talker
                      /\ p.msg \in DOMAIN said'[x] /\ said'[x][p.msg] = m
                      /\ p.seqno <= outseqno[x][m]
                      /\ p.seqno = outseqno[x][m] => pending'[x]
                      /\ pending'[x] => (p.seqno = outseqno[x][m] <=> p.msg = sndbuf'[x])
    BY <1>2, <1>a DEF ChatInv
  <2>1. CASE x = n
    BY <2>1, <1>a, <1>c, <1>d, <1>g DEF SendingInv, ChatInv
  <2>2. CASE x # n
    BY <2>2, <1>f DEF SendingInv, ChatInv
  <2> QED
    BY <2>1, <2>2
<1>4. ChatOrderInv'
  BY <1>2 DEF SendingInv, ChatOrderInv
<1>5. \A m, x \in Node : HasHeard(m, x) => HasHeard(m, x)'
  BY <1>a, <1>f DEF HasHeard
<1>6. ConfirmInv'
  BY <1>5, <1>a, PacketType DEF SendingInv, ConfirmInv
<1>7. SeqnoInv'
  BY <1>5, <1>a DEF SendingInv, SeqnoInv
<1>8. HeardInv'
  <2> SUFFICES ASSUME NEW m \in Node, NEW x \in Node, NEW i \in DOMAIN heard[m][x]
               PROVE  /\ heard[m][x][i] \in DOMAIN said'[x]
                      /\ \A p \in ChatsTo(m, x) :
                           p.seqno >= inseqno[m][x] => heard[m][x][i] < p.msg
                      /\ pending'[x] /\ sendtarget'[x] = m /\ inseqno[m][x] <= outseqno[x][m]
                           => heard[m][x][i] < sndbuf'[x]
    BY <1>2, <1>a DEF HeardInv
  <2>1. CASE x = n
    BY <2>1, <1>c, <1>d, <1>g DEF SendingInv, HeardInv
  <2>2. CASE x # n
    BY <2>2, <1>f DEF SendingInv, HeardInv
  <2> QED
    BY <2>1, <2>2
<1>9. HeardInOrderOnce'
  BY <1>a DEF SendingInv, HeardInOrderOnce
<1>10. SuccessImpliesHeard'
  <2> SUFFICES ASSUME NEW x \in Node, NEW k \in DOMAIN verdict'[x],
                      verdict'[x][k] = "sucessful"
               PROVE  <<x, k>> \in everHeard[said'[x][k]]
    BY <1>a DEF SuccessImpliesHeard
  <2>1. CASE x = n
    <3>1. k \in DOMAIN verdict[n] /\ k \in DOMAIN said[n]
      BY <2>1, <1>c, <1>e DEF SendingInv, BufferInv
    <3> QED
      BY <2>1, <3>1, <1>d, <1>e DEF SendingInv, SuccessImpliesHeard
  <2>2. CASE x # n
    BY <2>2, <1>f DEF SendingInv, SuccessImpliesHeard
  <2> QED
    BY <2>1, <2>2
<1> QED
  BY <1>1, <1>3, <1>4, <1>6, <1>7, <1>8, <1>9, <1>10 DEF SendingInv

(* The message in the buffer ends, reported as v: its sequence number falls *)
(* behind, with every packet and every receiver that had it.               *)
LEMMA SendingEnd ==
  ASSUME TypeOK, SendingInv, NEW n \in Node, pending[n],
         NEW v \in {"sucessful", "error"},
         v = "sucessful" => HasHeard(sendtarget[n], n),
         outseqno' = [outseqno EXCEPT ![n][sendtarget[n]] = @ + 1],
         pending' = [pending EXCEPT ![n] = FALSE],
         verdict' = [verdict EXCEPT ![n][sndbuf[n]] = v],
         UNCHANGED <<sendtarget, sndbuf, inseqno, net, said, heard, everHeard>>
  PROVE  SendingInv'
<1> DEFINE t == sendtarget[n]
<1>a. /\ UNCHANGED <<sendtarget, sndbuf, inseqno, net, said, heard, everHeard>>
      /\ outseqno' = [outseqno EXCEPT ![n][t] = @ + 1]
  OBVIOUS
<1>b. /\ pending \in [Node -> BOOLEAN]
      /\ sendtarget \in [Node -> Node]
      /\ sndbuf \in [Node -> Nat]
      /\ outseqno \in [Node -> [Node -> Nat]]
      /\ inseqno \in [Node -> [Node -> Nat]]
      /\ said \in [Node -> Seq(Node)]
      /\ verdict \in [Node -> Seq({"open", "sucessful", "error"})]
  BY DEF TypeOK
<1>c. t \in Node
  BY <1>b
<1>d. /\ outseqno'[n][t] = outseqno[n][t] + 1
      /\ \A x, m \in Node : x # n \/ m # t => outseqno'[x][m] = outseqno[x][m]
  BY <1>a, <1>b, <1>c
<1>e. ~ pending'[n] /\ \A x \in Node \ {n} : pending'[x] = pending[x]
  BY <1>b
<1>f. \A x \in Node : Len(said[x]) \in Nat /\ DOMAIN said[x] = 1 .. Len(said[x])
  BY <1>b
<1>g. /\ n \in Talker
      /\ sndbuf[n] = Len(said[n]) /\ sndbuf[n] \in DOMAIN said[n]
      /\ said[n][sndbuf[n]] = t
  BY <1>f DEF SendingInv, BufferInv
<1>h. /\ Len(verdict'[n]) = Len(verdict[n])
      /\ verdict'[n][sndbuf[n]] = v
      /\ \A k \in DOMAIN verdict[n] : k # sndbuf[n] => verdict'[n][k] = verdict[n][k]
      /\ DOMAIN verdict'[n] = DOMAIN verdict[n]
      /\ DOMAIN verdict[n] = DOMAIN said[n]
      /\ \A x \in Node \ {n} : verdict'[x] = verdict[x]
  <2>1. verdict[n] \in Seq({"open", "sucessful", "error"})
    BY <1>b
  <2>2. DOMAIN verdict[n] = DOMAIN said[n] /\ sndbuf[n] \in 1 .. Len(verdict[n])
    BY <1>f, <1>g, <2>1 DEF SendingInv, BufferInv
  <2>3. verdict'[n] = [verdict[n] EXCEPT ![sndbuf[n]] = v]
    BY <1>b
  <2>4. Len(verdict'[n]) = Len(verdict[n])
    BY <2>1, <2>2, <2>3, ExceptSeq
  <2> QED
    BY <1>b, <2>1, <2>2, <2>3, <2>4
<1>1. BufferInv'
  <2> SUFFICES ASSUME NEW x \in Node
               PROVE  /\ Len(verdict'[x]) = Len(said[x])
                      /\ \A k \in DOMAIN said[x] :
                           verdict'[x][k] = "open" <=> pending'[x] /\ k = sndbuf[x]
                      /\ pending'[x] => /\ x \in Talker
                                        /\ Len(said[x]) > 0
                                        /\ sndbuf[x] = Len(said[x])
                                        /\ said[x][sndbuf[x]] = sendtarget[x]
    BY <1>a DEF BufferInv
  <2>1. CASE x = n
    BY <2>1, <1>e, <1>h DEF SendingInv, BufferInv
  <2>2. CASE x # n
    BY <2>2, <1>e, <1>h DEF SendingInv, BufferInv
  <2> QED
    BY <2>1, <2>2
<1>2. \A m, x \in Node : ChatsTo(m, x)' = ChatsTo(m, x)
  BY <1>a DEF ChatsTo
<1>3. ChatInv'
  <2> SUFFICES ASSUME NEW x \in Node, NEW m \in Node, NEW p \in ChatsTo(m, x)
               PROVE  /\ x \in Talker
                      /\ p.msg \in DOMAIN said[x] /\ said[x][p.msg] = m
                      /\ p.seqno <= outseqno'[x][m]
                      /\ p.seqno = outseqno'[x][m] => pending'[x]
                      /\ pending'[x] => (p.seqno = outseqno'[x][m] <=> p.msg = sndbuf[x])
    BY <1>2, <1>a DEF ChatInv
  <2>1. /\ x \in Talker
        /\ p.msg \in DOMAIN said[x] /\ said[x][p.msg] = m
        /\ p.seqno <= outseqno[x][m]
        /\ p.seqno = outseqno[x][m] => pending[x]
        /\ pending[x] => (p.seqno = outseqno[x][m] <=> p.msg = sndbuf[x])
    BY DEF SendingInv, ChatInv
  <2>2. p.seqno \in Nat /\ outseqno[x][m] \in Nat
    BY <1>b, ChatType
  <2>3. CASE x # n
    BY <2>1, <2>3, <1>d, <1>e
  <2>4. CASE x = n /\ m = t
    BY <2>1, <2>2, <2>4, <1>d, <1>e
  <2>5. CASE x = n /\ m # t
    BY <2>1, <2>5, <1>d, <1>e, <1>g
  <2> QED
    BY <2>3, <2>4, <2>5
<1>4. ChatOrderInv'
  BY <1>2 DEF SendingInv, ChatOrderInv
<1>5. \A m, x \in Node : x # n /\ HasHeard(m, x) => HasHeard(m, x)'
  BY <1>a, <1>e DEF HasHeard
<1>6. ConfirmInv'
  <2> SUFFICES ASSUME NEW p \in net, p.cmd = "confirm"
               PROVE  /\ p.to \in Talker
                      /\ p.seqno <= outseqno'[p.to][p.from]
                      /\ p.seqno = outseqno'[p.to][p.from] => HasHeard(p.from, p.to)'
    BY <1>a DEF ConfirmInv
  <2>1. /\ p.to \in Node /\ p.from \in Node /\ p.seqno \in Nat
        /\ outseqno[p.to][p.from] \in Nat
    BY <1>b, PacketType
  <2>2. /\ p.to \in Talker
        /\ p.seqno <= outseqno[p.to][p.from]
        /\ p.seqno = outseqno[p.to][p.from] => HasHeard(p.from, p.to)
    BY DEF SendingInv, ConfirmInv
  <2>3. CASE p.to # n
    BY <2>1, <2>2, <2>3, <1>d, <1>5
  <2>4. CASE p.to = n /\ p.from = t
    BY <2>1, <2>2, <2>4, <1>d
  <2>5. CASE p.to = n /\ p.from # t
    BY <2>1, <2>2, <2>5, <1>d DEF HasHeard
  <2> QED
    BY <2>3, <2>4, <2>5
<1>7. SeqnoInv'
  <2> SUFFICES ASSUME NEW m \in Node, NEW x \in Node
               PROVE  /\ inseqno[m][x] > 0 => x \in Talker
                      /\ inseqno[m][x] > 0 => inseqno[m][x] <= outseqno'[x][m] + 1
                      /\ inseqno[m][x] = outseqno'[x][m] + 1 => HasHeard(m, x)'
    BY <1>a DEF SeqnoInv
  <2>1. inseqno[m][x] \in Nat /\ outseqno[x][m] \in Nat
    BY <1>b
  <2>2. /\ inseqno[m][x] > 0 => x \in Talker
        /\ inseqno[m][x] > 0 => inseqno[m][x] <= outseqno[x][m] + 1
        /\ inseqno[m][x] = outseqno[x][m] + 1 => HasHeard(m, x)
    BY DEF SendingInv, SeqnoInv
  <2>3. CASE x # n
    BY <2>1, <2>2, <2>3, <1>d, <1>5
  <2>4. CASE x = n /\ m = t
    BY <2>1, <2>2, <2>4, <1>d
  <2>5. CASE x = n /\ m # t
    BY <2>1, <2>2, <2>5, <1>d DEF HasHeard
  <2> QED
    BY <2>3, <2>4, <2>5
<1>8. HeardInv'
  <2> SUFFICES ASSUME NEW m \in Node, NEW x \in Node, NEW i \in DOMAIN heard[m][x]
               PROVE  /\ heard[m][x][i] \in DOMAIN said[x]
                      /\ \A p \in ChatsTo(m, x) :
                           p.seqno >= inseqno[m][x] => heard[m][x][i] < p.msg
                      /\ pending'[x] /\ sendtarget[x] = m /\ inseqno[m][x] <= outseqno'[x][m]
                           => heard[m][x][i] < sndbuf[x]
    BY <1>2, <1>a DEF HeardInv
  <2>1. CASE x = n
    BY <2>1, <1>e DEF SendingInv, HeardInv
  <2>2. CASE x # n
    BY <2>2, <1>d, <1>e DEF SendingInv, HeardInv
  <2> QED
    BY <2>1, <2>2
<1>9. HeardInOrderOnce'
  BY <1>a DEF SendingInv, HeardInOrderOnce
<1>10. SuccessImpliesHeard'
  <2> SUFFICES ASSUME NEW x \in Node, NEW k \in DOMAIN verdict'[x],
                      verdict'[x][k] = "sucessful"
               PROVE  <<x, k>> \in everHeard[said[x][k]]
    BY <1>a DEF SuccessImpliesHeard
  <2>1. CASE x = n /\ k = sndbuf[n]
    BY <2>1, <1>g, <1>h DEF HasHeard
  <2>2. CASE x # n \/ k # sndbuf[n]
    BY <2>2, <1>h DEF SendingInv, SuccessImpliesHeard
  <2> QED
    BY <2>1, <2>2
<1> QED
  BY <1>1, <1>3, <1>4, <1>6, <1>7, <1>8, <1>9, <1>10 DEF SendingInv

(* An attempt sends the buffer under the number in use.                    *)
LEMMA SendingAttempt ==
  ASSUME TypeOK, SendingInv, NEW n \in Node, Attempt(n)
  PROVE  SendingInv'
<1> DEFINE t == sendtarget[n]
           c == [cmd |-> "chat", to |-> t, from |-> n,
                 seqno |-> outseqno[n][t], msg |-> sndbuf[n]]
<1>a. /\ pending[n]
      /\ net' = net \cup {c}
      /\ UNCHANGED <<pending, sendtarget, sndbuf, inseqno, outseqno,
                     said, verdict, heard, everHeard>>
  BY DEF Attempt, screens
<1>b. /\ sendtarget \in [Node -> Node]
      /\ sndbuf \in [Node -> Nat]
      /\ outseqno \in [Node -> [Node -> Nat]]
      /\ inseqno \in [Node -> [Node -> Nat]]
      /\ said \in [Node -> Seq(Node)]
  BY DEF TypeOK
<1>c. /\ t \in Node
      /\ DOMAIN said[n] = 1 .. Len(said[n]) /\ Len(said[n]) \in Nat
  BY <1>b
<1>d. /\ n \in Talker
      /\ sndbuf[n] = Len(said[n]) /\ sndbuf[n] \in DOMAIN said[n]
      /\ said[n][sndbuf[n]] = t
  BY <1>a, <1>c DEF SendingInv, BufferInv
<1>e. c.cmd = "chat" /\ c.to = t /\ c.from = n /\ c.seqno = outseqno[n][t]
      /\ c.msg = sndbuf[n]
  OBVIOUS
<1> HIDE DEF c
<1>f. \A m, x \in Node : /\ ChatsTo(m, x)' \subseteq ChatsTo(m, x) \cup {c}
                         /\ c \in ChatsTo(m, x)' => m = t /\ x = n
  BY <1>a, <1>e DEF ChatsTo
<1>1. BufferInv'
  BY <1>a DEF SendingInv, BufferInv
<1>2. ChatInv'
  <2> SUFFICES ASSUME NEW x \in Node, NEW m \in Node, NEW p \in ChatsTo(m, x)'
               PROVE  /\ x \in Talker
                      /\ p.msg \in DOMAIN said[x] /\ said[x][p.msg] = m
                      /\ p.seqno <= outseqno[x][m]
                      /\ p.seqno = outseqno[x][m] => pending[x]
                      /\ pending[x] => (p.seqno = outseqno[x][m] <=> p.msg = sndbuf[x])
    BY <1>a DEF ChatInv
  <2>1. CASE p \in ChatsTo(m, x)
    BY <2>1 DEF SendingInv, ChatInv
  <2>2. CASE p = c
    <3>1. m = t /\ x = n /\ outseqno[n][t] \in Nat
      BY <2>2, <1>b, <1>c, <1>f
    <3> QED
      BY <2>2, <3>1, <1>a, <1>d, <1>e
  <2> QED
    BY <2>1, <2>2, <1>f
<1>3. \A p \in ChatsTo(t, n) :
        /\ p.seqno \in Nat /\ p.msg \in Nat
        /\ p.seqno <= c.seqno
        /\ p.seqno < c.seqno => p.msg < c.msg
        /\ p.seqno = c.seqno => p.msg = c.msg
  <2> TAKE p \in ChatsTo(t, n)
  <2>1. p.seqno \in Nat /\ p.msg \in Nat /\ outseqno[n][t] \in Nat
    BY <1>b, <1>c, ChatType
  <2>2. /\ p.seqno <= outseqno[n][t]
        /\ p.msg \in DOMAIN said[n]
        /\ p.seqno = outseqno[n][t] <=> p.msg = sndbuf[n]
    BY <1>a, <1>c DEF SendingInv, ChatInv
  <2> QED
    BY <2>1, <2>2, <1>c, <1>d, <1>e
<1>4. ChatOrderInv'
  <2> SUFFICES ASSUME NEW x \in Node, NEW m \in Node,
                      NEW p \in ChatsTo(m, x)', NEW q \in ChatsTo(m, x)'
               PROVE  /\ p.seqno < q.seqno => p.msg < q.msg
                      /\ p.seqno = q.seqno => p.msg = q.msg
    BY DEF ChatOrderInv
  <2>1. c.seqno \in Nat
    BY <1>b, <1>c, <1>e
  <2>2. CASE p \in ChatsTo(m, x) /\ q \in ChatsTo(m, x)
    BY <2>2 DEF SendingInv, ChatOrderInv
  <2>3. CASE p \in ChatsTo(m, x) /\ q = c
    BY <2>3, <1>3, <1>f
  <2>4. CASE p = c /\ q \in ChatsTo(m, x)
    BY <2>1, <2>4, <1>3, <1>f
  <2>5. CASE p = c /\ q = c
    BY <2>1, <2>5
  <2> QED
    BY <2>2, <2>3, <2>4, <2>5, <1>f
<1>5. \A m, x \in Node : HasHeard(m, x) => HasHeard(m, x)'
  BY <1>a DEF HasHeard
<1>6. ConfirmInv'
  BY <1>a, <1>e, <1>5, PacketType DEF SendingInv, ConfirmInv
<1>7. SeqnoInv'
  BY <1>a, <1>5 DEF SendingInv, SeqnoInv
<1>8. HeardInv'
  <2> SUFFICES ASSUME NEW m \in Node, NEW x \in Node, NEW i \in DOMAIN heard[m][x]
               PROVE  /\ heard[m][x][i] \in DOMAIN said[x]
                      /\ \A p \in ChatsTo(m, x)' :
                           p.seqno >= inseqno[m][x] => heard[m][x][i] < p.msg
                      /\ pending[x] /\ sendtarget[x] = m /\ inseqno[m][x] <= outseqno[x][m]
                           => heard[m][x][i] < sndbuf[x]
    BY <1>a DEF HeardInv
  <2>1. /\ heard[m][x][i] \in DOMAIN said[x]
        /\ \A p \in ChatsTo(m, x) :
             p.seqno >= inseqno[m][x] => heard[m][x][i] < p.msg
        /\ pending[x] /\ sendtarget[x] = m /\ inseqno[m][x] <= outseqno[x][m]
             => heard[m][x][i] < sndbuf[x]
    BY DEF SendingInv, HeardInv
  <2>2. c \in ChatsTo(m, x)' /\ c.seqno >= inseqno[m][x] => heard[m][x][i] < c.msg
    BY <2>1, <1>a, <1>b, <1>e, <1>f
  <2> QED
    BY <2>1, <2>2, <1>f
<1>9. HeardInOrderOnce'
  BY <1>a DEF SendingInv, HeardInOrderOnce
<1>10. SuccessImpliesHeard'
  BY <1>a DEF SendingInv, SuccessImpliesHeard
<1> QED
  BY <1>1, <1>2, <1>4, <1>6, <1>7, <1>8, <1>9, <1>10 DEF SendingInv

(* A chat packet that is received is confirmed, and shown unless something *)
(* as recent has been: the confirmation is truthful in both cases.         *)
LEMMA SendingReadChat ==
  ASSUME TypeOK, SendingInv, NEW p \in net, ReadChat(p)
  PROVE  SendingInv'
<1> DEFINE n == p.from
           m == p.to
           c == [cmd |-> "confirm", to |-> n, from |-> m, seqno |-> p.seqno]
<1>a. /\ p.cmd = "chat"
      /\ net' = net \cup {c}
      /\ UNCHANGED <<pending, sendtarget, sndbuf, outseqno, said, verdict>>
      /\ Expected(p) =>
           /\ inseqno' = [inseqno EXCEPT ![m][n] = p.seqno + 1]
           /\ heard' = [heard EXCEPT ![m][n] = Append(@, p.msg)]
           /\ everHeard' = [everHeard EXCEPT ![m] = @ \cup {<<n, p.msg>>}]
      /\ ~ Expected(p) => UNCHANGED <<inseqno, heard, everHeard>>
  BY DEF ReadChat, senderVars
<1>b. /\ outseqno \in [Node -> [Node -> Nat]]
      /\ inseqno \in [Node -> [Node -> Nat]]
      /\ heard \in [Node -> [Node -> Seq(Nat)]]
      /\ everHeard \in [Node -> SUBSET (Node \X Nat)]
      /\ said \in [Node -> Seq(Node)]
      /\ sndbuf \in [Node -> Nat]
  BY DEF TypeOK
<1>c. n \in Node /\ m \in Node /\ p.seqno \in Nat /\ p.msg \in Nat
  BY <1>a, PacketType
<1>d. /\ c.cmd = "confirm" /\ c.to = n /\ c.from = m /\ c.seqno = p.seqno
      /\ n = p.from /\ m = p.to
  OBVIOUS
<1> HIDE DEF c, n, m
<1>e. p \in ChatsTo(m, n)
  BY <1>a, <1>d DEF ChatsTo
<1>f. /\ n \in Talker
      /\ p.msg \in DOMAIN said[n] /\ said[n][p.msg] = m
      /\ p.seqno <= outseqno[n][m]
      /\ p.seqno = outseqno[n][m] => pending[n]
      /\ pending[n] => (p.seqno = outseqno[n][m] <=> p.msg = sndbuf[n])
  BY <1>c, <1>e DEF SendingInv, ChatInv
<1>g. \A y, x \in Node : ChatsTo(y, x)' = ChatsTo(y, x)
  BY <1>a, <1>d DEF ChatsTo
<1>h. /\ \A x \in Node : everHeard[x] \subseteq everHeard'[x]
      /\ Expected(p) => <<n, p.msg>> \in everHeard'[m]
  <2>1. CASE Expected(p)
    <3>1. everHeard' = [everHeard EXCEPT ![m] = @ \cup {<<n, p.msg>>}]
      BY <2>1, <1>a
    <3> QED
      BY <3>1, <1>b, <1>c
  <2>2. CASE ~ Expected(p)
    BY <2>2, <1>a
  <2> QED
    BY <2>1, <2>2
<1>i. \A y, x \in Node : HasHeard(y, x) => HasHeard(y, x)'
  BY <1>a, <1>h DEF HasHeard
<1>j. p.seqno = outseqno[n][m] => HasHeard(m, n)'
  <2> SUFFICES ASSUME p.seqno = outseqno[n][m] PROVE HasHeard(m, n)'
    OBVIOUS
  <2>z. p.seqno = outseqno[n][m]
    OBVIOUS
  <2>1. pending[n] /\ p.msg = sndbuf[n]
    BY <1>f
  <2>2. sendtarget[n] = m
    BY <2>1, <1>c, <1>f DEF SendingInv, BufferInv
  <2>3. CASE Expected(p)
    BY <2>1, <2>2, <2>3, <1>a, <1>h DEF HasHeard
  <2>4. CASE ~ Expected(p)
    <3>1. inseqno[m][n] > outseqno[n][m] /\ inseqno[m][n] \in Nat /\ outseqno[n][m] \in Nat
      <4>1. inseqno[m][n] \in Nat /\ outseqno[n][m] \in Nat
        BY <1>b, <1>c
      <4>2. ~ (p.seqno >= inseqno[m][n])
        BY <2>4, <1>d, Zenon DEF Expected
      <4> QED
        BY <4>1, <4>2, <1>c, <2>z
    <3>2. inseqno[m][n] = outseqno[n][m] + 1
      BY <3>1, <1>c DEF SendingInv, SeqnoInv
    <3> QED
      BY <3>2, <1>c, <1>i DEF SendingInv, SeqnoInv
  <2> QED
    BY <2>3, <2>4
<1>1. BufferInv'
  BY <1>a DEF SendingInv, BufferInv
<1>2. ChatInv'
  BY <1>a, <1>g DEF SendingInv, ChatInv
<1>3. ChatOrderInv'
  BY <1>g DEF SendingInv, ChatOrderInv
<1>4. ConfirmInv'
  <2> SUFFICES ASSUME NEW q \in net', q.cmd = "confirm"
               PROVE  /\ q.to \in Talker
                      /\ q.seqno <= outseqno[q.to][q.from]
                      /\ q.seqno = outseqno[q.to][q.from] => HasHeard(q.from, q.to)'
    BY <1>a DEF ConfirmInv
  <2>1. CASE q \in net
    BY <2>1, <1>i, PacketType DEF SendingInv, ConfirmInv
  <2>2. CASE q = c
    BY <2>2, <1>d, <1>f, <1>j
  <2> QED
    BY <2>1, <2>2, <1>a
<1>5. SuccessImpliesHeard'
  <2> SUFFICES ASSUME NEW x \in Node, NEW k \in DOMAIN verdict[x],
                      verdict[x][k] = "sucessful"
               PROVE  <<x, k>> \in everHeard'[said[x][k]]
    BY <1>a DEF SuccessImpliesHeard
  <2>1. k \in DOMAIN said[x]
    <3>1. verdict[x] \in Seq({"open", "sucessful", "error"}) /\ said[x] \in Seq(Node)
      BY DEF TypeOK
    <3> QED
      BY <3>1 DEF SendingInv, BufferInv
  <2>2. said[x][k] \in Node
    BY <2>1, <1>b
  <2> QED
    BY <2>2, <1>h DEF SendingInv, SuccessImpliesHeard
<1>6. CASE ~ Expected(p)
  <2>1. SeqnoInv'
    BY <1>6, <1>a, <1>i DEF SendingInv, SeqnoInv
  <2>2. HeardInv'
    BY <1>6, <1>a, <1>g DEF SendingInv, HeardInv
  <2>3. HeardInOrderOnce'
    BY <1>6, <1>a DEF SendingInv, HeardInOrderOnce
  <2> QED
    BY <2>1, <2>2, <2>3, <1>1, <1>2, <1>3, <1>4, <1>5 DEF SendingInv
<1>7. CASE Expected(p)
  <2>a. /\ inseqno'[m][n] = p.seqno + 1
        /\ \A y, x \in Node : y # m \/ x # n => /\ inseqno'[y][x] = inseqno[y][x]
                                              /\ heard'[y][x] = heard[y][x]
        /\ heard'[m][n] = Append(heard[m][n], p.msg)
    <3>1. inseqno' = [inseqno EXCEPT ![m][n] = p.seqno + 1]
      BY <1>7, <1>a
    <3>2. heard' = [heard EXCEPT ![m][n] = Append(@, p.msg)]
      BY <1>7, <1>a
    <3> QED
      BY <3>1, <3>2, <1>b, <1>c
  <2>b. /\ heard[m][n] \in Seq(Nat) /\ Len(heard[m][n]) \in Nat
        /\ DOMAIN heard[m][n] = 1 .. Len(heard[m][n])
        /\ DOMAIN heard'[m][n] = 1 .. Len(heard[m][n]) + 1
        /\ \A i \in 1 .. Len(heard[m][n]) : heard'[m][n][i] = heard[m][n][i]
        /\ heard'[m][n][Len(heard[m][n]) + 1] = p.msg
    <3>1. heard[m][n] \in Seq(Nat) /\ heard'[m][n] = Append(heard[m][n], p.msg)
      BY <2>a, <1>b, <1>c
    <3> QED
      BY <3>1, <1>c
  <2>c. inseqno[m][n] <= p.seqno /\ inseqno[m][n] \in Nat /\ outseqno[n][m] \in Nat
    BY <1>7, <1>b, <1>c, <1>d DEF Expected
  <2>d. \A i \in DOMAIN heard[m][n] :
          /\ heard[m][n][i] \in DOMAIN said[n]
          /\ \A q \in ChatsTo(m, n) :
               q.seqno >= inseqno[m][n] => heard[m][n][i] < q.msg
          /\ pending[n] /\ sendtarget[n] = m /\ inseqno[m][n] <= outseqno[n][m]
               => heard[m][n][i] < sndbuf[n]
    BY <1>c DEF SendingInv, HeardInv
  <2>e. \A i \in DOMAIN heard[m][n] : heard[m][n][i] < p.msg
    BY <2>c, <2>d, <1>c, <1>e
  <2>1. SeqnoInv'
    <3> SUFFICES ASSUME NEW y \in Node, NEW x \in Node
                 PROVE  /\ inseqno'[y][x] > 0 => x \in Talker
                        /\ inseqno'[y][x] > 0 => inseqno'[y][x] <= outseqno[x][y] + 1
                        /\ inseqno'[y][x] = outseqno[x][y] + 1 => HasHeard(y, x)'
      BY <1>a DEF SeqnoInv
    <3>1. CASE y = m /\ x = n
      BY <3>1, <2>a, <2>c, <1>c, <1>f, <1>j
    <3>2. CASE y # m \/ x # n
      BY <3>2, <2>a, <1>i DEF SendingInv, SeqnoInv
    <3> QED
      BY <3>1, <3>2
  <2>2. HeardInv'
    <3> SUFFICES ASSUME NEW y \in Node, NEW x \in Node, NEW i \in DOMAIN heard'[y][x]
                 PROVE  /\ heard'[y][x][i] \in DOMAIN said[x]
                        /\ \A q \in ChatsTo(y, x) :
                             q.seqno >= inseqno'[y][x] => heard'[y][x][i] < q.msg
                        /\ pending[x] /\ sendtarget[x] = y /\ inseqno'[y][x] <= outseqno[x][y]
                             => heard'[y][x][i] < sndbuf[x]
      BY <1>a, <1>g DEF HeardInv
    <3>1. CASE y # m \/ x # n
      BY <3>1, <2>a DEF SendingInv, HeardInv
    <3>2. CASE y = m /\ x = n /\ i \in DOMAIN heard[m][n]
      <4>1. \A q \in ChatsTo(m, n) : q.seqno \in Nat
        BY <1>c, ChatType
      <4> QED
        <5>1. heard'[y][x][i] = heard[m][n][i]
          BY <3>2, <2>b
        <5>2. \A q \in ChatsTo(m, n) : q.seqno >= p.seqno + 1 => q.seqno >= inseqno[m][n]
          BY <4>1, <2>c, <1>c
        <5>3. p.seqno + 1 <= outseqno[n][m] => inseqno[m][n] <= outseqno[n][m]
          BY <2>c, <1>c
        <5> QED
          BY <3>2, <5>1, <5>2, <5>3, <2>a, <2>d
    <3>3. CASE y = m /\ x = n /\ i = Len(heard[m][n]) + 1
      <4>1. heard'[m][n][i] = p.msg
        BY <3>3, <2>b
      <4>2. \A q \in ChatsTo(m, n) : q.seqno >= p.seqno + 1 => p.msg < q.msg
        <5> TAKE q \in ChatsTo(m, n)
        <5>1. q.seqno \in Nat
          BY <1>c, ChatType
        <5> QED
          BY <5>1, <1>c, <1>e DEF SendingInv, ChatOrderInv
      <4>3. pending[n] /\ p.seqno + 1 <= outseqno[n][m] => p.msg < sndbuf[n]
        <5>1. pending[n] => sndbuf[n] = Len(said[n])
          BY <1>c DEF SendingInv, BufferInv
        <5>2. DOMAIN said[n] = 1 .. Len(said[n]) /\ Len(said[n]) \in Nat
          <6>1. said[n] \in Seq(Node)
            BY <1>b, <1>c
          <6> QED
            BY <6>1
        <5> QED
          BY <5>1, <5>2, <2>c, <1>c, <1>f
      <4> QED
        BY <3>3, <4>1, <4>2, <4>3, <2>a, <1>f
    <3>4. y = m /\ x = n => i \in 1 .. Len(heard[m][n]) + 1
      BY <2>b
    <3> QED
      BY <3>1, <3>2, <3>3, <3>4, <2>b
  <2>3. HeardInOrderOnce'
    <3> SUFFICES ASSUME NEW y \in Node, NEW x \in Node,
                        NEW i \in DOMAIN heard'[y][x], NEW j \in DOMAIN heard'[y][x], i < j
                 PROVE  heard'[y][x][i] < heard'[y][x][j]
      BY DEF HeardInOrderOnce
    <3>1. CASE y # m \/ x # n
      BY <3>1, <2>a DEF SendingInv, HeardInOrderOnce
    <3>2. CASE y = m /\ x = n
      <4>1. i \in DOMAIN heard[m][n] /\ i \in 1 .. Len(heard[m][n])
        BY <3>2, <2>b
      <4>2. CASE j \in DOMAIN heard[m][n]
        BY <3>2, <4>1, <4>2, <2>b, <1>c DEF SendingInv, HeardInOrderOnce
      <4>3. CASE j = Len(heard[m][n]) + 1
        BY <3>2, <4>1, <4>3, <2>b, <2>e
      <4>4. j \in 1 .. Len(heard[m][n]) + 1
        BY <3>2, <2>b
      <4> QED
        BY <4>2, <4>3, <4>4, <2>b
    <3> QED
      BY <3>1, <3>2
  <2> QED
    BY <2>1, <2>2, <2>3, <1>1, <1>2, <1>3, <1>4, <1>5 DEF SendingInv
<1> QED
  BY <1>6, <1>7

(* A node that is no talker forgets only what it expects of the others.    *)
LEMMA SendingWake ==
  ASSUME TypeOK, SendingInv, NEW r \in Node \ Talker, Wake(r)
  PROVE  SendingInv'
<1>a. /\ inseqno' = [inseqno EXCEPT ![r] = [x \in Node |-> 0]]
      /\ outseqno' = [outseqno EXCEPT ![r] = [x \in Node |-> 0]]
      /\ heard' = [heard EXCEPT ![r] = [x \in Node |-> <<>>]]
      /\ UNCHANGED <<pending, sendtarget, sndbuf, net, said, verdict, everHeard>>
  BY DEF Wake, senderVars
<1>b. /\ outseqno \in [Node -> [Node -> Nat]]
      /\ inseqno \in [Node -> [Node -> Nat]]
      /\ heard \in [Node -> [Node -> Seq(Nat)]]
  BY DEF TypeOK
<1>c. /\ \A y \in Node \ {r} : /\ outseqno'[y] = outseqno[y]
                               /\ inseqno'[y] = inseqno[y]
                               /\ heard'[y] = heard[y]
      /\ \A x \in Node : /\ outseqno'[r][x] = 0
                         /\ inseqno'[r][x] = 0
                         /\ heard'[r][x] = <<>>
  BY <1>a, <1>b
<1>d. DOMAIN <<>> = {}
  OBVIOUS
<1>e. \A x \in Node : DOMAIN heard'[r][x] = {}
  BY <1>c, <1>d
<1>1. BufferInv'
  BY <1>a DEF SendingInv, BufferInv
<1>2. \A y, x \in Node : ChatsTo(y, x)' = ChatsTo(y, x)
  BY <1>a DEF ChatsTo
<1>3. \A x, y \in Node : \A p \in ChatsTo(y, x) : x # r
  BY DEF SendingInv, ChatInv
<1>4. ChatInv'
  <2> SUFFICES ASSUME NEW x \in Node, NEW y \in Node, NEW p \in ChatsTo(y, x)
               PROVE  /\ x \in Talker
                      /\ p.msg \in DOMAIN said[x] /\ said[x][p.msg] = y
                      /\ p.seqno <= outseqno'[x][y]
                      /\ p.seqno = outseqno'[x][y] => pending[x]
                      /\ pending[x] => (p.seqno = outseqno'[x][y] <=> p.msg = sndbuf[x])
    BY <1>2, <1>a DEF ChatInv
  <2>1. outseqno'[x][y] = outseqno[x][y]
    BY <1>3, <1>c
  <2> QED
    BY <2>1 DEF SendingInv, ChatInv
<1>5. ChatOrderInv'
  BY <1>2 DEF SendingInv, ChatOrderInv
<1>6. \A y, x \in Node : HasHeard(y, x)' = HasHeard(y, x)
  BY <1>a DEF HasHeard
<1>7. ConfirmInv'
  <2> SUFFICES ASSUME NEW p \in net, p.cmd = "confirm"
               PROVE  /\ p.to \in Talker
                      /\ p.seqno <= outseqno'[p.to][p.from]
                      /\ p.seqno = outseqno'[p.to][p.from] => HasHeard(p.from, p.to)'
    BY <1>a DEF ConfirmInv
  <2>1. p.to \in Node /\ p.from \in Node /\ p.to \in Talker
    BY PacketType DEF SendingInv, ConfirmInv
  <2>2. outseqno'[p.to][p.from] = outseqno[p.to][p.from]
    BY <2>1, <1>c
  <2> QED
    BY <2>1, <2>2, <1>6 DEF SendingInv, ConfirmInv
<1>8. SeqnoInv'
  <2> SUFFICES ASSUME NEW y \in Node, NEW x \in Node
               PROVE  /\ inseqno'[y][x] > 0 => x \in Talker
                      /\ inseqno'[y][x] > 0 => inseqno'[y][x] <= outseqno'[x][y] + 1
                      /\ inseqno'[y][x] = outseqno'[x][y] + 1 => HasHeard(y, x)'
    BY DEF SeqnoInv
  <2>1. inseqno[y][x] \in Nat /\ outseqno[x][y] \in Nat
    BY <1>b
  <2>2. /\ inseqno[y][x] > 0 => x \in Talker
        /\ inseqno[y][x] > 0 => inseqno[y][x] <= outseqno[x][y] + 1
        /\ inseqno[y][x] = outseqno[x][y] + 1 => HasHeard(y, x)
    BY DEF SendingInv, SeqnoInv
  <2>3. CASE y = r
    <3>1. inseqno'[y][x] = 0 /\ (outseqno'[x][y] = 0 \/ outseqno'[x][y] = outseqno[x][y])
      BY <2>3, <1>c
    <3> QED
      BY <2>1, <3>1
  <2>4. CASE y # r /\ x = r
    <3>1. inseqno'[y][x] = inseqno[y][x] /\ outseqno'[x][y] = 0
      BY <2>4, <1>c
    <3> QED
      BY <2>1, <2>2, <2>4, <3>1
  <2>5. CASE y # r /\ x # r
    BY <2>2, <2>5, <1>c, <1>6
  <2> QED
    BY <2>3, <2>4, <2>5
<1>9. HeardInv'
  <2> SUFFICES ASSUME NEW y \in Node, NEW x \in Node, NEW i \in DOMAIN heard'[y][x]
               PROVE  /\ heard'[y][x][i] \in DOMAIN said[x]
                      /\ \A p \in ChatsTo(y, x) :
                           p.seqno >= inseqno'[y][x] => heard'[y][x][i] < p.msg
                      /\ pending[x] /\ sendtarget[x] = y /\ inseqno'[y][x] <= outseqno'[x][y]
                           => heard'[y][x][i] < sndbuf[x]
    BY <1>2, <1>a DEF HeardInv
  <2>1. y # r /\ heard'[y] = heard[y] /\ inseqno'[y] = inseqno[y]
    BY <1>c, <1>e
  <2>2. CASE x # r
    BY <2>1, <2>2, <1>c DEF SendingInv, HeardInv
  <2>3. CASE x = r
    BY <2>1, <2>3 DEF SendingInv, HeardInv, BufferInv
  <2> QED
    BY <2>2, <2>3
<1>10. HeardInOrderOnce'
  BY <1>c, <1>e DEF SendingInv, HeardInOrderOnce
<1>11. SuccessImpliesHeard'
  BY <1>a DEF SendingInv, SuccessImpliesHeard
<1> QED
  BY <1>1, <1>4, <1>5, <1>7, <1>8, <1>9, <1>10, <1>11 DEF SendingInv

LEMMA SendingStep ==
  ASSUME Talker \cap Restarter = {}, TypeOK, SendingInv, [Next]_vars
  PROVE  SendingInv'
<1>k. Talker \subseteq Node /\ Restarter \subseteq Node
  BY ReliableAssumption
<1>1. ASSUME NEW n \in Talker, NEW d \in Node, RblSendMessage(n, d)
      PROVE  SendingInv'
  BY <1>1, SendingSay
<1>2. ASSUME NEW n \in Talker, GiveUp(n)
      PROVE  SendingInv'
  <2>1. /\ pending[n] /\ n \in Node
        /\ outseqno' = [outseqno EXCEPT ![n][sendtarget[n]] = @ + 1]
        /\ pending' = [pending EXCEPT ![n] = FALSE]
        /\ verdict' = [verdict EXCEPT ![n][sndbuf[n]] = "error"]
        /\ UNCHANGED <<sendtarget, sndbuf, inseqno, net, said, heard, everHeard>>
    BY <1>2, <1>k DEF GiveUp, Abandoned
  <2> QED
    BY <2>1, SendingEnd
<1>3. ASSUME NEW n \in Talker, Attempt(n)
      PROVE  SendingInv'
  BY <1>3, <1>k, SendingAttempt
<1>4. ASSUME NEW p \in net, ReadChat(p)
      PROVE  SendingInv'
  BY <1>4, SendingReadChat
<1>5. ASSUME NEW p \in net, ReadConfirm(p)
      PROVE  SendingInv'
  <2>1. HasHeard(p.from, p.to) /\ p.to \in Node
    BY <1>5, PacketType DEF ReadConfirm, Awaited, SendingInv, ConfirmInv
  <2>2. p.seqno = outseqno[p.to][p.from] /\ p.from = sendtarget[p.to] /\ pending[p.to]
    BY <1>5, <2>1 DEF ReadConfirm, Awaited, HasHeard
  <2>3. /\ outseqno' = [outseqno EXCEPT ![p.to][sendtarget[p.to]] = @ + 1]
        /\ pending' = [pending EXCEPT ![p.to] = FALSE]
        /\ verdict' = [verdict EXCEPT ![p.to][sndbuf[p.to]] = "sucessful"]
        /\ UNCHANGED <<sendtarget, sndbuf, inseqno, net, said, heard, everHeard>>
    BY <1>5, <2>2 DEF ReadConfirm
  <2> QED
    BY <2>1, <2>2, <2>3, SendingEnd
<1>6. ASSUME NEW n \in Restarter, Sleep(n)
      PROVE  SendingInv'
  <2>1. UNCHANGED <<pending, sendtarget, sndbuf, inseqno, outseqno, net,
                    said, verdict, heard, everHeard>>
    BY <1>6 DEF Sleep, senderVars, screens
  <2> QED
    BY <2>1 DEF SendingInv, BufferInv, ChatInv, ChatOrderInv, ConfirmInv, SeqnoInv,
                HeardInv, HeardInOrderOnce, SuccessImpliesHeard, HasHeard, ChatsTo
<1>7. ASSUME NEW n \in Restarter, Wake(n)
      PROVE  SendingInv'
  BY <1>7, <1>k, SendingWake
<1>8. CASE UNCHANGED vars
  <2>1. UNCHANGED <<pending, sendtarget, sndbuf, inseqno, outseqno, net,
                    said, verdict, heard, everHeard>>
    BY <1>8 DEF vars, senderVars, screens
  <2> QED
    BY <2>1 DEF SendingInv, BufferInv, ChatInv, ChatOrderInv, ConfirmInv, SeqnoInv,
                HeardInv, HeardInOrderOnce, SuccessImpliesHeard, HasHeard, ChatsTo
<1> QED
  BY <1>1, <1>2, <1>3, <1>4, <1>5, <1>6, <1>7, <1>8 DEF Next

(* The inductive invariant holds as long as no talker is restarted, however *)
(* many nodes talk and however often the others are restarted.             *)
THEOREM SendingCorrect ==
  ASSUME Talker \cap Restarter = {}
  PROVE  Spec => []SendingInv
<1>1. TypeOK /\ SendingInv /\ [Next]_vars => SendingInv'
  BY SendingStep
<1> QED
  BY <1>1, SendingInit, TypeCorrect, PTL DEF Spec

(* "sucessful" is said only of a message that has been shown where it was  *)
(* sent (rbl_readmessage), if no talker is restarted.                      *)
THEOREM SuccessIsTrue ==
  ASSUME Talker \cap Restarter = {}
  PROVE  Spec => []SuccessImpliesHeard
<1>1. SendingInv => SuccessImpliesHeard
  BY DEF SendingInv
<1> QED
  BY <1>1, SendingCorrect, PTL

(* Each message is shown at most once between two restarts of the receiver, *)
(* in the order typed (the inseqno test of rbl_readmessage).               *)
THEOREM ShownInOrderOnce ==
  ASSUME Talker \cap Restarter = {}
  PROVE  Spec => []HeardInOrderOnce
<1>1. SendingInv => HeardInOrderOnce
  BY DEF SendingInv
<1> QED
  BY <1>1, SendingCorrect, PTL

-----------------------------------------------------------------------------
(* Every step of the code is a step of the service, or changes no screen.  *)
LEMMA ServiceStep ==
  ASSUME Talker \cap Restarter = {}, TypeOK, SendingInv, [Next]_vars
  PROVE  [service!ServiceNext]_(service!serviceVars)
<1>k. Talker \subseteq Node /\ Restarter \subseteq Node
  BY ReliableAssumption
<1>t. /\ said \in [Node -> Seq(Node)]
      /\ verdict \in [Node -> Seq({"open", "sucessful", "error"})]
  BY DEF TypeOK
<1>d. \A n \in Node : DOMAIN verdict[n] = DOMAIN said[n]
  <2> TAKE n \in Node
  <2>1. said[n] \in Seq(Node) /\ verdict[n] \in Seq({"open", "sucessful", "error"})
    BY <1>t
  <2>2. Len(verdict[n]) = Len(said[n])
    BY DEF SendingInv, BufferInv
  <2> QED
    BY <2>1, <2>2
<1>p. \A n \in Node : pending[n] =>
        /\ sndbuf[n] \in DOMAIN said[n]
        /\ said[n][sndbuf[n]] = sendtarget[n]
        /\ service!Open(n, sndbuf[n])
  <2> SUFFICES ASSUME NEW n \in Node, pending[n]
               PROVE  /\ sndbuf[n] \in DOMAIN said[n]
                      /\ said[n][sndbuf[n]] = sendtarget[n]
                      /\ service!Open(n, sndbuf[n])
    OBVIOUS
  <2>1. said[n] \in Seq(Node)
    BY <1>t
  <2>2. sndbuf[n] \in DOMAIN said[n]
    BY <2>1 DEF SendingInv, BufferInv
  <2> QED
    BY <2>2, <1>d DEF SendingInv, BufferInv, service!Open
<1>1. ASSUME NEW n \in Talker, NEW d \in Node, RblSendMessage(n, d)
      PROVE  service!ServiceNext
  <2>1. \A k \in DOMAIN verdict[n] : ~ service!Open(n, k)
    BY <1>1, <1>d, <1>k DEF RblSendMessage, SendingInv, BufferInv, service!Open
  <2>2. service!Say(n, d)
    BY <1>1, <2>1 DEF RblSendMessage, service!Say
  <2> QED
    BY <2>2, <1>k DEF service!ServiceNext
<1>2. ASSUME NEW n \in Talker, GiveUp(n)
      PROVE  service!ServiceNext
  <2>1. pending[n] /\ n \in Node
    BY <1>2, <1>k DEF GiveUp
  <2>2. service!Fail(n, sndbuf[n])
    BY <1>2, <2>1, <1>p DEF GiveUp, service!Fail
  <2> QED
    BY <2>1, <2>2, <1>p DEF service!ServiceNext
<1>3. ASSUME NEW n \in Talker, Attempt(n)
      PROVE  UNCHANGED service!serviceVars
  BY <1>3 DEF Attempt, screens, service!serviceVars
<1>4. ASSUME NEW p \in net, ReadChat(p)
      PROVE  service!ServiceNext \/ UNCHANGED service!serviceVars
  <2>1. CASE ~ Expected(p)
    BY <1>4, <2>1 DEF ReadChat, service!serviceVars
  <2>2. CASE Expected(p)
    <3>1. p.to \in Node /\ p.from \in Node /\ p.cmd = "chat"
      BY <1>4, PacketType DEF ReadChat
    <3>2. p \in ChatsTo(p.to, p.from)
      BY <3>1 DEF ChatsTo
    <3>3. p.msg \in DOMAIN said[p.from] /\ said[p.from][p.msg] = p.to
      BY <3>1, <3>2 DEF SendingInv, ChatInv
    <3>4. p.seqno >= inseqno[p.to][p.from]
      BY <2>2 DEF Expected
    <3>5. \A i \in DOMAIN heard[p.to][p.from] : heard[p.to][p.from][i] < p.msg
      BY <3>1, <3>2, <3>4 DEF SendingInv, HeardInv
    <3>6. service!Show(p.to, p.from, p.msg)
      BY <1>4, <2>2, <3>3, <3>5 DEF ReadChat, service!Show
    <3> QED
      BY <3>1, <3>3, <3>6 DEF service!ServiceNext
  <2> QED
    BY <2>1, <2>2
<1>5. ASSUME NEW p \in net, ReadConfirm(p)
      PROVE  service!ServiceNext
  <2>1. HasHeard(p.from, p.to) /\ p.to \in Node
    BY <1>5, PacketType DEF ReadConfirm, Awaited, SendingInv, ConfirmInv
  <2>2. service!Succeed(p.to, sndbuf[p.to])
    BY <1>5, <2>1, <1>p DEF ReadConfirm, HasHeard, service!Succeed
  <2> QED
    BY <2>1, <2>2, <1>p DEF HasHeard, service!ServiceNext
<1>6. ASSUME NEW n \in Restarter, Sleep(n)
      PROVE  UNCHANGED service!serviceVars
  BY <1>6 DEF Sleep, screens, service!serviceVars
<1>7. ASSUME NEW n \in Restarter, Wake(n)
      PROVE  service!ServiceNext
  <2>1. service!Restart(n)
    BY <1>7 DEF Wake, service!Restart
  <2> QED
    BY <2>1, <1>k DEF service!ServiceNext
<1>8. CASE UNCHANGED vars
  BY <1>8 DEF vars, screens, service!serviceVars
<1> QED
  BY <1>1, <1>2, <1>3, <1>4, <1>5, <1>6, <1>7, <1>8 DEF Next

(* The screens show nothing the chat service does not promise, if no talker *)
(* is restarted (ImplementsService).                                       *)
THEOREM ReliableImplementsService ==
  ASSUME Talker \cap Restarter = {}
  PROVE  Spec => ImplementsService
<1>1. Init => service!ServiceInit
  BY DEF Init
<1>2. TypeOK /\ SendingInv /\ [Next]_vars => [service!ServiceNext]_(service!serviceVars)
  BY ServiceStep
<1> QED
  BY <1>1, <1>2, TypeCorrect, SendingCorrect, PTL
  DEF Spec, ImplementsService, service!ServiceSpec

=============================================================================
