---------------------------- MODULE TimersProofs ----------------------------
(***************************************************************************)
(* Theorems about Timers, for any nodes, links, periods and delays that    *)
(* satisfy the assumptions of the module, as long as no int overflows.     *)
(***************************************************************************)
EXTENDS Timers, TLAPS, WellFoundedInduction

-----------------------------------------------------------------------------
(* An int in range is read as it is.                                       *)
LEMMA WrapInRange ==
  ASSUME NEW t \in Nat, t <= IntMax
  PROVE  Wrap(t) = t
<1>1. IntMax \in Nat
  BY IntAssumption
<1> DEFINE M == IntMax + 1
<1>2. M \in Nat \ {0} /\ t + M \in Nat /\ t + M < 2 * M
  BY <1>1
<1>3. (t + M) % (2 * M) = t + M
  BY <1>2, Z3
<1> QED
  BY <1>1, <1>3 DEF Wrap

LEMMA WrapIsInt ==
  ASSUME NEW t \in Int
  PROVE  Wrap(t) \in Int
<1>1. IntMax \in Nat
  BY IntAssumption
<1> DEFINE M == IntMax + 1
<1>2. M \in Nat \ {0} /\ t + M \in Int
  BY <1>1
<1>3. (t + M) % (2 * M) \in Int
  BY <1>2, Z3
<1> QED
  BY <1>1, <1>3 DEF Wrap

LEMMA IntsStayInt ==
  ASSUME TypeOK
  PROVE  Reading \in Int /\ \A t, d \in Int : Sum(t, d) \in Int
<1>1. now \in Int
  BY DEF TypeOK
<1>2. Reading \in Int
  BY <1>1, WrapIsInt DEF Reading
<1>3. \A t, d \in Int : Sum(t, d) \in Int
  BY WrapIsInt DEF Sum
<1> QED
  BY <1>2, <1>3

(* A node reads the true time, and no deadline is beyond the range.        *)
LEMMA TrueTime ==
  ASSUME TypeOK, NoWrap
  PROVE  /\ Reading = now
         /\ Sum(now, HeartbeatTime) = now + HeartbeatTime
         /\ \A t \in 0 .. now : Sum(t, HeartcheckTime) = t + HeartcheckTime
<1>1. now \in Nat /\ now <= MaxTime /\ MaxTime \in Nat /\ IntMax \in Nat
      /\ HeartbeatTime \in Nat /\ HeartcheckTime \in Nat
  BY TimesAssumption, IntAssumption DEF TypeOK
<1>2. now <= IntMax /\ now + HeartbeatTime <= IntMax
  BY <1>1 DEF NoWrap
<1>3. Reading = now /\ Sum(now, HeartbeatTime) = now + HeartbeatTime
  BY <1>1, <1>2, WrapInRange DEF Reading, Sum
<1>4. ASSUME NEW t \in 0 .. now
      PROVE  Sum(t, HeartcheckTime) = t + HeartcheckTime
  <2>1. t + HeartcheckTime \in Nat /\ t + HeartcheckTime <= IntMax
    BY <1>1 DEF NoWrap
  <2> QED
    BY <2>1, WrapInRange DEF Sum
<1> QED
  BY <1>3, <1>4

-----------------------------------------------------------------------------
(* Type correctness.                                                       *)
LEMMA VectorsType ==
  ASSUME TypeOK, NEW n \in Node, NEW on \in SUBSET Node
  PROVE  Vectors(n, on) \subseteq Datagram /\ SendDv(n, on) \subseteq Datagram
<1>1. now \in Int
  BY DEF TypeOK
<1> QED
  BY <1>1 DEF Vectors, SendDv, Datagram

LEMMA MissedType ==
  ASSUME NEW mis \in [Node -> [Node -> BOOLEAN]], NEW n \in Node, NEW on
  PROVE  MissedBut(mis, n, on) \in [Node -> [Node -> BOOLEAN]]
BY DEF MissedBut

LEMMA GoneOnline ==
  ASSUME NEW n \in Node, NEW t
  PROVE  Gone(n, t) \subseteq online[n]
BY DEF Gone, Silent, Behind

LEMMA TypeInit == Init => TypeOK
<1> SUFFICES ASSUME Init PROVE TypeOK
  OBVIOUS
<1>0. now \in 0 .. MaxTime /\ MaxTime \in Nat /\ MaxEvents \in Nat
  BY TimesAssumption DEF Init
<1>1. now \in 0 .. MaxTime /\ now \in Int /\ 0 \in 0 .. MaxEvents
  BY <1>0
<1>2. Reading \in Int /\ \A t, d \in Int : Sum(t, d) \in Int
  BY <1>1, WrapIsInt DEF Reading, Sum
<1>3. HeartbeatTime \in Int /\ HeartcheckTime \in Int
  BY TimesAssumption
<1>4. Links \in [Node -> SUBSET Node]
  BY LinksAssumption
<1>5. transit \subseteq Datagram
  BY <1>1, <1>4 DEF Init, Vectors, Datagram
<1>6. /\ time \in [Node -> Int]
      /\ nextHeartBeat \in [Node -> Int] /\ nextHeartCheck \in [Node -> Int]
  BY <1>1, <1>2, <1>3 DEF Init
<1>7. /\ lastTime \in [Node -> [Node -> Int]] /\ heard \in [Node -> [Node -> Int]]
      /\ missed \in [Node -> [Node -> BOOLEAN]]
  BY DEF Init
<1>8. /\ turned \in [Node -> Int] /\ since \in [Node -> Int] /\ spoke \in [Node -> Int]
      /\ sleeping \in [Node -> BOOLEAN] /\ stalled \in [Node -> BOOLEAN]
  BY <1>1 DEF Init
<1>9. online \in [Node -> SUBSET Node] /\ \A n \in Node : online[n] \subseteq Links[n]
  BY <1>4 DEF Init
<1> QED
  BY <1>1, <1>5, <1>6, <1>7, <1>8, <1>9 DEF Init, TypeOK

LEMMA TypeCommand ==
  ASSUME TypeOK, NEW n \in Node, NEW c, NEW rest \in SUBSET transit,
         Command(n, c, rest), events' \in 0 .. MaxEvents,
         lastTime' \in [Node -> [Node -> Int]], heard' \in [Node -> [Node -> Int]]
  PROVE  TypeOK'
<1>1. now \in Int /\ Reading \in Int /\ \A t, d \in Int : Sum(t, d) \in Int
  BY IntsStayInt DEF TypeOK
<1>2. HeartbeatTime \in Int /\ HeartcheckTime \in Int
  BY TimesAssumption
<1>3. Links \in [Node -> SUBSET Node] /\ online[n] \in SUBSET Node /\ rest \subseteq Datagram
      /\ missed \in [Node -> [Node -> BOOLEAN]]
  BY LinksAssumption DEF TypeOK
<1>4. CASE CmdSleep(n, rest)
  <2>1. missed' \in [Node -> [Node -> BOOLEAN]]
    BY <1>3, <1>4, MissedType DEF CmdSleep, NobodyHears
  <2> QED
    BY <1>1, <1>3, <1>4, <2>1 DEF CmdSleep, Command, TypeOK, routerVars
<1>5. CASE CmdWake(n, rest)
  <2>1. missed' \in [Node -> [Node -> BOOLEAN]]
    BY <1>3, <1>5, MissedType DEF CmdWake, Greet
  <2>2. transit' \subseteq Datagram
    BY <1>3, <1>5, VectorsType DEF CmdWake, Greet
  <2> QED
    BY <1>1, <1>2, <1>3, <1>5, <2>1, <2>2 DEF CmdWake, Restored, Greet, Command, TypeOK
<1>6. CASE CmdStall(n, rest)
  <2>1. missed' \in [Node -> [Node -> BOOLEAN]]
    BY <1>3, <1>6, MissedType DEF CmdStall, NobodyHears
  <2> QED
    BY <1>1, <1>3, <1>6, <2>1 DEF CmdStall, Command, TypeOK, routerVars
<1>7. CASE CmdHeartbeat(n, rest)
  <2>1. missed' \in [Node -> [Node -> BOOLEAN]]
    BY <1>3, <1>7, MissedType DEF CmdHeartbeat
  <2>2. transit' \subseteq Datagram
    BY <1>3, <1>7, VectorsType DEF CmdHeartbeat
  <2> QED
    BY <1>1, <1>3, <1>7, <2>1, <2>2 DEF CmdHeartbeat, Spoke, Command, TypeOK, routerVars
<1>8. CASE CmdHeartcheck(n, rest)
  <2> DEFINE on == online[n] \ Gone(n, time[n])
  <2>1. on \in SUBSET Node /\ on \subseteq Links[n]
    BY <1>3 DEF TypeOK
  <2>2. missed' \in [Node -> [Node -> BOOLEAN]]
    BY <1>3, <1>8, MissedType DEF CmdHeartcheck
  <2>3. transit' \subseteq Datagram
    BY <1>3, <1>8, <2>1, VectorsType DEF CmdHeartcheck
  <2>4. spoke' \in [Node -> Int]
    BY <1>1, <1>8 DEF CmdHeartcheck, Spoke, TypeOK
  <2>5. online' \in [Node -> SUBSET Node] /\ \A m \in Node : online'[m] \subseteq Links[m]
    BY <1>8, <2>1 DEF CmdHeartcheck, TypeOK
  <2> QED
    BY <1>8, <2>2, <2>3, <2>4, <2>5 DEF CmdHeartcheck, Command, TypeOK, routerVars
<1> QED
  BY <1>4, <1>5, <1>6, <1>7, <1>8 DEF Command

LEMMA NoteType ==
  ASSUME TypeOK, NEW f \in transit, Note(f)
  PROVE  lastTime' \in [Node -> [Node -> Int]] /\ heard' \in [Node -> [Node -> Int]]
<1>1. Reading \in Int /\ now \in Int
  BY IntsStayInt DEF TypeOK
<1>2. f.to \in Node /\ f.from \in Node
  BY DEF TypeOK, Datagram
<1> QED
  BY <1>1, <1>2 DEF Note, TypeOK

LEMMA TypeNext == TypeOK /\ [Next]_vars => TypeOK'
<1> SUFFICES ASSUME TypeOK, [Next]_vars PROVE TypeOK'
  OBVIOUS
<1>0. now \in Int /\ Reading \in Int /\ \A t, d \in Int : Sum(t, d) \in Int
  BY IntsStayInt DEF TypeOK
<1>t. HeartbeatTime \in Int /\ HeartcheckTime \in Int /\ MaxTime \in Nat /\ MaxEvents \in Nat
  BY TimesAssumption
<1>e. Event => events' \in 0 .. MaxEvents
  BY <1>t DEF Event, TypeOK
<1>o. Operated \subseteq Node
  BY OrdersAssumption
<1>m. missed \in [Node -> [Node -> BOOLEAN]]
  BY DEF TypeOK
<1>1. CASE Tick
  <2>1. now' \in 0 .. MaxTime
    BY <1>1, <1>t DEF Tick, TypeOK
  <2> QED
    BY <1>1, <2>1 DEF Tick, TypeOK, routerVars
<1>2. ASSUME NEW n \in Node, Turn(n) PROVE TypeOK'
  <2> DEFINE gone == IF CheckDue(n) THEN Gone(n, Reading) ELSE {}
             on == online[n] \ gone
  <2>1. on \in SUBSET Node /\ on \subseteq Links[n] /\ online[n] \in SUBSET Node
    BY DEF TypeOK
  <2>2. online' = [online EXCEPT ![n] = on] /\ turned' = [turned EXCEPT ![n] = now]
        /\ time' = [time EXCEPT ![n] = Reading]
    BY <1>2 DEF Turn
  <2>3. missed' \in [Node -> [Node -> BOOLEAN]]
    BY <1>m, <1>2, MissedType DEF Turn
  <2>4. spoke' \in [Node -> Int]
    BY <1>0, <1>2 DEF Turn, Spoke, TypeOK
  <2>5. transit' \subseteq Datagram
    <3>1. SendDv(n, on) \subseteq Datagram /\ SendDv(n, online[n]) \subseteq Datagram
      BY <2>1, VectorsType
    <3> QED
      BY <1>2, <3>1 DEF Turn, TypeOK
  <2>6. nextHeartBeat' \in [Node -> Int]
    BY <1>0, <1>t, <1>2 DEF Turn, TypeOK
  <2>7. nextHeartCheck' \in [Node -> Int]
    BY <1>0, <1>t, <1>2 DEF Turn, NextCheck, TypeOK
  <2>8. online' \in [Node -> SUBSET Node] /\ \A m \in Node : online'[m] \subseteq Links[m]
    BY <2>1, <2>2 DEF TypeOK
  <2>9. UNCHANGED <<now, lastTime, sleeping, stalled, events, since, heard>>
    BY <1>2 DEF Turn
  <2> QED
    BY <1>0, <2>2, <2>3, <2>4, <2>5, <2>6, <2>7, <2>8, <2>9 DEF TypeOK
<1>3. ASSUME NEW n \in Operated, NEW m \in Node, SendRbl(n, m) PROVE TypeOK'
  <2>1. transit' \subseteq Datagram
    <3>1. [kind |-> "rbl", from |-> n, to |-> m, sent |-> now] \in Datagram
      BY <1>0, <1>o DEF Datagram
    <3> QED
      BY <1>3, <3>1 DEF SendRbl, TypeOK
  <2> QED
    BY <1>e, <1>3, <2>1 DEF SendRbl, TypeOK, routerVars
<1>4. ASSUME NEW n \in Operated, NEW c \in Orders, Typed(n, c) PROVE TypeOK'
  <2>1. UNCHANGED <<lastTime, heard>> /\ Command(n, c, transit) /\ events' \in 0 .. MaxEvents
    BY <1>e, <1>4 DEF Typed
  <2> QED
    BY <1>o, <2>1, TypeCommand DEF TypeOK
<1>5. ASSUME NEW n \in Operated, NEW c \in Broadcast, CmdAll(n, c) PROVE TypeOK'
  <2>1. transit' \subseteq Datagram
    <3>1. \A m \in Node : [kind |-> c, from |-> n, to |-> m, sent |-> now] \in Datagram
      BY <1>0, <1>o, OrdersAssumption DEF Datagram
    <3> QED
      BY <1>5, <3>1 DEF CmdAll, TypeOK
  <2> QED
    BY <1>e, <1>5, <2>1 DEF CmdAll, TypeOK, routerVars
<1>6. ASSUME NEW f \in transit, ReceiveDv(f) PROVE TypeOK'
  <2> DEFINE n == f.to
             on == online[n] \cup ({f.from} \cap Links[n])
  <2>1. n \in Node /\ f.from \in Node /\ on \in SUBSET Node /\ on \subseteq Links[n]
    BY LinksAssumption DEF TypeOK, Datagram
  <2>2. MissedAfter(f) \in [Node -> [Node -> BOOLEAN]]
    BY <1>m, <2>1 DEF MissedAfter, TypeOK
  <2>3. missed' \in [Node -> [Node -> BOOLEAN]]
    BY <1>6, <2>1, <2>2, MissedType DEF ReceiveDv
  <2>4. transit' \subseteq Datagram
    <3>1. SendDv(n, on) \subseteq Datagram
      BY <2>1, VectorsType
    <3> QED
      BY <1>6, <3>1 DEF ReceiveDv, TypeOK
  <2>5. spoke' \in [Node -> Int]
    BY <1>0, <1>6 DEF ReceiveDv, Spoke, TypeOK
  <2>6. online' \in [Node -> SUBSET Node] /\ \A m \in Node : online'[m] \subseteq Links[m]
    BY <1>6, <2>1 DEF ReceiveDv, TypeOK
  <2>7. events' \in 0 .. MaxEvents
    BY <1>e, <1>6 DEF ReceiveDv, TypeOK
  <2>8. UNCHANGED <<now, routerVars, sleeping, stalled, turned, since>> /\ Note(f)
    BY <1>6 DEF ReceiveDv
  <2> QED
    BY <2>3, <2>4, <2>5, <2>6, <2>7, <2>8, NoteType DEF TypeOK, routerVars
<1>7. ASSUME NEW f \in transit, ReceiveRbl(f) \/ Discard(f) PROVE TypeOK'
  <2>1. f.to \in Node /\ f.from \in Node
    BY DEF TypeOK, Datagram
  <2>2. MissedAfter(f) \in [Node -> [Node -> BOOLEAN]]
    BY <1>m, <2>1 DEF MissedAfter, TypeOK
  <2>3. missed' \in [Node -> [Node -> BOOLEAN]]
    BY <1>7, <2>2 DEF ReceiveRbl, Discard
  <2> QED
    BY <1>7, <2>3, NoteType DEF ReceiveRbl, Discard, TypeOK, routerVars
<1>8. ASSUME NEW f \in transit, ReceiveOrder(f) PROVE TypeOK'
  <2>1. f.to \in Node /\ events' \in 0 .. MaxEvents
    BY <1>8 DEF TypeOK, Datagram, ReceiveOrder
  <2> QED
    BY <1>8, <2>1, NoteType, TypeCommand DEF ReceiveOrder
<1>9. ASSUME NEW f \in transit, Lose(f) PROVE TypeOK'
  <2>1. f.to \in Node /\ f.from \in Node
    BY DEF TypeOK, Datagram
  <2>2. missed' \in [Node -> [Node -> BOOLEAN]]
    BY <1>9, <1>m, <2>1 DEF Lose
  <2> QED
    BY <1>e, <1>9, <2>2 DEF Lose, TypeOK, routerVars
<1>10. CASE UNCHANGED vars
  BY <1>10 DEF vars, TypeOK, routerVars
<1> QED
  BY <1>1, <1>2, <1>3, <1>4, <1>5, <1>6, <1>7, <1>8, <1>9, <1>10 DEF Next, Receive

(* TypeOK of TypeCorrect: the timers, tables and datagrams have their      *)
(* types, whatever is typed, lost or late.                                 *)
THEOREM TypeCorrect == Spec => []TypeOK
BY TypeInit, TypeNext, PTL DEF Spec

-----------------------------------------------------------------------------
(* What the steps have in common.                                          *)
LEMMA Numbers ==
  /\ HeartbeatTime \in Nat \ {0} /\ HeartcheckTime \in Nat \ {0}
  /\ Poll \in [Node -> Nat] /\ Delay \in Nat
  /\ "dv" \notin Orders /\ "rbl" \notin Orders
  /\ \A n \in Node : Links[n] \in SUBSET Node /\ n \notin Links[n]
BY TimesAssumption, OrdersAssumption, LinksAssumption

LEMMA VectorFacts ==
  ASSUME NEW n \in Node, NEW on \in SUBSET Node
  PROVE  /\ \A f \in Vectors(n, on) :
              f.kind = "dv" /\ f.from = n /\ f.to \in on /\ f.sent = now
         /\ \A m \in on : \E f \in Vectors(n, on) :
              f.kind = "dv" /\ f.from = n /\ f.to = m /\ f.sent = now
<1>1. ASSUME NEW m \in on
      PROVE  \E f \in Vectors(n, on) :
               f.kind = "dv" /\ f.from = n /\ f.to = m /\ f.sent = now
  <2> DEFINE r == [kind |-> "dv", from |-> n, to |-> m, sent |-> now]
  <2>1. r \in Vectors(n, on)
    BY DEF Vectors
  <2> QED
    BY <2>1
<1> QED
  BY <1>1 DEF Vectors

LEMMA NoteFacts ==
  ASSUME TypeOK, ClockInv, NoWrap, NEW f \in transit, Note(f)
  PROVE  /\ lastTime' = heard'
         /\ f.kind \in Orders => heard' = heard
         /\ \A n, m \in Node :
              heard'[n][m] = IF n = f.to /\ m = f.from /\ f.kind \notin Orders
                             THEN now ELSE heard[n][m]
<1>1. Reading = now
  BY TrueTime
<1>2. f.to \in Node /\ f.from \in Node /\ heard \in [Node -> [Node -> Int]]
  BY DEF TypeOK, Datagram
<1>3. lastTime = heard
  BY DEF ClockInv
<1>4. heard' = [heard EXCEPT ![f.to][f.from] = IF f.kind \in Orders THEN @ ELSE now]
      /\ lastTime' = [lastTime EXCEPT ![f.to][f.from] = IF f.kind \in Orders THEN @ ELSE now]
  BY <1>1 DEF Note, Noted
<1>5. f.kind \in Orders => heard' = heard
  BY <1>2, <1>4
<1> QED
  BY <1>2, <1>3, <1>4, <1>5

(* What a command does at n, whoever gave it: to what is under way, to the *)
(* other nodes, to the node itself, and to those that miss it.             *)
CmdTransit(n, rest) ==
  /\ rest \subseteq transit'
  /\ \A f \in transit' \ rest :
       /\ f.kind = "dv" /\ f.from = n /\ f.to \in Links[n] /\ f.sent = now
       /\ ~ sleeping'[n]

CmdOthers(n) ==
  \A m \in Node \ {n} :
    /\ since'[m] = since[m] /\ spoke'[m] = spoke[m] /\ time'[m] = time[m]
    /\ sleeping'[m] = sleeping[m] /\ stalled'[m] = stalled[m]
    /\ nextHeartBeat'[m] = nextHeartBeat[m] /\ nextHeartCheck'[m] = nextHeartCheck[m]
    /\ online'[m] = online[m]
    /\ \A x \in Node : missed'[x][m] = missed[x][m]

CmdSelf(n) ==
  /\ since'[n] \in {since[n], now} /\ spoke'[n] \in {spoke[n], now}
  /\ time'[n] \in {time[n], now}
  /\ stalled[n] => stalled'[n]
  /\ sleeping'[n] => since'[n] = IF sleeping[n] THEN since[n] ELSE now

CmdMissed(n) ==
  \A x \in Links[n] : ~ missed'[x][n] =>
    /\ ~ missed[x][n]
    /\ sleeping'[n] => sleeping[n]
    /\ stalled'[n] = stalled[n]
    /\ \/ sleeping[n] \/ spoke'[n] = spoke[n]
       \/ \E f \in transit' : f.kind = "dv" /\ f.from = n /\ f.to = x /\ f.sent = now

LEMMA CommandFacts ==
  ASSUME TypeOK, NoWrap, NEW n \in Node, NEW c, NEW rest \in SUBSET transit,
         Command(n, c, rest)
  PROVE  /\ UNCHANGED <<now, turned>>
         /\ CmdTransit(n, rest) /\ CmdOthers(n) /\ CmdSelf(n) /\ CmdMissed(n)
<1>0. /\ Reading = now /\ Links[n] \in SUBSET Node
      /\ online[n] \in SUBSET Node /\ online[n] \subseteq Links[n]
  BY Numbers, TrueTime DEF TypeOK
<1>t. /\ since \in [Node -> Int] /\ spoke \in [Node -> Int] /\ time \in [Node -> Int]
      /\ sleeping \in [Node -> BOOLEAN] /\ stalled \in [Node -> BOOLEAN]
      /\ nextHeartBeat \in [Node -> Int] /\ nextHeartCheck \in [Node -> Int]
      /\ online \in [Node -> SUBSET Node] /\ missed \in [Node -> [Node -> BOOLEAN]]
  BY DEF TypeOK
<1>u. UNCHANGED <<now, turned>>
  BY DEF Command
<1>m. ASSUME NEW on, NEW x \in Node, NEW y \in Node
      PROVE  MissedBut(missed, n, on)[x][y] = IF y = n THEN missed[x][y] \/ x \notin on
                                              ELSE missed[x][y]
  BY <1>t DEF MissedBut
<1>1. CASE CmdSleep(n, rest)
  <2>1. CmdTransit(n, rest)
    BY <1>1 DEF CmdSleep, CmdTransit
  <2>2. CmdOthers(n)
    <3>1. \A m \in Node \ {n} : \A x \in Node : missed'[x][m] = missed[x][m]
      BY <1>m, <1>1 DEF CmdSleep, NobodyHears
    <3> QED
      BY <1>t, <1>1, <3>1 DEF CmdSleep, CmdOthers, routerVars
  <2>3. CmdSelf(n)
    BY <1>t, <1>1 DEF CmdSleep, CmdSelf, routerVars
  <2>4. CmdMissed(n)
    <3>1. missed' = MissedBut(missed, n, {})
      BY <1>1 DEF CmdSleep, NobodyHears
    <3>2. \A x \in Links[n] : missed'[x][n]
      BY <1>0, <1>t, <3>1 DEF MissedBut
    <3> QED
      BY <3>2 DEF CmdMissed
  <2> QED
    BY <1>u, <2>1, <2>2, <2>3, <2>4
<1>2. CASE CmdWake(n, rest)
  <2>1. CmdTransit(n, rest)
    BY <1>0, <1>t, <1>2, VectorFacts DEF CmdWake, Greet, CmdTransit
  <2>2. CmdOthers(n)
    <3>1. \A m \in Node \ {n} : \A x \in Node : missed'[x][m] = missed[x][m]
      BY <1>m, <1>2 DEF CmdWake, Greet
    <3> QED
      BY <1>t, <1>2, <3>1 DEF CmdWake, Greet, CmdOthers
  <2>3. CmdSelf(n)
    BY <1>0, <1>t, <1>2 DEF CmdWake, Greet, CmdSelf
  <2>4. CmdMissed(n)
    <3>1. ASSUME NEW x \in Links[n], ~ missed'[x][n]
          PROVE  ~ missed[x][n]
      BY <1>0, <1>m, <1>2, <3>1 DEF CmdWake, Greet
    <3>2. ~ sleeping'[n] /\ stalled'[n] = stalled[n]
      BY <1>t, <1>2 DEF CmdWake
    <3>3. \A x \in Links[n] : \E f \in transit' :
            f.kind = "dv" /\ f.from = n /\ f.to = x /\ f.sent = now
      BY <1>0, <1>2, VectorFacts DEF CmdWake, Greet
    <3> QED
      BY <3>1, <3>2, <3>3 DEF CmdMissed
  <2> QED
    BY <1>u, <2>1, <2>2, <2>3, <2>4
<1>3. CASE CmdStall(n, rest)
  <2>1. CmdTransit(n, rest)
    BY <1>3 DEF CmdStall, CmdTransit
  <2>2. CmdOthers(n)
    <3>1. \A m \in Node \ {n} : \A x \in Node : missed'[x][m] = missed[x][m]
      BY <1>m, <1>3 DEF CmdStall, NobodyHears
    <3> QED
      BY <1>t, <1>3, <3>1 DEF CmdStall, CmdOthers, routerVars
  <2>3. CmdSelf(n)
    <3>1. CASE sleeping[n]
      BY <1>t, <1>3, <3>1 DEF CmdStall, CmdSelf, routerVars
    <3>2. CASE ~ sleeping[n]
      BY <1>t, <1>3, <3>2 DEF CmdStall, CmdSelf, routerVars
    <3> QED
      BY <3>1, <3>2
  <2>4. CmdMissed(n)
    BY <1>0, <1>m, <1>3 DEF CmdStall, CmdMissed, NobodyHears
  <2> QED
    BY <1>u, <2>1, <2>2, <2>3, <2>4
<1>4. CASE \E on \in SUBSET Links[n] :
             /\ transit' = rest \cup SendDv(n, on)
             /\ Spoke(n)
             /\ missed' = MissedBut(missed, n, on)
             /\ \A m \in Node \ {n} : online'[m] = online[m]
             /\ UNCHANGED <<routerVars, sleeping, stalled, since>>
  <2> PICK on \in SUBSET Links[n] :
             /\ transit' = rest \cup SendDv(n, on)
             /\ Spoke(n)
             /\ missed' = MissedBut(missed, n, on)
             /\ \A m \in Node \ {n} : online'[m] = online[m]
             /\ UNCHANGED <<routerVars, sleeping, stalled, since>>
    BY <1>4
  <2>0. on \in SUBSET Node
    BY <1>0
  <2>1. CmdTransit(n, rest)
    BY <2>0, VectorFacts DEF SendDv, CmdTransit
  <2>2. CmdOthers(n)
    <3>1. \A m \in Node \ {n} : \A x \in Node : missed'[x][m] = missed[x][m]
      BY <1>m
    <3>2. \A m \in Node \ {n} : spoke'[m] = spoke[m]
      BY <1>t DEF Spoke
    <3> QED
      BY <1>t, <3>1, <3>2 DEF CmdOthers, routerVars
  <2>3. CmdSelf(n)
    <3>1. spoke'[n] \in {spoke[n], now}
      BY <1>t DEF Spoke
    <3>2. since' = since /\ time' = time /\ stalled' = stalled /\ sleeping' = sleeping
      BY DEF routerVars
    <3> QED
      BY <3>1, <3>2 DEF CmdSelf
  <2>4. CmdMissed(n)
    <3>1. ASSUME NEW x \in Links[n], ~ missed'[x][n]
          PROVE  ~ missed[x][n] /\ x \in on
      BY <1>0, <1>m, <3>1
    <3>2. ASSUME NEW x \in on, ~ sleeping[n]
          PROVE  \E f \in transit' : f.kind = "dv" /\ f.from = n /\ f.to = x /\ f.sent = now
      BY <2>0, <3>2, VectorFacts DEF SendDv
    <3> QED
      BY <3>1, <3>2 DEF CmdMissed
  <2> QED
    BY <1>u, <2>1, <2>2, <2>3, <2>4
<1>5. CASE /\ transit' = rest
           /\ \A m \in Node \ {n} : online'[m] = online[m]
           /\ UNCHANGED <<routerVars, sleeping, stalled, since, spoke, missed>>
  <2>1. CmdTransit(n, rest)
    BY <1>5 DEF CmdTransit
  <2>2. CmdOthers(n)
    BY <1>5 DEF CmdOthers, routerVars
  <2>3. CmdSelf(n)
    <3>1. since' = since /\ time' = time /\ stalled' = stalled /\ sleeping' = sleeping
          /\ spoke' = spoke
      BY <1>5 DEF routerVars
    <3> QED
      BY <3>1 DEF CmdSelf
  <2>4. CmdMissed(n)
    BY <1>5 DEF CmdMissed
  <2> QED
    BY <1>u, <2>1, <2>2, <2>3, <2>4
<1>6. CASE CmdHeartbeat(n, rest)
  <2>1. online[n] \in SUBSET Links[n]
    BY <1>0
  <2> QED
    BY <1>4, <1>6, <2>1 DEF CmdHeartbeat
<1>7. CASE CmdHeartcheck(n, rest)
  <2> DEFINE gone == Gone(n, time[n])
  <2>1. \A m \in Node \ {n} : online'[m] = online[m]
    BY <1>t, <1>7 DEF CmdHeartcheck
  <2>2. CASE gone = {}
    BY <1>5, <1>7, <2>1, <2>2 DEF CmdHeartcheck
  <2>3. CASE gone # {}
    <3>1. online[n] \ gone \in SUBSET Links[n]
      BY <1>0
    <3> QED
      BY <1>4, <1>7, <2>1, <2>3, <3>1 DEF CmdHeartcheck
  <2> QED
    BY <2>2, <2>3
<1> QED
  BY <1>1, <1>2, <1>3, <1>6, <1>7 DEF Command

-----------------------------------------------------------------------------
(* The invariant.                                                          *)
LEMMA ClockInit ==
  ASSUME Init, NoWrap
  PROVE  ClockInv
<1>1. now \in Nat
  BY TimesAssumption DEF Init
<1>2. \A f \in transit : f.sent = now
  BY DEF Init, Vectors
<1>3. Reading = now
  BY TypeInit, TrueTime
<1> QED
  BY <1>1, <1>2, <1>3, Numbers DEF Init, ClockInv

LEMMA ClockCommand ==
  ASSUME TypeOK, ClockInv, NoWrap, NEW n \in Node, NEW c, NEW rest \in SUBSET transit,
         Command(n, c, rest), UNCHANGED <<lastTime, heard>>
  PROVE  ClockInv'
<1>0. now \in Nat /\ Poll \in [Node -> Nat] /\ Delay \in Nat
  BY Numbers, TimesAssumption DEF TypeOK
<1>1. /\ UNCHANGED <<now, turned>>
      /\ CmdTransit(n, rest) /\ CmdOthers(n) /\ CmdSelf(n)
  BY CommandFacts
<1>2. \A f \in transit' : f.sent <= now' /\ now' <= f.sent + Delay
  BY <1>0, <1>1 DEF CmdTransit, ClockInv
<1>3. \A m \in Node : /\ time'[m] \in {time[m], now} /\ since'[m] \in {since[m], now}
                      /\ spoke'[m] \in {spoke[m], now}
  BY <1>1 DEF CmdOthers, CmdSelf
<1> QED
  BY <1>0, <1>1, <1>2, <1>3 DEF ClockInv

LEMMA ClockNext ==
  ASSUME TypeOK, TypeOK', ClockInv, NoWrap, [Next]_vars
  PROVE  ClockInv'
<1>0. now \in Nat /\ Poll \in [Node -> Nat] /\ Delay \in Nat /\ Reading = now
  BY Numbers, TimesAssumption, TrueTime DEF TypeOK
<1>t. /\ turned \in [Node -> Int] /\ spoke \in [Node -> Int] /\ time \in [Node -> Int]
      /\ \A f \in transit : f.sent \in Int /\ f.to \in Node /\ f.from \in Node
  BY DEF TypeOK, Datagram
<1>o. Operated \subseteq Node
  BY OrdersAssumption
<1>n. ASSUME NEW f \in transit, Note(f)
      PROVE  /\ lastTime' = heard'
             /\ \A n, m \in Node : 0 <= heard'[n][m] /\ heard'[n][m] <= now
  BY <1>0, <1>n, NoteFacts DEF ClockInv
<1>s. ASSUME NEW n \in Node, Spoke(n)
      PROVE  \A m \in Node : spoke'[m] <= now
  BY <1>0, <1>t, <1>s DEF Spoke, ClockInv
<1>v. ASSUME NEW n \in Node, NEW on \in SUBSET Node
      PROVE  \A f \in SendDv(n, on) : f.sent <= now /\ now <= f.sent + Delay
  BY <1>0, VectorFacts DEF SendDv
<1>1. CASE Tick
  <2>1. /\ now' = now + 1 /\ \A n \in Node : now < turned[n] + Poll[n]
        /\ \A f \in transit : now < f.sent + Delay
        /\ UNCHANGED <<time, transit, lastTime, turned, since, spoke, heard>>
    BY <1>1 DEF Tick, routerVars
  <2>2. \A n \in Node : turned[n] <= now' /\ now' <= turned[n] + Poll[n]
    BY <1>0, <1>t, <2>1 DEF ClockInv
  <2>3. \A f \in transit : f.sent <= now' /\ now' <= f.sent + Delay
    BY <1>0, <1>t, <2>1 DEF ClockInv
  <2>4. \A x \in Int : x <= now => x <= now'
    BY <1>0, <2>1
  <2>5. \A n \in Node : since[n] \in Int /\ \A m \in Node : heard[n][m] \in Int
    BY DEF TypeOK
  <2>6. \A n \in Node : time[n] <= now' /\ since[n] <= now' /\ spoke[n] <= now'
    BY <1>t, <2>4, <2>5 DEF ClockInv
  <2>7. \A n, m \in Node : heard[n][m] <= now'
    BY <2>4, <2>5 DEF ClockInv
  <2> QED
    BY <2>1, <2>2, <2>3, <2>6, <2>7 DEF ClockInv
<1>2. ASSUME NEW n \in Node, Turn(n) PROVE ClockInv'
  <2> DEFINE gone == IF CheckDue(n) THEN Gone(n, Reading) ELSE {}
             on == online[n] \ gone
  <2>1. \A f \in SendDv(n, online[n]) \cup SendDv(n, on) :
          f.sent <= now /\ now <= f.sent + Delay
    <3>1. online[n] \in SUBSET Node /\ on \in SUBSET Node
      BY DEF TypeOK
    <3> QED
      BY <3>1, <1>v
  <2>2. \A f \in transit' : f.sent <= now /\ now <= f.sent + Delay
    <3>1. transit' \subseteq transit \cup SendDv(n, online[n]) \cup SendDv(n, on)
      BY <1>2 DEF Turn
    <3> QED
      BY <2>1, <3>1 DEF ClockInv
  <2>3. \A m \in Node : spoke'[m] <= now
    BY <1>2, <1>s DEF Turn, ClockInv
  <2>4. \A m \in Node : turned'[m] <= now /\ now <= turned'[m] + Poll[m] /\ time'[m] <= now
    BY <1>0, <1>t, <1>2 DEF Turn, ClockInv
  <2>5. UNCHANGED <<now, lastTime, since, heard>>
    BY <1>2 DEF Turn
  <2> QED
    BY <2>2, <2>3, <2>4, <2>5 DEF ClockInv
<1>3. ASSUME NEW n \in Operated, NEW m \in Node, SendRbl(n, m) PROVE ClockInv'
  <2>1. \A f \in transit' : f.sent <= now /\ now <= f.sent + Delay
    BY <1>0, <1>3 DEF SendRbl, ClockInv
  <2> QED
    BY <1>3, <2>1 DEF SendRbl, ClockInv, routerVars
<1>4. ASSUME NEW n \in Operated, NEW c \in Orders, Typed(n, c) PROVE ClockInv'
  <2>1. UNCHANGED <<lastTime, heard>> /\ Command(n, c, transit)
    BY <1>4 DEF Typed
  <2> QED
    BY <1>o, <2>1, ClockCommand
<1>5. ASSUME NEW n \in Operated, NEW c \in Broadcast, CmdAll(n, c) PROVE ClockInv'
  <2>1. \A f \in transit' : f.sent <= now /\ now <= f.sent + Delay
    BY <1>0, <1>5 DEF CmdAll, ClockInv
  <2> QED
    BY <1>5, <2>1 DEF CmdAll, ClockInv, routerVars
<1>6. ASSUME NEW f \in transit, ReceiveDv(f) PROVE ClockInv'
  <2> DEFINE n == f.to
             on == online[n] \cup ({f.from} \cap Links[n])
  <2>1. n \in Node /\ on \in SUBSET Node
    BY <1>t DEF TypeOK
  <2>2. transit' \subseteq transit \cup SendDv(n, on)
    BY <1>6 DEF ReceiveDv
  <2>3. \A g \in transit' : g.sent <= now /\ now <= g.sent + Delay
    BY <1>v, <2>1, <2>2 DEF ClockInv
  <2>4. \A m \in Node : spoke'[m] <= now
    BY <1>6, <1>s, <2>1 DEF ReceiveDv, ClockInv
  <2>5. Note(f) /\ UNCHANGED <<now, routerVars, turned, since>>
    BY <1>6 DEF ReceiveDv
  <2> QED
    BY <1>n, <2>3, <2>4, <2>5 DEF ClockInv, routerVars
<1>7. ASSUME NEW f \in transit, ReceiveRbl(f) \/ Discard(f) PROVE ClockInv'
  <2>1. /\ transit' \subseteq transit /\ Note(f)
        /\ UNCHANGED <<now, routerVars, turned, since, spoke>>
    BY <1>7 DEF ReceiveRbl, Discard
  <2> QED
    BY <1>n, <2>1 DEF ClockInv, routerVars
<1>8. ASSUME NEW f \in transit, ReceiveOrder(f) PROVE ClockInv'
  <2>1. Note(f) /\ f.kind \in Orders /\ Command(f.to, f.kind, transit \ {f})
    BY <1>8 DEF ReceiveOrder
  <2>2. UNCHANGED <<lastTime, heard>>
    BY <2>1, NoteFacts DEF ClockInv
  <2> QED
    BY <1>t, <2>1, <2>2, ClockCommand
<1>9. ASSUME NEW f \in transit, Lose(f) PROVE ClockInv'
  BY <1>9 DEF Lose, ClockInv, routerVars
<1>10. CASE UNCHANGED vars
  BY <1>10 DEF vars, ClockInv, routerVars
<1> QED
  BY <1>1, <1>2, <1>3, <1>4, <1>5, <1>6, <1>7, <1>8, <1>9, <1>10 DEF Next, Receive

-----------------------------------------------------------------------------
LEMMA LaterFacts ==
  \A s, t \in Int :
    /\ Detector!Later(s, t) \in Int
    /\ s <= Detector!Later(s, t) /\ t <= Detector!Later(s, t)
    /\ \A u \in Int : s <= u => Detector!Later(s, t) <= Detector!Later(u, t)
BY DEF Detector!Later

(* DeadlineInv, node by node.                                              *)
DeadlineOf(n) ==
  ~ stalled[n] =>
    /\ turned[n] < nextHeartBeat[n] /\ turned[n] < nextHeartCheck[n]
    /\ nextHeartCheck[n] <= now + HeartcheckTime
    /\ ~ sleeping[n] =>
         /\ nextHeartBeat[n] <= spoke[n] + HeartbeatTime
         /\ \A m \in online[n] :
              nextHeartCheck[n] <= Detector!Later(heard[n][m], since[n]) + 2 * HeartcheckTime

LEMMA DeadlineParts == DeadlineInv <=> \A n \in Node : DeadlineOf(n)
BY DEF DeadlineInv, DeadlineOf

(* When all that changes is that the node has heard or spoken since, or    *)
(* holds fewer nodes alive, or one it has just heard.                      *)
LEMMA DeadlineKept ==
  ASSUME TypeOK, TypeOK', ClockInv, ClockInv', NEW n \in Node, DeadlineOf(n), now <= now',
         turned'[n] = turned[n], nextHeartBeat'[n] = nextHeartBeat[n],
         nextHeartCheck'[n] = nextHeartCheck[n],
         since'[n] = since[n], stalled'[n] = stalled[n], sleeping'[n] = sleeping[n],
         spoke[n] <= spoke'[n],
         \A m \in Node : heard[n][m] <= heard'[n][m],
         \A m \in online'[n] \ online[n] : heard'[n][m] = now
  PROVE  DeadlineOf(n)'
<1>0. HeartbeatTime \in Nat /\ HeartcheckTime \in Nat /\ now \in Int /\ now' \in Int
  BY Numbers DEF TypeOK
<1>t. /\ turned[n] \in Int /\ spoke[n] \in Int /\ spoke'[n] \in Int /\ since[n] \in Int
      /\ nextHeartBeat[n] \in Int /\ nextHeartCheck[n] \in Int
      /\ online'[n] \subseteq Node
      /\ \A m \in Node : heard[n][m] \in Int /\ heard'[n][m] \in Int
  BY DEF TypeOK
<1> SUFFICES ASSUME ~ stalled[n] PROVE DeadlineOf(n)'
  BY DEF DeadlineOf
<1>1. turned[n] < nextHeartBeat[n] /\ turned[n] < nextHeartCheck[n]
      /\ nextHeartCheck[n] <= now + HeartcheckTime
  BY DEF DeadlineOf
<1>2. nextHeartCheck[n] <= now' + HeartcheckTime
  BY <1>0, <1>t, <1>1
<1>3. ASSUME ~ sleeping[n]
      PROVE  nextHeartBeat[n] <= spoke'[n] + HeartbeatTime
  BY <1>0, <1>t, <1>3 DEF DeadlineOf
<1>4. ASSUME ~ sleeping[n], NEW m \in online'[n]
      PROVE  nextHeartCheck[n] <= Detector!Later(heard'[n][m], since[n]) + 2 * HeartcheckTime
  <2>1. m \in Node
    BY <1>t
  <2>2. CASE m \in online[n]
    <3>1. nextHeartCheck[n] <= Detector!Later(heard[n][m], since[n]) + 2 * HeartcheckTime
      BY <1>4, <2>2 DEF DeadlineOf
    <3>2. Detector!Later(heard[n][m], since[n]) <= Detector!Later(heard'[n][m], since[n])
          /\ Detector!Later(heard[n][m], since[n]) \in Int
          /\ Detector!Later(heard'[n][m], since[n]) \in Int
      BY <1>t, <2>1, LaterFacts
    <3> QED
      BY <1>0, <1>t, <3>1, <3>2
  <2>3. CASE m \notin online[n]
    <3>1. now <= Detector!Later(heard'[n][m], since[n])
          /\ Detector!Later(heard'[n][m], since[n]) \in Int
      BY <1>0, <1>t, <2>1, <2>3, LaterFacts
    <3> QED
      BY <1>0, <1>t, <1>1, <3>1
  <2> QED
    BY <2>2, <2>3
<1> QED
  BY <1>1, <1>2, <1>3, <1>4 DEF DeadlineOf

LEMMA DeadlineInit ==
  ASSUME Init, NoWrap
  PROVE  DeadlineInv
<1>1. TypeOK /\ now \in Nat /\ HeartbeatTime \in Nat \ {0} /\ HeartcheckTime \in Nat \ {0}
  BY TypeInit, Numbers, TimesAssumption DEF Init
<1>2. /\ Reading = now /\ Sum(now, HeartbeatTime) = now + HeartbeatTime
      /\ Sum(now, HeartcheckTime) = now + HeartcheckTime
  BY <1>1, TrueTime
<1>3. ASSUME NEW n \in Node PROVE DeadlineOf(n)
  <2>1. /\ turned[n] = now /\ spoke[n] = now /\ since[n] = now
        /\ nextHeartBeat[n] = now + HeartbeatTime
        /\ nextHeartCheck[n] = now + HeartcheckTime
        /\ online[n] \subseteq Node
        /\ \A m \in Node : heard[n][m] = 0
    BY <1>1, <1>2 DEF Init, TypeOK
  <2>2. Detector!Later(0, now) = now
    BY <1>1 DEF Detector!Later
  <2> QED
    BY <1>1, <2>1, <2>2 DEF DeadlineOf
<1> QED
  BY <1>3, DeadlineParts

LEMMA DeadlineCommand ==
  ASSUME TypeOK, TypeOK', ClockInv, ClockInv', DeadlineInv, NoWrap, NEW n \in Node, NEW c,
         NEW rest \in SUBSET transit, Command(n, c, rest), UNCHANGED <<lastTime, heard>>
  PROVE  DeadlineInv'
<1>0. /\ now \in Nat /\ HeartbeatTime \in Nat \ {0} /\ HeartcheckTime \in Nat \ {0}
      /\ turned[n] <= now /\ turned[n] \in Int
  BY Numbers, TimesAssumption DEF TypeOK, ClockInv
<1>t. /\ since \in [Node -> Int] /\ spoke \in [Node -> Int]
      /\ sleeping \in [Node -> BOOLEAN] /\ stalled \in [Node -> BOOLEAN]
      /\ nextHeartBeat \in [Node -> Int] /\ nextHeartCheck \in [Node -> Int]
      /\ online \in [Node -> SUBSET Node]
      /\ \A x, m \in Node : heard[x][m] \in Int
  BY DEF TypeOK
<1>1. UNCHANGED <<now, turned>> /\ CmdOthers(n) /\ CmdSelf(n)
  BY CommandFacts
<1>2. ASSUME NEW m \in Node \ {n} PROVE DeadlineOf(m)'
  <2>1. DeadlineOf(m)
    BY DeadlineParts
  <2>2. /\ nextHeartBeat'[m] = nextHeartBeat[m] /\ nextHeartCheck'[m] = nextHeartCheck[m]
        /\ since'[m] = since[m] /\ spoke'[m] = spoke[m] /\ stalled'[m] = stalled[m]
        /\ sleeping'[m] = sleeping[m] /\ online'[m] = online[m] /\ turned'[m] = turned[m]
    BY <1>1 DEF CmdOthers
  <2> QED
    BY <1>1, <2>1, <2>2 DEF DeadlineOf
<1>3. DeadlineOf(n)
  BY DeadlineParts
<1>4. ASSUME CmdSleep(n, rest) PROVE DeadlineOf(n)'
  <2>1. sleeping'[n]
    BY <1>t, <1>4 DEF CmdSleep
  <2>2. UNCHANGED <<now, turned, nextHeartBeat, nextHeartCheck, stalled>>
    BY <1>1, <1>4 DEF CmdSleep, routerVars
  <2> QED
    BY <1>3, <2>1, <2>2 DEF DeadlineOf
<1>5. ASSUME CmdWake(n, rest) PROVE DeadlineOf(n)'
  <2>1. /\ Reading = now /\ Sum(now, HeartbeatTime) = now + HeartbeatTime
        /\ Sum(now, HeartcheckTime) = now + HeartcheckTime
    BY <1>0, TrueTime
  <2>2. /\ nextHeartBeat'[n] = now + HeartbeatTime
        /\ nextHeartCheck'[n] = now + HeartcheckTime
        /\ spoke'[n] = now /\ since'[n] = now /\ turned'[n] = turned[n] /\ now' = now
        /\ online'[n] \subseteq Node
    BY <1>t, <1>1, <1>5, <2>1 DEF CmdWake, Greet, TypeOK
  <2>3. ASSUME NEW m \in online'[n]
        PROVE  now + HeartcheckTime <= Detector!Later(heard'[n][m], now) + 2 * HeartcheckTime
    <3>1. heard'[n][m] \in Int
      BY <1>t, <2>2
    <3>2. now \in Int
      BY <1>0
    <3>3. Detector!Later(heard'[n][m], now) \in Int /\ now <= Detector!Later(heard'[n][m], now)
      BY <3>1, <3>2, LaterFacts
    <3> QED
      BY <1>0, <3>3
  <2>4. /\ turned'[n] < nextHeartBeat'[n] /\ turned'[n] < nextHeartCheck'[n]
        /\ nextHeartCheck'[n] <= now' + HeartcheckTime
        /\ nextHeartBeat'[n] <= spoke'[n] + HeartbeatTime
    BY <1>0, <2>2
  <2> QED
    BY <2>2, <2>3, <2>4 DEF DeadlineOf
<1>6. ASSUME CmdStall(n, rest) PROVE DeadlineOf(n)'
  <2>1. stalled'[n]
    BY <1>t, <1>6 DEF CmdStall
  <2> QED
    BY <2>1 DEF DeadlineOf
<1>7. ASSUME CmdHeartbeat(n, rest) PROVE DeadlineOf(n)'
  <2>1. spoke[n] <= spoke'[n]
    BY <1>0, <1>t, <1>1 DEF CmdSelf, ClockInv
  <2>2. UNCHANGED <<nextHeartBeat, nextHeartCheck, online, since, stalled, sleeping>>
    BY <1>7 DEF CmdHeartbeat, routerVars
  <2>3. now <= now' /\ turned'[n] = turned[n]
    BY <1>0, <1>1
  <2>4. \A m \in Node : heard[n][m] <= heard'[n][m]
    BY <1>t
  <2>5. \A m \in online'[n] \ online[n] : heard'[n][m] = now
    BY <2>2
  <2>6. /\ nextHeartBeat'[n] = nextHeartBeat[n] /\ nextHeartCheck'[n] = nextHeartCheck[n]
        /\ since'[n] = since[n] /\ stalled'[n] = stalled[n] /\ sleeping'[n] = sleeping[n]
    BY <2>2
  <2> QED
    BY <1>3, <2>1, <2>3, <2>4, <2>5, <2>6, DeadlineKept
<1>8. ASSUME CmdHeartcheck(n, rest) PROVE DeadlineOf(n)'
  <2>1. spoke[n] <= spoke'[n]
    BY <1>0, <1>t, <1>1 DEF CmdSelf, ClockInv
  <2>2. UNCHANGED <<nextHeartBeat, nextHeartCheck, since, stalled, sleeping>>
        /\ online'[n] \subseteq online[n]
    BY <1>t, <1>8 DEF CmdHeartcheck, routerVars
  <2>3. now <= now' /\ turned'[n] = turned[n]
    BY <1>0, <1>1
  <2>4. \A m \in Node : heard[n][m] <= heard'[n][m]
    BY <1>t
  <2>5. \A m \in online'[n] \ online[n] : heard'[n][m] = now
    BY <2>2
  <2>6. /\ nextHeartBeat'[n] = nextHeartBeat[n] /\ nextHeartCheck'[n] = nextHeartCheck[n]
        /\ since'[n] = since[n] /\ stalled'[n] = stalled[n] /\ sleeping'[n] = sleeping[n]
    BY <2>2
  <2> QED
    BY <1>3, <2>1, <2>3, <2>4, <2>5, <2>6, DeadlineKept
<1>9. DeadlineOf(n)'
  BY <1>4, <1>5, <1>6, <1>7, <1>8 DEF Command
<1>10. \A m \in Node : DeadlineOf(m)'
  BY <1>2, <1>9
<1> QED
  BY <1>10 DEF DeadlineInv, DeadlineOf

(* A node that looks whether anybody is silent keeps those it heard within *)
(* the heartcheck.                                                         *)
LEMMA SilentFacts ==
  ASSUME TypeOK, ClockInv, NoWrap, NEW n \in Node, NEW t \in Int,
         NEW m \in online[n]
  PROVE  m \in Silent(n, t) <=> heard[n][m] + HeartcheckTime < t
<1>1. m \in Node /\ lastTime[n][m] = heard[n][m] /\ heard[n][m] \in 0 .. now
  BY DEF TypeOK, ClockInv
<1>2. Sum(heard[n][m], HeartcheckTime) = heard[n][m] + HeartcheckTime
  BY <1>1, TrueTime
<1> QED
  BY <1>1, <1>2 DEF Silent

LEMMA DeadlineTurn ==
  ASSUME TypeOK, TypeOK', ClockInv, NoWrap, NEW n \in Node, DeadlineOf(n), Turn(n)
  PROVE  DeadlineOf(n)'
<1>0. now \in Nat /\ HeartbeatTime \in Nat \ {0} /\ HeartcheckTime \in Nat \ {0}
  BY Numbers, TimesAssumption DEF TypeOK
<1>t. /\ nextHeartBeat[n] \in Int /\ nextHeartCheck[n] \in Int /\ spoke[n] \in Int
      /\ spoke[n] <= now /\ since[n] \in Int
      /\ \A m \in Node : heard[n][m] \in Int
  BY DEF TypeOK, ClockInv
<1>r. /\ Reading = now /\ Sum(now, HeartbeatTime) = now + HeartbeatTime
      /\ Sum(now, HeartcheckTime) = now + HeartcheckTime
  BY <1>0, TrueTime
<1>u. UNCHANGED <<now, lastTime, sleeping, stalled, events, since, heard>>
  BY DEF Turn
<1> SUFFICES ASSUME ~ stalled[n] PROVE DeadlineOf(n)'
  BY <1>u DEF DeadlineOf
<1> DEFINE gone == IF CheckDue(n) THEN Gone(n, Reading) ELSE {}
<1>1. turned'[n] = now
  BY DEF Turn, TypeOK
<1>2. nextHeartBeat'[n] = IF now >= nextHeartBeat[n] THEN now + HeartbeatTime
                          ELSE nextHeartBeat[n]
  BY <1>r DEF Turn, BeatDue, TypeOK
<1>3. nextHeartCheck'[n] = IF now >= nextHeartCheck[n] THEN now + HeartcheckTime
                           ELSE nextHeartCheck[n]
  BY <1>r DEF Turn, NextCheck, CheckDue, TypeOK
<1>4. online'[n] = online[n] \ gone /\ online[n] \subseteq Node
  BY DEF Turn, TypeOK
<1>5. nextHeartCheck[n] <= now + HeartcheckTime
  BY DEF DeadlineOf
<1>6. /\ now < nextHeartBeat'[n] /\ now < nextHeartCheck'[n]
      /\ nextHeartCheck'[n] <= now + HeartcheckTime
  BY <1>0, <1>t, <1>2, <1>3, <1>5
<1>7. ASSUME ~ sleeping[n] PROVE nextHeartBeat'[n] <= spoke'[n] + HeartbeatTime
  <2>1. nextHeartBeat[n] <= spoke[n] + HeartbeatTime
    BY <1>7 DEF DeadlineOf
  <2>2. CASE now >= nextHeartBeat[n]
    <3>1. BeatDue(n)
      BY <1>r, <2>2 DEF BeatDue
    <3>2. spoke'[n] = now
      BY <1>7, <3>1 DEF Turn, Spoke, TypeOK
    <3> QED
      BY <1>0, <1>2, <2>2, <3>2
  <2>3. CASE ~ (now >= nextHeartBeat[n])
    <3>1. spoke'[n] \in {spoke[n], now}
      BY DEF Turn, Spoke, TypeOK
    <3>2. nextHeartBeat'[n] = nextHeartBeat[n]
      BY <1>2, <2>3
    <3> QED
      BY <1>0, <1>t, <2>1, <3>1, <3>2
  <2> QED
    BY <2>2, <2>3
<1>8. ASSUME ~ sleeping[n], NEW m \in online'[n]
      PROVE  nextHeartCheck'[n] <= Detector!Later(heard[n][m], since[n]) + 2 * HeartcheckTime
  <2>1. m \in online[n] /\ m \in Node /\ m \notin gone
    BY <1>4
  <2> DEFINE L == Detector!Later(heard[n][m], since[n])
  <2>2. L \in Int /\ heard[n][m] <= L
    BY <1>t, <2>1, LaterFacts
  <2>3. CASE now >= nextHeartCheck[n]
    <3>1. CheckDue(n)
      BY <1>r, <2>3 DEF CheckDue
    <3>2. m \notin Silent(n, now)
      BY <1>8, <1>r, <2>1, <3>1 DEF Gone
    <3>3. now <= heard[n][m] + HeartcheckTime
      BY <1>0, <1>t, <2>1, <3>2, SilentFacts
    <3> HIDE DEF L
    <3>4. now + HeartcheckTime <= L + 2 * HeartcheckTime
      BY <1>0, <1>t, <2>1, <2>2, <3>3
    <3> QED
      BY <1>3, <2>3, <3>4 DEF L
  <2>4. CASE ~ (now >= nextHeartCheck[n])
    <3>1. nextHeartCheck[n] <= L + 2 * HeartcheckTime
      BY <1>8, <2>1 DEF DeadlineOf
    <3> QED
      BY <1>3, <2>4, <3>1
  <2> QED
    BY <2>3, <2>4
<1> QED
  BY <1>u, <1>1, <1>6, <1>7, <1>8 DEF DeadlineOf

LEMMA DeadlineNext ==
  ASSUME TypeOK, TypeOK', ClockInv, ClockInv', DeadlineInv, NoWrap, [Next]_vars
  PROVE  DeadlineInv'
<1>o. Operated \subseteq Node /\ now \in Int /\ now' \in Int
  BY OrdersAssumption DEF TypeOK
<1>t. /\ \A n \in Node : spoke[n] \in Int /\ spoke[n] <= now
      /\ \A n, m \in Node : heard[n][m] \in Int /\ heard[n][m] <= now
      /\ \A f \in transit : f.to \in Node /\ f.from \in Node
  BY DEF TypeOK, Datagram, ClockInv
<1>n. ASSUME NEW f \in transit, Note(f)
      PROVE  /\ \A n, m \in Node : heard[n][m] <= heard'[n][m]
             /\ f.kind \notin Orders => heard'[f.to][f.from] = now
  BY <1>o, <1>t, <1>n, NoteFacts
(* Steps that leave the timers alone.                                      *)
<1>k. ASSUME now <= now', UNCHANGED <<routerVars, turned, since, sleeping, stalled>>,
             \A n \in Node : spoke[n] <= spoke'[n],
             \A n, m \in Node : heard[n][m] <= heard'[n][m],
             \A n \in Node : \A m \in online'[n] \ online[n] : heard'[n][m] = now
      PROVE  DeadlineInv'
  <2>1. ASSUME NEW n \in Node PROVE DeadlineOf(n)'
    <3>1. DeadlineOf(n)
      BY DeadlineParts
    <3>2. /\ turned'[n] = turned[n] /\ nextHeartBeat'[n] = nextHeartBeat[n]
          /\ nextHeartCheck'[n] = nextHeartCheck[n] /\ since'[n] = since[n]
          /\ stalled'[n] = stalled[n] /\ sleeping'[n] = sleeping[n]
      BY <1>k DEF routerVars
    <3>3. spoke[n] <= spoke'[n] /\ \A m \in Node : heard[n][m] <= heard'[n][m]
      BY <1>k
    <3> QED
      BY <1>k, <3>1, <3>2, <3>3, DeadlineKept
  <2> QED
    BY <2>1 DEF DeadlineInv, DeadlineOf
<1>1. CASE Tick
  <2>1. now <= now'
    BY <1>o, <1>1 DEF Tick
  <2>2. UNCHANGED <<routerVars, turned, since, sleeping, stalled, spoke, heard, online>>
    BY <1>1 DEF Tick
  <2> QED
    BY <1>k, <1>t, <2>1, <2>2
<1>2. ASSUME NEW n \in Node, Turn(n) PROVE DeadlineInv'
  <2>1. ASSUME NEW m \in Node \ {n} PROVE DeadlineOf(m)'
    <3>1. DeadlineOf(m)
      BY DeadlineParts
    <3>2. spoke'[m] = spoke[m]
      BY <1>2 DEF Turn, Spoke, TypeOK
    <3>3. /\ turned'[m] = turned[m] /\ nextHeartBeat'[m] = nextHeartBeat[m]
          /\ nextHeartCheck'[m] = nextHeartCheck[m] /\ online'[m] = online[m]
      BY <1>2 DEF Turn, TypeOK
    <3>4. UNCHANGED <<now, since, sleeping, stalled, heard>>
      BY <1>2 DEF Turn
    <3> QED
      BY <3>1, <3>2, <3>3, <3>4 DEF DeadlineOf
  <2>2. DeadlineOf(n)'
    BY <1>2, DeadlineParts, DeadlineTurn
  <2> QED
    BY <2>1, <2>2 DEF DeadlineInv, DeadlineOf
<1>3. ASSUME NEW n \in Operated, NEW m \in Node, SendRbl(n, m) PROVE DeadlineInv'
  <2>1. UNCHANGED <<now, routerVars, turned, since, sleeping, stalled, spoke, heard, online>>
    BY <1>3 DEF SendRbl
  <2> QED
    BY <1>k, <1>o, <1>t, <2>1
<1>4. ASSUME NEW n \in Operated, NEW c \in Orders, Typed(n, c) PROVE DeadlineInv'
  <2>1. UNCHANGED <<lastTime, heard>> /\ Command(n, c, transit)
    BY <1>4 DEF Typed
  <2> QED
    BY <1>o, <2>1, DeadlineCommand
<1>5. ASSUME NEW n \in Operated, NEW c \in Broadcast, CmdAll(n, c) PROVE DeadlineInv'
  <2>1. UNCHANGED <<now, routerVars, turned, since, sleeping, stalled, spoke, heard, online>>
    BY <1>5 DEF CmdAll
  <2> QED
    BY <1>k, <1>o, <1>t, <2>1
<1>6. ASSUME NEW f \in transit, ReceiveDv(f) PROVE DeadlineInv'
  <2>1. /\ UNCHANGED <<now, routerVars, turned, since, sleeping, stalled>>
        /\ Note(f) /\ f.kind \notin Orders
    BY <1>6, Numbers DEF ReceiveDv
  <2>2. \A n \in Node : spoke[n] <= spoke'[n]
    <3>1. Spoke(f.to) \/ UNCHANGED spoke
      BY <1>6 DEF ReceiveDv
    <3>2. ASSUME Spoke(f.to), NEW n \in Node PROVE spoke[n] <= spoke'[n]
      <4>1. spoke'[n] \in {spoke[n], now}
        BY <3>2 DEF Spoke, TypeOK
      <4> QED
        BY <1>o, <1>t, <4>1
    <3> QED
      BY <1>t, <3>1, <3>2
  <2>3. \A n \in Node : \A m \in online'[n] \ online[n] : n = f.to /\ m = f.from
    BY <1>t, <1>6 DEF ReceiveDv, TypeOK
  <2>4. /\ \A n, m \in Node : heard[n][m] <= heard'[n][m]
        /\ \A n \in Node : \A m \in online'[n] \ online[n] : heard'[n][m] = now
    BY <1>n, <2>1, <2>3
  <2> QED
    BY <1>k, <1>o, <2>1, <2>2, <2>4
<1>7. ASSUME NEW f \in transit, ReceiveRbl(f) \/ Discard(f) PROVE DeadlineInv'
  <2>1. /\ UNCHANGED <<now, routerVars, turned, since, sleeping, stalled, spoke, online>>
        /\ Note(f)
    BY <1>7 DEF ReceiveRbl, Discard
  <2> QED
    BY <1>k, <1>n, <1>o, <1>t, <2>1
<1>8. ASSUME NEW f \in transit, ReceiveOrder(f) PROVE DeadlineInv'
  <2>1. Note(f) /\ f.kind \in Orders /\ Command(f.to, f.kind, transit \ {f})
    BY <1>8 DEF ReceiveOrder
  <2>2. UNCHANGED <<lastTime, heard>>
    BY <2>1, NoteFacts DEF ClockInv
  <2> QED
    BY <1>t, <2>1, <2>2, DeadlineCommand
<1>9. ASSUME NEW f \in transit, Lose(f) PROVE DeadlineInv'
  <2>1. UNCHANGED <<now, routerVars, turned, since, sleeping, stalled, spoke, heard, online>>
    BY <1>9 DEF Lose
  <2> QED
    BY <1>k, <1>o, <1>t, <2>1
<1>10. CASE UNCHANGED vars
  BY <1>10 DEF vars, DeadlineInv, routerVars
<1> QED
  BY <1>1, <1>2, <1>3, <1>4, <1>5, <1>6, <1>7, <1>8, <1>9, <1>10 DEF Next, Receive

-----------------------------------------------------------------------------
LEMMA SilenceInit ==
  ASSUME Init, NoWrap
  PROVE  SilenceInv
<1>1. TypeOK /\ now \in Nat /\ Delay \in Nat
  BY TypeInit, Numbers, TimesAssumption DEF Init
<1>2. \A f \in transit : f.to \in Links[f.from]
  BY DEF Init, Vectors
<1>3. \A n \in Node : ~ sleeping[n]
  BY DEF Init
<1>4. \A f \in transit : f.from \in Node
  BY <1>1 DEF TypeOK, Datagram
<1> QED
  BY <1>2, <1>3, <1>4 DEF SilenceInv

LEMMA SilenceCommand ==
  ASSUME TypeOK, ClockInv, SilenceInv, NoWrap, NEW n \in Node, NEW c,
         NEW rest \in SUBSET transit, Command(n, c, rest), UNCHANGED <<lastTime, heard>>
  PROVE  SilenceInv'
<1>0. /\ now \in Int /\ Delay \in Nat
      /\ \A m \in Node : since[m] \in Int /\ \A x \in Node : heard[x][m] \in Int
      /\ \A f \in transit : f.from \in Node /\ f.sent \in Int
  BY Numbers DEF TypeOK, Datagram
<1>1. CmdTransit(n, rest) /\ CmdOthers(n) /\ CmdSelf(n)
  BY CommandFacts
<1>2. \A m \in Node : /\ m # n => sleeping'[m] = sleeping[m] /\ since'[m] = since[m]
                      /\ sleeping'[n] =>
                           since'[n] = IF sleeping[n] THEN since[n] ELSE now
  BY <1>1 DEF CmdOthers, CmdSelf
<1>3. ASSUME NEW f \in transit', f.kind \notin Orders
      PROVE  f.to \in Links[f.from] /\ (sleeping'[f.from] => f.sent <= since'[f.from])
  <2>1. CASE f \in rest
    <3>1. /\ f.to \in Links[f.from] /\ f.sent <= now
          /\ sleeping[f.from] => f.sent <= since[f.from]
      BY <1>3, <2>1 DEF SilenceInv, ClockInv
    <3> QED
      BY <1>0, <1>2, <2>1, <3>1
  <2>2. CASE f \notin rest
    BY <1>1, <2>2 DEF CmdTransit
  <2> QED
    BY <2>1, <2>2
<1>4. ASSUME NEW x \in Node, NEW m \in Node, sleeping'[m]
      PROVE  heard'[x][m] <= since'[m] + Delay
  <2>1. heard'[x][m] = heard[x][m] /\ heard[x][m] <= now
        /\ (sleeping[m] => heard[x][m] <= since[m] + Delay)
    BY DEF ClockInv, SilenceInv
  <2> QED
    BY <1>0, <1>2, <1>4, <2>1
<1> QED
  BY <1>3, <1>4 DEF SilenceInv

LEMMA SilenceNext ==
  ASSUME TypeOK, ClockInv, SilenceInv, NoWrap, [Next]_vars
  PROVE  SilenceInv'
<1>o. Operated \subseteq Node
  BY OrdersAssumption
<1>t. /\ \A f \in transit : f.to \in Node /\ f.from \in Node /\ f.sent \in Int
      /\ \A m \in Node : since[m] \in Int /\ online[m] \subseteq Links[m]
                         /\ online[m] \in SUBSET Node
      /\ now \in Int /\ Delay \in Nat
  BY Numbers DEF TypeOK, Datagram
(* Steps that send what a node that is awake may send, or an order.        *)
<1>k. ASSUME UNCHANGED <<sleeping, since>>,
             \A f \in transit' \ transit : f.kind \notin Orders =>
               f.to \in Links[f.from] /\ ~ sleeping[f.from],
             \A n, m \in Node : sleeping[m] => heard'[n][m] <= since[m] + Delay
      PROVE  SilenceInv'
  BY <1>k DEF SilenceInv
<1>h. \A n, m \in Node : sleeping[m] => heard[n][m] <= since[m] + Delay
  BY DEF SilenceInv
<1>n. ASSUME NEW f \in transit, Note(f)
      PROVE  \A n, m \in Node : sleeping[m] => heard'[n][m] <= since[m] + Delay
  <2> SUFFICES ASSUME NEW n \in Node, NEW m \in Node, sleeping[m]
               PROVE  heard'[n][m] <= since[m] + Delay
    OBVIOUS
  <2>1. CASE n = f.to /\ m = f.from /\ f.kind \notin Orders
    <3>1. f.sent <= since[m] /\ now <= f.sent + Delay
      BY <2>1 DEF SilenceInv, ClockInv
    <3>2. heard'[n][m] = now
      BY <1>n, <2>1, NoteFacts
    <3> QED
      BY <1>t, <3>1, <3>2
  <2>2. CASE ~ (n = f.to /\ m = f.from /\ f.kind \notin Orders)
    <3>1. heard'[n][m] = heard[n][m]
      BY <1>n, <2>2, NoteFacts
    <3> QED
      BY <1>h, <3>1
  <2> QED
    BY <2>1, <2>2
<1>v. ASSUME NEW n \in Node, NEW on \in SUBSET Links[n]
      PROVE  \A f \in SendDv(n, on) : f.to \in Links[f.from] /\ ~ sleeping[f.from]
  <2>1. on \in SUBSET Node
    BY Numbers
  <2> QED
    BY <2>1, VectorFacts DEF SendDv
<1>1. CASE Tick
  BY <1>1, <1>h, <1>k DEF Tick
<1>2. ASSUME NEW n \in Node, Turn(n) PROVE SilenceInv'
  <2> DEFINE gone == IF CheckDue(n) THEN Gone(n, Reading) ELSE {}
             on == online[n] \ gone
  <2>1. transit' \subseteq transit \cup SendDv(n, online[n]) \cup SendDv(n, on)
        /\ UNCHANGED <<sleeping, since, heard>>
    BY <1>2 DEF Turn
  <2>2. on \in SUBSET Links[n] /\ online[n] \in SUBSET Links[n]
    BY <1>t
  <2>3. \A f \in SendDv(n, online[n]) \cup SendDv(n, on) :
          f.to \in Links[f.from] /\ ~ sleeping[f.from]
    BY <1>v, <2>2
  <2> QED
    BY <1>h, <1>k, <2>1, <2>3
<1>3. ASSUME NEW n \in Operated, NEW m \in Node, SendRbl(n, m) PROVE SilenceInv'
  <2>1. /\ UNCHANGED <<sleeping, since, heard>>
        /\ transit' = transit \cup {[kind |-> "rbl", from |-> n, to |-> m, sent |-> now]}
        /\ ~ sleeping[n] /\ m \in Links[n]
    BY <1>3, <1>o, <1>t DEF SendRbl
  <2> QED
    BY <1>h, <1>k, <2>1
<1>4. ASSUME NEW n \in Operated, NEW c \in Orders, Typed(n, c) PROVE SilenceInv'
  <2>1. UNCHANGED <<lastTime, heard>> /\ Command(n, c, transit)
    BY <1>4 DEF Typed
  <2> QED
    BY <1>o, <2>1, SilenceCommand
<1>5. ASSUME NEW n \in Operated, NEW c \in Broadcast, CmdAll(n, c) PROVE SilenceInv'
  <2>1. /\ UNCHANGED <<sleeping, since, heard>>
        /\ \A f \in transit' \ transit : f.kind \in Orders
    BY <1>5, OrdersAssumption DEF CmdAll
  <2> QED
    BY <1>h, <1>k, <2>1
<1>6. ASSUME NEW f \in transit, ReceiveDv(f) PROVE SilenceInv'
  <2> DEFINE on == online[f.to] \cup ({f.from} \cap Links[f.to])
  <2>1. on \in SUBSET Links[f.to]
    BY <1>t
  <2>2. transit' \subseteq transit \cup SendDv(f.to, on) /\ UNCHANGED <<sleeping, since>>
        /\ Note(f)
    BY <1>6 DEF ReceiveDv
  <2>3. \A g \in SendDv(f.to, on) : g.to \in Links[g.from] /\ ~ sleeping[g.from]
    BY <1>t, <1>v, <2>1
  <2> QED
    BY <1>k, <1>n, <2>2, <2>3
<1>7. ASSUME NEW f \in transit, ReceiveRbl(f) \/ Discard(f) PROVE SilenceInv'
  <2>1. UNCHANGED <<sleeping, since>> /\ transit' \subseteq transit /\ Note(f)
    BY <1>7 DEF ReceiveRbl, Discard
  <2> QED
    BY <1>k, <1>n, <2>1
<1>8. ASSUME NEW f \in transit, ReceiveOrder(f) PROVE SilenceInv'
  <2>1. Note(f) /\ f.kind \in Orders /\ Command(f.to, f.kind, transit \ {f})
    BY <1>8 DEF ReceiveOrder
  <2>2. UNCHANGED <<lastTime, heard>>
    BY <2>1, NoteFacts DEF ClockInv
  <2> QED
    BY <1>t, <2>1, <2>2, SilenceCommand
<1>9. ASSUME NEW f \in transit, Lose(f) PROVE SilenceInv'
  BY <1>9, <1>h, <1>k DEF Lose
<1>10. CASE UNCHANGED vars
  BY <1>10 DEF vars, SilenceInv
<1> QED
  BY <1>1, <1>2, <1>3, <1>4, <1>5, <1>6, <1>7, <1>8, <1>9, <1>10 DEF Next, Receive

-----------------------------------------------------------------------------
LEMMA FreshInit ==
  ASSUME Init, NoWrap
  PROVE  FreshInv
<1> SUFFICES ASSUME NEW m \in Node, NEW n \in Links[m]
             PROVE  /\ ~ sleeping[m] /\ ~ stalled[m]
                    /\ spoke[m] <= heard[n][m] \/ NewsComes(n, m)
  BY DEF FreshInv
<1>0. /\ now \in Nat /\ HeartbeatTime \in Nat /\ Poll[m] \in Nat /\ n \in Node
      /\ Links[m] \in SUBSET Node /\ heard[n][m] = 0
  BY Numbers, TimesAssumption DEF Init
<1>1. PICK f \in Vectors(m, Links[m]) :
        f.kind = "dv" /\ f.from = m /\ f.to = n /\ f.sent = now
  BY <1>0, VectorFacts
<1>f. f \in transit
  BY DEF Init
<1>2. now <= HeartbeatTime
  BY PatienceAssumption DEF Init
<1>3. NewsComes(n, m)
  BY <1>0, <1>1, <1>2, <1>f DEF NewsComes
<1> QED
  BY <1>3 DEF Init

(* One pair of nodes: m has not been missed by n, and it either keeps      *)
(* quiet or sends n its vector.                                            *)
LEMMA FreshPair ==
  ASSUME TypeOK, ClockInv, DeadlineInv, FreshInv,
         NEW m \in Node, NEW n \in Links[m], ~ missed[n][m],
         \A f \in transit : f.kind = "dv" /\ f.from = m /\ f.to = n => f \in transit',
         heard'[n][m] = heard[n][m],
         \/ spoke'[m] = spoke[m]
         \/ \E f \in transit' : f.kind = "dv" /\ f.from = m /\ f.to = n /\ f.sent = now
  PROVE  spoke'[m] <= heard'[n][m] \/ NewsComes(n, m)'
<1>0. /\ now \in Int /\ HeartbeatTime \in Nat /\ Poll[m] \in Nat /\ n \in Node
      /\ turned[m] \in Int /\ spoke[m] \in Int /\ nextHeartBeat[m] \in Int
      /\ heard[n][m] \in Int
  BY Numbers DEF TypeOK
<1>1. /\ ~ sleeping[m] /\ ~ stalled[m]
      /\ spoke[m] <= heard[n][m] \/ NewsComes(n, m)
  BY DEF FreshInv
<1>2. CASE NewsComes(n, m)
  BY <1>2 DEF NewsComes
<1>3. CASE ~ NewsComes(n, m) /\ spoke'[m] = spoke[m]
  BY <1>1, <1>3
<1>4. CASE /\ ~ NewsComes(n, m)
           /\ \E f \in transit' : f.kind = "dv" /\ f.from = m /\ f.to = n /\ f.sent = now
  <2>1. now <= turned[m] + Poll[m] /\ turned[m] < nextHeartBeat[m]
        /\ nextHeartBeat[m] <= spoke[m] + HeartbeatTime /\ spoke[m] <= heard[n][m]
    BY <1>1, <1>4 DEF ClockInv, DeadlineInv
  <2>2. now <= heard'[n][m] + HeartbeatTime + Poll[m]
    BY <1>0, <2>1
  <2> QED
    BY <1>4, <2>2 DEF NewsComes
<1> QED
  BY <1>2, <1>3, <1>4

LEMMA FreshCommand ==
  ASSUME TypeOK, ClockInv, DeadlineInv, FreshInv, NoWrap, NEW n \in Node, NEW c,
         NEW rest \in SUBSET transit, \A f \in transit \ rest : f.kind \in Orders,
         Command(n, c, rest), UNCHANGED <<lastTime, heard>>
  PROVE  FreshInv'
<1>1. CmdTransit(n, rest) /\ CmdOthers(n) /\ CmdMissed(n)
  BY CommandFacts
<1> SUFFICES ASSUME NEW m \in Node, NEW x \in Links[m], ~ missed'[x][m]
             PROVE  /\ ~ sleeping'[m] /\ ~ stalled'[m]
                    /\ spoke'[m] <= heard'[x][m] \/ NewsComes(x, m)'
  BY DEF FreshInv
<1>2. x \in Node
  BY Numbers
<1>3. /\ ~ missed[x][m]
      /\ sleeping'[m] => sleeping[m]
      /\ stalled'[m] = stalled[m]
      /\ \/ sleeping[m] \/ spoke'[m] = spoke[m]
         \/ \E f \in transit' : f.kind = "dv" /\ f.from = m /\ f.to = x /\ f.sent = now
  <2>1. CASE m = n
    BY <1>1, <2>1 DEF CmdMissed
  <2>2. CASE m # n
    BY <1>1, <1>2, <2>2 DEF CmdOthers
  <2> QED
    BY <2>1, <2>2
<1>4. ~ sleeping[m] /\ ~ stalled[m]
  BY <1>3 DEF FreshInv
<1>5. \A f \in transit : f.kind = "dv" => f \in transit'
  BY <1>1, Numbers DEF CmdTransit
<1>6. heard'[x][m] = heard[x][m]
  OBVIOUS
<1>7. spoke'[m] <= heard'[x][m] \/ NewsComes(x, m)'
  BY <1>3, <1>4, <1>5, <1>6, FreshPair
<1> QED
  BY <1>3, <1>4, <1>7

LEMMA FreshNext ==
  ASSUME TypeOK, TypeOK', ClockInv, ClockInv', DeadlineInv, FreshInv, NoWrap, [Next]_vars
  PROVE  FreshInv'
<1>o. Operated \subseteq Node /\ \A m \in Node : Links[m] \in SUBSET Node /\ m \notin Links[m]
  BY OrdersAssumption, Numbers
<1>t. /\ \A f \in transit : f.to \in Node /\ f.from \in Node
      /\ \A m \in Node : online[m] \in SUBSET Node
      /\ missed \in [Node -> [Node -> BOOLEAN]]
  BY DEF TypeOK, Datagram
<1>s. ASSUME NEW n \in Node, Spoke(n)
      PROVE  \A m \in Node : spoke'[m] = IF m = n /\ ~ sleeping[n] THEN now ELSE spoke[m]
  BY <1>s DEF Spoke, TypeOK
(* Steps after which every pair is either as quiet as before or on news.   *)
<1>p. ASSUME UNCHANGED <<now, sleeping, stalled>>,
             ASSUME NEW m \in Node, NEW n \in Links[m], ~ missed'[n][m]
             PROVE  \/ /\ ~ missed[n][m]
                       /\ \A f \in transit :
                            f.kind = "dv" /\ f.from = m /\ f.to = n => f \in transit'
                       /\ heard'[n][m] = heard[n][m]
                       /\ ~ sleeping[m] =>
                            \/ spoke'[m] = spoke[m]
                            \/ \E f \in transit' :
                                 f.kind = "dv" /\ f.from = m /\ f.to = n /\ f.sent = now
                    \/ heard'[n][m] = now /\ ~ sleeping[m] /\ ~ stalled[m]
      PROVE  FreshInv'
  <2> SUFFICES ASSUME NEW m \in Node, NEW n \in Links[m], ~ missed'[n][m]
               PROVE  /\ ~ sleeping[m] /\ ~ stalled[m]
                      /\ spoke'[m] <= heard'[n][m] \/ NewsComes(n, m)'
    BY <1>p DEF FreshInv
  <2>1. CASE heard'[n][m] = now /\ ~ sleeping[m] /\ ~ stalled[m]
    <3>1. spoke'[m] <= now
      BY <1>p DEF ClockInv
    <3> QED
      BY <2>1, <3>1
  <2>2. CASE ~ (heard'[n][m] = now /\ ~ sleeping[m] /\ ~ stalled[m])
    <3>1. /\ ~ missed[n][m]
          /\ \A f \in transit : f.kind = "dv" /\ f.from = m /\ f.to = n => f \in transit'
          /\ heard'[n][m] = heard[n][m]
          /\ ~ sleeping[m] =>
               \/ spoke'[m] = spoke[m]
               \/ \E f \in transit' : f.kind = "dv" /\ f.from = m /\ f.to = n /\ f.sent = now
      BY <1>p, <2>2
    <3>2. ~ sleeping[m] /\ ~ stalled[m]
      BY <3>1 DEF FreshInv
    <3> QED
      BY <3>1, <3>2, FreshPair
  <2> QED
    BY <2>1, <2>2
(* Steps after which nobody has spoken, heard or been missed.              *)
<1>q. ASSUME UNCHANGED <<missed, heard, spoke, sleeping, stalled>>, transit \subseteq transit'
      PROVE  FreshInv'
  BY <1>q DEF FreshInv, NewsComes
<1>1. CASE Tick
  BY <1>1, <1>q DEF Tick
<1>2. ASSUME NEW n \in Node, Turn(n) PROVE FreshInv'
  <2> DEFINE gone == IF CheckDue(n) THEN Gone(n, Reading) ELSE {}
             on == online[n] \ gone
  <2>0. on \in SUBSET Node
    BY <1>t
  <2>1. UNCHANGED <<now, sleeping, stalled, heard>> /\ transit \subseteq transit'
    BY <1>2 DEF Turn
  <2>2. CASE ~ (BeatDue(n) \/ gone # {})
    BY <1>2, <1>q, <2>1, <2>2 DEF Turn
  <2>3. CASE BeatDue(n) \/ gone # {}
    <3>1. Spoke(n) /\ missed' = MissedBut(missed, n, on)
      BY <1>2, <2>3 DEF Turn
    <3>2. ~ sleeping[n] => Vectors(n, on) \subseteq transit'
      <4>1. CASE gone # {}
        BY <1>2, <4>1 DEF Turn, SendDv
      <4>2. CASE gone = {} /\ BeatDue(n)
        <5>1. on = online[n]
          BY <4>2
        <5>2. ~ sleeping[n] => Vectors(n, online[n]) \subseteq transit'
          BY <1>2, <4>2 DEF Turn, SendDv
        <5> QED
          BY <5>1, <5>2
      <4> QED
        BY <2>3, <4>1, <4>2
    <3> HIDE DEF on
    <3>3. \A x, m \in Node : missed'[x][m] = (missed[x][m] \/ (m = n /\ x \notin on))
      BY <1>t, <3>1 DEF MissedBut
    <3>4. ASSUME NEW m \in Node, NEW x \in Links[m], ~ missed'[x][m]
          PROVE  /\ ~ missed[x][m]
                 /\ ~ sleeping[m] =>
                      \/ spoke'[m] = spoke[m]
                      \/ \E f \in transit' :
                           f.kind = "dv" /\ f.from = m /\ f.to = x /\ f.sent = now
      <4>1. x \in Node
        BY <1>o
      <4>2. ~ missed[x][m] /\ (m = n => x \in on)
        BY <3>3, <3>4, <4>1
      <4>3. CASE m # n
        BY <1>s, <3>1, <4>2, <4>3
      <4>4. CASE m = n
        BY <2>0, <3>2, <4>2, <4>4, VectorFacts
      <4> QED
        BY <4>3, <4>4
    <3>5. ASSUME NEW m \in Node, NEW x \in Links[m], ~ missed'[x][m]
          PROVE  /\ ~ missed[x][m]
                 /\ \A f \in transit :
                      f.kind = "dv" /\ f.from = m /\ f.to = x => f \in transit'
                 /\ heard'[x][m] = heard[x][m]
                 /\ ~ sleeping[m] =>
                      \/ spoke'[m] = spoke[m]
                      \/ \E f \in transit' :
                           f.kind = "dv" /\ f.from = m /\ f.to = x /\ f.sent = now
      BY <2>1, <3>4, <3>5
    <3> QED
      BY <1>p, <2>1, <3>5
  <2> QED
    BY <2>2, <2>3
<1>3. ASSUME NEW n \in Operated, NEW m \in Node, SendRbl(n, m) PROVE FreshInv'
  BY <1>3, <1>q DEF SendRbl
<1>4. ASSUME NEW n \in Operated, NEW c \in Orders, Typed(n, c) PROVE FreshInv'
  <2>1. UNCHANGED <<lastTime, heard>> /\ Command(n, c, transit)
    BY <1>4 DEF Typed
  <2> QED
    BY <1>o, <2>1, FreshCommand
<1>5. ASSUME NEW n \in Operated, NEW c \in Broadcast, CmdAll(n, c) PROVE FreshInv'
  BY <1>5, <1>q DEF CmdAll
<1>n. ASSUME NEW f \in transit, Note(f), f.kind \notin Orders
      PROVE  /\ \A n, m \in Node :
                  MissedAfter(f)[n][m] = IF n = f.to /\ m = f.from
                                         THEN sleeping[m] \/ stalled[m] ELSE missed[n][m]
             /\ \A n, m \in Node :
                  heard'[n][m] = IF n = f.to /\ m = f.from THEN now ELSE heard[n][m]
  <2>1. f.to \in Node /\ f.from \in Node
    BY <1>t
  <2>2. \A n, m \in Node :
          MissedAfter(f)[n][m] = IF n = f.to /\ m = f.from
                                 THEN sleeping[m] \/ stalled[m] ELSE missed[n][m]
    BY <1>t, <2>1 DEF MissedAfter
  <2> QED
    BY <1>n, <2>2, NoteFacts
<1>6. ASSUME NEW f \in transit, ReceiveDv(f) PROVE FreshInv'
  <2> DEFINE n == f.to
             on == online[n] \cup ({f.from} \cap Links[n])
  <2>0. n \in Node /\ f.from \in Node /\ on \in SUBSET Node
    BY <1>t
  <2>1. /\ UNCHANGED <<now, sleeping, stalled>> /\ Note(f) /\ f.kind \notin Orders
        /\ ~ sleeping[n] /\ transit \ {f} \subseteq transit'
    BY <1>6, Numbers DEF ReceiveDv
  <2>2. \/ /\ Vectors(n, on) \subseteq transit' /\ Spoke(n)
           /\ missed' = MissedBut(MissedAfter(f), n, on)
        \/ UNCHANGED spoke /\ missed' = MissedAfter(f)
    BY <1>6, <2>1 DEF ReceiveDv, SendDv
  <2> HIDE DEF on
  <2>3. ASSUME NEW m \in Node, NEW x \in Links[m], ~ missed'[x][m]
        PROVE  /\ ~ MissedAfter(f)[x][m]
               /\ \/ spoke'[m] = spoke[m]
                  \/ \E g \in transit' :
                       g.kind = "dv" /\ g.from = m /\ g.to = x /\ g.sent = now
    <3>1. x \in Node
      BY <1>o
    <3>2. CASE UNCHANGED spoke /\ missed' = MissedAfter(f)
      BY <2>3, <3>2
    <3>3. CASE /\ Vectors(n, on) \subseteq transit' /\ Spoke(n)
               /\ missed' = MissedBut(MissedAfter(f), n, on)
      <4>1. missed'[x][m] = (MissedAfter(f)[x][m] \/ (m = n /\ x \notin on))
        <5>1. MissedAfter(f) \in [Node -> [Node -> BOOLEAN]]
          BY <1>t DEF MissedAfter, TypeOK
        <5> QED
          BY <3>1, <3>3, <5>1 DEF MissedBut
      <4>2. ~ MissedAfter(f)[x][m] /\ (m = n => x \in on)
        BY <2>3, <4>1
      <4>3. CASE m # n
        BY <1>s, <2>0, <3>3, <4>2, <4>3
      <4>4. CASE m = n
        BY <2>0, <3>3, <4>2, <4>4, VectorFacts
      <4> QED
        BY <4>3, <4>4
    <3> QED
      BY <2>2, <3>2, <3>3
  <2>4. ASSUME NEW m \in Node, NEW x \in Links[m], ~ missed'[x][m]
        PROVE  \/ /\ ~ missed[x][m]
                  /\ \A g \in transit :
                       g.kind = "dv" /\ g.from = m /\ g.to = x => g \in transit'
                  /\ heard'[x][m] = heard[x][m]
               \/ heard'[x][m] = now /\ ~ sleeping[m] /\ ~ stalled[m]
    <3>1. x \in Node /\ ~ MissedAfter(f)[x][m]
      BY <1>o, <2>3, <2>4
    <3>2. CASE x = n /\ m = f.from
      BY <1>n, <2>1, <3>1, <3>2
    <3>3. CASE ~ (x = n /\ m = f.from)
      BY <1>n, <2>1, <3>1, <3>3
    <3> QED
      BY <3>2, <3>3
  <2> QED
    BY <1>p, <2>1, <2>3, <2>4
<1>7. ASSUME NEW f \in transit, ReceiveRbl(f) \/ Discard(f) PROVE FreshInv'
  <2>1. /\ UNCHANGED <<now, sleeping, stalled, spoke>> /\ Note(f) /\ f.kind \notin Orders
        /\ transit \ {f} \subseteq transit' /\ missed' = MissedAfter(f)
    BY <1>7, Numbers DEF ReceiveRbl, Discard
  <2>2. ASSUME NEW m \in Node, NEW x \in Links[m], ~ missed'[x][m]
        PROVE  \/ /\ ~ missed[x][m]
                  /\ \A g \in transit :
                       g.kind = "dv" /\ g.from = m /\ g.to = x => g \in transit'
                  /\ heard'[x][m] = heard[x][m]
               \/ heard'[x][m] = now /\ ~ sleeping[m] /\ ~ stalled[m]
    <3>1. x \in Node /\ ~ MissedAfter(f)[x][m]
      BY <1>o, <2>1, <2>2
    <3>2. CASE x = f.to /\ m = f.from
      BY <1>n, <2>1, <3>1, <3>2
    <3>3. CASE ~ (x = f.to /\ m = f.from)
      BY <1>n, <2>1, <3>1, <3>3
    <3> QED
      BY <3>2, <3>3
  <2> QED
    BY <1>p, <2>1, <2>2
<1>8. ASSUME NEW f \in transit, ReceiveOrder(f) PROVE FreshInv'
  <2>1. Note(f) /\ f.kind \in Orders /\ Command(f.to, f.kind, transit \ {f})
    BY <1>8 DEF ReceiveOrder
  <2>2. UNCHANGED <<lastTime, heard>>
    BY <2>1, NoteFacts DEF ClockInv
  <2> QED
    BY <1>t, <2>1, <2>2, FreshCommand
<1>9. ASSUME NEW f \in transit, Lose(f) PROVE FreshInv'
  <2>1. /\ UNCHANGED <<now, sleeping, stalled, heard, spoke>> /\ transit' = transit \ {f}
        /\ missed' = [missed EXCEPT ![f.to][f.from] = TRUE]
    BY <1>9 DEF Lose
  <2>2. ASSUME NEW m \in Node, NEW x \in Links[m], ~ missed'[x][m]
        PROVE  ~ missed[x][m] /\ ~ (x = f.to /\ m = f.from)
    BY <1>o, <1>t, <2>1, <2>2
  <2>3. ASSUME NEW m \in Node, NEW x \in Links[m], ~ missed'[x][m]
        PROVE  /\ ~ missed[x][m]
               /\ \A g \in transit : g.kind = "dv" /\ g.from = m /\ g.to = x => g \in transit'
    BY <2>1, <2>2, <2>3
  <2> QED
    BY <1>p, <2>1, <2>3
<1>10. CASE UNCHANGED vars
  BY <1>10, <1>q DEF vars
<1> QED
  BY <1>1, <1>2, <1>3, <1>4, <1>5, <1>6, <1>7, <1>8, <1>9, <1>10 DEF Next, Receive

-----------------------------------------------------------------------------
(* TimersInv, as long as no int overflows: the clocks, deadlines and times *)
(* noted are true, whoever is not missed is fresh, and who sleeps is       *)
(* silent, orders excepted.                                                *)
THEOREM TimersCorrect == NoWrap => (Spec => []TimersInv)
<1> SUFFICES ASSUME NoWrap PROVE Spec => []TimersInv
  OBVIOUS
<1>1. Init => TimersInv
  BY TypeInit, ClockInit, DeadlineInit, FreshInit, SilenceInit DEF TimersInv
<1>2. TimersInv /\ [Next]_vars => TimersInv'
  <2> SUFFICES ASSUME TimersInv, [Next]_vars PROVE TimersInv'
    OBVIOUS
  <2>1. TypeOK /\ ClockInv /\ DeadlineInv /\ FreshInv /\ SilenceInv
    BY DEF TimersInv
  <2>2. TypeOK'
    BY <2>1, TypeNext
  <2>3. ClockInv'
    BY <2>1, <2>2, ClockNext
  <2>4. DeadlineInv' /\ SilenceInv' /\ FreshInv'
    BY <2>1, <2>2, <2>3, DeadlineNext, SilenceNext, FreshNext
  <2> QED
    BY <2>2, <2>3, <2>4 DEF TimersInv
<1> QED
  BY <1>1, <1>2, PTL DEF Spec

(* A node that runs sends its vector in every period of the heartbeat      *)
(* (BeatsInTime).                                                          *)
THEOREM HeartbeatsCorrect == NoWrap => (Spec => []BeatsInTime)
<1> SUFFICES ASSUME NoWrap PROVE Spec => []BeatsInTime
  OBVIOUS
<1>1. TimersInv => BeatsInTime
  <2> SUFFICES ASSUME TimersInv, NEW n \in Node, ~ sleeping[n], ~ stalled[n]
               PROVE  now < spoke[n] + HeartbeatTime + Poll[n]
    BY DEF BeatsInTime
  <2>1. /\ now \in Int /\ turned[n] \in Int /\ nextHeartBeat[n] \in Int /\ spoke[n] \in Int
        /\ HeartbeatTime \in Int /\ Poll[n] \in Int
    BY Numbers DEF TimersInv, TypeOK
  <2>2. now <= turned[n] + Poll[n] /\ turned[n] < nextHeartBeat[n]
        /\ nextHeartBeat[n] <= spoke[n] + HeartbeatTime
    BY DEF TimersInv, ClockInv, DeadlineInv
  <2> QED
    BY <2>1, <2>2
<1> QED
  BY <1>1, TimersCorrect, PTL

(* When the next heartcheck of a node is due at the latest.                *)
LEMMA NoticedInTime ==
  ASSUME TimersInv, NEW n \in Node, NEW m \in online[n], ~ sleeping[n], ~ stalled[n]
  PROVE  /\ Detector!Later(heard[n][m], since[n]) \in Int
         /\ turned[n] < Detector!Later(heard[n][m], since[n]) + 2 * HeartcheckTime
<1>1. /\ turned[n] \in Int /\ nextHeartCheck[n] \in Int /\ HeartcheckTime \in Int
      /\ heard[n][m] \in Int /\ since[n] \in Int
  BY Numbers DEF TimersInv, TypeOK
<1>2. Detector!Later(heard[n][m], since[n]) \in Int
  BY <1>1, LaterFacts
<1>3. /\ turned[n] < nextHeartCheck[n]
      /\ nextHeartCheck[n] <= Detector!Later(heard[n][m], since[n]) + 2 * HeartcheckTime
  BY DEF TimersInv, DeadlineInv
<1> QED
  BY <1>1, <1>2, <1>3

(* A node that sleeps is found out, whatever orders it sends               *)
(* (SleeperDropped).                                                       *)
THEOREM SleepersFoundOut == NoWrap => (Spec => []SleeperDropped)
<1> SUFFICES ASSUME NoWrap PROVE Spec => []SleeperDropped
  OBVIOUS
<1>1. TimersInv => SleeperDropped
  <2> SUFFICES ASSUME TimersInv, NEW n \in Node, NEW m \in Node, ~ sleeping[n],
                      ~ stalled[n], sleeping[m], m \in online[n]
               PROVE  now < Detector!Later(since[m] + Delay, since[n])
                            + 2 * HeartcheckTime + Poll[n]
    BY DEF SleeperDropped
  <2> DEFINE H == Detector!Later(heard[n][m], since[n])
             D == Detector!Later(since[m] + Delay, since[n])
  <2>1. /\ now \in Int /\ turned[n] \in Int /\ HeartcheckTime \in Int /\ Poll[n] \in Int
        /\ heard[n][m] \in Int /\ since[n] \in Int /\ since[m] + Delay \in Int
    BY Numbers DEF TimersInv, TypeOK
  <2>2. heard[n][m] <= since[m] + Delay /\ now <= turned[n] + Poll[n]
    BY DEF TimersInv, SilenceInv, ClockInv
  <2>3. H \in Int /\ turned[n] < H + 2 * HeartcheckTime
    BY NoticedInTime
  <2>4. H <= D /\ D \in Int
    BY <2>1, <2>2, LaterFacts
  <2> HIDE DEF H, D
  <2>5. now < D + 2 * HeartcheckTime + Poll[n]
    BY <2>1, <2>2, <2>3, <2>4
  <2> QED
    BY <2>5 DEF D
<1> QED
  BY <1>1, TimersCorrect, PTL

(* The steps that drop somebody: the heartcheck, typed or by the timer.    *)
LEMMA WhoDrops ==
  ASSUME TimersInv, NoWrap, [Next]_vars, NEW n \in Node, NEW m \in online[n] \ online'[n]
  PROVE  \E t \in Int : t <= now /\ m \in Gone(n, t)
<1>0. /\ now \in Int /\ Reading = now /\ time[n] \in Int /\ time[n] <= now
      /\ online \in [Node -> SUBSET Node] /\ online[n] \subseteq Links[n]
      /\ \A f \in transit : f.to \in Node
      /\ Operated \subseteq Node
  BY TrueTime, OrdersAssumption DEF TimersInv, TypeOK, ClockInv, Datagram
<1>c. ASSUME NEW k \in Node, NEW c, NEW rest, Command(k, c, rest)
      PROVE  \E t \in Int : t <= now /\ m \in Gone(n, t)
  <2>1. CASE CmdHeartcheck(k, rest)
    <3>1. k = n /\ m \in Gone(n, time[n])
      BY <1>0, <2>1 DEF CmdHeartcheck
    <3> QED
      BY <1>0, <3>1
  <2>2. CASE CmdWake(k, rest)
    BY <1>0, <2>2 DEF CmdWake, Restored
  <2>3. CASE CmdSleep(k, rest) \/ CmdStall(k, rest) \/ CmdHeartbeat(k, rest)
    BY <2>3 DEF CmdSleep, CmdStall, CmdHeartbeat
  <2> QED
    BY <1>c, <2>1, <2>2, <2>3 DEF Command
<1>1. ASSUME NEW k \in Node, Turn(k)
      PROVE  \E t \in Int : t <= now /\ m \in Gone(n, t)
  <2>1. k = n /\ m \in Gone(n, now)
    BY <1>0, <1>1 DEF Turn
  <2> QED
    BY <1>0, <2>1
<1>2. ASSUME NEW f \in transit, ReceiveDv(f) PROVE FALSE
  BY <1>0, <1>2 DEF ReceiveDv
<1>3. ASSUME NEW f \in transit, ReceiveOrder(f)
      PROVE  \E t \in Int : t <= now /\ m \in Gone(n, t)
  BY <1>0, <1>3, <1>c DEF ReceiveOrder
<1>4. ASSUME NEW k \in Operated, NEW c \in Orders, Typed(k, c)
      PROVE  \E t \in Int : t <= now /\ m \in Gone(n, t)
  BY <1>0, <1>4, <1>c DEF Typed
<1>5. ~ UNCHANGED online
  OBVIOUS
<1> QED
  BY <1>1, <1>2, <1>3, <1>4, <1>5
  DEF Next, Receive, Tick, SendRbl, CmdAll, ReceiveRbl, Discard, Lose, vars

(* Whoever is heard and speaks in time is not dropped                      *)
(* (OnlyMissedAreDropped).                                                 *)
LEMMA DroppedWasMissed ==
  ASSUME TimersInv, NoWrap, [Next]_vars, NEW n \in Node, ~ stalled[n],
         NEW m \in online[n] \ online'[n]
  PROVE  missed[n][m]
<1> SUFFICES ASSUME ~ missed[n][m] PROVE FALSE
  OBVIOUS
<1>t. TypeOK /\ ClockInv
  BY DEF TimersInv
<1>0. /\ m \in Node /\ n \in Links[m]
      /\ now \in Int /\ heard[n][m] \in Int /\ spoke[m] \in Int
      /\ \A f \in transit : f.sent \in Int
      /\ HeartbeatTime \in Nat /\ HeartcheckTime \in Nat /\ Poll[m] \in Nat /\ Delay \in Nat
      /\ HeartbeatTime + Poll[m] + Delay <= HeartcheckTime
  BY <1>t, Numbers, LinksAssumption, PatienceAssumption DEF TypeOK, Datagram
<1>1. PICK t \in Int : t <= now /\ m \in Gone(n, t)
  BY WhoDrops
<1>2. m \in Silent(n, t)
  BY <1>1 DEF Gone
<1>3. heard[n][m] + HeartcheckTime < now
  BY <1>t, <1>0, <1>1, <1>2, SilentFacts
<1>4. /\ ~ sleeping[m] /\ ~ stalled[m]
      /\ spoke[m] <= heard[n][m] \/ NewsComes(n, m)
  BY <1>0 DEF TimersInv, FreshInv
<1>5. CASE spoke[m] <= heard[n][m]
  <2>1. /\ now <= turned[m] + Poll[m] /\ turned[m] < nextHeartBeat[m]
        /\ nextHeartBeat[m] <= spoke[m] + HeartbeatTime
        /\ turned[m] \in Int /\ nextHeartBeat[m] \in Int
    BY <1>0, <1>4, <1>t DEF TimersInv, ClockInv, DeadlineInv, TypeOK
  <2> QED
    BY <1>0, <1>3, <1>5, <2>1
<1>6. CASE NewsComes(n, m)
  <2>1. PICK f \in transit : f.sent <= heard[n][m] + HeartbeatTime + Poll[m]
    BY <1>6 DEF NewsComes
  <2>2. now <= f.sent + Delay
    BY <1>t DEF ClockInv
  <2> QED
    BY <1>0, <1>3, <2>1, <2>2
<1> QED
  BY <1>4, <1>5, <1>6

THEOREM DroppedWereMissed == NoWrap => (Spec => OnlyMissedAreDropped)
<1> SUFFICES ASSUME NoWrap PROVE Spec => OnlyMissedAreDropped
  OBVIOUS
<1>1. TimersInv /\ [Next]_vars =>
        [ \A n \in Node : ~ stalled[n] =>
            \A m \in online[n] \ online'[n] : missed[n][m] ]_vars
  BY DroppedWasMissed
<1> QED
  BY <1>1, TimersCorrect, PTL DEF Spec, OnlyMissedAreDropped

-----------------------------------------------------------------------------
(* The stalled heartcheck leaves the neighbours heard last, and drops only *)
(* those heard more than a second before them.                             *)
LEMMA SomeoneIsLatest ==
  ASSUME TypeOK, ClockInv, NEW n \in Node, online[n] # {}
  PROVE  Latest(n) # {}
<1> DEFINE Age(m) == now - heard[n][m]
           Less == {ss \in Nat \X Nat : ss[1] < ss[2]}
           Ages == {Age(m) : m \in online[n]}
<1>0. /\ online[n] \subseteq Node /\ now \in Int
      /\ \A m \in Node : heard[n][m] \in 0 .. now
  BY DEF TypeOK, ClockInv
<1>1. Ages \in SUBSET Nat /\ Ages # {}
  BY <1>0
<1>2. IsWellFoundedOn(Less, Nat)
  BY NatLessThanWellFounded DEF OpToRel
<1>3. PICK a \in Ages : \A x \in Ages : <<x, a>> \notin Less
  BY <1>1, <1>2, WFMin
<1>4. PICK m \in online[n] : a = Age(m)
  OBVIOUS
<1>5. \A k \in online[n] : heard[n][k] <= heard[n][m]
  <2> TAKE k \in online[n]
  <2>1. Age(k) \in Nat /\ a \in Nat /\ ~ (Age(k) < a)
    BY <1>1, <1>3
  <2> QED
    BY <1>0, <1>4, <2>1
<1> QED
  BY <1>5 DEF Latest

LEMMA LatestKept ==
  ASSUME TypeOK, ClockInv, NEW n \in Node
  PROVE  /\ Latest(n) \cap Behind(n) = {}
         /\ \A m \in Behind(n) : \E k \in Latest(n) : heard[n][m] + Second < heard[n][k]
<1>0. /\ online[n] \subseteq Node /\ Second \in Nat
      /\ \A m \in Node : lastTime[n][m] = heard[n][m] /\ heard[n][m] \in Nat
  BY TimesAssumption DEF TypeOK, ClockInv
<1>1. \A m \in online[n] : m \in Behind(n) =>
        \E k \in online[n] : heard[n][m] + Second < heard[n][k]
  BY <1>0 DEF Behind
<1>2. Behind(n) \subseteq online[n] /\ Latest(n) \subseteq online[n]
  BY DEF Behind, Latest
<1>3. ASSUME NEW m \in Latest(n), m \in Behind(n) PROVE FALSE
  BY <1>0, <1>1, <1>2, <1>3 DEF Latest
<1>4. ASSUME NEW m \in Behind(n)
      PROVE  \E k \in Latest(n) : heard[n][m] + Second < heard[n][k]
  <2>1. PICK k \in online[n] : heard[n][m] + Second < heard[n][k]
    BY <1>1, <1>2, <1>4
  <2>2. PICK l \in Latest(n) : TRUE
    BY <2>1, SomeoneIsLatest
  <2>3. heard[n][k] <= heard[n][l]
    BY <2>1, <2>2 DEF Latest
  <2>4. heard[n][m] + Second < heard[n][l]
    BY <1>0, <1>2, <1>4, <2>1, <2>2, <2>3
  <2> QED
    BY <2>4
<1> QED
  BY <1>3, <1>4

(* A stalled node loses neighbours by a heartcheck only.                   *)
LEMMA StalledDropsBehind ==
  ASSUME TimersInv, [Next]_vars, NEW n \in Node, stalled[n]
  PROVE  online[n] \ online'[n] \subseteq Behind(n)
<1> SUFFICES ASSUME NEW m \in online[n], m \notin online'[n], m \notin Behind(n)
             PROVE  FALSE
  OBVIOUS
<1>0. /\ Operated \subseteq Node
      /\ online \in [Node -> SUBSET Node] /\ online[n] \subseteq Links[n]
      /\ \A f \in transit : f.to \in Node
  BY OrdersAssumption DEF TimersInv, TypeOK, Datagram
<1>c. ASSUME NEW k \in Node, NEW c, NEW rest, Command(k, c, rest) PROVE FALSE
  <2>1. CASE CmdHeartcheck(k, rest)
    <3>1. online'[n] \in {online[n], online[n] \ Gone(n, time[n])}
      BY <1>0, <2>1 DEF CmdHeartcheck
    <3>2. Gone(n, time[n]) \in {{}, Behind(n)}
      BY DEF Gone
    <3> QED
      BY <3>1, <3>2
  <2>2. CASE CmdWake(k, rest)
    BY <1>0, <2>2 DEF CmdWake, Restored
  <2>3. CASE CmdSleep(k, rest) \/ CmdStall(k, rest) \/ CmdHeartbeat(k, rest)
    BY <2>3 DEF CmdSleep, CmdStall, CmdHeartbeat
  <2> QED
    BY <1>c, <2>1, <2>2, <2>3 DEF Command
<1>1. ASSUME NEW k \in Node, Turn(k) PROVE FALSE
  <2>1. online'[n] = online[n]
    BY <1>0, <1>1 DEF Turn, CheckDue
  <2> QED
    BY <2>1
<1>2. ASSUME NEW f \in transit, ReceiveDv(f) PROVE FALSE
  BY <1>0, <1>2 DEF ReceiveDv
<1>3. ASSUME NEW f \in transit, ReceiveOrder(f) PROVE FALSE
  BY <1>0, <1>3, <1>c DEF ReceiveOrder
<1>4. ASSUME NEW k \in Operated, NEW c \in Orders, Typed(k, c) PROVE FALSE
  BY <1>0, <1>4, <1>c DEF Typed
<1>5. ~ UNCHANGED online
  OBVIOUS
<1> QED
  BY <1>1, <1>2, <1>3, <1>4, <1>5
  DEF Next, Receive, Tick, SendRbl, CmdAll, ReceiveRbl, Discard, Lose, vars

(* When the algorithm is stalled a heartcheck keeps the neighbours heard   *)
(* last, and drops those heard more than a second before them only         *)
(* (StalledKeepsLatest).                                                   *)
THEOREM StalledIsCautious == NoWrap => (Spec => StalledKeepsLatest)
<1> SUFFICES ASSUME NoWrap PROVE Spec => StalledKeepsLatest
  OBVIOUS
<1>1. ASSUME TimersInv, [Next]_vars, NEW n \in Node, stalled[n]
      PROVE  /\ Latest(n) \subseteq online'[n]
             /\ \A m \in online[n] \ online'[n] :
                  \E k \in Latest(n) : heard[n][m] + Second < heard[n][k]
  <2>1. online[n] \ online'[n] \subseteq Behind(n)
    BY <1>1, StalledDropsBehind
  <2>2. /\ Latest(n) \cap Behind(n) = {}
        /\ \A m \in Behind(n) : \E k \in Latest(n) : heard[n][m] + Second < heard[n][k]
    BY <1>1, LatestKept DEF TimersInv
  <2>3. Latest(n) \subseteq online[n]
    BY DEF Latest
  <2> QED
    BY <2>1, <2>2, <2>3
<1>2. TimersInv /\ [Next]_vars =>
        [ \A n \in Node : stalled[n] =>
            /\ Latest(n) \subseteq online'[n]
            /\ \A m \in online[n] \ online'[n] :
                 \E k \in Latest(n) : heard[n][m] + Second < heard[n][k] ]_vars
  BY <1>1
<1> QED
  BY <1>2, TimersCorrect, PTL DEF Spec, StalledKeepsLatest

-----------------------------------------------------------------------------
(* Every step is a step of the failure detector, or none.                  *)
LEMMA DetectorCommand ==
  ASSUME TimersInv, NoWrap, NEW n \in Node, NEW c, NEW rest, Command(n, c, rest),
         UNCHANGED heard
  PROVE  Detector!DetectorNext \/ UNCHANGED Detector!detectorVars
<1>t. /\ online \in [Node -> SUBSET Node] /\ Links[n] \in SUBSET Node
      /\ sleeping \in [Node -> BOOLEAN] /\ stalled \in [Node -> BOOLEAN]
      /\ since \in [Node -> Int] /\ now \in Int
      /\ TypeOK /\ ClockInv /\ time[n] \in Int /\ time[n] <= now
  BY Numbers DEF TimersInv, TypeOK, ClockInv
<1>w. Watching \in [Node -> Int]
      /\ \A m \in Node : Watching[m] = IF sleeping[m] \/ stalled[m] THEN -1 ELSE since[m]
  BY <1>t DEF Watching
<1>u. UNCHANGED <<now, heard>>
  BY DEF Command
<1>1. CASE CmdSleep(n, rest)
  <2>1. /\ UNCHANGED <<online, stalled>>
        /\ sleeping' = [sleeping EXCEPT ![n] = TRUE]
        /\ since' = [since EXCEPT ![n] = IF sleeping[n] THEN @ ELSE now]
    BY <1>1 DEF CmdSleep
  <2>2. Watching' = [Watching EXCEPT ![n] = -1]
    BY <1>t, <1>w, <2>1 DEF Watching
  <2>3. Detector!Stop(n)
    BY <1>u, <2>1, <2>2 DEF Detector!Stop, Detector!Off
  <2> QED
    BY <2>3 DEF Detector!DetectorNext
<1>2. CASE CmdWake(n, rest)
  <2>1. /\ UNCHANGED stalled
        /\ sleeping' = [sleeping EXCEPT ![n] = FALSE]
        /\ since' = [since EXCEPT ![n] = now]
        /\ online' = [online EXCEPT ![n] = Links[n]]
    BY <1>2 DEF CmdWake, Restored
  <2>2. Watching' = [Watching EXCEPT ![n] = IF stalled[n] THEN -1 ELSE now]
    BY <1>t, <1>w, <2>1 DEF Watching
  <2>3. CASE stalled[n]
    <3>1. Watching[n] = -1
      BY <1>w, <2>3
    <3>2. Watching' = Watching
      BY <1>w, <2>2, <2>3, <3>1
    <3>3. Detector!Idle(n, Links[n])
      BY <1>u, <2>1, <3>1, <3>2 DEF Detector!Idle, Detector!Off
    <3> QED
      BY <1>t, <3>3 DEF Detector!DetectorNext
  <2>4. CASE ~ stalled[n]
    <3>1. Detector!Start(n, Links[n])
      BY <1>u, <2>1, <2>2, <2>4 DEF Detector!Start
    <3> QED
      BY <1>t, <3>1 DEF Detector!DetectorNext
  <2> QED
    BY <2>3, <2>4
<1>3. CASE CmdStall(n, rest)
  <2>1. /\ UNCHANGED <<online, sleeping, since>>
        /\ stalled' = [stalled EXCEPT ![n] = TRUE]
    BY <1>3 DEF CmdStall
  <2>2. Watching' = [Watching EXCEPT ![n] = -1]
    BY <1>t, <1>w, <2>1 DEF Watching
  <2>3. Detector!Stop(n)
    BY <1>u, <2>1, <2>2 DEF Detector!Stop, Detector!Off
  <2> QED
    BY <2>3 DEF Detector!DetectorNext
<1>4. CASE CmdHeartbeat(n, rest)
  BY <1>4, <1>u DEF CmdHeartbeat, Watching, Detector!detectorVars
<1>5. CASE CmdHeartcheck(n, rest)
  <2> DEFINE gone == Gone(n, time[n])
  <2>1. /\ UNCHANGED <<sleeping, stalled, since>>
        /\ online' = [online EXCEPT ![n] = online[n] \ gone]
    BY <1>5 DEF CmdHeartcheck
  <2>2. Watching' = Watching
    BY <2>1 DEF Watching
  <2>3. gone \in SUBSET Node
    BY <1>t, GoneOnline
  <2>4. CASE stalled[n]
    <3>1. Watching[n] = -1
      BY <1>w, <2>4
    <3>2. Detector!Idle(n, online[n] \ gone)
      BY <1>u, <2>1, <2>2, <3>1 DEF Detector!Idle, Detector!Off
    <3> QED
      BY <1>t, <3>2 DEF Detector!DetectorNext
  <2>5. CASE sleeping[n]
    <3>1. gone = {}
      BY <2>5 DEF Gone
    <3>2. online' = online
      BY <1>t, <2>1, <3>1
    <3> QED
      BY <1>u, <2>2, <3>2 DEF Detector!detectorVars
  <2>6. CASE ~ stalled[n] /\ ~ sleeping[n]
    <3>1. Watching[n] # -1
      <4>1. 0 <= since[n] /\ since[n] \in Int
        BY <1>t DEF ClockInv
      <4>2. Watching[n] = since[n]
        BY <1>w, <2>6
      <4> QED
        BY <4>1, <4>2
    <3>2. gone = Silent(n, time[n])
      BY <2>6 DEF Gone
    <3>3. \A m \in gone : heard[n][m] + HeartcheckTime < now
      <4> TAKE m \in gone
      <4>1. m \in online[n] /\ m \in Node
        BY <1>t, <3>2 DEF Silent
      <4>2. heard[n][m] + HeartcheckTime < time[n]
        BY <1>t, <3>2, <4>1, SilentFacts
      <4>3. heard[n][m] \in Int /\ HeartcheckTime \in Int
        BY <4>1, Numbers DEF TimersInv, TypeOK
      <4> QED
        BY <1>t, <4>2, <4>3
    <3>4. Detector!Suspect(n, gone)
      BY <1>u, <2>1, <2>2, <3>1, <3>3 DEF Detector!Suspect, Detector!Off
    <3> QED
      BY <2>3, <3>4 DEF Detector!DetectorNext
  <2> QED
    BY <2>4, <2>5, <2>6
<1> QED
  BY <1>1, <1>2, <1>3, <1>4, <1>5 DEF Command

LEMMA DetectorStep ==
  ASSUME TimersInv, NoWrap, [Next]_vars
  PROVE  Detector!DetectorNext \/ UNCHANGED Detector!detectorVars
<1>t. /\ online \in [Node -> SUBSET Node] /\ heard \in [Node -> [Node -> Int]]
      /\ sleeping \in [Node -> BOOLEAN] /\ stalled \in [Node -> BOOLEAN]
      /\ now \in Int /\ Reading = now /\ Operated \subseteq Node
      /\ \A f \in transit : f.to \in Node /\ f.from \in Node
      /\ TypeOK /\ ClockInv
  BY TrueTime, OrdersAssumption DEF TimersInv, TypeOK, Datagram
<1>s. ASSUME UNCHANGED <<now, online, heard, sleeping, stalled, since>>
      PROVE  UNCHANGED Detector!detectorVars
  BY <1>s DEF Watching, Detector!detectorVars
<1>h. ASSUME NEW f \in transit, Note(f), f.kind \notin Orders,
             UNCHANGED <<now, sleeping, stalled, since>>,
             online' \in {online, [online EXCEPT ![f.to] = @ \cup {f.from}]}
      PROVE  Detector!DetectorNext
  <2>1. heard' = [heard EXCEPT ![f.to][f.from] = now] /\ UNCHANGED Watching
    BY <1>h DEF Note, Watching
  <2>2. Detector!Hear(f.to, f.from)
    BY <1>h, <2>1 DEF Detector!Hear
  <2> QED
    BY <1>t, <2>2 DEF Detector!DetectorNext
<1>1. ASSUME Tick PROVE Detector!DetectorNext
  <2>1. /\ now' = now + 1 /\ \A n \in Node : now < turned[n] + Poll[n]
        /\ UNCHANGED <<online, heard, sleeping, stalled, since>>
    BY <1>1 DEF Tick
  <2>2. UNCHANGED Watching
    BY <2>1 DEF Watching
  <2>3. ASSUME NEW n \in Node, Watching[n] # -1, NEW m \in online[n]
        PROVE  now' < Detector!Deadline(n, m)
    <3>1. ~ sleeping[n] /\ ~ stalled[n] /\ Watching[n] = since[n]
      BY <2>3 DEF Watching
    <3> DEFINE L == Detector!Later(heard[n][m], since[n])
    <3>2. L \in Int /\ turned[n] < L + 2 * HeartcheckTime
      BY <3>1, NoticedInTime
    <3>3. turned[n] \in Int /\ HeartcheckTime \in Int /\ Poll[n] \in Int
      BY <1>t, Numbers DEF TypeOK
    <3>4. Detector!Deadline(n, m) = L + 2 * HeartcheckTime + Poll[n]
      BY <3>1 DEF Detector!Deadline
    <3> HIDE DEF L
    <3> QED
      BY <1>t, <2>1, <3>2, <3>3, <3>4
  <2>4. Detector!Pass
    BY <2>1, <2>2, <2>3 DEF Detector!Pass, Detector!Off
  <2> QED
    BY <2>4 DEF Detector!DetectorNext
<1>2. ASSUME NEW n \in Node, Turn(n)
      PROVE  Detector!DetectorNext \/ UNCHANGED Detector!detectorVars
  <2> DEFINE gone == IF CheckDue(n) THEN Gone(n, Reading) ELSE {}
  <2>1. /\ UNCHANGED <<now, heard, sleeping, stalled, since>>
        /\ online' = [online EXCEPT ![n] = online[n] \ gone]
    BY <1>2 DEF Turn
  <2>2. CASE gone = {}
    <3>1. UNCHANGED online
      BY <1>t, <2>1, <2>2
    <3> QED
      BY <1>s, <2>1, <3>1
  <2>3. CASE gone # {}
    <3>1. ~ stalled[n] /\ ~ sleeping[n] /\ gone = Silent(n, now)
      BY <1>t, <2>3 DEF Gone, CheckDue
    <3>2. Watching[n] # -1
      <4>1. 0 <= since[n] /\ since[n] \in Int /\ Watching[n] = since[n]
        BY <1>t, <3>1 DEF ClockInv, TypeOK, Watching
      <4> QED
        BY <4>1
    <3>3. \A m \in gone : heard[n][m] + HeartcheckTime < now
      <4> TAKE m \in gone
      <4>1. m \in online[n]
        BY <3>1 DEF Silent
      <4> QED
        BY <1>t, <3>1, <4>1, SilentFacts
    <3>4. gone \in SUBSET Node
      BY <1>t, <3>1 DEF Silent
    <3>5. Detector!Suspect(n, gone)
      BY <2>1, <3>2, <3>3 DEF Detector!Suspect, Detector!Off, Watching
    <3> QED
      BY <3>4, <3>5 DEF Detector!DetectorNext
  <2> QED
    BY <2>2, <2>3
<1>3. ASSUME NEW n \in Operated, NEW c \in Orders, Typed(n, c)
      PROVE  Detector!DetectorNext \/ UNCHANGED Detector!detectorVars
  BY <1>3, <1>t, DetectorCommand DEF Typed
<1>4. ASSUME NEW f \in transit, ReceiveOrder(f)
      PROVE  Detector!DetectorNext \/ UNCHANGED Detector!detectorVars
  <2>1. UNCHANGED heard
    BY <1>4, <1>t, NoteFacts DEF ReceiveOrder
  <2> QED
    BY <1>4, <1>t, <2>1, DetectorCommand DEF ReceiveOrder
<1>5. ASSUME NEW f \in transit, ReceiveDv(f) PROVE Detector!DetectorNext
  <2>1. /\ Note(f) /\ f.kind \notin Orders /\ UNCHANGED <<now, sleeping, stalled, since>>
        /\ online' = [online EXCEPT ![f.to] = online[f.to] \cup ({f.from} \cap Links[f.to])]
    BY <1>5, Numbers DEF ReceiveDv
  <2>2. online' \in {online, [online EXCEPT ![f.to] = @ \cup {f.from}]}
    <3>1. CASE f.from \in Links[f.to]
      BY <2>1, <3>1
    <3>2. CASE f.from \notin Links[f.to]
      <4>1. online[f.to] \cup ({f.from} \cap Links[f.to]) = online[f.to]
        BY <3>2
      <4> QED
        BY <1>t, <2>1, <4>1
    <3> QED
      BY <3>1, <3>2
  <2> QED
    BY <1>h, <2>1, <2>2
<1>6. ASSUME NEW f \in transit, ReceiveRbl(f) \/ Discard(f) PROVE Detector!DetectorNext
  <2>1. /\ Note(f) /\ f.kind \notin Orders
        /\ UNCHANGED <<now, online, sleeping, stalled, since>>
    BY <1>6, Numbers DEF ReceiveRbl, Discard
  <2> QED
    BY <1>h, <2>1
<1>7. ASSUME \/ \E n \in Operated : \E m \in Node : SendRbl(n, m)
             \/ \E n \in Operated : \E c \in Broadcast : CmdAll(n, c)
             \/ \E f \in transit : Lose(f)
             \/ UNCHANGED vars
      PROVE  UNCHANGED Detector!detectorVars
  BY <1>7, <1>s DEF SendRbl, CmdAll, Lose, vars
<1> QED
  BY <1>1, <1>2, <1>3, <1>4, <1>5, <1>6, <1>7 DEF Next, Receive

(* The timers implement the failure detector: nobody is dropped before it  *)
(* has been silent for heartcheck, nobody is trusted after two of them     *)
(* (ImplementsDetector).                                                   *)
THEOREM TimersImplementDetector == NoWrap => (Spec => ImplementsDetector)
<1> SUFFICES ASSUME NoWrap PROVE Spec => ImplementsDetector
  OBVIOUS
<1>1. Init => Detector!DetectorInit
  <2> SUFFICES ASSUME Init PROVE Detector!DetectorInit
    OBVIOUS
  <2>1. now \in Nat /\ online \in [Node -> SUBSET Node]
    BY TimesAssumption, LinksAssumption DEF Init
  <2>2. Watching = [n \in Node |-> now]
    BY DEF Init, Watching
  <2> QED
    BY <2>1, <2>2 DEF Init, Detector!DetectorInit
<1>2. TimersInv /\ [Next]_vars => [Detector!DetectorNext]_(Detector!detectorVars)
  BY DetectorStep
<1> QED
  BY <1>1, <1>2, TimersCorrect, PTL DEF Spec, ImplementsDetector, Detector!DetectorSpec

=============================================================================
