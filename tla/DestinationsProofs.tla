------------------------- MODULE DestinationsProofs -------------------------
(***************************************************************************)
(* Theorems about Tables, for tables of any size, and about Destinations,  *)
(* for any network in which only numbers of nodes are typed.               *)
(***************************************************************************)
EXTENDS Destinations, WellFoundedInduction, TLAPS

-----------------------------------------------------------------------------
(* Tables: a block kept row after row.                                     *)

Cells(R, C) == 0 .. R * C - 1

(* A table whose cells hold items of S.                                    *)
TableOf(tab, S) ==
  /\ tab = [ rows |-> tab.rows, cols |-> tab.cols, data |-> tab.data,
             newitem |-> tab.newitem ]
  /\ tab.rows \in Nat /\ tab.cols \in Nat
  /\ tab.newitem \in S
  /\ tab.data \in [Cells(tab.rows, tab.cols) -> S]

LEMMA LargerType ==
  ASSUME NEW a \in Nat, NEW b \in Nat
  PROVE  Larger(a, b) \in Nat /\ Larger(a, b) >= a /\ Larger(a, b) >= b
BY DEF Larger

LEMMA ProductType ==
  ASSUME NEW a \in Nat, NEW b \in Nat
  PROVE  a * b \in Nat
BY Z3

LEMMA ProductGrows ==
  ASSUME NEW a \in Nat, NEW b \in Nat, NEW c \in Nat, a <= b
  PROVE  a * c <= b * c
BY Z3

(* Cell (i, j) lies in the block.                                          *)
LEMMA CellInBlock ==
  ASSUME NEW R \in Nat, NEW C \in Nat, NEW i \in Nat, NEW j \in Nat, i < R, j < C
  PROVE  i * C + j \in Cells(R, C)
<1>1. (i + 1) * C <= R * C
  BY ProductGrows
<1>2. (i + 1) * C = i * C + C
  BY Z3
<1>3. i * C \in Nat /\ R * C \in Nat
  BY ProductType
<1> DEFINE x == i * C
           y == R * C
<1>4. x \in Nat /\ y \in Nat /\ x + C <= y
  BY <1>1, <1>2, <1>3
<1> HIDE DEF x, y
<1>5. x + j \in 0 .. y - 1
  BY <1>4
<1> QED
  BY <1>5 DEF x, y, Cells

(* The row and the column of a cell are found again.                       *)
LEMMA CellFound ==
  ASSUME NEW C \in Nat, NEW i \in Nat, NEW j \in Nat, j < C
  PROVE  (i * C + j) \div C = i /\ (i * C + j) % C = j
BY Z3

LEMMA CellsDiffer ==
  ASSUME NEW C \in Nat, NEW i \in Nat, NEW j \in Nat, NEW k \in Nat, NEW l \in Nat,
         j < C, l < C, i * C + j = k * C + l
  PROVE  i = k /\ j = l
BY CellFound

(* Every cell of the block has a row and a column.                         *)
LEMMA CellHasPlace ==
  ASSUME NEW R \in Nat, NEW C \in Nat, NEW x \in Cells(R, C)
  PROVE  /\ C > 0
         /\ x \div C \in Nat /\ x % C \in Nat /\ x % C < C
         /\ x = ((x \div C) * C) + (x % C)
         /\ x \div C < R
<1>1. R * C \in Nat /\ x \in Nat /\ x < R * C
  BY ProductType DEF Cells
<1>2. C # 0
  <2>1. SUFFICES ASSUME C = 0 PROVE R * C = 0
    BY <1>1
  <2> QED
    BY <2>1, Z3
<1>3. x \div C \in Nat /\ x % C \in Nat /\ x % C < C /\ x = ((x \div C) * C) + (x % C)
  BY <1>1, <1>2, Z3
<1>4. x \div C < R
  <2>1. SUFFICES ASSUME R <= x \div C PROVE FALSE
    BY <1>3
  <2>2. R * C <= (x \div C) * C
    BY <1>3, <2>1, ProductGrows
  <2>3. (x \div C) * C \in Nat
    BY <1>3, ProductType
  <2> QED
    BY <1>1, <1>3, <2>2, <2>3
<1> QED
  BY <1>2, <1>3, <1>4

-----------------------------------------------------------------------------
LEMMA BlockCell ==
  ASSUME NEW S, NEW tab, TableOf(tab, S), NEW R \in Nat, NEW C \in Nat,
         R >= tab.rows, C >= tab.cols
  PROVE  /\ Block(tab, R, C) \in [Cells(R, C) -> S]
         /\ \A i, j \in Nat : i < R /\ j < C =>
              Block(tab, R, C)[i * C + j] = Get(tab, i, j)
<1> DEFINE Moved(x) == LET i == x \div C
                           j == x % C
                       IN  IF i < tab.rows /\ j < tab.cols
                           THEN tab.data[i * tab.cols + j] ELSE tab.newitem
<1>1. Block(tab, R, C) = [x \in Cells(R, C) |-> Moved(x)]
  BY DEF Block, Cells
<1>2. ASSUME NEW x \in Cells(R, C) PROVE Moved(x) \in S
  <2>1. x \div C \in Nat /\ x % C \in Nat
    BY CellHasPlace
  <2>2. CASE x \div C < tab.rows /\ x % C < tab.cols
    <3>1. (x \div C) * tab.cols + (x % C) \in Cells(tab.rows, tab.cols)
      BY <2>1, <2>2, CellInBlock DEF TableOf
    <3> QED
      BY <2>2, <3>1 DEF TableOf
  <2>3. CASE ~ (x \div C < tab.rows /\ x % C < tab.cols)
    BY <2>3 DEF TableOf
  <2> QED
    BY <2>2, <2>3
<1>3. ASSUME NEW i \in Nat, NEW j \in Nat, i < R, j < C
      PROVE  Moved(i * C + j) = Get(tab, i, j)
  <2>1. (i * C + j) \div C = i /\ (i * C + j) % C = j
    BY <1>3, CellFound
  <2> QED
    BY <2>1 DEF Get, Inside, TableOf
<1> HIDE DEF Moved
<1>4. ASSUME NEW i \in Nat, NEW j \in Nat, i < R, j < C
      PROVE  Block(tab, R, C)[i * C + j] = Get(tab, i, j)
  <2>1. i * C + j \in Cells(R, C)
    BY <1>4, CellInBlock
  <2> QED
    BY <1>1, <1>3, <1>4, <2>1
<1> QED
  BY <1>1, <1>2, <1>4

(* A table that is resized reads as before, everywhere.                    *)
LEMMA ResizeKeeps ==
  ASSUME NEW S, NEW tab, TableOf(tab, S), NEW i \in Nat, NEW j \in Nat
  PROVE  /\ TableOf(Resize(tab, i, j), S)
         /\ Inside(Resize(tab, i, j), i, j)
         /\ Resize(tab, i, j).cols = Widened(tab.cols, j)
         /\ \A k, l \in Nat : Get(Resize(tab, i, j), k, l) = Get(tab, k, l)
<1> DEFINE room == Resize(tab, i, j)
           R == Widened(tab.rows, i)
           C == Widened(tab.cols, j)
<1>1. /\ tab.rows \in Nat /\ tab.cols \in Nat
      /\ R \in Nat /\ C \in Nat /\ R >= tab.rows /\ C >= tab.cols /\ i < R /\ j < C
  <2>1. tab.rows \in Nat /\ tab.cols \in Nat
    BY DEF TableOf
  <2>2. i + 1 \in Nat /\ j + 1 \in Nat
    OBVIOUS
  <2>3. R \in Nat /\ R >= i + 1 /\ R >= tab.rows
    BY <2>1, <2>2, LargerType DEF Widened
  <2>4. C \in Nat /\ C >= j + 1 /\ C >= tab.cols
    BY <2>1, <2>2, LargerType DEF Widened
  <2> QED
    BY <2>1, <2>3, <2>4
<1>2. room = [ rows |-> R, cols |-> C, data |-> Block(tab, R, C),
               newitem |-> tab.newitem ]
  <2>1. PICK r, c, d, e : tab = [ rows |-> r, cols |-> c, data |-> d, newitem |-> e ]
    BY DEF TableOf
  <2>2. room = [ tab EXCEPT !.rows = R, !.cols = C, !.data = Block(tab, R, C) ]
    BY DEF Resize
  <2> HIDE DEF room, R, C
  <2> QED
    BY <2>1, <2>2
<1> HIDE DEF room, R, C
<1>3. /\ Block(tab, R, C) \in [Cells(R, C) -> S]
      /\ \A k, l \in Nat : k < R /\ l < C => Block(tab, R, C)[k * C + l] = Get(tab, k, l)
  BY <1>1, BlockCell
<1>4. room.rows = R /\ room.cols = C /\ room.data = Block(tab, R, C)
      /\ room.newitem = tab.newitem
  BY <1>2
<1>5. TableOf(room, S)
  BY <1>1, <1>2, <1>3, <1>4 DEF TableOf
<1>6. Inside(room, i, j)
  BY <1>1, <1>4 DEF Inside
<1>7. ASSUME NEW k \in Nat, NEW l \in Nat PROVE Get(room, k, l) = Get(tab, k, l)
  <2>1. CASE k < R /\ l < C
    BY <1>3, <1>4, <2>1 DEF Get, Inside
  <2>2. CASE ~ (k < R /\ l < C)
    BY <1>1, <1>4, <2>2 DEF Get, Inside
  <2> QED
    BY <2>1, <2>2
<1> QED
  BY <1>4, <1>5, <1>6, <1>7 DEF room, R, C

(* What is written to a cell is read from it, no other cell reads          *)
(* differently, and the table widens to the number written: tab_set and    *)
(* tab_get, whatever resizing and copying goes on in between.              *)
THEOREM WrittenIsRead ==
  ASSUME NEW S, NEW tab, TableOf(tab, S), NEW i \in Nat, NEW j \in Nat, NEW item \in S
  PROVE  LET after == Set(tab, i, j, item) IN
         /\ TableOf(after, S)
         /\ Get(after, i, j) = item
         /\ \A k, l \in Nat : <<k, l>> # <<i, j>> => Get(after, k, l) = Get(tab, k, l)
         /\ after.cols = Widened(tab.cols, j)
<1> DEFINE room == IF Inside(tab, i, j) THEN tab ELSE Resize(tab, i, j)
           after == Set(tab, i, j, item)
           x == i * room.cols + j
<1>1. /\ TableOf(room, S) /\ Inside(room, i, j)
      /\ room.cols = Widened(tab.cols, j)
      /\ \A k, l \in Nat : Get(room, k, l) = Get(tab, k, l)
  <2>1. CASE Inside(tab, i, j)
    BY <2>1 DEF Inside, Widened, Larger, TableOf
  <2>2. CASE ~ Inside(tab, i, j)
    <3>1. /\ TableOf(Resize(tab, i, j), S)
          /\ Inside(Resize(tab, i, j), i, j)
          /\ Resize(tab, i, j).cols = Widened(tab.cols, j)
          /\ \A k, l \in Nat : Get(Resize(tab, i, j), k, l) = Get(tab, k, l)
      BY ResizeKeeps
    <3>2. room = Resize(tab, i, j)
      BY <2>2, Zenon
    <3> HIDE DEF room
    <3> QED
      BY <3>1, <3>2, Zenon
  <2> QED
    BY <2>1, <2>2
<1>2. after = [room EXCEPT !.data[x] = item]
  BY DEF Set
<1> HIDE DEF room, after
<1>3. /\ room.rows \in Nat /\ room.cols \in Nat /\ i < room.rows /\ j < room.cols
      /\ room.data \in [Cells(room.rows, room.cols) -> S]
      /\ room.newitem \in S
  BY <1>1 DEF TableOf, Inside
<1>4. x \in Cells(room.rows, room.cols)
  BY <1>3, CellInBlock
<1>5. after = [ rows |-> room.rows, cols |-> room.cols,
                data |-> [room.data EXCEPT ![x] = item], newitem |-> room.newitem ]
  BY <1>1, <1>2 DEF TableOf
<1> HIDE DEF x
<1>6. /\ after.rows = room.rows /\ after.cols = room.cols
      /\ after.newitem = room.newitem
      /\ after.data = [room.data EXCEPT ![x] = item]
  BY <1>5
<1>7. after.data \in [Cells(room.rows, room.cols) -> S]
  BY <1>3, <1>4, <1>6
<1>8. TableOf(after, S)
  BY <1>3, <1>5, <1>6, <1>7 DEF TableOf
<1>9. Get(after, i, j) = item
  BY <1>3, <1>4, <1>6 DEF Get, Inside, x
<1>10. ASSUME NEW k \in Nat, NEW l \in Nat, <<k, l>> # <<i, j>>
       PROVE  Get(after, k, l) = Get(tab, k, l)
  <2>1. CASE k < room.rows /\ l < room.cols
    <3>1. k * room.cols + l # x
      BY <1>3, <1>10, <2>1, CellsDiffer DEF x
    <3>2. k * room.cols + l \in Cells(room.rows, room.cols)
      BY <1>3, <2>1, CellInBlock
    <3>3. after.data[k * room.cols + l] = room.data[k * room.cols + l]
      BY <1>3, <1>6, <3>1, <3>2
    <3> QED
      BY <1>1, <1>6, <2>1, <3>3 DEF Get, Inside
  <2>2. CASE ~ (k < room.rows /\ l < room.cols)
    BY <1>1, <1>6, <2>2 DEF Get, Inside
  <2> QED
    BY <2>1, <2>2
<1> QED
  BY <1>1, <1>6, <1>8, <1>9, <1>10 DEF after

-----------------------------------------------------------------------------
(* Destinations: the columns grow to the greatest number written.          *)

LEMMA WidenedByGreatest ==
  ASSUME NEW B \in Nat, NEW cols \in 0 .. B, NEW S \in SUBSET (0 .. B - 1)
  PROVE  /\ WidenedBy(cols, S) \in 0 .. B
         /\ WidenedBy(cols, S) >= cols
         /\ \A k \in S : WidenedBy(cols, S) > k
<1> DEFINE W == {cols} \cup {Widened(cols, k) : k \in S}
           Left == {B - c : c \in W}
           Less == {ss \in Nat \X Nat : ss[1] < ss[2]}
<1>1. \A k \in S : Widened(cols, k) \in 0 .. B /\ Widened(cols, k) > k
                     /\ Widened(cols, k) >= cols
  BY DEF Widened, Larger
<1>2. W \subseteq 0 .. B /\ cols \in W
  BY <1>1
<1>3. Left \in SUBSET Nat /\ Left # {}
  BY <1>2
<1>4. IsWellFoundedOn(Less, Nat)
  BY NatLessThanWellFounded DEF OpToRel
<1>5. PICK x \in Left : \A y \in Left : <<y, x>> \notin Less
  BY <1>3, <1>4, WFMin
<1>6. PICK c \in W : x = B - c
  OBVIOUS
<1>7. \A d \in W : d <= c
  <2> TAKE d \in W
  <2>1. B - d \in Left /\ B - d \in Nat /\ x \in Nat
    BY <1>3
  <2>2. ~ (B - d < x)
    BY <1>5, <2>1
  <2> QED
    BY <1>2, <1>6, <2>1, <2>2
<1>8. c >= cols /\ \A k \in S : c >= Widened(cols, k)
  BY <1>2, <1>7
<1> DEFINE w == WidenedBy(cols, S)
<1>9. w \in W /\ w >= cols /\ \A k \in S : w >= Widened(cols, k)
  <2> HIDE DEF W
  <2>1. w = CHOOSE d \in W : d >= cols /\ \A k \in S : d >= Widened(cols, k)
    BY DEF WidenedBy, W
  <2> HIDE DEF w
  <2> QED
    BY <1>8, <2>1
<1> HIDE DEF w
<1>10. \A k \in S : w > k
  <2> TAKE k \in S
  <2>1. w \in 0 .. B /\ Widened(cols, k) \in 0 .. B /\ Widened(cols, k) > k
        /\ w >= Widened(cols, k)
    BY <1>1, <1>2, <1>9
  <2> QED
    BY <2>1
<1> QED
  BY <1>2, <1>9, <1>10 DEF w

(* The counts of a network in which only numbers of nodes are typed.       *)
CountsInv ==
  /\ mvec \in [Node -> 1 .. N]
  /\ mtab \in [Node -> 0 .. N]
  /\ transit \in [Link -> 0 .. N]

LEMMA LoadedCounts ==
  ASSUME N \in Nat, Links \in [Node -> SUBSET Node], NEW n \in Node
  PROVE  LoadedVec(n) \in 1 .. N /\ LoadedTab(n) \in 0 .. N
<1>1. N \in Nat /\ 0 \in 0 .. N /\ n \in 0 .. N - 1
      /\ Links[n] \cup {n} \in SUBSET (0 .. N - 1) /\ {n} \in SUBSET (0 .. N - 1)
  BY DEF Node
<1>2. LoadedVec(n) \in 0 .. N /\ LoadedVec(n) > n
  BY <1>1, WidenedByGreatest DEF LoadedVec
<1>3. LoadedTab(n) \in 0 .. N
  BY <1>1, WidenedByGreatest DEF LoadedTab
<1> QED
  BY <1>1, <1>2, <1>3

LEMMA VectorsCounts ==
  ASSUME N \in Nat, CountsInv, NEW n \in Node, NEW count \in 0 .. N
  PROVE  Vectors(n, count) \in [Link -> 0 .. N]
BY DEF CountsInv, Vectors

LEMMA CountsStep ==
  ASSUME N \in Nat, Links \in [Node -> SUBSET Node], Typed \subseteq Node,
         CountsInv, [Next]_vars
  PROVE  CountsInv'
<1>0. \A n \in Node : NumDestinations(n) \in 0 .. N
  BY DEF CountsInv, NumDestinations, Larger
<1>1. ASSUME NEW n \in Node, SendDv(n) PROVE CountsInv'
  BY <1>0, <1>1, VectorsCounts DEF SendDv, CountsInv
<1>2. ASSUME NEW n \in Node, Restart(n) PROVE CountsInv'
  <2>1. LoadedVec(n) \in 1 .. N /\ LoadedTab(n) \in 0 .. N
    BY LoadedCounts
  <2>2. Larger(LoadedVec(n), LoadedTab(n)) \in 0 .. N
    BY <2>1 DEF Larger
  <2>3. Vectors(n, Larger(LoadedVec(n), LoadedTab(n))) \in [Link -> 0 .. N]
    BY <2>2, VectorsCounts
  <2> QED
    BY <1>2, <2>1, <2>3 DEF Restart, CountsInv
<1>3. ASSUME NEW l \in Link, RecvDv(l) PROVE CountsInv'
  <2> DEFINE to == l[2]
  <2>1. to \in Node /\ transit[l] \in 0 .. N
    BY DEF Link, CountsInv
  <2>2. Told(transit[l]) \in SUBSET (0 .. N - 1)
    BY <2>1 DEF Told
  <2>3. WidenedBy(mtab[to], Told(transit[l])) \in 0 .. N
    BY <2>1, <2>2, WidenedByGreatest DEF CountsInv
  <2>4. mtab' \in [Node -> 0 .. N]
    BY <1>3, <2>1, <2>3 DEF RecvDv, CountsInv
  <2>5. PICK changed \in SUBSET {d \in Node : d < Larger(mvec[to], mtab'[to])} :
          /\ mvec' = [mvec EXCEPT ![to] = WidenedBy(@, changed)]
          /\ transit' = [ IF changed = {} THEN transit
                          ELSE Vectors(to, Larger(mvec'[to], mtab'[to])) EXCEPT ![l] = 0 ]
    BY <1>3 DEF RecvDv
  <2>6. changed \in SUBSET (0 .. N - 1)
    BY DEF Node
  <2>7. WidenedBy(mvec[to], changed) \in 1 .. N
    <3>1. mvec[to] \in 1 .. N
      BY <2>1 DEF CountsInv
    <3>2. mvec[to] \in 0 .. N
      BY <3>1
    <3>3. WidenedBy(mvec[to], changed) \in 0 .. N /\ WidenedBy(mvec[to], changed) >= mvec[to]
      BY <2>6, <3>2, WidenedByGreatest
    <3> QED
      BY <3>1, <3>3
  <2>8. mvec' \in [Node -> 1 .. N]
    BY <2>1, <2>5, <2>7 DEF CountsInv
  <2>9. Larger(mvec'[to], mtab'[to]) \in 0 .. N
    BY <2>1, <2>4, <2>8 DEF Larger
  <2>10. Vectors(to, Larger(mvec'[to], mtab'[to])) \in [Link -> 0 .. N]
    BY <2>1, <2>9, VectorsCounts
  <2>11. transit' \in [Link -> 0 .. N]
    <3> DEFINE sent == Vectors(to, Larger(mvec'[to], mtab'[to]))
    <3>1. sent \in [Link -> 0 .. N] /\ transit \in [Link -> 0 .. N]
      BY <2>10 DEF CountsInv
    <3>2. transit' = [ IF changed = {} THEN transit ELSE sent EXCEPT ![l] = 0 ]
      BY <2>5
    <3> HIDE DEF sent
    <3> QED
      BY <3>1, <3>2
  <2> QED
    BY <2>4, <2>8, <2>11 DEF CountsInv
<1>4. ASSUME NEW l \in Link, Lose(l) PROVE CountsInv'
  BY <1>4 DEF Lose, CountsInv
<1>5. ASSUME NEW n \in Node, NEW d \in Typed, GiveUp(n, d) \/ CmdDrop(n, d) PROVE CountsInv'
  <2>1. d \in 0 .. N - 1 /\ mvec[n] \in 1 .. N
    BY DEF Node, CountsInv
  <2>2. Widened(mvec[n], d) \in 1 .. N
    BY <2>1 DEF Widened, Larger
  <2> QED
    BY <1>5, <2>2 DEF GiveUp, CmdDrop, CountsInv
<1>6. CASE UNCHANGED vars
  BY <1>6 DEF vars, CountsInv
<1> QED
  BY <1>1, <1>2, <1>3, <1>4, <1>5, <1>6 DEF Next

LEMMA CountsHold ==
  ASSUME N \in Nat, Links \in [Node -> SUBSET Node], Typed \subseteq Node
  PROVE  Spec => []CountsInv
<1>1. Init => CountsInv
  BY LoadedCounts DEF Init, CountsInv
<1>2. CountsInv /\ [Next]_vars => CountsInv'
  BY CountsStep
<1> QED
  BY <1>1, <1>2, PTL DEF Spec

(* As long as only numbers of nodes are typed, num_destinations counts     *)
(* nothing but the nodes, whatever is dropped, lost or restarted.          *)
THEOREM OnlyNodesAreCounted ==
  ASSUME N \in Nat, Links \in [Node -> SUBSET Node], Typed \subseteq Node
  PROVE  Spec => []OnlyNodesCounted
<1>1. CountsInv => OnlyNodesCounted
  BY DEF CountsInv, OnlyNodesCounted, NumDestinations, Larger
<1> QED
  BY <1>1, CountsHold, PTL

(* Then every heartbeat reaches the link to each neighbour, in a network   *)
(* whose nodes fit in one datagram.                                        *)
HeartbeatTold(n) == SendDv(n) => \A l \in Link : l[1] = n => transit'[l] > 0

THEOREM HeartbeatsAreTold ==
  ASSUME N \in Nat, Links \in [Node -> SUBSET Node], Typed \subseteq Node,
         MaxDatagram \in Nat, VectorSize(N) <= MaxDatagram
  PROVE  Spec => [][\A n \in Node : HeartbeatTold(n)]_vars
<1>1. ASSUME CountsInv, NEW n \in Node PROVE HeartbeatTold(n)
  <2>1. mvec[n] \in 1 .. N /\ mtab[n] \in 0 .. N
    BY <1>1 DEF CountsInv
  <2>2. NumDestinations(n) \in 1 .. N
    BY <2>1 DEF NumDestinations, Larger
  <2>3. VectorSize(NumDestinations(n)) <= MaxDatagram
    BY <2>2 DEF VectorSize
  <2> QED
    BY <2>2, <2>3 DEF HeartbeatTold, SendDv, Vectors
<1>2. CountsInv => [\A n \in Node : HeartbeatTold(n)]_vars
  BY <1>1
<1> QED
  BY <1>2, CountsHold, PTL DEF Spec

=============================================================================
