---------------------------- MODULE PacketsProofs ----------------------------
(***************************************************************************)
(* Proofs about Buffer and Packets: what is written is read, for every     *)
(* size of a packet, number of nodes, distance and text.                   *)
(***************************************************************************)
EXTENDS Packets, TLAPS

-----------------------------------------------------------------------------
(* Bytes                                                                   *)

LEMMA BitsOctet ==
  ASSUME NEW v \in Int, NEW k \in 0 .. 3
  PROVE  Bits(v, k) \in Octet /\ Bits(v, k) \in Int
<1>1. \A x \in Int : x % 256 \in 0 .. 255
  BY Z3
<1>2. v \div 256 \in Int /\ v \div 65536 \in Int /\ v \div 16777216 \in Int
  BY Z3
<1> QED
  BY <1>1, <1>2, SMT DEF Bits, Octet

(* The four bytes of an int make it, the last one with its sign.           *)
LEMMA BitsValue ==
  ASSUME NEW v \in Int32
  PROVE  v = Bits(v, 0) + 256 * Bits(v, 1) + 65536 * Bits(v, 2)
               + 16777216 * Signed(Bits(v, 3))
<1>1. v \in Int
  BY SMT DEF Int32, MaxInt32
<1> DEFINE a == v % 256
           b == (v \div 256) % 256
           c == (v \div 65536) % 256
           d == (v \div 16777216) % 256
<1>2. v = a + 256 * b + 65536 * c + 16777216 * (IF d < 128 THEN d ELSE d - 256)
  BY Z3 DEF Int32, MaxInt32
<1>3. Bits(v, 0) = a /\ Bits(v, 1) = b /\ Bits(v, 2) = c /\ Bits(v, 3) = d
  BY Z3 DEF Bits
<1>4. Signed(Bits(v, 3)) = IF d < 128 THEN d ELSE d - 256
  BY <1>3, Z3 DEF Signed
<1> HIDE DEF a, b, c, d
<1> QED
  BY <1>2, <1>3, <1>4, SMT

LEMMA SignedType ==
  ASSUME NEW b \in Octet
  PROVE  Signed(b) \in -128 .. 127 /\ Signed(b) \in Int
BY DEF Signed, Octet

LEMMA SignedMod ==
  ASSUME NEW b \in Octet
  PROVE  Signed(b) % 256 = b
<1>1. b \in Int /\ 0 <= b /\ b <= 255
  BY DEF Octet
<1>2. b % 256 = b /\ (b - 256) % 256 = b
  BY <1>1, Z3
<1> QED
  BY <1>2 DEF Signed

LEMMA ModOctet ==
  ASSUME NEW v \in Int
  PROVE  v % 256 \in Octet /\ v % 256 \in Int
BY Z3 DEF Octet

LEMMA OctetMod ==
  ASSUME NEW v \in Octet
  PROVE  v % 256 = v
<1>1. v \in Int /\ 0 <= v /\ v <= 255
  BY DEF Octet
<1> QED
  BY <1>1, Z3

-----------------------------------------------------------------------------
(* Buffers                                                                 *)

Bytes == UNION {[0 .. n - 1 -> Octet] : n \in Nat}

(* What every operation keeps of a buffer.                                 *)
Wf(buf) ==
  /\ buf \in [ pos : Nat, size : Nat, capacity : Nat, data : Bytes ]
  /\ buf.data \in [0 .. buf.capacity - 1 -> Octet]
  /\ buf.pos <= buf.size /\ buf.size <= buf.capacity

LEMMA CreateWf == Wf(Create)
<1>1. [i \in 0 .. -1 |-> 0] \in [0 .. 0 - 1 -> Octet]
  BY DEF Octet
<1>2. Create.data \in Bytes
  BY <1>1 DEF Bytes, Create
<1> QED
  BY <1>1, <1>2 DEF Wf, Create

LEMMA WfIntro ==
  ASSUME NEW p \in Nat, NEW s \in Nat, NEW c \in Nat, NEW d \in [0 .. c - 1 -> Octet],
         p <= s, s <= c
  PROVE  Wf([pos |-> p, size |-> s, capacity |-> c, data |-> d])
<1>1. d \in Bytes
  BY DEF Bytes
<1> QED
  BY <1>1 DEF Wf

(* A larger capacity keeps what the buffer held.                           *)
LEMMA GrownWf ==
  ASSUME NEW buf, Wf(buf), NEW n \in Nat
  PROVE  LET b == Grown(buf, n) IN
         /\ Wf(b) /\ b.size = buf.size /\ b.pos = buf.pos
         /\ n <= b.capacity /\ buf.capacity <= b.capacity
         /\ \A i \in 0 .. buf.capacity - 1 : b.data[i] = buf.data[i]
<1> DEFINE d == [i \in 0 .. n - 1 |-> IF i < buf.capacity THEN buf.data[i] ELSE Junk]
<1>1. CASE n > buf.capacity
  <2>1. Grown(buf, n) = [pos |-> buf.pos, size |-> buf.size, capacity |-> n, data |-> d]
    BY <1>1 DEF Grown, SetCapacity, Wf
  <2>2. d \in [0 .. n - 1 -> Octet]
    BY <1>1, JunkAssumption DEF Wf
  <2>3. buf.pos \in Nat /\ buf.size \in Nat /\ buf.capacity \in Nat
    BY DEF Wf
  <2>4. \A i \in 0 .. buf.capacity - 1 : d[i] = buf.data[i]
    BY <1>1, <2>3
  <2> HIDE DEF d
  <2>5. buf.pos <= buf.size /\ buf.size <= n
    BY <2>3, <1>1 DEF Wf
  <2>6. Wf([pos |-> buf.pos, size |-> buf.size, capacity |-> n, data |-> d])
    BY <2>2, <2>3, <2>5, WfIntro
  <2> QED
    BY <2>1, <2>3, <2>4, <2>6, <1>1
<1>2. CASE ~ n > buf.capacity
  <2>1. Grown(buf, n) = buf
    BY <1>2 DEF Grown
  <2> QED
    BY <2>1, <1>2 DEF Wf
<1> QED
  BY <1>1, <1>2

(* A buffer given another size keeps what it held.                         *)
LEMMA ResizeWf ==
  ASSUME NEW buf, Wf(buf), NEW n \in Nat
  PROVE  LET b == Resize(buf, n) IN
         /\ Wf(b) /\ b.size = n /\ b.pos = (IF buf.pos > n THEN n ELSE buf.pos)
         /\ n <= b.capacity /\ buf.capacity <= b.capacity
         /\ \A i \in 0 .. buf.capacity - 1 : b.data[i] = buf.data[i]
<1> DEFINE g == Grown(buf, n)
           p == IF buf.pos > n THEN n ELSE buf.pos
<1>1. /\ Wf(g) /\ g.size = buf.size /\ g.pos = buf.pos
      /\ n <= g.capacity /\ buf.capacity <= g.capacity
      /\ \A i \in 0 .. buf.capacity - 1 : g.data[i] = buf.data[i]
  BY GrownWf
<1> HIDE DEF g
<1>2. /\ g \in [ pos : Nat, size : Nat, capacity : Nat, data : Bytes ]
      /\ (IF g.pos > n THEN n ELSE g.pos) = p
  BY <1>1 DEF Wf
<1> HIDE DEF p
<1>3. Resize(buf, n) = [g EXCEPT !.size = n, !.pos = p]
  BY <1>2 DEF Resize, g
<1>4. p \in Nat /\ p <= n
  BY DEF Wf, p
<1> DEFINE b == [g EXCEPT !.size = n, !.pos = p]
<1>5. /\ b \in [ pos : Nat, size : Nat, capacity : Nat, data : Bytes ]
      /\ b.size = n /\ b.pos = p /\ b.capacity = g.capacity /\ b.data = g.data
  BY <1>2, <1>4
<1> HIDE DEF b
<1>6. Wf(b)
  BY <1>1, <1>4, <1>5 DEF Wf
<1> QED
  BY <1>1, <1>3, <1>5, <1>6 DEF p, b

(* Room for n bytes at the position.                                       *)
LEMMA NeedSpaceWf ==
  ASSUME NEW buf, Wf(buf), NEW n \in Nat
  PROVE  LET b == NeedSpace(buf, n) IN
         /\ Wf(b) /\ b.pos = buf.pos
         /\ b.size = (IF buf.pos + n > buf.size THEN buf.pos + n ELSE buf.size)
         /\ buf.pos + n <= b.size
         /\ \A i \in 0 .. buf.size - 1 : b.data[i] = buf.data[i]
<1> DEFINE m == buf.pos + n
<1>1. m \in Nat /\ ~ (buf.pos > m)
  BY DEF Wf
<1>2. \A i \in 0 .. buf.size - 1 : i \in 0 .. buf.capacity - 1
  BY DEF Wf
<1>3. CASE m > buf.size
  <2>1. NeedSpace(buf, n) = Resize(buf, m)
    BY <1>3 DEF NeedSpace
  <2>2. /\ Wf(Resize(buf, m)) /\ Resize(buf, m).size = m
        /\ Resize(buf, m).pos = (IF buf.pos > m THEN m ELSE buf.pos)
        /\ \A i \in 0 .. buf.capacity - 1 : Resize(buf, m).data[i] = buf.data[i]
    BY <1>1, ResizeWf
  <2> QED
    BY <2>1, <2>2, <1>1, <1>2, <1>3 DEF Wf
<1>4. CASE ~ m > buf.size
  <2>1. NeedSpace(buf, n) = buf
    BY <1>4 DEF NeedSpace
  <2> QED
    BY <2>1, <1>1, <1>4 DEF Wf
<1> QED
  BY <1>3, <1>4


(* A byte written at the position; nothing else is touched.                *)
LEMMA Write8Wf ==
  ASSUME NEW buf, Wf(buf), NEW v \in Int
  PROVE  LET b == Write8(buf, v) IN
         /\ Wf(b) /\ b.pos = buf.pos + 1
         /\ b.size = (IF buf.pos + 1 > buf.size THEN buf.pos + 1 ELSE buf.size)
         /\ b.data[buf.pos] = v % 256
         /\ \A i \in 0 .. buf.size - 1 : i # buf.pos => b.data[i] = buf.data[i]
<1> DEFINE g == NeedSpace(buf, 1)
           b == [g EXCEPT !.data[buf.pos] = v % 256, !.pos = @ + 1]
<1>1. /\ Wf(g) /\ g.pos = buf.pos /\ buf.pos + 1 <= g.size
      /\ g.size = (IF buf.pos + 1 > buf.size THEN buf.pos + 1 ELSE buf.size)
      /\ \A i \in 0 .. buf.size - 1 : g.data[i] = buf.data[i]
  BY NeedSpaceWf
<1>2. Write8(buf, v) = b
  BY DEF Write8
<1> HIDE DEF g
<1>3. v % 256 \in Octet
  BY ModOctet
<1>4. buf.pos \in 0 .. g.capacity - 1 /\ buf.pos \in Nat /\ buf.size \in Nat
  BY <1>1 DEF Wf
<1> DEFINE d == [g.data EXCEPT ![buf.pos] = v % 256]
<1>5. d \in [0 .. g.capacity - 1 -> Octet]
  BY <1>1, <1>3, <1>4 DEF Wf
<1>6. d[buf.pos] = v % 256 /\ \A i \in 0 .. g.capacity - 1 : i # buf.pos => d[i] = g.data[i]
  BY <1>1, <1>4 DEF Wf
<1>7. \A i \in 0 .. buf.size - 1 : i \in 0 .. g.capacity - 1
  BY <1>1 DEF Wf
<1>8. d \in Bytes
  BY <1>1, <1>5 DEF Bytes, Wf
<1>9. /\ b.size = g.size /\ b.pos = g.pos + 1 /\ b.capacity = g.capacity /\ b.data = d
  BY <1>1 DEF Wf
<1>a. g.pos + 1 \in Nat /\ g \in [ pos : Nat, size : Nat, capacity : Nat, data : Bytes ]
  BY <1>1 DEF Wf
<1>b. b = [g EXCEPT !.data = d, !.pos = g.pos + 1]
  BY <1>a
<1> HIDE DEF d
<1>10. b \in [ pos : Nat, size : Nat, capacity : Nat, data : Bytes ]
  <2> HIDE DEF b
  <2>1. [g EXCEPT !.data = d, !.pos = g.pos + 1]
          \in [ pos : Nat, size : Nat, capacity : Nat, data : Bytes ]
    BY <1>8, <1>a
  <2> QED
    BY <1>b, <2>1
<1> HIDE DEF b
<1>11. Wf(b)
  BY <1>1, <1>5, <1>9, <1>10 DEF Wf
<1> QED
  BY <1>1, <1>2, <1>4, <1>6, <1>7, <1>9, <1>11

(* A buffer that is being built: its position is its end.                  *)
Grows(buf) == Wf(buf) /\ buf.pos = buf.size

LEMMA Write8Grows ==
  ASSUME NEW buf, Grows(buf), NEW v \in Int
  PROVE  LET b == Write8(buf, v) IN
         /\ Grows(b) /\ b.size = buf.size + 1 /\ b.data[buf.size] = v % 256
         /\ \A i \in 0 .. buf.size - 1 : b.data[i] = buf.data[i]
<1>1. Wf(buf) /\ buf.pos = buf.size /\ buf.size \in Nat
  BY DEF Grows, Wf
<1> DEFINE b == Write8(buf, v)
<1>2. /\ Wf(b) /\ b.pos = buf.pos + 1
      /\ b.size = (IF buf.pos + 1 > buf.size THEN buf.pos + 1 ELSE buf.size)
      /\ b.data[buf.pos] = v % 256
      /\ \A i \in 0 .. buf.size - 1 : i # buf.pos => b.data[i] = buf.data[i]
  BY <1>1, Write8Wf
<1> HIDE DEF b
<1>3. \A i \in 0 .. buf.size - 1 : i # buf.pos
  BY <1>1
<1> QED
  BY <1>1, <1>2, <1>3 DEF Grows, b

LEMMA Write32Grows ==
  ASSUME NEW buf, Grows(buf), NEW v \in Int
  PROVE  LET b == Write32(buf, v) IN
         /\ Grows(b) /\ b.size = buf.size + 4
         /\ \A k \in 0 .. 3 : b.data[buf.size + k] = Bits(v, k)
         /\ \A i \in 0 .. buf.size - 1 : b.data[i] = buf.data[i]
<1> DEFINE n  == buf.size
           b1 == Write8(buf, Bits(v, 0))
           b2 == Write8(b1, Bits(v, 1))
           b3 == Write8(b2, Bits(v, 2))
           b4 == Write8(b3, Bits(v, 3))
<1>0. n \in Nat
  BY DEF Grows, Wf
<1>a. \A k \in 0 .. 3 : Bits(v, k) \in Int /\ Bits(v, k) % 256 = Bits(v, k)
  BY BitsOctet, OctetMod
<1>b. /\ Bits(v, 0) \in Int /\ Bits(v, 1) \in Int /\ Bits(v, 2) \in Int /\ Bits(v, 3) \in Int
      /\ Bits(v, 0) % 256 = Bits(v, 0) /\ Bits(v, 1) % 256 = Bits(v, 1)
      /\ Bits(v, 2) % 256 = Bits(v, 2) /\ Bits(v, 3) % 256 = Bits(v, 3)
  <2>1. 0 \in 0 .. 3 /\ 1 \in 0 .. 3 /\ 2 \in 0 .. 3 /\ 3 \in 0 .. 3
    OBVIOUS
  <2> QED
    BY <1>a, <2>1, Zenon
<1>1. Write32(buf, v) = b4
  BY DEF Write32
<1>2. /\ Grows(b1) /\ b1.size = n + 1 /\ b1.data[n] = Bits(v, 0)
      /\ \A i \in 0 .. n - 1 : b1.data[i] = buf.data[i]
  <2>1. /\ Grows(b1) /\ b1.size = buf.size + 1 /\ b1.data[buf.size] = Bits(v, 0) % 256
        /\ \A i \in 0 .. buf.size - 1 : b1.data[i] = buf.data[i]
    BY <1>b, Write8Grows
  <2> QED
    BY <1>b, <2>1
<1> HIDE DEF b1
<1>3. /\ Grows(b2) /\ b2.size = n + 2 /\ b2.data[n + 1] = Bits(v, 1)
      /\ \A i \in 0 .. (n + 1) - 1 : b2.data[i] = b1.data[i]
  <2>1. /\ Grows(b2) /\ b2.size = b1.size + 1 /\ b2.data[b1.size] = Bits(v, 1) % 256
        /\ \A i \in 0 .. b1.size - 1 : b2.data[i] = b1.data[i]
    BY <1>b, <1>2, Write8Grows
  <2> QED
    BY <1>0, <1>b, <1>2, <2>1
<1> HIDE DEF b2
<1>4. /\ Grows(b3) /\ b3.size = n + 3 /\ b3.data[n + 2] = Bits(v, 2)
      /\ \A i \in 0 .. (n + 2) - 1 : b3.data[i] = b2.data[i]
  <2>1. /\ Grows(b3) /\ b3.size = b2.size + 1 /\ b3.data[b2.size] = Bits(v, 2) % 256
        /\ \A i \in 0 .. b2.size - 1 : b3.data[i] = b2.data[i]
    BY <1>b, <1>3, Write8Grows
  <2> QED
    BY <1>0, <1>b, <1>3, <2>1
<1> HIDE DEF b3
<1>5. /\ Grows(b4) /\ b4.size = n + 4 /\ b4.data[n + 3] = Bits(v, 3)
      /\ \A i \in 0 .. (n + 3) - 1 : b4.data[i] = b3.data[i]
  <2>1. /\ Grows(b4) /\ b4.size = b3.size + 1 /\ b4.data[b3.size] = Bits(v, 3) % 256
        /\ \A i \in 0 .. b3.size - 1 : b4.data[i] = b3.data[i]
    BY <1>b, <1>4, Write8Grows
  <2> QED
    BY <1>0, <1>b, <1>4, <2>1
<1> HIDE DEF b4
<1>6. \A i \in 0 .. n - 1 : b4.data[i] = buf.data[i]
  BY <1>0, <1>2, <1>3, <1>4, <1>5
<1>7. /\ b4.data[n] = Bits(v, 0) /\ b4.data[n + 1] = Bits(v, 1)
      /\ b4.data[n + 2] = Bits(v, 2) /\ b4.data[n + 3] = Bits(v, 3)
  BY <1>0, <1>2, <1>3, <1>4, <1>5
<1>8. \A k \in 0 .. 3 : b4.data[n + k] = Bits(v, k)
  <2> SUFFICES ASSUME NEW k \in 0 .. 3 PROVE b4.data[n + k] = Bits(v, k)
    OBVIOUS
  <2>1. k = 0 \/ k = 1 \/ k = 2 \/ k = 3
    OBVIOUS
  <2>2. n + 0 = n
    BY <1>0
  <2> HIDE DEF n
  <2> QED
    BY <1>7, <2>1, <2>2
<1> QED
  BY <1>1, <1>5, <1>6, <1>8

LEMMA InSequence ==
  ASSUME NEW S, NEW s \in Seq(S), NEW n \in 1 .. Len(s)
  PROVE  s[n] \in S
OBVIOUS

LEMMA AppendIs ==
  ASSUME NEW S, NEW s \in Seq(S), NEW e \in S
  PROVE  /\ Append(s, e) \in Seq(S) /\ Len(Append(s, e)) = Len(s) + 1
         /\ \A k \in 1 .. Len(s) : Append(s, e)[k] = s[k]
         /\ Append(s, e)[Len(s) + 1] = e
OBVIOUS

(* A text written at the end, and its 0.                                   *)
LEMMA WriteCStrGrows ==
  ASSUME NEW buf, Grows(buf), NEW s \in Seq(1 .. 255)
  PROVE  LET b == WriteCStr(buf, s) IN
         /\ Wf(b) /\ b.size = buf.size + Len(s) + 1
         /\ \A k \in 0 .. Len(s) : b.data[buf.size + k] = TextByte(s, k)
         /\ \A i \in 0 .. buf.size - 1 : b.data[i] = buf.data[i]
<1> DEFINE n == buf.size
           m == Len(s) + 1
           g == NeedSpace(buf, m)
           d == [i \in DOMAIN g.data |-> IF i \in buf.pos .. buf.pos + Len(s)
                                           THEN TextByte(s, i - buf.pos) ELSE g.data[i]]
           b == WriteCStr(buf, s)
<1>1. n \in Nat /\ buf.pos = n /\ Len(s) \in Nat /\ m \in Nat /\ Wf(buf)
  BY DEF Grows, Wf
<1>2. /\ Wf(g) /\ g.size = (IF buf.pos + m > buf.size THEN buf.pos + m ELSE buf.size)
      /\ buf.pos + m <= g.size
      /\ \A i \in 0 .. buf.size - 1 : g.data[i] = buf.data[i]
  BY <1>1, NeedSpaceWf
<1>3. b = [g EXCEPT !.data = d, !.pos = g.pos + Len(s) + 1]
  BY DEF WriteCStr
<1> HIDE DEF g
<1>4. b.data = d /\ b.size = g.size
  BY <1>2, <1>3 DEF Wf
<1> HIDE DEF b
<1>5. DOMAIN g.data = 0 .. g.capacity - 1 /\ g.capacity \in Nat /\ n + m <= g.capacity
  BY <1>1, <1>2 DEF Wf
<1>6. \A k \in 0 .. Len(s) : d[n + k] = TextByte(s, k)
  <2> SUFFICES ASSUME NEW k \in 0 .. Len(s) PROVE d[n + k] = TextByte(s, k)
    OBVIOUS
  <2>1. n + k \in DOMAIN g.data /\ n + k \in n .. n + Len(s) /\ (n + k) - n = k
    BY <1>1, <1>5
  <2> QED
    BY <1>1, <2>1
<1>7. \A i \in 0 .. n - 1 : d[i] = g.data[i]
  BY <1>1, <1>5
<1>a. \A k \in 0 .. Len(s) : TextByte(s, k) \in Octet
  <2> SUFFICES ASSUME NEW k \in 0 .. Len(s) PROVE TextByte(s, k) \in Octet
    OBVIOUS
  <2>1. CASE k < Len(s)
    <3>1. k + 1 \in 1 .. Len(s)
      BY <1>1, <2>1
    <3>2. s[k + 1] \in 1 .. 255
      BY <3>1, InSequence, Zenon
    <3>3. \A x \in 1 .. 255 : x \in Octet
      BY DEF Octet
    <3>4. TextByte(s, k) = s[k + 1]
      BY <2>1 DEF TextByte
    <3> QED
      BY <3>2, <3>3, <3>4, Zenon
  <2>2. CASE ~ k < Len(s)
    BY <2>2 DEF TextByte, Octet
  <2> QED
    BY <2>1, <2>2
<1>b. d \in [0 .. g.capacity - 1 -> Octet]
  <2> SUFFICES ASSUME NEW i \in 0 .. g.capacity - 1
               PROVE  (IF i \in buf.pos .. buf.pos + Len(s)
                         THEN TextByte(s, i - buf.pos) ELSE g.data[i]) \in Octet
    BY <1>5
  <2>1. g.data[i] \in Octet
    BY <1>2 DEF Wf
  <2>2. i \in buf.pos .. buf.pos + Len(s) => i - buf.pos \in 0 .. Len(s)
    BY <1>1, <1>5
  <2> QED
    BY <1>a, <2>1, <2>2
<1>c. d \in Bytes
  BY <1>5, <1>b DEF Bytes
<1> HIDE DEF d
<1>d. Wf(b)
  <2> DEFINE p == g.pos + Len(s) + 1
             h == [g EXCEPT !.data = d, !.pos = p]
  <2>a. /\ g \in [ pos : Nat, size : Nat, capacity : Nat, data : Bytes ]
        /\ buf.pos \in Nat /\ g.size \in Nat /\ Len(s) \in Nat
    BY <1>1, <1>2, Zenon DEF Wf
  <2>b. g.pos = buf.pos
    BY <1>3, <1>1, NeedSpaceWf DEF g
  <2>1. p \in Nat /\ p <= g.size /\ g \in [ pos : Nat, size : Nat, capacity : Nat, data : Bytes ]
    BY <1>2, <2>a, <2>b
  <2> HIDE DEF p
  <2>2. /\ h \in [ pos : Nat, size : Nat, capacity : Nat, data : Bytes ]
        /\ h.pos = p /\ h.size = g.size /\ h.capacity = g.capacity /\ h.data = d
    BY <2>1, <1>c
  <2>3. h = b
    BY <1>3 DEF p
  <2> HIDE DEF h
  <2> QED
    BY <1>2, <1>b, <2>1, <2>2, <2>3 DEF Wf
<1>8. b.size = buf.size + Len(s) + 1
  <2>1. buf.pos + m > buf.size /\ buf.pos + m = buf.size + Len(s) + 1
    BY <1>1
  <2>2. g.size = buf.pos + m
    BY <1>2, <2>1, Zenon
  <2> QED
    BY <1>4, <2>1, <2>2, Zenon
<1>9. \A i \in 0 .. buf.size - 1 : b.data[i] = buf.data[i]
  BY <1>1, <1>2, <1>4, <1>7
<1> QED
  BY <1>4, <1>6, <1>8, <1>9, <1>d DEF b

-----------------------------------------------------------------------------
(* Reading                                                                 *)

LEMMA After8Wf ==
  ASSUME NEW buf, Wf(buf)
  PROVE  LET b == After8(buf) IN
         /\ Wf(b) /\ b.data = buf.data /\ b.size = buf.size /\ b.capacity = buf.capacity
         /\ b.pos = (IF buf.pos < buf.size THEN buf.pos + 1 ELSE buf.pos)
BY DEF Wf, After8, CanRead

LEMMA Read8Wf ==
  ASSUME NEW buf, Wf(buf)
  PROVE  /\ buf.pos < buf.size => /\ buf.data[buf.pos] \in Octet
                                  /\ Read8(buf) = Signed(buf.data[buf.pos])
         /\ ~ (buf.pos < buf.size) => Read8(buf) = -1
         /\ Read8(buf) \in -128 .. 127
<1>1. buf.pos \in Nat /\ buf.size \in Nat /\ buf.capacity \in Nat /\ buf.size <= buf.capacity
  BY DEF Wf
<1>2. CASE buf.pos < buf.size
  <2>1. buf.data[buf.pos] \in Octet
    BY <1>1, <1>2 DEF Wf
  <2>2. Read8(buf) = Signed(buf.data[buf.pos])
    BY <1>1, <1>2 DEF Read8, CanRead
  <2> QED
    BY <1>2, <2>1, <2>2, SignedType
<1>3. CASE ~ (buf.pos < buf.size)
  BY <1>1, <1>3 DEF Read8, CanRead
<1> QED
  BY <1>2, <1>3

(* Four bytes further on, or at the end.                                   *)
LEMMA After32Wf ==
  ASSUME NEW buf, Wf(buf)
  PROVE  LET b == After32(buf) IN
         /\ Wf(b) /\ b.data = buf.data /\ b.size = buf.size /\ b.capacity = buf.capacity
         /\ buf.pos + 4 <= buf.size => b.pos = buf.pos + 4
<1> DEFINE b1 == After8(buf)
           b2 == After8(b1)
           b3 == After8(b2)
           b4 == After8(b3)
<1>0. buf.pos \in Nat /\ buf.size \in Nat
  BY DEF Wf
<1>1. /\ Wf(b1) /\ b1.data = buf.data /\ b1.size = buf.size /\ b1.capacity = buf.capacity
      /\ b1.pos = (IF buf.pos < buf.size THEN buf.pos + 1 ELSE buf.pos)
  BY After8Wf
<1> HIDE DEF b1
<1>2. /\ Wf(b2) /\ b2.data = b1.data /\ b2.size = b1.size /\ b2.capacity = b1.capacity
      /\ b2.pos = (IF b1.pos < b1.size THEN b1.pos + 1 ELSE b1.pos)
  BY <1>1, After8Wf
<1> HIDE DEF b2
<1>3. /\ Wf(b3) /\ b3.data = b2.data /\ b3.size = b2.size /\ b3.capacity = b2.capacity
      /\ b3.pos = (IF b2.pos < b2.size THEN b2.pos + 1 ELSE b2.pos)
  BY <1>2, After8Wf
<1> HIDE DEF b3
<1>4. /\ Wf(b4) /\ b4.data = b3.data /\ b4.size = b3.size /\ b4.capacity = b3.capacity
      /\ b4.pos = (IF b3.pos < b3.size THEN b3.pos + 1 ELSE b3.pos)
  BY <1>3, After8Wf
<1>5. After32(buf) = b4
  BY DEF After32, b3, b2, b1
<1> HIDE DEF b4
<1> QED
  BY <1>0, <1>1, <1>2, <1>3, <1>4, <1>5

(* The four reads of an int.                                               *)
LEMMA Read32Parts ==
  ASSUME NEW buf, Wf(buf)
  PROVE  LET r0 == Read8(buf)
             r1 == Read8(After8(buf))
             r2 == Read8(After8(After8(buf)))
             r3 == Read8(After8(After8(After8(buf))))
         IN /\ r0 \in -128 .. 127 /\ r1 \in -128 .. 127 /\ r2 \in -128 .. 127 /\ r3 \in -128 .. 127
            /\ Read32(buf) = (r0 % 256) + 256 * (r1 % 256) + 65536 * (r2 % 256) + 16777216 * r3
            /\ ~ (buf.pos + 4 <= buf.size) => r3 = -1
            /\ buf.pos + 4 <= buf.size =>
                 /\ r0 = Signed(buf.data[buf.pos]) /\ r1 = Signed(buf.data[buf.pos + 1])
                 /\ r2 = Signed(buf.data[buf.pos + 2]) /\ r3 = Signed(buf.data[buf.pos + 3])
<1> DEFINE b1 == After8(buf)
           b2 == After8(b1)
           b3 == After8(b2)
           r0 == Read8(buf)
           r1 == Read8(b1)
           r2 == Read8(b2)
           r3 == Read8(b3)
<1>0. buf.pos \in Nat /\ buf.size \in Nat
  BY DEF Wf
<1>1. Read32(buf) = (r0 % 256) + 256 * (r1 % 256) + 65536 * (r2 % 256) + 16777216 * r3
  BY Z3 DEF Read32
<1>2. /\ r0 \in -128 .. 127
      /\ buf.pos < buf.size => r0 = Signed(buf.data[buf.pos])
  BY Read8Wf
<1>3. /\ Wf(b1) /\ b1.data = buf.data /\ b1.size = buf.size
      /\ b1.pos = (IF buf.pos < buf.size THEN buf.pos + 1 ELSE buf.pos)
  BY After8Wf
<1> HIDE DEF b1
<1>4. /\ r1 \in -128 .. 127
      /\ b1.pos < b1.size => r1 = Signed(b1.data[b1.pos])
  BY <1>3, Read8Wf
<1>5. /\ Wf(b2) /\ b2.data = b1.data /\ b2.size = b1.size
      /\ b2.pos = (IF b1.pos < b1.size THEN b1.pos + 1 ELSE b1.pos)
  BY <1>3, After8Wf
<1> HIDE DEF b2
<1>6. /\ r2 \in -128 .. 127
      /\ b2.pos < b2.size => r2 = Signed(b2.data[b2.pos])
  BY <1>5, Read8Wf
<1>7. /\ Wf(b3) /\ b3.data = b2.data /\ b3.size = b2.size
      /\ b3.pos = (IF b2.pos < b2.size THEN b2.pos + 1 ELSE b2.pos)
  BY <1>5, After8Wf
<1> HIDE DEF b3
<1>8. /\ r3 \in -128 .. 127
      /\ b3.pos < b3.size => r3 = Signed(b3.data[b3.pos])
      /\ ~ (b3.pos < b3.size) => r3 = -1
  BY <1>7, Read8Wf
<1> HIDE DEF r0, r1, r2, r3
<1>9. ASSUME buf.pos + 4 <= buf.size
      PROVE  /\ r0 = Signed(buf.data[buf.pos]) /\ r1 = Signed(buf.data[buf.pos + 1])
             /\ r2 = Signed(buf.data[buf.pos + 2]) /\ r3 = Signed(buf.data[buf.pos + 3])
  <2>1. b1.pos = buf.pos + 1 /\ b2.pos = buf.pos + 2 /\ b3.pos = buf.pos + 3
    BY <1>0, <1>3, <1>5, <1>7, <1>9
  <2> QED
    BY <1>0, <1>2, <1>3, <1>4, <1>5, <1>6, <1>7, <1>8, <1>9, <2>1
<1>10. ASSUME ~ (buf.pos + 4 <= buf.size)
       PROVE  r3 = -1
  <2>1. buf.pos <= buf.size
    BY DEF Wf
  <2>2. ~ (b3.pos < b3.size)
    BY <1>0, <1>3, <1>5, <1>7, <1>10, <2>1
  <2> QED
    BY <1>8, <2>2
<1> QED
  BY <1>1, <1>2, <1>4, <1>6, <1>8, <1>9, <1>10, SMT DEF r0, r1, r2, r3, b3, b2, b1

(* An int is read as it was written.                                       *)
LEMMA Read32Of ==
  ASSUME NEW buf, Wf(buf), NEW v \in Int32, buf.pos + 4 <= buf.size,
         \A k \in 0 .. 3 : buf.data[buf.pos + k] = Bits(v, k)
  PROVE  Read32(buf) = v
<1>1. /\ buf.data[buf.pos] = Bits(v, 0) /\ buf.data[buf.pos + 1] = Bits(v, 1)
      /\ buf.data[buf.pos + 2] = Bits(v, 2) /\ buf.data[buf.pos + 3] = Bits(v, 3)
  <2>1. buf.pos \in Nat
    BY DEF Wf
  <2>2. buf.pos + 0 = buf.pos /\ 0 \in 0 .. 3 /\ 1 \in 0 .. 3 /\ 2 \in 0 .. 3 /\ 3 \in 0 .. 3
    BY <2>1
  <2> QED
    BY <2>2, Zenon
<1>2. v \in Int
  BY DEF Int32
<1>3. \A k \in 0 .. 3 : Bits(v, k) \in Octet /\ Bits(v, k) \in Int /\ Signed(Bits(v, k)) % 256 = Bits(v, k)
  BY <1>2, BitsOctet, SignedMod
<1>4. /\ Bits(v, 0) \in Int /\ Signed(Bits(v, 0)) % 256 = Bits(v, 0)
      /\ Bits(v, 1) \in Int /\ Signed(Bits(v, 1)) % 256 = Bits(v, 1)
      /\ Bits(v, 2) \in Int /\ Signed(Bits(v, 2)) % 256 = Bits(v, 2)
      /\ Bits(v, 3) \in Octet
  <2>1. 0 \in 0 .. 3 /\ 1 \in 0 .. 3 /\ 2 \in 0 .. 3 /\ 3 \in 0 .. 3
    OBVIOUS
  <2> QED
    BY <1>3, <2>1, Zenon
<1> DEFINE r0 == Read8(buf)
           r1 == Read8(After8(buf))
           r2 == Read8(After8(After8(buf)))
           r3 == Read8(After8(After8(After8(buf))))
<1>5. /\ r0 \in Int /\ r1 \in Int /\ r2 \in Int /\ r3 \in Int
      /\ Read32(buf) = (r0 % 256) + 256 * (r1 % 256) + 65536 * (r2 % 256) + 16777216 * r3
      /\ r0 = Signed(buf.data[buf.pos]) /\ r1 = Signed(buf.data[buf.pos + 1])
      /\ r2 = Signed(buf.data[buf.pos + 2]) /\ r3 = Signed(buf.data[buf.pos + 3])
  BY Read32Parts, SMT
<1> HIDE DEF r0, r1, r2, r3
<1>6. Read32(buf) = Bits(v, 0) + 256 * Bits(v, 1) + 65536 * Bits(v, 2) + 16777216 * Signed(Bits(v, 3))
  BY <1>1, <1>4, <1>5, SMT
<1> QED
  BY <1>6, BitsValue, SMT

(* An int cut short, be it by one byte, is negative.                       *)
LEMMA Read32Short ==
  ASSUME NEW buf, Wf(buf)
  PROVE  /\ Read32(buf) \in Int
         /\ ~ (buf.pos + 4 <= buf.size) => Read32(buf) < 0
<1> DEFINE r0 == Read8(buf)
           r1 == Read8(After8(buf))
           r2 == Read8(After8(After8(buf)))
           r3 == Read8(After8(After8(After8(buf))))
<1>1. /\ r0 \in Int /\ r1 \in Int /\ r2 \in Int /\ r3 \in Int
      /\ Read32(buf) = (r0 % 256) + 256 * (r1 % 256) + 65536 * (r2 % 256) + 16777216 * r3
      /\ ~ (buf.pos + 4 <= buf.size) => r3 = -1
  BY Read32Parts, SMT
<1> HIDE DEF r0, r1, r2, r3
<1>3. /\ r0 % 256 \in Int /\ r0 % 256 <= 255 /\ r1 % 256 \in Int /\ r1 % 256 <= 255
      /\ r2 % 256 \in Int /\ r2 % 256 <= 255 /\ r3 \in Int
  BY <1>1, Z3
<1> QED
  BY <1>1, <1>3, SMT

(* The text at the position is the one written there.                      *)
LEMMA TextOf ==
  ASSUME NEW buf, Wf(buf), NEW s \in Seq(1 .. 255), buf.pos + Len(s) < buf.size,
         \A k \in 0 .. Len(s) : buf.data[buf.pos + k] = TextByte(s, k)
  PROVE  Text(buf) = s
<1> DEFINE P(n) == /\ n < buf.capacity - buf.pos => buf.data[buf.pos + n] = 0
                   /\ \A m \in 0 .. n - 1 : buf.data[buf.pos + m] # 0
           N == 0 .. buf.capacity - buf.pos
<1>1. /\ buf.pos \in Nat /\ buf.size \in Nat /\ buf.capacity \in Nat /\ Len(s) \in Nat
      /\ buf.size <= buf.capacity
  BY DEF Wf
<1>2. \A m \in 0 .. Len(s) - 1 : buf.data[buf.pos + m] = s[m + 1] /\ s[m + 1] # 0
  <2> SUFFICES ASSUME NEW m \in 0 .. Len(s) - 1
               PROVE  buf.data[buf.pos + m] = s[m + 1] /\ s[m + 1] # 0
    OBVIOUS
  <2>1. m \in 0 .. Len(s) /\ m < Len(s) /\ m + 1 \in 1 .. Len(s)
    BY <1>1
  <2>2. buf.data[buf.pos + m] = TextByte(s, m)
    BY <2>1
  <2>3. TextByte(s, m) = s[m + 1]
    BY <2>1 DEF TextByte
  <2>4. s[m + 1] \in 1 .. 255
    BY <2>1, InSequence, Zenon
  <2>a. \A x \in 1 .. 255 : x # 0
    OBVIOUS
  <2>5. s[m + 1] # 0
    BY <2>4, <2>a, Zenon
  <2> QED
    BY <2>2, <2>3, <2>5, Zenon
<1>3. buf.data[buf.pos + Len(s)] = 0
  BY <1>1 DEF TextByte
<1>4. Len(s) \in N /\ P(Len(s))
  <2>1. Len(s) \in N
    BY <1>1
  <2>2. \A m \in 0 .. Len(s) - 1 : buf.data[buf.pos + m] # 0
    BY <1>2
  <2> QED
    BY <1>3, <2>1, <2>2
<1>5. ASSUME NEW n \in N, P(n) PROVE n = Len(s)
  <2>1. CASE n < Len(s)
    <3>1. buf.data[buf.pos + n] = 0 /\ n \in 0 .. Len(s) - 1
      BY <1>1, <1>5, <2>1
    <3> QED
      BY <1>2, <3>1
  <2>2. CASE n > Len(s)
    <3>1. Len(s) \in 0 .. n - 1
      BY <1>1, <1>5, <2>2
    <3> QED
      BY <1>3, <1>5, <3>1
  <2> QED
    BY <1>1, <1>5, <2>1, <2>2
<1>6. TextLength(buf) = CHOOSE n \in N : P(n)
  BY DEF TextLength
<1> HIDE DEF P, N
<1>7. TextLength(buf) = Len(s)
  BY <1>4, <1>5, <1>6
<1>8. Text(buf) = [i \in 1 .. Len(s) |-> buf.data[buf.pos + i - 1]]
  BY <1>7 DEF Text
<1>9. \A i \in 1 .. Len(s) : buf.data[buf.pos + i - 1] = s[i]
  <2> SUFFICES ASSUME NEW i \in 1 .. Len(s) PROVE buf.data[buf.pos + i - 1] = s[i]
    OBVIOUS
  <2>1. i - 1 \in 0 .. Len(s) - 1 /\ (i - 1) + 1 = i /\ buf.pos + (i - 1) = buf.pos + i - 1
    BY <1>1
  <2> QED
    BY <1>2, <2>1
<1>10. s = [i \in 1 .. Len(s) |-> s[i]]
  OBVIOUS
<1> QED
  BY <1>8, <1>9, <1>10

-----------------------------------------------------------------------------
(* The form of packets                                                     *)

IsVector(m) ==
  /\ m.cmd = CmdDv /\ m.id \in Ids
  /\ m.size \in 0 .. MaxNodes /\ m.dist \in [0 .. m.size - 1 -> Dists]

IsMessage(m) ==
  /\ m \in [ cmd : {CmdChat, CmdConfirm}, to : Ids, from : Ids, ttl : Int, seq : Seqs,
             text : Texts \cup {<<>>} ]
  /\ m.cmd = CmdChat => m.text \in Texts

IsOrder(m) == \E text \in Texts : m = Order(text)

IsPacket(m) == IsVector(m) \/ IsMessage(m) \/ IsOrder(m)

LEMMA SmallInt32 ==
  ASSUME NEW v \in Int, -1 <= v, v <= MaxInt32
  PROVE  v \in Int32
BY SMT DEF Int32, MaxInt32

LEMMA Inputs ==
  /\ MaxPacket \in Nat /\ MaxPacket >= 8 /\ MaxPacket = 8 * (MaxPacket \div 8)
  /\ MaxPacket \div 8 \in Nat
  /\ \A id \in Ids : id \in Int /\ id \in Octet /\ id \in Int32 /\ Signed(id) = id /\ id % 256 = id
  /\ \A t \in Texts : t \in Seq(1 .. 255) /\ Len(t) \in Nat /\ Len(t) + 9 <= MaxPacket
<1>1. MaxPacket \in Nat \ {0} /\ MaxPacket % 8 = 0
  BY PacketsAssumption
<1>2. MaxPacket >= 8 /\ MaxPacket = 8 * (MaxPacket \div 8) /\ MaxPacket \div 8 \in Nat
  BY <1>1, Z3
<1>3. ASSUME NEW id \in Ids
      PROVE  id \in Int /\ id \in Octet /\ id \in Int32 /\ Signed(id) = id /\ id % 256 = id
  <2>1. id \in Int /\ 0 <= id /\ id <= 127
    <3>1. Ids \subseteq 0 .. 127
      BY PacketsAssumption
    <3> QED
      BY <3>1
  <2>2. id \in Int32
    BY <2>1, SmallInt32, SMT DEF MaxInt32
  <2>3. id % 256 = id
    BY <2>1, Z3
  <2> QED
    BY <2>1, <2>2, <2>3 DEF Octet, Signed
<1>4. ASSUME NEW t \in Texts
      PROVE  t \in Seq(1 .. 255) /\ Len(t) \in Nat /\ Len(t) + 9 <= MaxPacket
  <2>1. Texts \subseteq Seq(1 .. 255) /\ \A u \in Texts : Len(u) + 9 <= MaxPacket
    BY PacketsAssumption, Zenon
  <2>2. t \in Seq(1 .. 255)
    BY <2>1
  <2> QED
    BY <2>1, <2>2
<1> QED
  BY <1>1, <1>2, <1>3, <1>4

(* Only vectors can be longer than a packet.                               *)
LEMMA SizeFits ==
  ASSUME NEW m
  PROVE  /\ IsVector(m) => Size(m) = 9 + 8 * m.size /\ m.size \in Nat /\ Size(m) \in Nat
         /\ IsMessage(m) => /\ Size(m) \in Nat /\ 8 <= Size(m) /\ Size(m) <= MaxPacket
                            /\ m.cmd = CmdChat => Size(m) = 9 + Len(m.text)
                            /\ m.cmd = CmdConfirm => Size(m) = 8
         /\ IsOrder(m) => /\ Size(m) \in Nat /\ Size(m) <= MaxPacket
                          /\ Size(m) = 2 + Len(m.text) /\ m.text \in Texts
<1>1. ASSUME IsVector(m)
      PROVE  Size(m) = 9 + 8 * m.size /\ m.size \in Nat /\ Size(m) \in Nat
  <2>1. m.size \in Nat
    BY <1>1, PacketsAssumption DEF IsVector
  <2>2. Size(m) = 9 + 8 * m.size
    BY <1>1 DEF IsVector, Size, CmdDv
  <2> QED
    BY <2>1, <2>2
<1>2. ASSUME IsMessage(m)
      PROVE  /\ Size(m) \in Nat /\ 8 <= Size(m) /\ Size(m) <= MaxPacket
             /\ m.cmd = CmdChat => Size(m) = 9 + Len(m.text)
             /\ m.cmd = CmdConfirm => Size(m) = 8
  <2>1. m.cmd \in {CmdChat, CmdConfirm}
    BY <1>2 DEF IsMessage
  <2>2. CASE m.cmd = CmdChat
    <3>1. m.text \in Texts
      BY <1>2, <2>2 DEF IsMessage
    <3>2. Size(m) = 9 + Len(m.text)
      BY <2>2 DEF Size, CmdDv, CmdChat
    <3> QED
      BY <2>2, <3>1, <3>2, Inputs DEF CmdChat, CmdConfirm
  <2>3. CASE m.cmd = CmdConfirm
    <3>1. Size(m) = 8
      BY <2>3 DEF Size, CmdDv, CmdChat, CmdConfirm
    <3> QED
      BY <2>3, <3>1, Inputs DEF CmdChat, CmdConfirm
  <2> QED
    BY <2>1, <2>2, <2>3
<1>3. ASSUME IsOrder(m)
      PROVE  /\ Size(m) \in Nat /\ Size(m) <= MaxPacket
             /\ Size(m) = 2 + Len(m.text) /\ m.text \in Texts
  <2>1. m.cmd = CmdOrder /\ m.text \in Texts
    BY <1>3 DEF IsOrder, Order
  <2>2. Size(m) = 2 + Len(m.text)
    BY <2>1 DEF Size, CmdOrder, CmdDv, CmdChat, CmdConfirm
  <2> QED
    BY <2>1, <2>2, Inputs
<1> QED
  BY <1>1, <1>2, <1>3

LEMMA EndMark == \A k \in 0 .. 3 : Bits(-1, k) = 255
<1>1. ASSUME NEW v \in Int, v + 1 = 0
      PROVE  /\ v % 256 = 255 /\ (v \div 256) % 256 = 255 /\ (v \div 65536) % 256 = 255
             /\ (v \div 16777216) % 256 = 255
  BY <1>1, Z3
<1>2. ASSUME NEW v \in Int, v + 1 = 0, NEW k \in 0 .. 3
      PROVE  Bits(v, k) = 255
  BY <1>1, <1>2, SMT DEF Bits
<1>3. -1 \in Int /\ -1 + 1 = 0
  OBVIOUS
<1> QED
  BY <1>2, <1>3

(* The bytes of a vector: its head, each of its entries, its end.          *)
LEMMA VectorForm ==
  ASSUME NEW m, IsVector(m)
  PROVE  /\ PacketByte(m, 0) = CmdDv
         /\ \A k \in 0 .. 3 : PacketByte(m, 1 + k) = Bits(m.id, k)
         /\ \A node \in 0 .. m.size - 1, k \in 0 .. 3 :
              /\ PacketByte(m, 5 + 8 * node + k) = Bits(node, k)
              /\ PacketByte(m, 9 + 8 * node + k) = Bits(m.dist[node], k)
         /\ \A k \in 0 .. 3 : PacketByte(m, 5 + 8 * m.size + k) = Bits(-1, k)
<1>1. m.size \in Nat /\ \A i : PacketByte(m, i) = VectorByte(m, i)
  BY PacketsAssumption DEF IsVector, PacketByte
<1>2. VectorByte(m, 0) = CmdDv
  BY DEF VectorByte
<1>3. ASSUME NEW k \in 0 .. 3 PROVE VectorByte(m, 1 + k) = Bits(m.id, k)
  <2>1. 1 + k # 0 /\ 1 + k < 5 /\ (1 + k) - 1 = k
    OBVIOUS
  <2> QED
    BY <2>1 DEF VectorByte
<1>4. \A i \in Nat : VectorByte(m, 5 + i) = EntryByte(m, i)
  <2> SUFFICES ASSUME NEW i \in Nat PROVE VectorByte(m, 5 + i) = EntryByte(m, i)
    OBVIOUS
  <2>1. 5 + i # 0 /\ ~ (5 + i < 5) /\ (5 + i) - 5 = i
    OBVIOUS
  <2> QED
    BY <2>1 DEF VectorByte
<1>5. ASSUME NEW node \in 0 .. m.size - 1, NEW k \in 0 .. 3
      PROVE  /\ VectorByte(m, 5 + 8 * node + k) = Bits(node, k)
             /\ VectorByte(m, 9 + 8 * node + k) = Bits(m.dist[node], k)
  <2>1. node \in Nat /\ node < m.size /\ k \in Nat /\ k < 4
    BY <1>1
  <2>2. /\ (8 * node + k) \div 8 = node /\ (8 * node + k) % 8 = k
        /\ (8 * node + (4 + k)) \div 8 = node /\ (8 * node + (4 + k)) % 8 = 4 + k
    BY <2>1, Z3
  <2>3. ~ (node >= m.size) /\ ~ (4 + k < 4) /\ (4 + k) - 4 = k
    BY <1>1, <2>1
  <2>4. EntryByte(m, 8 * node + k) = Bits(node, k)
    BY <2>1, <2>2, <2>3 DEF EntryByte
  <2>5. EntryByte(m, 8 * node + (4 + k)) = Bits(m.dist[node], k)
    BY <2>2, <2>3 DEF EntryByte
  <2>6. /\ 5 + 8 * node + k = 5 + (8 * node + k) /\ 9 + 8 * node + k = 5 + (8 * node + (4 + k))
        /\ 8 * node + k \in Nat /\ 8 * node + (4 + k) \in Nat
    BY <2>1
  <2> QED
    BY <1>4, <2>4, <2>5, <2>6
<1>6. ASSUME NEW k \in 0 .. 3 PROVE VectorByte(m, 5 + 8 * m.size + k) = Bits(-1, k)
  <2>1. (8 * m.size + k) \div 8 = m.size
    BY <1>1, Z3
  <2>2. EntryByte(m, 8 * m.size + k) = 255
    BY <1>1, <2>1 DEF EntryByte
  <2>3. Bits(-1, k) = 255
    BY EndMark
  <2>4. 5 + 8 * m.size + k = 5 + (8 * m.size + k) /\ 8 * m.size + k \in Nat
    BY <1>1
  <2> QED
    BY <1>4, <2>2, <2>3, <2>4
<1> QED
  BY <1>1, <1>2, <1>3, <1>5, <1>6

(* The bytes of a message.                                                 *)
LEMMA MessageForm ==
  ASSUME NEW m, IsMessage(m)
  PROVE  /\ PacketByte(m, 0) = m.cmd /\ PacketByte(m, 1) = m.to /\ PacketByte(m, 2) = m.from
         /\ PacketByte(m, 3) = m.ttl % 256
         /\ \A k \in 0 .. 3 : PacketByte(m, 4 + k) = Bits(m.seq, k)
         /\ \A k \in Nat : PacketByte(m, 8 + k) = TextByte(m.text, k)
<1>1. m.cmd # CmdDv /\ m.cmd # CmdOrder
  BY DEF IsMessage, CmdDv, CmdOrder, CmdChat, CmdConfirm
<1>2. \A i : PacketByte(m, i) = MessageByte(m, i)
  BY <1>1 DEF PacketByte
<1>3. /\ MessageByte(m, 0) = m.cmd /\ MessageByte(m, 1) = m.to /\ MessageByte(m, 2) = m.from
      /\ MessageByte(m, 3) = m.ttl % 256
  BY DEF MessageByte
<1>4. ASSUME NEW k \in 0 .. 3 PROVE MessageByte(m, 4 + k) = Bits(m.seq, k)
  <2>1. ~ (4 + k < 4) /\ 4 + k < 8 /\ (4 + k) - 4 = k
    OBVIOUS
  <2> QED
    BY <2>1 DEF MessageByte
<1>5. ASSUME NEW k \in Nat PROVE MessageByte(m, 8 + k) = TextByte(m.text, k)
  <2>1. ~ (8 + k < 4) /\ ~ (8 + k < 8) /\ (8 + k) - 8 = k
    OBVIOUS
  <2> QED
    BY <2>1 DEF MessageByte
<1> QED
  BY <1>2, <1>3, <1>4, <1>5

LEMMA OrderForm ==
  ASSUME NEW text \in Texts
  PROVE  /\ PacketByte(Order(text), 0) = CmdOrder
         /\ \A k \in Nat : PacketByte(Order(text), 1 + k) = TextByte(text, k)
<1> DEFINE m == Order(text)
<1>1. m.cmd = CmdOrder /\ m.text = text
  BY DEF Order
<1> HIDE DEF m
<1>2. \A i : PacketByte(m, i) = OrderByte(m, i)
  BY <1>1 DEF PacketByte, CmdDv, CmdOrder
<1>3. OrderByte(m, 0) = CmdOrder
  BY DEF OrderByte
<1>4. ASSUME NEW k \in Nat PROVE OrderByte(m, 1 + k) = TextByte(text, k)
  <2>1. 1 + k # 0 /\ (1 + k) - 1 = k
    OBVIOUS
  <2> QED
    BY <1>1, <2>1 DEF OrderByte
<1> QED
  BY <1>2, <1>3, <1>4 DEF m

-----------------------------------------------------------------------------
(* Datagrams                                                               *)

IsDatagram(d) == d.size \in Nat /\ d.data \in [0 .. d.size - 1 -> Octet]

LEMMA DatagramOf ==
  ASSUME NEW buf, Wf(buf)
  PROVE  /\ IsDatagram(Datagram(buf)) /\ Datagram(buf).size = buf.size
         /\ \A i \in 0 .. buf.size - 1 : Datagram(buf).data[i] = buf.data[i]
<1>1. buf.size \in Nat /\ \A i \in 0 .. buf.size - 1 : buf.data[i] \in Octet
  BY DEF Wf
<1> QED
  BY <1>1 DEF Datagram, IsDatagram

LEMMA RewindWf ==
  ASSUME NEW buf, Wf(buf)
  PROVE  /\ Wf(Rewind(buf)) /\ Rewind(buf).pos = 0 /\ Rewind(buf).size = buf.size
         /\ Rewind(buf).capacity = buf.capacity /\ Rewind(buf).data = buf.data
BY DEF Wf, Rewind

(* A datagram received, as far as the buffer has room for it.              *)
LEMMA NetRecvWf ==
  ASSUME NEW buf, Wf(buf), NEW d, IsDatagram(d)
  PROVE  LET b == NetRecv(buf, d) IN
         /\ Wf(b) /\ b.pos = 0 /\ b.size = Cut(d.size)
         /\ \A i \in 0 .. Cut(d.size) - 1 : b.data[i] = d.data[i]
<1> DEFINE len  == Cut(d.size)
           room == Resize(buf, MaxPacket)
           f == [i \in DOMAIN room.data |-> IF i < len THEN d.data[i] ELSE room.data[i]]
           g == [room EXCEPT !.data = f]
           r == Rewind(g)
           c == Resize(r, len)
           b == Rewind(c)
<1>0. MaxPacket \in Nat /\ d.size \in Nat /\ len \in Nat /\ len <= MaxPacket /\ len <= d.size
  BY Inputs DEF IsDatagram, Cut
<1>1. Wf(room) /\ MaxPacket <= room.capacity
  BY <1>0, ResizeWf
<1>2. NetRecv(buf, d) = b
  BY DEF NetRecv, Cut
<1> HIDE DEF room
<1>3. /\ DOMAIN room.data = 0 .. room.capacity - 1 /\ room.capacity \in Nat
      /\ \A i \in 0 .. room.capacity - 1 : room.data[i] \in Octet
  BY <1>1 DEF Wf
<1>4. \A i \in 0 .. len - 1 : d.data[i] \in Octet /\ i \in 0 .. room.capacity - 1 /\ i < len
  <2> SUFFICES ASSUME NEW i \in 0 .. len - 1
               PROVE  d.data[i] \in Octet /\ i \in 0 .. room.capacity - 1 /\ i < len
    OBVIOUS
  <2>1. i \in 0 .. d.size - 1 /\ i \in 0 .. room.capacity - 1 /\ i < len
    <3> HIDE DEF len
    <3> QED
      BY <1>0, <1>1, <1>3
  <2>2. d.data[i] \in Octet
    BY <2>1 DEF IsDatagram
  <2> QED
    BY <2>1, <2>2
<1>5. f \in [0 .. room.capacity - 1 -> Octet]
  <2> SUFFICES ASSUME NEW i \in 0 .. room.capacity - 1
               PROVE  (IF i < len THEN d.data[i] ELSE room.data[i]) \in Octet
    BY <1>3
  <2>1. i < len => i \in 0 .. len - 1
    BY <1>0, <1>3
  <2> QED
    BY <1>3, <1>4, <2>1
<1>6. \A i \in 0 .. len - 1 : f[i] = d.data[i]
  BY <1>3, <1>4
<1>7. f \in Bytes
  BY <1>3, <1>5 DEF Bytes
<1> HIDE DEF f
<1>8. Wf(g) /\ g.capacity = room.capacity /\ g.data = f
  BY <1>1, <1>5, <1>7 DEF Wf
<1> HIDE DEF g
<1>9. Wf(r) /\ r.pos = 0 /\ r.capacity = g.capacity /\ r.data = g.data
  BY <1>8, RewindWf
<1> HIDE DEF r
<1>10. /\ Wf(c) /\ c.size = len
       /\ \A i \in 0 .. r.capacity - 1 : c.data[i] = r.data[i]
  BY <1>0, <1>9, ResizeWf
<1> HIDE DEF c
<1>11. Wf(b) /\ b.pos = 0 /\ b.size = c.size /\ b.data = c.data
  BY <1>10, RewindWf
<1> HIDE DEF b
<1>12. \A i \in 0 .. len - 1 : b.data[i] = d.data[i]
  BY <1>4, <1>6, <1>8, <1>9, <1>10, <1>11
<1> QED
  BY <1>2, <1>10, <1>11, <1>12

-----------------------------------------------------------------------------
(* The invariant                                                           *)

PcInv == pc \in {"idle", "telling", "sent", "arrived", "hearing"}

InInv == Wf(in)

TellingInv ==
  pc = "telling" =>
    /\ IsVector(told) /\ Grows(out) /\ next \in Nat /\ next <= told.size
    /\ out.size = 5 + 8 * next /\ HasForm(out.data, out.size, told)

SentInv ==
  pc = "sent" =>
    IsPacket(told) /\ IsDatagram(wire) /\ wire.size = Size(told) /\ HasForm(wire.data, wire.size, told)

ArrivedInv ==
  pc = "arrived" =>
    /\ IsPacket(told) /\ in.size = Cut(Size(told)) /\ HasForm(in.data, in.size, told)
    /\ in.pos = 0

HearingInv ==
  pc = "hearing" =>
    /\ IsVector(told) /\ in.size = Cut(Size(told)) /\ HasForm(in.data, in.size, told)
    /\ in.pos = 5 + 8 * Len(got)
    /\ via = told.id
    /\ got \in Seq(Int \X Int) /\ Len(got) <= told.size
    /\ \A k \in 1 .. Len(got) : got[k] = <<k - 1, told.dist[k - 1]>>

IInv == PcInv /\ InInv /\ TellingInv /\ SentInv /\ ArrivedInv /\ HearingInv

LEMMA InvInit == Init => IInv
<1> SUFFICES ASSUME Init PROVE IInv
  OBVIOUS
<1>1. pc = "idle" /\ in = Create
  BY DEF Init
<1> QED
  BY <1>1, CreateWf DEF IInv, PcInv, InInv, TellingInv, SentInv, ArrivedInv, HearingInv

(* A buffer that grows has a form as far as it goes.                       *)
LEMMA FormGrows ==
  ASSUME NEW data, NEW n \in Nat, NEW more, NEW l \in Nat, NEW m,
         HasForm(data, n, m), \A i \in 0 .. n - 1 : more[i] = data[i],
         \A k \in 0 .. l - 1 : more[n + k] = PacketByte(m, n + k)
  PROVE  HasForm(more, n + l, m)
<1> SUFFICES ASSUME NEW i \in 0 .. n + l - 1 PROVE more[i] = PacketByte(m, i)
  BY DEF HasForm
<1>1. CASE i < n
  BY <1>1 DEF HasForm
<1>2. CASE ~ i < n
  <2>1. i - n \in 0 .. l - 1 /\ n + (i - n) = i
    BY <1>2
  <2> QED
    BY <2>1
<1> QED
  BY <1>1, <1>2

(* The bytes that an int takes in a form.                                  *)
LEMMA FormGrows32 ==
  ASSUME NEW data, NEW n \in Nat, NEW more, NEW v, NEW m,
         HasForm(data, n, m), \A i \in 0 .. n - 1 : more[i] = data[i],
         \A k \in 0 .. 3 : more[n + k] = Bits(v, k),
         \A k \in 0 .. 3 : PacketByte(m, n + k) = Bits(v, k)
  PROVE  HasForm(more, n + 4, m)
<1>1. \A k \in 0 .. 4 - 1 : more[n + k] = PacketByte(m, n + k)
  OBVIOUS
<1> QED
  BY <1>1, FormGrows

(* The head of a vector.                                                   *)
LEMMA VectorHead ==
  ASSUME NEW m, IsVector(m)
  PROVE  LET b == Write32(Write8(Create, CmdDv), m.id) IN
         Grows(b) /\ b.size = 5 /\ HasForm(b.data, 5, m)
<1> DEFINE b1 == Write8(Create, CmdDv)
           b2 == Write32(b1, m.id)
<1>1. Grows(Create) /\ Create.size = 0
  BY CreateWf DEF Grows, Create
<1>2. CmdDv \in Int /\ CmdDv % 256 = CmdDv
  BY Z3 DEF CmdDv
<1>3. Grows(b1) /\ b1.size = 1 /\ b1.data[0] = CmdDv
  <2>1. /\ Grows(b1) /\ b1.size = Create.size + 1 /\ b1.data[Create.size] = CmdDv % 256
        /\ \A i \in 0 .. Create.size - 1 : b1.data[i] = Create.data[i]
    <3>1. Grows(Create) /\ CmdDv \in Int
      BY <1>1, <1>2
    <3> QED
      BY <3>1, Write8Grows, Zenon
  <2> HIDE DEF b1
  <2> QED
    BY <1>1, <1>2, <2>1
<1> HIDE DEF b1
<1>4. m.id \in Int
  BY Inputs DEF IsVector
<1>5. /\ Grows(b2) /\ b2.size = b1.size + 4
      /\ \A k \in 0 .. 3 : b2.data[b1.size + k] = Bits(m.id, k)
      /\ \A i \in 0 .. b1.size - 1 : b2.data[i] = b1.data[i]
  BY <1>3, <1>4, Write32Grows
<1> HIDE DEF b2
<1>6. HasForm(b1.data, 1, m)
  BY <1>3, VectorForm DEF HasForm
<1>7. HasForm(b2.data, 1 + 4, m)
  BY <1>3, <1>5, <1>6, VectorForm, FormGrows32
<1> QED
  BY <1>3, <1>5, <1>7 DEF b2, b1

LEMMA BeginVectorStep ==
  ASSUME IInv, NEW id \in Ids, NEW n \in 0 .. MaxNodes, NEW dist \in [0 .. n - 1 -> Dists],
         BeginVector(id, n, dist)
  PROVE  IInv'
<1>1. /\ pc' = "telling" /\ in' = in /\ next' = 0 /\ told' = Vector(id, n, dist)
      /\ out' = Write32(Write8(Create, CmdDv), id)
  BY DEF BeginVector, Build
<1>2. IsVector(told') /\ told'.id = id
  BY <1>1 DEF IsVector, Vector
<1>3. Grows(out') /\ out'.size = 5 /\ HasForm(out'.data, 5, told')
  BY <1>1, <1>2, VectorHead
<1>4. 0 <= told'.size
  BY <1>2, SizeFits
<1>5. TellingInv'
  BY <1>1, <1>2, <1>3, <1>4 DEF TellingInv
<1> QED
  BY <1>1, <1>5 DEF IInv, PcInv, InInv, SentInv, ArrivedInv, HearingInv

(* A node and its distance.                                                *)
LEMMA TellOneStep ==
  ASSUME IInv, TellOne
  PROVE  IInv'
<1>1. /\ pc = "telling" /\ pc' = pc /\ in' = in /\ told' = told /\ next < told.size
      /\ out' = Write32(Write32(out, next), told.dist[next]) /\ next' = next + 1
  BY DEF TellOne, reader
<1>2. /\ IsVector(told) /\ Grows(out) /\ next \in Nat
      /\ out.size = 5 + 8 * next /\ HasForm(out.data, out.size, told)
  BY <1>1 DEF IInv, TellingInv
<1> DEFINE b1 == Write32(out, next)
           b2 == Write32(b1, told.dist[next])
<1>3. next \in 0 .. told.size - 1 /\ told.size \in Nat
  BY <1>1, <1>2, SizeFits
<1>4. told.dist[next] \in Int
  <2>1. told.dist[next] \in Dists
    BY <1>2, <1>3 DEF IsVector
  <2>2. Dists \subseteq Int32
    BY PacketsAssumption
  <2> QED
    BY <2>1, <2>2 DEF Int32
<1>5. /\ Grows(b1) /\ b1.size = out.size + 4
      /\ \A k \in 0 .. 3 : b1.data[out.size + k] = Bits(next, k)
      /\ \A i \in 0 .. out.size - 1 : b1.data[i] = out.data[i]
  <2>1. next \in Int
    BY <1>2
  <2> QED
    BY <1>2, <2>1, Write32Grows
<1>6. out' = b2
  BY <1>1
<1> HIDE DEF b1
<1>7. /\ Grows(b2) /\ b2.size = b1.size + 4
      /\ \A k \in 0 .. 3 : b2.data[b1.size + k] = Bits(told.dist[next], k)
      /\ \A i \in 0 .. b1.size - 1 : b2.data[i] = b1.data[i]
  BY <1>4, <1>5, Write32Grows
<1> HIDE DEF b2
<1>8. /\ \A k \in 0 .. 3 : PacketByte(told, 5 + 8 * next + k) = Bits(next, k)
      /\ \A k \in 0 .. 3 : PacketByte(told, 9 + 8 * next + k) = Bits(told.dist[next], k)
  BY <1>2, <1>3, VectorForm
<1>9. b1.size = 9 + 8 * next /\ b2.size = 5 + 8 * (next + 1) /\ out.size \in Nat /\ b1.size \in Nat
      /\ b1.size + 4 = b2.size
  BY <1>2, <1>5, <1>7
<1>a. /\ \A k \in 0 .. 3 : PacketByte(told, out.size + k) = Bits(next, k)
      /\ \A k \in 0 .. 3 : PacketByte(told, b1.size + k) = Bits(told.dist[next], k)
  BY <1>2, <1>8, <1>9
<1>10. HasForm(b1.data, out.size + 4, told)
  BY <1>2, <1>5, <1>a, <1>9, FormGrows32
<1>b. HasForm(b1.data, b1.size, told)
  BY <1>5, <1>10
<1>11. HasForm(b2.data, b1.size + 4, told)
  BY <1>7, <1>a, <1>9, <1>b, FormGrows32
<1>12. TellingInv'
  BY <1>1, <1>2, <1>3, <1>6, <1>7, <1>9, <1>11 DEF TellingInv
<1> QED
  BY <1>1, <1>12 DEF IInv, PcInv, InInv, SentInv, ArrivedInv, HearingInv

(* The end mark completes the form.                                        *)
LEMMA EndVectorStep ==
  ASSUME IInv, EndVector
  PROVE  IInv'
<1>1. /\ pc = "telling" /\ pc' = "sent" /\ in' = in /\ told' = told /\ next = told.size
      /\ wire' = Datagram(Write32(out, -1))
  BY DEF EndVector, reader
<1>2. /\ IsVector(told) /\ Grows(out) /\ next \in Nat
      /\ out.size = 5 + 8 * next /\ HasForm(out.data, out.size, told)
  BY <1>1 DEF IInv, TellingInv
<1> DEFINE b == Write32(out, -1)
<1>3. /\ Grows(b) /\ b.size = out.size + 4
      /\ \A k \in 0 .. 3 : b.data[out.size + k] = Bits(-1, k)
      /\ \A i \in 0 .. out.size - 1 : b.data[i] = out.data[i]
  <2>1. \A v \in Int :
          LET c == Write32(out, v) IN
          /\ Grows(c) /\ c.size = out.size + 4
          /\ \A k \in 0 .. 3 : c.data[out.size + k] = Bits(v, k)
          /\ \A i \in 0 .. out.size - 1 : c.data[i] = out.data[i]
    BY <1>2, Write32Grows
  <2>2. -1 \in Int
    OBVIOUS
  <2> QED
    BY <2>1, <2>2, Zenon
<1>a. wire' = Datagram(b)
  BY <1>1
<1> HIDE DEF b
<1>4. \A k \in 0 .. 3 : PacketByte(told, out.size + k) = Bits(-1, k)
  BY <1>1, <1>2, VectorForm
<1>5. HasForm(b.data, out.size + 4, told)
  BY <1>2, <1>3, <1>4, FormGrows32
<1>6. /\ IsDatagram(wire') /\ wire'.size = b.size
      /\ \A i \in 0 .. b.size - 1 : wire'.data[i] = b.data[i]
  BY <1>3, <1>a, DatagramOf DEF Grows
<1>7. b.size = Size(told)
  BY <1>1, <1>2, <1>3, SizeFits
<1>8. HasForm(wire'.data, wire'.size, told)
  BY <1>3, <1>5, <1>6 DEF HasForm
<1>9. SentInv'
  BY <1>1, <1>2, <1>6, <1>7, <1>8 DEF SentInv, IsPacket
<1> QED
  BY <1>1, <1>9 DEF IInv, PcInv, InInv, TellingInv, ArrivedInv, HearingInv

(* The head of a message.                                                  *)
LEMMA HeadForm ==
  ASSUME NEW m, IsMessage(m)
  PROVE  LET b == Head8(m.cmd, m.to, m.from, m.ttl, m.seq) IN
         Grows(b) /\ b.size = 8 /\ HasForm(b.data, 8, m)
<1> DEFINE b0 == Create
           b1 == Write8(b0, m.cmd)
           b2 == Write8(b1, m.to)
           b3 == Write8(b2, m.from)
           b4 == Write8(b3, m.ttl)
           b5 == Write32(b4, m.seq)
           F(b, n) == Grows(b) /\ b.size = n /\ HasForm(b.data, n, m)
<1>1. F(b0, 0)
  BY CreateWf DEF Grows, Create, HasForm
<1>2. ASSUME NEW b, NEW n \in Nat, F(b, n), NEW v \in Int, v % 256 = PacketByte(m, n)
      PROVE  F(Write8(b, v), n + 1)
  <2> DEFINE c == Write8(b, v)
  <2>1. Grows(b) /\ b.size = n /\ HasForm(b.data, n, m)
    BY <1>2
  <2>2. /\ Grows(c) /\ c.size = b.size + 1 /\ c.data[b.size] = v % 256
        /\ \A i \in 0 .. b.size - 1 : c.data[i] = b.data[i]
    <3>1. Grows(b) /\ v \in Int
      BY <2>1
    <3> QED
      BY <3>1, Write8Grows, Zenon
  <2> HIDE DEF c
  <2>3. c.data[n] = PacketByte(m, n) /\ \A i \in 0 .. n - 1 : c.data[i] = PacketByte(m, i)
    BY <1>2, <2>1, <2>2 DEF HasForm
  <2>4. HasForm(c.data, n + 1, m)
    <3> SUFFICES ASSUME NEW i \in 0 .. n + 1 - 1 PROVE c.data[i] = PacketByte(m, i)
      BY DEF HasForm
    <3>1. i = n \/ i \in 0 .. n - 1
      OBVIOUS
    <3> QED
      BY <2>3, <3>1
  <2> QED
    BY <2>1, <2>2, <2>4 DEF c
<1>3. /\ m.cmd \in Int /\ m.cmd % 256 = m.cmd /\ m.to \in Ids /\ m.from \in Ids
      /\ m.ttl \in Int /\ m.seq \in Seqs
  <2>1. m.cmd \in {CmdChat, CmdConfirm} /\ m.to \in Ids /\ m.from \in Ids /\ m.ttl \in Int /\ m.seq \in Seqs
    BY DEF IsMessage
  <2>2. m.cmd \in Octet
    BY <2>1 DEF Octet, CmdChat, CmdConfirm
  <2> QED
    BY <2>1, <2>2, OctetMod DEF Octet
<1>4. /\ m.to \in Int /\ m.to % 256 = m.to /\ m.from \in Int /\ m.from % 256 = m.from
  BY <1>3, Inputs
<1>5. m.seq \in Int
  <2>1. Seqs \subseteq Int32
    BY PacketsAssumption
  <2> QED
    BY <1>3, <2>1 DEF Int32
<1>6. /\ PacketByte(m, 0) = m.cmd /\ PacketByte(m, 1) = m.to /\ PacketByte(m, 2) = m.from
      /\ PacketByte(m, 3) = m.ttl % 256
      /\ \A k \in 0 .. 3 : PacketByte(m, 4 + k) = Bits(m.seq, k)
  BY MessageForm
<1> HIDE DEF F, b0
<1>7. F(b1, 0 + 1)
  BY <1>1, <1>2, <1>3, <1>6
<1> HIDE DEF b1
<1>8. F(b2, 1 + 1)
  <2>1. F(b1, 1)
    BY <1>7
  <2> QED
    BY <1>2, <1>4, <1>6, <2>1
<1> HIDE DEF b2
<1>9. F(b3, 2 + 1)
  <2>1. F(b2, 2)
    BY <1>8
  <2> QED
    BY <1>2, <1>4, <1>6, <2>1
<1> HIDE DEF b3
<1>10. F(b4, 3 + 1)
  <2>1. F(b3, 3)
    BY <1>9
  <2> QED
    BY <1>2, <1>3, <1>6, <2>1
<1> HIDE DEF b4
<1>11. Grows(b4) /\ b4.size = 4 /\ HasForm(b4.data, 4, m)
  BY <1>10 DEF F
<1>12. /\ Grows(b5) /\ b5.size = b4.size + 4
       /\ \A k \in 0 .. 3 : b5.data[b4.size + k] = Bits(m.seq, k)
       /\ \A i \in 0 .. b4.size - 1 : b5.data[i] = b4.data[i]
  BY <1>5, <1>11, Write32Grows
<1> HIDE DEF b5
<1>13. HasForm(b5.data, 4 + 4, m)
  BY <1>6, <1>11, <1>12, FormGrows32
<1>14. Head8(m.cmd, m.to, m.from, m.ttl, m.seq) = b5
  BY DEF Head8, b5, b4, b3, b2, b1, b0
<1> QED
  BY <1>11, <1>12, <1>13, <1>14

(* What an arrived packet is, is what its first byte says.                 *)
LEMMA KindRead ==
  ASSUME InInv, ArrivedInv, pc = "arrived"
  PROVE  /\ Read8(in) = told.cmd
         /\ told.cmd = CmdDv => IsVector(told)
         /\ told.cmd \in {CmdChat, CmdConfirm} => IsMessage(told)
         /\ told.cmd = CmdOrder => IsOrder(told)
<1>1. /\ Wf(in) /\ IsPacket(told) /\ in.size = Cut(Size(told))
      /\ HasForm(in.data, in.size, told) /\ in.pos = 0
  BY DEF InInv, ArrivedInv
<1>2. /\ IsVector(told) => told.cmd = CmdDv
      /\ IsMessage(told) => told.cmd \in {CmdChat, CmdConfirm}
      /\ IsOrder(told) => told.cmd = CmdOrder
  BY DEF IsVector, IsMessage, IsOrder, Order
<1>3. Size(told) \in Nat /\ Size(told) >= 1
  <2>1. CASE IsVector(told)
    BY <2>1, SizeFits
  <2>2. CASE IsMessage(told)
    BY <2>2, SizeFits
  <2>3. CASE IsOrder(told)
    BY <2>3, SizeFits, Inputs
  <2> QED
    BY <1>1, <2>1, <2>2, <2>3 DEF IsPacket
<1>4. in.size >= 1 /\ in.size \in Nat
  BY <1>1, <1>3, Inputs DEF Cut
<1>5. in.data[0] = PacketByte(told, 0)
  BY <1>1, <1>4 DEF HasForm
<1>6. PacketByte(told, 0) = told.cmd
  BY <1>1, VectorForm, MessageForm, OrderForm DEF IsPacket, IsVector, IsOrder, Order
<1>7. told.cmd \in Octet /\ Signed(told.cmd) = told.cmd
  BY <1>1, <1>2 DEF IsPacket, Octet, Signed, CmdDv, CmdChat, CmdConfirm, CmdOrder
<1>8. Read8(in) = told.cmd
  <2>1. in.pos < in.size => Read8(in) = Signed(in.data[in.pos])
    BY <1>1, Read8Wf
  <2> QED
    BY <1>1, <1>4, <1>5, <1>6, <1>7, <2>1
<1>9. CmdDv # CmdOrder /\ CmdDv \notin {CmdChat, CmdConfirm} /\ CmdOrder \notin {CmdChat, CmdConfirm}
  BY DEF CmdDv, CmdChat, CmdConfirm, CmdOrder
<1> QED
  BY <1>1, <1>2, <1>8, <1>9 DEF IsPacket

(* The fields of a message are read as they were written.                  *)
LEMMA FieldsRead ==
  ASSUME InInv, ArrivedInv, pc = "arrived", IsMessage(told)
  PROVE  /\ Wf(in) /\ in.pos = 0 /\ in.size = Size(told) /\ HasForm(in.data, in.size, told)
         /\ To = told.to /\ From = told.from /\ Ttl = Signed(told.ttl % 256) /\ Seqno = told.seq
         /\ Wf(Rest) /\ Rest.pos = 8 /\ Rest.size = in.size /\ Rest.data = in.data
<1> DEFINE c1 == Body
           c2 == After8(c1)
           c3 == After8(c2)
           c4 == After8(c3)
<1>1. /\ Wf(in) /\ in.pos = 0 /\ in.size = Size(told) /\ HasForm(in.data, in.size, told)
      /\ in.size \in Nat /\ 8 <= in.size
  BY SizeFits, Inputs DEF InInv, ArrivedInv, Cut
<1>2. /\ in.data[1] = told.to /\ in.data[2] = told.from /\ in.data[3] = told.ttl % 256
      /\ \A k \in 0 .. 3 : in.data[4 + k] = Bits(told.seq, k)
  <2>1. \A i \in 0 .. 7 : in.data[i] = PacketByte(told, i)
    BY <1>1 DEF HasForm
  <2>2. \A k \in 0 .. 3 : 4 + k \in 0 .. 7
    OBVIOUS
  <2> QED
    BY <2>1, <2>2, MessageForm
<1>3. told.to \in Ids /\ told.from \in Ids /\ told.ttl % 256 \in Octet /\ told.seq \in Int32
  BY ModOctet, PacketsAssumption DEF IsMessage
<1>4. Wf(c1) /\ c1.data = in.data /\ c1.size = in.size /\ c1.pos = 1
  BY <1>1, After8Wf DEF Body
<1>5. Wf(c2) /\ c2.data = in.data /\ c2.size = in.size /\ c2.pos = 2
  <2> HIDE DEF c1
  <2> QED
    BY <1>1, <1>4, After8Wf
<1>6. Wf(c3) /\ c3.data = in.data /\ c3.size = in.size /\ c3.pos = 3
  <2> HIDE DEF c2
  <2> QED
    BY <1>1, <1>5, After8Wf
<1>7. Wf(c4) /\ c4.data = in.data /\ c4.size = in.size /\ c4.pos = 4
  <2> HIDE DEF c3
  <2> QED
    BY <1>1, <1>6, After8Wf
<1>8. To = Read8(c1) /\ From = Read8(c2) /\ Ttl = Read8(c3) /\ Seqno = Read32(c4) /\ Rest = After32(c4)
  BY DEF To, From, Ttl, Seqno, Rest, AfterTtl
<1> HIDE DEF c1, c2, c3, c4
<1>9. /\ Read8(c1) = Signed(told.to) /\ Read8(c2) = Signed(told.from)
      /\ Read8(c3) = Signed(told.ttl % 256)
  BY <1>1, <1>2, <1>4, <1>5, <1>6, Read8Wf
<1>10. Read32(c4) = told.seq
  BY <1>1, <1>2, <1>3, <1>7, Read32Of
<1>11. Wf(After32(c4)) /\ After32(c4).data = c4.data /\ After32(c4).size = c4.size /\ After32(c4).pos = 8
  BY <1>1, <1>7, After32Wf
<1> QED
  BY <1>1, <1>3, <1>7, <1>8, <1>9, <1>10, <1>11, Inputs

-----------------------------------------------------------------------------
(* The packets that are built in one step                                  *)

(* A packet whose text ends it.                                            *)
LEMMA TextForm ==
  ASSUME NEW b, Grows(b), NEW text \in Texts, NEW m, HasForm(b.data, b.size, m),
         \A k \in Nat : PacketByte(m, b.size + k) = TextByte(text, k)
  PROVE  LET d == Datagram(WriteCStr(b, text)) IN
         /\ IsDatagram(d) /\ d.size = b.size + Len(text) + 1
         /\ HasForm(d.data, d.size, m)
<1> DEFINE c == WriteCStr(b, text)
           d == Datagram(c)
           l == Len(text) + 1
<1>1. text \in Seq(1 .. 255) /\ Len(text) \in Nat /\ b.size \in Nat
  BY Inputs DEF Grows, Wf
<1>2. /\ Wf(c) /\ c.size = b.size + Len(text) + 1
      /\ \A k \in 0 .. Len(text) : c.data[b.size + k] = TextByte(text, k)
      /\ \A i \in 0 .. b.size - 1 : c.data[i] = b.data[i]
  BY <1>1, WriteCStrGrows
<1> HIDE DEF c
<1>3. /\ IsDatagram(d) /\ d.size = c.size
      /\ \A i \in 0 .. c.size - 1 : d.data[i] = c.data[i]
  BY <1>2, DatagramOf
<1> HIDE DEF d
<1>4. \A k \in 0 .. l - 1 : c.data[b.size + k] = PacketByte(m, b.size + k)
  BY <1>1, <1>2
<1>5. HasForm(c.data, b.size + l, m)
  <2>1. l \in Nat
    BY <1>1
  <2> HIDE DEF l
  <2> QED
    BY <1>1, <1>2, <1>4, <2>1, FormGrows
<1>6. HasForm(d.data, d.size, m)
  <2>a. /\ Len(text) \in Nat /\ b.size \in Nat /\ c.size = b.size + Len(text) + 1
    BY <1>1, <1>2, Zenon
  <2>b. \A x, y \in Nat : x + y + 1 = x + (y + 1)
    OBVIOUS
  <2>1. c.size = b.size + l
    BY <2>a, <2>b, Zenon
  <2> HIDE DEF l
  <2> QED
    BY <1>3, <1>5, <2>1 DEF HasForm
<1> QED
  BY <1>2, <1>3, <1>6 DEF c, d

LEMMA SendChatStep ==
  ASSUME IInv, NEW to \in Ids, NEW from \in Ids, NEW ttl \in Ttls, NEW seq \in Seqs,
         NEW text \in Texts, SendChat(to, from, ttl, seq, text)
  PROVE  IInv'
<1> DEFINE m == Message(CmdChat, to, from, ttl, seq, text)
           b == Head8(CmdChat, to, from, ttl, seq)
<1>1. /\ pc' = "sent" /\ in' = in /\ told' = m
      /\ wire' = Datagram(WriteCStr(b, text))
  BY DEF SendChat, Build
<1>2. IsMessage(m) /\ m.cmd = CmdChat /\ m.text = text
  <2>1. ttl \in Int
    BY PacketsAssumption
  <2> QED
    BY <2>1 DEF IsMessage, Message
<1>3. m.to = to /\ m.from = from /\ m.ttl = ttl /\ m.seq = seq
  BY DEF Message
<1> HIDE DEF m
<1>4. Grows(b) /\ b.size = 8 /\ HasForm(b.data, 8, m)
  BY <1>2, <1>3, HeadForm
<1> HIDE DEF b
<1>5. \A k \in Nat : PacketByte(m, b.size + k) = TextByte(text, k)
  BY <1>2, <1>4, MessageForm
<1>6. /\ IsDatagram(wire') /\ wire'.size = b.size + Len(text) + 1
      /\ HasForm(wire'.data, wire'.size, m)
  BY <1>1, <1>4, <1>5, TextForm
<1>7. wire'.size = Size(m)
  BY <1>2, <1>4, <1>6, SizeFits, Inputs
<1>8. SentInv'
  BY <1>1, <1>2, <1>6, <1>7 DEF SentInv, IsPacket
<1> QED
  BY <1>1, <1>8 DEF IInv, PcInv, InInv, TellingInv, ArrivedInv, HearingInv

LEMMA SendOrderStep ==
  ASSUME IInv, NEW text \in Texts, SendOrder(text)
  PROVE  IInv'
<1> DEFINE m == Order(text)
           b == Write8(Create, CmdOrder)
<1>1. /\ pc' = "sent" /\ in' = in /\ told' = m
      /\ wire' = Datagram(WriteCStr(b, text))
  BY DEF SendOrder, Build
<1>2. IsOrder(m) /\ m.text = text
  BY DEF IsOrder, Order
<1>3. Grows(Create) /\ Create.size = 0 /\ CmdOrder \in Int /\ CmdOrder % 256 = CmdOrder
  <2>1. Grows(Create) /\ Create.size = 0
    BY CreateWf DEF Grows, Create
  <2> QED
    BY <2>1, Z3 DEF CmdOrder
<1>4. /\ Grows(b) /\ b.size = Create.size + 1 /\ b.data[Create.size] = CmdOrder % 256
      /\ \A i \in 0 .. Create.size - 1 : b.data[i] = Create.data[i]
  <2>1. Grows(Create) /\ CmdOrder \in Int
    BY <1>3
  <2> QED
    BY <2>1, Write8Grows, Zenon
<1> HIDE DEF b
<1>5. Grows(b) /\ b.size = 1 /\ b.data[0] = CmdOrder
  BY <1>3, <1>4
<1>6. /\ HasForm(b.data, b.size, m)
      /\ \A k \in Nat : PacketByte(m, b.size + k) = TextByte(text, k)
  BY <1>5, OrderForm DEF HasForm
<1> HIDE DEF m
<1>7. /\ IsDatagram(wire') /\ wire'.size = b.size + Len(text) + 1
      /\ HasForm(wire'.data, wire'.size, m)
  BY <1>1, <1>5, <1>6, TextForm
<1>8. wire'.size = Size(m)
  BY <1>2, <1>5, <1>7, SizeFits, Inputs
<1>9. SentInv'
  BY <1>1, <1>2, <1>7, <1>8 DEF SentInv, IsPacket
<1> QED
  BY <1>1, <1>9 DEF IInv, PcInv, InInv, TellingInv, ArrivedInv, HearingInv

-----------------------------------------------------------------------------
(* The steps of the receiver                                               *)

LEMMA ReceiveStep ==
  ASSUME IInv, Receive
  PROVE  IInv'
<1>1. /\ pc = "sent" /\ pc' = "arrived" /\ told' = told /\ in' = NetRecv(in, wire)
  BY DEF Receive
<1>2. /\ Wf(in) /\ IsPacket(told) /\ IsDatagram(wire) /\ wire.size = Size(told)
      /\ HasForm(wire.data, wire.size, told)
  BY <1>1 DEF IInv, InInv, SentInv
<1>3. /\ Wf(in') /\ in'.pos = 0 /\ in'.size = Cut(wire.size)
      /\ \A i \in 0 .. Cut(wire.size) - 1 : in'.data[i] = wire.data[i]
  BY <1>1, <1>2, NetRecvWf
<1>4. Cut(wire.size) \in Nat /\ wire.size \in Nat /\ Cut(wire.size) <= wire.size
  BY <1>2, Inputs DEF IsDatagram, Cut
<1>5. HasForm(in'.data, in'.size, told)
  BY <1>2, <1>3, <1>4 DEF HasForm
<1>6. in'.size = Cut(Size(told))
  BY <1>2, <1>3
<1>7. ArrivedInv' /\ InInv'
  BY <1>1, <1>2, <1>3, <1>5, <1>6 DEF ArrivedInv, InInv
<1> QED
  BY <1>1, <1>7 DEF IInv, PcInv, TellingInv, SentInv, HearingInv

(* A packet read for the last time: only the buffer is left.               *)
LEMMA DoneStep ==
  ASSUME IInv, pc' = "idle", Wf(in')
  PROVE  IInv'
BY DEF IInv, PcInv, InInv, TellingInv, SentInv, ArrivedInv, HearingInv

LEMMA HearVectorStep ==
  ASSUME IInv, HearVector
  PROVE  IInv'
<1>1. /\ pc = "arrived" /\ Read8(in) = CmdDv /\ pc' = "hearing" /\ told' = told /\ got' = <<>>
      /\ via' = Read32(After8(in)) /\ in' = After32(After8(in))
  BY DEF HearVector, Arrived
<1>2. InInv /\ ArrivedInv
  BY DEF IInv
<1>3. IsVector(told)
  BY <1>1, <1>2, KindRead
<1>4. /\ Wf(in) /\ in.size = Cut(Size(told)) /\ HasForm(in.data, in.size, told) /\ in.pos = 0
  BY <1>1, <1>2 DEF InInv, ArrivedInv
<1>5. in.size \in Nat /\ 5 <= in.size
  BY <1>3, <1>4, SizeFits, Inputs DEF Cut
<1> DEFINE b == After8(in)
<1>6. Wf(b) /\ b.data = in.data /\ b.size = in.size /\ b.pos = 1
  BY <1>4, <1>5, After8Wf
<1>7. via' = Read32(b) /\ in' = After32(b)
  BY <1>1
<1> HIDE DEF b
<1>8. \A k \in 0 .. 3 : b.data[b.pos + k] = Bits(told.id, k)
  <2>1. \A k \in 0 .. 3 : 1 + k \in 0 .. in.size - 1
    BY <1>5
  <2> QED
    BY <1>3, <1>4, <1>6, <2>1, VectorForm DEF HasForm
<1>9. told.id \in Int32
  BY <1>3, Inputs DEF IsVector
<1>10. via' = told.id
  BY <1>5, <1>6, <1>7, <1>8, <1>9, Read32Of
<1>11. Wf(in') /\ in'.data = in.data /\ in'.size = in.size /\ in'.pos = 5
  BY <1>5, <1>6, <1>7, After32Wf
<1>12. Len(got') = 0 /\ got' \in Seq(Int \X Int) /\ told.size \in Nat
  BY <1>1, <1>3, SizeFits
<1>13. HearingInv' /\ InInv'
  BY <1>1, <1>3, <1>4, <1>10, <1>11, <1>12 DEF HearingInv, InInv
<1> QED
  BY <1>1, <1>13 DEF IInv, PcInv, TellingInv, SentInv, ArrivedInv

(* Where the loop of recv_dv stands: an entry is there, whole, or the end  *)
(* mark, or less than an int.                                              *)
LEMMA EntryRead ==
  ASSUME InInv, HearingInv, pc = "hearing"
  PROVE  /\ Len(got) \in Nat /\ told.size \in Nat /\ in.pos + 8 \in Nat /\ Room \in Nat
         /\ Len(got) <= told.size /\ Len(got) <= Room
         /\ (Len(got) < told.size /\ Len(got) < Room) =>
              /\ Read32(in) = Len(got)
              /\ Read32(After32(in)) = told.dist[Len(got)]
              /\ told.dist[Len(got)] \in Int
              /\ in.pos + 8 <= in.size
         /\ ~ (Len(got) < told.size /\ Len(got) < Room) => Read32(in) < 0
<1> DEFINE l == Len(got)
           n == told.size
           b == After32(in)
<1>1. /\ Wf(in) /\ IsVector(told) /\ in.size = Cut(Size(told)) /\ HasForm(in.data, in.size, told)
      /\ in.pos = 5 + 8 * l /\ l \in Nat /\ l <= n
  BY DEF InInv, HearingInv
<1>2. n \in Nat /\ Size(told) = 9 + 8 * n
  BY <1>1, SizeFits
<1>3. Room \in Nat /\ MaxPacket = 8 * (Room + 1) /\ MaxPacket \in Nat
  <2> DEFINE q == MaxPacket \div 8
  <2>1. q \in Nat /\ MaxPacket = 8 * q /\ MaxPacket \in Nat /\ MaxPacket >= 8
    BY Inputs
  <2>2. Room = q - 1
    BY DEF Room
  <2> HIDE DEF q
  <2> QED
    BY <2>1, <2>2
<1>4. in.size = (IF 9 + 8 * n > 8 * (Room + 1) THEN 8 * (Room + 1) ELSE 9 + 8 * n)
  BY <1>1, <1>2, <1>3 DEF Cut
<1>5. in.pos <= in.size /\ in.pos \in Nat /\ in.size \in Nat
  BY <1>1 DEF Wf
<1> HIDE DEF l, n
<1>6. l <= Room
  BY <1>1, <1>2, <1>3, <1>4, <1>5
<1>7. ASSUME l < n, l < Room
      PROVE  Read32(in) = l /\ Read32(b) = told.dist[l] /\ told.dist[l] \in Int /\ in.pos + 8 <= in.size
  <2>1. in.pos + 4 <= in.size /\ in.pos + 8 <= in.size
    BY <1>1, <1>2, <1>3, <1>4, <1>7
  <2>2. l \in 0 .. told.size - 1
    BY <1>1, <1>2, <1>7 DEF n
  <2>3. \A k \in 0 .. 3 : /\ PacketByte(told, 5 + 8 * l + k) = Bits(l, k)
                          /\ PacketByte(told, 9 + 8 * l + k) = Bits(told.dist[l], k)
    BY <1>1, <2>2, VectorForm
  <2>4. \A k \in 0 .. 3 : /\ 5 + 8 * l + k \in 0 .. in.size - 1 /\ 9 + 8 * l + k \in 0 .. in.size - 1
    BY <1>1, <1>5, <2>1
  <2>5. \A k \in 0 .. 3 : /\ in.data[5 + 8 * l + k] = Bits(l, k)
                          /\ in.data[9 + 8 * l + k] = Bits(told.dist[l], k)
    BY <1>1, <2>3, <2>4 DEF HasForm
  <2>6. l \in Int32
    <3>1. n <= MaxNodes /\ MaxNodes \in Nat /\ MaxNodes <= MaxInt32 /\ MaxInt32 \in Int
      BY <1>1, PacketsAssumption, SMT DEF IsVector, MaxInt32, n
    <3>2. -1 <= l /\ l <= MaxInt32 /\ l \in Int
      BY <1>1, <1>2, <1>7, <3>1
    <3> QED
      BY <3>2, SmallInt32
  <2>7. told.dist[l] \in Int32 /\ told.dist[l] \in Int
    <3>1. told.dist[l] \in Dists
      BY <1>1, <2>2 DEF IsVector
    <3>2. Dists \subseteq Int32
      BY PacketsAssumption
    <3> QED
      BY <3>1, <3>2 DEF Int32
  <2>8. Read32(in) = l
    <3>1. \A k \in 0 .. 3 : in.data[in.pos + k] = Bits(l, k)
      BY <1>1, <2>5
    <3> QED
      BY <1>1, <2>1, <2>6, <3>1, Read32Of
  <2>9. Wf(b) /\ b.data = in.data /\ b.size = in.size /\ b.pos = in.pos + 4
    BY <1>1, <2>1, After32Wf
  <2> HIDE DEF b
  <2>10. b.pos = 9 + 8 * l /\ b.pos + 4 <= b.size
    BY <1>1, <1>5, <2>1, <2>9
  <2>11. Read32(b) = told.dist[l]
    <3>1. \A k \in 0 .. 3 : b.data[b.pos + k] = Bits(told.dist[l], k)
      BY <2>5, <2>9, <2>10
    <3> QED
      BY <2>7, <2>9, <2>10, <3>1, Read32Of
  <2> QED
    BY <2>1, <2>7, <2>8, <2>11
<1>8. ASSUME ~ (l < n /\ l < Room)
      PROVE  Read32(in) < 0
  <2>1. CASE ~ (in.pos + 4 <= in.size)
    BY <1>1, <2>1, Read32Short
  <2>2. CASE in.pos + 4 <= in.size
    <3>1. l = n
      BY <1>1, <1>2, <1>3, <1>4, <1>6, <1>8, <2>2
    <3>2. \A k \in 0 .. 3 : in.pos + k \in 0 .. in.size - 1
      BY <1>5, <2>2
    <3>3. \A k \in 0 .. 3 : PacketByte(told, in.pos + k) = Bits(-1, k)
      BY <1>1, <3>1, VectorForm DEF n
    <3>4. \A k \in 0 .. 3 : in.data[in.pos + k] = Bits(-1, k)
      BY <1>1, <3>2, <3>3 DEF HasForm
    <3>5. \A v \in Int32 : v + 1 = 0 /\ (\A k \in 0 .. 3 : in.data[in.pos + k] = Bits(v, k))
            => Read32(in) < 0
      <4> SUFFICES ASSUME NEW v \in Int32, v + 1 = 0,
                          \A k \in 0 .. 3 : in.data[in.pos + k] = Bits(v, k)
                   PROVE  Read32(in) < 0
        OBVIOUS
      <4>1. Read32(in) = v
        BY <1>1, <2>2, Read32Of
      <4> QED
        BY <4>1 DEF Int32
    <3>6. -1 \in Int32 /\ -1 + 1 = 0
      BY SMT DEF Int32, MaxInt32
    <3> QED
      BY <3>4, <3>5, <3>6, Zenon
  <2> QED
    BY <2>1, <2>2
<1> QED
  BY <1>1, <1>2, <1>3, <1>5, <1>6, <1>7, <1>8 DEF l, n, b

LEMMA HearOneStep ==
  ASSUME IInv, HearOne
  PROVE  IInv'
<1> DEFINE b == After32(in)
           l == Len(got)
<1>1. /\ pc = "hearing" /\ pc' = pc /\ told' = told /\ via' = via
      /\ Read32(in) >= 0 /\ in' = After32(b)
      /\ got' = Append(got, <<Read32(in), Read32(b)>>)
  BY DEF HearOne
<1>2. InInv /\ HearingInv
  BY DEF IInv
<1>3. /\ Wf(in) /\ IsVector(told) /\ in.size = Cut(Size(told)) /\ HasForm(in.data, in.size, told)
      /\ in.pos = 5 + 8 * l /\ via = told.id /\ got \in Seq(Int \X Int)
      /\ \A k \in 1 .. l : got[k] = <<k - 1, told.dist[k - 1]>>
  BY <1>1, <1>2 DEF InInv, HearingInv
<1>4. Read32(in) \in Int
  BY <1>3, Read32Short
<1>5. /\ l \in Nat /\ told.size \in Nat /\ l < told.size
      /\ Read32(in) = l /\ Read32(b) = told.dist[l] /\ told.dist[l] \in Int
      /\ in.pos + 8 <= in.size
  BY <1>1, <1>2, <1>4, EntryRead
<1>6. in.size \in Nat /\ in.pos \in Nat /\ in.pos + 4 <= in.size
  BY <1>3, <1>5 DEF Wf
<1>7. Wf(b) /\ b.data = in.data /\ b.size = in.size /\ b.pos = in.pos + 4
  BY <1>3, <1>6, After32Wf
<1>8. Wf(in') /\ in'.data = in.data /\ in'.size = in.size /\ in'.pos = in.pos + 8
  <2> HIDE DEF b
  <2>1. b.pos + 4 <= b.size
    BY <1>5, <1>6, <1>7
  <2> QED
    BY <1>1, <1>6, <1>7, <2>1, After32Wf
<1> DEFINE e == <<l, told.dist[l]>>
<1>9. got' = Append(got, e) /\ e \in Int \X Int
  BY <1>1, <1>5
<1> HIDE DEF e
<1>10. /\ got' \in Seq(Int \X Int) /\ Len(got') = l + 1
       /\ \A k \in 1 .. l : got'[k] = got[k]
       /\ got'[l + 1] = e
  <2> HIDE DEF l
  <2> QED
    BY <1>3, <1>9, AppendIs DEF l
<1>11. \A k \in 1 .. Len(got') : got'[k] = <<k - 1, told.dist[k - 1]>>
  <2> SUFFICES ASSUME NEW k \in 1 .. l + 1 PROVE got'[k] = <<k - 1, told.dist[k - 1]>>
    BY <1>10
  <2>1. CASE k \in 1 .. l
    BY <1>3, <1>10, <2>1
  <2>2. CASE k = l + 1
    <3>1. k - 1 = l
      BY <1>5, <2>2
    <3> QED
      BY <1>10, <2>2, <3>1 DEF e
  <2> QED
    BY <1>5, <2>1, <2>2
<1>12. in'.pos = 5 + 8 * Len(got') /\ Len(got') <= told.size
  BY <1>3, <1>5, <1>8, <1>10
<1>13. HearingInv' /\ InInv'
  BY <1>1, <1>3, <1>8, <1>10, <1>11, <1>12 DEF HearingInv, InInv
<1> QED
  BY <1>1, <1>13 DEF IInv, PcInv, TellingInv, SentInv, ArrivedInv

LEMMA EndHearingStep ==
  ASSUME IInv, EndHearing
  PROVE  IInv'
<1>1. pc' = "idle" /\ in' = After32(in) /\ Wf(in)
  BY DEF EndHearing, IInv, InInv
<1> QED
  BY <1>1, After32Wf, DoneStep

-----------------------------------------------------------------------------
(* Relays and destinations                                                 *)

(* The packet a relay sends on.                                            *)
LEMMA RelayWrites ==
  ASSUME IInv, NEW me \in Ids, Relay(me)
  PROVE  /\ IsMessage(told) /\ pc = "arrived" /\ in.size = Size(told) /\ in.size \in Nat /\ 8 <= in.size
         /\ HasForm(in.data, in.size, told)
         /\ Wf(in') /\ in'.size = in.size /\ in'.data[3] = (told.ttl - 1) % 256
         /\ \A i \in 0 .. in.size - 1 : i # 3 => in'.data[i] = in.data[i]
         /\ IsDatagram(wire') /\ wire'.size = in.size
         /\ \A i \in 0 .. in.size - 1 : wire'.data[i] = in'.data[i]
<1> DEFINE b0 == Rewind(in)
           b1 == After8(b0)
           b2 == After8(b1)
           b3 == After8(b2)
           b4 == Write8(b3, Ttl - 1)
<1>1. /\ pc = "arrived" /\ Read8(in) \in {CmdChat, CmdConfirm} /\ in' = b4 /\ wire' = Datagram(in')
  BY DEF Relay, Arrived
<1>2. InInv /\ ArrivedInv
  BY DEF IInv
<1>3. IsMessage(told)
  BY <1>1, <1>2, KindRead
<1>4. /\ Wf(in) /\ in.pos = 0 /\ in.size = Size(told) /\ HasForm(in.data, in.size, told)
      /\ Ttl = Signed(told.ttl % 256)
  BY <1>1, <1>2, <1>3, FieldsRead
<1>5. in.size \in Nat /\ 8 <= in.size
  BY <1>3, <1>4, SizeFits
<1>6. Wf(b0) /\ b0.data = in.data /\ b0.size = in.size /\ b0.pos = 0
  BY <1>4, RewindWf
<1> HIDE DEF b0
<1>7. Wf(b1) /\ b1.data = in.data /\ b1.size = in.size /\ b1.pos = 1
  BY <1>5, <1>6, After8Wf
<1> HIDE DEF b1
<1>8. Wf(b2) /\ b2.data = in.data /\ b2.size = in.size /\ b2.pos = 2
  BY <1>5, <1>7, After8Wf
<1> HIDE DEF b2
<1>9. Wf(b3) /\ b3.data = in.data /\ b3.size = in.size /\ b3.pos = 3
  BY <1>5, <1>8, After8Wf
<1> HIDE DEF b3
<1>10. told.ttl \in Int /\ Ttl \in Int /\ Ttl - 1 \in Int
  <2>1. told.ttl \in Int
    BY <1>3 DEF IsMessage
  <2>2. Ttl \in Int
    BY <1>4, <2>1, ModOctet, SignedType
  <2> QED
    BY <2>1, <2>2
<1>11. /\ Wf(b4) /\ b4.pos = b3.pos + 1
       /\ b4.size = (IF b3.pos + 1 > b3.size THEN b3.pos + 1 ELSE b3.size)
       /\ b4.data[b3.pos] = (Ttl - 1) % 256
       /\ \A i \in 0 .. b3.size - 1 : i # b3.pos => b4.data[i] = b3.data[i]
  BY <1>9, <1>10, Write8Wf
<1> HIDE DEF b4
<1>12. (Ttl - 1) % 256 = (told.ttl - 1) % 256
  <2>1. \A t \in Int : (Signed(t % 256) - 1) % 256 = (t - 1) % 256
    <3>1. ASSUME NEW t \in Int
          PROVE  (IF t % 256 < 128 THEN (t % 256) ELSE (t % 256) - 256) \in Int
                 /\ ((IF t % 256 < 128 THEN (t % 256) ELSE (t % 256) - 256) - 1) % 256 = (t - 1) % 256
      BY Z3
    <3> QED
      BY <3>1 DEF Signed
  <2> QED
    BY <1>4, <1>10, <2>1, Zenon
<1>13. /\ Wf(in') /\ in'.size = in.size /\ in'.data[3] = (told.ttl - 1) % 256
       /\ \A i \in 0 .. in.size - 1 : i # 3 => in'.data[i] = in.data[i]
  <2>1. b4.data[3] = (told.ttl - 1) % 256
    BY <1>9, <1>11, <1>12, Zenon
  <2>2. b4.size = in.size /\ \A i \in 0 .. in.size - 1 : i # 3 => b4.data[i] = in.data[i]
    BY <1>5, <1>9, <1>11
  <2> QED
    BY <1>1, <1>11, <2>1, <2>2, Zenon
<1>14. /\ IsDatagram(wire') /\ wire'.size = in'.size
       /\ \A i \in 0 .. in'.size - 1 : wire'.data[i] = in'.data[i]
  BY <1>1, <1>13, DatagramOf
<1> QED
  BY <1>1, <1>3, <1>4, <1>5, <1>13, <1>14, Zenon

LEMMA RelayStep ==
  ASSUME IInv, NEW me \in Ids, Relay(me)
  PROVE  IInv'
<1>1. pc' = "sent" /\ told' = [told EXCEPT !.ttl = told.ttl - 1]
  BY DEF Relay
<1>2. /\ IsMessage(told) /\ in.size = Size(told) /\ in.size \in Nat /\ 8 <= in.size
      /\ HasForm(in.data, in.size, told)
      /\ Wf(in') /\ in'.data[3] = (told.ttl - 1) % 256
      /\ \A i \in 0 .. in.size - 1 : i # 3 => in'.data[i] = in.data[i]
      /\ IsDatagram(wire') /\ wire'.size = in.size
      /\ \A i \in 0 .. in.size - 1 : wire'.data[i] = in'.data[i]
  BY RelayWrites
<1>3. IsMessage(told') /\ told'.ttl = told.ttl - 1 /\ told'.cmd = told.cmd /\ told'.to = told.to
      /\ told'.from = told.from /\ told'.seq = told.seq /\ told'.text = told.text
  BY <1>1, <1>2 DEF IsMessage
<1>4. Size(told') = Size(told)
  BY <1>3 DEF Size, IsMessage, CmdDv, CmdChat, CmdConfirm
<1>5. ASSUME NEW i \in 0 .. in.size - 1
      PROVE  wire'.data[i] = PacketByte(told', i)
  <2>1. CASE i = 3
    <3>1. PacketByte(told', 3) = told'.ttl % 256
      BY <1>3, MessageForm
    <3>2. wire'.data[i] = (told.ttl - 1) % 256
      BY <1>2, <2>1
    <3> QED
      BY <1>3, <2>1, <3>1, <3>2, Zenon
  <2>2. CASE i # 3
    <3>1. /\ PacketByte(told, i) = MessageByte(told, i) /\ PacketByte(told', i) = MessageByte(told', i)
      BY <1>2, <1>3 DEF PacketByte, IsMessage, CmdDv, CmdOrder, CmdChat, CmdConfirm
    <3>2. MessageByte(told', i) = MessageByte(told, i)
      BY <1>3, <2>2 DEF MessageByte
    <3>3. wire'.data[i] = PacketByte(told, i)
      BY <1>2, <2>2 DEF HasForm
    <3> QED
      BY <3>1, <3>2, <3>3
  <2> QED
    BY <2>1, <2>2
<1>6. HasForm(wire'.data, wire'.size, told')
  BY <1>2, <1>5 DEF HasForm
<1>7. SentInv' /\ InInv'
  BY <1>1, <1>2, <1>3, <1>4, <1>6 DEF SentInv, InInv, IsPacket
<1> QED
  BY <1>1, <1>7 DEF IInv, PcInv, TellingInv, ArrivedInv, HearingInv

(* What a destination has read.                                            *)
LEMMA MessageArrived ==
  ASSUME IInv, NEW cmds \in SUBSET {CmdChat, CmdConfirm}, Arrived(cmds)
  PROVE  /\ IsMessage(told) /\ told.cmd \in cmds
         /\ From = told.from /\ Seqno = told.seq /\ Wf(Rest)
         /\ told.cmd = CmdChat => Text(Rest) = told.text
<1>1. pc = "arrived" /\ Read8(in) \in cmds /\ InInv /\ ArrivedInv
  BY DEF Arrived, IInv
<1>2. IsMessage(told) /\ told.cmd \in cmds
  BY <1>1, KindRead
<1>3. /\ Wf(in) /\ in.size = Size(told) /\ HasForm(in.data, in.size, told)
      /\ From = told.from /\ Seqno = told.seq
      /\ Wf(Rest) /\ Rest.pos = 8 /\ Rest.size = in.size /\ Rest.data = in.data
  BY <1>1, <1>2, FieldsRead
<1>4. ASSUME told.cmd = CmdChat
      PROVE  Text(Rest) = told.text
  <2>1. told.text \in Seq(1 .. 255) /\ Len(told.text) \in Nat
    BY <1>2, <1>4, Inputs DEF IsMessage
  <2>2. in.size = 9 + Len(told.text)
    BY <1>2, <1>3, <1>4, SizeFits
  <2>3. \A k \in 0 .. Len(told.text) : Rest.data[Rest.pos + k] = TextByte(told.text, k)
    <3> SUFFICES ASSUME NEW k \in 0 .. Len(told.text)
                 PROVE  Rest.data[Rest.pos + k] = TextByte(told.text, k)
      OBVIOUS
    <3>a. Len(told.text) \in Nat
      BY <2>1
    <3>1. 8 + k \in 0 .. in.size - 1 /\ k \in Nat
      BY <2>2, <3>a
    <3>2. in.data[8 + k] = PacketByte(told, 8 + k)
      BY <1>3, <3>1 DEF HasForm
    <3> QED
      BY <1>2, <1>3, <3>1, <3>2, MessageForm
  <2>4. Rest.pos + Len(told.text) < Rest.size
    <3>1. Len(told.text) \in Nat
      BY <2>1
    <3> QED
      BY <1>3, <2>2, <3>1
  <2> QED
    BY <1>3, <2>1, <2>3, <2>4, TextOf
<1> QED
  BY <1>2, <1>3, <1>4

LEMMA DeliverChatStep ==
  ASSUME IInv, NEW me \in Ids, NEW ttl \in Ttls, DeliverChat(me, ttl)
  PROVE  IInv'
<1> DEFINE m == Message(CmdConfirm, From, me, ttl, Seqno, <<>>)
           b == Head8(CmdConfirm, From, me, ttl, Seqno)
<1>1. /\ pc' = "sent" /\ in' = Rest /\ told' = m /\ wire' = Datagram(b) /\ Arrived({CmdChat})
  BY DEF DeliverChat
<1>2. /\ IsMessage(told) /\ From = told.from /\ Seqno = told.seq /\ Wf(Rest)
  BY <1>1, MessageArrived
<1>3. From \in Ids /\ Seqno \in Seqs /\ ttl \in Int
  BY <1>2, PacketsAssumption DEF IsMessage
<1>4. IsMessage(m) /\ m.cmd = CmdConfirm
  BY <1>3 DEF IsMessage, Message, CmdChat, CmdConfirm
<1>5. m.to = From /\ m.from = me /\ m.ttl = ttl /\ m.seq = Seqno
  BY DEF Message
<1> HIDE DEF m
<1>6. Grows(b) /\ b.size = 8 /\ HasForm(b.data, 8, m)
  BY <1>4, <1>5, HeadForm
<1> HIDE DEF b
<1>7. /\ IsDatagram(wire') /\ wire'.size = b.size
      /\ \A i \in 0 .. b.size - 1 : wire'.data[i] = b.data[i]
  BY <1>1, <1>6, DatagramOf DEF Grows
<1>8. HasForm(wire'.data, wire'.size, m) /\ wire'.size = Size(m)
  BY <1>4, <1>6, <1>7, SizeFits DEF HasForm
<1>9. SentInv' /\ InInv'
  BY <1>1, <1>2, <1>4, <1>7, <1>8 DEF SentInv, InInv, IsPacket
<1> QED
  BY <1>1, <1>9 DEF IInv, PcInv, TellingInv, ArrivedInv, HearingInv

(* An order as it was given.                                               *)
LEMMA OrderArrived ==
  ASSUME IInv, Arrived({CmdOrder})
  PROVE  Wf(Body) /\ told = Order(Text(Body))
<1>1. pc = "arrived" /\ Read8(in) = CmdOrder /\ InInv /\ ArrivedInv
  BY DEF Arrived, IInv
<1>2. IsOrder(told)
  BY <1>1, KindRead
<1>3. PICK text \in Texts : told = Order(text)
  BY <1>2 DEF IsOrder
<1>4. told.text = text
  BY <1>3 DEF Order
<1>5. /\ text \in Seq(1 .. 255) /\ Len(text) \in Nat
  BY <1>3, Inputs
<1>6. /\ Wf(in) /\ in.size = Cut(Size(told)) /\ HasForm(in.data, in.size, told) /\ in.pos = 0
  BY <1>1 DEF InInv, ArrivedInv
<1>7. in.size = 2 + Len(text)
  BY <1>2, <1>4, <1>6, SizeFits, Inputs DEF Cut
<1>a. Len(text) \in Nat
  BY <1>5
<1>8. Wf(Body) /\ Body.pos = 1 /\ Body.size = in.size /\ Body.data = in.data
  BY <1>6, <1>7, <1>a, After8Wf DEF Body
<1>9. \A k \in 0 .. Len(text) : Body.data[Body.pos + k] = TextByte(text, k)
  <2> SUFFICES ASSUME NEW k \in 0 .. Len(text)
               PROVE  Body.data[Body.pos + k] = TextByte(text, k)
    OBVIOUS
  <2>1. 1 + k \in 0 .. in.size - 1 /\ k \in Nat
    BY <1>7, <1>a
  <2>2. in.data[1 + k] = PacketByte(told, 1 + k)
    BY <1>6, <2>1 DEF HasForm
  <2> QED
    BY <1>3, <1>8, <2>1, <2>2, OrderForm
<1>10. Body.pos + Len(text) < Body.size
  BY <1>7, <1>8, <1>a
<1>11. Text(Body) = text
  BY <1>5, <1>8, <1>9, <1>10, TextOf
<1> QED
  BY <1>3, <1>8, <1>11

LEMMA InvNext == IInv /\ [Next]_vars => IInv'
<1> SUFFICES ASSUME IInv, [Next]_vars PROVE IInv'
  OBVIOUS
<1>1. ASSUME NEW id \in Ids, NEW n \in 0 .. MaxNodes, NEW dist \in [0 .. n - 1 -> Dists],
             BeginVector(id, n, dist)
      PROVE  IInv'
  BY <1>1, BeginVectorStep
<1>2. CASE TellOne
  BY <1>2, TellOneStep
<1>3. CASE EndVector
  BY <1>3, EndVectorStep
<1>4. ASSUME NEW to \in Ids, NEW from \in Ids, NEW ttl \in Ttls, NEW seq \in Seqs,
             NEW text \in Texts, SendChat(to, from, ttl, seq, text)
      PROVE  IInv'
  BY <1>4, SendChatStep
<1>5. ASSUME NEW text \in Texts, SendOrder(text)
      PROVE  IInv'
  BY <1>5, SendOrderStep
<1>6. CASE Receive
  BY <1>6, ReceiveStep
<1>7. CASE HearVector
  BY <1>7, HearVectorStep
<1>8. CASE HearOne
  BY <1>8, HearOneStep
<1>9. CASE EndHearing
  BY <1>9, EndHearingStep
<1>10. ASSUME NEW me \in Ids, Relay(me)
       PROVE  IInv'
  BY <1>10, RelayStep
<1>11. ASSUME NEW me \in Ids, Drop(me)
       PROVE  IInv'
  <2>1. pc' = "idle" /\ in' = Rest /\ Arrived({CmdChat, CmdConfirm})
    BY <1>11 DEF Drop
  <2> QED
    BY <2>1, MessageArrived, DoneStep
<1>12. ASSUME NEW me \in Ids, NEW ttl \in Ttls, DeliverChat(me, ttl)
       PROVE  IInv'
  BY <1>12, DeliverChatStep
<1>13. ASSUME NEW me \in Ids, DeliverConfirm(me)
       PROVE  IInv'
  <2>1. pc' = "idle" /\ in' = Rest /\ Arrived({CmdConfirm})
    BY <1>13 DEF DeliverConfirm
  <2> QED
    BY <2>1, MessageArrived, DoneStep
<1>14. CASE Obey
  <2>1. pc' = "idle" /\ in' = Body /\ Arrived({CmdOrder})
    BY <1>14 DEF Obey
  <2> QED
    BY <2>1, OrderArrived, DoneStep
<1>15. CASE UNCHANGED vars
  BY <1>15 DEF vars, sender, reader, IInv, PcInv, InInv, TellingInv, SentInv, ArrivedInv, HearingInv
<1> QED
  BY <1>1, <1>2, <1>3, <1>4, <1>5, <1>6, <1>7, <1>8, <1>9, <1>10, <1>11, <1>12, <1>13, <1>14,
     <1>15 DEF Next

-----------------------------------------------------------------------------
(* The invariant of the module: the form of every packet on its way, from  *)
(* the loop that writes it to the loop that reads it.                      *)
THEOREM PacketsCorrect == Spec => []PacketsInv
<1>1. IInv => PacketsInv
  <2> SUFFICES ASSUME IInv PROVE PacketsInv
    OBVIOUS
  <2>1. pc = "telling" => Grows(out)
    BY DEF IInv, TellingInv
  <2> QED
    BY <2>1 DEF IInv, PacketsInv, TellingInv, SentInv, ArrivedInv, HearingInv, Grows
<1> QED
  BY InvInit, InvNext, <1>1, PTL DEF Spec

(* recv_dv reads the entries that were told, or those that fit.            *)
THEOREM VectorsHeardWhole == Spec => []VectorsHeard
<1>1. IInv => VectorsHeard
  <2> SUFFICES ASSUME IInv, pc = "hearing"
               PROVE  /\ via = told.id
                      /\ Len(got) <= told.size
                      /\ got = [k \in 1 .. Len(got) |-> <<k - 1, told.dist[k - 1]>>]
                      /\ Read32(in) < 0 => Len(got) = IF told.size <= Room THEN told.size ELSE Room
    BY DEF VectorsHeard
  <2>1. InInv /\ HearingInv
    BY DEF IInv
  <2>2. /\ via = told.id /\ Len(got) <= told.size /\ got \in Seq(Int \X Int)
        /\ \A k \in 1 .. Len(got) : got[k] = <<k - 1, told.dist[k - 1]>>
    BY <2>1 DEF HearingInv
  <2>3. got = [k \in 1 .. Len(got) |-> got[k]]
    BY <2>2
  <2>4. /\ Len(got) \in Nat /\ told.size \in Nat /\ Room \in Nat
        /\ Len(got) <= told.size /\ Len(got) <= Room
        /\ (Len(got) < told.size /\ Len(got) < Room) => Read32(in) = Len(got)
    BY <2>1, EntryRead
  <2>5. Read32(in) < 0 => Len(got) = IF told.size <= Room THEN told.size ELSE Room
    BY <2>4
  <2> QED
    BY <2>2, <2>3, <2>5
<1> QED
  BY InvInit, InvNext, <1>1, PTL DEF Spec

(* A destination is shown what its source wrote.                           *)
THEOREM DestinationsReadWhatWasSent == Spec => ShownAsSent
<1>1. ASSUME IInv, [Next]_vars
      PROVE  [ Obey \/ (\E me \in Ids : DeliverConfirm(me) \/ \E ttl \in Ttls : DeliverChat(me, ttl))
                 => shown' = Shown(told) ]_vars
  <2>1. ASSUME Obey PROVE shown' = Shown(told)
    <3>1. Arrived({CmdOrder}) /\ shown' = [ cmd |-> CmdOrder, text |-> Text(Body) ]
      BY <2>1 DEF Obey
    <3>2. told = Order(Text(Body))
      BY <1>1, <3>1, OrderArrived
    <3>3. told.cmd = CmdOrder /\ shown' = told
      BY <3>1, <3>2 DEF Order
    <3> QED
      BY <3>3 DEF Shown
  <2>2. ASSUME NEW me \in Ids, DeliverConfirm(me) PROVE shown' = Shown(told)
    <3>1. Arrived({CmdConfirm}) /\ shown' = [ cmd |-> CmdConfirm, from |-> From, seq |-> Seqno ]
      BY <2>2 DEF DeliverConfirm
    <3>2. told.cmd \in {CmdConfirm} /\ From = told.from /\ Seqno = told.seq
      BY <1>1, <3>1, MessageArrived
    <3> QED
      BY <3>1, <3>2 DEF Shown, CmdOrder, CmdChat, CmdConfirm
  <2>3. ASSUME NEW me \in Ids, NEW ttl \in Ttls, DeliverChat(me, ttl) PROVE shown' = Shown(told)
    <3>1. /\ Arrived({CmdChat})
          /\ shown' = [ cmd |-> CmdChat, from |-> From, seq |-> Seqno, text |-> Text(Rest) ]
      BY <2>3 DEF DeliverChat
    <3>2. told.cmd \in {CmdChat} /\ From = told.from /\ Seqno = told.seq
          /\ (told.cmd = CmdChat => Text(Rest) = told.text)
      BY <1>1, <3>1, MessageArrived
    <3> QED
      BY <3>1, <3>2 DEF Shown, CmdOrder, CmdChat
  <2> QED
    BY <2>1, <2>2, <2>3
<1> QED
  BY InvInit, InvNext, <1>1, PTL DEF Spec, ShownAsSent

(* A relay changes nothing but the time to live.                           *)
THEOREM RelaysChangeNothingElse == Spec => RelayedWhole
<1>1. ASSUME IInv, [Next]_vars
      PROVE  [ (\E me \in Ids : Relay(me)) =>
                 /\ wire'.size = in.size
                 /\ \A i \in 0 .. in.size - 1 :
                      wire'.data[i] = IF i = 3 THEN (in.data[3] - 1) % 256 ELSE in.data[i] ]_vars
  <2> SUFFICES ASSUME NEW me \in Ids, Relay(me)
               PROVE  /\ wire'.size = in.size
                      /\ \A i \in 0 .. in.size - 1 :
                           wire'.data[i] = IF i = 3 THEN (in.data[3] - 1) % 256 ELSE in.data[i]
    OBVIOUS
  <2>1. /\ IsMessage(told) /\ in.size \in Nat /\ 8 <= in.size
        /\ HasForm(in.data, in.size, told) /\ in'.data[3] = (told.ttl - 1) % 256
        /\ \A i \in 0 .. in.size - 1 : i # 3 => in'.data[i] = in.data[i]
        /\ wire'.size = in.size
        /\ \A i \in 0 .. in.size - 1 : wire'.data[i] = in'.data[i]
    BY <1>1, RelayWrites
  <2>2. in.data[3] = told.ttl % 256
    <3>1. in.data[3] = PacketByte(told, 3)
      BY <2>1 DEF HasForm
    <3> QED
      BY <2>1, <3>1, MessageForm
  <2>3. (in.data[3] - 1) % 256 = (told.ttl - 1) % 256
    <3>1. \A t \in Int : ((t % 256) - 1) % 256 = (t - 1) % 256
      BY Z3
    <3>2. told.ttl \in Int
      BY <2>1 DEF IsMessage
    <3> QED
      BY <2>2, <3>1, <3>2, Zenon
  <2>4. \A i \in 0 .. in.size - 1 : i = 3 => wire'.data[i] = (in.data[3] - 1) % 256
    BY <2>1, <2>3, Zenon
  <2> QED
    BY <2>1, <2>4, Zenon
<1> QED
  BY InvInit, InvNext, <1>1, PTL DEF Spec, RelayedWhole

=============================================================================
