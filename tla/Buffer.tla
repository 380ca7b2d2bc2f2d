------------------------------- MODULE Buffer -------------------------------
(***************************************************************************)
(* The message buffer, szb.c: bytes written and read at a position.  The   *)
(* capacity is the room of data, and what lies from size on is left over   *)
(* from earlier messages or was never written.                             *)
(***************************************************************************)
EXTENDS Integers, Sequences

CONSTANT Junk        \* what memory from realloc holds

Octet == 0 .. 255

ASSUME JunkAssumption == Junk \in Octet

MaxInt32 == 2147483647
Int32 == {v \in Int : -MaxInt32 - 1 <= v /\ v <= MaxInt32}

(* What a char, signed where this program is built, makes of eight bits.   *)
Signed(b) == IF b < 128 THEN b ELSE b - 256

(* The bits of an int from 8k on.                                          *)
Bits(v, k) == IF k = 0 THEN v % 256
              ELSE IF k = 1 THEN (v \div 256) % 256
              ELSE IF k = 2 THEN (v \div 65536) % 256
              ELSE (v \div 16777216) % 256

Create == [ pos |-> 0, size |-> 0, capacity |-> 0, data |-> [i \in 0 .. -1 |-> 0] ]

-----------------------------------------------------------------------------
(* The granularity of the capacity is left out.                            *)
SetCapacity(buf, c) ==
  [ buf EXCEPT !.capacity = c,
               !.data = [i \in 0 .. c - 1 |-> IF i < buf.capacity THEN @[i] ELSE Junk] ]

Grown(buf, n) == IF n > buf.capacity THEN SetCapacity(buf, n) ELSE buf

Resize(buf, n) == [ Grown(buf, n) EXCEPT !.size = n, !.pos = IF @ > n THEN n ELSE @ ]

\* Seeded fault: what is written ends the message.
NeedSpaceAlways(buf, n) == Resize(buf, buf.pos + n)

NeedSpace(buf, n) == IF buf.pos + n > buf.size THEN Resize(buf, buf.pos + n) ELSE buf

Rewind(buf) == [buf EXCEPT !.pos = 0]

Write8(buf, v) ==
  [ NeedSpace(buf, 1) EXCEPT !.data[buf.pos] = v % 256, !.pos = @ + 1 ]

Write32(buf, v) ==
  Write8(Write8(Write8(Write8(buf, Bits(v, 0)), Bits(v, 1)), Bits(v, 2)), Bits(v, 3))

(* A text is a sequence of bytes other than 0, which ends it.              *)
TextByte(s, i) == IF i < Len(s) THEN s[i + 1] ELSE 0

\* Seeded fault: the text without its end.
WriteTextOnly(buf, s) ==
  [ NeedSpace(buf, Len(s)) EXCEPT
      !.data = [i \in DOMAIN @ |-> IF i \in buf.pos .. buf.pos + Len(s) - 1
                                     THEN TextByte(s, i - buf.pos) ELSE @[i]],
      !.pos = @ + Len(s) ]

WriteCStr(buf, s) ==
  [ NeedSpace(buf, Len(s) + 1) EXCEPT
      !.data = [i \in DOMAIN @ |-> IF i \in buf.pos .. buf.pos + Len(s)
                                     THEN TextByte(s, i - buf.pos) ELSE @[i]],
      !.pos = @ + Len(s) + 1 ]

-----------------------------------------------------------------------------
(* ensure_read: a read past the end returns -1 and moves nothing.          *)
CanRead(buf) == buf.pos + 1 <= buf.size

\* Seeded fault: what is past the end reads as 0.
ReadZeros(buf) == IF CanRead(buf) THEN Signed(buf.data[buf.pos]) ELSE 0

Read8(buf) == IF CanRead(buf) THEN Signed(buf.data[buf.pos]) ELSE -1

After8(buf) == IF CanRead(buf) THEN [buf EXCEPT !.pos = @ + 1] ELSE buf

(* & 0xFF keeps the eight bits of a signed char; those of the last byte    *)
(* are the sign of the int.                                                *)
Read32(buf) ==
  LET second == After8(buf)
      third  == After8(second)
      fourth == After8(third)
  IN (Read8(buf) % 256) + 256 * (Read8(second) % 256) + 65536 * (Read8(third) % 256)
       + 16777216 * Read8(fourth)

After32(buf) == After8(After8(After8(After8(buf))))

(* The text at the position, as printf reads it: up to the first 0, be it  *)
(* past the end of the message (past the capacity, nothing is known).      *)
TextLength(buf) ==
  CHOOSE n \in 0 .. buf.capacity - buf.pos :
    /\ n < buf.capacity - buf.pos => buf.data[buf.pos + n] = 0
    /\ \A m \in 0 .. n - 1 : buf.data[buf.pos + m] # 0

Text(buf) == [i \in 1 .. TextLength(buf) |-> buf.data[buf.pos + i - 1]]

=============================================================================
