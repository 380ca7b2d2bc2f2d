------------------------------- MODULE Clock -------------------------------
(***************************************************************************)
(* The times of the program: milliseconds since the first call of          *)
(* sys_getMilli, in an int, and the sums made with them.                   *)
(***************************************************************************)
EXTENDS Integers

CONSTANT IntMax   \* the largest int

ASSUME IntAssumption == IntMax \in Nat

(* What an int holds of the integer t: signed overflow wraps where this    *)
(* program is built.                                                       *)
Wrap(t) == ((t + IntMax + 1) % (2 * (IntMax + 1))) - (IntMax + 1)

Sum(t, d) == Wrap(t + d)

=============================================================================
