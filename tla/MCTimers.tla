------------------------------ MODULE MCTimers ------------------------------
(***************************************************************************)
(* Small instances of Timers.                                              *)
(***************************************************************************)
EXTENDS Timers, TLC

CONSTANTS a, b, c   \* three nodes

(* A line: b has two neighbours to compare, and may be late.               *)
ThreeNodes == {a, b, c}
Line == [n \in ThreeNodes |-> IF n = b THEN {a, c} ELSE {b}]
LateMiddle == [n \in ThreeNodes |-> IF n = b THEN 2 ELSE 1]

(* The ends of the line may be exchanged; nobody types there.              *)
Ends == Permutations({a, c})

=============================================================================
