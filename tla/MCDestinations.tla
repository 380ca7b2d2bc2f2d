--------------------------- MODULE MCDestinations ---------------------------
(***************************************************************************)
(* Two neighbours, with the sizes of the program.                          *)
(***************************************************************************)
EXTENDS Destinations

PairLinks == [n \in Node |-> {1 - n}]

=============================================================================
