----------------------------- MODULE MCReliable -----------------------------
(* Small instances of Reliable.  A node that both types messages and is    *)
(* restarted is left to MCReliable_wake.cfg.                               *)
EXTENDS Reliable

CONSTANTS a, b, c

TwoNodes == {a, b}

ThreeNodes == {a, b, c}
=============================================================================
