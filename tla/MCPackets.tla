------------------------------ MODULE MCPackets ------------------------------
(* Texts, distances and sequence numbers whose bytes are signed and not.   *)
EXTENDS Packets

MCTexts == { <<>>, <<65>>, <<200, 65>> }
MCDists == { -1, 200, 21000000 }
MCSeqs == { 0, 33000 }
MCTtls == { 0, 1, 200 }

=============================================================================
