--------------------------- MODULE MCStampSearch ----------------------------
(* Constants for checking StampSearch: every proof-of-work function on a   *)
(* few nonces, and one long workblock.                                     *)
EXTENDS StampSearch

MCNonceSpace == 4
MCDigests    == [0 .. MCNonceSpace - 1 -> 0 .. 2]

(* A workblock that crosses the one-, two- and three-byte round numbers,   *)
(* for a cost no nonce meets.                                              *)
LongDigests == {[n \in 0 .. 1 |-> 0]}
=============================================================================
