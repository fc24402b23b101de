---------------------------- MODULE MCDurability ----------------------------
(***************************************************************************)
(* An instance of Durability for TLC.                                      *)
(***************************************************************************)
EXTENDS Durability

CONSTANTS k1, k2

TwoTransfers == [k \in {k1, k2} |-> IF k = k1 THEN {1, 2} ELSE {2, 3}]
=============================================================================
