------------------------------ MODULE MCTopUps ------------------------------
(***************************************************************************)
(* Instances of TopUps for TLC: one customer owns every key, so that its   *)
(* requests compete for one wallet.                                        *)
(***************************************************************************)
EXTENDS TopUps

CONSTANT c1
MCOwner == [k \in Keys |-> c1]
=============================================================================
