----------------------------- MODULE MCPayouts -----------------------------
(***************************************************************************)
(* Instances of Payouts for TLC.  A wallet of at most 2 cents covers one   *)
(* payout of 2 or two of 1, so that two requests can compete for it.       *)
(***************************************************************************)
EXTENDS Payouts, TLC

Symmetry == Permutations(Keys) \cup Permutations(Methods) \cup Permutations(Requests)
=============================================================================
