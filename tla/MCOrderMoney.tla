---------------------------- MODULE MCOrderMoney ----------------------------
(***************************************************************************)
(* Instances of OrderMoney for TLC.  Amounts are a few cents: a deduction  *)
(* of 50% of 2 is 1, of 0% is nothing and of 100% is everything, the three *)
(* cases cancelOrderWithRefund tells apart.                                *)
(***************************************************************************)
EXTENDS OrderMoney, TLC

\* One wallet that can pay an order of 2 in cash, or with one gift credit, and
\* that cannot pay two of them.
MCFunds == {[balance |-> 2, giftCredits |-> 1]}

Symmetry ==
    Permutations(Requests) \cup Permutations(Orders)
      \cup Permutations(Payments) \cup Permutations(PlatformWallets)
=============================================================================
