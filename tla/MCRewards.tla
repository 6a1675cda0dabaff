----------------------------- MODULE MCRewards -----------------------------
(***************************************************************************)
(* Instances of Rewards for TLC.  Customer c1 has an account and a code;   *)
(* c2 signs up and pays twice, once below and once at the minimum that one *)
(* of the two settings asks for.                                           *)
(***************************************************************************)
EXTENDS Rewards

CONSTANTS c1, c2, p1, p2

MCPayer == [p \in Payments |-> c2]
MCAmount == [p \in Payments |-> IF p = p1 THEN 1 ELSE 2]

\* The program with a reward for both customers, and the program stopped, when
\* a new referral is promised less and has no minimum.
MCSettings ==
    {[active |-> TRUE, reward |-> 2, friendReward |-> 1, minimum |-> 2],
     [active |-> FALSE, reward |-> 1, friendReward |-> 0, minimum |-> 0]}
=============================================================================
