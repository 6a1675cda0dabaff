----------------------------- MODULE OrderEscrow -----------------------------
(***************************************************************************)
(* What order settlement promises, without its handlers: money for an      *)
(* order is held once it is charged, and then leaves in legs (a refund, a  *)
(* fee, an earning), each at most once per wallet and for good.            *)
(***************************************************************************)
CONSTANTS Orders, Wallets

VARIABLES
    charged,  \* the orders money came in for
    paidOut   \* the legs that left: records with wallet, order, type, amount

escrowVars == <<charged, paidOut>>

SameLeg(a, b) == a.wallet = b.wallet /\ a.order = b.order /\ a.type = b.type

Init == charged = {} /\ paidOut = {}

Charge(o) == charged' = charged \cup {o} /\ UNCHANGED paidOut

\* A settlement pays legs of one charged order, none of them paid before.
Settle(o) ==
    /\ o \in charged
    /\ paidOut \subseteq paidOut'
    /\ \A leg \in paidOut' \ paidOut :
         /\ leg.order = o
         /\ leg.wallet \in Wallets
         /\ \A other \in paidOut' : SameLeg(leg, other) => other = leg
    /\ UNCHANGED charged

Next == \E o \in Orders : Charge(o) \/ Settle(o)

Spec == Init /\ [][Next]_escrowVars
=============================================================================
