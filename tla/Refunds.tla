------------------------------ MODULE Refunds ------------------------------
(***************************************************************************)
(* The refunds of one paid order: the provider decides on refund requests  *)
(* and an administrator refunds the payment.  Either reads what has been   *)
(* refunded and then commits its own refund in one transaction, so two     *)
(* decisions may overlap.                                                  *)
(***************************************************************************)
EXTENDS Integers, Functions

CONSTANTS
  Request,   \* refund requests of the order
  Decider,   \* requests to the server that may overlap
  Total      \* the order's total, which is the payment's amount

ASSUME RefundsAssumption == Total \in Nat \ {0}

VARIABLES
  refund,     \* refund[r]: the row of request r; refund[Admin]: the administrator's
  payment,    \* the payment's status, and the refund status in its metadata
  order,      \* the order's status
  decider     \* decider[d]: what a request to the server holds

refundVars == <<refund, payment, order, decider>>

\* transactionId is unique and the administrator's is made from the payment's id: the
\* administrator's refund of a payment has one row.
Admin == "admin"
RefundId == Request \cup {Admin}

Amount == 1 .. Total
NoAmount == 0

RefundStatus == {"REQUESTED", "REJECTED", "REFUNDED"}

\* overlapped (history): another refund was committed after this one's sum was read.
RefundRow == [status : RefundStatus, requested : Amount, approved : Amount \cup {NoAmount},
              linked : BOOLEAN, overlapped : BOOLEAN]
NoRefund == [status |-> "NONE"]
Idle == [op |-> "idle"]

Exists(r) == refund[r] # NoRefund

\* approvedAmount ?? requestedAmount
Refunded(r) == IF refund[r].approved # NoAmount THEN refund[r].approved
               ELSE refund[r].requested

\* What a decision has seen of them, and what that adds up to.
Seen(ids) == [r \in ids |-> Refunded(r)]
RefundedBy(ids) == SumFunction(Seen(ids))
SeenSet == UNION {[ids -> Amount] : ids \in SUBSET RefundId}

Processed == {r \in RefundId : Exists(r) /\ refund[r].status = "REFUNDED"}
Linked == {r \in RefundId : Exists(r) /\ refund[r].linked}

-----------------------------------------------------------------------------
\* Nothing in the repository creates a request; its payment may be missing.
CreateRequest(r) ==
  /\ refund[r] = NoRefund
  /\ \E amount \in Amount, linked \in BOOLEAN :
       refund' = [refund EXCEPT ![r] =
         [status |-> "REQUESTED", requested |-> amount, approved |-> NoAmount,
          linked |-> linked, overlapped |-> FALSE]]
  /\ UNCHANGED <<payment, order, decider>>

\* Mutant: only what this provider request itself asks for is compared.
MutantRefundableAmount(r) == Total

\* What the order's other processed refunds leave.
RefundableAmount(r) == Total - RefundedBy(Processed \ {r})

\* action, approveAction and rejectAction, up to the decision.
Action(d, r) ==
  /\ decider[d] = Idle
  /\ Exists(r) /\ refund[r].status = "REQUESTED"
  /\ \E job \in [op : {"approve"}, id : {r}, amount : {a \in Amount :
                     a <= refund[r].requested /\ a <= RefundableAmount(r)},
                 seen : {Seen(Processed \ {r})}]
            \cup [op : {"reject"}, id : {r}] :
       decider' = [decider EXCEPT ![d] = job]
  /\ UNCHANGED <<refund, payment, order>>

Approved(row, amount, overlapped) ==
  [row EXCEPT !.status = "REFUNDED", !.approved = amount, !.overlapped = overlapped]
Rejected(row) == [row EXCEPT !.status = "REJECTED"]

\* The row is written whatever its status has become; the order is cancelled.
ApproveWithSideEffects(d) ==
  /\ decider[d].op = "approve"
  /\ LET r == decider[d].id
     IN refund' = [refund EXCEPT ![r] =
          Approved(@, decider[d].amount, Seen(Processed \ {r}) # decider[d].seen)]
  /\ order' = "CANCELLED"
  /\ decider' = [decider EXCEPT ![d] = Idle]
  /\ UNCHANGED payment

RejectWithSideEffects(d) ==
  /\ decider[d].op = "reject"
  /\ refund' = [refund EXCEPT ![decider[d].id] = Rejected(@)]
  /\ decider' = [decider EXCEPT ![d] = Idle]
  /\ UNCHANGED <<payment, order>>

\* The status the administrator sees counts every refund request of the payment.
IsPaymentRefundable ==
  /\ payment.status = "SUCCEEDED"
  /\ payment.adminRefund = "PARTIALLY_REFUNDED" \/ RefundedBy(Linked) < Total

RemainingRefundable == Total - RefundedBy(Processed \cap Linked)

\* An amount of the administrator's choice, or (FULL) all that remains.
RefundTransaction(d) ==
  /\ decider[d] = Idle /\ IsPaymentRefundable
  /\ \E amount \in Amount :
       /\ amount <= RemainingRefundable
       /\ decider' = [decider EXCEPT ![d] =
            [op |-> "refund", amount |-> amount, full |-> amount = RemainingRefundable,
             seen |-> Seen(Processed)]]
  /\ UNCHANGED <<refund, payment, order>>

Marked(row, mark) == [row EXCEPT !.adminRefund = mark]

\* A second refund of the payment would have the first one's transaction id.
ProcessRefund(d) ==
  /\ decider[d].op = "refund" /\ refund[Admin] = NoRefund
  /\ refund' = [refund EXCEPT ![Admin] =
       [status |-> "REFUNDED", requested |-> decider[d].amount,
        approved |-> decider[d].amount, linked |-> TRUE,
        overlapped |-> Seen(Processed) # decider[d].seen]]
  /\ payment' = IF decider[d].full THEN [status |-> "REFUNDED", adminRefund |-> "REFUNDED"]
                ELSE Marked(payment, "PARTIALLY_REFUNDED")
  /\ order' = IF decider[d].full THEN "CANCELLED" ELSE order
  /\ decider' = [decider EXCEPT ![d] = Idle]

\* The refund policy or the database refuses, or the process stops.
DeciderFails(d) ==
  /\ decider[d] # Idle
  /\ decider' = [decider EXCEPT ![d] = Idle]
  /\ UNCHANGED <<refund, payment, order>>

-----------------------------------------------------------------------------
RefundsInit ==
  /\ refund = [r \in RefundId |-> NoRefund]
  /\ payment = [status |-> "SUCCEEDED", adminRefund |-> "NONE"]
  /\ order = "OPEN"
  /\ decider = [d \in Decider |-> Idle]

RefundsNext ==
  \/ \E r \in Request : CreateRequest(r)
  \/ \E d \in Decider : \/ \E r \in Request : Action(d, r)
                        \/ ApproveWithSideEffects(d) \/ RejectWithSideEffects(d)
                        \/ RefundTransaction(d) \/ ProcessRefund(d) \/ DeciderFails(d)

RefundsSpec == RefundsInit /\ [][RefundsNext]_refundVars

\* The rows and the requests have the shape the code gives them.
RefundsTypeOK ==
  /\ refund \in [RefundId -> RefundRow \cup {NoRefund}]
  /\ payment \in [status : {"SUCCEEDED", "REFUNDED"},
                  adminRefund : {"NONE", "PARTIALLY_REFUNDED", "REFUNDED"}]
  /\ order \in {"OPEN", "CANCELLED"}
  /\ decider \in [Decider -> {Idle}
       \cup [op : {"approve"}, id : Request, amount : Amount, seen : SeenSet]
       \cup [op : {"reject"}, id : Request]
       \cup [op : {"refund"}, amount : Amount, full : BOOLEAN, seen : SeenSet]]

\* The provider and the administrator together refund no more than was paid, unless two
\* decisions overlapped or a refund the administrator cannot see has no payment.
RefundsAreCovered ==
  RefundedBy(Processed) > Total =>
    \E r \in Processed : refund[r].overlapped \/ (~refund[r].linked /\ Exists(Admin))

=============================================================================
