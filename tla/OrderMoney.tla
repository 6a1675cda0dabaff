----------------------------- MODULE OrderMoney -----------------------------
(***************************************************************************)
(* The life of marketplace orders and the money that moves because of      *)
(* them: checkout against the customer's wallet, the provider's status     *)
(* updates (acceptance charges the wallet, delivery pays the provider),    *)
(* the customer's cancellation (refund and platform fee), and the card     *)
(* payments, approved refund requests and administrators' refunds that     *)
(* write the order's status directly.                                      *)
(*                                                                         *)
(* Every HTTP handler is a request that goes through the awaits of the     *)
(* code: it reads rows, decides, and writes later.  A write is the commit  *)
(* of a Prisma $transaction at PostgreSQL's READ COMMITTED level, so what  *)
(* a request read before may be stale when it commits, and a relative      *)
(* update ({ increment: x }) applies to the row as it then is.  A lookup   *)
(* that a unique index protects is made at the commit: the loser of that   *)
(* race gets a unique violation and is rolled back, which is Fail.         *)
(***************************************************************************)
EXTENDS Integers, FiniteSetsExt, Functions

CONSTANTS
    Customers,        \* customer ids; a customer's id also names its wallet
    Providers,        \* provider ids; a provider's id also names its wallet
    PlatformWallets,  \* ids the platform's wallet rows can get
    Orders,           \* order ids
    Payments,         \* ids of card payments made for an order
    Requests,         \* the handlers that can be in flight at the same time
    Subtotals,        \* cart subtotals, in cents
    CommissionRates,  \* percents the commission tiers and settings can give
    Percents,         \* cancellation deductions the refund policy can hold
    OpeningFunds      \* what a customer's wallet holds before any order

ASSUME WalletsAreDisjoint ==
    /\ Customers \cap Providers = {}
    /\ Customers \cap PlatformWallets = {}
    /\ Providers \cap PlatformWallets = {}
    /\ PlatformWallets \cap {"skip", "create"} = {}

ASSUME AmountsAreNaturals ==
    /\ Subtotals \subseteq Nat
    /\ CommissionRates \subseteq 0..100
    /\ Percents \subseteq 0..100
    /\ OpeningFunds \subseteq [balance : Nat, giftCredits : Nat]

VARIABLES
    order,        \* order[o]: the order row, or NotPlaced
    ledger,       \* the WalletLedger rows that name an order
    balance,      \* Wallet.balance of every wallet
    giftCredits,  \* Wallet.giftCredits of the customers' wallets
    platform,     \* the rows with ownerType PLATFORM
    policy,       \* the RefundPolicySettings row
    payment,      \* payment[p]: the card payment row, or NotCreated
    captured,     \* the payments whose money Stripe has taken
    req           \* req[r]: where request r is, and what it has read

vars == <<order, ledger, balance, giftCredits, platform, policy, payment,
          captured, req>>

-----------------------------------------------------------------------------
(* The rows.                                                               *)

Wallets == Customers \cup Providers \cup PlatformWallets

OrderStatus ==
    {"PENDING", "ACCEPTED", "REJECTED", "PROCESSING", "SHIPPED",
     "DELIVERED", "COMPLETED", "CANCELLED"}

\* Mutant: rejecting what was accepted before.
MutantTransitions ==
    {<<"PENDING", "ACCEPTED">>, <<"PENDING", "REJECTED">>, <<"ACCEPTED", "REJECTED">>}

\* What a provider may ask for from each status (assertTransition).  Nothing
\* leads out of the three statuses that end an order.
Transitions ==
    ({"PENDING"} \X {"ACCEPTED", "REJECTED", "CANCELLED"})
      \cup ({"ACCEPTED"} \X {"PROCESSING", "SHIPPED", "CANCELLED"})
      \cup ({"PROCESSING"} \X {"SHIPPED", "CANCELLED"})
      \cup ({"SHIPPED"} \X {"DELIVERED", "CANCELLED"})
      \cup {<<"DELIVERED", "COMPLETED">>}

NotPlaced == [status |-> "NONE"]
OrderRow ==
    [status : OrderStatus, customer : Customers, provider : Providers, total : Nat]
Placed(o) == order[o] # NotPlaced

LedgerType == {"ORDER_PAYMENT", "REFUND", "PLATFORM_FEE", "ORDER_EARNING"}
LedgerRow == [wallet : Wallets, order : Orders, type : LedgerType, amount : Nat]

\* @@unique([walletId, orderId, type]).
HasRow(w, o, t) ==
    \E row \in ledger : row.wallet = w /\ row.order = o /\ row.type = t

\* Mutant: no findFirst.
MutantPosting(due, w, o, t, amount) ==
    IF due THEN {[wallet |-> w, order |-> o, type |-> t, amount |-> amount]} ELSE {}

\* The row a findFirst-then-create block inserts when it is due: none when the
\* wallet already has a row of this type for the order.
Posting(due, w, o, t, amount) ==
    IF due /\ ~HasRow(w, o, t)
    THEN {[wallet |-> w, order |-> o, type |-> t, amount |-> amount]}
    ELSE {}

\* Mutant: no findFirst.
MutantCredit(due, w, o, t, amount) == IF due THEN amount ELSE 0

\* What that block adds to the wallet's balance.
Credit(due, w, o, t, amount) == IF due /\ ~HasRow(w, o, t) THEN amount ELSE 0

\* money((amount * percent) / 100): a share in whole cents, halves rounded up.
Percent(amount, percent) == (amount * percent + 50) \div 100

\* What Stripe can say of an intent, and what an administrator adds to it.
IntentStatus == {"PROCESSING", "SUCCEEDED", "FAILED", "CANCELLED"}
PaymentStatus == IntentStatus \cup {"REFUNDED"}
NotCreated == [status |-> "NONE"]
\* refunded: a refund row bears the id the administrators' refunds derive from
\* the payment's own (transactionId, unique).
PaymentRow == [status : PaymentStatus, order : Orders, refunded : BOOLEAN]

-----------------------------------------------------------------------------
(* The requests.  The fields are what the handler holds across an await.   *)

Idle == [op |-> "idle"]

CheckoutRequest ==
    [op : {"checkout"}, customer : Customers, provider : Providers,
     subtotal : Nat, available : Int]
UpdateRequest ==
    [op : {"update"}, order : Orders, seen : OrderStatus, next : OrderStatus]
AcceptRequest ==
    [op : {"accept"}, order : Orders, charge : BOOLEAN, giftUsed : Int]
CancelRequest == [op : {"cancel"}, order : Orders, percent : 0..100]
\* "skip": nothing is deducted; "create": no platform wallet was found.
RefundRequest ==
    [op : {"refund"}, order : Orders, percent : 0..100,
     platform : PlatformWallets \cup {"skip", "create"}]
ConfirmRequest == [op : {"confirm"}, payment : Payments]
ApplyRequest ==
    [op : {"apply"}, payment : Payments, outcome : {"SUCCEEDED", "FAILED"}]
ApproveRequest == [op : {"approve"}, order : Orders]
RepayRequest == [op : {"repay"}, payment : Payments, full : BOOLEAN]

Request ==
    {Idle} \cup CheckoutRequest \cup UpdateRequest \cup AcceptRequest
      \cup CancelRequest \cup RefundRequest \cup ConfirmRequest \cup ApplyRequest
      \cup ApproveRequest \cup RepayRequest

IsAt(r, op) == req[r].op = op
Start(r, record) == req[r] = Idle /\ req' = [req EXCEPT ![r] = record]
Continue(r, record) == req' = [req EXCEPT ![r] = record]
Finish(r) == req' = [req EXCEPT ![r] = Idle]

WithStatus(row, status) == [row EXCEPT !.status = status]
SetStatus(o, status) == order' = [order EXCEPT ![o] = WithStatus(@, status)]

-----------------------------------------------------------------------------
Init ==
    /\ order = [o \in Orders |-> NotPlaced]
    /\ ledger = {}
    /\ \E funds \in [Customers -> OpeningFunds] :
         /\ balance = [w \in Wallets |-> IF w \in Customers THEN funds[w].balance ELSE 0]
         /\ giftCredits = [c \in Customers |-> funds[c].giftCredits]
    /\ platform = {}
    /\ policy \in [allowCancellation : {TRUE}, percent : Percents]
    /\ payment = [p \in Payments |-> NotCreated]
    /\ captured = {}
    /\ req = [r \in Requests |-> Idle]

-----------------------------------------------------------------------------
(* createOrder: the wallet is read before the transaction, the order is    *)
(* created in it.  The cart is abstracted to its provider and subtotal.    *)

CheckoutBegin(r, c, p, subtotal) ==
    /\ Start(r, [op |-> "checkout", customer |-> c, provider |-> p,
                 subtotal |-> subtotal, available |-> balance[c] + giftCredits[c]])
    /\ UNCHANGED <<order, ledger, balance, giftCredits, platform, policy, payment, captured>>

CheckoutCommit(r, o, rate) ==
    LET q == req[r]
        total == q.subtotal + Percent(q.subtotal, rate)
    IN  /\ IsAt(r, "checkout")
        /\ ~Placed(o)
        /\ q.available >= total
        /\ order' = [order EXCEPT ![o] =
                        [status |-> "PENDING", customer |-> q.customer,
                         provider |-> q.provider, total |-> total]]
        /\ Finish(r)
        /\ UNCHANGED <<ledger, balance, giftCredits, platform, policy, payment, captured>>

-----------------------------------------------------------------------------
(* updateOrderStatus: the order is read and the transition checked outside *)
(* the transaction that writes it.                                         *)

UpdateBegin(r, o, next) ==
    /\ Placed(o)
    /\ <<order[o].status, next>> \in Transitions
    /\ Start(r, [op |-> "update", order |-> o, seen |-> order[o].status, next |-> next])
    /\ UNCHANGED <<order, ledger, balance, giftCredits, platform, policy, payment, captured>>

Accepts(q) == q.seen = "PENDING" /\ q.next = "ACCEPTED"

\* Mutant: the funds are not compared with the total.
MutantDebitCheck(r) ==
    LET q == req[r]
        o == q.order
        c == order[o].customer
    IN  /\ IsAt(r, "update")
        /\ Accepts(q)
        /\ Continue(r, [op |-> "accept", order |-> o,
                        charge |-> ~HasRow(c, o, "ORDER_PAYMENT"),
                        giftUsed |-> Min({giftCredits[c], order[o].total})])
        /\ UNCHANGED <<order, ledger, balance, giftCredits, platform, policy, payment, captured>>

\* debitCustomerWalletForOrder up to its first write: the wallet's row and the
\* order's ledger row are read, the amounts to take are computed from them.
DebitCheck(r) ==
    LET q == req[r]
        o == q.order
        c == order[o].customer
        giftUsed == Min({giftCredits[c], order[o].total})
    IN  /\ IsAt(r, "update")
        /\ Accepts(q)
        /\ \/ /\ HasRow(c, o, "ORDER_PAYMENT")
              /\ Continue(r, [op |-> "accept", order |-> o, charge |-> FALSE, giftUsed |-> 0])
           \/ /\ ~HasRow(c, o, "ORDER_PAYMENT")
              /\ giftCredits[c] + balance[c] >= order[o].total
              /\ Continue(r, [op |-> "accept", order |-> o, charge |-> TRUE,
                              giftUsed |-> giftUsed])
        /\ UNCHANGED <<order, ledger, balance, giftCredits, platform, policy, payment, captured>>

\* The rest of the accepting transaction.  The unique index rolls it back when
\* another acceptance has charged the order since DebitCheck.
AcceptCommit(r) ==
    LET q == req[r]
        o == q.order
        c == order[o].customer
        total == order[o].total
    IN  /\ IsAt(r, "accept")
        /\ \/ /\ q.charge
              /\ ~HasRow(c, o, "ORDER_PAYMENT")
              /\ ledger' = ledger \cup
                     {[wallet |-> c, order |-> o, type |-> "ORDER_PAYMENT", amount |-> total]}
              /\ giftCredits' = [giftCredits EXCEPT ![c] = @ - q.giftUsed]
              /\ balance' = [balance EXCEPT ![c] = @ - (total - q.giftUsed)]
           \/ /\ ~q.charge
              /\ UNCHANGED <<ledger, giftCredits, balance>>
        /\ SetStatus(o, "ACCEPTED")
        /\ Finish(r)
        /\ UNCHANGED <<platform, policy, payment, captured>>

\* Every other update: the status is written first and locks the order's row,
\* so upsertOrderEarningLedger's lookup sees what earlier commits posted.
UpdateCommit(r) ==
    LET q == req[r]
        o == q.order
        p == order[o].provider
        earns == q.next \in {"DELIVERED", "COMPLETED"}
        total == order[o].total
    IN  /\ IsAt(r, "update")
        /\ ~Accepts(q)
        /\ SetStatus(o, q.next)
        /\ ledger' = ledger \cup Posting(earns, p, o, "ORDER_EARNING", total)
        /\ balance' = [balance EXCEPT ![p] = @ + Credit(earns, p, o, "ORDER_EARNING", total)]
        /\ Finish(r)
        /\ UNCHANGED <<giftCredits, platform, policy, payment, captured>>

-----------------------------------------------------------------------------
(* cancelOrder: the order and the refund policy are read outside the       *)
(* transaction of cancelOrderWithRefund.                                   *)

\* Mutant: a pending order is cancelled like a paid one.
MutantCancelPending(r, o) ==
    /\ order[o].status \in {"PENDING", "ACCEPTED", "PROCESSING"}
    /\ policy.allowCancellation
    /\ Start(r, [op |-> "cancel", order |-> o, percent |-> policy.percent])
    /\ UNCHANGED <<order, ledger, balance, giftCredits, platform, policy, payment, captured>>

\* Mutant: a delivered order can still be cancelled.
MutantCancelDelivered(r, o) ==
    /\ order[o].status \in {"ACCEPTED", "PROCESSING", "DELIVERED"}
    /\ policy.allowCancellation
    /\ Start(r, [op |-> "cancel", order |-> o, percent |-> policy.percent])
    /\ UNCHANGED <<order, ledger, balance, giftCredits, platform, policy, payment, captured>>

CancelBegin(r, o) ==
    /\ order[o].status \in {"ACCEPTED", "PROCESSING"}
    /\ policy.allowCancellation
    /\ Start(r, [op |-> "cancel", order |-> o, percent |-> policy.percent])
    /\ UNCHANGED <<order, ledger, balance, giftCredits, platform, policy, payment, captured>>

\* getOrCreatePlatformWallet's findFirst, in the transaction: no unique index
\* covers rows whose ownerId is null, so what it finds may be stale.
CancelFindPlatform(r) ==
    LET q == req[r]
        At(w) == Continue(r, [op |-> "refund", order |-> q.order,
                              percent |-> q.percent, platform |-> w])
    IN  /\ IsAt(r, "cancel")
        /\ \/ Percent(order[q.order].total, q.percent) = 0 /\ At("skip")
           \/ /\ Percent(order[q.order].total, q.percent) > 0
              /\ \/ platform = {} /\ At("create")
                 \/ \E w \in platform : At(w)
        /\ UNCHANGED <<order, ledger, balance, giftCredits, platform, policy, payment, captured>>

CancelCommit(r) ==
    LET q == req[r]
        o == q.order
        c == order[o].customer
        deduction == Percent(order[o].total, q.percent)
        refund == order[o].total - deduction
        feeWallets == IF q.platform = "create" THEN PlatformWallets \ platform
                      ELSE PlatformWallets \cap {q.platform}
    IN  /\ IsAt(r, "refund")
        /\ \/ /\ q.platform = "skip"
              /\ ledger' = ledger \cup Posting(refund > 0, c, o, "REFUND", refund)
              /\ balance' = [balance EXCEPT ![c] = @ + Credit(refund > 0, c, o, "REFUND", refund)]
              /\ UNCHANGED platform
           \/ \E w \in feeWallets :
              /\ ledger' = ledger \cup Posting(refund > 0, c, o, "REFUND", refund)
                                  \cup Posting(TRUE, w, o, "PLATFORM_FEE", deduction)
              /\ balance' = [balance EXCEPT
                                ![c] = @ + Credit(refund > 0, c, o, "REFUND", refund),
                                ![w] = @ + Credit(TRUE, w, o, "PLATFORM_FEE", deduction)]
              /\ platform' = platform \cup {w}
        /\ SetStatus(o, "CANCELLED")
        /\ Finish(r)
        /\ UNCHANGED <<giftCredits, policy, payment, captured>>

\* The administrator changes the refund policy (update of its single row).
UpdatePolicy(allow, percent) ==
    /\ policy' = [allowCancellation |-> allow, percent |-> percent]
    /\ UNCHANGED <<order, ledger, balance, giftCredits, platform, payment, captured, req>>

-----------------------------------------------------------------------------
(* Card payments for an order.  createIntent asks only that the order is   *)
(* the customer's own; confirm and the webhook write the payment's status  *)
(* and then, in another statement, the order's.                            *)

CreateIntent(p, o) ==
    /\ payment[p] = NotCreated
    /\ Placed(o)
    /\ payment' = [payment EXCEPT ![p] = [status |-> "PROCESSING", order |-> o,
                                              refunded |-> FALSE]]
    /\ UNCHANGED <<order, ledger, balance, giftCredits, platform, policy, captured, req>>

\* The customer pays: Stripe's side of the intent, outside the repository.
StripeCaptures(p) ==
    /\ payment[p] # NotCreated
    /\ captured' = captured \cup {p}
    /\ UNCHANGED <<order, ledger, balance, giftCredits, platform, policy, payment, req>>

\* confirm and updateFromStripeIntent both return early on a final status.
SettleBegin(r, p) ==
    /\ payment[p].status = "PROCESSING"
    /\ Start(r, [op |-> "confirm", payment |-> p])
    /\ UNCHANGED <<order, ledger, balance, giftCredits, platform, policy, payment, captured>>

\* The unconditional update of the payment with what Stripe said of the intent,
\* which confirm may write over a status settled meanwhile.  A failure can be
\* reported of an intent that is paid later, a success only of a paid one.
SettleRecord(r, outcome) ==
    LET p == req[r].payment
    IN  /\ IsAt(r, "confirm")
        /\ outcome = "SUCCEEDED" => p \in captured
        /\ payment' = [payment EXCEPT ![p] = WithStatus(@, outcome)]
        /\ IF outcome \in {"CANCELLED", "PROCESSING"} THEN Finish(r)
           ELSE Continue(r, [op |-> "apply", payment |-> p, outcome |-> outcome])
        /\ UNCHANGED <<order, ledger, balance, giftCredits, platform, policy, captured>>

SettleApply(r) ==
    LET q == req[r]
    IN  /\ IsAt(r, "apply")
        /\ SetStatus(payment[q.payment].order,
                     IF q.outcome = "SUCCEEDED" THEN "ACCEPTED" ELSE "CANCELLED")
        /\ Finish(r)
        /\ UNCHANGED <<ledger, balance, giftCredits, platform, policy, payment, captured>>

-----------------------------------------------------------------------------
(* The refunds beside the wallet.  Both write CANCELLED in a transaction   *)
(* that looks at no order, and neither touches a wallet or its ledger;     *)
(* their sums and the requests' own life are in Refunds.                   *)

\* approveAction: the provider found a request to refund order o still open.
ApproveBegin(r, o) ==
    /\ Placed(o)
    /\ Start(r, [op |-> "approve", order |-> o])
    /\ UNCHANGED <<order, ledger, balance, giftCredits, platform, policy, payment, captured>>

\* approveWithSideEffects; shouldProcessAsync is always false.
ApproveCommit(r) ==
    /\ IsAt(r, "approve")
    /\ SetStatus(req[r].order, "CANCELLED")
    /\ Finish(r)
    /\ UNCHANGED <<ledger, balance, giftCredits, platform, policy, payment, captured>>

\* The administrator's refund of all that is left of a payment, or of a part.
RepayBegin(r, p, full) ==
    /\ payment[p].status = "SUCCEEDED"
    /\ policy.allowCancellation
    /\ Start(r, [op |-> "repay", payment |-> p, full |-> full])
    /\ UNCHANGED <<order, ledger, balance, giftCredits, platform, policy, payment, captured>>

\* processRefund: the row's unique id fails the second refund of a payment; a
\* part leaves the payment with the status that was read.
RepayCommit(r) ==
    LET q == req[r]
        p == q.payment
    IN  /\ IsAt(r, "repay")
        /\ ~payment[p].refunded
        /\ payment' = [payment EXCEPT
                          ![p] = [status |-> IF q.full THEN "REFUNDED" ELSE "SUCCEEDED",
                                  order |-> payment[p].order, refunded |-> TRUE]]
        /\ IF q.full THEN SetStatus(payment[p].order, "CANCELLED") ELSE UNCHANGED order
        /\ Finish(r)
        /\ UNCHANGED <<ledger, balance, giftCredits, platform, policy, captured>>

-----------------------------------------------------------------------------
\* A request ends without its next write: an exception (a unique violation,
\* short funds, a failed query) or a crash of the process.
Fail(r) ==
    /\ req[r] # Idle
    /\ Finish(r)
    /\ UNCHANGED <<order, ledger, balance, giftCredits, platform, policy, payment, captured>>

Next ==
    \/ \E r \in Requests :
         \/ \E c \in Customers, p \in Providers, s \in Subtotals : CheckoutBegin(r, c, p, s)
         \/ \E o \in Orders, rate \in CommissionRates : CheckoutCommit(r, o, rate)
         \/ \E o \in Orders, next \in OrderStatus : UpdateBegin(r, o, next)
         \/ DebitCheck(r)
         \/ AcceptCommit(r)
         \/ UpdateCommit(r)
         \/ \E o \in Orders : CancelBegin(r, o)
         \/ CancelFindPlatform(r)
         \/ CancelCommit(r)
         \/ \E p \in Payments : SettleBegin(r, p)
         \/ \E outcome \in IntentStatus : SettleRecord(r, outcome)
         \/ SettleApply(r)
         \/ \E o \in Orders : ApproveBegin(r, o)
         \/ ApproveCommit(r)
         \/ \E p \in Payments, full \in BOOLEAN : RepayBegin(r, p, full)
         \/ RepayCommit(r)
         \/ Fail(r)
    \/ \E p \in Payments, o \in Orders : CreateIntent(p, o)
    \/ \E p \in Payments : StripeCaptures(p)
    \/ \E allow \in BOOLEAN, percent \in Percents : UpdatePolicy(allow, percent)

Spec == Init /\ [][Next]_vars

-----------------------------------------------------------------------------
(* Properties.                                                             *)

\* Every variable holds a row, a set of rows or a request of its type.
TypeOK ==
    /\ order \in [Orders -> {NotPlaced} \cup OrderRow]
    /\ ledger \subseteq LedgerRow
    /\ balance \in [Wallets -> Int]
    /\ giftCredits \in [Customers -> Int]
    /\ platform \subseteq PlatformWallets
    /\ policy \in [allowCancellation : BOOLEAN, percent : 0..100]
    /\ payment \in [Payments -> {NotCreated} \cup PaymentRow]
    /\ captured \subseteq Payments
    /\ req \in [Requests -> Request]

CardPaid(o) == \E p \in captured : payment[p] # NotCreated /\ payment[p].order = o
Charged(o) == Placed(o) /\ (HasRow(order[o].customer, o, "ORDER_PAYMENT") \/ CardPaid(o))

\* Money leaves an order (a refund, a platform fee, the provider's earning)
\* only if money came in for it, from the wallet or from a card.  Stale reads
\* make this hard: a cancellation or a delivery commits long after it saw the
\* status that let it start.
MoneyOutNeedsCharge ==
    \A row \in ledger : row.type # "ORDER_PAYMENT" => Charged(row.order)

Funds(w) == IF w \in Customers THEN balance[w] + giftCredits[w] ELSE balance[w]
Signed(row) == IF row.type = "ORDER_PAYMENT" THEN -row.amount ELSE row.amount

\* Balances are backed by ledger entries: no row disappears, and a step moves
\* a wallet by exactly the one row it adds to that wallet's ledger.  A posting
\* repeated by a second request would move the balance without a new row.
LedgerStep ==
    /\ ledger \subseteq ledger'
    /\ \A w \in Wallets :
         LET new == {row \in ledger' \ ledger : row.wallet = w}
         IN  \/ new = {} /\ Funds(w)' = Funds(w)
             \/ \E row \in new : new = {row} /\ Funds(w)' = Funds(w) + Signed(row)
LedgerBacksBalances == [][LedgerStep]_vars

\* A wallet is never driven below zero: acceptance "throws (rolling back
\* accept) if funds are short".
NoOverdraft ==
    \A c \in Customers : balance[c] >= 0 /\ giftCredits[c] >= 0

TotalOf(rows) == SumFunction([row \in rows |-> row.amount])
PaidOut(o) == TotalOf({row \in ledger : row.order = o /\ row.type # "ORDER_PAYMENT"})
FromWallet(o) == TotalOf({row \in ledger : row.order = o /\ row.type = "ORDER_PAYMENT"})
PaidIn(o) ==
    FromWallet(o) + order[o].total * Cardinality({p \in captured : payment[p].order = o})

\* Refund, fee and earning of an order together never exceed what was paid
\* for it: no order is both refunded and paid out from one charge.
SettlementCovered == \A o \in Orders : Placed(o) => PaidOut(o) <= PaidIn(o)

\* An order the provider rejected has not been taken from the wallet: nothing
\* in the code gives that money back.
RejectedIsNotCharged ==
    \A o \in Orders :
      order[o].status = "REJECTED" => ~HasRow(order[o].customer, o, "ORDER_PAYMENT")

\* COMPLETED and CANCELLED end an order.
TerminalStays ==
    [][\A o \in Orders : order[o].status \in {"COMPLETED", "CANCELLED"}
                            => order'[o].status = order[o].status]_vars

-----------------------------------------------------------------------------
(* Why MoneyOutNeedsCharge holds: what a request holds stays true of the   *)
(* order it saw, because a charge is never taken back.                     *)

PaidStatus == {"ACCEPTED", "PROCESSING", "SHIPPED", "DELIVERED", "COMPLETED"}

OrdersAreCharged ==
    \A o \in Orders : Placed(o) /\ order[o].status \in PaidStatus => Charged(o)

LedgerIsLinked == \A row \in ledger : Placed(row.order)

PaymentsAreLinked ==
    /\ \A p \in captured : payment[p] # NotCreated
    /\ \A p \in Payments : payment[p] # NotCreated => Placed(payment[p].order)

RequestIsSound(q) ==
    /\ q.op = "update" =>
         Placed(q.order) /\ <<q.seen, q.next>> \in Transitions
           /\ (q.seen \in PaidStatus => Charged(q.order))
    /\ q.op = "accept" =>
         Placed(q.order)
           /\ (~q.charge => HasRow(order[q.order].customer, q.order, "ORDER_PAYMENT"))
    /\ q.op \in {"cancel", "refund"} => Charged(q.order)
    /\ q.op = "approve" => Placed(q.order)
    /\ q.op \in {"confirm", "repay"} => payment[q.payment] # NotCreated
    /\ q.op = "apply" =>
         /\ payment[q.payment] # NotCreated
         /\ q.outcome = "SUCCEEDED" => q.payment \in captured

ChargeInvariant ==
    /\ OrdersAreCharged
    /\ MoneyOutNeedsCharge
    /\ LedgerIsLinked
    /\ PaymentsAreLinked
    /\ \A r \in Requests : RequestIsSound(req[r])

\* The orders and their ledger implement the escrow of OrderEscrow.
Escrow == INSTANCE OrderEscrow WITH
    charged <- {o \in Orders : Charged(o)},
    paidOut <- {row \in ledger : row.type # "ORDER_PAYMENT"}
EscrowSpec == Escrow!Spec
=============================================================================
