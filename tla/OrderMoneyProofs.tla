-------------------------- MODULE OrderMoneyProofs --------------------------
(***************************************************************************)
(* Proofs about OrderMoney for every set of customers, providers, orders,  *)
(* payments and concurrent requests, and for every amount.                 *)
(***************************************************************************)
EXTENDS OrderMoney, SumLemmas

\* A share of an amount of cents is an amount of cents.
LEMMA PercentType ==
  ASSUME NEW amount \in Nat, NEW percent \in 0..100
  PROVE  Percent(amount, percent) \in Nat
<1>1. amount * percent \in Nat
  OBVIOUS
<1> QED
  BY <1>1 DEF Percent

\* Crediting wallets by integers keeps the balances integers.
LEMMA CreditedBalance ==
  ASSUME NEW f \in [Wallets -> Int], NEW a \in Wallets, NEW b \in Wallets,
         NEW x \in Int, NEW y \in Int
  PROVE  /\ [f EXCEPT ![a] = @ + x] \in [Wallets -> Int]
         /\ [f EXCEPT ![a] = @ + x, ![b] = @ + y] \in [Wallets -> Int]
BY DEF Wallets

-----------------------------------------------------------------------------
(* Type correctness.                                                       *)

LEMMA InitTypeOK == Init => TypeOK
<1> SUFFICES ASSUME Init PROVE TypeOK
  OBVIOUS
<1> PICK funds \in [Customers -> OpeningFunds] :
      /\ balance = [w \in Wallets |-> IF w \in Customers THEN funds[w].balance ELSE 0]
      /\ giftCredits = [c \in Customers |-> funds[c].giftCredits]
  BY DEF Init
<1>1. \A c \in Customers : funds[c].balance \in Nat /\ funds[c].giftCredits \in Nat
  BY AmountsAreNaturals
<1>2. balance \in [Wallets -> Int] /\ giftCredits \in [Customers -> Int]
  BY <1>1
<1>3. policy \in [allowCancellation : BOOLEAN, percent : 0..100]
  BY AmountsAreNaturals DEF Init
<1>4. req \in [Requests -> Request]
  BY DEF Init, Request
<1> QED
  BY <1>2, <1>3, <1>4 DEF Init, TypeOK

\* What a placed order's row holds.
LEMMA PlacedRow ==
  ASSUME TypeOK, NEW o \in Orders, Placed(o)
  PROVE  /\ order[o] \in OrderRow
         /\ order[o].customer \in Customers
         /\ order[o].provider \in Providers
         /\ order[o].total \in Nat
         /\ order[o].status \in OrderStatus
BY DEF TypeOK, Placed, OrderRow

LEMMA StatusMeansPlaced ==
  ASSUME TypeOK, NEW o \in Orders, order[o].status \in OrderStatus
  PROVE  Placed(o)
BY DEF TypeOK, Placed, NotPlaced, OrderStatus

\* A request's tag tells what it holds.
LEMMA RequestKind ==
  ASSUME NEW q \in Request
  PROVE  /\ q.op = "checkout" => q \in CheckoutRequest
         /\ q.op = "update" => q \in UpdateRequest
         /\ q.op = "accept" => q \in AcceptRequest
         /\ q.op = "cancel" => q \in CancelRequest
         /\ q.op = "refund" => q \in RefundRequest
         /\ q.op = "confirm" => q \in ConfirmRequest
         /\ q.op = "apply" => q \in ApplyRequest
         /\ q.op = "approve" => q \in ApproveRequest
         /\ q.op = "repay" => q \in RepayRequest
BY DEF Request, Idle, CheckoutRequest, UpdateRequest, AcceptRequest,
       CancelRequest, RefundRequest, ConfirmRequest, ApplyRequest, ApproveRequest,
       RepayRequest

\* The wallets of a placed order.
LEMMA WalletsOf ==
  ASSUME TypeOK, NEW o \in Orders, Placed(o)
  PROVE  order[o].customer \in Wallets /\ order[o].provider \in Wallets
BY PlacedRow DEF Wallets

\* Changing a row's status keeps the rest of the row.
LEMMA WithStatusRow ==
  ASSUME NEW row \in OrderRow, NEW s \in OrderStatus
  PROVE  /\ WithStatus(row, s) \in OrderRow
         /\ WithStatus(row, s).status = s
         /\ WithStatus(row, s).customer = row.customer
         /\ WithStatus(row, s).provider = row.provider
         /\ WithStatus(row, s).total = row.total
BY Zenon DEF WithStatus, OrderRow

LEMMA WithStatusPayment ==
  ASSUME NEW row \in PaymentRow, NEW s \in PaymentStatus
  PROVE  /\ WithStatus(row, s) \in PaymentRow
         /\ WithStatus(row, s).order = row.order
         /\ WithStatus(row, s).status = s
BY Zenon DEF WithStatus, PaymentRow

\* What the transition map allows: no request of the map makes an order paid
\* that was not paid, except the acceptance of a pending one.
LEMMA TransitionFacts ==
  ASSUME NEW seen, NEW next, <<seen, next>> \in Transitions
  PROVE  /\ next \in OrderStatus
         /\ next \in PaidStatus => seen \in PaidStatus \/ (seen = "PENDING" /\ next = "ACCEPTED")
BY DEF Transitions, OrderStatus, PaidStatus

\* A row is told from the absence of one.
LEMMA RowIsPlaced ==
  ASSUME NEW row \in OrderRow
  PROVE  row # NotPlaced
BY DEF OrderRow, NotPlaced, OrderStatus

LEMMA RowIsCreated ==
  ASSUME NEW row \in PaymentRow
  PROVE  row # NotCreated
BY DEF PaymentRow, NotCreated, PaymentStatus, IntentStatus

LEMMA SetStatusType ==
  ASSUME TypeOK, NEW o \in Orders, Placed(o), NEW s \in OrderStatus, SetStatus(o, s)
  PROVE  /\ order' \in [Orders -> {NotPlaced} \cup OrderRow]
         /\ Placed(o)'
         /\ order'[o].status = s
         /\ order'[o].customer = order[o].customer
         /\ \A x \in Orders \ {o} : order'[x] = order[x]
<1>1. order[o] \in OrderRow /\ order \in [Orders -> {NotPlaced} \cup OrderRow]
  BY PlacedRow DEF TypeOK
<1>2. order' = [order EXCEPT ![o] = WithStatus(order[o], s)]
  BY DEF SetStatus
<1>3. /\ WithStatus(order[o], s) \in OrderRow
      /\ WithStatus(order[o], s).status = s
      /\ WithStatus(order[o], s).customer = order[o].customer
  BY <1>1, WithStatusRow
<1> QED
  BY <1>1, <1>2, <1>3, RowIsPlaced DEF Placed

\* Writing a request of the right type keeps the requests' type.
LEMMA RequestType ==
  ASSUME TypeOK, NEW r \in Requests, NEW q \in Request, req' = [req EXCEPT ![r] = q]
  PROVE  req' \in [Requests -> Request]
BY DEF TypeOK

LEMMA IdleIsARequest == Idle \in Request
BY DEF Request

\* What the administrator's refund of payment p, made for order o, writes.
RepayFacts(r, p, o) ==
    /\ p = req[r].payment /\ o = payment[p].order /\ Placed(o)
    /\ payment'[p] \in PaymentRow
    /\ payment'[p].order = o
    /\ payment'[p].status = IF req[r].full THEN "REFUNDED" ELSE "SUCCEEDED"
    /\ payment' = [payment EXCEPT ![p] = payment'[p]]
    /\ IF req[r].full THEN SetStatus(o, "CANCELLED") ELSE UNCHANGED order

LEMMA RepayKnows ==
  ASSUME TypeOK, ChargeInvariant, NEW r \in Requests, RepayCommit(r)
  PROVE  \E p \in Payments, o \in Orders : RepayFacts(r, p, o)
<1>1. req[r] \in RepayRequest /\ RequestIsSound(req[r]) /\ req[r].op = "repay"
  BY RequestKind DEF RepayCommit, IsAt, TypeOK, ChargeInvariant
<1>2. PICK p \in Payments : p = req[r].payment /\ payment[p] # NotCreated
  BY <1>1 DEF RepayRequest, RequestIsSound
<1>3. PICK o \in Orders : o = payment[p].order /\ Placed(o)
  BY <1>2 DEF TypeOK, PaymentRow, ChargeInvariant, PaymentsAreLinked
<1> DEFINE row == [status |-> IF req[r].full THEN "REFUNDED" ELSE "SUCCEEDED",
                   order |-> o, refunded |-> TRUE]
<1>4. row \in PaymentRow
  BY DEF PaymentRow, PaymentStatus, IntentStatus
<1>5. row.order = o /\ row.status = IF req[r].full THEN "REFUNDED" ELSE "SUCCEEDED"
  OBVIOUS
<1>6. payment' = [payment EXCEPT ![p] = row]
  BY <1>2, <1>3 DEF RepayCommit
<1>7. IF req[r].full THEN SetStatus(o, "CANCELLED") ELSE UNCHANGED order
  BY <1>2, <1>3 DEF RepayCommit
<1> HIDE DEF row
<1>8. payment'[p] = row
  BY <1>2, <1>6 DEF TypeOK
<1>9. RepayFacts(r, p, o)
  BY <1>2, <1>3, <1>4, <1>5, <1>6, <1>7, <1>8 DEF RepayFacts
<1> QED
  BY <1>9

\* Every step keeps the types, as long as the rows that the requests refer to
\* exist: that is the part of ChargeInvariant it needs.
LEMMA TypeOKStep == TypeOK /\ ChargeInvariant /\ [Next]_vars => TypeOK'
<1> SUFFICES ASSUME TypeOK, ChargeInvariant, [Next]_vars PROVE TypeOK'
  OBVIOUS
<1>req. \A x \in Requests : req[x] \in Request /\ RequestIsSound(req[x])
  BY DEF TypeOK, ChargeInvariant
<1>1. ASSUME NEW r \in Requests, NEW c \in Customers, NEW p \in Providers,
             NEW s \in Subtotals, CheckoutBegin(r, c, p, s)
      PROVE  TypeOK'
  <2>1. s \in Nat /\ balance[c] + giftCredits[c] \in Int
    BY AmountsAreNaturals DEF TypeOK, Wallets
  <2>2. [op |-> "checkout", customer |-> c, provider |-> p, subtotal |-> s,
         available |-> balance[c] + giftCredits[c]] \in Request
    BY <2>1 DEF Request, CheckoutRequest
  <2>3. req' \in [Requests -> Request]
    BY <1>1, <2>2, RequestType DEF CheckoutBegin, Start
  <2> QED
    BY <1>1, <2>3 DEF CheckoutBegin, TypeOK
<1>2. ASSUME NEW r \in Requests, NEW o \in Orders, NEW rate \in CommissionRates,
             CheckoutCommit(r, o, rate)
      PROVE  TypeOK'
  <2> DEFINE q == req[r]
             row == [status |-> "PENDING", customer |-> q.customer, provider |-> q.provider,
                     total |-> q.subtotal + Percent(q.subtotal, rate)]
  <2>1. q \in CheckoutRequest
    BY <1>2, <1>req, RequestKind DEF CheckoutCommit, IsAt
  <2>2. q.subtotal \in Nat /\ q.customer \in Customers /\ q.provider \in Providers
    BY <2>1 DEF CheckoutRequest
  <2>3. Percent(q.subtotal, rate) \in Nat
    BY <2>2, PercentType, AmountsAreNaturals
  <2>4. row \in OrderRow
    BY <2>2, <2>3 DEF OrderRow, OrderStatus
  <2>5. order' \in [Orders -> {NotPlaced} \cup OrderRow]
    BY <1>2, <2>4 DEF CheckoutCommit, TypeOK
  <2>6. req' \in [Requests -> Request]
    BY <1>2, IdleIsARequest, RequestType DEF CheckoutCommit, Finish
  <2> QED
    BY <1>2, <2>5, <2>6 DEF CheckoutCommit, TypeOK
<1>3. ASSUME NEW r \in Requests, NEW o \in Orders, NEW next \in OrderStatus,
             UpdateBegin(r, o, next)
      PROVE  TypeOK'
  <2>1. order[o].status \in OrderStatus
    BY <1>3, PlacedRow DEF UpdateBegin
  <2>2. [op |-> "update", order |-> o, seen |-> order[o].status, next |-> next] \in Request
    BY <2>1 DEF Request, UpdateRequest
  <2>3. req' \in [Requests -> Request]
    BY <1>3, <2>2, RequestType DEF UpdateBegin, Start
  <2> QED
    BY <1>3, <2>3 DEF UpdateBegin, TypeOK
<1>4. ASSUME NEW r \in Requests, DebitCheck(r)
      PROVE  TypeOK'
  <2> DEFINE o == req[r].order
             c == order[o].customer
             giftUsed == Min({giftCredits[c], order[o].total})
  <2>1. req[r] \in UpdateRequest
    BY <1>4, <1>req, RequestKind DEF DebitCheck, IsAt
  <2>2. o \in Orders /\ Placed(o)
    BY <1>4, <1>req, <2>1 DEF UpdateRequest, RequestIsSound, DebitCheck, IsAt
  <2>3. giftCredits[c] \in Int /\ order[o].total \in Int
    BY <2>2, PlacedRow DEF TypeOK
  <2>4. giftUsed \in Int
    <3>1. \E x \in {giftCredits[c], order[o].total} :
             \A y \in {giftCredits[c], order[o].total} : x <= y
      BY <2>3
    <3> QED
      BY <2>3, <3>1 DEF Min
  <2>5. PICK q \in Request : req' = [req EXCEPT ![r] = q]
    <3>1. [op |-> "accept", order |-> o, charge |-> FALSE, giftUsed |-> 0] \in Request
      BY <2>2 DEF Request, AcceptRequest
    <3>2. [op |-> "accept", order |-> o, charge |-> TRUE, giftUsed |-> giftUsed] \in Request
      BY <2>2, <2>4 DEF Request, AcceptRequest
    <3> HIDE DEF giftUsed
    <3> QED
      BY <1>4, <3>1, <3>2 DEF DebitCheck, Continue, giftUsed
  <2>6. req' \in [Requests -> Request]
    BY <2>5, RequestType
  <2> QED
    BY <1>4, <2>6 DEF DebitCheck, TypeOK
<1>5. ASSUME NEW r \in Requests, AcceptCommit(r)
      PROVE  TypeOK'
  <2> DEFINE q == req[r]
             o == q.order
             c == order[o].customer
  <2>1. q \in AcceptRequest
    BY <1>5, <1>req, RequestKind DEF AcceptCommit, IsAt
  <2>2. o \in Orders /\ Placed(o) /\ q.giftUsed \in Int
    BY <1>5, <1>req, <2>1 DEF AcceptRequest, RequestIsSound, AcceptCommit, IsAt
  <2>3. c \in Customers /\ order[o].total \in Nat
    BY <2>2, PlacedRow
  <2>4. order' \in [Orders -> {NotPlaced} \cup OrderRow]
    BY <1>5, <2>2, SetStatusType DEF AcceptCommit, OrderStatus
  <2>5. ledger' \subseteq LedgerRow /\ balance' \in [Wallets -> Int]
          /\ giftCredits' \in [Customers -> Int]
    <3>1. [wallet |-> c, order |-> o, type |-> "ORDER_PAYMENT", amount |-> order[o].total]
            \in LedgerRow
      BY <2>2, <2>3 DEF LedgerRow, LedgerType, Wallets
    <3>2. ledger' \subseteq LedgerRow
      BY <1>5, <3>1 DEF AcceptCommit, TypeOK
    <3>3. balance' \in [Wallets -> Int] /\ giftCredits' \in [Customers -> Int]
      BY <1>5, <2>2, <2>3 DEF AcceptCommit, TypeOK, Wallets
    <3> QED
      BY <3>2, <3>3
  <2>6. req' \in [Requests -> Request]
    BY <1>5, IdleIsARequest, RequestType DEF AcceptCommit, Finish
  <2> QED
    BY <1>5, <2>4, <2>5, <2>6 DEF AcceptCommit, TypeOK
<1>6. ASSUME NEW r \in Requests, UpdateCommit(r)
      PROVE  TypeOK'
  <2> DEFINE q == req[r]
             o == q.order
             p == order[o].provider
             earns == q.next \in {"DELIVERED", "COMPLETED"}
  <2>1. q \in UpdateRequest
    BY <1>6, <1>req, RequestKind DEF UpdateCommit, IsAt
  <2>2. o \in Orders /\ Placed(o) /\ q.next \in OrderStatus
    BY <1>6, <1>req, <2>1 DEF UpdateRequest, RequestIsSound, UpdateCommit, IsAt
  <2>3. p \in Wallets /\ order[o].total \in Nat
    BY <2>2, PlacedRow, WalletsOf
  <2>4. order' \in [Orders -> {NotPlaced} \cup OrderRow]
    BY <1>6, <2>2, SetStatusType DEF UpdateCommit
  <2>5. /\ Posting(earns, p, o, "ORDER_EARNING", order[o].total) \subseteq LedgerRow
        /\ Credit(earns, p, o, "ORDER_EARNING", order[o].total) \in Int
    BY <2>2, <2>3 DEF Posting, Credit, LedgerRow, LedgerType
  <2>6. ledger' \subseteq LedgerRow /\ balance' \in [Wallets -> Int]
    BY <1>6, <2>3, <2>5 DEF UpdateCommit, TypeOK
  <2>7. req' \in [Requests -> Request]
    BY <1>6, IdleIsARequest, RequestType DEF UpdateCommit, Finish
  <2> QED
    BY <1>6, <2>4, <2>6, <2>7 DEF UpdateCommit, TypeOK
<1>7. ASSUME NEW r \in Requests, NEW o \in Orders, CancelBegin(r, o)
      PROVE  TypeOK'
  <2>1. [op |-> "cancel", order |-> o, percent |-> policy.percent] \in Request
    BY DEF Request, CancelRequest, TypeOK
  <2>2. req' \in [Requests -> Request]
    BY <1>7, <2>1, RequestType DEF CancelBegin, Start
  <2> QED
    BY <1>7, <2>2 DEF CancelBegin, TypeOK
<1>8. ASSUME NEW r \in Requests, CancelFindPlatform(r)
      PROVE  TypeOK'
  <2>1. req[r] \in CancelRequest
    BY <1>8, <1>req, RequestKind DEF CancelFindPlatform, IsAt
  <2>2. \A w \in PlatformWallets \cup {"skip", "create"} :
           [op |-> "refund", order |-> req[r].order, percent |-> req[r].percent,
            platform |-> w] \in Request
    BY <2>1 DEF Request, RefundRequest, CancelRequest
  <2>3. \E q \in Request : req' = [req EXCEPT ![r] = q]
    BY <1>8, <2>2 DEF CancelFindPlatform, Continue, TypeOK
  <2>4. req' \in [Requests -> Request]
    BY <2>3, RequestType
  <2> QED
    BY <1>8, <2>4 DEF CancelFindPlatform, TypeOK
<1>9. ASSUME NEW r \in Requests, CancelCommit(r)
      PROVE  TypeOK'
  <2> DEFINE q == req[r]
             o == q.order
             c == order[o].customer
             total == order[o].total
             deduction == Percent(total, q.percent)
             refund == total - deduction
  <2>1. q \in RefundRequest
    BY <1>9, <1>req, RequestKind DEF CancelCommit, IsAt
  <2>2. o \in Orders /\ Placed(o) /\ q.percent \in 0..100
    BY <1>9, <1>req, <2>1 DEF RefundRequest, RequestIsSound, CancelCommit, IsAt, Charged
  <2>3. c \in Wallets /\ total \in Nat
    BY <2>2, PlacedRow, WalletsOf
  <2>4. deduction \in Nat
    BY <2>2, <2>3, PercentType
  <2> HIDE DEF deduction
  <2>5. refund \in Int
    BY <2>3, <2>4
  <2>6. order' \in [Orders -> {NotPlaced} \cup OrderRow]
    BY <1>9, <2>2, SetStatusType DEF CancelCommit, OrderStatus
  <2>7. /\ Posting(refund > 0, c, o, "REFUND", refund) \subseteq LedgerRow
        /\ Credit(refund > 0, c, o, "REFUND", refund) \in Int
    BY <2>2, <2>3, <2>5 DEF Posting, Credit, LedgerRow, LedgerType
  <2>8. \A w \in PlatformWallets :
          /\ Posting(TRUE, w, o, "PLATFORM_FEE", deduction) \subseteq LedgerRow
          /\ Credit(TRUE, w, o, "PLATFORM_FEE", deduction) \in Int
    BY <2>2, <2>4 DEF Posting, Credit, LedgerRow, LedgerType, Wallets
  <2>9. ledger' \subseteq LedgerRow /\ balance' \in [Wallets -> Int]
          /\ platform' \subseteq PlatformWallets
    <3>1. CASE q.platform = "skip"
      <4>1. PlatformWallets \cap {"skip"} = {} /\ q.platform # "create"
        BY <3>1, WalletsAreDisjoint
      <4>2. /\ ledger' = ledger \cup Posting(refund > 0, c, o, "REFUND", refund)
            /\ balance' = [balance EXCEPT ![c] = @ + Credit(refund > 0, c, o, "REFUND", refund)]
            /\ UNCHANGED platform
        BY <1>9, <3>1, <4>1 DEF CancelCommit, deduction
      <4> QED
        BY <2>3, <2>7, <4>2, CreditedBalance DEF TypeOK
    <3>2. CASE q.platform # "skip"
      <4>1. PICK w \in PlatformWallets :
              /\ ledger' = ledger \cup Posting(refund > 0, c, o, "REFUND", refund)
                                  \cup Posting(TRUE, w, o, "PLATFORM_FEE", deduction)
              /\ balance' = [balance EXCEPT
                                ![c] = @ + Credit(refund > 0, c, o, "REFUND", refund),
                                ![w] = @ + Credit(TRUE, w, o, "PLATFORM_FEE", deduction)]
              /\ platform' = platform \cup {w}
        BY <1>9, <3>2 DEF CancelCommit, deduction
      <4>2. w \in Wallets
        BY DEF Wallets
      <4>3. balance' \in [Wallets -> Int]
        BY <2>3, <2>7, <2>8, <4>1, <4>2, CreditedBalance DEF TypeOK
      <4> QED
        BY <2>7, <2>8, <4>1, <4>3 DEF TypeOK
    <3> QED
      BY <3>1, <3>2
  <2>10. req' \in [Requests -> Request]
    BY <1>9, IdleIsARequest, RequestType DEF CancelCommit, Finish
  <2> QED
    BY <1>9, <2>6, <2>9, <2>10 DEF CancelCommit, TypeOK
<1>10. ASSUME NEW r \in Requests, NEW p \in Payments, SettleBegin(r, p)
       PROVE  TypeOK'
  <2>1. [op |-> "confirm", payment |-> p] \in Request
    BY DEF Request, ConfirmRequest
  <2>2. req' \in [Requests -> Request]
    BY <1>10, <2>1, RequestType DEF SettleBegin, Start
  <2> QED
    BY <1>10, <2>2 DEF SettleBegin, TypeOK
<1>11. ASSUME NEW r \in Requests, NEW outcome \in IntentStatus,
              SettleRecord(r, outcome)
       PROVE  TypeOK'
  <2> DEFINE p == req[r].payment
  <2>1. req[r] \in ConfirmRequest
    BY <1>11, <1>req, RequestKind DEF SettleRecord, IsAt
  <2>2. p \in Payments /\ payment[p] # NotCreated
    BY <1>11, <1>req, <2>1 DEF ConfirmRequest, RequestIsSound, SettleRecord, IsAt
  <2>3. WithStatus(payment[p], outcome) \in PaymentRow
    BY <2>2, WithStatusPayment DEF TypeOK, PaymentStatus
  <2>4. payment' \in [Payments -> {NotCreated} \cup PaymentRow]
    BY <1>11, <2>2, <2>3 DEF SettleRecord, TypeOK
  <2>5. outcome \notin {"CANCELLED", "PROCESSING"} =>
          [op |-> "apply", payment |-> p, outcome |-> outcome] \in Request
    BY <2>2 DEF Request, ApplyRequest, IntentStatus
  <2>6. req' \in [Requests -> Request]
    BY <1>11, <2>5, IdleIsARequest, RequestType DEF SettleRecord, Continue, Finish
  <2> QED
    BY <1>11, <2>4, <2>6 DEF SettleRecord, TypeOK
<1>12. ASSUME NEW r \in Requests, SettleApply(r)
       PROVE  TypeOK'
  <2> DEFINE p == req[r].payment
  <2>1. req[r] \in ApplyRequest
    BY <1>12, <1>req, RequestKind DEF SettleApply, IsAt
  <2>2. p \in Payments /\ payment[p] # NotCreated
    BY <1>12, <1>req, <2>1 DEF ApplyRequest, RequestIsSound, SettleApply, IsAt
  <2>3. payment[p].order \in Orders /\ Placed(payment[p].order)
    BY <2>2 DEF TypeOK, PaymentRow, ChargeInvariant, PaymentsAreLinked
  <2>4. order' \in [Orders -> {NotPlaced} \cup OrderRow]
    BY <1>12, <2>3, SetStatusType DEF SettleApply, OrderStatus
  <2>5. req' \in [Requests -> Request]
    BY <1>12, IdleIsARequest, RequestType DEF SettleApply, Finish
  <2> QED
    BY <1>12, <2>4, <2>5 DEF SettleApply, TypeOK
<1>13. ASSUME NEW r \in Requests, Fail(r)
       PROVE  TypeOK'
  <2>1. req' \in [Requests -> Request]
    BY <1>13, IdleIsARequest, RequestType DEF Fail, Finish
  <2> QED
    BY <1>13, <2>1 DEF Fail, TypeOK
<1>14. ASSUME NEW p \in Payments, NEW o \in Orders, CreateIntent(p, o)
       PROVE  TypeOK'
  <2>1. [status |-> "PROCESSING", order |-> o, refunded |-> FALSE] \in PaymentRow
    BY DEF PaymentRow, PaymentStatus, IntentStatus
  <2> QED
    BY <1>14, <2>1 DEF CreateIntent, TypeOK
<1>15. ASSUME NEW p \in Payments, StripeCaptures(p)
       PROVE  TypeOK'
  BY <1>15 DEF StripeCaptures, TypeOK
<1>16. ASSUME NEW allow \in BOOLEAN, NEW percent \in Percents, UpdatePolicy(allow, percent)
       PROVE  TypeOK'
  BY <1>16, AmountsAreNaturals DEF UpdatePolicy, TypeOK
<1>17. CASE UNCHANGED vars
  BY <1>17 DEF vars, TypeOK
<1>18. ASSUME NEW r \in Requests, NEW o \in Orders, ApproveBegin(r, o)
       PROVE  TypeOK'
  <2>1. [op |-> "approve", order |-> o] \in Request
    BY DEF Request, ApproveRequest
  <2>2. req' \in [Requests -> Request]
    BY <1>18, <2>1, RequestType DEF ApproveBegin, Start
  <2> QED
    BY <1>18, <2>2 DEF ApproveBegin, TypeOK
<1>19. ASSUME NEW r \in Requests, ApproveCommit(r)
       PROVE  TypeOK'
  <2> DEFINE o == req[r].order
  <2>1. req[r] \in ApproveRequest
    BY <1>19, <1>req, RequestKind DEF ApproveCommit, IsAt
  <2>2. o \in Orders /\ Placed(o)
    BY <1>19, <1>req, <2>1 DEF ApproveRequest, RequestIsSound, ApproveCommit, IsAt
  <2>3. order' \in [Orders -> {NotPlaced} \cup OrderRow]
    BY <1>19, <2>2, SetStatusType DEF ApproveCommit, OrderStatus
  <2>4. req' \in [Requests -> Request]
    BY <1>19, IdleIsARequest, RequestType DEF ApproveCommit, Finish
  <2> QED
    BY <1>19, <2>3, <2>4 DEF ApproveCommit, TypeOK
<1>20. ASSUME NEW r \in Requests, NEW p \in Payments, NEW full \in BOOLEAN,
              RepayBegin(r, p, full)
       PROVE  TypeOK'
  <2>1. [op |-> "repay", payment |-> p, full |-> full] \in Request
    BY DEF Request, RepayRequest
  <2>2. req' \in [Requests -> Request]
    BY <1>20, <2>1, RequestType DEF RepayBegin, Start
  <2> QED
    BY <1>20, <2>2 DEF RepayBegin, TypeOK
<1>21. ASSUME NEW r \in Requests, RepayCommit(r)
       PROVE  TypeOK'
  <2>1. PICK p \in Payments, o \in Orders : RepayFacts(r, p, o)
    BY <1>21, RepayKnows
  <2>2. order' \in [Orders -> {NotPlaced} \cup OrderRow]
    BY <2>1, SetStatusType DEF RepayFacts, OrderStatus, TypeOK
  <2>3. payment' \in [Payments -> {NotCreated} \cup PaymentRow]
    BY <2>1 DEF RepayFacts, TypeOK
  <2>4. req' \in [Requests -> Request]
    BY <1>21, IdleIsARequest, RequestType DEF RepayCommit, Finish
  <2> QED
    BY <1>21, <2>2, <2>3, <2>4 DEF RepayCommit, TypeOK
<1> QED
  BY <1>1, <1>2, <1>3, <1>4, <1>5, <1>6, <1>7, <1>8, <1>9, <1>10, <1>11, <1>12,
     <1>13, <1>14, <1>15, <1>16, <1>17, <1>18, <1>19, <1>20, <1>21 DEF Next

-----------------------------------------------------------------------------
(* Charges are kept: what every step does to the rows ChargeInvariant      *)
(* reads.                                                                  *)

Grows ==
    /\ ledger \subseteq ledger'
    /\ captured \subseteq captured'
    /\ \A o \in Orders : Placed(o) =>
         Placed(o)' /\ order'[o].customer = order[o].customer
    /\ \A p \in Payments : payment[p] # NotCreated =>
         payment'[p] # NotCreated /\ payment'[p].order = payment[p].order

\* Then whatever was charged stays charged.
LEMMA ChargeIsKept ==
  ASSUME TypeOK, Grows, NEW o \in Orders
  PROVE  Charged(o) => Charged(o)'
BY DEF TypeOK, Grows, Charged, HasRow, CardPaid, Placed

\* A status update, by itself, grows nothing and loses nothing.
LEMMA SetStatusGrows ==
  ASSUME TypeOK, NEW o \in Orders, Placed(o), NEW s \in OrderStatus, SetStatus(o, s),
         ledger \subseteq ledger', UNCHANGED <<payment, captured>>
  PROVE  Grows
BY SetStatusType DEF Grows, Placed

LEMMA SameRowsGrow ==
  ASSUME ledger \subseteq ledger', UNCHANGED <<order, payment, captured>>
  PROVE  Grows
BY DEF Grows, Placed

\* A request that does not move stays sound when the rows grow.
LEMMA RequestStaysSound ==
  ASSUME TypeOK, Grows, NEW x \in Requests, RequestIsSound(req[x]), req'[x] = req[x]
  PROVE  RequestIsSound(req[x])'
<1> DEFINE q == req[x]
<1>1. q \in Request
  BY DEF TypeOK
<1>2. q.op \in {"update", "accept", "cancel", "refund", "approve"} => q.order \in Orders
  BY <1>1, RequestKind
     DEF UpdateRequest, AcceptRequest, CancelRequest, RefundRequest, ApproveRequest
<1>3. q.op \in {"confirm", "apply", "repay"} => q.payment \in Payments
  BY <1>1, RequestKind DEF ConfirmRequest, ApplyRequest, RepayRequest
<1>4. q.op = "update" => (RequestIsSound(req[x]))'
  BY <1>2, ChargeIsKept DEF RequestIsSound, Grows
<1>5. q.op = "accept" => (RequestIsSound(req[x]))'
  BY <1>2 DEF RequestIsSound, Grows, HasRow
<1>6. q.op \in {"cancel", "refund"} => (RequestIsSound(req[x]))'
  BY <1>2, ChargeIsKept DEF RequestIsSound
<1>7. q.op \in {"confirm", "apply", "repay"} => (RequestIsSound(req[x]))'
  BY <1>3 DEF RequestIsSound, Grows
<1>8. q.op = "approve" => (RequestIsSound(req[x]))'
  BY <1>2 DEF RequestIsSound, Grows
<1>9. q.op \notin {"update", "accept", "cancel", "refund", "confirm", "apply", "approve",
                   "repay"}
        => (RequestIsSound(req[x]))'
  BY DEF RequestIsSound
<1> QED
  BY <1>4, <1>5, <1>6, <1>7, <1>8, <1>9

LEMMA RequestsStaySound ==
  ASSUME TypeOK, Grows, \A x \in Requests : RequestIsSound(req[x]),
         NEW r \in Requests, \A x \in Requests \ {r} : req'[x] = req[x],
         RequestIsSound(req[r])'
  PROVE  (\A x \in Requests : RequestIsSound(req[x]))'
BY RequestStaysSound

\* An idle request holds nothing.
LEMMA IdleIsSound ==
  ASSUME TypeOK, NEW r \in Requests, Finish(r)
  PROVE  RequestIsSound(req[r])'
BY DEF Finish, Idle, RequestIsSound, TypeOK

\* The rows stay linked when no row is added but the ledger's.
LEMMA LinksAreKept ==
  ASSUME TypeOK, Grows, PaymentsAreLinked, UNCHANGED <<payment, captured>>
  PROVE  PaymentsAreLinked'
BY DEF TypeOK, Grows, PaymentsAreLinked, PaymentRow

\* The invariant after a step, from what the step changes: the rows grow, the
\* requests are sound, at most one order gets a new status and at most one
\* order's ledger gets rows.
LEMMA ChargeInvariantFrom ==
  ASSUME TypeOK, TypeOK', ChargeInvariant, Grows,
         (\A x \in Requests : RequestIsSound(req[x]))',
         PaymentsAreLinked',
         NEW o \in Orders,
         \A x \in Orders \ {o} : order'[x] = order[x],
         order'[o] = order[o] \/ (order'[o].status \in PaidStatus => Charged(o)'),
         \A row \in ledger' \ ledger : row.order = o /\ Charged(o)'
  PROVE  ChargeInvariant'
<1>1. OrdersAreCharged'
  BY ChargeIsKept DEF ChargeInvariant, OrdersAreCharged, Placed
<1>2. MoneyOutNeedsCharge'
  <2> SUFFICES ASSUME NEW row \in ledger', row.type # "ORDER_PAYMENT"
               PROVE  Charged(row.order)'
    BY DEF MoneyOutNeedsCharge
  <2>1. CASE row \in ledger
    <3>1. row.order \in Orders
      BY <2>1 DEF TypeOK, LedgerRow
    <3> QED
      BY <2>1, <3>1, ChargeIsKept DEF ChargeInvariant, MoneyOutNeedsCharge
  <2>2. CASE row \notin ledger
    BY <2>2
  <2> QED
    BY <2>1, <2>2
<1>3. LedgerIsLinked'
  BY DEF ChargeInvariant, LedgerIsLinked, Grows, Charged, TypeOK, LedgerRow
<1> QED
  BY <1>1, <1>2, <1>3 DEF ChargeInvariant

\* The case of a step that touches neither orders nor the ledger.
LEMMA ChargeInvariantKept ==
  ASSUME TypeOK, TypeOK', ChargeInvariant, Grows,
         (\A x \in Requests : RequestIsSound(req[x]))',
         PaymentsAreLinked', UNCHANGED <<order, ledger>>
  PROVE  ChargeInvariant'
<1>1. OrdersAreCharged'
  BY ChargeIsKept DEF ChargeInvariant, OrdersAreCharged, Placed
<1>2. MoneyOutNeedsCharge'
  BY ChargeIsKept DEF ChargeInvariant, MoneyOutNeedsCharge, TypeOK, LedgerRow
<1>3. LedgerIsLinked'
  BY DEF ChargeInvariant, LedgerIsLinked, Placed
<1> QED
  BY <1>1, <1>2, <1>3 DEF ChargeInvariant

LEMMA InitChargeInvariant == Init => ChargeInvariant
BY DEF Init, ChargeInvariant, OrdersAreCharged, MoneyOutNeedsCharge, LedgerIsLinked,
       PaymentsAreLinked, RequestIsSound, Placed, Idle

\* Every step keeps the invariant and every charge.
LEMMA ChargeInvariantStep ==
  TypeOK /\ ChargeInvariant /\ [Next]_vars => ChargeInvariant' /\ Grows
<1> SUFFICES ASSUME TypeOK, ChargeInvariant, [Next]_vars PROVE ChargeInvariant' /\ Grows
  OBVIOUS
<1>type. TypeOK'
  BY TypeOKStep
<1>req. \A x \in Requests : req[x] \in Request /\ RequestIsSound(req[x])
  BY DEF TypeOK, ChargeInvariant
<1>links. PaymentsAreLinked /\ OrdersAreCharged
  BY DEF ChargeInvariant
<1>1. ASSUME NEW r \in Requests, NEW c \in Customers, NEW p \in Providers,
             NEW s \in Subtotals, CheckoutBegin(r, c, p, s)
      PROVE  ChargeInvariant' /\ Grows
  <2>1. Grows
    BY <1>1, SameRowsGrow DEF CheckoutBegin
  <2>2. RequestIsSound(req[r])' /\ \A x \in Requests \ {r} : req'[x] = req[x]
    BY <1>1 DEF CheckoutBegin, Start, RequestIsSound, TypeOK
  <2> QED
    BY <1>1, <1>type, <1>req, <1>links, <2>1, <2>2, RequestsStaySound, LinksAreKept,
       ChargeInvariantKept DEF CheckoutBegin
<1>2. ASSUME NEW r \in Requests, NEW o \in Orders, NEW rate \in CommissionRates,
             CheckoutCommit(r, o, rate)
      PROVE  ChargeInvariant' /\ Grows
  <2>1. order'[o].status = "PENDING" /\ \A x \in Orders \ {o} : order'[x] = order[x]
    BY <1>2 DEF CheckoutCommit, TypeOK
  <2>2. Grows
    BY <1>2, <2>1 DEF CheckoutCommit, Grows, Placed
  <2>3. RequestIsSound(req[r])' /\ \A x \in Requests \ {r} : req'[x] = req[x]
    BY <1>2, IdleIsSound DEF CheckoutCommit, Finish, TypeOK
  <2>4. UNCHANGED <<ledger, payment, captured>>
    BY <1>2 DEF CheckoutCommit
  <2>5. order'[o].status \notin PaidStatus
    BY <2>1 DEF PaidStatus
  <2>6. (\A x \in Requests : RequestIsSound(req[x]))'
    BY <1>req, <2>2, <2>3, RequestsStaySound
  <2>7. PaymentsAreLinked'
    BY <1>links, <2>2, <2>4, LinksAreKept
  <2> QED
    BY <1>type, <2>1, <2>2, <2>4, <2>5, <2>6, <2>7, ChargeInvariantFrom
<1>3. ASSUME NEW r \in Requests, NEW o \in Orders, NEW next \in OrderStatus,
             UpdateBegin(r, o, next)
      PROVE  ChargeInvariant' /\ Grows
  <2>1. Grows /\ UNCHANGED <<order, ledger, payment, captured>>
    BY <1>3, SameRowsGrow DEF UpdateBegin
  <2>2. req'[r] = [op |-> "update", order |-> o, seen |-> order[o].status, next |-> next]
          /\ \A x \in Requests \ {r} : req'[x] = req[x]
    BY <1>3 DEF UpdateBegin, Start, TypeOK
  <2>3. order[o].status \in PaidStatus => Charged(o)'
    BY <1>3, <1>links, <2>1, ChargeIsKept DEF UpdateBegin, OrdersAreCharged
  <2>4. RequestIsSound(req[r])'
    BY <1>3, <2>1, <2>2, <2>3 DEF UpdateBegin, RequestIsSound, Placed
  <2> QED
    BY <1>type, <1>req, <1>links, <2>1, <2>2, <2>4, RequestsStaySound, LinksAreKept,
       ChargeInvariantKept
<1>4. ASSUME NEW r \in Requests, DebitCheck(r)
      PROVE  ChargeInvariant' /\ Grows
  <2> DEFINE o == req[r].order
  <2>1. Grows /\ UNCHANGED <<order, ledger, payment, captured>>
    BY <1>4, SameRowsGrow DEF DebitCheck
  <2>2. Placed(o)
    BY <1>4, <1>req DEF DebitCheck, RequestIsSound, IsAt
  <2>3. /\ \A x \in Requests \ {r} : req'[x] = req[x]
        /\ req'[r].op = "accept" /\ req'[r].order = o
        /\ req'[r].charge \/ HasRow(order[o].customer, o, "ORDER_PAYMENT")
    BY <1>4 DEF DebitCheck, Continue, TypeOK
  <2>4. RequestIsSound(req[r])'
    BY <2>1, <2>2, <2>3 DEF RequestIsSound, Placed, HasRow
  <2> QED
    BY <1>type, <1>req, <1>links, <2>1, <2>3, <2>4, RequestsStaySound, LinksAreKept,
       ChargeInvariantKept
<1>5. ASSUME NEW r \in Requests, AcceptCommit(r)
      PROVE  ChargeInvariant' /\ Grows
  <2> DEFINE q == req[r]
  <2>0. /\ q.order \in Orders /\ Placed(q.order)
        /\ ~q.charge => HasRow(order[q.order].customer, q.order, "ORDER_PAYMENT")
    BY <1>5, <1>req, RequestKind DEF AcceptCommit, IsAt, RequestIsSound, AcceptRequest
  <2>1. PICK o \in Orders, c \in Customers :
            /\ o = q.order /\ c = order[o].customer /\ Placed(o)
            /\ ~q.charge => HasRow(c, o, "ORDER_PAYMENT")
    BY <2>0, <1>type, PlacedRow
  <2> DEFINE charge == [wallet |-> c, order |-> o, type |-> "ORDER_PAYMENT",
                        amount |-> order[o].total]
  <2>2. SetStatus(o, "ACCEPTED") /\ UNCHANGED <<payment, captured>>
    BY <1>5, <2>1 DEF AcceptCommit
  <2>3. ledger' = ledger \cup {charge} \/ (~q.charge /\ ledger' = ledger)
    BY <1>5, <2>1 DEF AcceptCommit
  <2>4. Grows
    BY <2>1, <2>2, <2>3, SetStatusGrows DEF OrderStatus
  <2>5. Placed(o)' /\ order'[o].customer = c /\ \A x \in Orders \ {o} : order'[x] = order[x]
    BY <2>1, <2>2, SetStatusType DEF OrderStatus
  <2>6. HasRow(c, o, "ORDER_PAYMENT")'
    <3>1. CASE ledger' = ledger \cup {charge}
      <4>1. charge \in ledger' /\ charge.wallet = c /\ charge.order = o
              /\ charge.type = "ORDER_PAYMENT"
        BY <3>1
      <4> QED
        BY <4>1 DEF HasRow
    <3>2. CASE ~q.charge /\ ledger' = ledger
      BY <2>1, <2>5, <3>2 DEF HasRow
    <3> QED
      BY <2>3, <3>1, <3>2
  <2>7. Charged(o)'
    BY <2>5, <2>6 DEF Charged, HasRow
  <2>8. RequestIsSound(req[r])' /\ \A x \in Requests \ {r} : req'[x] = req[x]
    BY <1>5, IdleIsSound DEF AcceptCommit, Finish, TypeOK
  <2>9. (\A x \in Requests : RequestIsSound(req[x]))'
    BY <1>req, <2>4, <2>8, RequestsStaySound
  <2>10. PaymentsAreLinked'
    BY <1>links, <2>2, <2>4, LinksAreKept
  <2>11. \A row \in ledger' \ ledger : row.order = o
    BY <2>3
  <2> QED
    BY <1>type, <2>1, <2>4, <2>5, <2>7, <2>9, <2>10, <2>11, ChargeInvariantFrom
<1>6. ASSUME NEW r \in Requests, UpdateCommit(r)
      PROVE  ChargeInvariant' /\ Grows
  <2> DEFINE q == req[r]
  <2>0. q \in UpdateRequest /\ RequestIsSound(q) /\ q.op = "update"
    BY <1>6, <1>req, RequestKind DEF UpdateCommit, IsAt
  <2>1. PICK o \in Orders, next \in OrderStatus :
          /\ o = q.order /\ next = q.next /\ Placed(o)
          /\ <<q.seen, next>> \in Transitions /\ (q.seen \in PaidStatus => Charged(o))
    BY <2>0 DEF RequestIsSound, UpdateRequest
  <2>2. /\ SetStatus(o, next) /\ ~Accepts(q) /\ UNCHANGED <<payment, captured>>
        /\ ledger' = ledger \cup Posting(next \in {"DELIVERED", "COMPLETED"},
                        order[o].provider, o, "ORDER_EARNING", order[o].total)
    BY <1>6, <2>1 DEF UpdateCommit
  <2>3. Grows
    BY <2>1, <2>2, SetStatusGrows
  <2>4. order'[o].status = next /\ \A x \in Orders \ {o} : order'[x] = order[x]
    BY <2>1, <2>2, SetStatusType
  <2>5. next \in PaidStatus => Charged(o)'
    <3> SUFFICES ASSUME next \in PaidStatus PROVE Charged(o)'
      OBVIOUS
    <3>1. q.seen \in PaidStatus
      BY <2>1, <2>2, TransitionFacts DEF Accepts
    <3> QED
      BY <2>1, <2>3, <3>1, ChargeIsKept
  <2>6. \A row \in ledger' \ ledger : row.order = o /\ Charged(o)'
    BY <2>2, <2>5 DEF Posting, PaidStatus
  <2>7. RequestIsSound(req[r])' /\ \A x \in Requests \ {r} : req'[x] = req[x]
    BY <1>6, IdleIsSound DEF UpdateCommit, Finish, TypeOK
  <2>8. (\A x \in Requests : RequestIsSound(req[x]))'
    BY <1>req, <2>3, <2>7, RequestsStaySound
  <2>9. PaymentsAreLinked'
    BY <1>links, <2>2, <2>3, LinksAreKept
  <2> QED
    BY <1>type, <2>1, <2>3, <2>4, <2>5, <2>6, <2>8, <2>9, ChargeInvariantFrom
<1>7. ASSUME NEW r \in Requests, NEW o \in Orders, CancelBegin(r, o)
      PROVE  ChargeInvariant' /\ Grows
  <2>1. Grows /\ UNCHANGED <<order, ledger, payment, captured>>
    BY <1>7, SameRowsGrow DEF CancelBegin
  <2>2. Placed(o) /\ order[o].status \in PaidStatus
    BY <1>7, StatusMeansPlaced DEF CancelBegin, PaidStatus, OrderStatus
  <2>3. Charged(o)'
    BY <1>links, <2>1, <2>2, ChargeIsKept DEF OrdersAreCharged
  <2>4. /\ req'[r].op = "cancel" /\ req'[r].order = o
        /\ \A x \in Requests \ {r} : req'[x] = req[x]
    BY <1>7 DEF CancelBegin, Start, TypeOK
  <2>5. RequestIsSound(req[r])'
    BY <2>3, <2>4 DEF RequestIsSound
  <2> QED
    BY <1>type, <1>req, <1>links, <2>1, <2>4, <2>5, RequestsStaySound, LinksAreKept,
       ChargeInvariantKept
<1>8. ASSUME NEW r \in Requests, CancelFindPlatform(r)
      PROVE  ChargeInvariant' /\ Grows
  <2> DEFINE o == req[r].order
  <2>1. Grows /\ UNCHANGED <<order, ledger, payment, captured>>
    BY <1>8, SameRowsGrow DEF CancelFindPlatform
  <2>2. o \in Orders /\ Charged(o)
    BY <1>8, <1>req, RequestKind DEF CancelFindPlatform, IsAt, RequestIsSound, CancelRequest
  <2>3. /\ req'[r].op = "refund" /\ req'[r].order = o
        /\ \A x \in Requests \ {r} : req'[x] = req[x]
    BY <1>8 DEF CancelFindPlatform, Continue, TypeOK
  <2>4. RequestIsSound(req[r])'
    BY <2>1, <2>2, <2>3, ChargeIsKept DEF RequestIsSound
  <2> QED
    BY <1>type, <1>req, <1>links, <2>1, <2>3, <2>4, RequestsStaySound, LinksAreKept,
       ChargeInvariantKept
<1>9. ASSUME NEW r \in Requests, CancelCommit(r)
      PROVE  ChargeInvariant' /\ Grows
  <2> DEFINE q == req[r]
  <2>1. PICK o \in Orders : o = q.order /\ Charged(o) /\ Placed(o)
    BY <1>9, <1>req, RequestKind
       DEF CancelCommit, IsAt, RequestIsSound, RefundRequest, Charged
  <2>2. SetStatus(o, "CANCELLED") /\ UNCHANGED <<payment, captured>>
    BY <1>9, <2>1 DEF CancelCommit
  <2>3. ledger \subseteq ledger' /\ \A row \in ledger' \ ledger : row.order = o
    <3> DEFINE c == order[o].customer
               deduction == Percent(order[o].total, q.percent)
               refund == order[o].total - deduction
    <3>1. \/ ledger' = ledger \cup Posting(refund > 0, c, o, "REFUND", refund)
          \/ \E w \in PlatformWallets :
               ledger' = ledger \cup Posting(refund > 0, c, o, "REFUND", refund)
                                \cup Posting(TRUE, w, o, "PLATFORM_FEE", deduction)
      BY <1>9, <2>1 DEF CancelCommit
    <3> HIDE DEF deduction, refund, c
    <3> QED
      BY <3>1 DEF Posting
  <2>4. Grows
    BY <2>1, <2>2, <2>3, SetStatusGrows DEF OrderStatus
  <2>5. order'[o].status = "CANCELLED" /\ \A x \in Orders \ {o} : order'[x] = order[x]
    BY <2>1, <2>2, SetStatusType DEF OrderStatus
  <2>6. Charged(o)'
    BY <2>1, <2>4, ChargeIsKept
  <2>7. RequestIsSound(req[r])' /\ \A x \in Requests \ {r} : req'[x] = req[x]
    BY <1>9, IdleIsSound DEF CancelCommit, Finish, TypeOK
  <2>8. (\A x \in Requests : RequestIsSound(req[x]))'
    BY <1>req, <2>4, <2>7, RequestsStaySound
  <2>9. PaymentsAreLinked'
    BY <1>links, <2>2, <2>4, LinksAreKept
  <2> QED
    BY <1>type, <2>1, <2>3, <2>4, <2>5, <2>6, <2>8, <2>9, ChargeInvariantFrom
<1>10. ASSUME NEW r \in Requests, NEW p \in Payments, SettleBegin(r, p)
       PROVE  ChargeInvariant' /\ Grows
  <2>1. Grows /\ UNCHANGED <<order, ledger, payment, captured>>
    BY <1>10, SameRowsGrow DEF SettleBegin
  <2>2. payment[p] # NotCreated
    BY <1>10 DEF SettleBegin, NotCreated
  <2>3. /\ req'[r].op = "confirm" /\ req'[r].payment = p
        /\ \A x \in Requests \ {r} : req'[x] = req[x]
    BY <1>10 DEF SettleBegin, Start, TypeOK
  <2>4. RequestIsSound(req[r])'
    BY <2>1, <2>2, <2>3 DEF RequestIsSound
  <2> QED
    BY <1>type, <1>req, <1>links, <2>1, <2>3, <2>4, RequestsStaySound, LinksAreKept,
       ChargeInvariantKept
<1>11. ASSUME NEW r \in Requests, NEW outcome \in IntentStatus,
              SettleRecord(r, outcome)
       PROVE  ChargeInvariant' /\ Grows
  <2>1. PICK p \in Payments : p = req[r].payment /\ payment[p] # NotCreated
    BY <1>11, <1>req, RequestKind DEF SettleRecord, IsAt, RequestIsSound, ConfirmRequest
  <2>2. /\ payment' = [payment EXCEPT ![p] = WithStatus(@, outcome)]
        /\ outcome = "SUCCEEDED" => p \in captured
        /\ UNCHANGED <<order, ledger, captured>>
    BY <1>11, <2>1 DEF SettleRecord
  <2>3. payment[p] \in PaymentRow /\ payment \in [Payments -> {NotCreated} \cup PaymentRow]
    BY <2>1 DEF TypeOK
  <2>4. /\ WithStatus(payment[p], outcome) # NotCreated
        /\ WithStatus(payment[p], outcome).order = payment[p].order
    BY <2>3, WithStatusPayment, RowIsCreated DEF PaymentStatus
  <2>5. /\ payment'[p] # NotCreated /\ payment'[p].order = payment[p].order
        /\ \A x \in Payments \ {p} : payment'[x] = payment[x]
    BY <2>2, <2>3, <2>4
  <2>6. Grows
    BY <2>2, <2>5 DEF Grows, Placed
  <2>7. PaymentsAreLinked'
    BY <1>links, <2>1, <2>2, <2>5 DEF PaymentsAreLinked, Placed, TypeOK
  <2>8. RequestIsSound(req[r])' /\ \A x \in Requests \ {r} : req'[x] = req[x]
    <3>1. CASE outcome \in {"CANCELLED", "PROCESSING"}
      BY <1>11, <3>1, IdleIsSound DEF SettleRecord, Finish, TypeOK
    <3>2. CASE outcome \notin {"CANCELLED", "PROCESSING"}
      <4>1. req' = [req EXCEPT ![r] = [op |-> "apply", payment |-> p, outcome |-> outcome]]
        BY <1>11, <2>1, <3>2 DEF SettleRecord, Continue
      <4> QED
        BY <2>2, <2>5, <4>1 DEF RequestIsSound, TypeOK
    <3> QED
      BY <3>1, <3>2
  <2>9. (\A x \in Requests : RequestIsSound(req[x]))'
    BY <1>req, <2>6, <2>8, RequestsStaySound
  <2> QED
    BY <1>type, <2>2, <2>6, <2>7, <2>9, ChargeInvariantKept
<1>12. ASSUME NEW r \in Requests, SettleApply(r)
       PROVE  ChargeInvariant' /\ Grows
  <2>1. PICK p \in Payments : /\ p = req[r].payment /\ payment[p] # NotCreated
                              /\ req[r].outcome = "SUCCEEDED" => p \in captured
    BY <1>12, <1>req, RequestKind DEF SettleApply, IsAt, RequestIsSound, ApplyRequest
  <2>2. PICK o \in Orders : o = payment[p].order /\ Placed(o)
    BY <1>links, <2>1 DEF PaymentsAreLinked, TypeOK, PaymentRow
  <2>3. PICK s \in OrderStatus : /\ SetStatus(o, s)
                                 /\ s = "ACCEPTED" => req[r].outcome = "SUCCEEDED"
                                 /\ s \in {"ACCEPTED", "CANCELLED"}
    BY <1>12, <2>1, <2>2 DEF SettleApply, OrderStatus
  <2>4. UNCHANGED <<ledger, payment, captured>>
    BY <1>12 DEF SettleApply
  <2>5. Grows
    BY <2>2, <2>3, <2>4, SetStatusGrows
  <2>6. Placed(o)' /\ order'[o].status = s /\ \A x \in Orders \ {o} : order'[x] = order[x]
    BY <2>2, <2>3, SetStatusType
  <2>7. s \in PaidStatus => Charged(o)'
    BY <2>1, <2>2, <2>3, <2>4, <2>6 DEF Charged, CardPaid, PaidStatus
  <2>8. RequestIsSound(req[r])' /\ \A x \in Requests \ {r} : req'[x] = req[x]
    BY <1>12, IdleIsSound DEF SettleApply, Finish, TypeOK
  <2>9. (\A x \in Requests : RequestIsSound(req[x]))'
    BY <1>req, <2>5, <2>8, RequestsStaySound
  <2>10. PaymentsAreLinked'
    BY <1>links, <2>4, <2>5, LinksAreKept
  <2> QED
    BY <1>type, <2>4, <2>5, <2>6, <2>7, <2>9, <2>10, ChargeInvariantFrom
<1>13. ASSUME NEW r \in Requests, Fail(r)
       PROVE  ChargeInvariant' /\ Grows
  <2>1. Grows /\ UNCHANGED <<order, ledger, payment, captured>>
    BY <1>13, SameRowsGrow DEF Fail
  <2>2. RequestIsSound(req[r])' /\ \A x \in Requests \ {r} : req'[x] = req[x]
    BY <1>13, IdleIsSound DEF Fail, Finish, TypeOK
  <2> QED
    BY <1>type, <1>req, <1>links, <2>1, <2>2, RequestsStaySound, LinksAreKept,
       ChargeInvariantKept
<1>14. ASSUME NEW p \in Payments, NEW o \in Orders, CreateIntent(p, o)
       PROVE  ChargeInvariant' /\ Grows
  <2>1. /\ payment[p] = NotCreated /\ Placed(o)
        /\ payment' = [payment EXCEPT ![p] = [status |-> "PROCESSING", order |-> o,
                                              refunded |-> FALSE]]
        /\ UNCHANGED <<order, ledger, captured, req>>
    BY <1>14 DEF CreateIntent
  <2>2. /\ payment'[p].order = o /\ payment'[p] # NotCreated
        /\ \A x \in Payments \ {p} : payment'[x] = payment[x]
    BY <2>1 DEF TypeOK, NotCreated
  <2>3. Grows
    BY <2>1, <2>2 DEF Grows, Placed
  <2>4. PaymentsAreLinked'
    BY <1>links, <2>1, <2>2 DEF PaymentsAreLinked, Placed, TypeOK
  <2>5. (\A x \in Requests : RequestIsSound(req[x]))'
    BY <1>req, <2>1, <2>3, RequestStaysSound
  <2> QED
    BY <1>type, <2>1, <2>3, <2>4, <2>5, ChargeInvariantKept
<1>15. ASSUME NEW p \in Payments, StripeCaptures(p)
       PROVE  ChargeInvariant' /\ Grows
  <2>1. /\ payment[p] # NotCreated /\ captured' = captured \cup {p}
        /\ UNCHANGED <<order, ledger, payment, req>>
    BY <1>15 DEF StripeCaptures
  <2>2. Grows
    BY <2>1 DEF Grows, Placed
  <2>3. PaymentsAreLinked'
    BY <1>links, <2>1 DEF PaymentsAreLinked, Placed
  <2>4. (\A x \in Requests : RequestIsSound(req[x]))'
    BY <1>req, <2>1, <2>2, RequestStaysSound
  <2> QED
    BY <1>type, <2>1, <2>2, <2>3, <2>4, ChargeInvariantKept
<1>16. ASSUME NEW allow \in BOOLEAN, NEW percent \in Percents, UpdatePolicy(allow, percent)
       PROVE  ChargeInvariant' /\ Grows
  <2>1. UNCHANGED <<order, ledger, payment, captured, req>> /\ Grows
    BY <1>16, SameRowsGrow DEF UpdatePolicy
  <2> QED
    BY <1>type, <1>req, <1>links, <2>1, RequestStaysSound, LinksAreKept, ChargeInvariantKept
<1>17. CASE UNCHANGED vars
  <2>1. UNCHANGED <<order, ledger, payment, captured, req>> /\ Grows
    BY <1>17, SameRowsGrow DEF vars
  <2> QED
    BY <1>type, <1>req, <1>links, <2>1, RequestStaysSound, LinksAreKept, ChargeInvariantKept
<1>18. ASSUME NEW r \in Requests, NEW o \in Orders, ApproveBegin(r, o)
       PROVE  ChargeInvariant' /\ Grows
  <2>1. Grows /\ UNCHANGED <<order, ledger, payment, captured>> /\ Placed(o)
    BY <1>18, SameRowsGrow DEF ApproveBegin
  <2>2. /\ req'[r].op = "approve" /\ req'[r].order = o
        /\ \A x \in Requests \ {r} : req'[x] = req[x]
    BY <1>18 DEF ApproveBegin, Start, TypeOK
  <2>3. RequestIsSound(req[r])'
    BY <2>1, <2>2 DEF RequestIsSound, Grows
  <2> QED
    BY <1>type, <1>req, <1>links, <2>1, <2>2, <2>3, RequestsStaySound, LinksAreKept,
       ChargeInvariantKept
<1>19. ASSUME NEW r \in Requests, ApproveCommit(r)
       PROVE  ChargeInvariant' /\ Grows
  <2>1. PICK o \in Orders : o = req[r].order /\ Placed(o)
    BY <1>19, <1>req, RequestKind DEF ApproveCommit, IsAt, RequestIsSound, ApproveRequest
  <2>2. SetStatus(o, "CANCELLED") /\ UNCHANGED <<ledger, payment, captured>>
    BY <1>19, <2>1 DEF ApproveCommit
  <2>3. Grows
    BY <2>1, <2>2, SetStatusGrows DEF OrderStatus
  <2>4. order'[o].status = "CANCELLED" /\ \A x \in Orders \ {o} : order'[x] = order[x]
    BY <2>1, <2>2, SetStatusType DEF OrderStatus
  <2>5. order'[o].status \notin PaidStatus
    BY <2>4 DEF PaidStatus
  <2>6. RequestIsSound(req[r])' /\ \A x \in Requests \ {r} : req'[x] = req[x]
    BY <1>19, IdleIsSound DEF ApproveCommit, Finish, TypeOK
  <2>7. (\A x \in Requests : RequestIsSound(req[x]))'
    BY <1>req, <2>3, <2>6, RequestsStaySound
  <2>8. PaymentsAreLinked'
    BY <1>links, <2>2, <2>3, LinksAreKept
  <2> QED
    BY <1>type, <2>2, <2>3, <2>4, <2>5, <2>7, <2>8, ChargeInvariantFrom
<1>20. ASSUME NEW r \in Requests, NEW p \in Payments, NEW full \in BOOLEAN,
              RepayBegin(r, p, full)
       PROVE  ChargeInvariant' /\ Grows
  <2>1. Grows /\ UNCHANGED <<order, ledger, payment, captured>>
    BY <1>20, SameRowsGrow DEF RepayBegin
  <2>2. payment[p] # NotCreated
    BY <1>20 DEF RepayBegin, NotCreated
  <2>3. /\ req'[r].op = "repay" /\ req'[r].payment = p
        /\ \A x \in Requests \ {r} : req'[x] = req[x]
    BY <1>20 DEF RepayBegin, Start, TypeOK
  <2>4. RequestIsSound(req[r])'
    BY <2>1, <2>2, <2>3 DEF RequestIsSound
  <2> QED
    BY <1>type, <1>req, <1>links, <2>1, <2>3, <2>4, RequestsStaySound, LinksAreKept,
       ChargeInvariantKept
<1>21. ASSUME NEW r \in Requests, RepayCommit(r)
       PROVE  ChargeInvariant' /\ Grows
  <2>1. PICK p \in Payments, o \in Orders : RepayFacts(r, p, o)
    BY <1>21, RepayKnows
  <2>2. UNCHANGED <<ledger, captured>>
    BY <1>21 DEF RepayCommit
  <2>3. /\ payment'[p] # NotCreated /\ payment'[p].order = payment[p].order
        /\ \A x \in Payments \ {p} : payment'[x] = payment[x]
    BY <2>1, RowIsCreated DEF RepayFacts, TypeOK
  <2>4. /\ Placed(o)' /\ order'[o].customer = order[o].customer
        /\ \A x \in Orders \ {o} : order'[x] = order[x]
        /\ order'[o] = order[o] \/ order'[o].status = "CANCELLED"
    BY <2>1, SetStatusType DEF RepayFacts, OrderStatus, Placed
  <2>5. Grows
    BY <2>2, <2>3, <2>4 DEF Grows, Placed
  <2>6. PaymentsAreLinked'
    BY <1>links, <2>1, <2>2, <2>3, <2>5 DEF PaymentsAreLinked, Grows, RepayFacts, TypeOK, PaymentRow
  <2>7. RequestIsSound(req[r])' /\ \A x \in Requests \ {r} : req'[x] = req[x]
    BY <1>21, IdleIsSound DEF RepayCommit, Finish, TypeOK
  <2>8. (\A x \in Requests : RequestIsSound(req[x]))'
    BY <1>req, <2>5, <2>7, RequestsStaySound
  <2>9. order'[o] = order[o] \/ order'[o].status \notin PaidStatus
    BY <2>4 DEF PaidStatus
  <2> QED
    BY <1>type, <2>2, <2>4, <2>5, <2>6, <2>8, <2>9, ChargeInvariantFrom
<1> QED
  BY <1>1, <1>2, <1>3, <1>4, <1>5, <1>6, <1>7, <1>8, <1>9, <1>10, <1>11, <1>12,
     <1>13, <1>14, <1>15, <1>16, <1>17, <1>18, <1>19, <1>20, <1>21 DEF Next

-----------------------------------------------------------------------------
(* What a step posts.  Three actions add ledger rows; everything the       *)
(* ledger properties need of them is that the rows are fresh and that the  *)
(* wallets move by them.                                                   *)

\* The rows a step adds: each new to its wallet, order and type, and no two of
\* them in the same wallet; all for one order.
Fresh ==
    /\ \A row \in ledger' \ ledger :
         /\ ~HasRow(row.wallet, row.order, row.type)
         /\ \A other \in ledger' \ ledger :
              other.order = row.order /\ (other.wallet = row.wallet => other = row)

\* A wallet moves by the row it gets, and otherwise not at all.
Moves(w) ==
    \/ (\A row \in ledger' \ ledger : row.wallet # w) /\ Funds(w)' = Funds(w)
    \/ \E row \in ledger' \ ledger : row.wallet = w /\ Funds(w)' = Funds(w) + Signed(row)

LEMMA AcceptPosts ==
  ASSUME TypeOK, ChargeInvariant, NEW r \in Requests, AcceptCommit(r)
  PROVE  Fresh /\ \A w \in Wallets : Moves(w)
<1> DEFINE q == req[r]
<1>1. PICK o \in Orders, c \in Customers, total \in Nat, giftUsed \in Int :
        o = q.order /\ c = order[o].customer /\ total = order[o].total /\ giftUsed = q.giftUsed
  <2>1. q \in AcceptRequest /\ RequestIsSound(q) /\ q.op = "accept"
    BY RequestKind DEF AcceptCommit, IsAt, TypeOK, ChargeInvariant
  <2>2. q.order \in Orders /\ q.giftUsed \in Int /\ Placed(q.order)
    BY <2>1 DEF AcceptRequest, RequestIsSound
  <2> QED
    BY <2>2, PlacedRow
<1> DEFINE row == [wallet |-> c, order |-> o, type |-> "ORDER_PAYMENT", amount |-> total]
<1>2. CASE UNCHANGED <<ledger, giftCredits, balance>>
  BY <1>2 DEF Fresh, Moves, Funds
<1>3. CASE /\ ~HasRow(c, o, "ORDER_PAYMENT")
           /\ ledger' = ledger \cup {row}
           /\ giftCredits' = [giftCredits EXCEPT ![c] = @ - giftUsed]
           /\ balance' = [balance EXCEPT ![c] = @ - (total - giftUsed)]
  <2>1. row.wallet = c /\ row.order = o /\ row.type = "ORDER_PAYMENT" /\ row.amount = total
    OBVIOUS
  <2> HIDE DEF row
  <2>2. row \notin ledger
    BY <1>3, <2>1 DEF HasRow
  <2>3. ledger' \ ledger = {row}
    BY <1>3, <2>2
  <2>4. Fresh
    BY <1>3, <2>1, <2>3 DEF Fresh
  <2>5. Funds(c)' = Funds(c) + Signed(row)
    BY <1>3, <2>1 DEF Funds, Signed, TypeOK, Wallets
  <2>6. \A w \in Wallets \ {c} : Funds(w)' = Funds(w)
    BY <1>3 DEF Funds, TypeOK, Wallets
  <2> QED
    BY <2>1, <2>3, <2>4, <2>5, <2>6 DEF Moves
<1> QED
  BY <1>1, <1>2, <1>3 DEF AcceptCommit

\* What Posting and Credit return together: nothing and 0, or a row that is new
\* to the wallet and its amount.
Posts(rows, x, w, o, t) ==
    \/ rows = {} /\ x = 0
    \/ /\ rows = {[wallet |-> w, order |-> o, type |-> t, amount |-> x]}
       /\ ~HasRow(w, o, t)

\* Up to two postings into two wallets, neither of them a charge.
LEMMA PostingsMove ==
  ASSUME TypeOK, NEW a \in Wallets, NEW b, a # b, NEW o, NEW t, NEW u,
         "ORDER_PAYMENT" \notin {t, u}, NEW x \in Nat, NEW y \in Nat, NEW A, NEW B,
         Posts(A, x, a, o, t),
         Posts(B, y, b, o, u),
         ledger' = ledger \cup A \cup B,
         UNCHANGED giftCredits,
         \A w \in Wallets : balance'[w] = balance[w] + (IF w = a THEN x ELSE 0)
                                                     + (IF w = b THEN y ELSE 0)
  PROVE  Fresh /\ \A w \in Wallets : Moves(w)
<1> DEFINE rowA == [wallet |-> a, order |-> o, type |-> t, amount |-> x]
           rowB == [wallet |-> b, order |-> o, type |-> u, amount |-> y]
<1>1. /\ rowA.wallet = a /\ rowA.order = o /\ rowA.type = t /\ rowA.amount = x
      /\ rowB.wallet = b /\ rowB.order = o /\ rowB.type = u /\ rowB.amount = y
  OBVIOUS
<1>2. /\ (A = {} /\ x = 0) \/ (A = {rowA} /\ ~HasRow(a, o, t))
      /\ (B = {} /\ y = 0) \/ (B = {rowB} /\ ~HasRow(b, o, u))
  BY DEF Posts
<1> HIDE DEF rowA, rowB
<1>3. ledger' \ ledger = A \cup B
  BY <1>1, <1>2 DEF HasRow
<1>4. Fresh
  BY <1>1, <1>2, <1>3 DEF Fresh
<1>5. \A w \in Wallets : Funds(w)' = Funds(w) + (IF w = a THEN x ELSE 0)
                                             + (IF w = b THEN y ELSE 0)
  BY DEF Funds, TypeOK, Wallets
<1>6. \A w \in Wallets : Funds(w) \in Int
  BY DEF Funds, TypeOK, Wallets
<1>7. ASSUME NEW w \in Wallets PROVE Moves(w)
  <2>1. CASE w = a
    BY <1>1, <1>2, <1>3, <1>5, <1>6, <2>1 DEF Moves, Signed
  <2>2. CASE w = b
    BY <1>1, <1>2, <1>3, <1>5, <1>6, <2>2 DEF Moves, Signed
  <2>3. CASE w # a /\ w # b
    BY <1>1, <1>2, <1>3, <1>5, <1>6, <2>3 DEF Moves
  <2> QED
    BY <2>1, <2>2, <2>3
<1> QED
  BY <1>4, <1>7

\* One posting, not a charge.
LEMMA PostingMoves ==
  ASSUME TypeOK, NEW a \in Wallets, NEW o, NEW t, t # "ORDER_PAYMENT",
         NEW x \in Nat, NEW A,
         Posts(A, x, a, o, t),
         ledger' = ledger \cup A,
         UNCHANGED giftCredits,
         \A w \in Wallets : balance'[w] = balance[w] + (IF w = a THEN x ELSE 0)
  PROVE  Fresh /\ \A w \in Wallets : Moves(w)
<1> DEFINE rowA == [wallet |-> a, order |-> o, type |-> t, amount |-> x]
<1>1. rowA.wallet = a /\ rowA.order = o /\ rowA.type = t /\ rowA.amount = x
  OBVIOUS
<1>2. (A = {} /\ x = 0) \/ (A = {rowA} /\ ~HasRow(a, o, t))
  BY DEF Posts
<1> HIDE DEF rowA
<1>3. ledger' \ ledger = A
  BY <1>1, <1>2 DEF HasRow
<1>4. Fresh
  BY <1>1, <1>2, <1>3 DEF Fresh
<1>5. \A w \in Wallets : /\ Funds(w) \in Int
                         /\ Funds(w)' = Funds(w) + (IF w = a THEN x ELSE 0)
  BY DEF Funds, TypeOK, Wallets
<1> QED
  BY <1>1, <1>2, <1>3, <1>4, <1>5 DEF Moves, Signed

LEMMA UpdatePosts ==
  ASSUME TypeOK, ChargeInvariant, NEW r \in Requests, UpdateCommit(r)
  PROVE  Fresh /\ \A w \in Wallets : Moves(w)
<1> DEFINE q == req[r]
<1>1. PICK o \in Orders, p \in Wallets, total \in Nat :
        o = q.order /\ p = order[o].provider /\ total = order[o].total
  <2>1. q \in UpdateRequest /\ RequestIsSound(q) /\ q.op = "update"
    BY RequestKind DEF UpdateCommit, IsAt, TypeOK, ChargeInvariant
  <2> QED
    BY <2>1, PlacedRow, WalletsOf DEF UpdateRequest, RequestIsSound
<1> DEFINE due == q.next \in {"DELIVERED", "COMPLETED"}
           A == Posting(due, p, o, "ORDER_EARNING", total)
           x == Credit(due, p, o, "ORDER_EARNING", total)
<1>2. x \in Nat
  BY DEF Credit
<1>3. Posts(A, x, p, o, "ORDER_EARNING")
  BY DEF Posts, Posting, Credit
<1>4. /\ ledger' = ledger \cup A
      /\ balance' = [balance EXCEPT ![p] = @ + x]
      /\ UNCHANGED giftCredits
  BY <1>1 DEF UpdateCommit
<1> HIDE DEF A, x
<1>5. \A w \in Wallets : balance'[w] = balance[w] + (IF w = p THEN x ELSE 0)
  BY <1>2, <1>4 DEF TypeOK
<1>6. "ORDER_EARNING" # "ORDER_PAYMENT"
  OBVIOUS
<1> QED
  BY <1>2, <1>3, <1>4, <1>5, <1>6, PostingMoves

LEMMA CancelPosts ==
  ASSUME TypeOK, ChargeInvariant, NEW r \in Requests, CancelCommit(r)
  PROVE  Fresh /\ \A w \in Wallets : Moves(w)
<1> DEFINE q == req[r]
<1>1. PICK o \in Orders, c \in Customers, total \in Nat, percent \in 0..100 :
        /\ o = q.order /\ c = order[o].customer /\ total = order[o].total
        /\ percent = q.percent
  <2>1. q \in RefundRequest /\ RequestIsSound(q) /\ q.op = "refund"
    BY RequestKind DEF CancelCommit, IsAt, TypeOK, ChargeInvariant
  <2> QED
    BY <2>1, PlacedRow DEF RefundRequest, RequestIsSound, Charged
<1> DEFINE deduction == Percent(total, percent)
           refund == total - deduction
           A == Posting(refund > 0, c, o, "REFUND", refund)
           x == Credit(refund > 0, c, o, "REFUND", refund)
           B(w) == Posting(TRUE, w, o, "PLATFORM_FEE", deduction)
           y(w) == Credit(TRUE, w, o, "PLATFORM_FEE", deduction)
<1>2. deduction \in Nat
  BY PercentType
<1>3. /\ UNCHANGED giftCredits
      /\ \/ ledger' = ledger \cup A /\ balance' = [balance EXCEPT ![c] = @ + x]
         \/ \E w \in PlatformWallets :
              /\ ledger' = ledger \cup A \cup B(w)
              /\ balance' = [balance EXCEPT ![c] = @ + x, ![w] = @ + y(w)]
  BY <1>1 DEF CancelCommit
<1> HIDE DEF deduction
<1>4. x \in Nat /\ Posts(A, x, c, o, "REFUND")
  BY <1>2 DEF Posts, Posting, Credit
<1>5. \A w : y(w) \in Nat /\ Posts(B(w), y(w), w, o, "PLATFORM_FEE")
  BY <1>2 DEF Posts, Posting, Credit
<1> HIDE DEF refund, A, x, B, y
<1>6. c \in Wallets
  BY DEF Wallets
<1>7. CASE ledger' = ledger \cup A /\ balance' = [balance EXCEPT ![c] = @ + x]
  <2>1. \A w \in Wallets : balance'[w] = balance[w] + (IF w = c THEN x ELSE 0)
    BY <1>4, <1>7 DEF TypeOK
  <2>2. "REFUND" # "ORDER_PAYMENT"
    OBVIOUS
  <2> QED
    BY <1>3, <1>4, <1>6, <1>7, <2>1, <2>2, PostingMoves
<1>8. ASSUME NEW w \in PlatformWallets,
             ledger' = ledger \cup A \cup B(w),
             balance' = [balance EXCEPT ![c] = @ + x, ![w] = @ + y(w)]
      PROVE  Fresh /\ \A v \in Wallets : Moves(v)
  <2>1. w # c /\ w \in Wallets
    BY WalletsAreDisjoint DEF Wallets
  <2>fee. PICK fee \in Nat :
            /\ balance' = [balance EXCEPT ![c] = @ + x, ![w] = @ + fee]
            /\ Posts(B(w), fee, w, o, "PLATFORM_FEE")
    BY <1>5, <1>8
  <2>2. PICK feeRows :
          /\ ledger' = ledger \cup A \cup feeRows
          /\ balance' = [balance EXCEPT ![c] = @ + x, ![w] = @ + fee]
          /\ Posts(feeRows, fee, w, o, "PLATFORM_FEE")
    BY <1>8, <2>fee
  <2>3. \A v \in Wallets : balance'[v] = balance[v] + (IF v = c THEN x ELSE 0)
                                                    + (IF v = w THEN fee ELSE 0)
    BY <1>4, <2>1, <2>2 DEF TypeOK, Wallets
  <2>4. "ORDER_PAYMENT" \notin {"REFUND", "PLATFORM_FEE"}
    OBVIOUS
  <2>5. Posts(A, x, c, o, "REFUND") /\ x \in Nat /\ UNCHANGED giftCredits
    BY <1>3, <1>4
  <2>6. /\ Posts(feeRows, fee, w, o, "PLATFORM_FEE")
        /\ ledger' = ledger \cup A \cup feeRows
    BY <2>2
  <2> QED
    BY <1>6, <2>1, <2>3, <2>4, <2>5, <2>6, PostingsMove
<1> QED
  BY <1>3, <1>7, <1>8

\* No other action touches the ledger or a wallet.
LEMMA StepPosts ==
  ASSUME TypeOK, ChargeInvariant, [Next]_vars
  PROVE  Fresh /\ \A w \in Wallets : Moves(w)
<1>1. CASE UNCHANGED <<ledger, balance, giftCredits>>
  BY <1>1 DEF Fresh, Moves, Funds
<1>2. CASE \E r \in Requests : AcceptCommit(r) \/ UpdateCommit(r) \/ CancelCommit(r)
  BY <1>2, AcceptPosts, UpdatePosts, CancelPosts
<1>3. \/ UNCHANGED <<ledger, balance, giftCredits>>
      \/ \E r \in Requests : AcceptCommit(r) \/ UpdateCommit(r) \/ CancelCommit(r)
  BY DEF Next, vars, CheckoutBegin, CheckoutCommit, UpdateBegin, DebitCheck, CancelBegin,
         CancelFindPlatform, SettleBegin, SettleRecord, SettleApply, Fail, CreateIntent,
         StripeCaptures, UpdatePolicy, ApproveBegin, ApproveCommit, RepayBegin, RepayCommit
<1> QED
  BY <1>1, <1>2, <1>3

LEMMA LedgerStepHolds ==
  ASSUME TypeOK, ChargeInvariant, [Next]_vars
  PROVE  LedgerStep
<1>1. ledger \subseteq ledger'
  BY ChargeInvariantStep DEF Grows
<1>2. ASSUME NEW w \in Wallets
      PROVE  LET new == {row \in ledger' \ ledger : row.wallet = w}
             IN  \/ new = {} /\ Funds(w)' = Funds(w)
                 \/ \E row \in new : new = {row} /\ Funds(w)' = Funds(w) + Signed(row)
  <2> DEFINE new == {row \in ledger' \ ledger : row.wallet = w}
  <2>1. CASE (\A row \in ledger' \ ledger : row.wallet # w) /\ Funds(w)' = Funds(w)
    BY <2>1
  <2>2. ASSUME NEW row \in ledger' \ ledger, row.wallet = w, Funds(w)' = Funds(w) + Signed(row)
        PROVE  row \in new /\ new = {row} /\ Funds(w)' = Funds(w) + Signed(row)
    BY <2>2, StepPosts DEF Fresh
  <2>3. Moves(w)
    BY StepPosts
  <2> QED
    BY <2>1, <2>2, <2>3 DEF Moves
<1> QED
  BY <1>1, <1>2 DEF LedgerStep

-----------------------------------------------------------------------------
(* The refinement of OrderEscrow.                                          *)

\* @@unique([walletId, orderId, type]) as a fact about the ledger.
LedgerIsKeyed ==
    \A a, b \in ledger :
      a.wallet = b.wallet /\ a.order = b.order /\ a.type = b.type => a = b

LEMMA LedgerIsKeyedStep ==
  ASSUME TypeOK, ChargeInvariant, LedgerIsKeyed, [Next]_vars
  PROVE  LedgerIsKeyed'
BY StepPosts DEF Fresh, LedgerIsKeyed, HasRow

\* Without a new charge row and without a new capture, nothing becomes charged.
LEMMA NoNewCharge ==
  ASSUME TypeOK, ChargeInvariant, Grows, NEW o \in Orders,
         \A row \in ledger' \ ledger : row.type # "ORDER_PAYMENT",
         UNCHANGED captured
  PROVE  Charged(o)' => Charged(o)
<1> SUFFICES ASSUME Charged(o)' PROVE Charged(o)
  OBVIOUS
<1>1. CASE CardPaid(o)'
  <2>1. PICK p \in captured : payment'[p].order = o
    BY <1>1 DEF CardPaid
  <2>2. p \in Payments /\ payment[p] # NotCreated
    BY DEF TypeOK, ChargeInvariant, PaymentsAreLinked
  <2>3. payment[p].order = o /\ Placed(o)
    BY <2>1, <2>2 DEF Grows, ChargeInvariant, PaymentsAreLinked
  <2> QED
    BY <2>2, <2>3 DEF Charged, CardPaid
<1>2. CASE HasRow(order[o].customer, o, "ORDER_PAYMENT")'
  <2>1. PICK row \in ledger' :
          row.wallet = order'[o].customer /\ row.order = o /\ row.type = "ORDER_PAYMENT"
    BY <1>2 DEF HasRow
  <2>2. row \in ledger /\ Placed(o)
    BY <2>1 DEF ChargeInvariant, LedgerIsLinked
  <2> QED
    BY <2>1, <2>2 DEF Grows, Charged, HasRow
<1> QED
  BY <1>1, <1>2 DEF Charged

EscrowCharged == {o \in Orders : Charged(o)}
EscrowPaidOut == {row \in ledger : row.type # "ORDER_PAYMENT"}

\* Acceptance and the card payment charge at most one order and pay nothing out.
LEMMA ChargingStep ==
  ASSUME TypeOK, ChargeInvariant, Grows, NEW o \in Orders,
         \A x \in Orders \ {o} : Charged(x)' => Charged(x),
         EscrowPaidOut' = EscrowPaidOut
  PROVE  [Escrow!Next]_(Escrow!escrowVars)
<1>1. \A x \in Orders : Charged(x) => Charged(x)'
  BY ChargeIsKept
<1>2. EscrowCharged' = EscrowCharged \/ EscrowCharged' = EscrowCharged \cup {o}
  BY <1>1 DEF EscrowCharged
<1> QED
  BY <1>2 DEF Escrow!Next, Escrow!Charge, Escrow!escrowVars, EscrowCharged, EscrowPaidOut

\* Every other step pays out fresh rows of one charged order, or none.
LEMMA SettlingStep ==
  ASSUME TypeOK, TypeOK', ChargeInvariant, ChargeInvariant', Grows, Fresh, LedgerIsKeyed',
         \A row \in ledger' \ ledger : row.type # "ORDER_PAYMENT",
         UNCHANGED captured
  PROVE  [Escrow!Next]_(Escrow!escrowVars)
<1>1. EscrowCharged' = EscrowCharged
  BY ChargeIsKept, NoNewCharge DEF EscrowCharged
<1>2. CASE ledger' = ledger
  BY <1>1, <1>2 DEF Escrow!escrowVars, EscrowCharged
<1>3. CASE ledger' # ledger
  <2>1. PICK row \in ledger' : row \notin ledger
    BY <1>3 DEF Grows
  <2>2. PICK o \in Orders : o = row.order
    BY DEF TypeOK, LedgerRow
  <2>3. row.type # "ORDER_PAYMENT"
    BY <2>1
  <2>4. Charged(o)'
    BY <2>2, <2>3 DEF ChargeInvariant, MoneyOutNeedsCharge
  <2>5. o \in EscrowCharged
    BY <1>1, <2>4 DEF EscrowCharged
  <2>6. EscrowPaidOut \subseteq EscrowPaidOut'
    BY DEF EscrowPaidOut, Grows
  <2>7. ASSUME NEW leg \in EscrowPaidOut' \ EscrowPaidOut
        PROVE  /\ leg.order = o
               /\ leg.wallet \in Wallets
               /\ \A other \in EscrowPaidOut' :
                    leg.wallet = other.wallet /\ leg.order = other.order
                      /\ leg.type = other.type => other = leg
    <3>1. leg \in ledger' /\ leg \notin ledger
      BY DEF EscrowPaidOut
    <3>2. leg.order = o
      BY <2>1, <2>2, <3>1 DEF Fresh
    <3>3. leg.wallet \in Wallets
      BY <3>1 DEF TypeOK, LedgerRow
    <3> QED
      BY <3>1, <3>2, <3>3 DEF LedgerIsKeyed, EscrowPaidOut
  <2>8. Escrow!Settle(o)
    BY <1>1, <2>5, <2>6, <2>7
       DEF Escrow!Settle, Escrow!SameLeg, EscrowCharged, EscrowPaidOut
  <2> QED
    BY <2>8 DEF Escrow!Next
<1> QED
  BY <1>2, <1>3

LEMMA EscrowStep ==
  ASSUME TypeOK, ChargeInvariant, LedgerIsKeyed, [Next]_vars
  PROVE  [Escrow!Next]_(Escrow!escrowVars)
<1>1. TypeOK' /\ ChargeInvariant' /\ Grows /\ Fresh /\ LedgerIsKeyed'
  BY TypeOKStep, ChargeInvariantStep, StepPosts, LedgerIsKeyedStep
<1>2. ASSUME NEW r \in Requests, AcceptCommit(r)
      PROVE  [Escrow!Next]_(Escrow!escrowVars)
  <2>1. req[r].order \in Orders
    BY <1>2, RequestKind DEF AcceptCommit, IsAt, TypeOK, AcceptRequest
  <2>2. PICK o \in Orders : o = req[r].order
    BY <2>1
  <2>3. \A row \in ledger' \ ledger : row.type = "ORDER_PAYMENT" /\ row.order = o
    BY <1>2, <2>2 DEF AcceptCommit
  <2>4. SetStatus(o, "ACCEPTED") /\ UNCHANGED <<payment, captured>>
    BY <1>2, <2>2 DEF AcceptCommit
  <2>5. \A x \in Orders \ {o} : order'[x] = order[x]
    BY <2>4 DEF SetStatus, TypeOK
  <2>6. \A x \in Orders \ {o} : Charged(x)' => Charged(x)
    BY <2>3, <2>4, <2>5 DEF Charged, HasRow, CardPaid, Placed
  <2>7. EscrowPaidOut' = EscrowPaidOut
    BY <1>1, <2>3 DEF EscrowPaidOut, Grows
  <2> QED
    BY <1>1, <2>6, <2>7, ChargingStep
<1>3. ASSUME NEW p \in Payments, StripeCaptures(p)
      PROVE  [Escrow!Next]_(Escrow!escrowVars)
  <2>1. /\ payment[p] # NotCreated /\ captured' = captured \cup {p}
        /\ UNCHANGED <<order, ledger, payment>>
    BY <1>3 DEF StripeCaptures
  <2>2. PICK o \in Orders : o = payment[p].order
    BY <2>1 DEF TypeOK, PaymentRow
  <2>3. \A x \in Orders \ {o} : Charged(x)' => Charged(x)
    BY <2>1, <2>2 DEF Charged, HasRow, CardPaid, Placed
  <2>4. EscrowPaidOut' = EscrowPaidOut
    BY <2>1 DEF EscrowPaidOut
  <2> QED
    BY <1>1, <2>3, <2>4, ChargingStep
<1>4. CASE ~ \/ \E r \in Requests : AcceptCommit(r)
             \/ \E p \in Payments : StripeCaptures(p)
  <2>1. UNCHANGED captured
    BY <1>4 DEF Next, vars, CheckoutBegin, CheckoutCommit, UpdateBegin, DebitCheck,
         UpdateCommit, CancelBegin, CancelFindPlatform, CancelCommit, SettleBegin,
         SettleRecord, SettleApply, Fail, CreateIntent, UpdatePolicy, ApproveBegin,
         ApproveCommit, RepayBegin, RepayCommit
  <2>2. ASSUME NEW r \in Requests, UpdateCommit(r)
        PROVE  \A row \in ledger' \ ledger : row.type # "ORDER_PAYMENT"
    BY <2>2 DEF UpdateCommit, Posting
  <2>3. ASSUME NEW r \in Requests, CancelCommit(r)
        PROVE  \A row \in ledger' \ ledger : row.type # "ORDER_PAYMENT"
    <3> DEFINE q == req[r]
               c == order[q.order].customer
               deduction == Percent(order[q.order].total, q.percent)
               refund == order[q.order].total - deduction
    <3>1. \/ ledger' = ledger \cup Posting(refund > 0, c, q.order, "REFUND", refund)
          \/ \E w \in PlatformWallets :
               ledger' = ledger \cup Posting(refund > 0, c, q.order, "REFUND", refund)
                                \cup Posting(TRUE, w, q.order, "PLATFORM_FEE", deduction)
      BY <2>3 DEF CancelCommit
    <3> HIDE DEF deduction, refund, c, q
    <3> QED
      BY <3>1 DEF Posting
  <2>4. \/ UNCHANGED ledger
        \/ \E r \in Requests : UpdateCommit(r) \/ CancelCommit(r)
    BY <1>4 DEF Next, vars, CheckoutBegin, CheckoutCommit, UpdateBegin, DebitCheck,
         CancelBegin, CancelFindPlatform, SettleBegin, SettleRecord, SettleApply, Fail,
         CreateIntent, UpdatePolicy, ApproveBegin, ApproveCommit, RepayBegin, RepayCommit
  <2> QED
    BY <1>1, <2>1, <2>2, <2>3, <2>4, SettlingStep
<1> QED
  BY <1>2, <1>3, <1>4

-----------------------------------------------------------------------------
(* The theorems.                                                           *)

IInv == TypeOK /\ ChargeInvariant

LEMMA Invariance == Spec => []IInv
<1>1. Init => IInv
  BY InitTypeOK, InitChargeInvariant DEF IInv
<1>2. IInv /\ [Next]_vars => IInv'
  BY TypeOKStep, ChargeInvariantStep DEF IInv
<1> QED
  BY <1>1, <1>2, PTL DEF Spec

\* Every variable keeps its type, for any number of orders, payments and
\* concurrent requests: no handler writes through a row that is not there.
THEOREM TypeCorrect == Spec => []TypeOK
<1>1. IInv => TypeOK
  BY DEF IInv
<1> QED
  BY <1>1, Invariance, PTL

\* Refunds, platform fees and provider earnings are only ever paid for an
\* order that was charged to the wallet or paid by card, whatever the handlers
\* of createOrder, updateOrderStatus, cancelOrder and the payments interleave.
THEOREM MoneyOutIsCharged == Spec => []MoneyOutNeedsCharge
<1>1. IInv => MoneyOutNeedsCharge
  BY DEF IInv, ChargeInvariant
<1> QED
  BY <1>1, Invariance, PTL

\* Balances are backed by the ledger: no handler moves a wallet except by the one
\* row it adds to it, and no row is ever taken back.
THEOREM LedgerAlwaysBacksBalances == Spec => LedgerBacksBalances
<1>1. IInv /\ [Next]_vars => LedgerStep
  BY LedgerStepHolds DEF IInv
<1>2. IInv /\ [Next]_vars => [LedgerStep]_vars
  BY <1>1
<1> QED
  BY <1>2, Invariance, PTL DEF Spec, LedgerBacksBalances

\* The handlers implement the escrow: money for an order is held once it was
\* charged and leaves in legs, each at most once for a wallet and for good.
THEOREM OrdersImplementEscrow == Spec => EscrowSpec
<1>1. Init => Escrow!Init
  BY DEF Init, Escrow!Init, Charged, Placed
<1>2. Init => LedgerIsKeyed
  BY DEF Init, LedgerIsKeyed
<1>3. IInv /\ LedgerIsKeyed /\ [Next]_vars => LedgerIsKeyed'
  BY LedgerIsKeyedStep DEF IInv
<1>4. IInv /\ LedgerIsKeyed /\ [Next]_vars => [Escrow!Next]_(Escrow!escrowVars)
  BY EscrowStep DEF IInv
<1> QED
  BY <1>1, <1>2, <1>3, <1>4, Invariance, PTL DEF Spec, EscrowSpec, Escrow!Spec

-----------------------------------------------------------------------------
(* One request at a time: between what a handler reads and what it writes  *)
(* no other request writes, so the guards it passed still hold.            *)

OneAtATime == \A r, s \in Requests : r = s

\* What the wallet of an order's customer still has for it.
Covered(q) ==
  LET c == order[q.order].customer
  IN  /\ 0 <= q.giftUsed /\ q.giftUsed <= giftCredits[c]
      /\ order[q.order].total - q.giftUsed <= balance[c]

StillHolds(q) ==
  /\ q.op = "update" => order[q.order].status = q.seen
  /\ q.op = "accept" => (q.charge => Covered(q))

\* An order that nobody has accepted, or that was rejected, has no charge.
OpenStatus == {"PENDING", "REJECTED"}
NoCharge(o) == \A row \in ledger : row.order = o => row.type # "ORDER_PAYMENT"
OpenIsUncharged == \A o \in Orders : order[o].status \in OpenStatus => NoCharge(o)

SerialInv == /\ NoOverdraft /\ OpenIsUncharged
             /\ \A r \in Requests : StillHolds(req[r])

LEMMA RequestNow ==
  ASSUME TypeOK, ChargeInvariant, NEW r \in Requests
  PROVE  req[r] \in Request /\ RequestIsSound(req[r])
BY DEF TypeOK, ChargeInvariant

LEMMA NoCustomerIsAProvider ==
  ASSUME NEW c \in Customers, NEW w \in Providers \cup PlatformWallets
  PROVE  c # w
BY WalletsAreDisjoint

LEMMA InitSerially == Init => SerialInv
<1> SUFFICES ASSUME Init PROVE SerialInv
  OBVIOUS
<1> PICK funds \in [Customers -> OpeningFunds] :
      /\ balance = [w \in Wallets |-> IF w \in Customers THEN funds[w].balance ELSE 0]
      /\ giftCredits = [c \in Customers |-> funds[c].giftCredits]
  BY DEF Init
<1>1. \A c \in Customers : funds[c].balance \in Nat /\ funds[c].giftCredits \in Nat
  BY AmountsAreNaturals
<1>2. NoOverdraft
  BY <1>1 DEF NoOverdraft, Wallets
<1>3. OpenIsUncharged
  BY DEF Init, OpenIsUncharged, NoCharge
<1>4. \A r \in Requests : StillHolds(req[r])
  BY DEF Init, Idle, StillHolds
<1> QED
  BY <1>2, <1>3, <1>4 DEF SerialInv

\* A handler that has only read.
LEMMA ReadSerially ==
  ASSUME OneAtATime, TypeOK, SerialInv, NEW r \in Requests, NEW q,
         req' = [req EXCEPT ![r] = q], StillHolds(q),
         UNCHANGED <<order, ledger, balance, giftCredits>>
  PROVE  SerialInv'
<1>1. \A x \in Requests : x = r
  BY DEF OneAtATime
<1>2. req'[r] = q
  BY DEF TypeOK
<1>3. StillHolds(req[r])'
  BY <1>2 DEF StillHolds, Covered
<1>4. NoOverdraft' /\ OpenIsUncharged'
  BY DEF SerialInv, NoOverdraft, OpenIsUncharged, NoCharge
<1>5. (\A x \in Requests : StillHolds(req[x]))'
  BY <1>1, <1>3, Zenon
<1> QED
  BY <1>4, <1>5 DEF SerialInv

\* A handler that has written and is done.
LEMMA WrittenSerially ==
  ASSUME OneAtATime, TypeOK, NEW r \in Requests, Finish(r), NoOverdraft', OpenIsUncharged'
  PROVE  SerialInv'
<1>1. \A x \in Requests : x = r
  BY DEF OneAtATime
<1>2. req'[r] = Idle
  BY DEF TypeOK, Finish
<1>3. StillHolds(req[r])'
  BY <1>2 DEF StillHolds, Idle
<1>5. (\A x \in Requests : StillHolds(req[x]))'
  BY <1>1, <1>3, Zenon
<1> QED
  BY <1>5 DEF SerialInv

\* A step that no request takes.
LEMMA ElsewhereSerially ==
  ASSUME SerialInv, UNCHANGED <<order, ledger, balance, giftCredits, req>>
  PROVE  SerialInv'
<1>1. (\A x \in Requests : StillHolds(req[x]))'
  BY DEF SerialInv, StillHolds, Covered
<1>2. NoOverdraft' /\ OpenIsUncharged'
  BY DEF SerialInv, NoOverdraft, OpenIsUncharged, NoCharge
<1> QED
  BY <1>1, <1>2 DEF SerialInv

\* A status that ends or continues a paid order, and rows for that order.
LEMMA MovedOnUncharged ==
  ASSUME TypeOK, OpenIsUncharged, NEW o \in Orders, Placed(o), NEW s \in OrderStatus,
         SetStatus(o, s), s \notin OpenStatus,
         \A row \in ledger' \ ledger : row.order = o
  PROVE  OpenIsUncharged'
<1>1. order'[o].status = s /\ \A x \in Orders \ {o} : order'[x] = order[x]
  BY SetStatusType
<1>2. ASSUME NEW x \in Orders, order'[x].status \in OpenStatus
      PROVE  NoCharge(x)'
  <2>1. x # o /\ order[x].status \in OpenStatus
    BY <1>1, <1>2
  <2>2. NoCharge(x)
    BY <2>1 DEF OpenIsUncharged
  <2> QED
    BY <2>1, <2>2 DEF NoCharge
<1> QED
  BY <1>2 DEF OpenIsUncharged

LEMMA CheckoutSerially ==
  ASSUME OneAtATime, TypeOK, ChargeInvariant, SerialInv, NEW r \in Requests, NEW o \in Orders,
         NEW rate \in CommissionRates, CheckoutCommit(r, o, rate)
  PROVE  SerialInv'
<1>1. /\ ~Placed(o) /\ \A x \in Orders \ {o} : order'[x] = order[x]
      /\ UNCHANGED <<ledger, balance, giftCredits>> /\ Finish(r)
  BY DEF CheckoutCommit, TypeOK
<1>2. NoCharge(o)
  BY <1>1 DEF NoCharge, ChargeInvariant, LedgerIsLinked
<1>3. OpenIsUncharged'
  BY <1>1, <1>2 DEF SerialInv, OpenIsUncharged, NoCharge
<1>4. NoOverdraft'
  BY <1>1 DEF SerialInv, NoOverdraft
<1> QED
  BY <1>1, <1>3, <1>4, WrittenSerially

LEMMA LeastOfTwo ==
  ASSUME NEW a \in Int, NEW b \in Int
  PROVE  /\ Min({a, b}) \in {a, b} /\ Min({a, b}) <= a /\ Min({a, b}) <= b
<1>1. \E x \in {a, b} : \A y \in {a, b} : x <= y
  OBVIOUS
<1> QED
  BY <1>1 DEF Min

\* What is charged is what the wallet was seen to have.
LEMMA DebitSerially ==
  ASSUME OneAtATime, TypeOK, ChargeInvariant, SerialInv, NEW r \in Requests, DebitCheck(r)
  PROVE  SerialInv'
<1> DEFINE o == req[r].order
           c == order[o].customer
           g == Min({giftCredits[c], order[o].total})
<1>1. o \in Orders /\ Placed(o)
  <2>1. req[r] \in UpdateRequest /\ RequestIsSound(req[r])
    BY RequestNow, RequestKind DEF DebitCheck, IsAt
  <2> QED
    BY <2>1 DEF DebitCheck, IsAt, RequestIsSound, UpdateRequest
<1>2. c \in Customers /\ order[o].total \in Nat
  BY <1>1, PlacedRow
<1>3. giftCredits[c] \in Int /\ balance[c] \in Int
  BY <1>2 DEF TypeOK, Wallets
<1>4. giftCredits[c] >= 0 /\ balance[c] >= 0
  BY <1>2 DEF SerialInv, NoOverdraft
<1>5. g \in {giftCredits[c], order[o].total} /\ g <= giftCredits[c]
  <2>1. order[o].total \in Int
    BY <1>2
  <2> QED
    BY <1>3, <2>1, LeastOfTwo
<1> HIDE DEF g
<1>6. CASE /\ HasRow(c, o, "ORDER_PAYMENT")
           /\ Continue(r, [op |-> "accept", order |-> o, charge |-> FALSE, giftUsed |-> 0])
  <2>1. StillHolds([op |-> "accept", order |-> o, charge |-> FALSE, giftUsed |-> 0])
    BY DEF StillHolds
  <2> QED
    BY <1>6, <2>1, ReadSerially DEF Continue, DebitCheck
<1>7. CASE /\ giftCredits[c] + balance[c] >= order[o].total
           /\ Continue(r, [op |-> "accept", order |-> o, charge |-> TRUE, giftUsed |-> g])
  <2>1. 0 <= g /\ order[o].total - g <= balance[c]
    BY <1>2, <1>3, <1>4, <1>5, <1>7
  <2>2. StillHolds([op |-> "accept", order |-> o, charge |-> TRUE, giftUsed |-> g])
    BY <1>5, <2>1 DEF StillHolds, Covered
  <2> QED
    BY <1>7, <2>2, ReadSerially DEF Continue, DebitCheck
<1> QED
  BY <1>6, <1>7 DEF DebitCheck, g

LEMMA AcceptSerially ==
  ASSUME OneAtATime, TypeOK, ChargeInvariant, SerialInv, NEW r \in Requests, AcceptCommit(r)
  PROVE  SerialInv'
<1> DEFINE q == req[r]
           o == q.order
           c == order[o].customer
<1>1. o \in Orders /\ Placed(o) /\ q.giftUsed \in Int /\ q.op = "accept"
  <2>1. q \in AcceptRequest /\ RequestIsSound(q)
    BY RequestNow, RequestKind DEF AcceptCommit, IsAt
  <2> QED
    BY <2>1 DEF AcceptCommit, IsAt, RequestIsSound, AcceptRequest
<1>2. c \in Customers /\ order[o].total \in Nat /\ c \in Wallets
  BY <1>1, PlacedRow, WalletsOf
<1>3. NoOverdraft'
  <2>1. CASE q.charge
    <3>1. q.giftUsed <= giftCredits[c] /\ order[o].total - q.giftUsed <= balance[c]
      BY <1>1, <2>1 DEF SerialInv, StillHolds, Covered
    <3>2. /\ giftCredits' = [giftCredits EXCEPT ![c] = @ - q.giftUsed]
          /\ balance' = [balance EXCEPT ![c] = @ - (order[o].total - q.giftUsed)]
      BY <2>1 DEF AcceptCommit
    <3>3. ASSUME NEW x \in Customers
          PROVE  balance'[x] >= 0 /\ giftCredits'[x] >= 0
      <4>1. balance[x] \in Int /\ giftCredits[x] \in Int /\ balance[x] >= 0 /\ giftCredits[x] >= 0
        BY DEF SerialInv, NoOverdraft, TypeOK, Wallets
      <4>2. x = c => /\ balance'[x] = balance[x] - (order[o].total - q.giftUsed)
                     /\ giftCredits'[x] = giftCredits[x] - q.giftUsed
        BY <1>2, <3>2 DEF TypeOK
      <4>3. x # c => balance'[x] = balance[x] /\ giftCredits'[x] = giftCredits[x]
        BY <3>2 DEF TypeOK, Wallets
      <4> QED
        BY <1>1, <1>2, <3>1, <4>1, <4>2, <4>3
    <3> QED
      BY <3>3 DEF NoOverdraft
  <2>2. CASE ~q.charge
    BY <2>2 DEF AcceptCommit, SerialInv, NoOverdraft
  <2> QED
    BY <2>1, <2>2
<1>4. SetStatus(o, "ACCEPTED") /\ Finish(r) /\ \A row \in ledger' \ ledger : row.order = o
  BY DEF AcceptCommit
<1>5. OpenIsUncharged'
  BY <1>1, <1>4, MovedOnUncharged DEF SerialInv, OrderStatus, OpenStatus
<1> QED
  BY <1>3, <1>4, <1>5, WrittenSerially

LEMMA UpdateSerially ==
  ASSUME OneAtATime, TypeOK, ChargeInvariant, SerialInv, NEW r \in Requests, UpdateCommit(r)
  PROVE  SerialInv'
<1> DEFINE q == req[r]
           o == q.order
           p == order[o].provider
           earns == q.next \in {"DELIVERED", "COMPLETED"}
<1>1. /\ o \in Orders /\ Placed(o) /\ q.op = "update" /\ q.next \in OrderStatus
      /\ <<q.seen, q.next>> \in Transitions
  <2>1. q \in UpdateRequest /\ RequestIsSound(q)
    BY RequestNow, RequestKind DEF UpdateCommit, IsAt
  <2> QED
    BY <2>1 DEF UpdateCommit, IsAt, RequestIsSound, UpdateRequest
<1>2. p \in Providers
  BY <1>1, PlacedRow
<1>3. /\ SetStatus(o, q.next) /\ Finish(r) /\ giftCredits' = giftCredits
      /\ ledger' = ledger \cup Posting(earns, p, o, "ORDER_EARNING", order[o].total)
      /\ balance' = [balance EXCEPT ![p] = @ + Credit(earns, p, o, "ORDER_EARNING", order[o].total)]
  BY DEF UpdateCommit
<1>4. \A row \in ledger' \ ledger : row.order = o /\ row.type = "ORDER_EARNING"
  BY <1>3 DEF Posting
<1>5. NoOverdraft'
  <2>1. \A c \in Customers : balance'[c] = balance[c]
    BY <1>2, <1>3, NoCustomerIsAProvider DEF TypeOK, Wallets
  <2> QED
    BY <1>3, <2>1 DEF SerialInv, NoOverdraft
<1>6. OpenIsUncharged'
  <2>1. CASE q.next \notin OpenStatus
    BY <1>1, <1>3, <1>4, <2>1, MovedOnUncharged DEF SerialInv
  <2>2. CASE q.next \in OpenStatus
    <3>1. q.seen \in OpenStatus
      BY <1>1, <2>2 DEF Transitions, OpenStatus
    <3>2. NoCharge(o)
      BY <1>1, <3>1 DEF SerialInv, StillHolds, OpenIsUncharged
    <3>3. \A x \in Orders \ {o} : order'[x] = order[x]
      BY <1>1, <1>3, SetStatusType
    <3>4. \A x \in Orders : NoCharge(x) => NoCharge(x)'
      BY <1>4 DEF NoCharge
    <3> QED
      BY <3>2, <3>3, <3>4 DEF SerialInv, OpenIsUncharged
  <2> QED
    BY <2>1, <2>2
<1> QED
  BY <1>3, <1>5, <1>6, WrittenSerially

LEMMA CancelSerially ==
  ASSUME OneAtATime, TypeOK, ChargeInvariant, SerialInv, NEW r \in Requests, CancelCommit(r)
  PROVE  SerialInv'
<1> DEFINE q == req[r]
           o == q.order
           c == order[o].customer
           deduction == Percent(order[o].total, q.percent)
           refund == order[o].total - deduction
           paid == Credit(refund > 0, c, o, "REFUND", refund)
<1>1. o \in Orders /\ Placed(o) /\ q \in RefundRequest
  <2>1. q \in RefundRequest /\ RequestIsSound(q)
    BY RequestNow, RequestKind DEF CancelCommit, IsAt
  <2> QED
    BY <2>1 DEF CancelCommit, IsAt, RequestIsSound, RefundRequest, Charged
<1>2. c \in Customers /\ c \in Wallets /\ order[o].total \in Nat
  BY <1>1, PlacedRow, WalletsOf
<1>3. refund \in Int
  <2>1. deduction \in Nat
    BY <1>1, <1>2, PercentType DEF RefundRequest
  <2> QED
    BY <1>2, <2>1
<1>4. SetStatus(o, "CANCELLED") /\ Finish(r) /\ giftCredits' = giftCredits
  BY DEF CancelCommit
<1> HIDE DEF deduction
<1>5. paid \in Nat
  BY <1>3 DEF Credit
<1>6. /\ \A row \in ledger' \ ledger : row.order = o
      /\ \A x \in Customers : balance'[x] = IF x = c THEN balance[x] + paid ELSE balance[x]
  <2>1. CASE q.platform = "skip"
    <3>1. PlatformWallets \cap {"skip"} = {} /\ q.platform # "create"
      BY <2>1, WalletsAreDisjoint
    <3>2. /\ ledger' = ledger \cup Posting(refund > 0, c, o, "REFUND", refund)
          /\ balance' = [balance EXCEPT ![c] = @ + paid]
      BY <2>1, <3>1 DEF CancelCommit, deduction
    <3> HIDE DEF paid, refund, c
    <3>3. \A row \in ledger' \ ledger : row.order = o
      BY <3>2 DEF Posting
    <3> QED
      BY <1>2, <3>2, <3>3 DEF TypeOK, Wallets
  <2>2. CASE q.platform # "skip"
    <3> DEFINE fee(w) == Credit(TRUE, w, o, "PLATFORM_FEE", deduction)
    <3>1. PICK w \in PlatformWallets :
            /\ ledger' = ledger \cup Posting(refund > 0, c, o, "REFUND", refund)
                                \cup Posting(TRUE, w, o, "PLATFORM_FEE", deduction)
            /\ balance' = [balance EXCEPT ![c] = @ + paid, ![w] = @ + fee(w)]
      BY <2>2 DEF CancelCommit, deduction
    <3>2. \A x \in Customers : x # w
      BY NoCustomerIsAProvider
    <3> HIDE DEF paid, refund, c, fee
    <3>3. \A row \in ledger' \ ledger : row.order = o
      BY <3>1 DEF Posting
    <3>4. \A x \in Customers : balance'[x] = IF x = c THEN balance[x] + paid ELSE balance[x]
      BY <1>2, <3>1, <3>2 DEF TypeOK, Wallets
    <3> QED
      BY <3>3, <3>4
  <2> QED
    BY <2>1, <2>2
<1> HIDE DEF paid, refund, c
<1>7. NoOverdraft'
  <2>1. \A x \in Customers : balance[x] \in Int /\ balance[x] >= 0
    BY DEF SerialInv, NoOverdraft, TypeOK, Wallets
  <2> QED
    BY <1>4, <1>5, <1>6, <2>1 DEF SerialInv, NoOverdraft
<1>8. OpenIsUncharged'
  BY <1>1, <1>4, <1>6, MovedOnUncharged DEF SerialInv, OrderStatus, OpenStatus
<1> QED
  BY <1>4, <1>7, <1>8, WrittenSerially

LEMMA ApplySerially ==
  ASSUME OneAtATime, TypeOK, ChargeInvariant, SerialInv, NEW r \in Requests, SettleApply(r)
  PROVE  SerialInv'
<1>1. PICK o \in Orders, s \in {"ACCEPTED", "CANCELLED"} : SetStatus(o, s) /\ Placed(o)
  <2>1. req[r].payment \in Payments /\ payment[req[r].payment] # NotCreated
    <3>1. req[r] \in ApplyRequest /\ RequestIsSound(req[r])
      BY RequestNow, RequestKind DEF SettleApply, IsAt
    <3> QED
      BY <3>1 DEF SettleApply, IsAt, RequestIsSound, ApplyRequest
  <2>2. payment[req[r].payment].order \in Orders /\ Placed(payment[req[r].payment].order)
    BY <2>1 DEF TypeOK, PaymentRow, ChargeInvariant, PaymentsAreLinked
  <2> QED
    BY <2>2 DEF SettleApply
<1>2. UNCHANGED <<ledger, balance, giftCredits>> /\ Finish(r)
  BY DEF SettleApply
<1>3. NoOverdraft'
  BY <1>2 DEF SerialInv, NoOverdraft
<1>4. OpenIsUncharged'
  BY <1>1, <1>2, MovedOnUncharged DEF SerialInv, OrderStatus, OpenStatus
<1> QED
  BY <1>2, <1>3, <1>4, WrittenSerially

\* The refunds beside the wallet cancel, whatever the order's status.
LEMMA ApproveSerially ==
  ASSUME OneAtATime, TypeOK, ChargeInvariant, SerialInv, NEW r \in Requests, ApproveCommit(r)
  PROVE  SerialInv'
<1>1. PICK o \in Orders : o = req[r].order /\ Placed(o)
  BY RequestNow, RequestKind DEF ApproveCommit, IsAt, RequestIsSound, ApproveRequest
<1>2. SetStatus(o, "CANCELLED") /\ UNCHANGED <<ledger, balance, giftCredits>> /\ Finish(r)
  BY <1>1 DEF ApproveCommit
<1>3. NoOverdraft'
  BY <1>2 DEF SerialInv, NoOverdraft
<1>4. OpenIsUncharged'
  BY <1>1, <1>2, MovedOnUncharged DEF SerialInv, OrderStatus, OpenStatus
<1> QED
  BY <1>2, <1>3, <1>4, WrittenSerially

LEMMA RepaySerially ==
  ASSUME OneAtATime, TypeOK, ChargeInvariant, SerialInv, NEW r \in Requests, RepayCommit(r)
  PROVE  SerialInv'
<1>1. PICK p \in Payments, o \in Orders : RepayFacts(r, p, o)
  BY RepayKnows
<1>2. UNCHANGED <<ledger, balance, giftCredits>> /\ Finish(r)
  BY DEF RepayCommit
<1>3. NoOverdraft'
  BY <1>2 DEF SerialInv, NoOverdraft
<1>4. CASE SetStatus(o, "CANCELLED")
  <2>1. OpenIsUncharged'
    BY <1>1, <1>2, <1>4, MovedOnUncharged DEF SerialInv, OrderStatus, OpenStatus, RepayFacts
  <2> QED
    BY <1>2, <1>3, <2>1, WrittenSerially
<1>5. CASE UNCHANGED order
  <2>1. OpenIsUncharged'
    BY <1>2, <1>5 DEF SerialInv, OpenIsUncharged, NoCharge
  <2> QED
    BY <1>2, <1>3, <2>1, WrittenSerially
<1> QED
  BY <1>1, <1>4, <1>5 DEF RepayFacts

\* A handler that starts to read, or reads on, or gives up.
LEMMA ReadStepSerially ==
  ASSUME OneAtATime, TypeOK, ChargeInvariant, SerialInv, NEW r \in Requests,
         \/ \E c \in Customers, p \in Providers, s \in Subtotals : CheckoutBegin(r, c, p, s)
         \/ \E o \in Orders, next \in OrderStatus : UpdateBegin(r, o, next)
         \/ \E o \in Orders : CancelBegin(r, o)
         \/ CancelFindPlatform(r)
         \/ \E p \in Payments : SettleBegin(r, p)
         \/ \E outcome \in IntentStatus : SettleRecord(r, outcome)
         \/ \E o \in Orders : ApproveBegin(r, o)
         \/ \E p \in Payments, full \in BOOLEAN : RepayBegin(r, p, full)
         \/ Fail(r)
  PROVE  SerialInv'
<1>1. StillHolds(Idle)
  BY DEF StillHolds, Idle
<1>2. UNCHANGED <<order, ledger, balance, giftCredits>>
  BY DEF CheckoutBegin, UpdateBegin, CancelBegin, CancelFindPlatform, SettleBegin,
         SettleRecord, ApproveBegin, RepayBegin, Fail
<1>3. \A q : req' = [req EXCEPT ![r] = q] /\ StillHolds(q) => SerialInv'
  BY <1>2, ReadSerially
<1>4. \A q : q.op \notin {"update", "accept"} => StillHolds(q)
  BY DEF StillHolds
<1>5. ASSUME NEW o \in Orders, NEW next \in OrderStatus, UpdateBegin(r, o, next)
      PROVE  SerialInv'
  <2> DEFINE q == [op |-> "update", order |-> o, seen |-> order[o].status, next |-> next]
  <2>1. StillHolds(q)
    BY DEF StillHolds
  <2>2. req' = [req EXCEPT ![r] = q]
    BY <1>5 DEF UpdateBegin, Start
  <2> QED
    BY <2>1, <2>2, <1>3
<1>6. ASSUME NEW outcome \in IntentStatus, SettleRecord(r, outcome)
      PROVE  SerialInv'
  <2> DEFINE q == [op |-> "apply", payment |-> req[r].payment, outcome |-> outcome]
  <2>1. StillHolds(q)
    BY <1>4
  <2>2. req' = [req EXCEPT ![r] = q] \/ req' = [req EXCEPT ![r] = Idle]
    BY <1>6 DEF SettleRecord, Continue, Finish
  <2> QED
    BY <2>1, <2>2, <1>1, <1>3
<1>7. ASSUME NEW c \in Customers, NEW p \in Providers, NEW s \in Subtotals,
             CheckoutBegin(r, c, p, s)
      PROVE  SerialInv'
  BY <1>7, <1>3, <1>4 DEF CheckoutBegin, Start
<1>8. ASSUME NEW o \in Orders, CancelBegin(r, o)
      PROVE  SerialInv'
  BY <1>8, <1>3, <1>4 DEF CancelBegin, Start
<1>9. ASSUME CancelFindPlatform(r)
      PROVE  SerialInv'
  <2>1. PICK w : req' = [req EXCEPT ![r] = [op |-> "refund", order |-> req[r].order,
                                            percent |-> req[r].percent, platform |-> w]]
    BY <1>9 DEF CancelFindPlatform, Continue
  <2> QED
    BY <2>1, <1>3, <1>4
<1>10. ASSUME NEW p \in Payments, SettleBegin(r, p)
       PROVE  SerialInv'
  BY <1>10, <1>3, <1>4 DEF SettleBegin, Start
<1>11. ASSUME Fail(r) PROVE SerialInv'
  BY <1>11, <1>1, <1>3 DEF Fail, Finish
<1>12. ASSUME NEW o \in Orders, ApproveBegin(r, o)
       PROVE  SerialInv'
  BY <1>12, <1>3, <1>4 DEF ApproveBegin, Start
<1>13. ASSUME NEW p \in Payments, NEW full \in BOOLEAN, RepayBegin(r, p, full)
       PROVE  SerialInv'
  BY <1>13, <1>3, <1>4 DEF RepayBegin, Start
<1> QED
  BY <1>5, <1>6, <1>7, <1>8, <1>9, <1>10, <1>11, <1>12, <1>13

LEMMA StepSerially ==
  ASSUME OneAtATime
  PROVE  IInv /\ SerialInv /\ [Next]_vars => SerialInv'
<1> SUFFICES ASSUME IInv, SerialInv, [Next]_vars PROVE SerialInv'
  OBVIOUS
<1> USE DEF IInv
<1>1. CASE UNCHANGED vars
  BY <1>1, ElsewhereSerially DEF vars
<1>2. ASSUME NEW p \in Payments, NEW o \in Orders, CreateIntent(p, o) PROVE SerialInv'
  BY <1>2, ElsewhereSerially DEF CreateIntent
<1>3. ASSUME NEW p \in Payments, StripeCaptures(p) PROVE SerialInv'
  BY <1>3, ElsewhereSerially DEF StripeCaptures
<1>4. ASSUME NEW allow \in BOOLEAN, NEW percent \in Percents, UpdatePolicy(allow, percent)
      PROVE  SerialInv'
  BY <1>4, ElsewhereSerially DEF UpdatePolicy
<1>5. ASSUME NEW r \in Requests, NEW o \in Orders, NEW rate \in CommissionRates,
             CheckoutCommit(r, o, rate)
      PROVE  SerialInv'
  BY <1>5, CheckoutSerially
<1>6. ASSUME NEW r \in Requests,
             \/ DebitCheck(r) \/ AcceptCommit(r) \/ UpdateCommit(r)
             \/ CancelCommit(r) \/ SettleApply(r) \/ ApproveCommit(r) \/ RepayCommit(r)
      PROVE  SerialInv'
  BY <1>6, DebitSerially, AcceptSerially, UpdateSerially, CancelSerially, ApplySerially,
     ApproveSerially, RepaySerially
<1> QED
  BY <1>1, <1>2, <1>3, <1>4, <1>5, <1>6, ReadStepSerially DEF Next

\* Requests that do not overlap never drive a wallet below zero: acceptance charges what
\* debitCustomerWalletForOrder has seen the wallet to hold.
THEOREM NoOverdraftSerially == OneAtATime => (Spec => []NoOverdraft)
<1> SUFFICES ASSUME OneAtATime PROVE Spec => []NoOverdraft
  OBVIOUS
<1>1. IInv /\ SerialInv /\ [Next]_vars => SerialInv'
  BY StepSerially
<1>2. SerialInv => NoOverdraft
  BY DEF SerialInv
<1> QED
  BY <1>1, <1>2, InitSerially, Invariance, PTL DEF Spec

\* Requests that do not overlap never reject an order that was charged: the status that
\* assertTransition checked is still the order's when the update writes.
THEOREM RejectionsAreUncharged == OneAtATime => (Spec => []RejectedIsNotCharged)
<1> SUFFICES ASSUME OneAtATime PROVE Spec => []RejectedIsNotCharged
  OBVIOUS
<1>1. IInv /\ SerialInv /\ [Next]_vars => SerialInv'
  BY StepSerially
<1>2. SerialInv => RejectedIsNotCharged
  BY DEF SerialInv, OpenIsUncharged, NoCharge, OpenStatus, RejectedIsNotCharged, HasRow
<1> QED
  BY <1>1, <1>2, InitSerially, Invariance, PTL DEF Spec
-----------------------------------------------------------------------------
(* What leaves an order is covered by what came in for it.  An order that  *)
(* is paid and not settled yet is owed its total; every charge and every   *)
(* card payment that has been applied makes it owed once, and a delivery   *)
(* or a cancellation gives out at most what is owed.                       *)

Unsettled == {"ACCEPTED", "PROCESSING", "SHIPPED"}
Owed(o) == IF order[o].status \in Unsettled THEN order[o].total ELSE 0

\* A payment that succeeded has done so whatever is refunded of it later.
Cleared == {"SUCCEEDED", "REFUNDED"}

\* The card payments that have had their effect on the order.
Applied(o) ==
  {p \in captured : /\ payment[p].order = o
                    /\ payment[p].status \in Cleared
                    /\ \A r \in Requests : IsAt(r, "apply") => req[r].payment # p}
FromCards(o) == order[o].total * Cardinality(Applied(o))

Balanced ==
  \A o \in Orders : Placed(o) => PaidOut(o) + Owed(o) <= FromWallet(o) + FromCards(o)

EarningIsPosted ==
  \A o \in Orders :
    order[o].status = "DELIVERED" => HasRow(order[o].provider, o, "ORDER_EARNING")

StillDue(q) ==
  /\ q.op \in {"cancel", "refund"} => order[q.order].status \in {"ACCEPTED", "PROCESSING"}
  /\ q.op = "accept" => q.charge
  /\ q.op = "confirm" => payment[q.payment].status = "PROCESSING"
  /\ q.op = "apply" /\ q.outcome = "SUCCEEDED" => payment[q.payment].status = "SUCCEEDED"
  /\ q.op = "repay" => payment[q.payment].status = "SUCCEEDED"

SettleInv ==
  /\ IsFiniteSet(ledger)
  /\ IsFiniteSet(captured)
  /\ EarningIsPosted
  /\ \A r \in Requests : StillDue(req[r])
  /\ Balanced

-----------------------------------------------------------------------------
(* Sums of ledger rows.                                                    *)

LEMMA RowAmounts == \A row \in LedgerRow : row.amount \in Nat /\ row.amount \in Int
BY DEF LedgerRow

LEMMA TotalIsSum ==
  ASSUME NEW L, L \subseteq LedgerRow, IsFiniteSet(L), NEW A, A = [row \in LedgerRow |-> row.amount]
  PROVE  TotalOf(L) = SumFunctionOnSet(A, L)
<1> DEFINE g == [row \in L |-> row.amount]
<1>1. ASSUME NEW row \in L PROVE g[row] = A[row]
  <2>1. row \in LedgerRow
    OBVIOUS
  <2>2. g[row] = row.amount /\ A[row] = row.amount
    BY <2>1
  <2> QED
    BY <2>2
<1>2. TotalOf(L) = SumFunctionOnSet(g, L)
  BY DEF TotalOf, SumFunction
<1> HIDE DEF g
<1> QED
  BY <1>1, <1>2, SumSame

LEMMA TotalType ==
  ASSUME NEW L, L \subseteq LedgerRow, IsFiniteSet(L)
  PROVE  TotalOf(L) \in Int
<1> PICK A : A = [row \in LedgerRow |-> row.amount]
  OBVIOUS
<1>1. \A row \in L : A[row] \in Int
  BY RowAmounts
<1> QED
  BY <1>1, TotalIsSum, SumType

LEMMA TotalOfNothing == TotalOf({}) = 0
<1> DEFINE g == [row \in {} |-> row.amount]
<1>1. TotalOf({}) = SumFunctionOnSet(g, {})
  BY DEF TotalOf, SumFunction
<1> HIDE DEF g
<1> QED
  BY <1>1, SumEmpty

\* One more row adds its amount.
LEMMA TotalOfOneMore ==
  ASSUME NEW L, L \subseteq LedgerRow, IsFiniteSet(L), NEW x \in LedgerRow, x \notin L
  PROVE  TotalOf(L \cup {x}) = TotalOf(L) + x.amount
<1> PICK A : A = [row \in LedgerRow |-> row.amount]
  OBVIOUS
<1>1. A[x] = x.amount /\ \A row \in L \cup {x} : A[row] \in Int
  BY RowAmounts
<1>2. L \cup {x} \subseteq LedgerRow /\ IsFiniteSet(L \cup {x})
  BY FS_AddElement
<1>3. TotalOf(L) = SumFunctionOnSet(A, L) /\ TotalOf(L \cup {x}) = SumFunctionOnSet(A, L \cup {x})
  BY <1>2, TotalIsSum
<1>4. SumFunctionOnSet(A, L \cup {x}) = SumFunctionOnSet(A, L) + A[x]
  BY <1>1, SumAdd
<1> QED
  BY <1>1, <1>3, <1>4

\* No row, or one that is new, of amount x.
Adds(rows, x, L) ==
  \/ rows = {} /\ x = 0
  \/ \E row \in LedgerRow : rows = {row} /\ row.amount = x /\ row \notin L

LEMMA TotalOfMore ==
  ASSUME NEW L, L \subseteq LedgerRow, IsFiniteSet(L), NEW rows, NEW x, Adds(rows, x, L)
  PROVE  /\ TotalOf(L \cup rows) = TotalOf(L) + x
         /\ L \cup rows \subseteq LedgerRow
         /\ IsFiniteSet(L \cup rows)
<1>1. TotalOf(L) \in Int
  BY TotalType
<1>2. CASE rows = {} /\ x = 0
  BY <1>1, <1>2
<1>3. ASSUME NEW row \in LedgerRow, rows = {row}, row.amount = x, row \notin L
      PROVE  /\ TotalOf(L \cup rows) = TotalOf(L) + x
             /\ L \cup rows \subseteq LedgerRow
             /\ IsFiniteSet(L \cup rows)
  BY <1>3, TotalOfOneMore, FS_AddElement
<1> QED
  BY <1>2, <1>3 DEF Adds

\* The rows of an order, by their direction.
RowsOut(o) == {row \in ledger : row.order = o /\ row.type # "ORDER_PAYMENT"}
RowsIn(o) == {row \in ledger : row.order = o /\ row.type = "ORDER_PAYMENT"}

LEMMA RowsOfAnOrder ==
  ASSUME TypeOK, IsFiniteSet(ledger), NEW o \in Orders
  PROVE  /\ RowsOut(o) \subseteq LedgerRow /\ IsFiniteSet(RowsOut(o))
         /\ RowsIn(o) \subseteq LedgerRow /\ IsFiniteSet(RowsIn(o))
         /\ PaidOut(o) = TotalOf(RowsOut(o)) /\ PaidOut(o) \in Int
         /\ FromWallet(o) = TotalOf(RowsIn(o)) /\ FromWallet(o) \in Int
<1>1. RowsOut(o) \subseteq ledger /\ RowsIn(o) \subseteq ledger
  BY DEF RowsOut, RowsIn
<1>2. IsFiniteSet(RowsOut(o)) /\ IsFiniteSet(RowsIn(o))
  BY <1>1, FS_Subset
<1>3. RowsOut(o) \subseteq LedgerRow /\ RowsIn(o) \subseteq LedgerRow
  BY <1>1 DEF TypeOK
<1>4. PaidOut(o) = TotalOf(RowsOut(o)) /\ FromWallet(o) = TotalOf(RowsIn(o))
  BY DEF PaidOut, FromWallet, RowsOut, RowsIn
<1> QED
  BY <1>2, <1>3, <1>4, TotalType

\* An order that gets no row keeps its sums.
LEMMA NoRowNoMoney ==
  ASSUME NEW o, ledger \subseteq ledger', \A row \in ledger' \ ledger : row.order # o
  PROVE  PaidOut(o)' = PaidOut(o) /\ FromWallet(o)' = FromWallet(o)
<1>1. RowsOut(o)' = RowsOut(o) /\ RowsIn(o)' = RowsIn(o)
  BY DEF RowsOut, RowsIn
<1> QED
  BY <1>1 DEF PaidOut, FromWallet, RowsOut, RowsIn

\* What two postings for an order add, neither of them a charge.
LEMMA PaidOutBy ==
  ASSUME TypeOK, IsFiniteSet(ledger), NEW o \in Orders, NEW A, NEW x \in Nat, NEW B, NEW y \in Nat,
         Adds(A, x, ledger), Adds(B, y, ledger \cup A), ledger' = ledger \cup A \cup B,
         \A row \in A \cup B : row.order = o /\ row.type # "ORDER_PAYMENT"
  PROVE  /\ IsFiniteSet(ledger)'
         /\ PaidOut(o)' = PaidOut(o) + x + y
         /\ FromWallet(o)' = FromWallet(o)
<1>1. IsFiniteSet(ledger)'
  <2>1. ledger \subseteq LedgerRow
    BY DEF TypeOK
  <2>2. ledger \cup A \subseteq LedgerRow /\ IsFiniteSet(ledger \cup A)
    BY <2>1, TotalOfMore
  <2>3. IsFiniteSet((ledger \cup A) \cup B)
    BY <2>2, TotalOfMore
  <2> QED
    BY <2>3
<1>2. /\ RowsOut(o)' = (RowsOut(o) \cup A) \cup B
      /\ RowsIn(o)' = RowsIn(o)
  BY DEF RowsOut, RowsIn
<1> PICK L : L = RowsOut(o)
  OBVIOUS
<1>3. L \subseteq LedgerRow /\ IsFiniteSet(L) /\ PaidOut(o) = TotalOf(L) /\ TotalOf(L) \in Int
  BY RowsOfAnOrder
<1>4. Adds(A, x, L) /\ Adds(B, y, L \cup A)
  BY DEF Adds, RowsOut
<1>5. /\ TotalOf(L \cup A) = TotalOf(L) + x
      /\ L \cup A \subseteq LedgerRow /\ IsFiniteSet(L \cup A)
  BY <1>3, <1>4, TotalOfMore
<1>6. TotalOf((L \cup A) \cup B) = TotalOf(L \cup A) + y
  BY <1>4, <1>5, TotalOfMore
<1>7. PaidOut(o)' = TotalOf((L \cup A) \cup B)
  BY <1>2 DEF PaidOut, RowsOut
<1>8. FromWallet(o)' = FromWallet(o)
  BY <1>2 DEF FromWallet, RowsIn
<1> QED
  BY <1>1, <1>3, <1>5, <1>6, <1>7, <1>8

\* What a charge adds.
LEMMA PaidInBy ==
  ASSUME TypeOK, IsFiniteSet(ledger), NEW o \in Orders, NEW row \in LedgerRow, row \notin ledger,
         row.order = o, row.type = "ORDER_PAYMENT", ledger' = ledger \cup {row}
  PROVE  /\ IsFiniteSet(ledger)'
         /\ PaidOut(o)' = PaidOut(o)
         /\ FromWallet(o)' = FromWallet(o) + row.amount
<1>1. IsFiniteSet(ledger)'
  BY FS_AddElement
<1>2. RowsOut(o)' = RowsOut(o) /\ RowsIn(o)' = RowsIn(o) \cup {row} /\ row \notin RowsIn(o)
  BY DEF RowsOut, RowsIn
<1>3. TotalOf(RowsIn(o) \cup {row}) = TotalOf(RowsIn(o)) + row.amount
  BY <1>2, RowsOfAnOrder, TotalOfOneMore
<1>4. FromWallet(o)' = TotalOf(RowsIn(o) \cup {row}) /\ FromWallet(o) = TotalOf(RowsIn(o))
  BY <1>2 DEF FromWallet, RowsIn
<1>5. PaidOut(o)' = PaidOut(o)
  BY <1>2 DEF PaidOut, RowsOut
<1> QED
  BY <1>1, <1>3, <1>4, <1>5
-----------------------------------------------------------------------------
(* What the cards have paid for an order only grows.                       *)

LEMMA TimesMore ==
  ASSUME NEW t \in Nat, NEW n \in Nat, NEW m \in Nat
  PROVE  /\ t * n \in Int /\ t * n >= 0
         /\ n <= m => t * n <= t * m
         /\ n + 1 <= m => t * n + t <= t * m
<1>1. ASSUME NEW k \in Nat PROVE t * k \in Int /\ t * k >= 0
  OBVIOUS
<1>2. CASE n <= m
  <2>1. PICK k \in Nat : m = n + k
    BY <1>2
  <2>2. t * m = t * n + t * k
    BY <2>1
  <2>3. n + 1 <= m => \E j \in Nat : k = j + 1
    BY <2>1
  <2>4. ASSUME NEW j \in Nat, k = j + 1 PROVE t * k = t * j + t
    BY <2>4
  <2> QED
    BY <1>1, <2>2, <2>3, <2>4
<1> QED
  BY <1>1, <1>2

LEMMA AppliedCount ==
  ASSUME IsFiniteSet(captured), NEW o
  PROVE  IsFiniteSet(Applied(o)) /\ Cardinality(Applied(o)) \in Nat
<1>1. Applied(o) \subseteq captured
  BY DEF Applied
<1> QED
  BY <1>1, FS_Subset, FS_CardinalityType

LEMMA CardsAreCounted ==
  ASSUME TypeOK, IsFiniteSet(captured), NEW o \in Orders, Placed(o)
  PROVE  FromCards(o) \in Int /\ FromCards(o) >= 0
<1>1. order[o].total \in Nat /\ Cardinality(Applied(o)) \in Nat
  BY PlacedRow, AppliedCount
<1> QED
  BY <1>1, TimesMore DEF FromCards

LEMMA CardsGrow ==
  ASSUME TypeOK, IsFiniteSet(captured), IsFiniteSet(captured)', NEW o \in Orders, Placed(o),
         order'[o].total = order[o].total, Applied(o) \subseteq Applied(o)'
  PROVE  /\ FromCards(o) \in Int /\ FromCards(o)' \in Int /\ FromCards(o) <= FromCards(o)'
         /\ Applied(o)' # Applied(o) => FromCards(o) + order[o].total <= FromCards(o)'
<1> PICK t, old, new : t = order[o].total /\ old = Applied(o) /\ new = Applied(o)'
  OBVIOUS
<1>1. t \in Nat
  BY PlacedRow
<1>2. /\ IsFiniteSet(old) /\ Cardinality(old) \in Nat
      /\ IsFiniteSet(new) /\ Cardinality(new) \in Nat
  <2>1. IsFiniteSet(old) /\ Cardinality(old) \in Nat
    BY AppliedCount
  <2>2. new \subseteq captured'
    BY DEF Applied
  <2>3. IsFiniteSet(new)
    BY <2>2, FS_Subset
  <2> QED
    BY <2>1, <2>3, FS_CardinalityType
<1>3. /\ Cardinality(old) <= Cardinality(new)
      /\ old # new => Cardinality(old) + 1 <= Cardinality(new)
  <2>1. old \in SUBSET new
    OBVIOUS
  <2>2. Cardinality(old) <= Cardinality(new) /\ (Cardinality(new) = Cardinality(old) => new = old)
    BY <1>2, <2>1, FS_Subset
  <2> QED
    BY <1>2, <2>2
<1>4. FromCards(o) = t * Cardinality(old) /\ FromCards(o)' = t * Cardinality(new)
  BY DEF FromCards
<1>5. /\ t * Cardinality(old) \in Int /\ t * Cardinality(new) \in Int
      /\ t * Cardinality(old) <= t * Cardinality(new)
      /\ old # new => t * Cardinality(old) + t <= t * Cardinality(new)
  BY <1>1, <1>2, <1>3, TimesMore
<1> QED
  BY <1>4, <1>5

\* A payment that has had its effect stays, unless a request is to apply it again.
LEMMA AppliedStays ==
  ASSUME NEW o, captured \subseteq captured',
         \A p \in captured : payment[p].status \in Cleared =>
           payment'[p].order = payment[p].order /\ payment'[p].status \in Cleared,
         \A r \in Requests :
           \/ req'[r] = req[r]
           \/ req'[r].op = "apply" => payment[req'[r].payment].status \notin Cleared
  PROVE  Applied(o) \subseteq Applied(o)'
<1> SUFFICES ASSUME NEW p \in Applied(o) PROVE p \in Applied(o)'
  OBVIOUS
<1>1. /\ p \in captured' /\ payment'[p].order = o /\ payment'[p].status \in Cleared
      /\ payment[p].order = o /\ payment[p].status \in Cleared
      /\ \A r \in Requests : req[r].op = "apply" => req[r].payment # p
  BY DEF Applied, IsAt
<1>2. \A r \in Requests : req'[r].op = "apply" => req'[r].payment # p
  BY <1>1
<1> QED
  BY <1>1, <1>2 DEF Applied, IsAt

-----------------------------------------------------------------------------
(* The steps.                                                              *)

\* A step of request r, and of no other.
LEMMA MovesOn ==
  ASSUME TypeOK, NEW r \in Requests, NEW q, req' = [req EXCEPT ![r] = q]
  PROVE  req'[r] = q /\ \A x \in Requests \ {r} : req'[x] = req[x]
BY DEF TypeOK

\* A request that is not about to apply a card payment.
OffCards(q) == q.op # "apply"

\* Only recording what Stripe said of a payment leads to applying it.
LEMMA NotToApply ==
  ASSUME TypeOK, NEW r \in Requests,
         \/ \E c \in Customers, p \in Providers, s \in Subtotals : CheckoutBegin(r, c, p, s)
         \/ \E o \in Orders, rate \in CommissionRates : CheckoutCommit(r, o, rate)
         \/ \E o \in Orders, next \in OrderStatus : UpdateBegin(r, o, next)
         \/ DebitCheck(r) \/ AcceptCommit(r) \/ UpdateCommit(r)
         \/ \E o \in Orders : CancelBegin(r, o)
         \/ CancelFindPlatform(r) \/ CancelCommit(r) \/ SettleApply(r) \/ Fail(r)
         \/ \E p \in Payments : SettleBegin(r, p)
         \/ \E o \in Orders : ApproveBegin(r, o)
         \/ \E p \in Payments, full \in BOOLEAN : RepayBegin(r, p, full)
         \/ ApproveCommit(r)
  PROVE  /\ UNCHANGED <<payment, captured>>
         /\ \A x \in Requests : req'[x] = req[x] \/ OffCards(req'[x])
<1> DEFINE Moved == \A x \in Requests : req'[x] = req[x] \/ OffCards(req'[x])
<1>1. \A q : req' = [req EXCEPT ![r] = q] /\ OffCards(q) => Moved
  BY MovesOn
<1>2. \A q : q.op \notin {"apply"} => OffCards(q)
  BY DEF OffCards
<1> HIDE DEF Moved
<1>3. ASSUME Finish(r) PROVE Moved
  BY <1>1, <1>2, <1>3 DEF Finish, Idle
<1>4. ASSUME NEW c \in Customers, NEW p \in Providers, NEW s \in Subtotals, CheckoutBegin(r, c, p, s)
      PROVE  Moved /\ UNCHANGED <<payment, captured>>
  BY <1>1, <1>2, <1>4 DEF CheckoutBegin, Start
<1>5. ASSUME NEW o \in Orders, NEW next \in OrderStatus, UpdateBegin(r, o, next)
      PROVE  Moved /\ UNCHANGED <<payment, captured>>
  BY <1>1, <1>2, <1>5 DEF UpdateBegin, Start
<1>6. ASSUME DebitCheck(r) PROVE Moved /\ UNCHANGED <<payment, captured>>
  <2>1. PICK charge, giftUsed :
          req' = [req EXCEPT ![r] = [op |-> "accept", order |-> req[r].order,
                                     charge |-> charge, giftUsed |-> giftUsed]]
    BY <1>6 DEF DebitCheck, Continue
  <2> QED
    BY <1>1, <1>2, <1>6, <2>1 DEF DebitCheck
<1>7. ASSUME NEW o \in Orders, CancelBegin(r, o) PROVE Moved /\ UNCHANGED <<payment, captured>>
  BY <1>1, <1>2, <1>7 DEF CancelBegin, Start
<1>8. ASSUME CancelFindPlatform(r) PROVE Moved /\ UNCHANGED <<payment, captured>>
  <2>1. PICK w : req' = [req EXCEPT ![r] = [op |-> "refund", order |-> req[r].order,
                                            percent |-> req[r].percent, platform |-> w]]
    BY <1>8 DEF CancelFindPlatform, Continue
  <2> QED
    BY <1>1, <1>2, <1>8, <2>1 DEF CancelFindPlatform
<1>9. ASSUME NEW p \in Payments, SettleBegin(r, p) PROVE Moved /\ UNCHANGED <<payment, captured>>
  BY <1>1, <1>2, <1>9 DEF SettleBegin, Start
<1>10. ASSUME NEW o \in Orders, NEW rate \in CommissionRates, CheckoutCommit(r, o, rate)
       PROVE  Moved /\ UNCHANGED <<payment, captured>>
  BY <1>3, <1>10 DEF CheckoutCommit
<1>11. AcceptCommit(r) => Moved /\ UNCHANGED <<payment, captured>>
  BY <1>3 DEF AcceptCommit
<1>12. UpdateCommit(r) => Moved /\ UNCHANGED <<payment, captured>>
  BY <1>3 DEF UpdateCommit
<1>13. CancelCommit(r) => Moved /\ UNCHANGED <<payment, captured>>
  BY <1>3, Zenon DEF CancelCommit
<1>14. SettleApply(r) \/ Fail(r) => Moved /\ UNCHANGED <<payment, captured>>
  BY <1>3 DEF SettleApply, Fail
<1>15. ASSUME NEW o \in Orders, ApproveBegin(r, o) PROVE Moved /\ UNCHANGED <<payment, captured>>
  BY <1>1, <1>2, <1>15 DEF ApproveBegin, Start
<1>16. ASSUME NEW p \in Payments, NEW full \in BOOLEAN, RepayBegin(r, p, full)
       PROVE  Moved /\ UNCHANGED <<payment, captured>>
  BY <1>1, <1>2, <1>16 DEF RepayBegin, Start
<1>17. ApproveCommit(r) => Moved /\ UNCHANGED <<payment, captured>>
  BY <1>3 DEF ApproveCommit
<1> QED
  BY <1>4, <1>5, <1>6, <1>7, <1>8, <1>9, <1>10, <1>11, <1>12, <1>13, <1>14, <1>15, <1>16, <1>17
     DEF Moved

\* No payment that was applied is ever undone.
LEMMA AppliedGrows ==
  ASSUME TypeOK, ChargeInvariant, SettleInv, [Next]_vars
  PROVE  /\ IsFiniteSet(captured)'
         /\ \A o \in Orders : Applied(o) \subseteq Applied(o)'
<1> DEFINE Kept == IsFiniteSet(captured)' /\ \A o \in Orders : Applied(o) \subseteq Applied(o)'
<1>0. IsFiniteSet(captured)
  BY DEF SettleInv
<1>1. ASSUME UNCHANGED <<payment, captured>>,
             \A x \in Requests : req'[x] = req[x] \/ OffCards(req'[x])
      PROVE  Kept
  BY <1>0, <1>1, AppliedStays DEF OffCards
<1>2. ASSUME NEW p \in Payments, NEW o \in Orders, CreateIntent(p, o) PROVE Kept
  <2>1. captured' = captured /\ UNCHANGED req
    BY <1>2 DEF CreateIntent
  <2>2. \A x \in captured : payment'[x] = payment[x]
    BY <1>2 DEF CreateIntent, ChargeInvariant, PaymentsAreLinked, TypeOK
  <2> QED
    BY <1>0, <2>1, <2>2, AppliedStays
<1>3. ASSUME NEW p \in Payments, StripeCaptures(p) PROVE Kept
  <2>1. captured' = captured \cup {p} /\ UNCHANGED <<req, payment>>
    BY <1>3 DEF StripeCaptures
  <2>2. IsFiniteSet(captured)'
    BY <1>0, <2>1, FS_AddElement
  <2> QED
    BY <2>1, <2>2, AppliedStays
<1>4. ASSUME NEW r \in Requests, NEW outcome \in IntentStatus, SettleRecord(r, outcome) PROVE Kept
  <2> PICK p : p = req[r].payment
    OBVIOUS
  <2>1. payment[p].status = "PROCESSING" /\ payment[p].status \notin Cleared
    BY <1>4 DEF SettleRecord, IsAt, SettleInv, StillDue, Cleared
  <2>2. captured' = captured /\ \A x \in captured \ {p} : payment'[x] = payment[x]
    BY <1>4 DEF SettleRecord, TypeOK
  <2>3. req'[r].op = "apply" => req'[r].payment = p
    <3> DEFINE q == [op |-> "apply", payment |-> p, outcome |-> outcome]
    <3>1. q.payment = p /\ Idle.op # "apply"
      BY DEF Idle
    <3>2. req' = [req EXCEPT ![r] = Idle] \/ req' = [req EXCEPT ![r] = q]
      BY <1>4 DEF SettleRecord, Continue, Finish
    <3> HIDE DEF q
    <3>3. req'[r] = Idle \/ req'[r] = q
      BY <3>2, MovesOn
    <3> QED
      BY <3>1, <3>3
  <2>4. \A x \in Requests \ {r} : req'[x] = req[x]
    BY <1>4 DEF SettleRecord, Continue, Finish, TypeOK
  <2>5. \A x \in captured : payment[x].status \in Cleared => payment'[x] = payment[x]
    BY <2>1, <2>2
  <2> QED
    BY <1>0, <2>1, <2>2, <2>3, <2>4, <2>5, AppliedStays
<1>5. CASE UNCHANGED vars \/ \E allow \in BOOLEAN, percent \in Percents : UpdatePolicy(allow, percent)
  BY <1>1, <1>5 DEF vars, UpdatePolicy
<1>6. ASSUME NEW r \in Requests,
             \/ \E c \in Customers, p \in Providers, s \in Subtotals : CheckoutBegin(r, c, p, s)
             \/ \E o \in Orders, rate \in CommissionRates : CheckoutCommit(r, o, rate)
             \/ \E o \in Orders, next \in OrderStatus : UpdateBegin(r, o, next)
             \/ DebitCheck(r) \/ AcceptCommit(r) \/ UpdateCommit(r)
             \/ \E o \in Orders : CancelBegin(r, o)
             \/ CancelFindPlatform(r) \/ CancelCommit(r) \/ SettleApply(r) \/ Fail(r)
             \/ \E p \in Payments : SettleBegin(r, p)
             \/ \E o \in Orders : ApproveBegin(r, o)
             \/ \E p \in Payments, full \in BOOLEAN : RepayBegin(r, p, full)
             \/ ApproveCommit(r)
      PROVE  Kept
  <2>1. /\ UNCHANGED <<payment, captured>>
        /\ \A x \in Requests : req'[x] = req[x] \/ OffCards(req'[x])
    BY <1>6, NotToApply
  <2> QED
    BY <1>1, <2>1
<1>7. ASSUME NEW r \in Requests, RepayCommit(r) PROVE Kept
  <2> PICK p \in Payments, o \in Orders : RepayFacts(r, p, o)
    BY <1>7, RepayKnows
  <2>1. captured' = captured /\ \A x \in Requests : req'[x] = req[x] \/ req'[x].op # "apply"
    BY <1>7, MovesOn DEF RepayCommit, Finish, Idle
  <2>2. \A x \in captured \ {p} : payment'[x] = payment[x]
    BY DEF RepayFacts, TypeOK
  <2>3. payment'[p].order = payment[p].order /\ payment'[p].status \in Cleared
    BY DEF RepayFacts, Cleared
  <2>4. \A x \in captured : payment[x].status \in Cleared =>
          payment'[x].order = payment[x].order /\ payment'[x].status \in Cleared
    BY <2>2, <2>3
  <2> QED
    BY <1>0, <2>1, <2>4, AppliedStays
<1> QED
  BY <1>2, <1>3, <1>4, <1>5, <1>6, <1>7, Zenon DEF Next
-----------------------------------------------------------------------------
(* What a request has seen of an order or a payment is still so.           *)

LEMMA DueRead ==
  ASSUME OneAtATime, TypeOK, NEW r \in Requests, NEW q, req' = [req EXCEPT ![r] = q],
         StillDue(q), UNCHANGED <<order, payment>>
  PROVE  (\A x \in Requests : StillDue(req[x]))'
<1>1. \A x \in Requests : req'[x] = q
  BY DEF OneAtATime, TypeOK
<1>2. StillDue(q)'
  BY DEF StillDue
<1> QED
  BY <1>1, <1>2 DEF StillDue

LEMMA DueDone ==
  ASSUME OneAtATime, TypeOK, NEW r \in Requests, Finish(r)
  PROVE  (\A x \in Requests : StillDue(req[x]))'
<1>1. \A x \in Requests : req'[x] = Idle
  BY DEF OneAtATime, TypeOK, Finish
<1> QED
  BY <1>1 DEF StillDue, Idle

LEMMA DueElsewhere ==
  ASSUME TypeOK, ChargeInvariant, SettleInv, UNCHANGED <<order, req>>,
         \A p \in Payments : payment[p] # NotCreated => payment'[p] = payment[p]
  PROVE  (\A x \in Requests : StillDue(req[x]))'
<1>1. ASSUME NEW x \in Requests PROVE StillDue(req[x])'
  <2>1. PICK q \in Request : q = req[x] /\ RequestIsSound(q) /\ StillDue(q)
    BY DEF TypeOK, ChargeInvariant, SettleInv
  <2>2. q.op \in {"confirm", "apply", "repay"} => payment'[q.payment] = payment[q.payment]
    BY <2>1, RequestKind DEF RequestIsSound, ConfirmRequest, ApplyRequest, RepayRequest
  <2> QED
    BY <2>1, <2>2 DEF StillDue
<1> QED
  BY <1>1

\* Nobody charges an order between its reading and its acceptance.
LEMMA DueDebit ==
  ASSUME OneAtATime, TypeOK, ChargeInvariant, SerialInv, NEW r \in Requests, DebitCheck(r)
  PROVE  (\A x \in Requests : StillDue(req[x]))'
<1> PICK q \in UpdateRequest : q = req[r] /\ StillHolds(q) /\ q.seen = "PENDING" /\ q.op = "update"
  <2>1. req[r] \in UpdateRequest
    BY RequestNow, RequestKind DEF DebitCheck, IsAt
  <2> QED
    BY <2>1 DEF DebitCheck, IsAt, Accepts, SerialInv
<1>1. q.order \in Orders /\ order[q.order].status = "PENDING"
  BY DEF StillHolds, UpdateRequest
<1>2. ~HasRow(order[q.order].customer, q.order, "ORDER_PAYMENT")
  BY <1>1 DEF SerialInv, OpenIsUncharged, OpenStatus, NoCharge, HasRow
<1>3. PICK giftUsed :
        req' = [req EXCEPT ![r] = [op |-> "accept", order |-> q.order,
                                   charge |-> TRUE, giftUsed |-> giftUsed]]
  BY <1>2 DEF DebitCheck, Continue
<1> DEFINE next == [op |-> "accept", order |-> q.order, charge |-> TRUE, giftUsed |-> giftUsed]
<1>4. StillDue(next)
  BY DEF StillDue
<1>5. UNCHANGED <<order, payment>> /\ req' = [req EXCEPT ![r] = next]
  BY <1>3 DEF DebitCheck
<1> QED
  BY <1>4, <1>5, DueRead

LEMMA DueRecord ==
  ASSUME OneAtATime, TypeOK, ChargeInvariant, SettleInv, NEW r \in Requests,
         NEW outcome \in IntentStatus, SettleRecord(r, outcome)
  PROVE  (\A x \in Requests : StillDue(req[x]))'
<1> PICK p : p = req[r].payment
  OBVIOUS
<1>1. CASE Finish(r)
  BY <1>1, DueDone
<1>2. CASE req' = [req EXCEPT ![r] = [op |-> "apply", payment |-> p, outcome |-> outcome]]
  <2> DEFINE q == [op |-> "apply", payment |-> p, outcome |-> outcome]
  <2>1. p \in Payments /\ payment[p] \in PaymentRow
    <3>1. req[r] \in ConfirmRequest /\ RequestIsSound(req[r]) /\ req[r].op = "confirm"
      BY RequestNow, RequestKind DEF SettleRecord, IsAt
    <3> QED
      BY <3>1 DEF ConfirmRequest, RequestIsSound, TypeOK
  <2>2. payment'[p].status = outcome
    <3>1. payment'[p] = WithStatus(payment[p], outcome)
      BY <2>1 DEF SettleRecord, TypeOK
    <3>2. WithStatus(payment[p], outcome).status = outcome
      BY <2>1, Zenon DEF WithStatus, PaymentRow
    <3> QED
      BY <3>1, <3>2
  <2>3. StillDue(q)'
    BY <2>2 DEF StillDue
  <2>4. \A x \in Requests : req'[x] = q
    BY <1>2 DEF OneAtATime, TypeOK
  <2> HIDE DEF q
  <2> QED
    BY <2>3, <2>4 DEF StillDue
<1> QED
  BY <1>1, <1>2 DEF SettleRecord, Continue

LEMMA StillDueStep ==
  ASSUME OneAtATime, TypeOK, ChargeInvariant, SerialInv, SettleInv, [Next]_vars
  PROVE  (\A x \in Requests : StillDue(req[x]))'
<1> DEFINE Goal == (\A x \in Requests : StillDue(req[x]))'
<1>0. \A q : q.op \notin {"cancel", "refund", "accept", "confirm", "apply", "repay"} => StillDue(q)
  BY DEF StillDue
<1>1. ASSUME NEW r \in Requests, UNCHANGED <<order, payment>>
      PROVE  \A q : req' = [req EXCEPT ![r] = q] /\ StillDue(q) => Goal
  BY <1>1, DueRead
<1>2. \A r \in Requests : Finish(r) => Goal
  BY DueDone
<1>3. (\A r \in Requests : DebitCheck(r) => Goal) /\
      (\A r \in Requests, outcome \in IntentStatus : SettleRecord(r, outcome) => Goal)
  BY DueDebit, DueRecord
<1>4. CASE \/ UNCHANGED vars
           \/ \E p \in Payments, o \in Orders : CreateIntent(p, o)
           \/ \E p \in Payments : StripeCaptures(p)
           \/ \E allow \in BOOLEAN, percent \in Percents : UpdatePolicy(allow, percent)
  <2>1. UNCHANGED <<order, req>>
    BY <1>4 DEF vars, CreateIntent, StripeCaptures, UpdatePolicy
  <2>2. \A p \in Payments : payment[p] # NotCreated => payment'[p] = payment[p]
    BY <1>4 DEF vars, CreateIntent, StripeCaptures, UpdatePolicy, TypeOK
  <2> QED
    BY <2>1, <2>2, DueElsewhere
<1> HIDE DEF Goal
<1>5. ASSUME NEW r \in Requests, NEW c \in Customers, NEW p \in Providers, NEW s \in Subtotals,
             CheckoutBegin(r, c, p, s)
      PROVE  Goal
  BY <1>0, <1>1, <1>5 DEF CheckoutBegin, Start
<1>6. ASSUME NEW r \in Requests, NEW o \in Orders, NEW next \in OrderStatus, UpdateBegin(r, o, next)
      PROVE  Goal
  BY <1>0, <1>1, <1>6 DEF UpdateBegin, Start
<1>7. ASSUME NEW r \in Requests, NEW o \in Orders, CancelBegin(r, o) PROVE Goal
  <2> DEFINE q == [op |-> "cancel", order |-> o, percent |-> policy.percent]
  <2>1. StillDue(q)
    BY <1>7 DEF StillDue, CancelBegin
  <2>2. req' = [req EXCEPT ![r] = q] /\ UNCHANGED <<order, payment>>
    BY <1>7 DEF CancelBegin, Start
  <2> HIDE DEF q
  <2> QED
    BY <1>1, <2>1, <2>2
<1>8. ASSUME NEW r \in Requests, CancelFindPlatform(r) PROVE Goal
  <2>1. PICK w : req' = [req EXCEPT ![r] = [op |-> "refund", order |-> req[r].order,
                                            percent |-> req[r].percent, platform |-> w]]
    BY <1>8 DEF CancelFindPlatform, Continue
  <2> DEFINE q == [op |-> "refund", order |-> req[r].order, percent |-> req[r].percent, platform |-> w]
  <2>2. StillDue(q)
    <3>1. order[req[r].order].status \in {"ACCEPTED", "PROCESSING"}
      BY <1>8 DEF CancelFindPlatform, IsAt, SettleInv, StillDue
    <3> QED
      BY <3>1 DEF StillDue
  <2>3. req' = [req EXCEPT ![r] = q] /\ UNCHANGED <<order, payment>>
    BY <1>8, <2>1 DEF CancelFindPlatform
  <2> HIDE DEF q
  <2> QED
    BY <1>1, <2>2, <2>3
<1>9. ASSUME NEW r \in Requests, NEW p \in Payments, SettleBegin(r, p) PROVE Goal
  <2> DEFINE q == [op |-> "confirm", payment |-> p]
  <2>1. StillDue(q)
    BY <1>9 DEF StillDue, SettleBegin
  <2>2. req' = [req EXCEPT ![r] = q] /\ UNCHANGED <<order, payment>>
    BY <1>9 DEF SettleBegin, Start
  <2> HIDE DEF q
  <2> QED
    BY <1>1, <2>1, <2>2
<1>10. ASSUME NEW r \in Requests, NEW o \in Orders, NEW rate \in CommissionRates,
              CheckoutCommit(r, o, rate)
       PROVE  Goal
  BY <1>2, <1>10 DEF CheckoutCommit
<1>11. ASSUME NEW r \in Requests, AcceptCommit(r) \/ UpdateCommit(r) PROVE Goal
  BY <1>2, <1>11 DEF AcceptCommit, UpdateCommit
<1>12. ASSUME NEW r \in Requests, CancelCommit(r) \/ SettleApply(r) \/ Fail(r) PROVE Goal
  BY <1>2, <1>12, Zenon DEF CancelCommit, SettleApply, Fail
<1>13. ASSUME NEW r \in Requests, NEW o \in Orders, ApproveBegin(r, o) PROVE Goal
  BY <1>0, <1>1, <1>13 DEF ApproveBegin, Start
<1>14. ASSUME NEW r \in Requests, NEW p \in Payments, NEW full \in BOOLEAN, RepayBegin(r, p, full)
       PROVE  Goal
  <2> DEFINE q == [op |-> "repay", payment |-> p, full |-> full]
  <2>1. StillDue(q)
    BY <1>14 DEF StillDue, RepayBegin
  <2>2. req' = [req EXCEPT ![r] = q] /\ UNCHANGED <<order, payment>>
    BY <1>14 DEF RepayBegin, Start
  <2> HIDE DEF q
  <2> QED
    BY <1>1, <2>1, <2>2
<1>15. ASSUME NEW r \in Requests, ApproveCommit(r) \/ RepayCommit(r) PROVE Goal
  BY <1>2, <1>15, Zenon DEF ApproveCommit, RepayCommit
<1>16. Goal
  BY <1>3, <1>4, <1>5, <1>6, <1>7, <1>8, <1>9, <1>10, <1>11, <1>12, <1>13, <1>14, <1>15 DEF Next, Goal
<1> QED
  BY <1>16 DEF Goal
-----------------------------------------------------------------------------
(* What the steps that write give out and take in.                         *)

LEMMA StatusOnly ==
  ASSUME TypeOK, NEW o \in Orders, Placed(o), NEW s \in OrderStatus, SetStatus(o, s)
  PROVE  /\ order'[o].status = s
         /\ order'[o].total = order[o].total
         /\ order'[o].provider = order[o].provider
         /\ \A x \in Orders \ {o} : order'[x] = order[x]
<1>1. order[o] \in OrderRow /\ order \in [Orders -> {NotPlaced} \cup OrderRow]
  BY PlacedRow DEF TypeOK
<1>2. order'[o] = WithStatus(order[o], s)
  BY <1>1 DEF SetStatus
<1>3. \A x \in Orders \ {o} : order'[x] = order[x]
  BY <1>1 DEF SetStatus
<1> QED
  BY <1>1, <1>2, <1>3, WithStatusRow

LEMMA OwedTypes ==
  ASSUME TypeOK, NEW o \in Orders, Placed(o)
  PROVE  /\ Owed(o) \in Int /\ 0 <= Owed(o) /\ Owed(o) <= order[o].total
         /\ order[o].status \notin Unsettled => Owed(o) = 0
         /\ order[o].status \in Unsettled => Owed(o) = order[o].total
         /\ order[o].total \in Nat /\ order[o].total \in Int
<1>1. order[o].total \in Nat
  BY PlacedRow
<1> QED
  BY <1>1 DEF Owed

\* The balance of one order.
OrderBalanced(o) == PaidOut(o) + Owed(o) <= FromWallet(o) + FromCards(o)

\* An order that a step does not write.
LEMMA UntouchedBalanced ==
  ASSUME TypeOK, ChargeInvariant, SettleInv, [Next]_vars, NEW o \in Orders, Placed(o),
         order'[o] = order[o], \A row \in ledger' \ ledger : row.order # o
  PROVE  OrderBalanced(o)'
<1>0. IsFiniteSet(ledger) /\ IsFiniteSet(captured) /\ OrderBalanced(o)
  BY DEF SettleInv, Balanced, OrderBalanced
<1>1. ledger \subseteq ledger'
  BY ChargeInvariantStep DEF Grows
<1>2. PaidOut(o)' = PaidOut(o) /\ FromWallet(o)' = FromWallet(o)
  BY <1>1, NoRowNoMoney
<1>3. PaidOut(o) \in Int /\ FromWallet(o) \in Int
  BY <1>0, RowsOfAnOrder
<1>4. Owed(o)' = Owed(o) /\ Owed(o) \in Int
  BY OwedTypes DEF Owed
<1>5. IsFiniteSet(captured)' /\ Applied(o) \subseteq Applied(o)' /\ order'[o].total = order[o].total
  BY AppliedGrows
<1>6. FromCards(o) \in Int /\ FromCards(o)' \in Int /\ FromCards(o) <= FromCards(o)'
  BY <1>0, <1>5, CardsGrow
<1> QED
  BY <1>0, <1>2, <1>3, <1>4, <1>6 DEF OrderBalanced

\* An order that a step writes: what it gives out and is then owed, against
\* what it was owed and takes in.
LEMMA WrittenBalanced ==
  ASSUME TypeOK, TypeOK', ChargeInvariant, SettleInv, [Next]_vars, NEW o \in Orders, Placed(o), Placed(o)',
         order'[o].total = order[o].total,
         NEW out \in Int, PaidOut(o)' = PaidOut(o) + out,
         NEW in \in Int, FromWallet(o)' = FromWallet(o) + in,
         \/ out + Owed(o)' <= in + Owed(o)
         \/ Applied(o)' # Applied(o) /\ out + Owed(o)' <= in + Owed(o) + order[o].total
  PROVE  OrderBalanced(o)'
<1>0. IsFiniteSet(ledger) /\ IsFiniteSet(captured) /\ OrderBalanced(o)
  BY DEF SettleInv, Balanced, OrderBalanced
<1>1. PaidOut(o) \in Int /\ FromWallet(o) \in Int
  BY <1>0, RowsOfAnOrder
<1>2. Owed(o) \in Int /\ order[o].total \in Int
  BY OwedTypes
<1>3. Owed(o)' \in Int
  BY PlacedRow, <1>2 DEF Owed
<1>4. IsFiniteSet(captured)' /\ Applied(o) \subseteq Applied(o)'
  BY AppliedGrows
<1>5. /\ FromCards(o) \in Int /\ FromCards(o)' \in Int /\ FromCards(o) <= FromCards(o)'
      /\ Applied(o)' # Applied(o) => FromCards(o) + order[o].total <= FromCards(o)'
  BY <1>0, <1>4, CardsGrow
<1>6. PaidOut(o) + Owed(o) <= FromWallet(o) + FromCards(o)
  BY <1>0 DEF OrderBalanced
<1> HIDE DEF Owed
<1>7. (PaidOut(o) + out) + Owed(o)' <= (FromWallet(o) + in) + FromCards(o)'
  BY <1>1, <1>2, <1>3, <1>5, <1>6
<1> QED
  BY <1>7 DEF OrderBalanced

\* A new order has no rows, and is owed nothing.
LEMMA CheckoutBalanced ==
  ASSUME TypeOK, TypeOK', ChargeInvariant, SettleInv, [Next]_vars, NEW r \in Requests, NEW o \in Orders,
         NEW rate \in CommissionRates, CheckoutCommit(r, o, rate)
  PROVE  IsFiniteSet(ledger)' /\ \A x \in Orders : Placed(x)' => OrderBalanced(x)'
<1>1. /\ ~Placed(o) /\ ledger' = ledger
      /\ \A x \in Orders \ {o} : order'[x] = order[x]
      /\ order'[o].status = "PENDING"
  BY DEF CheckoutCommit, TypeOK
<1>2. ASSUME NEW x \in Orders \ {o}, Placed(x)' PROVE OrderBalanced(x)'
  BY <1>1, <1>2, UntouchedBalanced DEF Placed
<1>3. ASSUME Placed(o)' PROVE OrderBalanced(o)'
  <2>1. RowsOut(o)' = {} /\ RowsIn(o)' = {}
    BY <1>1 DEF RowsOut, RowsIn, ChargeInvariant, LedgerIsLinked
  <2>2. PaidOut(o)' = TotalOf({}) /\ FromWallet(o)' = TotalOf({})
    BY <2>1 DEF PaidOut, FromWallet, RowsOut, RowsIn
  <2>3. Owed(o)' = 0
    BY <1>1 DEF Owed, Unsettled
  <2>4. IsFiniteSet(captured)'
    BY AppliedGrows
  <2>5. FromCards(o)' \in Int /\ FromCards(o)' >= 0
    <3>1. Cardinality(Applied(o))' \in Nat
      BY <2>4, FS_Subset, FS_CardinalityType DEF Applied
    <3>2. order'[o].total \in Nat
      BY <1>3 DEF TypeOK, Placed, OrderRow
    <3> QED
      BY <3>1, <3>2, TimesMore DEF FromCards
  <2> QED
    BY <2>2, <2>3, <2>5, TotalOfNothing DEF OrderBalanced
<1> QED
  BY <1>1, <1>2, <1>3 DEF SettleInv

\* A charge comes in, and is owed.
LEMMA AcceptBalanced ==
  ASSUME TypeOK, TypeOK', ChargeInvariant, SettleInv, [Next]_vars, NEW r \in Requests, AcceptCommit(r)
  PROVE  IsFiniteSet(ledger)' /\ \A x \in Orders : Placed(x)' => OrderBalanced(x)'
<1> PICK q \in AcceptRequest : q = req[r] /\ RequestIsSound(q) /\ q.op = "accept" /\ q.charge
  <2>1. req[r] \in AcceptRequest /\ RequestIsSound(req[r]) /\ req[r].op = "accept"
    BY RequestNow, RequestKind DEF AcceptCommit, IsAt
  <2> QED
    BY <2>1 DEF SettleInv, StillDue
<1> PICK o \in Orders, c \in Customers, total \in Nat :
      o = q.order /\ Placed(o) /\ c = order[o].customer /\ total = order[o].total
  BY PlacedRow DEF RequestIsSound, AcceptRequest
<1> DEFINE row == [wallet |-> c, order |-> o, type |-> "ORDER_PAYMENT", amount |-> total]
<1>1. /\ ~HasRow(c, o, "ORDER_PAYMENT")
      /\ ledger' = ledger \cup {row}
      /\ SetStatus(o, "ACCEPTED")
  BY DEF AcceptCommit
<1>2. /\ row \in LedgerRow /\ row.wallet = c /\ row.order = o
      /\ row.type = "ORDER_PAYMENT" /\ row.amount = total
  BY DEF LedgerRow, Wallets, LedgerType
<1> HIDE DEF row
<1>3. row \notin ledger
  BY <1>1, <1>2 DEF HasRow
<1>4. /\ IsFiniteSet(ledger)'
      /\ PaidOut(o)' = PaidOut(o) /\ FromWallet(o)' = FromWallet(o) + total
  BY <1>1, <1>2, <1>3, PaidInBy DEF SettleInv
<1>5. /\ order'[o].status = "ACCEPTED" /\ order'[o].total = total
      /\ \A x \in Orders \ {o} : order'[x] = order[x]
  BY <1>1, StatusOnly DEF OrderStatus
<1>6. ASSUME NEW x \in Orders \ {o}, Placed(x)' PROVE OrderBalanced(x)'
  BY <1>1, <1>2, <1>5, <1>6, UntouchedBalanced DEF Placed
<1>7. ASSUME Placed(o)' PROVE OrderBalanced(o)'
  <2>1. Owed(o)' = total
    BY <1>5 DEF Owed, Unsettled
  <2>2. 0 <= Owed(o) /\ Owed(o) \in Int /\ PaidOut(o) \in Int
    BY OwedTypes, RowsOfAnOrder DEF SettleInv
  <2>3. PaidOut(o)' = PaidOut(o) + 0 /\ 0 + Owed(o)' <= total + Owed(o) /\ total \in Int /\ 0 \in Int
    BY <1>4, <2>1, <2>2
  <2> QED
    BY <1>4, <1>5, <1>7, <2>3, WrittenBalanced
<1> QED
  BY <1>4, <1>6, <1>7

\* Where a provider's update leads from.
LEMMA UpdateLeads ==
  ASSUME NEW seen, NEW next, <<seen, next>> \in Transitions, ~(seen = "PENDING" /\ next = "ACCEPTED")
  PROVE  /\ next \in Unsettled => seen \in Unsettled
         /\ next = "DELIVERED" => seen \in Unsettled
         /\ next = "COMPLETED" => seen = "DELIVERED"
BY DEF Transitions, Unsettled

\* No row of the order, or a new one, of at most the amount.
Pays(rows, x, o, t, amount) ==
  /\ Adds(rows, x, ledger)
  /\ x \in Nat /\ x <= amount
  /\ \A row \in rows : row.order = o /\ row.type = t

LEMMA PostingPays ==
  ASSUME NEW due \in BOOLEAN, NEW w \in Wallets, NEW o \in Orders, NEW t \in LedgerType, NEW amount \in Nat
  PROVE  /\ Pays(Posting(due, w, o, t, amount), Credit(due, w, o, t, amount), o, t, amount)
         /\ ~due \/ HasRow(w, o, t) => Credit(due, w, o, t, amount) = 0
<1> PICK A, x : A = Posting(due, w, o, t, amount) /\ x = Credit(due, w, o, t, amount)
  OBVIOUS
<1>1. CASE due /\ ~HasRow(w, o, t)
  <2> DEFINE row == [wallet |-> w, order |-> o, type |-> t, amount |-> amount]
  <2>1. A = {row} /\ x = amount
    BY <1>1 DEF Posting, Credit
  <2>2. /\ row \in LedgerRow /\ row.wallet = w /\ row.order = o /\ row.type = t /\ row.amount = amount
    BY DEF LedgerRow
  <2> HIDE DEF row
  <2>3. row \notin ledger
    BY <1>1, <2>2 DEF HasRow
  <2>4. Adds(A, x, ledger)
    BY <2>1, <2>2, <2>3 DEF Adds
  <2>5. x \in Nat /\ x <= amount
    BY <2>1
  <2> QED
    BY <1>1, <2>1, <2>2, <2>4, <2>5 DEF Pays
<1>2. CASE ~(due /\ ~HasRow(w, o, t))
  <2>1. A = {} /\ x = 0
    BY <1>2 DEF Posting, Credit
  <2>2. Adds(A, x, ledger) /\ x \in Nat /\ x <= amount
    BY <2>1 DEF Adds
  <2> QED
    BY <2>1, <2>2 DEF Pays
<1> QED
  BY <1>1, <1>2

\* What one payment for an order, or a refund and a fee, give out.
LEMMA OnePays ==
  ASSUME TypeOK, SettleInv, NEW o \in Orders, NEW A, NEW x, NEW n,
         Pays(A, x, o, "ORDER_EARNING", n), ledger' = ledger \cup A
  PROVE  /\ IsFiniteSet(ledger)'
         /\ PaidOut(o)' = PaidOut(o) + x
         /\ FromWallet(o)' = FromWallet(o)
<1>1. /\ IsFiniteSet(ledger) /\ Adds(A, x, ledger) /\ ledger \subseteq LedgerRow
      /\ \A row \in A : row.order = o /\ row.type = "ORDER_EARNING"
  BY DEF SettleInv, Pays, TypeOK
<1>2. IsFiniteSet(ledger \cup A)
  BY <1>1, TotalOfMore
<1> PICK L : L = RowsOut(o)
  OBVIOUS
<1>3. RowsOut(o)' = L \cup A /\ RowsIn(o)' = RowsIn(o)
  BY <1>1 DEF RowsOut, RowsIn
<1>4. L \subseteq LedgerRow /\ IsFiniteSet(L) /\ PaidOut(o) = TotalOf(L)
  BY <1>1, RowsOfAnOrder
<1>5. Adds(A, x, L)
  BY <1>1 DEF Adds, RowsOut
<1>6. TotalOf(L \cup A) = TotalOf(L) + x
  BY <1>4, <1>5, TotalOfMore
<1>7. PaidOut(o)' = TotalOf(L \cup A)
  BY <1>3 DEF PaidOut, RowsOut
<1>8. FromWallet(o)' = FromWallet(o)
  BY <1>3 DEF FromWallet, RowsIn
<1> QED
  BY <1>2, <1>4, <1>6, <1>7, <1>8

Settles(o, A, x, refund, B, y, fee) ==
  /\ ledger' = ledger \cup A \cup B
  /\ Pays(A, x, o, "REFUND", refund)
  /\ Pays(B, y, o, "PLATFORM_FEE", fee)

LEMMA BothPay ==
  ASSUME TypeOK, SettleInv, NEW o \in Orders, NEW A, NEW B, NEW x, NEW y, NEW m, NEW n,
         Settles(o, A, x, m, B, y, n)
  PROVE  /\ IsFiniteSet(ledger)'
         /\ PaidOut(o)' = PaidOut(o) + x + y
         /\ FromWallet(o)' = FromWallet(o)
<1>1. IsFiniteSet(ledger) /\ x \in Nat /\ y \in Nat /\ Adds(A, x, ledger)
  BY DEF SettleInv, Settles, Pays
<1>2. /\ \A row \in A : row.order = o /\ row.type = "REFUND"
      /\ \A row \in B : row.order = o /\ row.type = "PLATFORM_FEE"
  BY DEF Settles, Pays
<1>3. Adds(B, y, ledger \cup A)
  BY <1>2 DEF Settles, Pays, Adds
<1>4. \A row \in A \cup B : row.order = o /\ row.type # "ORDER_PAYMENT"
  BY <1>2
<1> QED
  BY <1>1, <1>3, <1>4, PaidOutBy DEF Settles

\* What a provider's update posts.
LEMMA UpdatePays ==
  ASSUME TypeOK, SettleInv, NEW r \in Requests, UpdateCommit(r),
         NEW q \in UpdateRequest, q = req[r], RequestIsSound(q), StillHolds(q),
         NEW o \in Orders, o = q.order, NEW total \in Nat, total = order[o].total, Placed(o)
  PROVE  /\ q.next \in OrderStatus /\ SetStatus(o, q.next)
         /\ q.next \in Unsettled => order[o].status \in Unsettled
         /\ q.next = "DELIVERED" => order[o].status \in Unsettled
         /\ \E A, x : /\ ledger' = ledger \cup A
                      /\ Pays(A, x, o, "ORDER_EARNING", total)
                      /\ x = 0 \/ q.next = "DELIVERED"
<1> PICK p \in Wallets : p = order[o].provider
  BY PlacedRow, WalletsOf
<1> PICK earns \in BOOLEAN : earns <=> q.next \in {"DELIVERED", "COMPLETED"}
  OBVIOUS
<1> PICK A, x : A = Posting(earns, p, o, "ORDER_EARNING", total) /\ x = Credit(earns, p, o, "ORDER_EARNING", total)
  OBVIOUS
<1>1. /\ SetStatus(o, q.next)
      /\ ledger' = ledger \cup A
      /\ ~(q.seen = "PENDING" /\ q.next = "ACCEPTED")
  BY DEF UpdateCommit, Accepts, Posting
<1>2. /\ order[o].status = q.seen /\ <<q.seen, q.next>> \in Transitions
      /\ q.next \in OrderStatus
  BY DEF StillHolds, RequestIsSound, UpdateRequest, UpdateCommit, IsAt
<1>3. /\ Pays(A, x, o, "ORDER_EARNING", total)
      /\ ~earns \/ HasRow(p, o, "ORDER_EARNING") => x = 0
  <2>1. "ORDER_EARNING" \in LedgerType
    BY DEF LedgerType
  <2> QED
    BY <2>1, PostingPays
<1>4. /\ q.next \in Unsettled => q.seen \in Unsettled
      /\ q.next = "DELIVERED" => q.seen \in Unsettled
      /\ q.next = "COMPLETED" => q.seen = "DELIVERED"
  BY <1>1, <1>2, UpdateLeads
<1>5. q.next = "COMPLETED" => HasRow(p, o, "ORDER_EARNING")
  BY <1>2, <1>4 DEF SettleInv, EarningIsPosted
<1>6. x = 0 \/ q.next = "DELIVERED"
  BY <1>3, <1>5
<1> QED
  BY <1>1, <1>2, <1>3, <1>4, <1>6

\* A delivery gives out what was owed; nothing else that a provider asks for does.
LEMMA UpdateBalanced ==
  ASSUME TypeOK, TypeOK', ChargeInvariant, SerialInv, SettleInv, [Next]_vars,
         NEW r \in Requests, UpdateCommit(r)
  PROVE  IsFiniteSet(ledger)' /\ \A x \in Orders : Placed(x)' => OrderBalanced(x)'
<1> PICK q \in UpdateRequest : q = req[r] /\ RequestIsSound(q) /\ StillHolds(q) /\ q.op = "update"
  <2>1. req[r] \in UpdateRequest /\ RequestIsSound(req[r]) /\ req[r].op = "update"
    BY RequestNow, RequestKind DEF UpdateCommit, IsAt
  <2> QED
    BY <2>1 DEF SerialInv
<1> PICK o \in Orders, total \in Nat : o = q.order /\ Placed(o) /\ total = order[o].total
  BY PlacedRow DEF RequestIsSound, UpdateRequest
<1>1. /\ q.next \in OrderStatus /\ SetStatus(o, q.next)
      /\ q.next \in Unsettled => order[o].status \in Unsettled
      /\ q.next = "DELIVERED" => order[o].status \in Unsettled
      /\ \E A, x : /\ ledger' = ledger \cup A
                   /\ Pays(A, x, o, "ORDER_EARNING", total)
                   /\ x = 0 \/ q.next = "DELIVERED"
  BY UpdatePays
<1> PICK A, x : /\ ledger' = ledger \cup A
                /\ Pays(A, x, o, "ORDER_EARNING", total)
                /\ x = 0 \/ q.next = "DELIVERED"
  BY <1>1
<1>2. x \in Nat /\ x <= total /\ \A row \in A : row.order = o
  BY DEF Pays
<1>3. /\ IsFiniteSet(ledger)'
      /\ PaidOut(o)' = PaidOut(o) + x
      /\ FromWallet(o)' = FromWallet(o)
  BY OnePays
<1>4. /\ order'[o].status = q.next /\ order'[o].total = total
      /\ \A y \in Orders \ {o} : order'[y] = order[y]
  BY <1>1, StatusOnly
<1>5. ASSUME NEW y \in Orders \ {o}, Placed(y)' PROVE OrderBalanced(y)'
  BY <1>2, <1>4, <1>5, UntouchedBalanced DEF Placed
<1>6. ASSUME Placed(o)' PROVE OrderBalanced(o)'
  <2>1. /\ PaidOut(o) \in Int /\ FromWallet(o) \in Int
        /\ Owed(o) \in Int /\ 0 <= Owed(o)
        /\ order[o].status \in Unsettled => Owed(o) = total
    BY OwedTypes, RowsOfAnOrder DEF SettleInv
  <2>2. /\ q.next \in Unsettled => Owed(o)' = total
        /\ q.next \notin Unsettled => Owed(o)' = 0
    BY <1>4 DEF Owed
  <2>3. "DELIVERED" \notin Unsettled
    BY DEF Unsettled
  <2>4. x + Owed(o)' <= 0 + Owed(o)
    <3>1. CASE q.next \in Unsettled
      BY <1>1, <2>1, <2>2, <2>3, <3>1
    <3>2. CASE q.next \notin Unsettled
      BY <1>1, <1>2, <2>1, <2>2, <3>2
    <3> QED
      BY <3>1, <3>2
  <2>5. /\ PaidOut(o)' = PaidOut(o) + x /\ x \in Int
        /\ FromWallet(o)' = FromWallet(o) + 0 /\ 0 \in Int
    BY <1>2, <1>3, <2>1
  <2> QED
    BY <1>4, <1>6, <2>4, <2>5, WrittenBalanced
<1> QED
  BY <1>3, <1>5, <1>6

\* At most all of an amount is deducted.
LEMMA PercentAtMost ==
  ASSUME NEW amount \in Nat, NEW percent \in 0..100
  PROVE  Percent(amount, percent) <= amount
<1> PICK k \in Nat, hundred \in Nat : k = amount * percent /\ hundred = amount * 100
  OBVIOUS
<1>1. k <= hundred
  <2>1. percent \in Nat /\ 100 \in Nat /\ percent <= 100
    OBVIOUS
  <2> QED
    BY <2>1, TimesMore
<1>2. hundred = 100 * amount
  OBVIOUS
<1>3. (k + 50) \div 100 <= amount
  BY <1>1, <1>2
<1> QED
  BY <1>3 DEF Percent

\* What a cancellation posts: a refund and a fee that make up the total.
LEMMA CancelPays ==
  ASSUME TypeOK, SettleInv, NEW r \in Requests, CancelCommit(r),
         NEW q \in RefundRequest, q = req[r], RequestIsSound(q),
         NEW o \in Orders, o = q.order, NEW total \in Nat, total = order[o].total, Placed(o)
  PROVE  /\ SetStatus(o, "CANCELLED")
         /\ \E refund \in Nat, fee \in Nat : \E A, x, B, y :
              refund + fee = total /\ Settles(o, A, x, refund, B, y, fee)
<1> PICK c \in Wallets, percent \in 0..100 : c = order[o].customer /\ percent = q.percent
  BY PlacedRow, WalletsOf DEF RefundRequest
<1> PICK fee \in Nat : fee = Percent(total, percent) /\ fee <= total
  BY PercentType, PercentAtMost
<1> PICK refund \in Nat : refund = total - fee /\ refund + fee = total
  <2>1. total - fee \in Nat /\ (total - fee) + fee = total
    OBVIOUS
  <2> QED
    BY <2>1
<1> DEFINE A == Posting(refund > 0, c, o, "REFUND", refund)
           Fee(w) == Posting(TRUE, w, o, "PLATFORM_FEE", fee)
<1>1. /\ SetStatus(o, "CANCELLED")
      /\ \/ ledger' = ledger \cup A
         \/ \E w \in PlatformWallets : ledger' = ledger \cup A \cup Fee(w)
  BY Zenon DEF CancelCommit
<1>2. Pays(A, Credit(refund > 0, c, o, "REFUND", refund), o, "REFUND", refund)
  <2>1. "REFUND" \in LedgerType /\ (refund > 0) \in BOOLEAN
    BY DEF LedgerType
  <2> QED
    BY <2>1, PostingPays
<1>3. ASSUME NEW w \in PlatformWallets
      PROVE  Pays(Fee(w), Credit(TRUE, w, o, "PLATFORM_FEE", fee), o, "PLATFORM_FEE", fee)
  <2>1. "PLATFORM_FEE" \in LedgerType /\ w \in Wallets /\ TRUE \in BOOLEAN
    BY DEF LedgerType, Wallets
  <2> QED
    BY <2>1, PostingPays
<1>4. Pays({}, 0, o, "PLATFORM_FEE", fee)
  BY DEF Pays, Adds
<1> HIDE DEF A, Fee
<1>5. \E B, y : ledger' = ledger \cup A \cup B /\ Pays(B, y, o, "PLATFORM_FEE", fee)
  <2>1. A \cup {} = A /\ (ledger \cup A) \cup {} = ledger \cup A
    OBVIOUS
  <2> QED
    BY <1>1, <1>3, <1>4, <2>1
<1> QED
  BY <1>1, <1>2, <1>5 DEF Settles

\* A cancellation gives out what was owed, in two parts.
LEMMA CancelBalanced ==
  ASSUME TypeOK, TypeOK', ChargeInvariant, SettleInv, [Next]_vars, NEW r \in Requests, CancelCommit(r)
  PROVE  IsFiniteSet(ledger)' /\ \A x \in Orders : Placed(x)' => OrderBalanced(x)'
<1> PICK q \in RefundRequest : q = req[r] /\ RequestIsSound(q) /\ StillDue(q) /\ q.op = "refund"
  <2>1. req[r] \in RefundRequest /\ RequestIsSound(req[r]) /\ req[r].op = "refund"
    BY RequestNow, RequestKind, Zenon DEF CancelCommit, IsAt
  <2> QED
    BY <2>1 DEF SettleInv
<1> PICK o \in Orders, total \in Nat : o = q.order /\ Placed(o) /\ total = order[o].total
  BY PlacedRow DEF RequestIsSound, RefundRequest, Charged
<1>1. /\ SetStatus(o, "CANCELLED")
      /\ \E refund \in Nat, fee \in Nat : \E A, x, B, y :
           refund + fee = total /\ Settles(o, A, x, refund, B, y, fee)
  BY CancelPays
<1> PICK refund \in Nat, fee \in Nat :
      \E A, x, B, y : refund + fee = total /\ Settles(o, A, x, refund, B, y, fee)
  BY <1>1
<1> PICK A, x, B, y : refund + fee = total /\ Settles(o, A, x, refund, B, y, fee)
  OBVIOUS
<1>2. /\ x \in Nat /\ y \in Nat
      /\ \A row \in ledger' \ ledger : row.order = o
  BY DEF Settles, Pays
<1>3. x + y <= total /\ x + y \in Int
  <2>1. x <= refund /\ y <= fee
    BY DEF Settles, Pays
  <2> QED
    BY <1>2, <2>1
<1>4. /\ IsFiniteSet(ledger)'
      /\ PaidOut(o)' = PaidOut(o) + x + y /\ FromWallet(o)' = FromWallet(o)
  BY BothPay
<1>5. /\ order'[o].status = "CANCELLED" /\ order'[o].total = total
      /\ \A z \in Orders \ {o} : order'[z] = order[z]
  BY <1>1, StatusOnly DEF OrderStatus
<1>6. ASSUME NEW z \in Orders \ {o}, Placed(z)' PROVE OrderBalanced(z)'
  BY <1>2, <1>5, <1>6, UntouchedBalanced DEF Placed
<1>7. ASSUME Placed(o)' PROVE OrderBalanced(o)'
  <2>1. PaidOut(o) \in Int /\ FromWallet(o) \in Int /\ Owed(o) = total
    <3>1. order[o].status \in Unsettled
      BY DEF StillDue, Unsettled
    <3> QED
      BY <3>1, OwedTypes, RowsOfAnOrder DEF SettleInv
  <2>2. Owed(o)' = 0
    BY <1>5 DEF Owed, Unsettled
  <2>3. (x + y) + Owed(o)' <= 0 + Owed(o)
    BY <1>3, <2>1, <2>2
  <2>4. /\ PaidOut(o)' = PaidOut(o) + (x + y)
        /\ FromWallet(o)' = FromWallet(o) + 0 /\ 0 \in Int
    BY <1>2, <1>4, <2>1
  <2> QED
    BY <1>3, <1>5, <1>7, <2>3, <2>4, WrittenBalanced
<1> QED
  BY <1>4, <1>6, <1>7
\* A card payment that succeeded is applied once, and is owed then; one that
\* failed cancels the order, to which nothing is owed any more.
LEMMA ApplyBalanced ==
  ASSUME OneAtATime, TypeOK, TypeOK', ChargeInvariant, SettleInv, [Next]_vars, NEW r \in Requests, SettleApply(r)
  PROVE  IsFiniteSet(ledger)' /\ \A x \in Orders : Placed(x)' => OrderBalanced(x)'
<1> PICK q \in ApplyRequest : q = req[r] /\ RequestIsSound(q) /\ StillDue(q) /\ q.op = "apply"
  <2>1. req[r] \in ApplyRequest /\ RequestIsSound(req[r]) /\ req[r].op = "apply"
    BY RequestNow, RequestKind DEF SettleApply, IsAt
  <2> QED
    BY <2>1 DEF SettleInv
<1> PICK p \in Payments : p = q.payment /\ payment[p] # NotCreated
  BY DEF ApplyRequest, RequestIsSound
<1> PICK o \in Orders, total \in Nat : o = payment[p].order /\ Placed(o) /\ total = order[o].total
  <2>1. payment[p].order \in Orders /\ Placed(payment[p].order)
    BY DEF TypeOK, PaymentRow, ChargeInvariant, PaymentsAreLinked
  <2> QED
    BY <2>1, PlacedRow
<1> PICK s \in {"ACCEPTED", "CANCELLED"} :
      SetStatus(o, s) /\ (s = "ACCEPTED" => q.outcome = "SUCCEEDED")
  BY DEF SettleApply
<1>1. UNCHANGED <<ledger, payment, captured>> /\ Finish(r)
  BY DEF SettleApply
<1>2. /\ order'[o].status = s /\ order'[o].total = total
      /\ \A y \in Orders \ {o} : order'[y] = order[y]
  BY StatusOnly DEF OrderStatus
<1>3. IsFiniteSet(ledger)' /\ PaidOut(o)' = PaidOut(o) /\ FromWallet(o)' = FromWallet(o)
  BY <1>1 DEF SettleInv, PaidOut, FromWallet
<1>4. ASSUME NEW y \in Orders \ {o}, Placed(y)' PROVE OrderBalanced(y)'
  BY <1>1, <1>2, <1>4, UntouchedBalanced DEF Placed
<1>5. ASSUME Placed(o)' PROVE OrderBalanced(o)'
  <2>1. /\ PaidOut(o) \in Int /\ FromWallet(o) \in Int
        /\ Owed(o) \in Int /\ 0 <= Owed(o)
    BY OwedTypes, RowsOfAnOrder DEF SettleInv
  <2>2. PaidOut(o)' = PaidOut(o) + 0 /\ FromWallet(o)' = FromWallet(o) + 0 /\ 0 \in Int
    BY <1>3, <2>1
  <2>3. CASE s = "CANCELLED"
    <3>1. Owed(o)' = 0
      BY <1>2, <2>3 DEF Owed, Unsettled
    <3>2. 0 + Owed(o)' <= 0 + Owed(o)
      BY <2>1, <3>1
    <3> QED
      BY <1>2, <1>5, <2>2, <3>2, WrittenBalanced
  <2>4. CASE s = "ACCEPTED"
    <3>1. Owed(o)' = total
      BY <1>2, <2>4 DEF Owed, Unsettled
    <3>2. p \in captured /\ payment[p].status \in Cleared
      BY <2>4 DEF RequestIsSound, StillDue, Cleared
    <3>3. p \notin Applied(o)
      BY DEF Applied, IsAt
    <3>4. p \in Applied(o)'
      <4>1. \A x \in Requests : req'[x] = Idle
        BY <1>1 DEF OneAtATime, Finish, TypeOK
      <4> QED
        BY <1>1, <3>2, <4>1 DEF Applied, IsAt, Idle
    <3>5. Applied(o)' # Applied(o)
      BY <3>3, <3>4
    <3>6. 0 + Owed(o)' <= 0 + Owed(o) + order[o].total
      BY <2>1, <3>1
    <3> QED
      BY <1>2, <1>5, <2>2, <3>5, <3>6, WrittenBalanced
  <2> QED
    BY <2>3, <2>4
<1> QED
  BY <1>3, <1>4, <1>5

\* An order that a refund beside the wallet cancels is owed nothing more, and
\* no ledger row is written.
LEMMA CalledOffBalanced ==
  ASSUME TypeOK, TypeOK', ChargeInvariant, SettleInv, [Next]_vars, NEW o \in Orders, Placed(o),
         SetStatus(o, "CANCELLED"), UNCHANGED ledger
  PROVE  IsFiniteSet(ledger)' /\ \A x \in Orders : Placed(x)' => OrderBalanced(x)'
<1>1. /\ order'[o].status = "CANCELLED" /\ order'[o].total = order[o].total
      /\ \A y \in Orders \ {o} : order'[y] = order[y]
  BY StatusOnly DEF OrderStatus
<1>2. IsFiniteSet(ledger)' /\ PaidOut(o)' = PaidOut(o) /\ FromWallet(o)' = FromWallet(o)
  BY DEF SettleInv, PaidOut, FromWallet
<1>3. ASSUME NEW y \in Orders \ {o}, Placed(y)' PROVE OrderBalanced(y)'
  BY <1>1, <1>3, UntouchedBalanced DEF Placed
<1>4. ASSUME Placed(o)' PROVE OrderBalanced(o)'
  <2>1. /\ PaidOut(o) \in Int /\ FromWallet(o) \in Int
        /\ Owed(o) \in Int /\ 0 <= Owed(o)
    BY OwedTypes, RowsOfAnOrder DEF SettleInv
  <2>2. PaidOut(o)' = PaidOut(o) + 0 /\ FromWallet(o)' = FromWallet(o) + 0 /\ 0 \in Int
    BY <1>2, <2>1
  <2>3. Owed(o)' = 0
    BY <1>1 DEF Owed, Unsettled
  <2>4. 0 + Owed(o)' <= 0 + Owed(o)
    BY <2>1, <2>3
  <2> QED
    BY <1>1, <1>4, <2>2, <2>4, WrittenBalanced
<1> QED
  BY <1>2, <1>3, <1>4

LEMMA RefundsBalanced ==
  ASSUME TypeOK, TypeOK', ChargeInvariant, SettleInv, [Next]_vars, NEW r \in Requests,
         ApproveCommit(r) \/ RepayCommit(r)
  PROVE  IsFiniteSet(ledger)' /\ \A x \in Orders : Placed(x)' => OrderBalanced(x)'
<1>1. UNCHANGED ledger
  BY DEF ApproveCommit, RepayCommit
<1>2. CASE UNCHANGED order
  <2>1. ASSUME NEW x \in Orders, Placed(x)' PROVE OrderBalanced(x)'
    BY <1>1, <1>2, <2>1, UntouchedBalanced DEF Placed
  <2>2. IsFiniteSet(ledger)'
    BY <1>1 DEF SettleInv
  <2> QED
    BY <2>1, <2>2
<1>3. ASSUME ApproveCommit(r) PROVE \E o \in Orders : Placed(o) /\ SetStatus(o, "CANCELLED")
  BY <1>3, RequestNow, RequestKind DEF ApproveCommit, IsAt, RequestIsSound, ApproveRequest
<1>4. ASSUME RepayCommit(r)
      PROVE  UNCHANGED order \/ \E o \in Orders : Placed(o) /\ SetStatus(o, "CANCELLED")
  <2> PICK p \in Payments, o \in Orders : RepayFacts(r, p, o)
    BY <1>4, RepayKnows
  <2> QED
    BY DEF RepayFacts
<1>5. CASE \E o \in Orders : Placed(o) /\ SetStatus(o, "CANCELLED")
  BY <1>1, <1>5, CalledOffBalanced
<1> QED
  BY <1>2, <1>3, <1>4, <1>5

\* Only a provider's update says that an order is delivered, and posts the earning.
LEMMA DeliveryPosts ==
  ASSUME TypeOK, ChargeInvariant, NEW r \in Requests, UpdateCommit(r), NEW x \in Orders,
         order'[x].status = "DELIVERED", order'[x] # order[x]
  PROVE  HasRow(order[x].provider, x, "ORDER_EARNING")' /\ order'[x].provider = order[x].provider
<1> PICK q \in UpdateRequest : q = req[r] /\ RequestIsSound(q) /\ q.op = "update"
  BY RequestNow, RequestKind DEF UpdateCommit, IsAt
<1>1. /\ q.order \in Orders /\ Placed(q.order) /\ q.next \in OrderStatus
      /\ SetStatus(q.order, q.next)
  BY TransitionFacts DEF RequestIsSound, UpdateRequest, UpdateCommit
<1>2. x = q.order /\ q.next = "DELIVERED" /\ order'[x].provider = order[x].provider
  BY <1>1, StatusOnly
<1> PICK p, total : p = order[x].provider /\ total = order[x].total
  OBVIOUS
<1>3. ledger' = ledger \cup Posting(TRUE, p, x, "ORDER_EARNING", total)
  BY <1>2 DEF UpdateCommit, Posting
<1>4. HasRow(p, x, "ORDER_EARNING")'
  <2>1. CASE HasRow(p, x, "ORDER_EARNING")
    BY <1>3, <2>1 DEF HasRow
  <2>2. CASE ~HasRow(p, x, "ORDER_EARNING")
    <3> DEFINE row == [wallet |-> p, order |-> x, type |-> "ORDER_EARNING", amount |-> total]
    <3>1. row \in ledger' /\ row.wallet = p /\ row.order = x /\ row.type = "ORDER_EARNING"
      BY <1>3, <2>2 DEF Posting
    <3> HIDE DEF row
    <3> QED
      BY <3>1 DEF HasRow
  <2> QED
    BY <2>1, <2>2
<1> QED
  BY <1>2, <1>4 DEF HasRow

LEMMA NotDelivered ==
  ASSUME TypeOK, NEW o \in Orders, Placed(o),
         NEW s \in {"ACCEPTED", "CANCELLED"}, SetStatus(o, s)
  PROVE  \A x \in Orders : order'[x] = order[x] \/ order'[x].status # "DELIVERED"
BY StatusOnly DEF OrderStatus

\* The handlers that only read, or only write a payment.
LEMMA OnlyReads ==
  ASSUME NEW r \in Requests,
         \/ \E c \in Customers, p \in Providers, s \in Subtotals : CheckoutBegin(r, c, p, s)
         \/ \E o \in Orders, next \in OrderStatus : UpdateBegin(r, o, next)
         \/ DebitCheck(r)
         \/ \E o \in Orders : CancelBegin(r, o)
         \/ CancelFindPlatform(r)
         \/ \E p \in Payments : SettleBegin(r, p)
         \/ \E outcome \in IntentStatus : SettleRecord(r, outcome)
         \/ \E o \in Orders : ApproveBegin(r, o)
         \/ \E p \in Payments, full \in BOOLEAN : RepayBegin(r, p, full)
         \/ Fail(r)
  PROVE  UNCHANGED <<order, ledger>>
BY DEF CheckoutBegin, UpdateBegin, DebitCheck, CancelBegin, CancelFindPlatform,
       SettleBegin, SettleRecord, ApproveBegin, RepayBegin, Fail

LEMMA WhoWrites ==
  ASSUME [Next]_vars
  PROVE  \/ UNCHANGED order /\ UNCHANGED ledger
         \/ \E r \in Requests :
              \/ \E o \in Orders, rate \in CommissionRates : CheckoutCommit(r, o, rate)
              \/ AcceptCommit(r) \/ UpdateCommit(r) \/ CancelCommit(r) \/ SettleApply(r)
              \/ ApproveCommit(r) \/ RepayCommit(r)
<1>1. CASE \/ UNCHANGED vars
           \/ \E p \in Payments, o \in Orders : CreateIntent(p, o)
           \/ \E p \in Payments : StripeCaptures(p)
           \/ \E allow \in BOOLEAN, percent \in Percents : UpdatePolicy(allow, percent)
  BY <1>1 DEF vars, CreateIntent, StripeCaptures, UpdatePolicy
<1> QED
  BY <1>1, OnlyReads, Zenon DEF Next

LEMMA EarningIsPostedStep ==
  ASSUME TypeOK, ChargeInvariant, SettleInv, [Next]_vars
  PROVE  EarningIsPosted'
<1>0. EarningIsPosted /\ ledger \subseteq ledger'
  BY ChargeInvariantStep DEF SettleInv, Grows
<1>1. ASSUME \A x \in Orders : order'[x] = order[x] \/ order'[x].status # "DELIVERED"
      PROVE  EarningIsPosted'
  BY <1>0, <1>1 DEF EarningIsPosted, HasRow
<1>2. ASSUME NEW r \in Requests, UpdateCommit(r) PROVE EarningIsPosted'
  <2>1. ASSUME NEW x \in Orders, order'[x].status = "DELIVERED"
        PROVE  HasRow(order[x].provider, x, "ORDER_EARNING")'
    <3>1. CASE order'[x] = order[x]
      BY <1>0, <2>1, <3>1 DEF EarningIsPosted, HasRow
    <3>2. CASE order'[x] # order[x]
      BY <1>2, <2>1, <3>2, DeliveryPosts DEF HasRow
    <3> QED
      BY <3>1, <3>2
  <2> QED
    BY <2>1 DEF EarningIsPosted
<1>3. ASSUME NEW r \in Requests, AcceptCommit(r) PROVE EarningIsPosted'
  <2>1. req[r] \in AcceptRequest /\ RequestIsSound(req[r]) /\ req[r].op = "accept"
    BY <1>3, RequestNow, RequestKind DEF AcceptCommit, IsAt
  <2>2. req[r].order \in Orders /\ Placed(req[r].order) /\ SetStatus(req[r].order, "ACCEPTED")
    BY <1>3, <2>1 DEF RequestIsSound, AcceptRequest, AcceptCommit
  <2> QED
    BY <1>1, <2>2, NotDelivered
<1>4. ASSUME NEW r \in Requests, CancelCommit(r) PROVE EarningIsPosted'
  <2>1. req[r] \in RefundRequest /\ RequestIsSound(req[r]) /\ req[r].op = "refund"
    BY <1>4, RequestNow, RequestKind, Zenon DEF CancelCommit, IsAt
  <2>2. SetStatus(req[r].order, "CANCELLED")
    BY <1>4, Zenon DEF CancelCommit
  <2>3. req[r].order \in Orders /\ Placed(req[r].order)
    BY <2>1 DEF RequestIsSound, RefundRequest, Charged
  <2> QED
    BY <1>1, <2>2, <2>3, NotDelivered
<1>5. ASSUME NEW r \in Requests, SettleApply(r) PROVE EarningIsPosted'
  <2>1. req[r] \in ApplyRequest /\ RequestIsSound(req[r]) /\ req[r].op = "apply"
    BY <1>5, RequestNow, RequestKind DEF SettleApply, IsAt
  <2> PICK p \in Payments : p = req[r].payment /\ payment[p] # NotCreated
    BY <2>1 DEF ApplyRequest, RequestIsSound
  <2>2. payment[p].order \in Orders /\ Placed(payment[p].order)
    BY DEF TypeOK, PaymentRow, ChargeInvariant, PaymentsAreLinked
  <2>3. PICK s \in {"ACCEPTED", "CANCELLED"} : SetStatus(payment[p].order, s)
    BY <1>5 DEF SettleApply
  <2> QED
    BY <1>1, <2>2, <2>3, NotDelivered
<1>6. ASSUME NEW r \in Requests, NEW o \in Orders, NEW rate \in CommissionRates, CheckoutCommit(r, o, rate)
      PROVE  EarningIsPosted'
  <2>1. \A x \in Orders : order'[x] = order[x] \/ order'[x].status # "DELIVERED"
    BY <1>6 DEF CheckoutCommit, TypeOK
  <2> QED
    BY <1>1, <2>1
<1>7. CASE UNCHANGED order
  BY <1>1, <1>7
<1>8. ASSUME NEW r \in Requests, ApproveCommit(r) PROVE EarningIsPosted'
  <2>1. PICK o \in Orders : o = req[r].order /\ Placed(o)
    BY <1>8, RequestNow, RequestKind DEF ApproveCommit, IsAt, RequestIsSound, ApproveRequest
  <2>2. SetStatus(o, "CANCELLED")
    BY <1>8, <2>1 DEF ApproveCommit
  <2> QED
    BY <1>1, <2>1, <2>2, NotDelivered
<1>9. ASSUME NEW r \in Requests, RepayCommit(r) PROVE EarningIsPosted'
  <2> PICK p \in Payments, o \in Orders : RepayFacts(r, p, o)
    BY <1>9, RepayKnows
  <2>1. Placed(o) /\ (UNCHANGED order \/ SetStatus(o, "CANCELLED"))
    BY DEF RepayFacts
  <2> QED
    BY <1>1, <1>7, <2>1, NotDelivered
<1> QED
  BY <1>2, <1>3, <1>4, <1>5, <1>6, <1>7, <1>8, <1>9, WhoWrites

LEMMA BalancedStep ==
  ASSUME OneAtATime, TypeOK, TypeOK', ChargeInvariant, SerialInv, SettleInv, [Next]_vars
  PROVE  IsFiniteSet(ledger)' /\ Balanced'
<1> DEFINE Goal == IsFiniteSet(ledger)' /\ \A x \in Orders : Placed(x)' => OrderBalanced(x)'
<1>1. ASSUME UNCHANGED <<order, ledger>> PROVE Goal
  <2>1. ASSUME NEW x \in Orders, Placed(x)' PROVE OrderBalanced(x)'
    BY <1>1, <2>1, UntouchedBalanced DEF Placed
  <2>2. IsFiniteSet(ledger)'
    BY <1>1 DEF SettleInv
  <2> QED
    BY <2>1, <2>2
<1>2. ASSUME NEW r \in Requests,
             \/ \E o \in Orders, rate \in CommissionRates : CheckoutCommit(r, o, rate)
             \/ AcceptCommit(r) \/ UpdateCommit(r) \/ CancelCommit(r) \/ SettleApply(r)
             \/ ApproveCommit(r) \/ RepayCommit(r)
      PROVE  Goal
  BY <1>2, CheckoutBalanced, AcceptBalanced, UpdateBalanced, CancelBalanced, ApplyBalanced,
     RefundsBalanced
<1> HIDE DEF Goal
<1>3. Goal
  BY <1>1, <1>2, WhoWrites
<1> QED
  BY <1>3 DEF Goal, Balanced, OrderBalanced

LEMMA InitSettled == Init => SettleInv
<1> SUFFICES ASSUME Init PROVE SettleInv
  OBVIOUS
<1>1. IsFiniteSet(ledger) /\ IsFiniteSet(captured)
  BY FS_EmptySet DEF Init
<1>2. \A o \in Orders : ~Placed(o) /\ order[o].status # "DELIVERED"
  BY DEF Init, Placed, NotPlaced
<1>3. \A r \in Requests : StillDue(req[r])
  BY DEF Init, StillDue, Idle
<1> QED
  BY <1>1, <1>2, <1>3 DEF SettleInv, EarningIsPosted, Balanced

LEMMA SettledStep ==
  ASSUME OneAtATime
  PROVE  IInv /\ SerialInv /\ SettleInv /\ [Next]_vars => SettleInv'
<1> SUFFICES ASSUME TypeOK, ChargeInvariant, SerialInv, SettleInv, [Next]_vars PROVE SettleInv'
  BY DEF IInv
<1>1. TypeOK'
  BY TypeOKStep
<1>2. IsFiniteSet(ledger)' /\ Balanced'
  BY <1>1, BalancedStep
<1>3. IsFiniteSet(captured)'
  BY AppliedGrows
<1>4. EarningIsPosted'
  BY EarningIsPostedStep
<1>5. (\A x \in Requests : StillDue(req[x]))'
  BY StillDueStep
<1> QED
  BY <1>2, <1>3, <1>4, <1>5 DEF SettleInv

\* What is balanced is covered: nothing less than nothing is owed, and what
\* has been applied has been captured.
LEMMA BalancedIsCovered ==
  ASSUME TypeOK, SettleInv
  PROVE  SettlementCovered
<1> SUFFICES ASSUME NEW o \in Orders, Placed(o) PROVE PaidOut(o) <= PaidIn(o)
  BY DEF SettlementCovered
<1> PICK paid, taken : paid = Applied(o) /\ taken = {p \in captured : payment[p].order = o}
  OBVIOUS
<1> PICK total \in Nat : total = order[o].total
  BY PlacedRow
<1>1. /\ paid \in SUBSET taken /\ taken \subseteq captured
  BY DEF Applied
<1>2. IsFiniteSet(taken) /\ IsFiniteSet(paid)
  BY <1>1, FS_Subset DEF SettleInv
<1>3. /\ Cardinality(paid) \in Nat /\ Cardinality(taken) \in Nat
      /\ Cardinality(paid) <= Cardinality(taken)
  BY <1>1, <1>2, FS_Subset, FS_CardinalityType
<1> PICK cards \in Int, all \in Int : /\ cards = total * Cardinality(paid)
                                      /\ all = total * Cardinality(taken)
                                      /\ cards <= all
  BY <1>3, TimesMore
<1>4. FromCards(o) = cards
  BY DEF FromCards
<1>5. PaidIn(o) = FromWallet(o) + all
  BY DEF PaidIn
<1>6. PaidOut(o) \in Int /\ FromWallet(o) \in Int /\ Owed(o) \in Int /\ 0 <= Owed(o)
  BY OwedTypes, RowsOfAnOrder DEF SettleInv
<1>7. PaidOut(o) + Owed(o) <= FromWallet(o) + FromCards(o)
  BY DEF SettleInv, Balanced
<1> HIDE DEF Owed
<1> QED
  BY <1>4, <1>5, <1>6, <1>7

\* Requests that do not overlap never give out more for an order than was paid for it:
\* its refund, its platform fee and the provider's earning (cancelOrderWithRefund,
\* upsertOrderEarningLedger) stay within the wallet's charge and the captured cards.
THEOREM SettlementsAreCovered == OneAtATime => (Spec => []SettlementCovered)
<1> SUFFICES ASSUME OneAtATime PROVE Spec => []SettlementCovered
  OBVIOUS
<1>1. IInv /\ SerialInv /\ [Next]_vars => SerialInv'
  BY StepSerially
<1>2. IInv /\ SerialInv /\ SettleInv /\ [Next]_vars => SettleInv'
  BY SettledStep
<1>3. IInv /\ SettleInv => SettlementCovered
  BY BalancedIsCovered DEF IInv
<1> QED
  BY <1>1, <1>2, <1>3, InitSerially, InitSettled, Invariance, PTL DEF Spec

-----------------------------------------------------------------------------
(* Statuses, when requests run one at a time.                              *)

\* A request has the order in the status it saw it in.
SeesTheOrder(q) ==
  /\ q.op = "update" => order[q.order].status = q.seen
  /\ q.op = "accept" => order[q.order].status = "PENDING"
  /\ q.op \in {"cancel", "refund"} => order[q.order].status \in {"ACCEPTED", "PROCESSING"}

MapInv == IInv /\ \A r \in Requests : SeesTheOrder(req[r])

\* A card payment of order o has settled, and makes of the order what it says.
SettledByCard(o) ==
  \E r \in Requests :
    /\ IsAt(r, "apply") /\ payment[req[r].payment].order = o
    /\ order'[o].status = IF req[r].outcome = "SUCCEEDED" THEN "ACCEPTED" ELSE "CANCELLED"

\* Order o is refunded beside the wallet: a provider has approved a request for it, or
\* an administrator refunds all of a payment made for it.
RefundInHand(o) ==
  \E r \in Requests :
    \/ IsAt(r, "approve") /\ req[r].order = o
    \/ IsAt(r, "repay") /\ req[r].full /\ payment[req[r].payment].order = o

\* What an order's status may do: follow the map that assertTransition asks, be cancelled
\* while accepted or in process (cancelOrder), become what a card payment for the order
\* makes of it (confirm and the webhook), or be cancelled by a refund beside the wallet
\* (approveWithSideEffects, processRefund).
StatusFollows(o) ==
  \/ order'[o].status = order[o].status
  \/ ~Placed(o)
  \/ <<order[o].status, order'[o].status>> \in Transitions
  \/ order[o].status \in {"ACCEPTED", "PROCESSING"} /\ order'[o].status = "CANCELLED"
  \/ SettledByCard(o)
  \/ RefundInHand(o) /\ order'[o].status = "CANCELLED"
StatusesFollowTheMap == \A o \in Orders : StatusFollows(o)

LEMMA IdleSees == SeesTheOrder(Idle)
BY DEF SeesTheOrder, Idle

\* The only request there is has been written.
LEMMA OnlyOneSees ==
  ASSUME OneAtATime, IInv, IInv', NEW r \in Requests, NEW q, req' = [req EXCEPT ![r] = q],
         SeesTheOrder(q)'
  PROVE  MapInv'
<1>1. req'[r] = q
  BY DEF IInv, TypeOK
<1>2. ASSUME NEW s \in Requests PROVE SeesTheOrder(req[s])'
  <2>1. s = r
    BY DEF OneAtATime
  <2> QED
    BY <1>1, <2>1
<1> QED
  BY <1>2 DEF MapInv

\* No order is written.
LEMMA UnmovedSees ==
  ASSUME NEW q, SeesTheOrder(q), UNCHANGED order
  PROVE  SeesTheOrder(q)'
BY DEF SeesTheOrder

LEMMA UnmovedFollows ==
  ASSUME UNCHANGED order
  PROVE  StatusesFollowTheMap
BY DEF StatusesFollowTheMap, StatusFollows

\* The steps that write no order.
LEMMA ReadingSees ==
  ASSUME OneAtATime, MapInv, IInv', NEW r \in Requests,
         \/ \E c \in Customers, p \in Providers, s \in Subtotals : CheckoutBegin(r, c, p, s)
         \/ \E o \in Orders, next \in OrderStatus : UpdateBegin(r, o, next)
         \/ DebitCheck(r)
         \/ \E o \in Orders : CancelBegin(r, o)
         \/ CancelFindPlatform(r)
         \/ \E p \in Payments : SettleBegin(r, p)
         \/ \E outcome \in IntentStatus : SettleRecord(r, outcome)
         \/ \E o \in Orders : ApproveBegin(r, o)
         \/ \E p \in Payments, full \in BOOLEAN : RepayBegin(r, p, full)
         \/ Fail(r)
  PROVE  MapInv' /\ UNCHANGED order
<1>0. IInv /\ SeesTheOrder(req[r])
  BY DEF MapInv
<1>1. UNCHANGED order
  BY DEF CheckoutBegin, UpdateBegin, DebitCheck, CancelBegin, CancelFindPlatform, SettleBegin,
         SettleRecord, ApproveBegin, RepayBegin, Fail
<1>2. ASSUME NEW q, req' = [req EXCEPT ![r] = q], SeesTheOrder(q)
      PROVE  MapInv'
  <2>1. SeesTheOrder(q)'
    BY <1>1, <1>2, UnmovedSees
  <2> QED
    BY <1>0, <1>2, <2>1, OnlyOneSees
<1>3. \A q : q.op \notin {"update", "accept", "cancel", "refund"} => SeesTheOrder(q)
  BY DEF SeesTheOrder
<1>4. ASSUME NEW c \in Customers, NEW p \in Providers, NEW s \in Subtotals,
             CheckoutBegin(r, c, p, s)
      PROVE  MapInv'
  BY <1>2, <1>3, <1>4 DEF CheckoutBegin, Start
<1>5. ASSUME NEW o \in Orders, NEW next \in OrderStatus, UpdateBegin(r, o, next)
      PROVE  MapInv'
  <2> DEFINE q == [op |-> "update", order |-> o, seen |-> order[o].status, next |-> next]
  <2>1. SeesTheOrder(q)
    BY DEF SeesTheOrder
  <2>2. req' = [req EXCEPT ![r] = q]
    BY <1>5 DEF UpdateBegin, Start
  <2> QED
    BY <1>2, <2>1, <2>2
<1>6. CASE DebitCheck(r)
  <2>1. PICK charge, used :
          req' = [req EXCEPT ![r] = [op |-> "accept", order |-> req[r].order,
                                     charge |-> charge, giftUsed |-> used]]
    BY <1>6 DEF DebitCheck, Continue
  <2>2. order[req[r].order].status = "PENDING"
    BY <1>0, <1>6 DEF DebitCheck, IsAt, Accepts, SeesTheOrder
  <2> DEFINE q == [op |-> "accept", order |-> req[r].order, charge |-> charge,
                   giftUsed |-> used]
  <2>3. SeesTheOrder(q)
    BY <2>2 DEF SeesTheOrder
  <2>4. req' = [req EXCEPT ![r] = q]
    BY <2>1
  <2> HIDE DEF q
  <2> QED
    BY <1>1, <1>2, <2>3, <2>4
<1>7. ASSUME NEW o \in Orders, CancelBegin(r, o) PROVE MapInv'
  <2> DEFINE q == [op |-> "cancel", order |-> o, percent |-> policy.percent]
  <2>1. SeesTheOrder(q)
    BY <1>7 DEF CancelBegin, SeesTheOrder
  <2>2. req' = [req EXCEPT ![r] = q]
    BY <1>7 DEF CancelBegin, Start
  <2> QED
    BY <1>2, <2>1, <2>2
<1>8. CASE CancelFindPlatform(r)
  <2>1. PICK w : req' = [req EXCEPT ![r] = [op |-> "refund", order |-> req[r].order,
                                            percent |-> req[r].percent, platform |-> w]]
    BY <1>8 DEF CancelFindPlatform, Continue
  <2>2. order[req[r].order].status \in {"ACCEPTED", "PROCESSING"}
    BY <1>0, <1>8 DEF CancelFindPlatform, IsAt, SeesTheOrder
  <2> DEFINE q == [op |-> "refund", order |-> req[r].order, percent |-> req[r].percent,
                   platform |-> w]
  <2>3. SeesTheOrder(q)
    BY <2>2 DEF SeesTheOrder
  <2>4. req' = [req EXCEPT ![r] = q]
    BY <2>1
  <2> HIDE DEF q
  <2> QED
    BY <1>1, <1>2, <2>3, <2>4
<1>9. ASSUME NEW p \in Payments, SettleBegin(r, p) PROVE MapInv'
  BY <1>2, <1>3, <1>9 DEF SettleBegin, Start
<1>10. ASSUME NEW outcome \in IntentStatus, SettleRecord(r, outcome) PROVE MapInv'
  BY <1>2, <1>3, <1>10, IdleSees DEF SettleRecord, Continue, Finish
<1>11. CASE Fail(r)
  BY <1>1, <1>2, <1>11, IdleSees DEF Fail, Finish
<1>12. ASSUME NEW o \in Orders, ApproveBegin(r, o) PROVE MapInv'
  BY <1>2, <1>3, <1>12 DEF ApproveBegin, Start
<1>13. ASSUME NEW p \in Payments, NEW full \in BOOLEAN, RepayBegin(r, p, full) PROVE MapInv'
  BY <1>2, <1>3, <1>13 DEF RepayBegin, Start
<1> QED
  BY <1>1, <1>4, <1>5, <1>6, <1>7, <1>8, <1>9, <1>10, <1>11, <1>12, <1>13

\* The steps that write the status of an order.
LEMMA WritingFollows ==
  ASSUME MapInv, NEW r \in Requests,
         \/ \E o \in Orders, rate \in CommissionRates : CheckoutCommit(r, o, rate)
         \/ AcceptCommit(r) \/ UpdateCommit(r) \/ CancelCommit(r) \/ SettleApply(r)
         \/ ApproveCommit(r) \/ RepayCommit(r)
  PROVE  StatusesFollowTheMap /\ Finish(r)
<1>0. TypeOK /\ SeesTheOrder(req[r]) /\ RequestIsSound(req[r]) /\ req[r] \in Request
  BY DEF MapInv, IInv, TypeOK, ChargeInvariant
<1>1. Finish(r)
  BY DEF CheckoutCommit, AcceptCommit, UpdateCommit, CancelCommit, SettleApply, ApproveCommit,
         RepayCommit
<1>2. ASSUME NEW o \in Orders, NEW row, order' = [order EXCEPT ![o] = row],
             StatusFollows(o)
      PROVE  StatusesFollowTheMap
  <2>1. \A x \in Orders : x # o => order'[x] = order[x]
    BY <1>0, <1>2 DEF TypeOK
  <2> QED
    BY <1>2, <2>1 DEF StatusesFollowTheMap, StatusFollows
<1>3. ASSUME NEW o \in Orders, NEW s, SetStatus(o, s), Placed(o),
             order'[o].status = s => StatusFollows(o)
      PROVE  StatusesFollowTheMap
  <2>1. order' = [order EXCEPT ![o] = WithStatus(order[o], s)]
    BY <1>3 DEF SetStatus
  <2>2. order[o] \in OrderRow
    BY <1>0, <1>3, PlacedRow
  <2>3. WithStatus(order[o], s).status = s
    BY <2>2, Zenon DEF WithStatus, OrderRow
  <2>4. order'[o].status = s
    BY <1>0, <2>1, <2>3 DEF TypeOK
  <2> QED
    BY <1>2, <1>3, <2>1, <2>4
<1>4. ASSUME NEW o \in Orders, NEW rate \in CommissionRates, CheckoutCommit(r, o, rate)
      PROVE  StatusesFollowTheMap
  BY <1>2, <1>4 DEF CheckoutCommit, StatusFollows
<1>5. CASE AcceptCommit(r)
  <2>1. req[r] \in AcceptRequest /\ req[r].op = "accept"
    BY <1>0, <1>5, RequestKind DEF AcceptCommit, IsAt
  <2>2. /\ req[r].order \in Orders /\ Placed(req[r].order)
        /\ order[req[r].order].status = "PENDING" /\ SetStatus(req[r].order, "ACCEPTED")
    BY <1>0, <1>5, <2>1 DEF AcceptCommit, SeesTheOrder, RequestIsSound, AcceptRequest
  <2>3. <<"PENDING", "ACCEPTED">> \in Transitions
    BY DEF Transitions
  <2>4. ASSUME order'[req[r].order].status = "ACCEPTED" PROVE StatusFollows(req[r].order)
    BY <2>2, <2>3, <2>4 DEF StatusFollows
  <2> QED
    BY <1>1, <1>3, <2>2, <2>3, <2>4
<1>6. CASE UpdateCommit(r)
  <2>1. req[r] \in UpdateRequest /\ req[r].op = "update"
    BY <1>0, <1>6, RequestKind DEF UpdateCommit, IsAt
  <2>2. /\ req[r].order \in Orders /\ Placed(req[r].order)
        /\ <<order[req[r].order].status, req[r].next>> \in Transitions
        /\ SetStatus(req[r].order, req[r].next)
    BY <1>0, <1>6, <2>1 DEF UpdateCommit, SeesTheOrder, RequestIsSound, UpdateRequest
  <2>3. ASSUME order'[req[r].order].status = req[r].next PROVE StatusFollows(req[r].order)
    BY <2>2, <2>3 DEF StatusFollows
  <2> QED
    BY <1>1, <1>3, <2>2, <2>3
<1>7. CASE CancelCommit(r)
  <2>1. req[r] \in RefundRequest /\ req[r].op = "refund"
    BY <1>0, <1>7, RequestKind DEF CancelCommit, IsAt
  <2>2. /\ req[r].order \in Orders
        /\ order[req[r].order].status \in {"ACCEPTED", "PROCESSING"}
        /\ SetStatus(req[r].order, "CANCELLED")
    BY <1>0, <1>7, <2>1 DEF CancelCommit, SeesTheOrder, RefundRequest
  <2>3. Placed(req[r].order)
    BY <1>0, <2>2, StatusMeansPlaced DEF OrderStatus
  <2>4. ASSUME order'[req[r].order].status = "CANCELLED" PROVE StatusFollows(req[r].order)
    BY <2>2, <2>3, <2>4 DEF StatusFollows
  <2> QED
    BY <1>1, <1>3, <2>2, <2>3, <2>4
<1>8. CASE SettleApply(r)
  <2>1. req[r] \in ApplyRequest /\ IsAt(r, "apply")
    BY <1>0, <1>8, RequestKind DEF SettleApply, IsAt
  <2> DEFINE o == payment[req[r].payment].order
  <2> DEFINE s == IF req[r].outcome = "SUCCEEDED" THEN "ACCEPTED" ELSE "CANCELLED"
  <2>2. SetStatus(o, s)
    BY <1>8 DEF SettleApply
  <2>3. o \in Orders /\ Placed(o)
    <3>1. req[r].payment \in Payments /\ payment[req[r].payment] # NotCreated
      BY <1>0, <2>1 DEF IsAt, RequestIsSound, ApplyRequest
    <3> QED
      BY <1>0, <3>1 DEF MapInv, IInv, ChargeInvariant, PaymentsAreLinked, TypeOK, PaymentRow
  <2>4. ASSUME order'[o].status = s PROVE StatusFollows(o)
    <3>1. SettledByCard(o)
      BY <2>1, <2>4 DEF SettledByCard
    <3> QED
      BY <3>1 DEF StatusFollows
  <2> HIDE DEF o, s
  <2> QED
    BY <1>1, <1>3, <2>1, <2>2, <2>3, <2>4
<1>9. CASE ApproveCommit(r)
  <2>1. req[r] \in ApproveRequest /\ IsAt(r, "approve")
    BY <1>0, <1>9, RequestKind DEF ApproveCommit, IsAt
  <2> PICK o \in Orders : o = req[r].order /\ Placed(o)
    BY <1>0, <2>1 DEF IsAt, RequestIsSound, ApproveRequest
  <2>2. SetStatus(o, "CANCELLED")
    BY <1>9 DEF ApproveCommit
  <2>3. ASSUME order'[o].status = "CANCELLED" PROVE StatusFollows(o)
    BY <2>1, <2>3 DEF StatusFollows, RefundInHand
  <2> QED
    BY <1>1, <1>3, <2>2, <2>3
<1>10. CASE RepayCommit(r)
  <2>1. IsAt(r, "repay") /\ TypeOK /\ ChargeInvariant
    BY <1>10 DEF RepayCommit, MapInv, IInv
  <2> PICK p \in Payments, o \in Orders : RepayFacts(r, p, o)
    BY <1>10, <2>1, RepayKnows
  <2>2. Placed(o) /\ p = req[r].payment /\ o = payment[p].order
    BY DEF RepayFacts
  <2>3. CASE UNCHANGED order
    BY <1>1, <2>3, UnmovedFollows
  <2>4. CASE req[r].full /\ SetStatus(o, "CANCELLED")
    <3>1. ASSUME order'[o].status = "CANCELLED" PROVE StatusFollows(o)
      BY <2>1, <2>2, <2>4, <3>1 DEF StatusFollows, RefundInHand
    <3> QED
      BY <1>1, <1>3, <2>2, <2>4, <3>1
  <2> QED
    BY <2>3, <2>4 DEF RepayFacts
<1> QED
  BY <1>1, <1>4, <1>5, <1>6, <1>7, <1>8, <1>9, <1>10

LEMMA MapStep ==
  ASSUME OneAtATime
  PROVE  MapInv /\ [Next]_vars => MapInv' /\ StatusesFollowTheMap
<1> SUFFICES ASSUME MapInv, [Next]_vars PROVE MapInv' /\ StatusesFollowTheMap
  OBVIOUS
<1>0. IInv'
  BY TypeOKStep, ChargeInvariantStep DEF MapInv, IInv
<1>1. ASSUME UNCHANGED <<order, req>> PROVE MapInv' /\ StatusesFollowTheMap
  <2>1. \A s \in Requests : SeesTheOrder(req[s])'
    BY <1>1 DEF MapInv, SeesTheOrder
  <2> QED
    BY <1>0, <1>1, <2>1, UnmovedFollows DEF MapInv
<1>2. ASSUME NEW r \in Requests,
             \/ \E o \in Orders, rate \in CommissionRates : CheckoutCommit(r, o, rate)
             \/ AcceptCommit(r) \/ UpdateCommit(r) \/ CancelCommit(r) \/ SettleApply(r)
             \/ ApproveCommit(r) \/ RepayCommit(r)
      PROVE  MapInv' /\ StatusesFollowTheMap
  <2>1. StatusesFollowTheMap /\ req' = [req EXCEPT ![r] = Idle]
    BY <1>2, WritingFollows DEF Finish
  <2>2. SeesTheOrder(Idle)'
    BY DEF SeesTheOrder, Idle
  <2> QED
    BY <1>0, <2>1, <2>2, OnlyOneSees DEF MapInv
<1>3. ASSUME NEW r \in Requests,
         \/ \E c \in Customers, p \in Providers, s \in Subtotals : CheckoutBegin(r, c, p, s)
         \/ \E o \in Orders, next \in OrderStatus : UpdateBegin(r, o, next)
         \/ DebitCheck(r)
         \/ \E o \in Orders : CancelBegin(r, o)
         \/ CancelFindPlatform(r)
         \/ \E p \in Payments : SettleBegin(r, p)
         \/ \E outcome \in IntentStatus : SettleRecord(r, outcome)
         \/ \E o \in Orders : ApproveBegin(r, o)
         \/ \E p \in Payments, full \in BOOLEAN : RepayBegin(r, p, full)
         \/ Fail(r)
      PROVE  MapInv' /\ StatusesFollowTheMap
  BY <1>0, <1>3, ReadingSees, UnmovedFollows
<1>4. ASSUME NEW p \in Payments, NEW o \in Orders, CreateIntent(p, o)
      PROVE  MapInv' /\ StatusesFollowTheMap
  BY <1>1, <1>4 DEF CreateIntent
<1>5. ASSUME NEW p \in Payments, StripeCaptures(p) PROVE MapInv' /\ StatusesFollowTheMap
  BY <1>1, <1>5 DEF StripeCaptures
<1>6. ASSUME NEW allow \in BOOLEAN, NEW percent \in Percents, UpdatePolicy(allow, percent)
      PROVE  MapInv' /\ StatusesFollowTheMap
  BY <1>1, <1>6 DEF UpdatePolicy
<1>7. CASE UNCHANGED vars
  BY <1>1, <1>7 DEF vars
<1> QED
  BY <1>2, <1>3, <1>4, <1>5, <1>6, <1>7 DEF Next

\* When requests do not overlap, an order's status changes only as the transition map, a
\* cancellation in time, a card payment or a refund beside the wallet says: no stale read
\* lets another change through.
THEOREM StatusesFollowSerially == OneAtATime => (Spec => [][StatusesFollowTheMap]_vars)
<1> SUFFICES ASSUME OneAtATime PROVE Spec => [][StatusesFollowTheMap]_vars
  OBVIOUS
<1>1. Init => MapInv
  <2> SUFFICES ASSUME Init PROVE MapInv
    OBVIOUS
  <2>1. \A r \in Requests : req[r] = Idle
    BY DEF Init
  <2> QED
    BY <2>1, IdleSees, InitTypeOK, InitChargeInvariant DEF MapInv, IInv
<1>2. MapInv /\ [Next]_vars => MapInv' /\ StatusesFollowTheMap
  BY MapStep
<1> QED
  BY <1>1, <1>2, PTL DEF Spec

\* What still moves an order that has ended.  A cancelled order moves only when a card
\* payment for it settles late, and is then accepted; a completed one only for that, or to
\* be cancelled by a refund beside the wallet (approveWithSideEffects, processRefund).
MovedAfterTheEnd(o) ==
  \/ SettledByCard(o)
  \/ order[o].status = "COMPLETED" /\ order'[o].status = "CANCELLED" /\ RefundInHand(o)
EndsButForCardsAndRefunds ==
  \A o \in Orders :
    order[o].status \in {"COMPLETED", "CANCELLED"}
      => order'[o].status = order[o].status \/ MovedAfterTheEnd(o)

\* When requests do not overlap, COMPLETED and CANCELLED end an order but for the writers
\* of statuses that look at none: the transition map and cancelOrder never break
\* TerminalStays, a late card payment and a refund beside the wallet do.
THEOREM OrdersEndButForCardsAndRefunds ==
  OneAtATime => (Spec => [][EndsButForCardsAndRefunds]_vars)
<1>1. StatusesFollowTheMap => EndsButForCardsAndRefunds
  <2> SUFFICES ASSUME StatusesFollowTheMap,
                      NEW o \in Orders, order[o].status \in {"COMPLETED", "CANCELLED"},
                      order'[o].status # order[o].status
               PROVE  MovedAfterTheEnd(o)
    BY DEF EndsButForCardsAndRefunds
  <2>1. StatusFollows(o)
    BY DEF StatusesFollowTheMap
  <2>2. Placed(o)
    BY DEF Placed, NotPlaced
  <2>3. <<order[o].status, order'[o].status>> \notin Transitions
    BY DEF Transitions
  <2> QED
    BY <2>1, <2>2, <2>3 DEF StatusFollows, MovedAfterTheEnd
<1> QED
  BY <1>1, StatusesFollowSerially, PTL
=============================================================================
