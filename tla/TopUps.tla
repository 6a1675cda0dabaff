------------------------------- MODULE TopUps -------------------------------
(***************************************************************************)
(* Card top-ups of a customer's wallet.  addFunds creates a pending ledger *)
(* row, a payment and a Stripe PaymentIntent; the customer pays at Stripe; *)
(* the outcome reaches the wallet by a webhook, by the payments endpoint   *)
(* confirm or by the wallet's own confirmTopUp, in any order, repeatedly   *)
(* and concurrently.                                                       *)
(*                                                                         *)
(* A handler is a request that reads, asks Stripe, writes the payment and  *)
(* then, in a transaction of its own, the ledger row and the wallet.  A    *)
(* process may crash between any two of these.                             *)
(***************************************************************************)
EXTENDS Integers, FiniteSets

CONSTANTS
    Customers,   \* customer ids; a customer's id also names its wallet
    Keys,        \* idempotency keys of addFunds, which name the payments
    Owner,       \* Owner[k]: the customer whose id is part of key k
    TopUpRows,   \* ids of the TOP_UP rows of the wallet ledger
    Amounts,     \* amounts a customer tops up, in cents
    Requests,    \* the handlers that can be in flight at the same time
    MaxFailures  \* bound: how many requests fail between two of their writes

ASSUME KeysAreOwned == Owner \in [Keys -> Customers]
ASSUME AmountsArePositive == Amounts \subseteq Nat \ {0} /\ MaxFailures \in Nat

VARIABLES
    balance,   \* Wallet.balance of each customer
    topUp,     \* topUp[l]: the ledger row, or NotCreated
    payment,   \* payment[k]: the Payment row, or NotCreated
    intent,    \* intent[k]: Stripe's status of the PaymentIntent made with key k
    events,    \* events[k]: what Stripe has to tell of it, again and again
    failures,  \* how many requests have failed so far
    req        \* req[r]: where request r is, and what it has read

vars == <<balance, topUp, payment, intent, events, failures, req>>

-----------------------------------------------------------------------------
(* The rows and the requests.                                              *)

NotCreated == [status |-> "NONE"]
TopUpRow == [status : {"PENDING", "SUCCESS", "FAILED"}, customer : Customers, amount : Amounts]

Final == {"SUCCEEDED", "FAILED", "CANCELLED"}
\* A payment is PENDING until its intent is stored with it.
PaymentRow == [status : {"PENDING", "PROCESSING"} \cup Final, topUp : TopUpRows]

IntentStatus == {"none", "requires_payment_method", "requires_action", "succeeded", "canceled"}

Idle == [op |-> "idle"]
Request ==
    {Idle}
      \cup [op : {"pay"}, key : Keys, topUp : TopUpRows]
      \cup [op : {"intent", "confirm", "confirmTopUp"}, key : Keys]
      \cup [op : {"record"}, key : Keys, status : {"PROCESSING"} \cup Final]
      \cup [op : {"settle"}, key : Keys, status : {"SUCCEEDED", "FAILED"}]

IsAt(r, op) == req[r].op = op
Start(r, record) == req[r] = Idle /\ req' = [req EXCEPT ![r] = record]
Continue(r, record) == req' = [req EXCEPT ![r] = record]
Finish(r) == req' = [req EXCEPT ![r] = Idle]

WithStatus(row, status) == [row EXCEPT !.status = status]
HasIntent(k) == payment[k] # NotCreated /\ payment[k].status # "PENDING"
RowOf(k) == topUp[payment[k].topUp]
RowIs(k, statuses) == payment[k] # NotCreated /\ RowOf(k).status \in statuses

Init ==
    /\ balance = [c \in Customers |-> 0]
    /\ topUp = [l \in TopUpRows |-> NotCreated]
    /\ payment = [k \in Keys |-> NotCreated]
    /\ intent = [k \in Keys |-> "none"]
    /\ events = [k \in Keys |-> {}]
    /\ failures = 0
    /\ req = [r \in Requests |-> Idle]

-----------------------------------------------------------------------------
(* addFunds.                                                               *)

\* The lookup by key and the new ledger row.  A payment that has its intent is
\* replayed, which writes nothing; one left without an intent is not.
AddFundsBegin(r, k, l, amount) ==
    /\ ~HasIntent(k)
    /\ topUp[l] = NotCreated
    /\ topUp' = [topUp EXCEPT ![l] =
                    [status |-> "PENDING", customer |-> Owner[k], amount |-> amount]]
    /\ Start(r, [op |-> "pay", key |-> k, topUp |-> l])
    /\ UNCHANGED <<balance, payment, intent, events, failures>>

\* createWalletTopUpPayment: idempotencyKey is unique, the second request with
\* it fails here (Fail) and leaves its ledger row behind.
AddFundsPayment(r) ==
    LET q == req[r]
    IN  /\ IsAt(r, "pay")
        /\ payment[q.key] = NotCreated
        /\ payment' = [payment EXCEPT ![q.key] = [status |-> "PENDING", topUp |-> q.topUp]]
        /\ Continue(r, [op |-> "intent", key |-> q.key])
        /\ UNCHANGED <<balance, topUp, intent, events, failures>>

\* Stripe creates the intent and the payment stores it.  An intent that is not
\* stored because of a crash between the two is known to nobody who could pay it.
AddFundsIntent(r) ==
    LET k == req[r].key
    IN  /\ IsAt(r, "intent")
        /\ payment' = [payment EXCEPT ![k] = WithStatus(@, "PROCESSING")]
        /\ intent' = [intent EXCEPT ![k] = "requires_payment_method"]
        /\ Finish(r)
        /\ UNCHANGED <<balance, topUp, events, failures>>

-----------------------------------------------------------------------------
(* Stripe, and the customer at Stripe.                                     *)

Attempt(k) ==
    /\ intent[k] = "requires_payment_method"
    /\ intent' = [intent EXCEPT ![k] = "requires_action"]
    /\ UNCHANGED <<balance, topUp, payment, events, failures, req>>

Pay(k) ==
    /\ intent[k] = "requires_action"
    /\ intent' = [intent EXCEPT ![k] = "succeeded"]
    /\ events' = [events EXCEPT ![k] = @ \cup {"SUCCEEDED"}]
    /\ UNCHANGED <<balance, topUp, payment, failures, req>>

\* A declined card leaves the intent open for another one.
Decline(k) ==
    /\ intent[k] = "requires_action"
    /\ intent' = [intent EXCEPT ![k] = "requires_payment_method"]
    /\ events' = [events EXCEPT ![k] = @ \cup {"FAILED"}]
    /\ UNCHANGED <<balance, topUp, payment, failures, req>>

CancelIntent(k) ==
    /\ intent[k] \in {"requires_payment_method", "requires_action"}
    /\ intent' = [intent EXCEPT ![k] = "canceled"]
    /\ events' = [events EXCEPT ![k] = @ \cup {"CANCELLED"}]
    /\ UNCHANGED <<balance, topUp, payment, failures, req>>

-----------------------------------------------------------------------------
(* The three ways an outcome arrives.                                      *)

\* updateFromStripeIntent: an event may be late, repeated or out of order.
WebhookBegin(r, k, status) ==
    /\ status \in events[k]
    /\ HasIntent(k)
    /\ payment[k].status \notin Final
    /\ Start(r, [op |-> "record", key |-> k, status |-> status])
    /\ UNCHANGED <<balance, topUp, payment, intent, events, failures>>

\* confirm of the payments module reads the payment, then asks Stripe.
ConfirmBegin(r, k) ==
    /\ HasIntent(k)
    /\ payment[k].status \notin Final
    /\ Start(r, [op |-> "confirm", key |-> k])
    /\ UNCHANGED <<balance, topUp, payment, intent, events, failures>>

\* statusFromStripe.
StatusFromStripe ==
    [requires_payment_method |-> "FAILED", requires_action |-> "PROCESSING",
     succeeded |-> "SUCCEEDED", canceled |-> "CANCELLED"]

ConfirmRetrieve(r) ==
    LET k == req[r].key
    IN  /\ IsAt(r, "confirm")
        /\ Continue(r, [op |-> "record", key |-> k, status |-> StatusFromStripe[intent[k]]])
        /\ UNCHANGED <<balance, topUp, payment, intent, events, failures>>

\* Mutant: a payment with a final status is not asked about again.
MutantTopUpBegin(r, k) ==
    /\ HasIntent(k)
    /\ payment[k].status \notin Final
    /\ RowOf(k).status = "PENDING"
    /\ Start(r, [op |-> "confirmTopUp", key |-> k])
    /\ UNCHANGED <<balance, topUp, payment, intent, events, failures>>

\* confirmTopUp of the wallet module looks at the ledger row instead, and can
\* so finish what a crash left between the payment and the row.
ConfirmTopUpBegin(r, k) ==
    /\ HasIntent(k)
    /\ RowOf(k).status = "PENDING"
    /\ Start(r, [op |-> "confirmTopUp", key |-> k])
    /\ UNCHANGED <<balance, topUp, payment, intent, events, failures>>

\* Mutant: an intent that has not failed yet is taken for paid.
MutantTopUpRetrieve(r) ==
    LET k == req[r].key
        status == IF intent[k] = "canceled" THEN "FAILED" ELSE "SUCCEEDED"
    IN  /\ IsAt(r, "confirmTopUp")
        /\ Continue(r, [op |-> "record", key |-> k, status |-> status])
        /\ UNCHANGED <<balance, topUp, payment, intent, events, failures>>

ConfirmTopUpRetrieve(r) ==
    LET k == req[r].key
        Record(status) == Continue(r, [op |-> "record", key |-> k, status |-> status])
    IN  /\ IsAt(r, "confirmTopUp")
        /\ \/ intent[k] = "succeeded" /\ Record("SUCCEEDED")
           \/ intent[k] \in {"canceled", "requires_payment_method"} /\ Record("FAILED")
           \/ intent[k] = "requires_action" /\ Finish(r)
        /\ UNCHANGED <<balance, topUp, payment, intent, events, failures>>

\* The unconditional update of the payment, from what was read before.
RecordPayment(r) ==
    LET q == req[r]
    IN  /\ IsAt(r, "record")
        /\ payment' = [payment EXCEPT ![q.key] = WithStatus(@, q.status)]
        /\ IF q.status \in {"SUCCEEDED", "FAILED"}
           THEN Continue(r, [op |-> "settle", key |-> q.key, status |-> q.status])
           ELSE Finish(r)
        /\ UNCHANGED <<balance, topUp, intent, events, failures>>

\* Mutant: the row is flipped whatever its status is.
MutantCanSettle(k) == RowOf(k).status # "SUCCESS"

\* Both updates of the ledger row ask for a pending one.
CanSettle(k) == RowOf(k).status = "PENDING"

\* Mutant: the balance is credited whether the row was flipped or not.
MutantSettle(r) ==
    LET q == req[r]
        l == payment[q.key].topUp
        row == topUp[l]
    IN  /\ IsAt(r, "settle")
        /\ IF q.status = "SUCCEEDED"
           THEN balance' = [balance EXCEPT ![row.customer] = @ + row.amount]
           ELSE UNCHANGED balance
        /\ IF CanSettle(q.key)
           THEN topUp' = [topUp EXCEPT ![l] = WithStatus(@, IF q.status = "SUCCEEDED"
                                                            THEN "SUCCESS" ELSE "FAILED")]
           ELSE UNCHANGED topUp
        /\ Finish(r)
        /\ UNCHANGED <<payment, intent, events, failures>>

\* completeWalletTopUp or updateWalletTopUpStatus, each a transaction.
Settle(r) ==
    LET q == req[r]
        l == payment[q.key].topUp
        row == topUp[l]
    IN  /\ IsAt(r, "settle")
        /\ \/ /\ CanSettle(q.key) /\ q.status = "SUCCEEDED"
              /\ topUp' = [topUp EXCEPT ![l] = WithStatus(@, "SUCCESS")]
              /\ balance' = [balance EXCEPT ![row.customer] = @ + row.amount]
           \/ /\ CanSettle(q.key) /\ q.status = "FAILED"
              /\ topUp' = [topUp EXCEPT ![l] = WithStatus(@, "FAILED")]
              /\ UNCHANGED balance
           \/ /\ ~CanSettle(q.key)
              /\ UNCHANGED <<topUp, balance>>
        /\ Finish(r)
        /\ UNCHANGED <<payment, intent, events, failures>>

-----------------------------------------------------------------------------
\* A unique violation in addFunds ends the request.
AddFundsConflict(r) ==
    /\ IsAt(r, "pay")
    /\ payment[req[r].key] # NotCreated
    /\ Finish(r)
    /\ UNCHANGED <<balance, topUp, payment, intent, events, failures>>

\* A request ends without its next write: a failed call to Stripe or to the
\* database, or a crash of the process.
Fail(r) ==
    /\ req[r] # Idle
    /\ failures < MaxFailures
    /\ failures' = failures + 1
    /\ Finish(r)
    /\ UNCHANGED <<balance, topUp, payment, intent, events>>

\* What a request does by itself once it has started.
Proceed(r) ==
    \/ AddFundsPayment(r) \/ AddFundsConflict(r) \/ AddFundsIntent(r)
    \/ ConfirmRetrieve(r) \/ ConfirmTopUpRetrieve(r)
    \/ RecordPayment(r) \/ Settle(r)

Next ==
    \/ \E r \in Requests :
         \/ \E k \in Keys, l \in TopUpRows, amount \in Amounts : AddFundsBegin(r, k, l, amount)
         \/ \E k \in Keys, status \in Final : WebhookBegin(r, k, status)
         \/ \E k \in Keys : ConfirmBegin(r, k) \/ ConfirmTopUpBegin(r, k)
         \/ Proceed(r)
         \/ Fail(r)
    \/ \E k \in Keys : Attempt(k) \/ Pay(k) \/ Decline(k) \/ CancelIntent(k)

Spec == Init /\ [][Next]_vars

\* The event loop runs every handler that has started to its end, and the
\* customer, waiting for the money, has the client confirm again and again.
FairSpec ==
    /\ Spec
    /\ \A r \in Requests : WF_vars(Proceed(r))
    /\ \A k \in Keys : SF_vars(\E r \in Requests : ConfirmTopUpBegin(r, k))

-----------------------------------------------------------------------------
(* Properties.                                                             *)

\* Every variable holds a row or a request of its type.
TypeOK ==
    /\ balance \in [Customers -> Nat]
    /\ topUp \in [TopUpRows -> {NotCreated} \cup TopUpRow]
    /\ payment \in [Keys -> {NotCreated} \cup PaymentRow]
    /\ intent \in [Keys -> IntentStatus]
    /\ events \in [Keys -> SUBSET Final]
    /\ failures \in 0..MaxFailures
    /\ req \in [Requests -> Request]

\* A row is only credited when the card has been charged for it: one intent,
\* paid, for each credited row, and no two rows for one intent.
CreditIsPaid ==
    \A l \in TopUpRows :
      topUp[l].status = "SUCCESS" =>
        \E k \in Keys : /\ payment[k] # NotCreated
                        /\ payment[k].topUp = l
                        /\ intent[k] = "succeeded"
                        /\ topUp[l].customer = Owner[k]

\* "Concurrent confirmations can never double-credit the wallet": a wallet
\* moves in one step with one pending row that succeeds, by its amount, and a
\* row that succeeds moves the wallet.
CreditedWithRow ==
    [][\A c \in Customers :
         LET credited == {l \in TopUpRows : /\ topUp'[l].status = "SUCCESS"
                                            /\ topUp[l].status # "SUCCESS"
                                            /\ topUp'[l].customer = c}
         IN  \/ credited = {} /\ balance'[c] = balance[c]
             \/ \E l \in credited : /\ credited = {l}
                                    /\ topUp[l].status = "PENDING"
                                    /\ balance'[c] = balance[c] + topUp[l].amount]_vars

\* A top-up that has succeeded or failed stays so, and so does its amount, in
\* whatever order late events and confirmations arrive.
SettledStays ==
    [][\A l \in TopUpRows :
         topUp[l].status \in {"SUCCESS", "FAILED"} => topUp'[l] = topUp[l]]_vars

\* "If Stripe's webhook never reaches us, the client can [...] settle the
\* top-up": no crash leaves a paid top-up pending for ever.
PaidIsSettled ==
    \A k \in Keys : intent[k] = "succeeded" ~> RowIs(k, {"SUCCESS", "FAILED"})

\* A top-up the customer has paid for is credited in the end.
PaidIsCredited ==
    \A k \in Keys : intent[k] = "succeeded" ~> RowIs(k, {"SUCCESS"})
-----------------------------------------------------------------------------
(* Why CreditIsPaid holds: the outcome a request carries stays true of the *)
(* intent it asked about, because a paid intent stays paid.                *)

IsTopUpOf(l, k) == topUp[l] # NotCreated /\ topUp[l].customer = Owner[k]

PaymentsAreLinked ==
    \A k \in Keys :
      /\ payment[k] # NotCreated => IsTopUpOf(payment[k].topUp, k)
      /\ intent[k] # "none" => payment[k] # NotCreated
      /\ HasIntent(k) => intent[k] # "none"
      /\ "SUCCEEDED" \in events[k] => intent[k] = "succeeded"

RequestIsSound(q) ==
    /\ q.op = "pay" => IsTopUpOf(q.topUp, q.key)
    /\ q.op \in {"intent", "confirm", "confirmTopUp", "record", "settle"} =>
         payment[q.key] # NotCreated
    /\ q.op = "intent" => intent[q.key] = "none"
    /\ q.op \in {"confirm", "confirmTopUp", "record"} => intent[q.key] # "none"
    /\ q.op \in {"record", "settle"} /\ q.status = "SUCCEEDED" =>
         intent[q.key] = "succeeded"

\* The unique index lets one request at most create the intent of a payment.
OneCreator ==
    \A r, s \in Requests :
      IsAt(r, "intent") /\ IsAt(s, "intent") /\ req[r].key = req[s].key => r = s

PaymentInvariant ==
    /\ PaymentsAreLinked
    /\ \A r \in Requests : RequestIsSound(req[r])
    /\ OneCreator
    /\ CreditIsPaid
=============================================================================
