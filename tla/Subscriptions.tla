---------------------------- MODULE Subscriptions ----------------------------
(***************************************************************************)
(* A subscription plan and one customer's subscriptions to it: checkout,   *)
(* confirmation, cancellation and reactivation, Stripe, which decides and  *)
(* tells by events, and the administrators who edit the plan.  Every       *)
(* request asks Stripe, or reads the plan, and writes later; events come   *)
(* in any order.  A checkout is named by its idempotency key, and so is    *)
(* the subscription Stripe makes for it, however often it is asked.  The   *)
(* plan has one billing cycle; a price is its amount and its currency.     *)
(***************************************************************************)
EXTENDS Naturals, Sequences

CONSTANTS
  Key,         \* idempotency keys of checkouts
  Caller,      \* requests of the customer that may overlap
  PlanEdit,    \* edits of the plan that may overlap
  MaxPrice,    \* bound of the model: the prices a plan may have
  MaxChange    \* bound of the model: changes of subscriptions at Stripe

ASSUME SubscriptionsAssumption == MaxPrice \in Nat \ {0} /\ MaxChange \in Nat \ {0}

VARIABLES
  plan,      \* the plan's row
  edit,      \* edit[a]: what an edit of the plan holds
  rows,      \* keys of the rows of customer_subscriptions, in the order of creation
  sub,       \* sub[k]: the row of key k
  paid,      \* keys whose initial payment is recorded
  gateway,   \* gateway[k]: the subscription at Stripe
  events,    \* events of Stripe that have not been handled
  changes,   \* how many changes Stripe has made
  caller     \* caller[c]: what a request holds

subscriptionVars == <<plan, edit, rows, sub, paid, gateway, events, changes, caller>>

StripeStatus == {"incomplete", "incomplete_expired", "active", "trialing", "past_due",
                 "unpaid", "canceled"}
SubStatus == {"INCOMPLETE", "EXPIRED", "ACTIVE", "TRIALING", "PAST_DUE", "CANCELLED"}
Price == 1 .. MaxPrice
NoPrice == 0

\* overtaken (history): since the cached price was saved or kept, a checkout or an edit
\* has written from a price of the plan that was no longer its price.
PlanRow == [price : Price, cached : Price \cup {NoPrice}, listed : BOOLEAN, overtaken : BOOLEAN]

\* seen (history): the change at Stripe the row was last written from.
SubRow == [status : SubStatus, isPremium : BOOLEAN, atEnd : BOOLEAN, seen : 0 .. MaxChange]
Gateway == [status : StripeStatus, atEnd : BOOLEAN, change : 0 .. MaxChange]

NoSub == [status |-> "NONE"]
Free == [op |-> "idle"]

\* read: the price of the plan when the edit began; price: the new one, if any is asked.
Edit == [price : Price \cup {NoPrice}, read : Price]
NoEdit == [op |-> "idle"]

IsPremiumStatus(status) == status \in {"ACTIVE", "TRIALING"}

StatusFromStripe(status) ==
  CASE status = "active" -> "ACTIVE"
    [] status = "trialing" -> "TRIALING"
    [] status \in {"past_due", "unpaid"} -> "PAST_DUE"
    [] status = "canceled" -> "CANCELLED"
    [] status = "incomplete_expired" -> "EXPIRED"
    [] OTHER -> "INCOMPLETE"

Row(status, atEnd, seen) ==
  [status |-> status, isPremium |-> IsPremiumStatus(status), atEnd |-> atEnd, seen |-> seen]

\* findFirst, newest first: k is the row it finds.
Newest(k, statuses) ==
  \E i \in DOMAIN rows :
    /\ rows[i] = k /\ sub[k].status \in statuses
    /\ \A j \in DOMAIN rows : j > i => sub[rows[j]].status \notin statuses

Step(c, job) == caller' = [caller EXCEPT ![c] = job]

-----------------------------------------------------------------------------
(* The plan *)

EditStep(a, job) == edit' = [edit EXCEPT ![a] = job]

\* getPlan, and the prices asked for.
UpdatePlanBegin(a, price) ==
  /\ edit[a] = NoEdit
  /\ EditStep(a, [price |-> price, read |-> plan.price])
  /\ UNCHANGED <<plan, rows, sub, paid, gateway, events, changes, caller>>

\* Mutant: a new price leaves the cached one.
MutantWithPrice(price, read) ==
  [plan EXCEPT !.price = price, !.overtaken = @ \/ read # plan.price]

\* The new price is compared with the price read, and drops the cached one if it differs
\* from that; a price asked for and equal to it is written all the same.
WithPrice(price, read) ==
  IF price # read
  THEN [plan EXCEPT !.price = price, !.cached = NoPrice, !.overtaken = FALSE]
  ELSE [plan EXCEPT !.price = price, !.overtaken = @ \/ read # plan.price]

\* The write; status and visibility (un)list the plan.
UpdatePlan(a) ==
  /\ edit[a] # NoEdit
  /\ \E listed \in BOOLEAN :
       plan' = [(IF edit[a].price = NoPrice THEN plan ELSE WithPrice(edit[a].price, edit[a].read))
                  EXCEPT !.listed = listed]
  /\ EditStep(a, NoEdit)
  /\ UNCHANGED <<rows, sub, paid, gateway, events, changes, caller>>

\* The name's slug, the features or the database refuse, or the process stops.
UpdatePlanFails(a) ==
  /\ edit[a] # NoEdit
  /\ EditStep(a, NoEdit)
  /\ UNCHANGED <<plan, rows, sub, paid, gateway, events, changes, caller>>

-----------------------------------------------------------------------------
(* Checkout *)

\* A key with a payment is answered from its rows.  Otherwise the newest row that could
\* still be active must not be premium, and the plan must be listed.
Checkout(c, k) ==
  /\ caller[c] = Free /\ k \notin paid /\ plan.listed
  /\ \A existing \in Key : Newest(existing, {"ACTIVE", "TRIALING", "INCOMPLETE"}) =>
                             ~IsPremiumStatus(sub[existing].status)
  /\ Step(c, [op |-> IF plan.cached = NoPrice THEN "price" ELSE "create",
              key |-> k, price |-> plan.price])
  /\ UNCHANGED <<plan, edit, rows, sub, paid, gateway, events, changes>>

\* ensureStripePrice: a Stripe price is made for the plan as it was read, and cached.
SaveStripePlanIds(c) ==
  /\ caller[c].op = "price"
  /\ plan' = [plan EXCEPT !.cached = caller[c].price,
                          !.overtaken = caller[c].price # plan.price]
  /\ Step(c, [caller[c] EXCEPT !.op = "create"])
  /\ UNCHANGED <<edit, rows, sub, paid, gateway, events, changes>>

\* Stripe answers a key it knows with the subscription it made for it.
CreateAtStripe(c) ==
  /\ caller[c].op = "create"
  /\ LET k == caller[c].key
     IN gateway' = IF gateway[k] # NoSub THEN gateway
                   ELSE [gateway EXCEPT ![k] = [status |-> "incomplete", atEnd |-> FALSE,
                                                change |-> 0]]
  /\ Step(c, [op |-> "save", key |-> caller[c].key])
  /\ UNCHANGED <<plan, edit, rows, sub, paid, events, changes>>

\* stripeSubscriptionId is unique: a second row for it is refused.
CreateCustomerSubscription(c) ==
  /\ caller[c].op = "save" /\ sub[caller[c].key] = NoSub
  /\ sub' = [sub EXCEPT ![caller[c].key] = Row("INCOMPLETE", FALSE, 0)]
  /\ rows' = Append(rows, caller[c].key)
  /\ Step(c, [op |-> "pay", key |-> caller[c].key])
  /\ UNCHANGED <<plan, edit, paid, gateway, events, changes>>

CreateInitialSubscriptionPayment(c) ==
  /\ caller[c].op = "pay"
  /\ paid' = paid \cup {caller[c].key}
  /\ Step(c, Free)
  /\ UNCHANGED <<plan, edit, rows, sub, gateway, events, changes>>

-----------------------------------------------------------------------------
(* Requests that ask Stripe about a subscription and then write its row *)

\* Confirm: the state of the subscription at Stripe.
Confirm(c, k) ==
  /\ caller[c] = Free /\ sub[k] # NoSub /\ ~IsPremiumStatus(sub[k].status)
  /\ Step(c, [op |-> "write", key |-> k,
              row |-> Row(StatusFromStripe(gateway[k].status), gateway[k].atEnd,
                          gateway[k].change)])
  /\ UNCHANGED <<plan, edit, rows, sub, paid, gateway, events, changes>>

\* Every change of a subscription at Stripe is told in an event.
ChangeAt(k, status, atEnd, invoice) ==
  LET change == changes + 1
      Event(type) == [key |-> k, type |-> type, status |-> status, atEnd |-> atEnd,
                      change |-> change]
  IN /\ changes < MaxChange /\ changes' = change
     /\ gateway' = [gateway EXCEPT ![k] = [status |-> status, atEnd |-> atEnd,
                                           change |-> change]]
     /\ events' = events
          \cup {Event(IF status = "canceled" THEN "customer.subscription.deleted"
                      ELSE "customer.subscription.updated")}
          \cup {Event(type) : type \in invoice}

CurrentAction(k) == Newest(k, {"ACTIVE", "TRIALING", "PAST_DUE"})

CancelSubscription(c) ==
  /\ caller[c] = Free
  /\ \E k \in Key, atEnd \in BOOLEAN :
       LET status == IF atEnd THEN gateway[k].status ELSE "canceled"
       IN /\ CurrentAction(k) /\ gateway[k].status # "canceled"
          /\ ChangeAt(k, status, atEnd, {})
          /\ Step(c, [op |-> "write", key |-> k,
                      row |-> Row(StatusFromStripe(status), atEnd, changes + 1)])
  /\ UNCHANGED <<plan, edit, rows, sub, paid>>

\* The row becomes active whatever Stripe's status is.
ReactivateAction(c) ==
  /\ caller[c] = Free
  /\ \E k \in Key :
       /\ CurrentAction(k) /\ sub[k].atEnd /\ gateway[k].status # "canceled"
       /\ ChangeAt(k, gateway[k].status, FALSE, {})
       /\ Step(c, [op |-> "write", key |-> k, row |-> Row("ACTIVE", FALSE, changes + 1)])
  /\ UNCHANGED <<plan, edit, rows, sub, paid>>

UpdateCustomerSubscription(c) ==
  /\ caller[c].op = "write"
  /\ sub' = [sub EXCEPT ![caller[c].key] = caller[c].row]
  /\ Step(c, Free)
  /\ UNCHANGED <<plan, edit, rows, paid, gateway, events, changes>>

\* The process stops, Stripe or the database refuses, the client gives up.
CallerFails(c) ==
  /\ caller[c] # Free
  /\ Step(c, Free)
  /\ UNCHANGED <<plan, edit, rows, sub, paid, gateway, events, changes>>

-----------------------------------------------------------------------------
(* Stripe, and its events *)

\* The card is charged or not, the period ends, the first payment never comes.
StripeChanges(k) ==
  /\ gateway[k] # NoSub
  /\ \/ /\ gateway[k].status \in {"incomplete", "past_due"}
        /\ ChangeAt(k, "active", gateway[k].atEnd, {"invoice.payment_succeeded"})
     \/ /\ gateway[k].status = "active"
        /\ ChangeAt(k, "past_due", gateway[k].atEnd, {"invoice.payment_failed"})
     \/ /\ gateway[k].status = "past_due" \/ gateway[k].atEnd
        /\ gateway[k].status # "canceled"
        /\ ChangeAt(k, "canceled", FALSE, {})
     \/ /\ gateway[k].status = "incomplete"
        /\ ChangeAt(k, "incomplete_expired", FALSE, {})
  /\ UNCHANGED <<plan, edit, rows, sub, paid, caller>>

\* Mutant: the end of a subscription leaves its benefits.
MutantUpdateStripeSubscriptionSync(e) ==
  [sub[e.key] EXCEPT !.status = StatusFromStripe(e.status), !.atEnd = e.atEnd,
                     !.seen = e.change]

\* updateFromStripeSubscription
UpdateStripeSubscriptionSync(e) == Row(StatusFromStripe(e.status), e.atEnd, e.change)

\* upsertInvoice: a paid invoice makes the subscription active, a failed one past due.
UpdateSubscriptionAfterInvoice(e) ==
  Row(IF e.type = "invoice.payment_succeeded" THEN "ACTIVE" ELSE "PAST_DUE",
      sub[e.key].atEnd, e.change)

\* handleStripeSubscriptionEvent, in any order; for a subscription without a row, nothing.
HandleStripeSubscriptionEvent(e) ==
  /\ e \in events
  /\ events' = events \ {e}
  /\ IF sub[e.key] = NoSub THEN UNCHANGED sub
     ELSE sub' = [sub EXCEPT ![e.key] =
                    IF e.type \in {"invoice.payment_succeeded", "invoice.payment_failed"}
                    THEN UpdateSubscriptionAfterInvoice(e)
                    ELSE UpdateStripeSubscriptionSync(e)]
  /\ UNCHANGED <<plan, edit, rows, paid, gateway, changes, caller>>

-----------------------------------------------------------------------------
SubscriptionsInit ==
  /\ plan = [price |-> 1, cached |-> NoPrice, listed |-> TRUE, overtaken |-> FALSE]
  /\ edit = [a \in PlanEdit |-> NoEdit]
  /\ rows = <<>> /\ paid = {} /\ events = {} /\ changes = 0
  /\ sub = [k \in Key |-> NoSub]
  /\ gateway = [k \in Key |-> NoSub]
  /\ caller = [c \in Caller |-> Free]

SubscriptionsNext ==
  \/ \E a \in PlanEdit : \/ \E price \in Price \cup {NoPrice} : UpdatePlanBegin(a, price)
                      \/ UpdatePlan(a) \/ UpdatePlanFails(a)
  \/ \E k \in Key : StripeChanges(k)
  \/ \E e \in events : HandleStripeSubscriptionEvent(e)
  \/ \E c \in Caller : \/ \E k \in Key : Checkout(c, k) \/ Confirm(c, k)
                       \/ SaveStripePlanIds(c) \/ CreateAtStripe(c)
                       \/ CreateCustomerSubscription(c) \/ CreateInitialSubscriptionPayment(c)
                       \/ CancelSubscription(c) \/ ReactivateAction(c)
                       \/ UpdateCustomerSubscription(c) \/ CallerFails(c)

SubscriptionsSpec == SubscriptionsInit /\ [][SubscriptionsNext]_subscriptionVars

-----------------------------------------------------------------------------
(* Properties *)

\* The rows, the requests and Stripe's subscriptions have the shape the code gives them.
SubscriptionsTypeOK ==
  /\ plan \in PlanRow /\ edit \in [PlanEdit -> Edit \cup {NoEdit}]
  /\ rows \in Seq(Key) /\ paid \subseteq Key
  /\ sub \in [Key -> SubRow \cup {NoSub}]
  /\ gateway \in [Key -> Gateway \cup {NoSub}]
  /\ caller \in [Caller -> {Free}
                   \cup [op : {"price", "create"}, key : Key, price : Price]
                   \cup [op : {"save", "pay"}, key : Key]
                   \cup [op : {"write"}, key : Key, row : SubRow]]

\* "The next customer checkout then mints a fresh Stripe price at the new amount": a
\* cached price is the plan's, whatever order edits and checkouts come in, unless one of
\* them wrote from a price it had read and another edit had changed since.
CachedPriceIsCurrent == plan.cached \in {NoPrice, plan.price} \/ plan.overtaken

\* A subscription that ended at Stripe keeps no benefits here, unless the row was last
\* written from what Stripe had said before the end.
EndedIsNotPremium ==
  \A k \in Key : sub[k] # NoSub /\ gateway[k].status = "canceled"
                 /\ sub[k].seen = gateway[k].change => ~sub[k].isPremium

=============================================================================
