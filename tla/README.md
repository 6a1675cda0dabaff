# Gift-app backend: a TLA+ verification project

The backend is a NestJS application over PostgreSQL (Prisma) that sells gifts:
customers pay providers for marketplace orders from a wallet or by card, give money
and recurring gifts, and earn referral rewards; providers earn and withdraw;
administrators review payouts, refunds, disputes and accounts. Stripe takes the
cards.

This directory models the parts of it that move money between its users, the accounts
and permissions that guard them, and the records around them (subscriptions, offers,
reviews, carts, chats, reports and lists). It checks them with TLC on small instances,
and proves the most important of the checked properties with TLAPS for instances of any
size. Paths below are relative to `src/src/modules/` unless they begin with `src/`.

## 1. How the code behaves, as the models see it

* **A handler is not atomic.** Every HTTP handler is a chain of awaits. It reads rows
  with queries of their own, decides on them, and then writes, mostly in a
  `$transaction([...])` or `$transaction(async tx => ...)`. The guards (status of the
  order, active payouts of a method, available balance) are nearly always read
  *outside* the transaction that relies on them. So each handler is a *request*: a
  record `req[r]` that holds what the handler has read, one action per read or commit.
* **Transactions are READ COMMITTED.** Nothing in the code sets another level. A
  commit is one action; what was read before it may be stale. A relative update
  (`{ increment: x }`) applies to the row as it is then; an absolute one
  (`status: 'ACCEPTED'`) overwrites it. A lookup followed by an insert that a unique
  index protects is one action, because the loser of the race is rolled back.
* **Anything may stop anywhere.** An exception, a unique violation or a crash of the
  process ends a request between two of its writes: `Fail`. A failing notification or
  mail does the same, which is all the models keep of these.
* **Stripe is at-least-once and unordered.** Events may be repeated, late, out of
  order or never come; the two confirm endpoints ask Stripe for the state as it is.

## 2. Inventory

State is in PostgreSQL (`src/prisma/schema.prisma`). The process keeps two things in
memory: the failures of the login limiter, and the sockets of a chat. Several instances
of it otherwise behave as one with more requests.

| component (directory) | state | operations that change it | what makes it correct |
|---|---|---|---|
| Marketplace orders (`customer-marketplace`, `provider-orders`) | `Cart`, `Order`, `WalletLedger`, `Wallet` | cart edits, checkout, provider status updates (accept charges, deliver pays), cancel with refund and fee | a cart is ordered once; money out only after money in; a leg is paid once; a balance moves only with its ledger row; no overdraft |
| Refund policy (`refund-policy-settings`) | one settings row | update | read by cancellations |
| Card payments (`payments`) | `Payment` | create intent, confirm, webhook | a settled payment settles its order or top-up once |
| Customer wallet (`customer-wallet`) | `Wallet`, `WalletLedger` (TOP_UP), `Payment` | addFunds, confirmTopUp, credit, fail; bank accounts | credited once, only if paid; a paid top-up does not stay pending |
| Provider earnings and payouts (`provider-earnings-payouts`) | `WalletWithdrawal`, its ledger row, `Wallet` | preview, request, cancel | wallet debited once; nothing lost; one active payout per method |
| Administration of payouts (`admin-provider-payouts`) | `WalletWithdrawal` | approve, hold, reject, bulk | only open payouts are approved; a rejection returns the debit |
| Payout methods (`provider-payout-methods`) | `ProviderPayoutMethod` | add, edit, submit, set default, delete | one default; no deletion under an active payout |
| Authentication and sessions (`auth`) | `User`, `AuthSession`, codes, attempt counters | register, verify, login, refresh, logout, reset, delete | guesses are limited; access ends with the password or the account's standing |
| Account lifecycle, users, providers, staff (`src/src/common/services`, `user-management`, `provider-management`, `staff-management`, `provider-documents`, `provider-business-info`) | account rows, documents | create, approve, reject, suspend, block, delete, review | a suspension holds until an administrator lifts it |
| Permissions and guards (`src/src/common/guards`, `staff-roles`) | staff role | edit a role, call a route | readers write nothing; the catalogue opens every route |
| Referrals and rewards (`customer-referrals`) | `Referral`, `RewardLedger` | capture, award, redeem | awarded once; not redeemed beyond the balance |
| Recurring payments (`customer-recurring-payments`) | `CustomerRecurringPayment`, occurrences | create, edit, pause, resume, cancel, process due | one charge per due date; a cancelled one is not charged; the next date is the first the schedule names |
| Subscriptions (`customer-subscriptions`, `subscription-plans`) | `CustomerSubscription`, `SubscriptionPlan` | checkout, confirm, cancel, reactivate, Stripe events, plan edits | benefits end with the subscription; a price edit reaches the next checkout |
| Refund requests, administrator refunds (`provider-refund-requests`, `admin-transactions`) | `RefundRequest`, `Payment` | approve, reject, refund | refunded at most what was paid |
| Promotional offers (`promotional-offers`) | `PromotionalOffer` | create, edit, approve, reject, activate, deactivate, delete | customers see reviewed terms |
| Reviews (`customer-provider-interactions`, `admin-reviews`, `provider-interactions`) | `Review` | submit, edit, delete, moderate, respond | one standing review per order |
| Catalogue and inventory (`gift-management`, `provider-inventory`) | `Gift` | create, edit, hide, delete | what is ordered is on sale when it is read |
| Chat (`chats`) | `Message`, sockets | join, leave, send, read | members miss nothing |
| Dashboards, reports, lists (`admin-dashboard`, `admin-platform-analytics`, `provider-dashboard`, lists everywhere) | none of their own | reads | periods meet, series add up, pages cover the list |
| Disputes, notifications, broadcasts, moderation, settings, contacts, events, audit, mail, storage | single rows | CRUD, I/O | see section 7 |

`PROJECT.json` lists every component with its status, and every hazard at its line.

**How they meet.** The `Wallet` row is the crossing: acceptances, refunds and top-ups
write a customer's; deliveries, payouts and their release write a provider's;
cancellations write the platform's. Card payments write the order's status from a
callback that knows nothing of the provider's state machine, and the two refunds beside
the wallet (a provider's, an administrator's) cancel the order whatever it is. Payout requests and
payout methods read each other's rows to decide.

**What is hard.** Guards read before the transaction that trusts them; two statuses
kept in two statements (payment and order, payment and ledger row); unique indexes
that serialise some races and not others (`ownerId` of the platform wallet is null,
so no index covers it); Stripe's events against the client's confirmations against a
crash between them; a status machine with more writers than its own.

## 3. Modules

| module | models | extends |
|---|---|---|
| `OrderMoney` | orders, their ledger and wallets, refund policy, card payments and refunds of an order | |
| `OrderEscrow` | abstract: what order settlement promises | |
| `OrderMoneyProofs` | theorems about `OrderMoney` and the refinement | `OrderMoney` |
| `Payouts` | payouts, their reviews, payout methods | |
| `PayoutsProofs` | theorems for any overlap of requests, and for requests one at a time | `Payouts` |
| `TopUps`, `TopUpsProofs` | wallet top-ups: rows, payment, intent, events, confirmations | |
| `Rewards`, `RewardsProofs` | referrals, the award a settled payment makes, redemptions, settings | |
| `Accounts` | one account: registration, login, sessions, codes, passwords, decisions, documents, staff role | |
| `Access` | every route with its guards, the permission catalogue, the handlers' own checks | |
| `Chats` | the conversation of an order: sockets, room, messages | |
| `AccountsProofs` | theorems about the three modules above | `Accounts`, `Access`, `Chats` |
| `Recurring` | one recurring payment against runs of processDue | |
| `BillingCalendar` | the billing dates of every frequency | |
| `Subscriptions` | a plan, its subscriptions, Stripe and its events | |
| `Refunds` | refunds of one payment by its provider and by administrators | |
| `BillingProofs` | theorems about the four modules above | `Recurring`, `BillingCalendar`, `Subscriptions`, `Refunds` |
| `Offers` | one promotional offer and its approval | |
| `Reviews` | the reviews of one order | |
| `Marketplace` | gifts, one cart, checkout | |
| `Reports` | periods, series and rates of the statistics pages | |
| `Directory` | tabs, sorts, pages and exports of the lists | |
| `CatalogueProofs` | theorems about the five modules above | `Offers`, `Reviews`, `Marketplace`, `Reports`, `Directory` |
| `SumLemmas` | sums over finite sets of rows, for the proofs about money | |
| `MCOrderMoney`, `MCPayouts`, `MCTopUps`, `MCRewards` | constants and symmetry for TLC | |
| `MCAccess`, `MCAccounts` | the grants of a role; `Accounts`, `Access` and `Chats` side by side | |
| `MCBilling` | `Recurring` to `Directory` side by side | |

`MCAccounts` and `MCBilling` put modules that share no state into one run: a variable
(`aspect`, `scope`) chosen initially says which of them a behaviour is about, and the
others stay as they begin. Their state spaces add up instead of multiplying, and the run
asks the question of each module separately.

### OrderMoney

| state | code |
|---|---|
| `order[o]` | `Order`: status, customer, provider and total (one provider's order: a cart is split by provider before) |
| `ledger` | `WalletLedger` rows with an `orderId`; `HasRow` is their unique index |
| `balance`, `giftCredits` | the two columns of `Wallet` |
| `platform` | the rows with `ownerType` PLATFORM |
| `payment[p]`, `captured` | `Payment` of an order, and whether the one refund row an administrator can make of it is there; what Stripe took |

`CheckoutBegin`/`CheckoutCommit` are createOrder; `UpdateBegin`, then `DebitCheck` and
`AcceptCommit` (acceptance) or `UpdateCommit` (any other status) are
updateOrderStatus with debitCustomerWalletForOrder and upsertOrderEarningLedger;
`CancelBegin`, `CancelFindPlatform`, `CancelCommit` are cancelOrder with
cancelOrderWithRefund; `SettleBegin`, `SettleRecord`, `SettleApply` are confirm and
the webhook, which differ only in where the outcome comes from. `ApproveBegin` and
`ApproveCommit` are a provider's approval of a refund request (approveAction,
approveWithSideEffects), `RepayBegin` and `RepayCommit` an administrator's refund of a
payment (refund, processRefund); both set the order CANCELLED without a look at it, and
neither touches a wallet, its ledger or Stripe. Their sums and the requests' own statuses
are in `Refunds`; nothing in the repository creates a request a provider could approve, so
one is open whenever the model likes. Abstracted: the cart
(its provider and subtotal are arbitrary), addresses, items, tracking, the
commission tiers (any member of `CommissionRates`), money as whole cents, rounding
kept (`Percent`). The wallet's other movements (top-ups, gifts) are `OpeningFunds`.

### Payouts

| state | code |
|---|---|
| `payout[k]` | the `WalletWithdrawal` with idempotency key `k`; `debit` is the status of its ledger row |
| `method[m]` | `ProviderPayoutMethod` |
| `balance[p]`, `earned[p]` | the provider's wallet; what earnings have credited (a history variable) |

requestPayout is `RequestBegin` (key, balance, method), `RequestCheckActive`,
`RequestCommit`; cancel and the reviews read, then commit; delete is `DeleteBegin`,
`DeleteCheck`, `DeleteCommit`; set default is `DefaultBegin`, `DefaultClear` (the
snapshot of its updateMany), `DefaultCommit`. `Verified` is done outside the code.
bulkAction repeats single reviews, hence needs no action of its own. Abstracted: the
minimum amount and the fee preview, which write nothing.

### TopUps

| state | code |
|---|---|
| `topUp[l]` | the TOP_UP row of `WalletLedger` |
| `payment[k]` | the `Payment` with idempotency key `k`; PENDING until it has its intent |
| `intent[k]`, `events[k]` | Stripe: the PaymentIntent's status, and the events it may deliver, each any number of times |

addFunds is three steps (`AddFundsBegin`, `AddFundsPayment`, `AddFundsIntent`) that a
crash may separate; `WebhookBegin`, `ConfirmBegin`/`ConfirmRetrieve` and
`ConfirmTopUpBegin`/`ConfirmTopUpRetrieve` are the three ways an outcome arrives; all
end in `RecordPayment` (an unconditional write) and `Settle` (a conditional one).

### Rewards

| state | code |
|---|---|
| `settings` | the `ReferralSettings` row |
| `referral[c]`, `lapsed` | the `Referral` by which customer `c` joined, with its snapshots; whether its expiresAt has passed |
| `charged`, `settled` | payments Stripe took the money for; those with status SUCCEEDED |
| `earned`, `redeemed[e]` | the EARNED and REDEEMED rows of `RewardLedger`; `Conflicts` is their unique index |
| `credited` | the redemptions with a REWARD_CREDIT row; the row and the wallet's gift credits change in one transaction |

`SignUpWithCode` is captureSignupReferral. `SettleBegin` and `RecordOutcome` stand for
confirm and the webhook; the award follows as `ReadReferral`, `Judge` (settings, clock,
minimum), `Expire` or `LookForReward`, and `Reward` (the transaction). redeem is
`RedeemBegin`, `RecordRedemption`, `CreditRedemption`. Abstracted: currencies, the
notifications, which payments are orders and which are top-ups (the award does not ask).
Self-referral cannot be expressed: an account has no code before it exists.
The terms speak of a "first gift purchase" (`customer-referrals.service.ts:103`); the code
awards any settled payment that reaches the minimum, a wallet top-up included, and the
model follows the code.

### Accounts

| state | code |
|---|---|
| `user` | the row in `users`: role, status, a counter for the password, whether a verification or reset code is stored, wrong guesses, staff role |
| `session[s]` | rows of `auth_sessions`: live, revoked or deleted; whether the refresh hash is stored |
| `limit` | the limiters in memory: failed logins, verification mails |
| `docs`, `roleRow` | a required document and its review; the staff role that can be deleted |
| `req[r]` | a request between two statements and what it has read |

`user.owed`, `session[s].pwd` and `.late` are history: whether the statement that ends
the sessions is still to come, with which password a session was opened, and whether its
login was overtaken. A login is `Login`, `LoginRejected` or `LoginCompared`,
`CreateRefreshSession`, `StoreRefreshTokenHash`; a decision `Decide` (what was asked and
read), `UpdateAccountStatus`, `InvalidateActiveSessions`. bcrypt compares 72 bytes, and
those of every refresh token of one account are equal, so `Refresh` fails only on a hash
that is not stored yet. Guards are one step with the handler's first read. Abstracted:
codes and passwords (right or wrong), profile fields, mails.

### Access

Static tables, one row for the routes of a controller that the same callers may call:
roles, permissions, whether they write, what the handler itself asks for. `Guarded`
routes go through `toCrudPermission`, which renames modules and collapses actions onto
four verbs. State: the grants of a staff role, a provider's status, and one call on its way
through guard and handler. `ReadersDoNotWrite` leaves uploads out: an upload is a read of
none and a write of no module's rows. The catalogue's comment that a module "lists only
the verbs that map to at least one real endpoint"
(`staff-roles/constants/permission-catalog.ts:8`) does not hold for all of them (administrators,
settings, reports, gift moderation); nothing depends on it.

### Chats

`message[m]` is the row with what became of its broadcast, `client[p]` a person's socket,
room membership and what the server has shown it. A message is stored (`SendMessage`) and
then emitted to who is in the room (`EmitCreated`), or never is (`SendFails`,
`SendOverHttp`, `ProcessStops`). One process: the code installs no adapter that joins the
rooms of several. Clients are outside the repository, the model gives them every order
of calls. What the document `src/docs/realtime/chat-events.md` promises beyond this
(idempotent `clientMessageId`, fallback notifications) is not in the code.

### The modules around billing

* `Recurring`: `recurring` is the row, `run[r]` a run of processDue that holds the row it
  read, `ask[a]` a request of the customer, which reads the row (`GetOwned`) and then
  writes it, `bill[d]` (history) the charges of day `d`. A run charges, records
  (`RecordSuccess`) and notifies; the notification is inside the try, so that its failure
  (`NotifyFails`) ends in `RecordFailure` like a declined card. `ended` and `early`
  (histories) say that the payment was cancelled and who held its row then. Time is
  counted in days; nothing in the repository calls processDue, so a run may begin at any
  time and overlap another.
* `BillingCalendar`: calculateNextBillingAt on real dates (month lengths, leap years,
  weekdays), checked against its definition for every day of two years.
* `Subscriptions`: `plan` with its cached Stripe price; `edit[a]`, an administrator's edit,
  which reads the plan (`UpdatePlanBegin`) and later writes its price, dropping the cached
  one if the new price differs from the price read; `sub[k]` and `rows` the local rows,
  `gateway[k]` Stripe's subscription with a counter of its changes; an event carries the
  state at some change and may come late or never. Callers hold what they were told.
* `Refunds`: both ways of refunding one payment; each reads what was refunded, then commits.
* `Offers`: the terms are a version; `seen` (history) the version an administrator wrote
  or approved last, `overlapped` whether a request wrote over a change it had not read.
* `Reviews`: the text is clean or flagged (moderateText); `late`, `back` are history.
* `Marketplace`: gifts on sale or not, items of one cart, checkouts that hold the cart they
  read. Prices and quantities are left out; so is an offer's final price, which createOrder
  does not apply (it charges the gift's price).
* `Reports`: orders, payments and earnings with the instant they were created, a clock,
  and each page's own date arithmetic and status lists as operators. The statistics of the
  transactions read the clock once for each of the periods they compare, so
  `TransactionStats` takes the first reading as an argument. `RevenuePayments` is every
  answer the limited query of the revenue trend may give.
* `Directory`: one table at a time, its rows in the order of creation, the `aged` oldest of
  them older than thirty days; a list is its tabs, where a tab filters (database or
  memory), its default range of dates, a sort and a page size. The administrator's
  transactions and the platform's analytics show the last thirty days unless dates are
  asked. `Arrivals` are the orders in which a query may hand its rows over: one, except
  for a provider's items, which it does not order. The k-th row of a sorted list is the one
  with k - 1 rows before it, which says what sorting gives without saying how.

## 4. What is checked

| run | instance | what it shows |
|---|---|---|
| `OrderMoney_concurrent` | 1 order, 1 card payment, refunds beside the wallet, 2 platform wallets, 2 overlapping requests; deduction 0% or 50% | whatever overlaps: `MoneyOutNeedsCharge`; every balance moves with exactly one ledger row and no row disappears (`LedgerBacksBalances`); orders implement `OrderEscrow` |
| `OrderMoney_serial` | 2 orders of one wallet that can pay one, 1 card payment, refunds beside the wallet, 1 request at a time; deduction 0, 50, 100% | `NoOverdraft`, `SettlementCovered`, `RejectedIsNotCharged`: the state machine alone never overdraws, never pays out more than came in, never keeps the money of a rejected order |
| `OrderMoney_terminal` | 1 order, 1 request | violated `TerminalStays` |
| `Payouts_concurrent` | 1 provider, 2 keys, 1 method, 2 requests, earnings up to 2 | `NothingIsLost`, `DebitedOnce` under any overlap |
| `Payouts_serial` | 2 keys, 2 methods, 1 request at a time | `BalanceIsExact`, `ActiveIsBacked`, `OnePayoutPerMethod`, `OneDefault` |
| `Payouts_unsettled` | 1 key, 1 request | violated `ApprovedSettles` |
| `TopUps` | 1 key, 2 ledger rows, 2 requests, 2 failures | `CreditIsPaid`, `CreditedWithRow`, `SettledStays`, `PaidIsSettled` |
| `TopUps_lost` | 1 key, 1 row, 1 request, no failure | violated `PaidIsCredited` |
| `Rewards` | 1 referral, 2 payments (one below a minimum), 2 settings, 2 requests that settle, 1 that redeems, 2 redemptions, 1 failure | `RewardsMatchReferral`, `RewardIsPaidFor`, `RedemptionIsCovered`, `RedemptionIsCredited`, `PurchaseIsDecided` |
| `Accounts` | 1 account of each role, 2 requests, 1 session, limits 2 and 1; the grants of `MCAccess`; 2 messages, 2 parties, 1 stranger | `GuessesAreLimited`, `EndedAccessEnds`, `SuspensionHolds`; `ReadersDoNotWrite`, `CatalogOpensGuards`; `MembersMissNothing` |
| `Access_locked` | the grants of `MCAccess` | violated `CatalogUnlocksHandlers` |
| `Billing` | two rows and two requests in each module, two edits of a plan; two days of charges, of which two failures in a row end the payment; every day of 2027 and 2028; nine instants of reports, of whose payments the trend reads one; three listed rows | `ChargedOnce`, `CancelledStays`, `NextIsFirst`, `CachedPriceIsCurrent`, `EndedIsNotPremium`, `RefundsAreCovered`, `LiveOfferIsReviewed`, `OneReview`, `OrderedOnce`, `PeriodsMeet`, `SeriesAddUp`, `RatesAgree`, `PagesCoverTheList` |

**What "unless" means.** In the new modules nearly every guard is read outside the
transaction that relies on it, so the bare property ("charged once", "one review") is
false under overlap. Such a property names the overlap that breaks it (`excused`, `late`,
`overlapped`, `overtaken`) as a history variable set at the step where the code goes
wrong, and says that *nothing else* breaks it. The history variables are narrow: a write
counts as overlapped only if the row changed between the read and the write. The
hazards in `PROJECT.json` name the line of each.

**The bounds, and why they are enough.** Every hazard here is a race of two requests
about one row or two rows of one wallet: two requests in flight, two orders that
share a wallet which covers only one, two keys that share a provider's wallet, two
methods that compete to be the default, two ledger rows that compete for one key.
The amounts are the smallest that tell the cases apart: an order of 2 cents at 50%
has a refund and a fee, at 0% no fee, at 100% no refund; a payout of 2 takes the
whole wallet, two of 1 share it. `MaxEarned` and `MaxFailures` cap two counters that
would otherwise make the state infinite. In `TopUps`, `MaxFailures` 2 lets both
requests, or one request twice, crash; the same instance with two keys or with three
requests was also explored and holds. In `Rewards` one setting is active and the other
stopped, with other amounts, so a referral captured under one is awarded under the other.
In `Accounts` a limit of 1 or 2 guesses with 2 requests shows the one guess too many that
each request in flight may make; no handler relates two accounts, so one is enough, and
the three aspects (`Still`) each fix the rows the other two are about. In `Billing` two
days let a due date pass unpaid and be charged late; 2027 and 2028 have both lengths of
February; nine instants (0 to `Horizon`) are four days of two instants and one more, over
which a week has three days and a month two, so each window has a before, an inside, both
boundaries and an after; two payments and a trend that reads one (`MostRows`) meet its
limit, with the other payment in its months or before them; three rows make two pages of
two and a tab that is not a page. In `Recurring` two runs and two requests share a row, any
two of which hold it at a time (`PairsNext`): a write over another's needs no third. The
edits of a plan and the changes at Stripe meet in checkouts only, and are explored one
beside the other (`PlansNext`, `AtStripeNext`).
What a bound cannot show the theorems of section 5 do, where there is one.

**Serial and concurrent.** In the money modules, where the code's guards are read before
the transaction that relies on them, the property really fails under overlap, and is
checked for requests one at a time (`Requests` a singleton): this says that the handlers'
sequential logic is right and that only the overlap breaks it. Where a property
survives overlap, because of a unique index, a conditional update or a relative one,
it is checked with overlap.

**Deadlock.** Checked in `OrderMoney`, `Payouts` and `Accounts`. In `TopUps`, `Rewards` and
`Billing` it is not: ids, days and versions are bounded, and once they are used up
nothing is left to happen.

**Types.** Every module with a state has its `TypeOK`, and each is proved (section 5), so
no run repeats them. `BillingCalendar` has none of its own: `CalendarInv` says of it that
the moment is a half day of a real date.

**Fairness.** `Payouts!FairSpec`: weak fairness of `Proceed(r)`, the event loop runs a
handler that has started to its end. `TopUps!FairSpec`: the same, and strong fairness
of `ConfirmTopUpBegin` for each key: the client confirms again and again until the
top-up is settled, as the endpoint's comment asks
(`customer-wallet/customer-wallet.service.ts:88-90`). Strong, and not weak, only
because the model has two slots for requests that can be busy with others over and
over; a server has no such limit. The webhook has no fairness: it may never come.
`Rewards!FairSpec`: weak fairness of what a started handler does; nobody is obliged to pay
or to redeem. The other modules state safety only: their handlers wait for people, for
Stripe, or (processDue) for a caller the repository does not have.

**Mutants.** Each module holds, next to an operation, the form a plausible bug would
give it (`Mutant...`: a dropped guard, a posting repeated, a check forgotten). No
specification uses them; each property is known to fail when one of them takes the
operation's place.

## 5. What is proved

Theorems hold for every value of the constants that satisfies the named assumptions
(wallet ids of customers, providers and platform are disjoint; amounts are naturals,
percents in 0..100; bounds on days, versions and guesses are positive; a chat's parties
are not strangers to it; the catalogue can hold a gift; years are naturals, and the
schedules are those the DTO lets through; days, weeks, months and report windows have
positive lengths). Where a theorem has a further hypothesis (`OneAtATime`,
`RedeemingAlone`) it is the case in which the code keeps the
property; outside it the property fails, and section 4 says how.

*`OrderMoneyProofs`* `TypeCorrect`, `MoneyOutIsCharged`, `LedgerAlwaysBacksBalances`,
`OrdersImplementEscrow`, for any number of overlapping requests. `MoneyOutNeedsCharge`
is not inductive: a refund commits on the status a cancellation read long before. The
strengthening is `ChargeInvariant`: an order in a status that acceptance or later
leads to is charged, ledger rows and payments belong to orders that exist, and *what
a request holds stays true* (`RequestIsSound`): the order it saw accepted is still
charged, because a charge is never taken back. It is this monotonicity that makes
the stale reads harmless for this property. The refinement maps `charged` to the
orders with an ORDER_PAYMENT row or a captured card payment and `paidOut` to the
other ledger rows; it also needs `LedgerIsKeyed`, the unique index as an invariant.
`NoOverdraftSerially` and `RejectionsAreUncharged` hold under `OneAtATime` (at most one
request): `SerialInv` says that the status an update has seen is still the order's, that
the wallet still covers what an acceptance is about to take (`StillHolds`), and that an
order nobody accepted has no charge. Two acceptances in flight break exactly the second.
`SettlementsAreCovered` holds under it, too. What was paid out for an order says nothing
of what is still to be paid, so `SettleInv` counts both: what was paid out *and what the
order's status still lets a request pay* (`Owed`: the whole total from acceptance until
delivery or cancellation, nothing before and after) stay within the charge and the
captured cards that have had their effect (`Balanced`); a delivered order has its earning;
and a request that is to cancel finds the status from which this is still due
(`StillDue`).
A refund beside the wallet cancels an order without paying out of it, so it only leaves less
to be paid, and a card payment counts as captured after its refund, too (`Cleared`).
`StatusesFollowSerially`: under `OneAtATime` a request still has the order in the status it
saw (`SeesTheOrder`), so a status changes only as the transition map, a cancellation in
time, a card payment or a refund beside the wallet says.
`OrdersEndButForCardsAndRefunds` follows: a cancelled order is revived only by a late card
payment, a completed one is moved only by that or cancelled by a refund; the writers that
look at no status are the only cause of the first finding of section 6.

*`PayoutsProofs`* `TypeCorrect`, `ProviderIsDebitedOnce`, `ProviderLosesNothing`, for any
overlap. The invariant says of each request that its payout or method exists (`Sound`).
`ProviderLosesNothing` is about a difference: `Slack`, the balance and the pending
debits less the earnings, is never below nothing; it starts at nothing and every step
keeps it, but for a release of a debit that was released before (`VoidsAgain`), which
raises it. `OnePayoutSerially`, `ActiveIsBackedSerially`, `OneDefaultSerially` and
`BalanceIsExactSerially` hold under `OneAtATime` (at most one request). There the
invariant adds what a request's checks found (`StillHolds`, `RequestsAreFunded`): between
the check and the commit no other request can change it, so `VoidsAgain` never happens and
`Slack` stays at nothing. Without `OneAtATime` it is exactly this that fails.
`DecidedStaysSerially` and `OnlyOpenIsApprovedSerially` say the same of decisions: a payout
that was approved, cancelled or rejected is not written again. Under overlap it is (section
6), hence no run checks `OnlyOpenIsApproved`.

*`TopUpsProofs`* `TypeCorrect`, `OnlyPaidIsCredited`, `SettledRowsStay`,
`CreditedWithItsRow`, for any overlap, any number of crashes and any order of events.
The strengthening is `PaymentInvariant`: a payment belongs to a ledger row of the
owner of its key, an event or a request that says SUCCEEDED speaks of an intent that
has succeeded, and at most one request creates the intent of a payment
(`OneCreator`, what the unique index on the idempotency key gives): without it a
second creation would take a paid intent back. Type correctness itself rests on it,
as the outcome of confirm is looked up in the intent's status.

*`RewardsProofs`* `TypeCorrect`, `RewardedOnceAsPromised`, `OnlyPaidIsRewarded`, for any
overlap and any number of crashes. The strengthening is `RewardInvariant`: a referral
belongs to an account, so that a sign-up never replaces one, and what a request found
out (`StageIsSound`: the payment is charged, the referral exists, has lapsed, or its
minimum is reached) stays true, because charges, expiry and the snapshots are never
taken back. That a second transaction is kept out is `RewardedConflicts`: a referral
with rewards has the referrer's row, which the unique index finds.
`RedeemingAloneIsCovered`: the credit a redemption has read is not reserved, so two
redemptions of one customer can both spend it. The theorem is for behaviours in which two
redemptions in flight are always of different customers (`RedeemingAlone`), however many
of them there are and whatever is awarded meanwhile; a redemption that is still to be
recorded is covered, too (`Funded`), because awards only add.

*`AccountsProofs`* about `Accounts`: `TypeCorrect`, `GuessesStayLimited`,
`EndedAccessStaysEnded`, `SuspensionsHold`, for any limits and any number of requests
and sessions. A failed guess is counted by a later statement, so the invariant counts
the failures *and the requests that have yet to add theirs* (`Guess`, by cardinality). A
live session was opened with the present password and by an account in standing, unless
its end is owed or its login was overtaken (`SessionOK`), and a request that still leads
to a session has compared the present password (`JobOK`).
About `Chats`: `ChatsTypeCorrect`, `NobodyMissesAMessage`; who is `whole` is in the room
(`ClientOK`), so every broadcast reaches it, and a stranger never is.
About `Access`: `AccessTypeCorrect`, `ReadersNeverWrite`, `CatalogAlwaysOpensGuards`, for
any grants a role may be given. A call that has passed the guards did so with the role
and the permissions it carries (`Passed`); what remains is a fact about the tables of
routes (`AdministrationSound`), settled table by table.

*`BillingProofs`* about `Recurring`: `RecurringTypeCorrect`, `DaysAreChargedOnce`,
`CancellationsStay`, for any number of days and overlapping runs. `Behind`: an unexcused
charged day is behind the due date, or the run that charged it is about to put it there,
and no other run holds the row from before. After a cancellation that none has undone, a run
or request in progress held the row before it (`early`), or is a request that has read
CANCELLED and will be refused. About `Subscriptions`:
`SubscriptionsTypeCorrect`, `CachedPricesAreCurrent`, `EndedSubscriptionsEnd`. An edit that
had read another price than the plan's may keep a cached price that is not the plan's, and
a checkout may save one; both are `overtaken`, and nothing else leaves such a price. Events come
in any order, and so an older row may say anything; the invariant is that what stands for
the *last* change at Stripe, be it a row, a write on its way or an event, says what Stripe
says (`Current`, `Told`). About `Refunds`: `RefundsTypeCorrect`, `RefundsStayCovered`, for
any number of requests and any amounts. Refunds whose decisions did not overlap another
(`Apart`) stay within the payment, and what a decision is about to grant fits into what it
saw left (`GrantFits`); if nothing else intervenes, that is all there is.
About `BillingCalendar`: `TheNextDateIsTheFirst`, for every year, half day and schedule.
Both sides are turned into numbers of days: a date is one of a month that has it
(`CalendarInv`), its successor has the next number, adding days reaches exactly the date
with that number (`AddDaysIs`), and no date between has the weekday, the day of the month
or the day of the year that the schedule names (`Weekly`, `Monthly`, `Yearly`).

*`CatalogueProofs`* about `Offers`: `OffersTypeCorrect`, `LiveOffersAreReviewed`; an
approved row has reviewed terms whether it is live or not (`Reviewed`). About `Reviews`:
`ReviewsTypeCorrect`, `AnOrderHasOneReview`; what a submission knew about was removed and
stands again only if it came back (`Knew`). About `Marketplace`: `MarketTypeCorrect`,
`ItemsAreOrderedOnce`; what is in the cart beside the items a checkout has read was added
while it was under way (`Read`), and what was ordered has left the cart (`ItemOK`).
About `Reports`: `ReportsTypeCorrect`, `PeriodsAlwaysMeet`, `RatesAlwaysAgree`,
`SeriesAlwaysAddUp`, for any lengths of days, weeks and months and any number of
rows; a row is dated no later than now (`ReportsInv`), and the bars of a series (months,
days, equal shares of a week) take each row of its period exactly once. The trend reads the
oldest `MostRows` payments (10000 in the code): those from before its months come first,
and its bars hold what the limit then leaves, which is counted for whichever payments the
query comes back with. Two readings of the clock, the second no earlier, leave no gap
between the periods of the transactions' statistics, and an overlap of exactly the instants
`PeriodsMeet` names.
About `Directory`: `DirectoryTypeCorrect`, `PagesAlwaysCover`, for any number of rows, page
size, tab and sort, for any number of rows past the default range and however each page's
query hands the rows over. Counting what comes before a row numbers the rows from nothing
without a gap (`RanksNumber`), so the sorted list has each selected row at one position; a
row that shares its figure with no other has the same number before it for every order of
arrival; each position is on exactly one page (`OnePlace`, `PlacesDiffer`, division with remainder); and
the pages joined are the list (`PagesJoin`).

*`SumLemmas`* says of a sum over a finite set what it is after a row was added, removed or
changed. The induction these need is not taken from the library, whose theorems have an
operator parameter: the sets for which a lemma fails would have a smallest member by the
well-foundedness of strict inclusion (`LeastSubset`), and it turns out not to be one.
`LeastNatural` in `CatalogueProofs` does the same for numbers.

**Only model-checked.** Liveness (`PaidIsSettled`, `RedemptionIsCredited`,
`PurchaseIsDecided`): it needs fairness and ENABLED, which are out of the prover's reach.
Every other property of a passing run is a theorem; the four that section 6 refutes are
of course not.

## 6. Findings

Four runs show a disagreement with what the repository says of itself:

1. *A late card payment revives a cancelled order* (`OrderMoney_terminal`): the webhook
   and confirm write ACCEPTED whatever the status is
   (`payments/services/payments.service.ts:99`, `:234`). Refunds beside the wallet cancel an
   order whatever it is, a completed one, too
   (`provider-refund-requests/provider-refund-requests.repository.ts:39`,
   `admin-transactions/admin-transactions.repository.ts:61`), and return no money: neither
   calls Stripe or credits a wallet.
2. *No approved payout ever completes* (`Payouts_unsettled`): nothing calls
   transitionPayout with settleLedger, nor returnFailedPayoutBalance.
3. *A paid top-up can be lost* (`TopUps_lost`): a declined card, or a confirmation
   before the customer pays, is recorded as final although the intent is still open;
   the later success is ignored (`customer-wallet/customer-wallet.service.ts:107`).
4. *The whole catalogue does not unlock every handler* (`Access_locked`): the guard
   collapses permissions onto CRUD verbs, the handlers compare the granular ones.

Met while modelling and left without a run of their own; each is a property's excused case
or the overlap a serial run leaves out:

* two acceptances that overlap overdraw the wallet (`provider-orders/provider-orders.repository.ts:115`);
* an approval that overlaps the provider's cancellation approves a cancelled payout, whose
  amount is back in the wallet (`Payouts!OnlyOpenIsApproved`,
  `admin-provider-payouts/admin-provider-payouts.repository.ts:68`);
* overlapping redemptions spend one credit twice (`customer-referrals/services/customer-referrals.service.ts:79`);
* a verification or an edit of business information that read the account before a
  suspension lifts it; a crash between a suspension and the end of the sessions leaves
  them, and nothing repeats it;
* overlapping runs of processDue, or a lost write after the charge, charge a card twice; a
  run writes ACTIVE over a pause or a cancellation; a cancellation "at period end" is
  charged once more at that end, and a notification that fails after it, or after the end
  date, writes ACTIVE over CANCELLED or EXPIRED
  (`customer-recurring-payments/services/customer-recurring-payments.service.ts:128`);
* a checkout overtaken by a plan edit caches the old price, and of two overlapping edits the
  later keeps the price cached for the earlier
  (`subscription-plans/services/subscription-plans.service.ts:58`); reactivate writes ACTIVE over
  PAST_DUE; the newest INCOMPLETE row hides an older active subscription;
* a second partial refund of a payment by an administrator always fails, its transaction
  id being made of the payment's and unique;
* an edit that changes no terms writes back the APPROVED it read over a pending change;
  a rejected offer has no way back;
* overlapping checkouts order a cart twice, and an item added during one is dropped;
* an edit of a hidden review publishes it again; a removed review can be restored beside
  its replacement;
* the statistics of the transactions take the previous period at a later reading of the
  clock and count twice what was created between the two beginnings of the current one
  (`admin-transactions/admin-transactions.service.ts:19`, `:20`); a provider's items with
  the same sales may repeat or be missing across pages
  (`provider-management/provider-management.repository.ts:308`);
* the revenue trend is drawn from the 10000 oldest payments, so new months go missing past
  that (`admin-dashboard/admin-dashboard.repository.ts:38`); lists in memory and exports see
  the newest 10000 rows; the days of the earnings chart are labelled Monday to Sunday
  whatever day it is.

## 7. Not modelled

* *Disputes*: every decision writes its status unconditionally, a provider's answer puts a
  decided dispute back under review, a review decides from any status. No document says
  which decision should win, so a model would have nothing to check.
* *Notifications, push, broadcasts*: one insert, then delivery that never fails a request. A
  broadcast is marked sent by the insert; nothing delivers it.
* *Settings, themes, contacts, events, moderation, safety reports*: single rows edited by one
  owner or one administrator; their permissions are in `Access`.
* *Audit log, mail, storage, health*: an append-only log and I/O.
* *Inside modelled components*: profile edits, categories, variants, prices and offers in
  carts, saved cards, bank accounts, typing events, layouts of exports.

Row locks are not modelled: PostgreSQL ends one of two deadlocked transactions, which is
`Fail`. `recordOrderEarning` and `returnFailedPayoutBalance` have no caller. Charging an
order twice (by card and by wallet) is possible in the model and left unstated: no
document says which way wins. Lists sorted in the database by a column that repeats
(business name, status) may repeat or skip rows across pages; `Directory` keeps to sorts by
creation and by figure, where ties are broken except among a provider's items, and to
tables that do not change between two pages.
