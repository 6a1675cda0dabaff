------------------------------ MODULE Rewards ------------------------------
(***************************************************************************)
(* Referral rewards.  A customer signs up with the code of another one; a  *)
(* card payment of the new customer, once it has succeeded, earns both a   *)
(* reward in the reward ledger; a customer redeems the credit earned and   *)
(* the redemption is credited to the wallet.                               *)
(*                                                                         *)
(* The award is the tail of the handlers that settle a payment: they read  *)
(* the referral, the settings and the ledger one after the other, outside  *)
(* the transaction that writes.  Administrators change the settings and    *)
(* time passes meanwhile.                                                  *)
(***************************************************************************)
EXTENDS Integers, Functions

CONSTANTS
    Customers,    \* customer ids
    Founders,     \* the customers there are at the start
    Payments,     \* ids of card payments
    Payer,        \* Payer[p]: the customer who makes payment p
    Amount,       \* Amount[p]: what it is over, in cents
    SettingsRows, \* values the settings row may have
    Redemptions,  \* ids of the REDEEMED rows of the reward ledger
    Withdrawn,    \* amounts a customer redeems
    Settlers,     \* handlers in flight that settle a payment
    Redeemers,    \* handlers in flight that redeem
    MaxFailures   \* bound: how many requests fail between two of their writes

Requests == Settlers \cup Redeemers

\* The request validation of the settings admits no negative amount.
Setting == [active : BOOLEAN, reward : Nat, friendReward : Nat, minimum : Nat]

ASSUME FoundersAreCustomers == Founders \subseteq Customers
ASSUME PaymentsArePaid == Payer \in [Payments -> Customers] /\ Amount \in [Payments -> Nat]
ASSUME SettingsAreValid == SettingsRows \subseteq Setting
ASSUME RedeemedIsPositive == Withdrawn \subseteq Nat \ {0} /\ MaxFailures \in Nat
ASSUME RequestsAreApart == Settlers \cap Redeemers = {}

VARIABLES
    settings,  \* the single ReferralSettings row
    members,   \* the customers with an account
    referral,  \* referral[c]: the Referral row by which c joined, or NoReferral
    lapsed,    \* the customers whose referral is past its expiresAt
    charged,   \* the payments Stripe has taken the money for
    settled,   \* the payments with status SUCCEEDED
    earned,    \* the EARNED rows of the reward ledger
    redeemed,  \* redeemed[e]: the REDEEMED row e, or NotRedeemed
    credited,  \* the redemptions that have a REWARD_CREDIT row in the wallet
    failures,  \* how many requests have failed so far
    req        \* req[r]: where request r is, and what it has read

ledgers == <<earned, redeemed, credited>>
vars == <<settings, members, referral, lapsed, charged, settled, ledgers, failures, req>>

-----------------------------------------------------------------------------
(* The rows and the requests.                                              *)

NoReferral == [status |-> "NONE"]
\* PENDING and QUALIFIED are statuses no code writes.
Referral == [status : {"JOINED", "REWARDED", "EXPIRED"}, referrer : Customers,
             reward : Nat, friendReward : Nat, minimum : Nat]

EarnedRow == [user : Customers, amount : Nat, referred : Customers, role : {"referrer", "friend"}]

NotRedeemed == [user |-> "nobody"]
RedeemedRow == [user : Customers, amount : Withdrawn]

Idle == [op |-> "idle"]
SettleRequest ==
    [op : {"record"}, payment : Payments, paid : BOOLEAN]
      \cup [op : {"award", "judge", "expire", "look", "reward"}, payment : Payments]
RedeemRequest ==
    [op : {"redeem"}, user : Customers, amount : Withdrawn]
      \cup [op : {"credit"}, entry : Redemptions]

IsAt(r, op) == req[r].op = op
Start(r, record) == req[r] = Idle /\ req' = [req EXCEPT ![r] = record]
Continue(r, record) == req' = [req EXCEPT ![r] = record]
Finish(r) == req' = [req EXCEPT ![r] = Idle]
NextStage(r, op) == Continue(r, [op |-> op, payment |-> req[r].payment])

HasReferral(c) == referral[c] # NoReferral

WithStatus(row, status) == [row EXCEPT !.status = status]

Init ==
    /\ settings \in SettingsRows
    /\ members = Founders
    /\ referral = [c \in Customers |-> NoReferral]
    /\ lapsed = {}
    /\ charged = {}
    /\ settled = {}
    /\ earned = {}
    /\ redeemed = [e \in Redemptions |-> NotRedeemed]
    /\ credited = {}
    /\ failures = 0
    /\ req = [r \in Requests |-> Idle]

-----------------------------------------------------------------------------
(* Administrators, new customers, Stripe and time.                         *)

\* A request may set any of the fields.
UpdateSettings(row) ==
    /\ row # settings
    /\ settings' = row
    /\ UNCHANGED <<members, referral, lapsed, charged, settled, ledgers, failures, req>>

\* Without a code, or by a request that crashed before captureSignupReferral.
SignUp(c) ==
    /\ c \notin members
    /\ members' = members \cup {c}
    /\ UNCHANGED <<settings, referral, lapsed, charged, settled, ledgers, failures, req>>

\* captureSignupReferral keeps the amounts of the day.  It follows the account's
\* creation, so the code is not the new customer's own and there is no referral yet.
SignUpWithCode(c, referrer) ==
    /\ c \notin members
    /\ referrer \in members
    /\ members' = members \cup {c}
    /\ referral' = [referral EXCEPT ![c] =
                      [status |-> "JOINED", referrer |-> referrer, reward |-> settings.reward,
                       friendReward |-> settings.friendReward, minimum |-> settings.minimum]]
    /\ UNCHANGED <<settings, lapsed, charged, settled, ledgers, failures, req>>

Lapse(c) ==
    /\ HasReferral(c)
    /\ c \notin lapsed
    /\ lapsed' = lapsed \cup {c}
    /\ UNCHANGED <<settings, members, referral, charged, settled, ledgers, failures, req>>

Charge(p) ==
    /\ Payer[p] \in members
    /\ p \notin charged
    /\ charged' = charged \cup {p}
    /\ UNCHANGED <<settings, members, referral, lapsed, settled, ledgers, failures, req>>

-----------------------------------------------------------------------------
(* Settling a payment, of an order or of a wallet top-up, and the award.   *)

\* Mutant: whatever Stripe says of the intent is taken for a payment.
MutantSettleBegin(r, p) ==
    /\ Payer[p] \in members
    /\ p \notin settled
    /\ Start(r, [op |-> "record", payment |-> p, paid |-> TRUE])
    /\ UNCHANGED <<settings, members, referral, lapsed, charged, settled, ledgers, failures>>

\* confirm or a webhook: the payment has no final status, Stripe says whether
\* it is paid.  A payment that failed may be tried again here, although it stays
\* failed in the code: whatever is not SUCCEEDED awards nothing.
SettleBegin(r, p) ==
    /\ Payer[p] \in members
    /\ p \notin settled
    /\ Start(r, [op |-> "record", payment |-> p, paid |-> p \in charged])
    /\ UNCHANGED <<settings, members, referral, lapsed, charged, settled, ledgers, failures>>

\* An unconditional update: a late answer puts a settled payment back to
\* PROCESSING, and another confirm then settles it again.
RecordOutcome(r) ==
    LET q == req[r]
    IN  /\ IsAt(r, "record")
        /\ \/ /\ q.paid
              /\ settled' = settled \cup {q.payment}
              /\ NextStage(r, "award")
           \/ /\ ~q.paid
              /\ settled' = settled \ {q.payment}
              /\ Finish(r)
        /\ UNCHANGED <<settings, members, referral, lapsed, charged, ledgers, failures>>

ReferralOf(r) == referral[Payer[req[r].payment]]

\* awardReferralForFirstEligiblePurchase reads the referral.
ReadReferral(r) ==
    /\ IsAt(r, "award")
    /\ IF ReferralOf(r).status = "JOINED" THEN NextStage(r, "judge") ELSE Finish(r)
    /\ UNCHANGED <<settings, members, referral, lapsed, charged, settled, ledgers, failures>>

\* Mutant: the minimum itself does not qualify.
MutantReachesMinimum(r) == Amount[req[r].payment] > ReferralOf(r).minimum

ReachesMinimum(r) == Amount[req[r].payment] >= ReferralOf(r).minimum

\* Mutant: the minimum is not looked at.
MutantJudge(r) ==
    /\ IsAt(r, "judge")
    /\ \/ ~settings.active /\ Finish(r)
       \/ settings.active /\ Payer[req[r].payment] \in lapsed /\ NextStage(r, "expire")
       \/ settings.active /\ Payer[req[r].payment] \notin lapsed /\ NextStage(r, "look")
    /\ UNCHANGED <<settings, members, referral, lapsed, charged, settled, ledgers, failures>>

\* The settings, then the clock, then the amount.
Judge(r) ==
    LET expired == Payer[req[r].payment] \in lapsed
    IN  /\ IsAt(r, "judge")
        /\ \/ ~settings.active /\ Finish(r)
           \/ settings.active /\ expired /\ NextStage(r, "expire")
           \/ settings.active /\ ~expired /\ ReachesMinimum(r) /\ NextStage(r, "look")
           \/ settings.active /\ ~expired /\ ~ReachesMinimum(r) /\ Finish(r)
        /\ UNCHANGED <<settings, members, referral, lapsed, charged, settled, ledgers, failures>>

\* The update asks for nothing: it also hits a referral rewarded meanwhile.
Expire(r) ==
    LET c == Payer[req[r].payment]
    IN  /\ IsAt(r, "expire")
        /\ referral' = [referral EXCEPT ![c] = WithStatus(@, "EXPIRED")]
        /\ Finish(r)
        /\ UNCHANGED <<settings, members, lapsed, charged, settled, ledgers, failures>>

\* findExistingReferralReward.
LookForReward(r) ==
    LET c == Payer[req[r].payment]
        existing == \E row \in earned : row.referred = c /\ row.role = "referrer"
    IN  /\ IsAt(r, "look")
        /\ IF existing THEN Finish(r) ELSE NextStage(r, "reward")
        /\ UNCHANGED <<settings, members, referral, lapsed, charged, settled, ledgers, failures>>

\* Mutant: the amounts are those of the settings at the time of the award.
MutantRewardRows(c, row) ==
    {[user |-> row.referrer, amount |-> settings.reward, referred |-> c, role |-> "referrer"]}
      \cup {[user |-> c, amount |-> a, referred |-> c, role |-> "friend"] :
              a \in {settings.friendReward} \ {0}}

\* The rows that reward referral row of customer c.
RewardRows(c, row) ==
    {[user |-> row.referrer, amount |-> row.reward, referred |-> c, role |-> "referrer"]}
      \cup {[user |-> c, amount |-> a, referred |-> c, role |-> "friend"] :
              a \in {row.friendReward} \ {0}}

\* The rows that share their user, type, source and sourceId with another one.
Conflicts(rows) ==
    \E old \in earned, new \in rows : /\ old.user = new.user
                                      /\ old.referred = new.referred
                                      /\ old.role = new.role

\* createReferralRewardEntries: one transaction, which the unique index of the
\* ledger rolls back when the referral has been rewarded since.
Reward(r) ==
    LET c == Payer[req[r].payment]
        rows == RewardRows(c, referral[c])
    IN  /\ IsAt(r, "reward")
        /\ \/ /\ ~Conflicts(rows)
              /\ earned' = earned \cup rows
              /\ referral' = [referral EXCEPT ![c] = WithStatus(@, "REWARDED")]
           \/ /\ Conflicts(rows)
              /\ UNCHANGED <<earned, referral>>
        /\ Finish(r)
        /\ UNCHANGED <<settings, members, lapsed, charged, settled, redeemed, credited, failures>>

-----------------------------------------------------------------------------
(* Redeeming.                                                              *)

RewardsOf(c) == {row \in earned : row.user = c}
EarnedBy(c) == SumFunction([row \in RewardsOf(c) |-> row.amount])
Redeemed(e) == redeemed[e] # NotRedeemed
RedemptionsOf(c) == {e \in Redemptions : Redeemed(e) /\ redeemed[e].user = c}
RedeemedBy(c) == SumFunction([e \in RedemptionsOf(c) |-> redeemed[e].amount])

\* Mutant: the credit available is what was ever earned.
MutantAvailableCredit(c) == EarnedBy(c)

AvailableCredit(c) == EarnedBy(c) - RedeemedBy(c)

RedeemBegin(r, c, amount) ==
    /\ c \in members
    /\ amount <= AvailableCredit(c)
    /\ Start(r, [op |-> "redeem", user |-> c, amount |-> amount])
    /\ UNCHANGED <<settings, members, referral, lapsed, charged, settled, ledgers, failures>>

\* createRewardRedemption: a fresh row, the balance is not read again.
RecordRedemption(r, e) ==
    /\ IsAt(r, "redeem")
    /\ ~Redeemed(e)
    /\ redeemed' = [redeemed EXCEPT ![e] = [user |-> req[r].user, amount |-> req[r].amount]]
    /\ Continue(r, [op |-> "credit", entry |-> e])
    /\ UNCHANGED <<settings, members, referral, lapsed, charged, settled, earned, credited, failures>>

\* Mutant: a wallet that holds any reward credit is taken for credited.
MutantIsCredited(e) == \E f \in credited : redeemed[f].user = redeemed[e].user

\* findRewardWalletLedger.
IsCredited(e) == e \in credited

\* creditRewardRedemption: the wallet's ledger row and its gift credits.
CreditRedemption(r) ==
    LET e == req[r].entry
    IN  /\ IsAt(r, "credit")
        /\ credited' = IF IsCredited(e) THEN credited ELSE credited \cup {e}
        /\ Finish(r)
        /\ UNCHANGED <<settings, members, referral, lapsed, charged, settled, earned, redeemed, failures>>

-----------------------------------------------------------------------------
\* A request ends without its next write: an error of the database or of a
\* notification, or a crash of the process.
Fail(r) ==
    /\ req[r] # Idle
    /\ failures < MaxFailures
    /\ failures' = failures + 1
    /\ Finish(r)
    /\ UNCHANGED <<settings, members, referral, lapsed, charged, settled, ledgers>>

\* What a request does by itself once it has started.
ProceedSettling(r) ==
    RecordOutcome(r) \/ ReadReferral(r) \/ Judge(r) \/ Expire(r) \/ LookForReward(r) \/ Reward(r)
ProceedRedeeming(r) ==
    CreditRedemption(r) \/ \E e \in Redemptions : RecordRedemption(r, e)

Next ==
    \/ \E row \in SettingsRows : UpdateSettings(row)
    \/ \E c \in Customers : SignUp(c) \/ Lapse(c) \/ \E d \in Customers : SignUpWithCode(c, d)
    \/ \E p \in Payments : Charge(p)
    \/ \E r \in Settlers : ProceedSettling(r) \/ \E p \in Payments : SettleBegin(r, p)
    \/ \E r \in Redeemers :
         \/ ProceedRedeeming(r)
         \/ \E c \in Customers, amount \in Withdrawn : RedeemBegin(r, c, amount)
    \/ \E r \in Requests : Fail(r)

Spec == Init /\ [][Next]_vars

\* The event loop runs every handler that has started to its end.
FairSpec ==
    /\ Spec
    /\ \A r \in Settlers : WF_vars(ProceedSettling(r))
    /\ \A r \in Redeemers : WF_vars(ProceedRedeeming(r))

-----------------------------------------------------------------------------
(* Properties.                                                             *)

\* Every variable holds rows or requests of its type.
TypeOK ==
    /\ settings \in SettingsRows
    /\ members \subseteq Customers
    /\ referral \in [Customers -> {NoReferral} \cup Referral]
    /\ lapsed \subseteq Customers
    /\ charged \subseteq Payments
    /\ settled \subseteq Payments
    /\ earned \subseteq EarnedRow
    /\ redeemed \in [Redemptions -> {NotRedeemed} \cup RedeemedRow]
    /\ credited \subseteq Redemptions
    /\ failures \in 0..MaxFailures
    /\ req \in [Requests -> {Idle} \cup SettleRequest \cup RedeemRequest]

RewardsFor(c) == {row \in earned : row.referred = c}

\* "Successful first eligible payment triggers one referral reward and duplicate
\* rewards are skipped": a referral has no rewards or exactly those promised when
\* the customer joined, whatever payments settle at once and whatever the
\* settings have become.  It shows as REWARDED unless a request that found it
\* expired has written that over it.
RewardsMatchReferral ==
    \A c \in Customers :
      \/ RewardsFor(c) = {} /\ referral[c].status # "REWARDED"
      \/ /\ HasReferral(c)
         /\ RewardsFor(c) = RewardRows(c, referral[c])
         /\ \/ referral[c].status = "REWARDED"
            \/ referral[c].status = "EXPIRED" /\ c \in lapsed

\* A reward is earned by money: Stripe has taken a payment of the customer who
\* joined, of the minimum amount promised at that time or more.
RewardIsPaidFor ==
    \A c \in Customers :
      RewardsFor(c) # {} =>
        \E p \in charged : Payer[p] = c /\ Amount[p] >= referral[c].minimum

\* "Redemption cannot exceed ledger-derived available credit": what a customer
\* has redeemed is covered by what was earned.
RedemptionIsCovered == \A c \in Customers : RedeemedBy(c) <= EarnedBy(c)

\* A redemption reaches the wallet unless its request fails.
RedemptionIsCredited ==
    \A e \in Redemptions : Redeemed(e) ~> (e \in credited \/ failures > 0)

\* Once a payment of the minimum amount has succeeded, the referral it counts
\* for is rewarded or expires, unless the program is stopped meanwhile or the
\* request fails.
Decided(c) == referral[c].status \in {"REWARDED", "EXPIRED"}
Qualifies(p) == HasReferral(Payer[p]) /\ Amount[p] >= referral[Payer[p]].minimum
PurchaseIsDecided ==
    \A p \in Payments :
      (Qualifies(p) /\ \E r \in Settlers : IsAt(r, "award") /\ req[r].payment = p)
        ~> (Decided(Payer[p]) \/ ~settings.active \/ failures > 0)
-----------------------------------------------------------------------------
(* Why the rewards are right: what a request has found out about a payment *)
(* and a referral stays true until it writes, and a referral, once it has  *)
(* rewards, has the row that keeps a second transaction out.               *)

ReferralsHaveAccounts == \A c \in Customers : HasReferral(c) => c \in members

StageIsSound(q) ==
    /\ q.op = "record" /\ q.paid => q.payment \in charged
    /\ q.op \in {"award", "judge", "expire", "look", "reward"} => q.payment \in charged
    /\ q.op \in {"judge", "expire", "look", "reward"} => HasReferral(Payer[q.payment])
    /\ q.op = "expire" => Payer[q.payment] \in lapsed
    /\ q.op \in {"look", "reward"} => Amount[q.payment] >= referral[Payer[q.payment]].minimum

RewardInvariant ==
    /\ ReferralsHaveAccounts
    /\ \A r \in Requests : StageIsSound(req[r])
    /\ RewardsMatchReferral
    /\ RewardIsPaidFor
=============================================================================
