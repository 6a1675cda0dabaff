--------------------------- MODULE RewardsProofs ---------------------------
(***************************************************************************)
(* Proofs about Rewards for every set of customers, payments, settings and *)
(* concurrent requests, for every amount and any number of failures.       *)
(***************************************************************************)
EXTENDS Rewards, SumLemmas

-----------------------------------------------------------------------------
(* What the helpers return.                                                *)

LEMMA ReferralWithStatus ==
  ASSUME NEW row \in Referral, NEW s \in {"JOINED", "REWARDED", "EXPIRED"}
  PROVE  /\ WithStatus(row, s) \in Referral
         /\ WithStatus(row, s).status = s
         /\ WithStatus(row, s).referrer = row.referrer
         /\ WithStatus(row, s).reward = row.reward
         /\ WithStatus(row, s).friendReward = row.friendReward
         /\ WithStatus(row, s).minimum = row.minimum
BY Zenon DEF WithStatus, Referral

LEMMA ReferralsExist ==
  /\ \A row \in Referral : row # NoReferral /\ row.status # "NONE"
  /\ NoReferral.status = "NONE"
<1>1. \A row \in Referral : row.status # "NONE"
  BY DEF Referral
<1> QED
  BY <1>1 DEF NoReferral

AnyRequest == {Idle} \cup SettleRequest \cup RedeemRequest
Stages == {"award", "judge", "expire", "look", "reward"}

\* A request's tag tells what it holds.
LEMMA RequestKind ==
  ASSUME NEW q \in AnyRequest
  PROVE  /\ q.op \in {"record"} \cup Stages => q.payment \in Payments
         /\ q.op = "record" => q.paid \in BOOLEAN
         /\ q.op = "redeem" => q.user \in Customers /\ q.amount \in Withdrawn
         /\ q.op = "credit" => q.entry \in Redemptions
BY DEF AnyRequest, SettleRequest, RedeemRequest, Idle, Stages

LEMMA IdleIsSound == Idle \in AnyRequest /\ StageIsSound(Idle)
BY DEF AnyRequest, Idle, StageIsSound

LEMMA StageIsARequest ==
  ASSUME NEW op \in Stages, NEW p \in Payments
  PROVE  /\ [op |-> op, payment |-> p] \in AnyRequest
         /\ [op |-> op, payment |-> p].op = op
         /\ [op |-> op, payment |-> p].payment = p
BY DEF AnyRequest, SettleRequest, Stages

\* A reward's rows belong to the referral they reward, and so does the one that
\* stands for it in the unique index.
LEMMA RowsOfAReward ==
  ASSUME NEW c \in Customers, NEW row \in Referral
  PROVE  /\ RewardRows(c, row) \subseteq EarnedRow
         /\ \A x \in RewardRows(c, row) : x.referred = c
         /\ \E x \in RewardRows(c, row) : x.user = row.referrer /\ x.role = "referrer"
<1> DEFINE First == [user |-> row.referrer, amount |-> row.reward, referred |-> c, role |-> "referrer"]
           Second(a) == [user |-> c, amount |-> a, referred |-> c, role |-> "friend"]
<1>1. row.referrer \in Customers /\ row.reward \in Nat /\ row.friendReward \in Nat
  BY DEF Referral
<1>2. RewardRows(c, row) = {First} \cup {Second(a) : a \in {row.friendReward} \ {0}}
  BY DEF RewardRows
<1>3. /\ First \in EarnedRow /\ First.referred = c
      /\ First.user = row.referrer /\ First.role = "referrer"
  BY <1>1 DEF EarnedRow
<1>4. \A a \in {row.friendReward} \ {0} : Second(a) \in EarnedRow /\ Second(a).referred = c
  BY <1>1 DEF EarnedRow
<1> HIDE DEF First, Second
<1> QED
  BY <1>2, <1>3, <1>4

\* The status of a referral does not change what it promises.
LEMMA SameReward ==
  ASSUME NEW c \in Customers, NEW row \in Referral, NEW s \in {"JOINED", "REWARDED", "EXPIRED"}
  PROVE  RewardRows(c, WithStatus(row, s)) = RewardRows(c, row)
BY ReferralWithStatus, Zenon DEF RewardRows

-----------------------------------------------------------------------------
(* The invariant.                                                          *)

IInv == TypeOK /\ RewardInvariant

LEMMA Initially == Init => IInv
<1> SUFFICES ASSUME Init PROVE IInv
  OBVIOUS
<1>1. TypeOK
  BY FoundersAreCustomers, RedeemedIsPositive DEF Init, TypeOK, Requests
<1>2. \A c \in Customers : ~HasReferral(c) /\ referral[c].status = "NONE" /\ RewardsFor(c) = {}
  BY ReferralsExist DEF Init, HasReferral, RewardsFor
<1>3. \A r \in Requests : StageIsSound(req[r])
  BY IdleIsSound DEF Init
<1> QED
  BY <1>1, <1>2, <1>3
     DEF IInv, RewardInvariant, ReferralsHaveAccounts, RewardsMatchReferral, RewardIsPaidFor

\* What no step takes back.
Grows ==
  /\ charged \subseteq charged'
  /\ lapsed \subseteq lapsed'
  /\ \A c \in Customers : referral[c] # NoReferral =>
       referral'[c] # NoReferral /\ referral'[c].minimum = referral[c].minimum

LEMMA SoundStays ==
  ASSUME NEW q \in AnyRequest, StageIsSound(q), Grows
  PROVE  StageIsSound(q)'
<1>1. q.op \in {"record"} \cup Stages => q.payment \in Payments /\ Payer[q.payment] \in Customers
  BY RequestKind, PaymentsArePaid
<1>2. q.op = "record" /\ q.paid => q.payment \in charged'
  BY DEF StageIsSound, Grows
<1>3. q.op \in Stages => q.payment \in charged'
  BY DEF StageIsSound, Grows, Stages
<1>4. q.op \in Stages \ {"award"} => referral'[Payer[q.payment]] # NoReferral
  BY <1>1 DEF StageIsSound, Grows, Stages, HasReferral
<1>5. q.op = "expire" => Payer[q.payment] \in lapsed'
  BY DEF StageIsSound, Grows
<1>6. q.op \in {"look", "reward"} => Amount[q.payment] >= referral'[Payer[q.payment]].minimum
  BY <1>1 DEF StageIsSound, Grows, Stages, HasReferral
<1> QED
  BY <1>2, <1>3, <1>4, <1>5, <1>6 DEF StageIsSound, HasReferral, Stages

\* Request r moves on to p.
LEMMA RequestsStaySound ==
  ASSUME IInv, Grows, NEW r \in Requests, NEW p \in AnyRequest,
         req' = [req EXCEPT ![r] = p], StageIsSound(p)'
  PROVE  /\ req' \in [Requests -> AnyRequest]
         /\ \A s \in Requests : StageIsSound(req[s])'
<1>0. req \in [Requests -> AnyRequest]
  BY DEF IInv, TypeOK, AnyRequest
<1>1. /\ req' \in [Requests -> AnyRequest]
      /\ req'[r] = p
      /\ \A s \in Requests \ {r} : req'[s] = req[s]
  BY <1>0
<1>2. ASSUME NEW s \in Requests
      PROVE  StageIsSound(req[s])'
  <2>1. PICK q \in AnyRequest : q = req[s] /\ StageIsSound(q)
    BY <1>0 DEF IInv, RewardInvariant
  <2>2. StageIsSound(q)'
    BY <2>1, SoundStays
  <2>3. req'[s] = q \/ req'[s] = p
    BY <1>1, <2>1
  <2> QED
    BY <2>2, <2>3 DEF StageIsSound, HasReferral
<1> QED
  BY <1>1, <1>2

LEMMA OthersStaySound ==
  ASSUME IInv, Grows, UNCHANGED req
  PROVE  \A s \in Requests : StageIsSound(req[s])'
<1> SUFFICES ASSUME NEW s \in Requests PROVE StageIsSound(req[s])'
  OBVIOUS
<1>1. PICK q \in AnyRequest : q = req[s] /\ StageIsSound(q)
  BY DEF IInv, TypeOK, AnyRequest, RewardInvariant
<1>2. StageIsSound(q)' /\ req'[s] = q
  BY <1>1, SoundStays
<1> QED
  BY <1>2 DEF StageIsSound, HasReferral

\* Rows and referrals that nobody touches stay right while the rest grows.
LEMMA RewardsUntouched ==
  ASSUME IInv, UNCHANGED <<earned, referral>>, Grows, members \subseteq members'
  PROVE  ReferralsHaveAccounts' /\ RewardsMatchReferral' /\ RewardIsPaidFor'
<1>1. ReferralsHaveAccounts'
  BY DEF IInv, RewardInvariant, ReferralsHaveAccounts, HasReferral
<1>2. RewardsMatchReferral'
  BY Zenon DEF IInv, RewardInvariant, RewardsMatchReferral, RewardsFor, RewardRows, HasReferral, Grows
<1>3. RewardIsPaidFor'
  BY Zenon DEF IInv, RewardInvariant, RewardIsPaidFor, RewardsFor, Grows
<1> QED
  BY <1>1, <1>2, <1>3

-----------------------------------------------------------------------------
(* The steps, one by one.                                                  *)

\* A request that reads, or ends, writes no row.
LEMMA ReadsPreserve ==
  ASSUME IInv, NEW r \in Requests, NEW p \in AnyRequest, StageIsSound(p),
         req' = [req EXCEPT ![r] = p], failures' \in 0..MaxFailures,
         UNCHANGED <<settings, members, referral, lapsed, charged, settled, ledgers>>
  PROVE  IInv'
<1>1. Grows
  BY DEF Grows
<1>2. StageIsSound(p)'
  BY <1>1, SoundStays
<1>3. /\ req' \in [Requests -> AnyRequest]
      /\ \A s \in Requests : StageIsSound(req[s])'
  BY <1>1, <1>2, RequestsStaySound
<1>4. ReferralsHaveAccounts' /\ RewardsMatchReferral' /\ RewardIsPaidFor'
  BY <1>1, RewardsUntouched DEF ledgers
<1>5. TypeOK'
  BY <1>3 DEF IInv, TypeOK, ledgers, AnyRequest
<1> QED
  BY <1>3, <1>4, <1>5 DEF IInv, RewardInvariant

\* What happens outside of the requests.
LEMMA SurroundingsPreserve ==
  ASSUME IInv,
         \/ \E row \in SettingsRows : UpdateSettings(row)
         \/ \E c \in Customers : SignUp(c) \/ Lapse(c)
         \/ \E p \in Payments : Charge(p)
  PROVE  IInv'
<1>1. /\ members \subseteq members' /\ members' \subseteq Customers
      /\ lapsed \subseteq lapsed' /\ lapsed' \subseteq Customers
      /\ charged \subseteq charged' /\ charged' \subseteq Payments
      /\ settings' \in SettingsRows
      /\ UNCHANGED <<referral, settled, earned, redeemed, credited, failures, req>>
  BY DEF UpdateSettings, SignUp, Lapse, Charge, ledgers, IInv, TypeOK
<1>2. Grows
  BY <1>1 DEF Grows
<1>3. \A s \in Requests : StageIsSound(req[s])'
  BY <1>1, <1>2, OthersStaySound
<1>4. ReferralsHaveAccounts' /\ RewardsMatchReferral' /\ RewardIsPaidFor'
  BY <1>1, <1>2, RewardsUntouched
<1>5. TypeOK'
  BY <1>1 DEF IInv, TypeOK
<1> QED
  BY <1>3, <1>4, <1>5 DEF IInv, RewardInvariant

\* A new customer has no referral that the new one could replace.
LEMMA SignUpWithCodePreserves ==
  ASSUME IInv, NEW c \in Customers, NEW d \in Customers, SignUpWithCode(c, d)
  PROVE  IInv'
<1> DEFINE new == [status |-> "JOINED", referrer |-> d, reward |-> settings.reward,
                   friendReward |-> settings.friendReward, minimum |-> settings.minimum]
<1>1. settings \in Setting
  BY SettingsAreValid DEF IInv, TypeOK
<1>2. new \in Referral /\ new.status = "JOINED"
  BY <1>1 DEF Setting, Referral
<1>3. /\ c \notin members /\ members' = members \cup {c}
      /\ referral' = [referral EXCEPT ![c] = new]
      /\ UNCHANGED <<settings, lapsed, charged, settled, earned, redeemed, credited, failures, req>>
  BY DEF SignUpWithCode, ledgers
<1> HIDE DEF new
<1>4. /\ referral' \in [Customers -> {NoReferral} \cup Referral]
      /\ referral'[c] = new
      /\ \A e \in Customers \ {c} : referral'[e] = referral[e]
  BY <1>2, <1>3 DEF IInv, TypeOK
<1>5. ~HasReferral(c) /\ RewardsFor(c) = {}
  BY <1>3 DEF IInv, RewardInvariant, ReferralsHaveAccounts, RewardsMatchReferral
<1>6. Grows
  BY <1>3, <1>4, <1>5 DEF Grows, HasReferral
<1>7. \A s \in Requests : StageIsSound(req[s])'
  BY <1>3, <1>6, OthersStaySound
<1>8. ReferralsHaveAccounts'
  BY <1>3, <1>4 DEF IInv, RewardInvariant, ReferralsHaveAccounts, HasReferral
<1>9. \A e \in Customers : RewardsFor(e)' = RewardsFor(e)
  BY <1>3 DEF RewardsFor
<1>10. RewardsMatchReferral'
  <2> SUFFICES ASSUME NEW e \in Customers
               PROVE  \/ RewardsFor(e)' = {} /\ referral'[e].status # "REWARDED"
                      \/ /\ referral'[e] # NoReferral
                         /\ RewardsFor(e)' = RewardRows(e, referral'[e])
                         /\ \/ referral'[e].status = "REWARDED"
                            \/ referral'[e].status = "EXPIRED" /\ e \in lapsed'
    BY Zenon DEF RewardsMatchReferral, HasReferral, RewardsFor, RewardRows
  <2>1. CASE e = c
    BY <2>1, <1>2, <1>4, <1>5, <1>9
  <2>2. CASE e # c
    BY <2>2, <1>3, <1>4, <1>9 DEF IInv, RewardInvariant, RewardsMatchReferral, HasReferral
  <2> QED
    BY <2>1, <2>2
<1>11. RewardIsPaidFor'
  <2> SUFFICES ASSUME NEW e \in Customers, RewardsFor(e)' # {}
               PROVE  \E p \in charged' : Payer[p] = e /\ Amount[p] >= referral'[e].minimum
    BY Zenon DEF RewardIsPaidFor, RewardsFor
  <2>1. e # c
    BY <1>5, <1>9
  <2> QED
    BY <2>1, <1>3, <1>4, <1>9 DEF IInv, RewardInvariant, RewardIsPaidFor
<1>12. TypeOK'
  BY <1>3, <1>4 DEF IInv, TypeOK
<1> QED
  BY <1>7, <1>8, <1>10, <1>11, <1>12 DEF IInv, RewardInvariant

-----------------------------------------------------------------------------
(* The steps of a request that settles a payment.                          *)

\* What holds of a request that is at one of the stages of the award.
LEMMA AtStage ==
  ASSUME IInv, NEW r \in Requests, NEW op \in Stages, IsAt(r, op)
  PROVE  /\ req[r].payment \in Payments
         /\ Payer[req[r].payment] \in Customers
         /\ req[r].payment \in charged
         /\ op # "award" => referral[Payer[req[r].payment]] \in Referral
         /\ op = "expire" => Payer[req[r].payment] \in lapsed
         /\ op \in {"look", "reward"} =>
              Amount[req[r].payment] >= referral[Payer[req[r].payment]].minimum
<1>1. PICK q \in AnyRequest : q = req[r] /\ StageIsSound(q) /\ q.op = op
  BY DEF IInv, TypeOK, AnyRequest, RewardInvariant, IsAt
<1>2. q.payment \in Payments /\ Payer[q.payment] \in Customers
  BY <1>1, RequestKind, PaymentsArePaid
<1>3. op # "award" => referral[Payer[q.payment]] \in Referral
  BY <1>1, <1>2 DEF StageIsSound, Stages, HasReferral, IInv, TypeOK
<1> QED
  BY <1>1, <1>2, <1>3 DEF StageIsSound, Stages

\* A request that goes on to the next stage of the award.
LEMMA NextStagePreserves ==
  ASSUME IInv, NEW r \in Requests, NEW op \in Stages, NEW next \in Stages,
         IsAt(r, op), NextStage(r, next),
         StageIsSound([op |-> next, payment |-> req[r].payment]),
         UNCHANGED <<settings, members, referral, lapsed, charged, settled, ledgers, failures>>
  PROVE  IInv'
<1>1. [op |-> next, payment |-> req[r].payment] \in AnyRequest
  BY AtStage, StageIsARequest
<1>2. req' = [req EXCEPT ![r] = [op |-> next, payment |-> req[r].payment]]
  BY DEF NextStage, Continue
<1>3. failures' \in 0..MaxFailures
  BY DEF IInv, TypeOK
<1> QED
  BY <1>1, <1>2, <1>3, ReadsPreserve

\* A request that has nothing more to do.
LEMMA FinishPreserves ==
  ASSUME IInv, NEW r \in Requests, Finish(r),
         UNCHANGED <<settings, members, referral, lapsed, charged, settled, ledgers, failures>>
  PROVE  IInv'
BY IdleIsSound, ReadsPreserve DEF Finish, IInv, TypeOK

LEMMA SettleBeginPreserves ==
  ASSUME IInv, NEW r \in Requests, NEW p \in Payments, SettleBegin(r, p)
  PROVE  IInv'
<1> DEFINE q == [op |-> "record", payment |-> p, paid |-> p \in charged]
<1>1. q \in AnyRequest
  BY DEF AnyRequest, SettleRequest
<1>2. StageIsSound(q)
  BY DEF StageIsSound
<1>3. req' = [req EXCEPT ![r] = q] /\ failures' \in 0..MaxFailures
  BY DEF SettleBegin, Start, IInv, TypeOK
<1> QED
  BY <1>1, <1>2, <1>3, ReadsPreserve DEF SettleBegin

LEMMA RecordOutcomePreserves ==
  ASSUME IInv, NEW r \in Requests, RecordOutcome(r)
  PROVE  IInv'
<1>1. PICK q \in AnyRequest : q = req[r] /\ StageIsSound(q) /\ q.op = "record"
  BY DEF IInv, TypeOK, AnyRequest, RewardInvariant, RecordOutcome, IsAt
<1>2. q.payment \in Payments
  BY <1>1, RequestKind
<1>3. PICK p \in AnyRequest : req' = [req EXCEPT ![r] = p] /\ StageIsSound(p)
  <2>1. CASE q.paid
    <3> DEFINE p == [op |-> "award", payment |-> q.payment]
    <3>1. p \in AnyRequest /\ p.op = "award" /\ p.payment = q.payment
      BY <1>2, StageIsARequest DEF Stages
    <3>2. req' = [req EXCEPT ![r] = p]
      BY <1>1, <2>1 DEF RecordOutcome, NextStage, Continue
    <3>3. q.payment \in charged
      BY <1>1, <2>1 DEF StageIsSound
    <3> HIDE DEF p
    <3>4. StageIsSound(p)
      BY <3>1, <3>3 DEF StageIsSound
    <3> QED
      BY <3>1, <3>2, <3>4
  <2>2. CASE ~q.paid
    BY <1>1, <2>2, IdleIsSound DEF RecordOutcome, Finish
  <2> QED
    BY <2>1, <2>2
<1>4. /\ settled' \subseteq Payments
      /\ UNCHANGED <<settings, members, referral, lapsed, charged, ledgers, failures>>
  BY <1>1, <1>2 DEF RecordOutcome, IInv, TypeOK
<1>5. Grows
  BY <1>4 DEF Grows
<1>6. StageIsSound(p)'
  BY <1>3, <1>5, SoundStays
<1>7. /\ req' \in [Requests -> AnyRequest]
      /\ \A s \in Requests : StageIsSound(req[s])'
  BY <1>3, <1>5, <1>6, RequestsStaySound
<1>8. ReferralsHaveAccounts' /\ RewardsMatchReferral' /\ RewardIsPaidFor'
  BY <1>4, <1>5, RewardsUntouched DEF ledgers
<1>9. TypeOK'
  BY <1>4, <1>7 DEF IInv, TypeOK, ledgers, AnyRequest
<1> QED
  BY <1>7, <1>8, <1>9 DEF IInv, RewardInvariant

LEMMA ReadReferralPreserves ==
  ASSUME IInv, NEW r \in Requests, ReadReferral(r)
  PROVE  IInv'
<1>1. IsAt(r, "award") /\ "award" \in Stages /\ "judge" \in Stages
  BY DEF ReadReferral, Stages
<1>2. CASE ReferralOf(r).status = "JOINED"
  <2>1. HasReferral(Payer[req[r].payment]) /\ req[r].payment \in charged
    BY <1>1, <1>2, AtStage, ReferralsExist DEF ReferralOf, HasReferral
  <2>2. StageIsSound([op |-> "judge", payment |-> req[r].payment])
    BY <2>1 DEF StageIsSound
  <2> QED
    BY <1>1, <1>2, <2>2, NextStagePreserves DEF ReadReferral
<1>3. CASE ReferralOf(r).status # "JOINED"
  BY <1>3, FinishPreserves DEF ReadReferral
<1> QED
  BY <1>2, <1>3

LEMMA JudgePreserves ==
  ASSUME IInv, NEW r \in Requests, Judge(r)
  PROVE  IInv'
<1> DEFINE c == Payer[req[r].payment]
           Found(op) == [op |-> op, payment |-> req[r].payment]
<1>1. /\ IsAt(r, "judge") /\ {"judge", "expire", "look"} \subseteq Stages
      /\ UNCHANGED <<settings, members, referral, lapsed, charged, settled, ledgers, failures>>
  BY DEF Judge, Stages
<1>2. HasReferral(c) /\ req[r].payment \in charged
  BY <1>1, AtStage, ReferralsExist DEF HasReferral
<1>3. CASE c \in lapsed /\ NextStage(r, "expire")
  <2>1. StageIsSound(Found("expire"))
    BY <1>2, <1>3 DEF StageIsSound
  <2> QED
    BY <1>1, <1>3, <2>1, NextStagePreserves
<1>4. CASE ReachesMinimum(r) /\ NextStage(r, "look")
  <2>1. StageIsSound(Found("look"))
    BY <1>2, <1>4 DEF StageIsSound, ReachesMinimum, ReferralOf
  <2> QED
    BY <1>1, <1>4, <2>1, NextStagePreserves
<1>5. CASE Finish(r)
  BY <1>1, <1>5, FinishPreserves
<1> QED
  BY <1>3, <1>4, <1>5 DEF Judge

LEMMA LookForRewardPreserves ==
  ASSUME IInv, NEW r \in Requests, LookForReward(r)
  PROVE  IInv'
<1>1. /\ IsAt(r, "look") /\ {"look", "reward"} \subseteq Stages
      /\ UNCHANGED <<settings, members, referral, lapsed, charged, settled, ledgers, failures>>
  BY DEF LookForReward, Stages
<1>2. CASE NextStage(r, "reward")
  <2>1. /\ HasReferral(Payer[req[r].payment]) /\ req[r].payment \in charged
        /\ Amount[req[r].payment] >= referral[Payer[req[r].payment]].minimum
    BY <1>1, AtStage, ReferralsExist DEF HasReferral
  <2>2. StageIsSound([op |-> "reward", payment |-> req[r].payment])
    BY <2>1 DEF StageIsSound
  <2> QED
    BY <1>1, <1>2, <2>2, NextStagePreserves
<1>3. CASE Finish(r)
  BY <1>1, <1>3, FinishPreserves
<1> QED
  BY <1>2, <1>3 DEF LookForReward

\* A referral whose status changes promises and owes what it did.
LEMMA StatusWritten ==
  ASSUME IInv, NEW c \in Customers, referral[c] \in Referral, NEW s \in {"REWARDED", "EXPIRED"},
         referral' = [referral EXCEPT ![c] = WithStatus(@, s)],
         UNCHANGED <<members, lapsed, charged>>
  PROVE  /\ referral' \in [Customers -> {NoReferral} \cup Referral]
         /\ HasReferral(c) /\ HasReferral(c)'
         /\ referral'[c].status = s
         /\ referral'[c].minimum = referral[c].minimum
         /\ RewardRows(c, referral'[c]) = RewardRows(c, referral[c])
         /\ \A e \in Customers \ {c} : referral'[e] = referral[e]
         /\ Grows
         /\ ReferralsHaveAccounts'
<1> DEFINE new == WithStatus(referral[c], s)
<1>1. new \in Referral /\ new.status = s /\ new.minimum = referral[c].minimum
  BY ReferralWithStatus
<1>2. RewardRows(c, new) = RewardRows(c, referral[c])
  BY SameReward
<1>3. referral' = [referral EXCEPT ![c] = new]
  OBVIOUS
<1> HIDE DEF new
<1>4. /\ referral' \in [Customers -> {NoReferral} \cup Referral]
      /\ referral'[c] = new
      /\ \A e \in Customers \ {c} : referral'[e] = referral[e]
  BY <1>1, <1>3 DEF IInv, TypeOK
<1>5. HasReferral(c) /\ HasReferral(c)'
  BY <1>1, <1>4, ReferralsExist DEF HasReferral
<1>6. Grows
  BY <1>1, <1>4, <1>5 DEF Grows, HasReferral
<1>7. ReferralsHaveAccounts'
  BY <1>4, <1>5 DEF IInv, RewardInvariant, ReferralsHaveAccounts, HasReferral
<1> QED
  BY <1>1, <1>2, <1>4, <1>5, <1>6, <1>7

\* A referral rewarded meanwhile keeps its rows when it is marked as expired.
LEMMA ExpiryWritten ==
  ASSUME IInv, NEW r \in Requests, NEW c \in lapsed, referral[c] \in Referral,
         referral' = [referral EXCEPT ![c] = WithStatus(@, "EXPIRED")],
         req' = [req EXCEPT ![r] = Idle],
         UNCHANGED <<settings, members, lapsed, charged, settled, earned, redeemed, credited, failures>>
  PROVE  IInv'
<1>1. c \in Customers /\ c \in lapsed'
  BY DEF IInv, TypeOK
<1>2. /\ referral' \in [Customers -> {NoReferral} \cup Referral]
      /\ HasReferral(c) /\ HasReferral(c)'
      /\ referral'[c].status = "EXPIRED"
      /\ referral'[c].minimum = referral[c].minimum
      /\ RewardRows(c, referral'[c]) = RewardRows(c, referral[c])
      /\ \A e \in Customers \ {c} : referral'[e] = referral[e]
      /\ Grows
      /\ ReferralsHaveAccounts'
  BY <1>1, StatusWritten
<1>3. /\ req' \in [Requests -> AnyRequest]
      /\ \A s \in Requests : StageIsSound(req[s])'
  <2>1. StageIsSound(Idle)'
    BY <1>2, IdleIsSound, SoundStays
  <2> QED
    BY <1>1, <1>2, <2>1, IdleIsSound, RequestsStaySound
<1>4. \A e \in Customers : RewardsFor(e)' = RewardsFor(e)
  BY <1>1 DEF RewardsFor
<1>5. RewardsMatchReferral'
  <2> SUFFICES ASSUME NEW e \in Customers
               PROVE  \/ RewardsFor(e)' = {} /\ referral'[e].status # "REWARDED"
                      \/ /\ referral'[e] # NoReferral
                         /\ RewardsFor(e)' = RewardRows(e, referral'[e])
                         /\ \/ referral'[e].status = "REWARDED"
                            \/ referral'[e].status = "EXPIRED" /\ e \in lapsed'
    BY Zenon DEF RewardsMatchReferral, HasReferral, RewardsFor, RewardRows
  <2>1. CASE e = c
    <3>1. c \in lapsed'
      BY <1>1
    <3>2. \/ RewardsFor(c)' = {}
          \/ RewardsFor(c)' = RewardRows(c, referral'[c])
      BY <1>2, <1>4 DEF IInv, RewardInvariant, RewardsMatchReferral
    <3> QED
      BY <2>1, <3>1, <3>2, <1>2 DEF HasReferral
  <2>2. CASE e # c
    BY <2>2, <1>1, <1>2, <1>4 DEF IInv, RewardInvariant, RewardsMatchReferral, HasReferral
  <2> QED
    BY <2>1, <2>2
<1>6. RewardIsPaidFor'
  <2>1. \A e \in Customers : RewardsFor(e)' # {} =>
          \E p \in charged' : Payer[p] = e /\ Amount[p] >= referral'[e].minimum
    BY <1>1, <1>2, <1>4 DEF IInv, RewardInvariant, RewardIsPaidFor
  <2> QED
    BY <2>1, Zenon DEF RewardIsPaidFor, RewardsFor
<1>7. TypeOK'
  BY <1>1, <1>2, <1>3 DEF IInv, TypeOK, AnyRequest
<1> QED
  BY <1>2, <1>3, <1>5, <1>6, <1>7 DEF IInv, RewardInvariant

LEMMA ExpirePreserves ==
  ASSUME IInv, NEW r \in Requests, Expire(r)
  PROVE  IInv'
<1> DEFINE c == Payer[req[r].payment]
<1>1. IsAt(r, "expire") /\ "expire" \in Stages
  BY DEF Expire, Stages
<1>2. c \in lapsed /\ referral[c] \in Referral
  BY <1>1, AtStage DEF Stages
<1> QED
  BY <1>2, ExpiryWritten DEF Expire, Finish, ledgers

\* A referral that has rewards already has the row that makes the insert fail.
LEMMA RewardedConflicts ==
  ASSUME IInv, NEW c \in Customers, referral[c] \in Referral,
         ~Conflicts(RewardRows(c, referral[c]))
  PROVE  RewardsFor(c) = {}
<1> SUFFICES ASSUME RewardsFor(c) = RewardRows(c, referral[c]) PROVE FALSE
  BY DEF IInv, RewardInvariant, RewardsMatchReferral
<1>1. PICK x \in RewardRows(c, referral[c]) : x.user = referral[c].referrer /\ x.role = "referrer"
  BY RowsOfAReward
<1>2. x \in earned
  BY <1>1 DEF RewardsFor
<1> QED
  BY <1>1, <1>2 DEF Conflicts

\* Request r enters the rows for c's referral: the transaction writes both the
\* rows and the status.
Enters(r, c, rows) ==
  /\ referral[c] \in Referral
  /\ \E p \in charged : Payer[p] = c /\ Amount[p] >= referral[c].minimum
  /\ rows = RewardRows(c, referral[c])
  /\ ~Conflicts(rows)
  /\ earned' = earned \cup rows
  /\ referral' = [referral EXCEPT ![c] = WithStatus(@, "REWARDED")]
  /\ req' = [req EXCEPT ![r] = Idle]
  /\ UNCHANGED <<settings, members, lapsed, charged, settled, redeemed, credited, failures>>

LEMMA RewardWritten ==
  ASSUME IInv, NEW r \in Requests, NEW c \in Customers, NEW rows, Enters(r, c, rows)
  PROVE  IInv'
<1>0. /\ UNCHANGED <<settings, members, lapsed, charged, settled, redeemed, credited, failures>>
      /\ rows = RewardRows(c, referral[c])
      /\ req' = [req EXCEPT ![r] = Idle]
  BY DEF Enters
<1>1. RewardsFor(c) = {}
  BY RewardedConflicts DEF Enters
<1>2. rows \subseteq EarnedRow /\ \A x \in rows : x.referred = c
  BY <1>0, RowsOfAReward DEF Enters
<1>3. /\ RewardsFor(c)' = rows
      /\ \A e \in Customers \ {c} : RewardsFor(e)' = RewardsFor(e)
  <2>1. RewardsFor(c)' = rows
    BY <1>1, <1>2 DEF RewardsFor, Enters
  <2>2. \A e \in Customers \ {c} : RewardsFor(e)' = RewardsFor(e)
    BY <1>2 DEF RewardsFor, Enters
  <2> QED
    BY <2>1, <2>2
<1>4. /\ referral' \in [Customers -> {NoReferral} \cup Referral]
      /\ HasReferral(c) /\ HasReferral(c)'
      /\ referral'[c].status = "REWARDED"
      /\ referral'[c].minimum = referral[c].minimum
      /\ RewardRows(c, referral'[c]) = RewardRows(c, referral[c])
      /\ \A e \in Customers \ {c} : referral'[e] = referral[e]
      /\ Grows
      /\ ReferralsHaveAccounts'
  BY StatusWritten DEF Enters
<1>5. /\ req' \in [Requests -> AnyRequest]
      /\ \A s \in Requests : StageIsSound(req[s])'
  <2>1. StageIsSound(Idle)'
    BY <1>4, IdleIsSound, SoundStays
  <2> QED
    BY <1>0, <1>4, <2>1, IdleIsSound, RequestsStaySound
<1>6. RewardsMatchReferral'
  <2> SUFFICES ASSUME NEW e \in Customers
               PROVE  \/ RewardsFor(e)' = {} /\ referral'[e].status # "REWARDED"
                      \/ /\ referral'[e] # NoReferral
                         /\ RewardsFor(e)' = RewardRows(e, referral'[e])
                         /\ \/ referral'[e].status = "REWARDED"
                            \/ referral'[e].status = "EXPIRED" /\ e \in lapsed'
    BY Zenon DEF RewardsMatchReferral, HasReferral, RewardsFor, RewardRows
  <2>1. CASE e = c
    <3>1. RewardsFor(c)' = RewardRows(c, referral'[c])
      BY <1>0, <1>3, <1>4
    <3>2. referral'[c] # NoReferral /\ referral'[c].status = "REWARDED"
      BY <1>4 DEF HasReferral
    <3> QED
      BY <2>1, <3>1, <3>2
  <2>2. CASE e # c
    BY <2>2, <1>0, <1>3, <1>4 DEF IInv, RewardInvariant, RewardsMatchReferral, HasReferral
  <2> QED
    BY <2>1, <2>2
<1>7. RewardIsPaidFor'
  <2>1. ASSUME NEW e \in Customers, RewardsFor(e)' # {}
        PROVE  \E p \in charged' : Payer[p] = e /\ Amount[p] >= referral'[e].minimum
    <3>1. CASE e = c
      BY <1>0, <1>4, <3>1 DEF Enters
    <3>2. CASE e # c
      BY <1>0, <1>3, <1>4, <2>1, <3>2 DEF IInv, RewardInvariant, RewardIsPaidFor
    <3> QED
      BY <3>1, <3>2
  <2> QED
    BY <2>1, Zenon DEF RewardIsPaidFor, RewardsFor
<1>8. TypeOK'
  <2>1. earned' \subseteq EarnedRow
    BY <1>2 DEF Enters, IInv, TypeOK
  <2> QED
    BY <1>0, <1>4, <1>5, <2>1 DEF IInv, TypeOK, AnyRequest
<1> QED
  BY <1>4, <1>5, <1>6, <1>7, <1>8 DEF IInv, RewardInvariant

LEMMA RewardPreserves ==
  ASSUME IInv, NEW r \in Requests, Reward(r)
  PROVE  IInv'
<1> DEFINE c == Payer[req[r].payment]
           rows == RewardRows(c, referral[c])
<1>1. /\ IsAt(r, "reward") /\ "reward" \in Stages
      /\ req' = [req EXCEPT ![r] = Idle]
      /\ UNCHANGED <<settings, members, lapsed, charged, settled, redeemed, credited, failures>>
  BY DEF Reward, Stages, Finish
<1>2. /\ c \in Customers /\ referral[c] \in Referral
      /\ \E p \in charged : Payer[p] = c /\ Amount[p] >= referral[c].minimum
  BY <1>1, AtStage
<1>3. CASE UNCHANGED <<earned, referral>>
  BY <1>1, <1>3, FinishPreserves DEF Reward, ledgers
<1>4. CASE /\ ~Conflicts(rows)
           /\ earned' = earned \cup rows
           /\ referral' = [referral EXCEPT ![c] = WithStatus(@, "REWARDED")]
  <2>1. Enters(r, c, rows)
    BY <1>1, <1>2, <1>4 DEF Enters
  <2> QED
    BY <1>2, <2>1, RewardWritten
<1> QED
  BY <1>3, <1>4 DEF Reward

-----------------------------------------------------------------------------
(* The steps of a request that redeems, and the theorems.                  *)

LEMMA RedeemBeginPreserves ==
  ASSUME IInv, NEW r \in Requests, NEW c \in Customers, NEW amount \in Withdrawn,
         RedeemBegin(r, c, amount)
  PROVE  IInv'
<1> DEFINE q == [op |-> "redeem", user |-> c, amount |-> amount]
<1>1. q \in AnyRequest
  BY DEF AnyRequest, RedeemRequest
<1>2. StageIsSound(q)
  BY DEF StageIsSound
<1>3. req' = [req EXCEPT ![r] = q] /\ failures' \in 0..MaxFailures
  BY DEF RedeemBegin, Start, IInv, TypeOK
<1> QED
  BY <1>1, <1>2, <1>3, ReadsPreserve DEF RedeemBegin

\* A step that only writes what the rewards do not depend on.
LEMMA RedemptionWritten ==
  ASSUME IInv, NEW r \in Requests, NEW p \in AnyRequest, StageIsSound(p),
         req' = [req EXCEPT ![r] = p],
         redeemed' \in [Redemptions -> {NotRedeemed} \cup RedeemedRow],
         credited' \subseteq Redemptions,
         UNCHANGED <<settings, members, referral, lapsed, charged, settled, earned, failures>>
  PROVE  IInv'
<1>1. Grows
  BY DEF Grows
<1>2. StageIsSound(p)'
  BY <1>1, SoundStays
<1>3. /\ req' \in [Requests -> AnyRequest]
      /\ \A s \in Requests : StageIsSound(req[s])'
  BY <1>1, <1>2, RequestsStaySound
<1>4. ReferralsHaveAccounts' /\ RewardsMatchReferral' /\ RewardIsPaidFor'
  BY <1>1, RewardsUntouched
<1>5. TypeOK'
  BY <1>3 DEF IInv, TypeOK, AnyRequest
<1> QED
  BY <1>3, <1>4, <1>5 DEF IInv, RewardInvariant

LEMMA RecordRedemptionPreserves ==
  ASSUME IInv, NEW r \in Requests, NEW e \in Redemptions, RecordRedemption(r, e)
  PROVE  IInv'
<1> DEFINE p == [op |-> "credit", entry |-> e]
           row == [user |-> req[r].user, amount |-> req[r].amount]
<1>1. PICK q \in AnyRequest : q = req[r] /\ q.op = "redeem"
  BY DEF IInv, TypeOK, AnyRequest, RecordRedemption, IsAt
<1>2. row \in RedeemedRow
  BY <1>1, RequestKind DEF RedeemedRow
<1>3. p \in AnyRequest
  BY DEF AnyRequest, RedeemRequest
<1>4. StageIsSound(p)
  BY DEF StageIsSound
<1>5. redeemed' = [redeemed EXCEPT ![e] = row] /\ credited' = credited
  BY DEF RecordRedemption
<1> HIDE DEF row
<1>6. redeemed' \in [Redemptions -> {NotRedeemed} \cup RedeemedRow] /\ credited' \subseteq Redemptions
  BY <1>2, <1>5 DEF IInv, TypeOK
<1> QED
  BY <1>3, <1>4, <1>6, RedemptionWritten DEF RecordRedemption, Continue

LEMMA CreditRedemptionPreserves ==
  ASSUME IInv, NEW r \in Requests, CreditRedemption(r)
  PROVE  IInv'
<1>1. PICK q \in AnyRequest : q = req[r] /\ q.op = "credit"
  BY DEF IInv, TypeOK, AnyRequest, CreditRedemption, IsAt
<1>2. req[r].entry \in Redemptions
  BY <1>1, RequestKind
<1>3. /\ credited' \subseteq Redemptions
      /\ redeemed' \in [Redemptions -> {NotRedeemed} \cup RedeemedRow]
  BY <1>2 DEF CreditRedemption, IInv, TypeOK
<1> QED
  BY <1>3, IdleIsSound, RedemptionWritten DEF CreditRedemption, Finish

LEMMA FailPreserves ==
  ASSUME IInv, NEW r \in Requests, Fail(r)
  PROVE  IInv'
<1>1. failures' \in 0..MaxFailures
  BY RedeemedIsPositive DEF Fail, IInv, TypeOK
<1> QED
  BY <1>1, IdleIsSound, ReadsPreserve DEF Fail, Finish

LEMMA SettlersPreserve ==
  ASSUME IInv, NEW r \in Settlers, ProceedSettling(r)
  PROVE  IInv'
<1>1. r \in Requests
  BY DEF Requests
<1> QED
  BY <1>1, RecordOutcomePreserves, ReadReferralPreserves, JudgePreserves, ExpirePreserves,
     LookForRewardPreserves, RewardPreserves DEF ProceedSettling

LEMMA RedeemersPreserve ==
  ASSUME IInv, NEW r \in Redeemers, ProceedRedeeming(r)
  PROVE  IInv'
<1>1. r \in Requests
  BY DEF Requests
<1> QED
  BY <1>1, CreditRedemptionPreserves, RecordRedemptionPreserves DEF ProceedRedeeming

LEMMA NextPreserves == IInv /\ [Next]_vars => IInv'
<1> SUFFICES ASSUME IInv, [Next]_vars PROVE IInv'
  OBVIOUS
<1>1. CASE UNCHANGED vars
  BY <1>1, RewardsUntouched, OthersStaySound
     DEF vars, ledgers, IInv, TypeOK, RewardInvariant, Grows
<1>2. ASSUME Next PROVE IInv'
  <2>1. CASE \/ \E row \in SettingsRows : UpdateSettings(row)
             \/ \E c \in Customers : SignUp(c) \/ Lapse(c)
             \/ \E p \in Payments : Charge(p)
    BY <2>1, SurroundingsPreserve
  <2>2. ASSUME NEW c \in Customers, NEW d \in Customers, SignUpWithCode(c, d) PROVE IInv'
    BY <2>2, SignUpWithCodePreserves
  <2>3. ASSUME NEW r \in Settlers, NEW p \in Payments, SettleBegin(r, p) PROVE IInv'
    BY <2>3, SettleBeginPreserves DEF Requests
  <2>4. ASSUME NEW r \in Settlers, ProceedSettling(r) PROVE IInv'
    BY <2>4, SettlersPreserve
  <2>5. ASSUME NEW r \in Redeemers, NEW c \in Customers, NEW amount \in Withdrawn,
               RedeemBegin(r, c, amount)
        PROVE  IInv'
    BY <2>5, RedeemBeginPreserves DEF Requests
  <2>6. ASSUME NEW r \in Redeemers, ProceedRedeeming(r) PROVE IInv'
    BY <2>6, RedeemersPreserve
  <2>7. ASSUME NEW r \in Requests, Fail(r) PROVE IInv'
    BY <2>7, FailPreserves
  <2> QED
    BY <1>2, <2>1, <2>2, <2>3, <2>4, <2>5, <2>6, <2>7, Zenon DEF Next
<1> QED
  BY <1>1, <1>2

THEOREM Invariant == Spec => []IInv
BY Initially, NextPreserves, PTL DEF Spec

\* Every handler writes rows of the right type, whatever overlaps.
THEOREM TypeCorrect == Spec => []TypeOK
<1>1. IInv => TypeOK
  BY DEF IInv
<1> QED
  BY <1>1, Invariant, PTL

\* A referral is rewarded at most once and with the amounts promised when its
\* customer joined, however many payments settle at the same time.
THEOREM RewardedOnceAsPromised == Spec => []RewardsMatchReferral
<1>1. IInv => RewardsMatchReferral
  BY DEF IInv, RewardInvariant
<1> QED
  BY <1>1, Invariant, PTL

\* No reward without a payment of the customer who joined that reached the
\* minimum, even when a stale answer of Stripe is recorded.
THEOREM OnlyPaidIsRewarded == Spec => []RewardIsPaidFor
<1>1. IInv => RewardIsPaidFor
  BY DEF IInv, RewardInvariant
<1> QED
  BY <1>1, Invariant, PTL
-----------------------------------------------------------------------------
(* What a customer redeems is covered by what was earned, as long as the   *)
(* customer's redemptions do not overlap: the check and the row that it    *)
(* admits are two steps, and between them only more can be earned.         *)

\* What was redeemed so far.
Drawn == {e \in Redemptions : Redeemed(e)}

\* No two requests redeem for one customer at the same time.
RedeemingAlone ==
  \A r, s \in Requests :
    r # s /\ IsAt(r, "redeem") /\ IsAt(s, "redeem") => req[r].user # req[s].user

\* A redemption that is still to be recorded is covered, too.
Funded(q) == q.op = "redeem" => q.amount <= AvailableCredit(q.user)

CreditInv ==
  /\ IInv
  /\ IsFiniteSet(earned)
  /\ IsFiniteSet(Drawn)
  /\ RedemptionIsCovered
  /\ \A r \in Requests : Funded(req[r])

\* A reward's rows: one, or two.
LEMMA RewardRowsAreFinite ==
  ASSUME NEW c \in Customers, NEW row \in Referral
  PROVE  IsFiniteSet(RewardRows(c, row))
<1> DEFINE First == [user |-> row.referrer, amount |-> row.reward, referred |-> c, role |-> "referrer"]
           Second(a) == [user |-> c, amount |-> a, referred |-> c, role |-> "friend"]
           Seconds == {Second(a) : a \in {row.friendReward} \ {0}}
<1>1. RewardRows(c, row) = {First} \cup Seconds
  BY DEF RewardRows
<1>2. Seconds = {} \/ Seconds = {Second(row.friendReward)}
  OBVIOUS
<1> HIDE DEF First, Second, Seconds
<1>3. IsFiniteSet({First}) /\ IsFiniteSet({Second(row.friendReward)})
  BY FS_Singleton
<1>4. IsFiniteSet(Seconds)
  BY <1>2, <1>3, FS_EmptySet
<1> QED
  BY <1>1, <1>3, <1>4, FS_Union

LEMMA EarnedIsSum ==
  ASSUME NEW c \in Customers, NEW rows, rows \subseteq EarnedRow, IsFiniteSet(rows), NEW A,
         A = [row \in EarnedRow |-> row.amount]
  PROVE  /\ SumFunction([row \in rows |-> row.amount]) = SumFunctionOnSet(A, rows)
         /\ SumFunctionOnSet(A, rows) \in Int
<1> DEFINE g == [row \in rows |-> row.amount]
<1>1. \A row \in rows : g[row] = A[row] /\ A[row] \in Int
  BY DEF EarnedRow
<1>2. SumFunction(g) = SumFunctionOnSet(g, rows)
  BY DEF SumFunction
<1>3. SumFunctionOnSet(g, rows) = SumFunctionOnSet(A, rows)
  <2> HIDE DEF g
  <2> QED
    BY <1>1, SumSame
<1>4. SumFunctionOnSet(A, rows) \in Int
  BY <1>1, SumType
<1> QED
  BY <1>2, <1>3, <1>4

\* More rows are more credit: amounts are never negative.
LEMMA EarnedGrows ==
  ASSUME IInv, IsFiniteSet(earned), earned \subseteq earned', earned' \subseteq EarnedRow,
         IsFiniteSet(earned'), NEW c \in Customers
  PROVE  EarnedBy(c) \in Int /\ EarnedBy(c)' \in Int /\ EarnedBy(c) <= EarnedBy(c)'
<1> PICK A : A = [row \in EarnedRow |-> row.amount]
  OBVIOUS
<1> PICK old, new : old = RewardsOf(c) /\ new = RewardsOf(c)'
  OBVIOUS
<1>1. old \subseteq earned /\ new \subseteq earned' /\ old \subseteq new /\ new \subseteq EarnedRow
  BY DEF RewardsOf
<1>2. IsFiniteSet(old) /\ IsFiniteSet(new) /\ old \subseteq EarnedRow
  BY <1>1, FS_Subset
<1>3. /\ SumFunction([row \in old |-> row.amount]) = SumFunctionOnSet(A, old)
      /\ SumFunctionOnSet(A, old) \in Int
      /\ SumFunction([row \in new |-> row.amount]) = SumFunctionOnSet(A, new)
      /\ SumFunctionOnSet(A, new) \in Int
  BY <1>1, <1>2, EarnedIsSum
<1>4. \A row \in new : A[row] \in Nat
  BY <1>1 DEF EarnedRow
<1>5. SumFunctionOnSet(A, old) <= SumFunctionOnSet(A, new)
  BY <1>1, <1>2, <1>4, SumOfPart
<1> QED
  BY <1>3, <1>5 DEF EarnedBy

LEMMA EarnedIsInt ==
  ASSUME IInv, IsFiniteSet(earned), NEW c \in Customers
  PROVE  EarnedBy(c) \in Int
<1> PICK A : A = [row \in EarnedRow |-> row.amount]
  OBVIOUS
<1>1. RewardsOf(c) \subseteq earned /\ RewardsOf(c) \subseteq EarnedRow
  BY DEF RewardsOf, IInv, TypeOK
<1>2. IsFiniteSet(RewardsOf(c))
  BY <1>1, FS_Subset
<1> QED
  BY <1>1, <1>2, EarnedIsSum DEF EarnedBy

LEMMA WithdrawnIsNatural == \A a \in Withdrawn : a \in Nat /\ a \in Int
BY RedeemedIsPositive

LEMMA RedeemedFields ==
  ASSUME NEW row \in RedeemedRow
  PROVE  /\ row # NotRedeemed
         /\ row.user \in Customers
         /\ row.amount \in Nat /\ row.amount \in Int
<1>1. row.user \in Customers /\ row.amount \in Withdrawn
  BY DEF RedeemedRow
<1>2. row.amount \in Nat
  BY <1>1, WithdrawnIsNatural
<1>3. DOMAIN row = {"user", "amount"} /\ DOMAIN NotRedeemed = {"user"}
  BY DEF RedeemedRow, NotRedeemed
<1> QED
  BY <1>1, <1>2, <1>3

LEMMA DrawnRow ==
  ASSUME IInv, NEW e \in Drawn
  PROVE  /\ redeemed[e].user \in Customers
         /\ redeemed[e].amount \in Nat /\ redeemed[e].amount \in Int
<1>1. redeemed[e] \in RedeemedRow
  BY DEF IInv, TypeOK, Drawn, Redeemed
<1> QED
  BY <1>1, RedeemedFields

LEMMA RedeemedIsInt ==
  ASSUME IInv, IsFiniteSet(Drawn), NEW c \in Customers
  PROVE  RedeemedBy(c) \in Int
<1> DEFINE f == [e \in RedemptionsOf(c) |-> redeemed[e].amount]
<1>1. RedemptionsOf(c) \subseteq Drawn
  BY DEF RedemptionsOf, Drawn
<1>2. IsFiniteSet(RedemptionsOf(c)) /\ \A e \in RedemptionsOf(c) : f[e] \in Int
  BY <1>1, FS_Subset, DrawnRow
<1>3. RedeemedBy(c) = SumFunctionOnSet(f, RedemptionsOf(c))
  BY DEF RedeemedBy, SumFunction
<1> HIDE DEF f
<1> QED
  BY <1>2, <1>3, SumType

\* A row that is written adds its amount to what its customer has redeemed.
LEMMA RedemptionAdds ==
  ASSUME IInv, IsFiniteSet(Drawn), NEW e \in Redemptions, ~Redeemed(e), NEW row \in RedeemedRow,
         redeemed' = [redeemed EXCEPT ![e] = row]
  PROVE  /\ IsFiniteSet(Drawn)'
         /\ RedeemedBy(row.user)' = RedeemedBy(row.user) + row.amount
         /\ \A c \in Customers \ {row.user} : RedeemedBy(c)' = RedeemedBy(c)
<1>1. /\ redeemed'[e] = row
      /\ \A d \in Redemptions \ {e} : redeemed'[d] = redeemed[d]
  BY DEF IInv, TypeOK
<1>2. row # NotRedeemed /\ row.user \in Customers /\ row.amount \in Int
  BY RedeemedFields
<1>3. Drawn' = Drawn \cup {e}
  BY <1>1, <1>2 DEF Drawn, Redeemed
<1>4. IsFiniteSet(Drawn)'
  BY <1>3, FS_AddElement
<1>5. ASSUME NEW c \in Customers \ {row.user} PROVE RedeemedBy(c)' = RedeemedBy(c)
  <2>1. RedemptionsOf(c)' = RedemptionsOf(c) /\ e \notin RedemptionsOf(c)
    BY <1>1, <1>2 DEF RedemptionsOf, Redeemed
  <2>2. \A d \in RedemptionsOf(c) : redeemed'[d] = redeemed[d]
    BY <1>1, <2>1 DEF RedemptionsOf
  <2>3. [d \in RedemptionsOf(c) |-> redeemed'[d].amount] = [d \in RedemptionsOf(c) |-> redeemed[d].amount]
    BY <2>2
  <2> QED
    BY <2>1, <2>3 DEF RedeemedBy
<1>6. RedeemedBy(row.user)' = RedeemedBy(row.user) + row.amount
  <2> PICK S : S = RedemptionsOf(row.user)
    OBVIOUS
  <2>1. RedemptionsOf(row.user)' = S \cup {e} /\ e \notin S /\ S \subseteq Drawn
    BY <1>1, <1>2 DEF RedemptionsOf, Redeemed, Drawn
  <2> DEFINE f == [d \in S |-> redeemed[d].amount]
             g == [d \in S \cup {e} |-> redeemed'[d].amount]
  <2>2. IsFiniteSet(S) /\ \A d \in S : f[d] \in Int
    BY <2>1, FS_Subset, DrawnRow
  <2>3. g[e] = row.amount /\ \A d \in S : g[d] = f[d]
    BY <1>1, <2>1 DEF Drawn
  <2>4. /\ RedeemedBy(row.user) = SumFunctionOnSet(f, S)
        /\ RedeemedBy(row.user)' = SumFunctionOnSet(g, S \cup {e})
    BY <2>1 DEF RedeemedBy, SumFunction
  <2> HIDE DEF f, g
  <2>5. \A d \in S \cup {e} : g[d] \in Int
    BY <1>2, <2>2, <2>3
  <2>6. SumFunctionOnSet(g, S \cup {e}) = SumFunctionOnSet(g, S) + g[e]
    BY <2>1, <2>2, <2>5, SumAdd
  <2>7. SumFunctionOnSet(g, S) = SumFunctionOnSet(f, S)
    BY <2>2, <2>3, SumSame
  <2> QED
    BY <2>3, <2>4, <2>6, <2>7
<1> QED
  BY <1>4, <1>5, <1>6

\* What covers a redemption goes on covering it while more is earned.
LEMMA CreditStays ==
  ASSUME CreditInv, IInv', UNCHANGED redeemed, earned \subseteq earned', IsFiniteSet(earned)'
  PROVE  /\ IsFiniteSet(Drawn)'
         /\ RedemptionIsCovered'
         /\ \A q \in AnyRequest : Funded(q) => Funded(q)'
<1>1. IInv /\ IsFiniteSet(earned) /\ IsFiniteSet(Drawn) /\ earned' \subseteq EarnedRow
  BY DEF CreditInv, IInv, TypeOK
<1>2. IsFiniteSet(Drawn)'
  BY <1>1 DEF Drawn, Redeemed
<1>3. ASSUME NEW c \in Customers
      PROVE  /\ EarnedBy(c) \in Int /\ EarnedBy(c)' \in Int /\ EarnedBy(c) <= EarnedBy(c)'
             /\ RedeemedBy(c) \in Int /\ RedeemedBy(c)' = RedeemedBy(c)
  <2>1. RedeemedBy(c)' = RedeemedBy(c)
    BY DEF RedeemedBy, RedemptionsOf, Redeemed
  <2>2. EarnedBy(c) \in Int /\ EarnedBy(c)' \in Int /\ EarnedBy(c) <= EarnedBy(c)'
    BY <1>1, EarnedGrows
  <2> QED
    BY <1>1, <2>1, <2>2, RedeemedIsInt
<1>4. RedemptionIsCovered'
  BY <1>3 DEF CreditInv, RedemptionIsCovered
<1>5. ASSUME NEW q \in AnyRequest, Funded(q), q.op = "redeem" PROVE Funded(q)'
  <2>1. q.user \in Customers /\ q.amount \in Withdrawn
    BY <1>5, RequestKind
  <2>2. q.amount \in Int
    BY <2>1, WithdrawnIsNatural
  <2> QED
    BY <1>3, <1>5, <2>1, <2>2 DEF Funded, AvailableCredit
<1> QED
  BY <1>2, <1>4, <1>5 DEF Funded

\* A step that records no redemption.
LEMMA RestPreserves ==
  ASSUME CreditInv, IInv', UNCHANGED redeemed, earned \subseteq earned', IsFiniteSet(earned)',
         \/ UNCHANGED req
         \/ \E r \in Requests, p \in AnyRequest : req' = [req EXCEPT ![r] = p] /\ Funded(p)
  PROVE  CreditInv'
<1>1. req \in [Requests -> AnyRequest] /\ \A s \in Requests : Funded(req[s])
  BY DEF CreditInv, IInv, TypeOK, AnyRequest
<1>2. ASSUME NEW s \in Requests PROVE Funded(req[s])'
  <2>1. PICK q \in AnyRequest : q = req'[s] /\ Funded(q)
    BY <1>1
  <2>2. Funded(q)'
    BY <2>1, CreditStays
  <2> QED
    BY <2>1, <2>2 DEF Funded
<1> QED
  BY <1>2, CreditStays DEF CreditInv

\* A step that neither earns nor redeems.
LEMMA NoMoneyPreserves ==
  ASSUME CreditInv, IInv', UNCHANGED <<redeemed, earned>>,
         \/ UNCHANGED req
         \/ \E r \in Requests, p \in AnyRequest : req' = [req EXCEPT ![r] = p] /\ Funded(p)
  PROVE  CreditInv'
<1>1. earned \subseteq earned' /\ IsFiniteSet(earned)'
  BY DEF CreditInv
<1> QED
  BY <1>1, RestPreserves

\* A request that is not on the way to a redemption.
LEMMA OtherRequests ==
  /\ Idle \in AnyRequest /\ Funded(Idle)
  /\ \A op \in Stages, p \in Payments :
       [op |-> op, payment |-> p] \in AnyRequest /\ Funded([op |-> op, payment |-> p])
  /\ \A p \in Payments, paid \in BOOLEAN :
       /\ [op |-> "record", payment |-> p, paid |-> paid] \in AnyRequest
       /\ Funded([op |-> "record", payment |-> p, paid |-> paid])
  /\ \A e \in Redemptions :
       [op |-> "credit", entry |-> e] \in AnyRequest /\ Funded([op |-> "credit", entry |-> e])
<1>1. Idle \in AnyRequest /\ Funded(Idle)
  BY IdleIsSound DEF Funded, Idle
<1>2. ASSUME NEW op \in Stages, NEW p \in Payments
      PROVE  [op |-> op, payment |-> p] \in AnyRequest /\ Funded([op |-> op, payment |-> p])
  BY StageIsARequest DEF Funded, Stages
<1>3. ASSUME NEW p \in Payments, NEW paid \in BOOLEAN
      PROVE  /\ [op |-> "record", payment |-> p, paid |-> paid] \in AnyRequest
             /\ Funded([op |-> "record", payment |-> p, paid |-> paid])
  BY DEF Funded, AnyRequest, SettleRequest
<1>4. ASSUME NEW e \in Redemptions
      PROVE  [op |-> "credit", entry |-> e] \in AnyRequest /\ Funded([op |-> "credit", entry |-> e])
  BY DEF Funded, AnyRequest, RedeemRequest
<1> QED
  BY <1>1, <1>2, <1>3, <1>4

LEMMA SettlingKeepsCredit ==
  ASSUME CreditInv, IInv', NEW r \in Requests, ProceedSettling(r)
  PROVE  CreditInv'
<1>0. IInv
  BY DEF CreditInv
<1>1. CASE RecordOutcome(r)
  <2>1. PICK q \in AnyRequest : q = req[r] /\ q.op = "record"
    BY <1>1 DEF CreditInv, IInv, TypeOK, AnyRequest, RecordOutcome, IsAt
  <2>2. q.payment \in Payments /\ "award" \in Stages
    BY <2>1, RequestKind DEF Stages
  <2> QED
    BY <1>1, <2>1, <2>2, OtherRequests, NoMoneyPreserves
       DEF RecordOutcome, NextStage, Continue, Finish, ledgers
<1>2. ASSUME NEW op \in Stages, IsAt(r, op), UNCHANGED ledgers,
             Finish(r) \/ \E next \in Stages : NextStage(r, next)
      PROVE  CreditInv'
  <2>1. req[r].payment \in Payments
    BY <1>0, <1>2, AtStage
  <2> QED
    BY <1>2, <2>1, OtherRequests, NoMoneyPreserves DEF NextStage, Continue, Finish, ledgers
<1>3. CASE ReadReferral(r) \/ Judge(r) \/ LookForReward(r)
  BY <1>2, <1>3 DEF ReadReferral, Judge, LookForReward, Stages
<1>4. CASE Expire(r)
  BY <1>2, <1>4 DEF Expire, Stages
<1>5. CASE Reward(r)
  <2> PICK c, rows : c = Payer[req[r].payment] /\ rows = RewardRows(c, referral[c])
    OBVIOUS
  <2>1. IsAt(r, "reward") /\ Finish(r) /\ UNCHANGED redeemed
    BY <1>5 DEF Reward
  <2>2. c \in Customers /\ referral[c] \in Referral
    BY <1>0, <2>1, AtStage DEF Stages
  <2>3. IsFiniteSet(rows)
    BY <2>2, RewardRowsAreFinite
  <2>4. earned' = earned \cup rows \/ earned' = earned
    BY <1>5 DEF Reward
  <2>5. earned \subseteq earned' /\ IsFiniteSet(earned)'
    <3>1. IsFiniteSet(earned) /\ IsFiniteSet(earned \cup rows)
      BY <2>3, FS_Union DEF CreditInv
    <3> QED
      BY <2>4, <3>1
  <2>6. \E p \in AnyRequest : req' = [req EXCEPT ![r] = p] /\ Funded(p)
    BY <2>1, OtherRequests DEF Finish
  <2> QED
    BY <2>1, <2>5, <2>6, RestPreserves
<1> QED
  BY <1>1, <1>3, <1>4, <1>5 DEF ProceedSettling

LEMMA RedeemBeginKeepsCredit ==
  ASSUME CreditInv, IInv', NEW r \in Requests, NEW c \in Customers, NEW amount \in Withdrawn,
         RedeemBegin(r, c, amount)
  PROVE  CreditInv'
<1> DEFINE q == [op |-> "redeem", user |-> c, amount |-> amount]
<1>1. q \in AnyRequest
  BY DEF AnyRequest, RedeemRequest
<1>2. Funded(q)
  BY DEF Funded, RedeemBegin
<1>3. req' = [req EXCEPT ![r] = q] /\ UNCHANGED <<redeemed, earned>>
  BY DEF RedeemBegin, Start, ledgers
<1> QED
  BY <1>1, <1>2, <1>3, NoMoneyPreserves

\* The row that was admitted is covered; nobody else was about to use the same credit.
LEMMA RecordKeepsCredit ==
  ASSUME CreditInv, IInv', RedeemingAlone, NEW r \in Requests, NEW e \in Redemptions,
         RecordRedemption(r, e)
  PROVE  CreditInv'
<1>0. IInv /\ IsFiniteSet(earned) /\ IsFiniteSet(Drawn) /\ req \in [Requests -> AnyRequest]
  BY DEF CreditInv, IInv, TypeOK, AnyRequest
<1>1. PICK q \in AnyRequest : q = req[r] /\ q.op = "redeem" /\ Funded(q)
  BY <1>0 DEF CreditInv, RecordRedemption, IsAt
<1>2. q.user \in Customers /\ q.amount \in Withdrawn
  BY <1>1, RequestKind
<1> DEFINE row == [user |-> q.user, amount |-> q.amount]
<1>3. row \in RedeemedRow /\ row.user = q.user /\ row.amount = q.amount
  BY <1>2 DEF RedeemedRow
<1>4. ~Redeemed(e) /\ redeemed' = [redeemed EXCEPT ![e] = row]
  BY <1>1 DEF RecordRedemption
<1>5. /\ earned' = earned
      /\ req' = [req EXCEPT ![r] = [op |-> "credit", entry |-> e]]
  BY DEF RecordRedemption, Continue
<1> HIDE DEF row
<1>6. /\ IsFiniteSet(Drawn)'
      /\ RedeemedBy(q.user)' = RedeemedBy(q.user) + q.amount
      /\ \A c \in Customers \ {q.user} : RedeemedBy(c)' = RedeemedBy(c)
  BY <1>0, <1>3, <1>4, RedemptionAdds
<1>7. q.amount \in Int /\ \A c \in Customers :
        /\ EarnedBy(c) \in Int /\ RedeemedBy(c) \in Int
        /\ EarnedBy(c)' = EarnedBy(c)
  <2>1. q.amount \in Int
    BY <1>3, RedeemedFields
  <2>2. \A c \in Customers : EarnedBy(c) \in Int /\ RedeemedBy(c) \in Int
    BY <1>0, EarnedIsInt, RedeemedIsInt
  <2>3. \A c \in Customers : EarnedBy(c)' = EarnedBy(c)
    BY <1>5 DEF EarnedBy, RewardsOf
  <2> QED
    BY <2>1, <2>2, <2>3
<1>8. RedemptionIsCovered'
  <2>1. q.amount <= EarnedBy(q.user) - RedeemedBy(q.user)
    BY <1>1 DEF Funded, AvailableCredit
  <2>2. ASSUME NEW c \in Customers PROVE RedeemedBy(c)' <= EarnedBy(c)'
    <3>1. CASE c = q.user
      BY <1>2, <1>6, <1>7, <2>1, <3>1
    <3>2. CASE c # q.user
      BY <1>6, <1>7, <3>2 DEF CreditInv, RedemptionIsCovered
    <3> QED
      BY <3>1, <3>2
  <2> QED
    BY <2>2 DEF RedemptionIsCovered
<1>9. ASSUME NEW s \in Requests PROVE Funded(req[s])'
  <2>1. CASE s = r
    BY <1>0, <1>5, <2>1 DEF Funded
  <2>2. CASE s # r
    <3>1. PICK p \in AnyRequest : p = req[s] /\ Funded(p) /\ req'[s] = p
      BY <1>0, <1>5, <2>2 DEF CreditInv
    <3>2. CASE p.op = "redeem"
      <4>1. p.user # q.user /\ p.user \in Customers
        BY <1>1, <2>2, <3>1, <3>2, RequestKind DEF RedeemingAlone, IsAt
      <4>2. AvailableCredit(p.user)' = AvailableCredit(p.user)
        BY <1>6, <1>7, <4>1 DEF AvailableCredit
      <4> QED
        BY <3>1, <3>2, <4>2 DEF Funded
    <3> QED
      BY <3>1, <3>2 DEF Funded
  <2> QED
    BY <2>1, <2>2
<1> QED
  BY <1>0, <1>5, <1>6, <1>8, <1>9 DEF CreditInv

LEMMA CreditStep == CreditInv /\ RedeemingAlone /\ [Next]_vars => CreditInv'
<1> SUFFICES ASSUME CreditInv, RedeemingAlone, [Next]_vars PROVE CreditInv'
  OBVIOUS
<1>0. IInv'
  BY NextPreserves DEF CreditInv
<1>1. ASSUME UNCHANGED <<redeemed, earned, req>> PROVE CreditInv'
  BY <1>0, <1>1, NoMoneyPreserves
<1>2. CASE UNCHANGED vars
  BY <1>1, <1>2 DEF vars, ledgers
<1>3. CASE \/ \E row \in SettingsRows : UpdateSettings(row)
           \/ \E c \in Customers : SignUp(c) \/ Lapse(c) \/ \E d \in Customers : SignUpWithCode(c, d)
           \/ \E p \in Payments : Charge(p)
  BY <1>1, <1>3 DEF UpdateSettings, SignUp, Lapse, SignUpWithCode, Charge, ledgers
<1>4. ASSUME NEW r \in Settlers, NEW p \in Payments, SettleBegin(r, p) PROVE CreditInv'
  <2>1. /\ r \in Requests /\ (p \in charged) \in BOOLEAN
        /\ req' = [req EXCEPT ![r] = [op |-> "record", payment |-> p, paid |-> p \in charged]]
        /\ UNCHANGED <<redeemed, earned>>
    BY <1>4 DEF SettleBegin, Start, ledgers, Requests
  <2> QED
    BY <1>0, <2>1, OtherRequests, NoMoneyPreserves
<1>5. ASSUME NEW r \in Settlers, ProceedSettling(r) PROVE CreditInv'
  BY <1>0, <1>5, SettlingKeepsCredit DEF Requests
<1>6. ASSUME NEW r \in Redeemers, ProceedRedeeming(r) PROVE CreditInv'
  <2>1. CASE CreditRedemption(r)
    BY <1>0, <2>1, OtherRequests, NoMoneyPreserves DEF CreditRedemption, Finish, Requests
  <2>2. ASSUME NEW e \in Redemptions, RecordRedemption(r, e) PROVE CreditInv'
    BY <1>0, <2>2, RecordKeepsCredit DEF Requests
  <2> QED
    BY <1>6, <2>1, <2>2 DEF ProceedRedeeming
<1>7. ASSUME NEW r \in Redeemers, NEW c \in Customers, NEW amount \in Withdrawn,
             RedeemBegin(r, c, amount)
      PROVE  CreditInv'
  BY <1>0, <1>7, RedeemBeginKeepsCredit DEF Requests
<1>8. ASSUME NEW r \in Requests, Fail(r) PROVE CreditInv'
  BY <1>0, <1>8, OtherRequests, NoMoneyPreserves DEF Fail, Finish, ledgers
<1> QED
  BY <1>2, <1>3, <1>4, <1>5, <1>6, <1>7, <1>8, Zenon DEF Next

LEMMA CreditStart == Init => CreditInv
<1> SUFFICES ASSUME Init PROVE CreditInv
  OBVIOUS
<1>1. IInv
  BY Initially
<1>2. earned = {} /\ Drawn = {} /\ \A r \in Requests : Funded(req[r])
  BY DEF Init, Drawn, Redeemed, Funded, Idle
<1>3. \A c \in Customers : RewardsOf(c) = {} /\ RedemptionsOf(c) = {}
  BY <1>2 DEF RewardsOf, RedemptionsOf, Drawn
<1>4. ASSUME NEW c \in Customers PROVE EarnedBy(c) = 0 /\ RedeemedBy(c) = 0
  <2> DEFINE f == [row \in {} |-> row.amount]
             g == [e \in {} |-> redeemed[e].amount]
  <2>1. EarnedBy(c) = SumFunctionOnSet(f, {}) /\ RedeemedBy(c) = SumFunctionOnSet(g, {})
    BY <1>3 DEF EarnedBy, RedeemedBy, SumFunction
  <2> HIDE DEF f, g
  <2> QED
    BY <2>1, SumEmpty
<1> QED
  BY <1>1, <1>2, <1>4, FS_EmptySet DEF CreditInv, RedemptionIsCovered

\* However many customers redeem at once, no customer redeems more than was
\* earned, unless two redemptions of the same customer overlap.
THEOREM RedeemingAloneIsCovered == Spec /\ []RedeemingAlone => []RedemptionIsCovered
<1>1. CreditInv => RedemptionIsCovered
  BY DEF CreditInv
<1> QED
  BY <1>1, CreditStart, CreditStep, PTL DEF Spec
=============================================================================
