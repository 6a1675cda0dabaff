------------------------------ MODULE Payouts ------------------------------
(***************************************************************************)
(* Provider payouts: a provider withdraws earnings from its wallet to a    *)
(* payout method, may cancel the request, and an administrator approves,   *)
(* holds or rejects it; and the payout methods themselves, which are       *)
(* added, submitted for verification, disabled, made the default and       *)
(* deleted meanwhile.                                                      *)
(*                                                                         *)
(* As in OrderMoney a handler is a request that reads, decides and commits *)
(* in a later step.  The status of a payout is checked on the row read     *)
(* first and written unconditionally; the debit's row in the ledger is     *)
(* only voided while it is still pending, and the wallet is credited by a  *)
(* relative update.                                                        *)
(***************************************************************************)
EXTENDS Integers, Functions

CONSTANTS
    Providers,  \* provider ids; a provider's id also names its wallet
    Keys,       \* idempotency keys of payout requests, which name the payouts
    Methods,    \* ids of payout methods
    Amounts,    \* amounts a payout or an earning can have, in cents
    MaxEarned,  \* bound: no provider earns more than this
    Requests    \* the handlers that can be in flight at the same time

ASSUME AmountsArePositive == Amounts \subseteq Nat \ {0} /\ MaxEarned \in Nat

VARIABLES
    balance,  \* Wallet.balance of each provider's wallet
    earned,   \* what order earnings have credited to each wallet so far
    payout,   \* payout[k]: the WalletWithdrawal row with key k and its debit
    method,   \* method[m]: the ProviderPayoutMethod row
    req       \* req[r]: where request r is, and what it has read

vars == <<balance, earned, payout, method, req>>

-----------------------------------------------------------------------------
(* The rows.                                                               *)

PayoutStatus ==
    {"PENDING", "PROCESSING", "ON_HOLD", "COMPLETED", "FAILED", "CANCELLED", "REJECTED"}
Active == {"PENDING", "PROCESSING", "ON_HOLD"}

NotRequested == [status |-> "NONE"]
\* debit: the status of the WITHDRAWAL ledger row created with the payout.
PayoutRow ==
    [status : PayoutStatus, provider : Providers, method : Methods, amount : Amounts,
     debit : {"PENDING", "CANCELLED"}]

NotAdded == [exists |-> FALSE]
MethodRow ==
    [exists : {TRUE}, provider : Providers, verified : BOOLEAN, active : BOOLEAN,
     default : BOOLEAN, deleted : BOOLEAN]

Requested(k) == payout[k] # NotRequested
InUse(m) == \E k \in Keys : payout[k].status \in Active /\ payout[k].method = m
Findable(m) == method[m].exists /\ ~method[m].deleted
Payable(m) == Findable(m) /\ method[m].verified /\ method[m].active
IsDefault(m) == method[m].exists /\ method[m].default

-----------------------------------------------------------------------------
(* The requests.                                                           *)

Idle == [op |-> "idle"]
Transfer == [provider : Providers, key : Keys, method : Methods, amount : Amounts]
Request ==
    {Idle}
      \cup [op : {"preview", "create"}, transfer : Transfer]
      \cup [op : {"cancel"}, key : Keys]
      \cup [op : {"review"}, key : Keys, status : {"PROCESSING", "ON_HOLD", "REJECTED"}]
      \cup [op : {"edit"}, method : Methods, active : BOOLEAN]
      \cup [op : {"submit", "default"}, method : Methods]
      \cup [op : {"makeDefault"}, method : Methods, seen : SUBSET Methods]
      \cup [op : {"delete", "remove"}, method : Methods, promote : BOOLEAN]

IsAt(r, op) == req[r].op = op
Start(r, record) == req[r] = Idle /\ req' = [req EXCEPT ![r] = record]
Continue(r, record) == req' = [req EXCEPT ![r] = record]
Finish(r) == req' = [req EXCEPT ![r] = Idle]

Init ==
    /\ balance = [p \in Providers |-> 0]
    /\ earned = [p \in Providers |-> 0]
    /\ payout = [k \in Keys |-> NotRequested]
    /\ method = [m \in Methods |-> NotAdded]
    /\ req = [r \in Requests |-> Idle]

-----------------------------------------------------------------------------
(* Earnings arrive: upsertOrderEarningLedger, seen from the wallet.        *)

Earn(p, amount) ==
    /\ earned[p] + amount <= MaxEarned
    /\ earned' = [earned EXCEPT ![p] = @ + amount]
    /\ balance' = [balance EXCEPT ![p] = @ + amount]
    /\ UNCHANGED <<payout, method, req>>

-----------------------------------------------------------------------------
(* requestPayout.                                                          *)

\* The reads of requestPayout and preview: no payout of the provider has the
\* key, the wallet covers the amount, the method can be paid to.
RequestBegin(r, transfer) ==
    LET p == transfer.provider
    IN  /\ ~(Requested(transfer.key) /\ payout[transfer.key].provider = p)
        /\ transfer.amount <= balance[p]
        /\ Payable(transfer.method)
        /\ method[transfer.method].provider = p
        /\ Start(r, [op |-> "preview", transfer |-> transfer])
        /\ UNCHANGED <<balance, earned, payout, method>>

\* Mutant: only the key is checked, not the payouts of the method.
MutantCheckActive(r) ==
    /\ IsAt(r, "preview")
    /\ Continue(r, [op |-> "create", transfer |-> req[r].transfer])
    /\ UNCHANGED <<balance, earned, payout, method>>

\* findActivePayoutForMethod, a query of its own.
RequestCheckActive(r) ==
    /\ IsAt(r, "preview")
    /\ ~InUse(req[r].transfer.method)
    /\ Continue(r, [op |-> "create", transfer |-> req[r].transfer])
    /\ UNCHANGED <<balance, earned, payout, method>>

NewPayout(t) ==
    [status |-> "PENDING", provider |-> t.provider, method |-> t.method, amount |-> t.amount,
     debit |-> "PENDING"]

\* Mutant: no unique index on the idempotency key.
MutantRequestCommit(r) ==
    LET t == req[r].transfer
    IN  /\ IsAt(r, "create")
        /\ payout' = [payout EXCEPT ![t.key] = NewPayout(t)]
        /\ balance' = [balance EXCEPT ![t.provider] = @ - t.amount]
        /\ Finish(r)
        /\ UNCHANGED <<earned, method>>

\* createPayoutRequest: the unique index on idempotencyKey rolls back the
\* second of two requests with one key (Fail).
RequestCommit(r) ==
    LET t == req[r].transfer
    IN  /\ IsAt(r, "create")
        /\ ~Requested(t.key)
        /\ payout' = [payout EXCEPT ![t.key] = NewPayout(t)]
        /\ balance' = [balance EXCEPT ![t.provider] = @ - t.amount]
        /\ Finish(r)
        /\ UNCHANGED <<earned, method>>

-----------------------------------------------------------------------------
(* cancelPayout by the provider; approve, hold and reject by an            *)
(* administrator.  All read the payout first and write it later.           *)

\* The ledger row is voided only while it is pending; the balance is credited
\* whatever the row was.
Release(row, status) == [row EXCEPT !.status = status, !.debit = "CANCELLED"]
Mark(row, status) == [row EXCEPT !.status = status]

\* Mutant: the debit is voided without crediting the wallet.
MutantRefund(k) == balance' = [balance EXCEPT ![payout[k].provider] = @ + 0]

Refund(k) == balance' = [balance EXCEPT ![payout[k].provider] = @ + payout[k].amount]

\* Mutant: any payout can be cancelled, at any time.
MutantCancelBegin(r, k) ==
    /\ Requested(k)
    /\ Start(r, [op |-> "cancel", key |-> k])
    /\ UNCHANGED <<balance, earned, payout, method>>

CancelBegin(r, k) ==
    /\ payout[k].status = "PENDING"
    /\ Start(r, [op |-> "cancel", key |-> k])
    /\ UNCHANGED <<balance, earned, payout, method>>

CancelCommit(r) ==
    LET k == req[r].key
    IN  /\ IsAt(r, "cancel")
        /\ payout' = [payout EXCEPT ![k] = Release(@, "CANCELLED")]
        /\ Refund(k)
        /\ Finish(r)
        /\ UNCHANGED <<earned, method>>

\* From which statuses each review may start; a payout already approved is
\* answered without a write.
Reviewable(status) == IF status = "ON_HOLD" THEN {"PENDING"} ELSE {"PENDING", "ON_HOLD"}

ReviewBegin(r, k, status) ==
    /\ payout[k].status \in Reviewable(status)
    /\ Start(r, [op |-> "review", key |-> k, status |-> status])
    /\ UNCHANGED <<balance, earned, payout, method>>

\* transitionPayout: only a rejection releases the debit.
ReviewCommit(r) ==
    LET q == req[r]
    IN  /\ IsAt(r, "review")
        /\ \/ /\ q.status = "REJECTED"
              /\ payout' = [payout EXCEPT ![q.key] = Release(@, "REJECTED")]
              /\ Refund(q.key)
           \/ /\ q.status # "REJECTED"
              /\ payout' = [payout EXCEPT ![q.key] = Mark(@, q.status)]
              /\ UNCHANGED balance
        /\ Finish(r)
        /\ UNCHANGED <<earned, method>>

-----------------------------------------------------------------------------
(* Payout methods.                                                         *)

WithActive(row, active) == [row EXCEPT !.active = active]
WithVerified(row, verified) == [row EXCEPT !.verified = verified]
WithDefault(row, default) == [row EXCEPT !.default = default]

\* Mutant: the default flag of the deleted method is left set.
MutantDeleted(row) == [row EXCEPT !.deleted = TRUE, !.active = FALSE]

Deleted(row) == [row EXCEPT !.deleted = TRUE, !.active = FALSE, !.default = FALSE]

\* createBankAccount: the (provider, fingerprint) index keeps deleted rows
\* too, so a method is added once.
AddMethod(m, p) ==
    /\ method[m] = NotAdded
    /\ method' = [method EXCEPT ![m] =
                     [exists |-> TRUE, provider |-> p, verified |-> FALSE, active |-> TRUE,
                      default |-> FALSE, deleted |-> FALSE]]
    /\ UNCHANGED <<balance, earned, payout, req>>

\* No code in the repository sets VERIFIED: it is done in the database.
Verified(m) ==
    /\ method[m].exists
    /\ method' = [method EXCEPT ![m] = WithVerified(@, TRUE)]
    /\ UNCHANGED <<balance, earned, payout, req>>

EditBegin(r, m, active) ==
    /\ Findable(m)
    /\ Start(r, [op |-> "edit", method |-> m, active |-> active])
    /\ UNCHANGED <<balance, earned, payout, method>>

EditCommit(r) ==
    /\ IsAt(r, "edit")
    /\ method' = [method EXCEPT ![req[r].method] = WithActive(@, req[r].active)]
    /\ Finish(r)
    /\ UNCHANGED <<balance, earned, payout>>

\* verify: the provider submits the method again, which resets it to PENDING.
SubmitBegin(r, m) ==
    /\ Findable(m)
    /\ Start(r, [op |-> "submit", method |-> m])
    /\ UNCHANGED <<balance, earned, payout, method>>

SubmitCommit(r) ==
    /\ IsAt(r, "submit")
    /\ method' = [method EXCEPT ![req[r].method] = WithVerified(@, FALSE)]
    /\ Finish(r)
    /\ UNCHANGED <<balance, earned, payout>>

DefaultBegin(r, m) ==
    /\ Payable(m)
    /\ Start(r, [op |-> "default", method |-> m])
    /\ UNCHANGED <<balance, earned, payout, method>>

\* The updateMany of setDefault clears the rows its snapshot shows as default.
DefaultClear(r) ==
    LET m == req[r].method
        seen == {n \in Methods : IsDefault(n) /\ method[n].provider = method[m].provider}
    IN  /\ IsAt(r, "default")
        /\ Continue(r, [op |-> "makeDefault", method |-> m, seen |-> seen])
        /\ UNCHANGED <<balance, earned, payout, method>>

DefaultCommit(r) ==
    LET q == req[r]
    IN  /\ IsAt(r, "makeDefault")
        /\ method' = [m \in Methods |->
                        IF m = q.method THEN WithDefault(method[m], TRUE)
                        ELSE IF m \in q.seen THEN WithDefault(method[m], FALSE)
                        ELSE method[m]]
        /\ Finish(r)
        /\ UNCHANGED <<balance, earned, payout>>

DeleteBegin(r, m) ==
    /\ Findable(m)
    /\ Start(r, [op |-> "delete", method |-> m, promote |-> method[m].default])
    /\ UNCHANGED <<balance, earned, payout, method>>

\* Mutant: a method is deleted whether payouts use it or not.
MutantDeleteCheck(r) ==
    /\ IsAt(r, "delete")
    /\ Continue(r, [op |-> "remove", method |-> req[r].method, promote |-> req[r].promote])
    /\ UNCHANGED <<balance, earned, payout, method>>

\* assertNoPendingPayoutUsage.
DeleteCheck(r) ==
    /\ IsAt(r, "delete")
    /\ ~InUse(req[r].method)
    /\ Continue(r, [op |-> "remove", method |-> req[r].method, promote |-> req[r].promote])
    /\ UNCHANGED <<balance, earned, payout, method>>

\* deleteAndPromoteNextDefault.  The newest payable method is promoted; which
\* one that is makes no difference here.
DeleteCommit(r) ==
    LET q == req[r]
        removed == [method EXCEPT ![q.method] = Deleted(@)]
        candidates == {n \in Methods \ {q.method} :
                         Payable(n) /\ method[n].provider = method[q.method].provider}
    IN  /\ IsAt(r, "remove")
        /\ \/ /\ ~q.promote \/ candidates = {}
              /\ method' = removed
           \/ /\ q.promote
              /\ \E n \in candidates : method' = [removed EXCEPT ![n] = WithDefault(@, TRUE)]
        /\ Finish(r)
        /\ UNCHANGED <<balance, earned, payout>>

-----------------------------------------------------------------------------
\* A request ends without its next write: refused, rolled back or crashed.
Fail(r) ==
    /\ req[r] # Idle
    /\ Finish(r)
    /\ UNCHANGED <<balance, earned, payout, method>>

\* What a request does by itself once it has started.
Proceed(r) ==
    \/ RequestCheckActive(r) \/ RequestCommit(r)
    \/ CancelCommit(r) \/ ReviewCommit(r)
    \/ EditCommit(r) \/ SubmitCommit(r)
    \/ DefaultClear(r) \/ DefaultCommit(r)
    \/ DeleteCheck(r) \/ DeleteCommit(r)
    \/ Fail(r)

Next ==
    \/ \E r \in Requests :
         \/ \E transfer \in Transfer : RequestBegin(r, transfer)
         \/ \E k \in Keys : CancelBegin(r, k)
         \/ \E k \in Keys, status \in {"PROCESSING", "ON_HOLD", "REJECTED"} :
              ReviewBegin(r, k, status)
         \/ \E m \in Methods, active \in BOOLEAN : EditBegin(r, m, active)
         \/ \E m \in Methods : SubmitBegin(r, m) \/ DefaultBegin(r, m) \/ DeleteBegin(r, m)
         \/ Proceed(r)
    \/ \E p \in Providers, amount \in Amounts : Earn(p, amount)
    \/ \E m \in Methods, p \in Providers : AddMethod(m, p)
    \/ \E m \in Methods : Verified(m)

Spec == Init /\ [][Next]_vars

\* The event loop runs every handler that has started to its end.
FairSpec == Spec /\ \A r \in Requests : WF_vars(Proceed(r))

-----------------------------------------------------------------------------
(* Properties.                                                             *)

\* Every variable holds a row or a request of its type.
TypeOK ==
    /\ balance \in [Providers -> Int]
    /\ earned \in [Providers -> Nat]
    /\ payout \in [Keys -> {NotRequested} \cup PayoutRow]
    /\ method \in [Methods -> {NotAdded} \cup MethodRow]
    /\ req \in [Requests -> Request]

PendingDebits(p) ==
    {k \in Keys : Requested(k) /\ payout[k].provider = p /\ payout[k].debit = "PENDING"}
Outstanding(p) == SumFunction([k \in PendingDebits(p) |-> payout[k].amount])

\* Whatever cancellations and reviews overlap, a provider's earnings are in its
\* wallet or in a payout whose debit is still pending: nothing is lost.
NothingIsLost == \A p \in Providers : balance[p] + Outstanding(p) >= earned[p]

\* A wallet goes down only for a payout created in that step, by its amount: no
\* retry, review or cancellation takes a provider's money.
DebitedOnce ==
    [][\A p \in Providers : balance'[p] < balance[p] =>
         \E k \in Keys : /\ ~Requested(k) /\ Requested(k)'
                         /\ payout'[k].provider = p
                         /\ balance'[p] = balance[p] - payout'[k].amount]_vars

\* Balances are backed by ledger entries: what a provider can withdraw is what
\* it earned less its pending debits, and never less than nothing.
BalanceIsExact ==
    \A p \in Providers : balance[p] = earned[p] - Outstanding(p) /\ balance[p] >= 0

\* An active payout is funded, by a debit that has not been voided, and its
\* destination has not been deleted.
ActiveIsBacked ==
    \A k \in Keys : payout[k].status \in Active =>
      payout[k].debit = "PENDING" /\ Findable(payout[k].method)

\* A payout method has at most one active payout.
OnePayoutPerMethod ==
    \A j, k \in Keys :
      /\ payout[j].status \in Active
      /\ payout[k].status \in Active
      /\ payout[j].method = payout[k].method
      => j = k

\* A provider has at most one default method, and it is not a deleted one.
OneDefault ==
    /\ \A m \in Methods : IsDefault(m) => ~method[m].deleted
    /\ \A m, n \in Methods :
         IsDefault(m) /\ IsDefault(n) /\ method[m].provider = method[n].provider => m = n

\* "Only PENDING or ON_HOLD payout can be approved".
OnlyOpenIsApproved ==
    [][\A k \in Keys :
         payout'[k].status = "PROCESSING" /\ payout[k].status # "PROCESSING"
           => payout[k].status \in {"PENDING", "ON_HOLD"}]_vars

\* An approved payout is completed or fails, in the end.
ApprovedSettles ==
    \A k \in Keys :
      payout[k].status = "PROCESSING" ~> payout[k].status \in {"COMPLETED", "FAILED"}
=============================================================================
