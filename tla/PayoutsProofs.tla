--------------------------- MODULE PayoutsProofs ---------------------------
(***************************************************************************)
(* Proofs about Payouts for every set of providers, keys, methods, amounts *)
(* and requests: first whatever the requests interleave, then what more is *)
(* true when they run one at a time.                                       *)
(***************************************************************************)
EXTENDS Payouts, SumLemmas

-----------------------------------------------------------------------------
(* What the helpers return.                                                *)

LEMMA ReleasedRow ==
  ASSUME NEW row \in PayoutRow, NEW s \in PayoutStatus
  PROVE  /\ Release(row, s) \in PayoutRow
         /\ Release(row, s).status = s
         /\ Release(row, s).provider = row.provider
         /\ Release(row, s).method = row.method
         /\ Release(row, s).debit = "CANCELLED"
BY Zenon DEF Release, PayoutRow

LEMMA MarkedRow ==
  ASSUME NEW row \in PayoutRow, NEW s \in PayoutStatus
  PROVE  /\ Mark(row, s) \in PayoutRow
         /\ Mark(row, s).status = s
         /\ Mark(row, s).provider = row.provider
         /\ Mark(row, s).method = row.method
         /\ Mark(row, s).amount = row.amount
         /\ Mark(row, s).debit = row.debit
BY Zenon DEF Mark, PayoutRow

LEMMA FlaggedRow ==
  ASSUME NEW row \in MethodRow, NEW flag \in BOOLEAN
  PROVE  /\ WithActive(row, flag) \in MethodRow
         /\ WithActive(row, flag).exists
         /\ WithActive(row, flag).provider = row.provider
         /\ WithActive(row, flag).default = row.default
         /\ WithActive(row, flag).deleted = row.deleted
         /\ WithVerified(row, flag) \in MethodRow
         /\ WithVerified(row, flag).exists
         /\ WithVerified(row, flag).provider = row.provider
         /\ WithVerified(row, flag).default = row.default
         /\ WithVerified(row, flag).deleted = row.deleted
<1>1. row.exists = TRUE
  BY DEF MethodRow
<1>2. /\ WithActive(row, flag) \in MethodRow
      /\ WithActive(row, flag).provider = row.provider
      /\ WithActive(row, flag).default = row.default
      /\ WithActive(row, flag).deleted = row.deleted
  BY Zenon DEF WithActive, MethodRow
<1>3. /\ WithVerified(row, flag) \in MethodRow
      /\ WithVerified(row, flag).provider = row.provider
      /\ WithVerified(row, flag).default = row.default
      /\ WithVerified(row, flag).deleted = row.deleted
  BY Zenon DEF WithVerified, MethodRow
<1> QED
  BY <1>2, <1>3 DEF MethodRow

LEMMA DefaultRow ==
  ASSUME NEW row \in MethodRow, NEW flag \in BOOLEAN
  PROVE  /\ WithDefault(row, flag) \in MethodRow
         /\ WithDefault(row, flag).exists
         /\ WithDefault(row, flag).provider = row.provider
         /\ WithDefault(row, flag).default = flag
         /\ WithDefault(row, flag).deleted = row.deleted
<1>1. /\ WithDefault(row, flag) \in MethodRow
      /\ WithDefault(row, flag).provider = row.provider
      /\ WithDefault(row, flag).default = flag
      /\ WithDefault(row, flag).deleted = row.deleted
  BY Zenon DEF WithDefault, MethodRow
<1> QED
  BY <1>1 DEF MethodRow

LEMMA DeletedRow ==
  ASSUME NEW row \in MethodRow
  PROVE  /\ Deleted(row) \in MethodRow
         /\ Deleted(row).exists
         /\ Deleted(row).provider = row.provider
         /\ Deleted(row).default = FALSE
         /\ Deleted(row).deleted
<1>1. Deleted(row) \in MethodRow
  BY Zenon DEF Deleted, MethodRow
<1>2. Deleted(row).provider = row.provider
  BY Zenon DEF Deleted, MethodRow
<1>3. Deleted(row).default = FALSE
  BY Zenon DEF Deleted, MethodRow
<1>4. Deleted(row).deleted = TRUE
  BY Zenon DEF Deleted, MethodRow
<1> QED
  BY <1>1, <1>2, <1>3, <1>4 DEF MethodRow

\* A request's tag tells what it holds.
LEMMA RequestKind ==
  ASSUME NEW q \in Request
  PROVE  /\ q.op \in {"preview", "create"} => q.transfer \in Transfer
         /\ q.op \in {"cancel", "review"} => q.key \in Keys
         /\ q.op = "review" => q.status \in {"PROCESSING", "ON_HOLD", "REJECTED"}
         /\ q.op \in {"edit", "submit", "default", "makeDefault", "delete", "remove"}
              => q.method \in Methods
         /\ q.op = "edit" => q.active \in BOOLEAN
         /\ q.op = "makeDefault" => q.seen \in SUBSET Methods
         /\ q.op \in {"delete", "remove"} => q.promote \in BOOLEAN
BY DEF Request, Idle

LEMMA AmountIsPositive ==
  ASSUME NEW a \in Amounts
  PROVE  a \in Int /\ a > 0
BY AmountsArePositive

\* Crediting or debiting a wallet keeps the balances integers.
LEMMA MovedBalance ==
  ASSUME NEW f \in [Providers -> Int], NEW p \in Providers, NEW x \in Int
  PROVE  /\ [f EXCEPT ![p] = @ + x] \in [Providers -> Int]
         /\ [f EXCEPT ![p] = @ - x] \in [Providers -> Int]
OBVIOUS

LEMMA NewPayoutRow ==
  ASSUME NEW t \in Transfer
  PROVE  /\ NewPayout(t) \in PayoutRow
         /\ NewPayout(t).status = "PENDING"
         /\ NewPayout(t).provider = t.provider
         /\ NewPayout(t).method = t.method
         /\ NewPayout(t).amount = t.amount
         /\ NewPayout(t).debit = "PENDING"
BY DEF NewPayout, PayoutRow, PayoutStatus, Transfer

\* A row is told from the absence of one.
LEMMA RowIsRequested ==
  ASSUME NEW row \in PayoutRow
  PROVE  row # NotRequested
BY DEF PayoutRow, NotRequested, PayoutStatus

LEMMA StatusMeansRequested ==
  ASSUME TypeOK, NEW k \in Keys, payout[k].status \in PayoutStatus
  PROVE  payout[k] \in PayoutRow
BY DEF TypeOK, NotRequested, PayoutStatus

LEMMA ExistsMeansAdded ==
  ASSUME TypeOK, NEW m \in Methods, method[m].exists
  PROVE  method[m] \in MethodRow
BY DEF TypeOK, NotAdded

-----------------------------------------------------------------------------
(* Type correctness, and that a request refers to rows that exist.         *)

\* The rows a request is going to write exist.
Sound(q) ==
  /\ q.op \in {"cancel", "review"} => payout[q.key] \in PayoutRow
  /\ q.op \in {"edit", "submit", "default", "makeDefault", "delete", "remove"}
       => method[q.method] \in MethodRow
  /\ q.op = "makeDefault" => \A n \in q.seen : method[n] \in MethodRow

IInv == TypeOK /\ \A r \in Requests : Sound(req[r])

\* No step takes a row away.
RowsKept ==
  /\ \A k \in Keys : payout[k] \in PayoutRow => payout'[k] \in PayoutRow
  /\ \A m \in Methods : method[m] \in MethodRow => method'[m] \in MethodRow

LEMMA IdleIsSound == Idle \in Request /\ Sound(Idle)
BY DEF Request, Idle, Sound

LEMMA SoundKept ==
  ASSUME NEW q \in Request, Sound(q), RowsKept
  PROVE  Sound(q)'
BY RequestKind DEF Sound, RowsKept

\* A step that writes one request and keeps the rows.
LEMMA RequestWritten ==
  ASSUME IInv, RowsKept,
         balance' \in [Providers -> Int], earned' \in [Providers -> Nat],
         payout' \in [Keys -> {NotRequested} \cup PayoutRow],
         method' \in [Methods -> {NotAdded} \cup MethodRow],
         NEW r \in Requests, NEW q \in Request, Sound(q), req' = [req EXCEPT ![r] = q]
  PROVE  IInv'
<1>1. req \in [Requests -> Request] /\ req' \in [Requests -> Request]
  BY DEF IInv, TypeOK
<1>2. ASSUME NEW s \in Requests PROVE Sound(req[s])'
  <2>1. PICK p \in Request : p = req'[s]
    BY <1>1
  <2>2. p \in Request /\ Sound(p)
    <3>1. CASE s = r
      BY <1>1, <2>1, <3>1
    <3>2. CASE s # r
      <4>1. p = req[s]
        BY <1>1, <2>1, <3>2
      <4> QED
        BY <4>1, <2>1 DEF IInv
    <3> QED
      BY <3>1, <3>2
  <2>3. Sound(p)'
    BY <2>2, SoundKept
  <2> QED
    BY <2>1, <2>3 DEF Sound
<1> QED
  BY <1>1, <1>2 DEF IInv, TypeOK

\* A step of the environment: it writes no request.
LEMMA RequestsUntouched ==
  ASSUME IInv, RowsKept, TypeOK', UNCHANGED req
  PROVE  IInv'
<1>1. ASSUME NEW s \in Requests PROVE Sound(req[s])'
  <2>1. PICK p \in Request : p = req[s]
    BY DEF IInv, TypeOK
  <2>2. Sound(p)'
    BY <2>1, SoundKept DEF IInv
  <2> QED
    BY <2>1, <2>2 DEF Sound
<1> QED
  BY <1>1 DEF IInv

\* A step that only moves a request on.
LEMMA OnlyRequest ==
  ASSUME IInv, NEW r \in Requests, NEW q \in Request, Sound(q),
         req' = [req EXCEPT ![r] = q], UNCHANGED <<balance, earned, payout, method>>
  PROVE  IInv'
<1>1. RowsKept
  BY DEF RowsKept
<1> QED
  BY <1>1, RequestWritten DEF IInv, TypeOK

LEMMA InitIInv == Init => IInv
BY DEF Init, IInv, TypeOK, Sound, Request, Idle

\* The steps that only read.
LEMMA BeginStep ==
  ASSUME IInv, NEW r \in Requests,
         \/ \E transfer \in Transfer : RequestBegin(r, transfer)
         \/ \E k \in Keys : CancelBegin(r, k)
         \/ \E k \in Keys, status \in {"PROCESSING", "ON_HOLD", "REJECTED"} :
              ReviewBegin(r, k, status)
         \/ \E m \in Methods, active \in BOOLEAN : EditBegin(r, m, active)
         \/ \E m \in Methods : SubmitBegin(r, m) \/ DefaultBegin(r, m) \/ DeleteBegin(r, m)
  PROVE  IInv'
<1>1. ASSUME NEW t \in Transfer, RequestBegin(r, t) PROVE IInv'
  <2> DEFINE q == [op |-> "preview", transfer |-> t]
  <2>1. q \in Request /\ Sound(q)
    BY DEF Request, Sound
  <2>2. req' = [req EXCEPT ![r] = q] /\ UNCHANGED <<balance, earned, payout, method>>
    BY <1>1 DEF RequestBegin, Start
  <2> QED
    BY <2>1, <2>2, OnlyRequest
<1>2. ASSUME NEW k \in Keys, CancelBegin(r, k) PROVE IInv'
  <2> DEFINE q == [op |-> "cancel", key |-> k]
  <2>1. payout[k] \in PayoutRow
    BY <1>2, StatusMeansRequested DEF IInv, CancelBegin, PayoutStatus
  <2>2. q \in Request /\ Sound(q)
    BY <2>1 DEF Request, Sound
  <2>3. req' = [req EXCEPT ![r] = q] /\ UNCHANGED <<balance, earned, payout, method>>
    BY <1>2 DEF CancelBegin, Start
  <2> QED
    BY <2>2, <2>3, OnlyRequest
<1>3. ASSUME NEW k \in Keys, NEW s \in {"PROCESSING", "ON_HOLD", "REJECTED"},
             ReviewBegin(r, k, s)
      PROVE IInv'
  <2> DEFINE q == [op |-> "review", key |-> k, status |-> s]
  <2>1. payout[k] \in PayoutRow
    BY <1>3, StatusMeansRequested DEF IInv, ReviewBegin, Reviewable, PayoutStatus
  <2>2. q \in Request /\ Sound(q)
    BY <2>1 DEF Request, Sound
  <2>3. req' = [req EXCEPT ![r] = q] /\ UNCHANGED <<balance, earned, payout, method>>
    BY <1>3 DEF ReviewBegin, Start
  <2> QED
    BY <2>2, <2>3, OnlyRequest
<1>4. ASSUME NEW m \in Methods, NEW active \in BOOLEAN, EditBegin(r, m, active) PROVE IInv'
  <2> DEFINE q == [op |-> "edit", method |-> m, active |-> active]
  <2>1. method[m] \in MethodRow
    BY <1>4, ExistsMeansAdded DEF IInv, EditBegin, Findable
  <2>2. q \in Request /\ Sound(q)
    BY <2>1 DEF Request, Sound
  <2>3. req' = [req EXCEPT ![r] = q] /\ UNCHANGED <<balance, earned, payout, method>>
    BY <1>4 DEF EditBegin, Start
  <2> QED
    BY <2>2, <2>3, OnlyRequest
<1>5. ASSUME NEW m \in Methods, SubmitBegin(r, m) PROVE IInv'
  <2> DEFINE q == [op |-> "submit", method |-> m]
  <2>1. method[m] \in MethodRow
    BY <1>5, ExistsMeansAdded DEF IInv, SubmitBegin, Findable
  <2>2. q \in Request /\ Sound(q)
    BY <2>1 DEF Request, Sound
  <2>3. req' = [req EXCEPT ![r] = q] /\ UNCHANGED <<balance, earned, payout, method>>
    BY <1>5 DEF SubmitBegin, Start
  <2> QED
    BY <2>2, <2>3, OnlyRequest
<1>6. ASSUME NEW m \in Methods, DefaultBegin(r, m) PROVE IInv'
  <2> DEFINE q == [op |-> "default", method |-> m]
  <2>1. method[m] \in MethodRow
    BY <1>6, ExistsMeansAdded DEF IInv, DefaultBegin, Payable, Findable
  <2>2. q \in Request /\ Sound(q)
    BY <2>1 DEF Request, Sound
  <2>3. req' = [req EXCEPT ![r] = q] /\ UNCHANGED <<balance, earned, payout, method>>
    BY <1>6 DEF DefaultBegin, Start
  <2> QED
    BY <2>2, <2>3, OnlyRequest
<1>7. ASSUME NEW m \in Methods, DeleteBegin(r, m) PROVE IInv'
  <2>1. PICK promote : promote = method[m].default
    OBVIOUS
  <2> DEFINE q == [op |-> "delete", method |-> m, promote |-> promote]
  <2>2. method[m] \in MethodRow
    BY <1>7, ExistsMeansAdded DEF IInv, DeleteBegin, Findable
  <2>3. promote \in BOOLEAN
    BY <2>1, <2>2 DEF MethodRow
  <2>4. q \in Request /\ Sound(q)
    BY <2>2, <2>3 DEF Request, Sound
  <2>5. req' = [req EXCEPT ![r] = q] /\ UNCHANGED <<balance, earned, payout, method>>
    BY <1>7, <2>1 DEF DeleteBegin, Start
  <2> QED
    BY <2>4, <2>5, OnlyRequest
<1> QED
  BY <1>1, <1>2, <1>3, <1>4, <1>5, <1>6, <1>7

\* The steps that read again in the middle of a request, and the end of one.
LEMMA MiddleStep ==
  ASSUME IInv, NEW r \in Requests,
         RequestCheckActive(r) \/ DefaultClear(r) \/ DeleteCheck(r) \/ Fail(r)
  PROVE  IInv'
<1>0. PICK p \in Request : p = req[r]
  BY DEF IInv, TypeOK
<1> Sound(p)
  BY <1>0 DEF IInv
<1>1. CASE RequestCheckActive(r)
  <2> DEFINE q == [op |-> "create", transfer |-> p.transfer]
  <2>1. p.op = "preview"
    BY <1>0, <1>1 DEF RequestCheckActive, IsAt
  <2>2. q \in Request /\ Sound(q)
    BY <2>1, RequestKind DEF Request, Sound
  <2>3. req' = [req EXCEPT ![r] = q] /\ UNCHANGED <<balance, earned, payout, method>>
    BY <1>0, <1>1 DEF RequestCheckActive, Continue
  <2> QED
    BY <2>2, <2>3, OnlyRequest
<1>2. CASE DefaultClear(r)
  <2>1. PICK seen \in SUBSET Methods :
          seen = {n \in Methods : IsDefault(n) /\ method[n].provider = method[p.method].provider}
    OBVIOUS
  <2> DEFINE q == [op |-> "makeDefault", method |-> p.method, seen |-> seen]
  <2>2. p.op = "default" /\ p.method \in Methods
    BY <1>0, <1>2, RequestKind DEF DefaultClear, IsAt
  <2>3. \A n \in seen : method[n] \in MethodRow
    BY <2>1, ExistsMeansAdded DEF IInv, IsDefault
  <2>4. q \in Request /\ Sound(q)
    BY <2>2, <2>3 DEF Request, Sound
  <2>5. req' = [req EXCEPT ![r] = q] /\ UNCHANGED <<balance, earned, payout, method>>
    BY <1>0, <1>2, <2>1 DEF DefaultClear, Continue
  <2> QED
    BY <2>4, <2>5, OnlyRequest
<1>3. CASE DeleteCheck(r)
  <2> DEFINE q == [op |-> "remove", method |-> p.method, promote |-> p.promote]
  <2>1. p.op = "delete"
    BY <1>0, <1>3 DEF DeleteCheck, IsAt
  <2>2. q \in Request /\ Sound(q)
    BY <2>1, RequestKind DEF Request, Sound
  <2>3. req' = [req EXCEPT ![r] = q] /\ UNCHANGED <<balance, earned, payout, method>>
    BY <1>0, <1>3 DEF DeleteCheck, Continue
  <2> QED
    BY <2>2, <2>3, OnlyRequest
<1>4. CASE Fail(r)
  BY <1>4, IdleIsSound, OnlyRequest DEF Fail, Finish
<1> QED
  BY <1>1, <1>2, <1>3, <1>4

\* The steps that write a payout and the wallet.
LEMMA PayoutStep ==
  ASSUME IInv, NEW r \in Requests, RequestCommit(r) \/ CancelCommit(r) \/ ReviewCommit(r)
  PROVE  IInv'
<1>0. PICK q \in Request : q = req[r]
  BY DEF IInv, TypeOK
<1> Sound(q)
  BY <1>0 DEF IInv
<1>a. /\ balance \in [Providers -> Int]
      /\ earned \in [Providers -> Nat]
      /\ payout \in [Keys -> {NotRequested} \cup PayoutRow]
      /\ method \in [Methods -> {NotAdded} \cup MethodRow]
  BY DEF IInv, TypeOK
<1>1. CASE RequestCommit(r)
  <2>1. q.op = "create" /\ q.transfer \in Transfer
    BY <1>0, <1>1, RequestKind DEF RequestCommit, IsAt
  <2> DEFINE t == q.transfer
  <2>2. /\ payout' = [payout EXCEPT ![t.key] = NewPayout(t)]
        /\ balance' = [balance EXCEPT ![t.provider] = @ - t.amount]
        /\ req' = [req EXCEPT ![r] = Idle]
        /\ earned' = earned /\ method' = method
    BY <1>0, <1>1 DEF RequestCommit, Finish
  <2>3. t.provider \in Providers /\ t.amount \in Amounts
    BY <2>1 DEF Transfer
  <2>6. NewPayout(t) \in PayoutRow
    BY <2>1, NewPayoutRow
  <2>4. /\ balance' \in [Providers -> Int]
        /\ payout' \in [Keys -> {NotRequested} \cup PayoutRow]
    <3>1. t.amount \in Int
      BY <2>3, AmountIsPositive
    <3>2. balance' \in [Providers -> Int]
      BY <1>a, <2>2, <2>3, <3>1, MovedBalance
    <3>3. payout' \in [Keys -> {NotRequested} \cup PayoutRow]
      BY <1>a, <2>2, <2>6
    <3> QED
      BY <3>2, <3>3
  <2>5. RowsKept
    BY <1>a, <2>2, <2>6 DEF RowsKept
  <2> QED
    BY <1>a, <2>2, <2>4, <2>5, IdleIsSound, RequestWritten
<1>2. ASSUME NEW s \in PayoutStatus, q.key \in Keys, payout[q.key] \in PayoutRow,
             payout' = [payout EXCEPT ![q.key] = Release(@, s)],
             Refund(q.key), Finish(r), UNCHANGED <<earned, method>>
      PROVE  IInv'
  <2>1. Release(payout[q.key], s) \in PayoutRow
    BY <1>2, ReleasedRow
  <2>2. payout[q.key].amount \in Int /\ payout[q.key].provider \in Providers
    BY <1>2, AmountIsPositive DEF PayoutRow
  <2>3. balance' \in [Providers -> Int]
    BY <1>a, <1>2, <2>2, MovedBalance DEF Refund
  <2>4. payout' \in [Keys -> {NotRequested} \cup PayoutRow] /\ RowsKept
    BY <1>a, <1>2, <2>1 DEF RowsKept
  <2>5. req' = [req EXCEPT ![r] = Idle]
    BY <1>2 DEF Finish
  <2> QED
    BY <1>a, <1>2, <2>3, <2>4, <2>5, IdleIsSound, RequestWritten
<1>3. CASE CancelCommit(r)
  <2>1. q.key \in Keys /\ payout[q.key] \in PayoutRow
    BY <1>0, <1>3, RequestKind DEF CancelCommit, IsAt, Sound
  <2> QED
    BY <1>0, <1>2, <1>3, <2>1 DEF CancelCommit, PayoutStatus
<1>4. CASE ReviewCommit(r)
  <2>1. /\ q.key \in Keys
        /\ q.status \in {"PROCESSING", "ON_HOLD", "REJECTED"}
        /\ payout[q.key] \in PayoutRow
    BY <1>0, <1>4, RequestKind DEF ReviewCommit, IsAt, Sound
  <2>2. CASE q.status = "REJECTED"
    BY <1>0, <1>2, <1>4, <2>1, <2>2 DEF ReviewCommit, PayoutStatus
  <2>3. CASE q.status # "REJECTED"
    <3>1. /\ payout' = [payout EXCEPT ![q.key] = Mark(@, q.status)]
          /\ req' = [req EXCEPT ![r] = Idle]
          /\ balance' = balance /\ earned' = earned /\ method' = method
      BY <1>0, <1>4, <2>3 DEF ReviewCommit, Finish
    <3>2. Mark(payout[q.key], q.status) \in PayoutRow
      BY <2>1, MarkedRow DEF PayoutStatus
    <3>3. payout' \in [Keys -> {NotRequested} \cup PayoutRow] /\ RowsKept
      BY <1>a, <3>1, <3>2 DEF RowsKept
    <3> QED
      BY <1>a, <3>1, <3>3, IdleIsSound, RequestWritten
  <2> QED
    BY <2>2, <2>3
<1> QED
  BY <1>1, <1>3, <1>4

\* The steps that write a payout method.
LEMMA MethodStep ==
  ASSUME IInv, NEW r \in Requests,
         EditCommit(r) \/ SubmitCommit(r) \/ DefaultCommit(r) \/ DeleteCommit(r)
  PROVE  IInv'
<1>0. PICK q \in Request : q = req[r]
  BY DEF IInv, TypeOK
<1> Sound(q)
  BY <1>0 DEF IInv
<1>a. /\ balance \in [Providers -> Int]
      /\ earned \in [Providers -> Nat]
      /\ payout \in [Keys -> {NotRequested} \cup PayoutRow]
      /\ method \in [Methods -> {NotAdded} \cup MethodRow]
  BY DEF IInv, TypeOK
<1>b. q.method \in Methods /\ method[q.method] \in MethodRow
  BY <1>0, RequestKind
     DEF EditCommit, SubmitCommit, DefaultCommit, DeleteCommit, IsAt, Sound
<1>1. ASSUME method' \in [Methods -> {NotAdded} \cup MethodRow],
             \A m \in Methods : method[m] \in MethodRow => method'[m] \in MethodRow,
             Finish(r), UNCHANGED <<balance, earned, payout>>
      PROVE  IInv'
  <2>1. RowsKept
    BY <1>1 DEF RowsKept
  <2>2. req' = [req EXCEPT ![r] = Idle]
    BY <1>1 DEF Finish
  <2> QED
    BY <1>a, <1>1, <2>1, <2>2, IdleIsSound, RequestWritten
<1>2. CASE EditCommit(r)
  <2>1. method' = [method EXCEPT ![q.method] = WithActive(@, q.active)] /\ q.op = "edit"
    BY <1>0, <1>2 DEF EditCommit, IsAt
  <2>2. WithActive(method[q.method], q.active) \in MethodRow
    BY <1>b, <2>1, RequestKind, FlaggedRow
  <2> QED
    BY <1>a, <1>1, <1>2, <2>1, <2>2 DEF EditCommit
<1>3. CASE SubmitCommit(r)
  <2>1. method' = [method EXCEPT ![q.method] = WithVerified(@, FALSE)]
    BY <1>0, <1>3 DEF SubmitCommit
  <2>2. WithVerified(method[q.method], FALSE) \in MethodRow
    BY <1>b, FlaggedRow
  <2> QED
    BY <1>a, <1>1, <1>3, <2>1, <2>2 DEF SubmitCommit
<1>4. CASE DefaultCommit(r)
  <2>1. /\ method' = [m \in Methods |->
                         IF m = q.method THEN WithDefault(method[m], TRUE)
                         ELSE IF m \in q.seen THEN WithDefault(method[m], FALSE)
                         ELSE method[m]]
        /\ q.op = "makeDefault"
    BY <1>0, <1>4 DEF DefaultCommit, IsAt
  <2>2. \A m \in Methods : m = q.method \/ m \in q.seen => method[m] \in MethodRow
    BY <1>b, <2>1 DEF Sound
  <2>3. \A m \in Methods : method[m] \in MethodRow =>
          WithDefault(method[m], TRUE) \in MethodRow /\ WithDefault(method[m], FALSE) \in MethodRow
    BY DefaultRow
  <2>4. /\ method' \in [Methods -> {NotAdded} \cup MethodRow]
        /\ \A m \in Methods : method[m] \in MethodRow => method'[m] \in MethodRow
    BY <1>a, <2>1, <2>2, <2>3
  <2> QED
    BY <1>1, <1>4, <2>4 DEF DefaultCommit
<1>5. CASE DeleteCommit(r)
  <2> DEFINE removed == [method EXCEPT ![q.method] = Deleted(@)]
  <2>1. Deleted(method[q.method]) \in MethodRow
    BY <1>b, DeletedRow
  <2>2. /\ removed \in [Methods -> {NotAdded} \cup MethodRow]
        /\ \A m \in Methods : method[m] \in MethodRow => removed[m] \in MethodRow
    BY <1>a, <2>1
  <2>3. CASE method' = removed
    BY <1>1, <1>5, <2>2, <2>3 DEF DeleteCommit
  <2>4. ASSUME NEW n \in Methods \ {q.method}, Payable(n),
               method' = [removed EXCEPT ![n] = WithDefault(@, TRUE)]
        PROVE  IInv'
    <3>1. method[n] \in MethodRow /\ removed[n] = method[n]
      BY <1>a, <2>4, ExistsMeansAdded DEF IInv, Payable, Findable
    <3>2. WithDefault(removed[n], TRUE) \in MethodRow
      BY <3>1, DefaultRow
    <3> HIDE DEF removed
    <3>3. /\ method' \in [Methods -> {NotAdded} \cup MethodRow]
          /\ \A m \in Methods : method[m] \in MethodRow => method'[m] \in MethodRow
      BY <2>2, <2>4, <3>2
    <3> QED
      BY <1>1, <1>5, <3>3 DEF DeleteCommit
  <2> QED
    BY <1>0, <1>5, <2>3, <2>4 DEF DeleteCommit
<1> QED
  BY <1>2, <1>3, <1>4, <1>5

\* The steps no request takes.
Environment ==
  \/ \E p \in Providers, amount \in Amounts : Earn(p, amount)
  \/ \E m \in Methods, p \in Providers : AddMethod(m, p)
  \/ \E m \in Methods : Verified(m)

LEMMA EnvironmentStep == IInv /\ Environment => IInv'
<1> SUFFICES ASSUME IInv, Environment PROVE IInv'
  OBVIOUS
<1>a. /\ balance \in [Providers -> Int]
      /\ earned \in [Providers -> Nat]
      /\ payout \in [Keys -> {NotRequested} \cup PayoutRow]
      /\ method \in [Methods -> {NotAdded} \cup MethodRow]
      /\ req \in [Requests -> Request]
  BY DEF IInv, TypeOK
<1>1. ASSUME NEW p \in Providers, NEW amount \in Amounts, Earn(p, amount) PROVE IInv'
  <2>1. amount \in Int /\ amount > 0
    BY AmountIsPositive
  <2>2. balance' \in [Providers -> Int]
    BY <1>a, <1>1, <2>1, MovedBalance DEF Earn
  <2>3. earned' \in [Providers -> Nat]
    BY <1>a, <1>1, <2>1 DEF Earn
  <2>4. TypeOK' /\ RowsKept
    BY <1>a, <1>1, <2>2, <2>3 DEF TypeOK, RowsKept, Earn
  <2> QED
    BY <1>1, <2>4, RequestsUntouched DEF Earn
<1>2. ASSUME NEW m \in Methods, NEW p \in Providers, AddMethod(m, p) PROVE IInv'
  <2>1. PICK row \in MethodRow : method' = [method EXCEPT ![m] = row]
    BY <1>2 DEF AddMethod, MethodRow
  <2>2. TypeOK' /\ RowsKept
    BY <1>a, <1>2, <2>1 DEF TypeOK, RowsKept, AddMethod
  <2> QED
    BY <1>2, <2>2, RequestsUntouched DEF AddMethod
<1>3. ASSUME NEW m \in Methods, Verified(m) PROVE IInv'
  <2>1. WithVerified(method[m], TRUE) \in MethodRow
    BY <1>3, ExistsMeansAdded, FlaggedRow DEF IInv, Verified
  <2>2. TypeOK' /\ RowsKept
    BY <1>a, <1>3, <2>1 DEF TypeOK, RowsKept, Verified
  <2> QED
    BY <1>3, <2>2, RequestsUntouched DEF Verified
<1> QED
  BY <1>1, <1>2, <1>3 DEF Environment

LEMMA StepIInv == IInv /\ [Next]_vars => IInv'
<1> SUFFICES ASSUME IInv, [Next]_vars PROVE IInv'
  OBVIOUS
<1>1. ASSUME NEW r \in Requests, Proceed(r) PROVE IInv'
  BY <1>1, MiddleStep, PayoutStep, MethodStep DEF Proceed
<1>2. CASE Environment
  BY <1>2, EnvironmentStep
<1>3. CASE UNCHANGED vars
  BY <1>3, RequestsUntouched DEF vars, IInv, TypeOK, RowsKept
<1> QED
  BY <1>1, <1>2, <1>3, BeginStep DEF Next, Environment

\* Every variable of Payouts holds a value of its type: the rows are the ones
\* the schema has, and a request only refers to rows that exist.
THEOREM TypeCorrect == Spec => []TypeOK
<1>1. IInv => TypeOK
  BY DEF IInv
<1> QED
  BY <1>1, InitIInv, StepIInv, PTL DEF Spec

-----------------------------------------------------------------------------
(* Only a new payout takes money from a wallet.                            *)

OneDebit ==
  \A p \in Providers : balance'[p] < balance[p] =>
    \E k \in Keys : /\ ~Requested(k) /\ Requested(k)'
                    /\ payout'[k].provider = p
                    /\ balance'[p] = balance[p] - payout'[k].amount

LEMMA CreditIsNoDebit ==
  ASSUME balance \in [Providers -> Int], NEW q \in Providers, NEW x \in Amounts,
         balance' = [balance EXCEPT ![q] = @ + x]
  PROVE  OneDebit
<1>1. x \in Int /\ x > 0
  BY AmountIsPositive
<1>2. \A p \in Providers : ~(balance'[p] < balance[p])
  BY <1>1
<1> QED
  BY <1>2 DEF OneDebit

LEMMA StepOneDebit == IInv /\ [Next]_vars => OneDebit
<1> SUFFICES ASSUME IInv, [Next]_vars PROVE OneDebit
  OBVIOUS
<1>a. balance \in [Providers -> Int] /\ payout \in [Keys -> {NotRequested} \cup PayoutRow]
  BY DEF IInv, TypeOK
<1>1. CASE UNCHANGED balance
  BY <1>a, <1>1 DEF OneDebit
<1>2. ASSUME NEW k \in Keys, payout[k] \in PayoutRow, Refund(k) PROVE OneDebit
  <2>1. payout[k].provider \in Providers /\ payout[k].amount \in Amounts
    BY <1>2 DEF PayoutRow
  <2> QED
    BY <1>a, <1>2, <2>1, CreditIsNoDebit DEF Refund
<1>3. ASSUME NEW r \in Requests, CancelCommit(r) \/ ReviewCommit(r) PROVE OneDebit
  <2>1. PICK q \in Request : q = req[r] /\ Sound(q)
    BY DEF IInv, TypeOK
  <2>2. q.key \in Keys /\ payout[q.key] \in PayoutRow
    BY <1>3, <2>1, RequestKind DEF CancelCommit, ReviewCommit, IsAt, Sound
  <2> QED
    BY <1>1, <1>2, <1>3, <2>1, <2>2 DEF CancelCommit, ReviewCommit
<1>4. ASSUME NEW r \in Requests, RequestCommit(r) PROVE OneDebit
  <2>1. PICK q \in Request : q = req[r]
    BY DEF IInv, TypeOK
  <2> DEFINE t == q.transfer
  <2>2. t \in Transfer
    BY <1>4, <2>1, RequestKind DEF RequestCommit, IsAt
  <2>3. /\ t.provider \in Providers /\ t.key \in Keys /\ t.amount \in Int
        /\ NewPayout(t).provider = t.provider
        /\ NewPayout(t).amount = t.amount
        /\ NewPayout(t) # NotRequested
    BY <2>2, NewPayoutRow, RowIsRequested, AmountIsPositive DEF Transfer
  <2>4. /\ ~Requested(t.key)
        /\ payout' = [payout EXCEPT ![t.key] = NewPayout(t)]
        /\ balance' = [balance EXCEPT ![t.provider] = @ - t.amount]
    BY <1>4, <2>1 DEF RequestCommit
  <2>5. payout'[t.key] = NewPayout(t)
    BY <1>a, <2>3, <2>4
  <2>6. Requested(t.key)'
    BY <2>3, <2>5 DEF Requested
  <2>7. ASSUME NEW p \in Providers, balance'[p] < balance[p]
        PROVE  p = t.provider /\ balance'[p] = balance[p] - t.amount
    BY <1>a, <2>3, <2>4, <2>7
  <2> QED
    BY <2>3, <2>4, <2>5, <2>6, <2>7 DEF OneDebit
<1>5. ASSUME NEW p \in Providers, NEW amount \in Amounts, Earn(p, amount) PROVE OneDebit
  BY <1>a, <1>5, CreditIsNoDebit DEF Earn
<1> QED
  BY <1>1, <1>3, <1>4, <1>5
     DEF Next, Proceed, vars, RequestBegin, CancelBegin, ReviewBegin, EditBegin, SubmitBegin,
         DefaultBegin, DeleteBegin, RequestCheckActive, DefaultClear, DeleteCheck, Fail,
         EditCommit, SubmitCommit, DefaultCommit, DeleteCommit, AddMethod, Verified

\* However the requests interleave, a provider's wallet only goes down in the
\* step that creates a payout, once for each key: a retried or repeated
\* requestPayout debits nothing, and neither does a review.
THEOREM ProviderIsDebitedOnce == Spec => DebitedOnce
BY InitIInv, StepIInv, StepOneDebit, PTL DEF Spec, DebitedOnce, OneDebit

-----------------------------------------------------------------------------
(* A provider's money: what its wallet and its pending debits hold beyond  *)
(* what it has earned only grows, and only when a debit is voided twice.   *)

Slack(p) == balance[p] + Outstanding(p) - earned[p]

PayoutsAreFinite == IsFiniteSet({k \in Keys : Requested(k)})

\* A cancellation or a review is about to release a debit voided before.
VoidsAgain ==
  \E r \in Requests :
    req[r].op \in {"cancel", "review"} /\ payout[req[r].key].debit = "CANCELLED"

DebitOf(p) == [k \in PendingDebits(p) |-> payout[k].amount]

LEMMA OutstandingIsSum ==
  ASSUME NEW p
  PROVE  Outstanding(p) = SumFunctionOnSet(DebitOf(p), PendingDebits(p))
BY DEF Outstanding, SumFunction, DebitOf

LEMMA DebitsAreAmounts ==
  ASSUME IInv, PayoutsAreFinite, NEW p \in Providers
  PROVE  /\ IsFiniteSet(PendingDebits(p))
         /\ \A k \in PendingDebits(p) : payout[k] \in PayoutRow /\ payout[k].amount \in Int
         /\ Outstanding(p) \in Int
<1>1. IsFiniteSet(PendingDebits(p))
  BY FS_Subset DEF PayoutsAreFinite, PendingDebits
<1>2. \A k \in PendingDebits(p) : payout[k] \in PayoutRow /\ payout[k].amount \in Int
  <2>1. \A k \in PendingDebits(p) : payout[k] \in PayoutRow
    BY DEF IInv, TypeOK, PendingDebits, Requested
  <2> QED
    BY <2>1, AmountIsPositive DEF PayoutRow
<1>3. \A k \in PendingDebits(p) : DebitOf(p)[k] \in Int
  BY <1>2 DEF DebitOf
<1> QED
  BY <1>1, <1>2, <1>3, SumType, OutstandingIsSum

\* Debits that are the same add up to the same.
LEMMA OutstandingKept ==
  ASSUME IInv, PayoutsAreFinite, NEW p \in Providers, PendingDebits(p)' = PendingDebits(p),
         \A k \in PendingDebits(p) : payout'[k].amount = payout[k].amount
  PROVE  Outstanding(p)' = Outstanding(p)
<1>1. DebitOf(p)' = DebitOf(p)
  BY DEF DebitOf
<1> QED
  BY <1>1, OutstandingIsSum DEF Outstanding, SumFunction, DebitOf

\* A debit more.
LEMMA OutstandingGrows ==
  ASSUME IInv, PayoutsAreFinite, NEW p \in Providers, NEW k \in Keys, k \notin PendingDebits(p),
         PendingDebits(p)' = PendingDebits(p) \cup {k}, payout'[k].amount \in Int,
         \A j \in PendingDebits(p) : payout'[j].amount = payout[j].amount
  PROVE  Outstanding(p)' = Outstanding(p) + payout'[k].amount
<1> DEFINE S == PendingDebits(p)
           f == DebitOf(p)
           g == [j \in S \cup {k} |-> payout'[j].amount]
<1>1. Outstanding(p)' = SumFunctionOnSet(g, S \cup {k})
  BY DEF Outstanding, SumFunction, DebitOf
<1>2. IsFiniteSet(S) /\ \A j \in S : f[j] \in Int /\ g[j] = f[j]
  BY DebitsAreAmounts DEF DebitOf
<1>3. g[k] = payout'[k].amount
  OBVIOUS
<1>4. \A j \in S \cup {k} : g[j] \in Int
  BY <1>2, <1>3
<1> HIDE DEF f, g, S
<1>5. SumFunctionOnSet(g, S) = SumFunctionOnSet(f, S)
  BY <1>2, SumSame
<1>6. SumFunctionOnSet(g, S \cup {k}) = SumFunctionOnSet(g, S) + g[k]
  BY <1>2, <1>4, SumAdd DEF S
<1> QED
  BY <1>1, <1>3, <1>5, <1>6, OutstandingIsSum DEF f, S

\* A debit less.
LEMMA OutstandingShrinks ==
  ASSUME IInv, PayoutsAreFinite, NEW p \in Providers, NEW k \in PendingDebits(p),
         PendingDebits(p)' = PendingDebits(p) \ {k},
         \A j \in PendingDebits(p) \ {k} : payout'[j].amount = payout[j].amount
  PROVE  Outstanding(p)' = Outstanding(p) - payout[k].amount
<1> DEFINE S == PendingDebits(p)
           f == DebitOf(p)
           g == [j \in S \ {k} |-> payout'[j].amount]
<1>1. Outstanding(p)' = SumFunctionOnSet(g, S \ {k})
  BY DEF Outstanding, SumFunction, DebitOf
<1>2. IsFiniteSet(S) /\ (\A j \in S : f[j] \in Int) /\ (\A j \in S \ {k} : g[j] = f[j])
  BY DebitsAreAmounts DEF DebitOf
<1>3. f[k] = payout[k].amount /\ k \in S
  BY DEF DebitOf
<1> HIDE DEF f, g, S
<1>4. IsFiniteSet(S \ {k})
  BY <1>2, FS_Subset
<1>5. SumFunctionOnSet(g, S \ {k}) = SumFunctionOnSet(f, S \ {k})
  BY <1>2, <1>4, SumSame
<1>6. SumFunctionOnSet(f, S) = f[k] + SumFunctionOnSet(f, S \ {k})
  BY <1>2, <1>3, SumRemove
<1>7. SumFunctionOnSet(f, S \ {k}) \in Int /\ f[k] \in Int
  BY <1>2, <1>3, <1>4, SumType
<1> QED
  BY <1>1, <1>3, <1>5, <1>6, <1>7, OutstandingIsSum DEF f, S

SlackKept(p) ==
  Slack(p)' = Slack(p) \/ (Slack(p)' \in Int /\ Slack(p)' > Slack(p) /\ VoidsAgain)

LEMMA SlackTypes ==
  ASSUME IInv, PayoutsAreFinite, NEW p \in Providers
  PROVE  balance[p] \in Int /\ earned[p] \in Int /\ Outstanding(p) \in Int /\ Slack(p) \in Int
BY DebitsAreAmounts DEF IInv, TypeOK, Slack

\* A payout that is released: its debit no longer counts, if it still did.
LEMMA ReleaseSlack ==
  ASSUME IInv, PayoutsAreFinite, NEW k \in Keys, payout[k] \in PayoutRow,
         NEW s \in {"CANCELLED", "REJECTED"},
         payout' = [payout EXCEPT ![k] = Release(@, s)], Refund(k), UNCHANGED earned,
         payout[k].debit = "CANCELLED" => VoidsAgain
  PROVE  PayoutsAreFinite' /\ \A p \in Providers : SlackKept(p)
<1> PICK row : row = Release(payout[k], s)
  OBVIOUS
<1>0. payout \in [Keys -> {NotRequested} \cup PayoutRow] /\ balance \in [Providers -> Int]
  BY DEF IInv, TypeOK
<1>1. row \in PayoutRow /\ row.provider = payout[k].provider /\ row.debit = "CANCELLED"
  BY ReleasedRow DEF PayoutStatus
<1>2. payout'[k] = row /\ \A j \in Keys \ {k} : payout'[j] = payout[j]
  BY <1>0
<1>3. \A j \in Keys : Requested(j)' <=> Requested(j)
  BY <1>1, <1>2, RowIsRequested DEF Requested
<1>4. PayoutsAreFinite'
  BY <1>3 DEF PayoutsAreFinite
<1>5. ASSUME NEW p \in Providers PROVE SlackKept(p)
  <2>1. /\ Slack(p) \in Int /\ Outstanding(p) \in Int /\ balance[p] \in Int
        /\ earned[p] \in Int /\ earned'[p] = earned[p]
    BY SlackTypes
  <2>2. payout[k].amount \in Int /\ payout[k].amount > 0
    BY AmountIsPositive DEF PayoutRow
  <2>3. CASE p # payout[k].provider
    <3>1. PendingDebits(p)' = PendingDebits(p)
      BY <1>1, <1>2, <1>3, <2>3 DEF PendingDebits
    <3>2. k \notin PendingDebits(p)
      BY <2>3 DEF PendingDebits
    <3>3. Outstanding(p)' = Outstanding(p)
      BY <1>2, <3>1, <3>2, OutstandingKept DEF PendingDebits
    <3>4. balance'[p] = balance[p]
      BY <1>0, <2>3 DEF Refund
    <3> QED
      BY <2>1, <3>3, <3>4 DEF SlackKept, Slack
  <2>4. ASSUME p = payout[k].provider PROVE balance'[p] = balance[p] + payout[k].amount
    BY <1>0, <2>4 DEF Refund
  <2>5. CASE p = payout[k].provider /\ payout[k].debit = "PENDING"
    <3>1. k \in PendingDebits(p)
      BY <2>5, RowIsRequested DEF PendingDebits, Requested
    <3>2. PendingDebits(p)' = PendingDebits(p) \ {k}
      BY <1>1, <1>2, <1>3 DEF PendingDebits
    <3>3. \A j \in PendingDebits(p) \ {k} : payout'[j].amount = payout[j].amount
      BY <1>2 DEF PendingDebits
    <3>4. Outstanding(p)' = Outstanding(p) - payout[k].amount
      BY <3>1, <3>2, <3>3, OutstandingShrinks
    <3> QED
      BY <2>1, <2>2, <2>4, <2>5, <3>4 DEF SlackKept, Slack
  <2>6. CASE p = payout[k].provider /\ payout[k].debit = "CANCELLED"
    <3>1. k \notin PendingDebits(p)
      BY <2>6 DEF PendingDebits
    <3>2. PendingDebits(p)' = PendingDebits(p)
      BY <1>1, <1>2, <1>3, <3>1 DEF PendingDebits
    <3>3. \A j \in PendingDebits(p) : payout'[j].amount = payout[j].amount
      BY <1>2, <3>1 DEF PendingDebits
    <3>4. Outstanding(p)' = Outstanding(p)
      BY <3>2, <3>3, OutstandingKept
    <3>5. Slack(p)' = Slack(p) + payout[k].amount
      BY <2>1, <2>2, <2>4, <2>6, <3>4 DEF Slack
    <3> QED
      BY <2>1, <2>2, <2>6, <3>5 DEF SlackKept
  <2> QED
    BY <2>3, <2>5, <2>6 DEF PayoutRow
<1> QED
  BY <1>4, <1>5

\* A new payout: its debit counts from now on.
LEMMA RequestSlack ==
  ASSUME IInv, PayoutsAreFinite, NEW t \in Transfer, ~Requested(t.key),
         payout' = [payout EXCEPT ![t.key] = NewPayout(t)],
         balance' = [balance EXCEPT ![t.provider] = @ - t.amount], UNCHANGED earned
  PROVE  PayoutsAreFinite' /\ \A p \in Providers : SlackKept(p)
<1>0. payout \in [Keys -> {NotRequested} \cup PayoutRow] /\ balance \in [Providers -> Int]
  BY DEF IInv, TypeOK
<1> PICK k \in Keys : k = t.key
  BY DEF Transfer
<1> PICK row \in PayoutRow :
      /\ row = NewPayout(t) /\ row.provider = t.provider /\ row.amount = t.amount
      /\ row.debit = "PENDING"
  BY NewPayoutRow
<1>1. t.provider \in Providers /\ t.amount \in Int
  BY AmountIsPositive DEF Transfer
<1>2. payout'[k] = row /\ \A j \in Keys \ {k} : payout'[j] = payout[j]
  BY <1>0
<1>3. Requested(k)' /\ ~Requested(k) /\ \A j \in Keys \ {k} : Requested(j)' <=> Requested(j)
  BY <1>2, RowIsRequested DEF Requested
<1>4. PayoutsAreFinite'
  <2>1. {j \in Keys : Requested(j)'} = {j \in Keys : Requested(j)} \cup {k}
    BY <1>3
  <2> QED
    BY <2>1, FS_AddElement DEF PayoutsAreFinite
<1>5. ASSUME NEW p \in Providers PROVE SlackKept(p)
  <2>1. /\ Slack(p) \in Int /\ Outstanding(p) \in Int /\ balance[p] \in Int
        /\ earned[p] \in Int /\ earned'[p] = earned[p]
    BY SlackTypes
  <2>2. k \notin PendingDebits(p)
    BY <1>3 DEF PendingDebits
  <2>3. \A j \in PendingDebits(p) : payout'[j].amount = payout[j].amount
    BY <1>2, <2>2 DEF PendingDebits
  <2>4. CASE p # t.provider
    <3>1. PendingDebits(p)' = PendingDebits(p)
      BY <1>2, <1>3, <2>4 DEF PendingDebits
    <3>2. Outstanding(p)' = Outstanding(p)
      BY <2>3, <3>1, OutstandingKept
    <3>3. balance'[p] = balance[p]
      BY <1>0, <2>4
    <3> QED
      BY <2>1, <3>2, <3>3 DEF SlackKept, Slack
  <2>5. CASE p = t.provider
    <3>1. PendingDebits(p)' = PendingDebits(p) \cup {k}
      BY <1>2, <1>3, <2>5 DEF PendingDebits
    <3>2. Outstanding(p)' = Outstanding(p) + t.amount
      BY <1>1, <1>2, <2>2, <2>3, <3>1, OutstandingGrows
    <3>3. balance'[p] = balance[p] - t.amount
      BY <1>0, <1>1, <2>5
    <3> QED
      BY <1>1, <2>1, <3>2, <3>3 DEF SlackKept, Slack
  <2> QED
    BY <2>4, <2>5
<1> QED
  BY <1>4, <1>5

LEMMA NothingLeft ==
  ASSUME NEW a \in Int, NEW b \in Int, NEW x \in Int, a + x - b = 0
  PROVE  a = b - x
OBVIOUS

\* A step that moves no debit: the payouts keep their amounts, and the wallet
\* and what was earned grow alike.
LEMMA QuietSlack ==
  ASSUME IInv, PayoutsAreFinite,
         \A k \in Keys : /\ Requested(k)' <=> Requested(k)
                         /\ Requested(k) => /\ payout'[k].provider = payout[k].provider
                                            /\ payout'[k].amount = payout[k].amount
                                            /\ payout'[k].debit = payout[k].debit,
         \A p \in Providers :
           \E x \in Int : balance'[p] = balance[p] + x /\ earned'[p] = earned[p] + x
  PROVE  PayoutsAreFinite' /\ \A p \in Providers : SlackKept(p)
<1>1. PayoutsAreFinite'
  BY DEF PayoutsAreFinite
<1>2. ASSUME NEW p \in Providers PROVE SlackKept(p)
  <2>1. PendingDebits(p)' = PendingDebits(p)
    BY DEF PendingDebits
  <2>2. \A k \in PendingDebits(p) : payout'[k].amount = payout[k].amount
    BY DEF PendingDebits
  <2>3. Outstanding(p)' = Outstanding(p)
    BY <2>1, <2>2, OutstandingKept
  <2>4. balance[p] \in Int /\ earned[p] \in Int /\ Outstanding(p) \in Int
    BY SlackTypes
  <2>5. PICK x \in Int : balance'[p] = balance[p] + x /\ earned'[p] = earned[p] + x
    OBVIOUS
  <2>6. balance'[p] + Outstanding(p) - earned'[p] = balance[p] + Outstanding(p) - earned[p]
    BY <2>4, <2>5
  <2> QED
    BY <2>3, <2>6 DEF SlackKept, Slack
<1> QED
  BY <1>1, <1>2

LEMMA StepSlack ==
  ASSUME IInv, PayoutsAreFinite, [Next]_vars
  PROVE  PayoutsAreFinite' /\ \A p \in Providers : SlackKept(p)
<1>a. /\ balance \in [Providers -> Int] /\ earned \in [Providers -> Nat]
      /\ payout \in [Keys -> {NotRequested} \cup PayoutRow]
  BY DEF IInv, TypeOK
<1>1. CASE UNCHANGED <<balance, earned, payout>>
  <2>1. \A p \in Providers : balance'[p] = balance[p] + 0 /\ earned'[p] = earned[p] + 0
    BY <1>a, <1>1
  <2> QED
    BY <1>1, <2>1, QuietSlack DEF Requested
<1>2. ASSUME NEW r \in Requests, CancelCommit(r) \/ ReviewCommit(r)
      PROVE  PayoutsAreFinite' /\ \A p \in Providers : SlackKept(p)
  <2>1. PICK q \in Request : q = req[r] /\ Sound(q)
    BY DEF IInv, TypeOK
  <2>2. /\ q.key \in Keys /\ payout[q.key] \in PayoutRow
        /\ q.op \in {"cancel", "review"}
        /\ q.op = "review" => q.status \in {"PROCESSING", "ON_HOLD", "REJECTED"}
    BY <1>2, <2>1, RequestKind DEF CancelCommit, ReviewCommit, IsAt, Sound
  <2>3. payout[q.key].debit = "CANCELLED" => VoidsAgain
    BY <2>1, <2>2 DEF VoidsAgain
  <2>4. ASSUME NEW s \in {"CANCELLED", "REJECTED"},
               payout' = [payout EXCEPT ![q.key] = Release(@, s)], Refund(q.key),
               UNCHANGED earned
        PROVE  PayoutsAreFinite' /\ \A p \in Providers : SlackKept(p)
    BY <2>2, <2>3, <2>4, ReleaseSlack
  <2>5. CASE CancelCommit(r)
    BY <2>1, <2>4, <2>5 DEF CancelCommit
  <2>6. CASE ReviewCommit(r) /\ q.status = "REJECTED"
    BY <2>1, <2>4, <2>6 DEF ReviewCommit
  <2>7. CASE ReviewCommit(r) /\ q.status # "REJECTED"
    <3>1. payout' = [payout EXCEPT ![q.key] = Mark(@, q.status)] /\ UNCHANGED <<balance, earned>>
      BY <2>1, <2>7 DEF ReviewCommit
    <3>2. PICK row \in PayoutRow :
            /\ row = Mark(payout[q.key], q.status)
            /\ row.provider = payout[q.key].provider /\ row.debit = payout[q.key].debit
            /\ row.amount = payout[q.key].amount
      <4>1. q.status \in PayoutStatus
        BY <2>1, <2>2, <2>7 DEF ReviewCommit, IsAt, PayoutStatus
      <4> QED
        BY <2>2, <4>1, MarkedRow
    <3>3. payout'[q.key] = row /\ \A j \in Keys \ {q.key} : payout'[j] = payout[j]
      BY <1>a, <2>2, <3>1, <3>2
    <3>4. \A k \in Keys : /\ Requested(k)' <=> Requested(k)
                          /\ Requested(k) => /\ payout'[k].provider = payout[k].provider
                                             /\ payout'[k].amount = payout[k].amount
                                             /\ payout'[k].debit = payout[k].debit
      BY <2>2, <3>2, <3>3, RowIsRequested DEF Requested
    <3>5. \A p \in Providers : balance'[p] = balance[p] + 0 /\ earned'[p] = earned[p] + 0
      BY <1>a, <3>1
    <3> QED
      BY <3>4, <3>5, QuietSlack
  <2> QED
    BY <1>2, <2>5, <2>6, <2>7
<1>3. ASSUME NEW r \in Requests, RequestCommit(r)
      PROVE  PayoutsAreFinite' /\ \A p \in Providers : SlackKept(p)
  <2>1. PICK q \in Request : q = req[r]
    BY DEF IInv, TypeOK
  <2>2. q.transfer \in Transfer
    BY <1>3, <2>1, RequestKind DEF RequestCommit, IsAt
  <2> QED
    BY <1>3, <2>1, <2>2, RequestSlack DEF RequestCommit
<1>4. ASSUME NEW p \in Providers, NEW amount \in Amounts, Earn(p, amount)
      PROVE  PayoutsAreFinite' /\ \A q \in Providers : SlackKept(q)
  <2>1. amount \in Int
    BY AmountIsPositive
  <2>2. UNCHANGED payout
    BY <1>4 DEF Earn
  <2>3. \A q \in Providers :
          \E x \in {0, amount} : balance'[q] = balance[q] + x /\ earned'[q] = earned[q] + x
    BY <1>a, <1>4, <2>1 DEF Earn
  <2> QED
    BY <2>1, <2>2, <2>3, QuietSlack DEF Requested
<1> QED
  BY <1>1, <1>2, <1>3, <1>4
     DEF Next, Proceed, vars, RequestBegin, CancelBegin, ReviewBegin, EditBegin, SubmitBegin,
         DefaultBegin, DeleteBegin, RequestCheckActive, DefaultClear, DeleteCheck, Fail,
         EditCommit, SubmitCommit, DefaultCommit, DeleteCommit, AddMethod, Verified

LEMMA InitSlack ==
  ASSUME Init
  PROVE  PayoutsAreFinite /\ \A p \in Providers : Slack(p) = 0
<1>1. {k \in Keys : Requested(k)} = {}
  BY DEF Init, Requested
<1>2. \A p \in Providers : PendingDebits(p) = {}
  BY <1>1 DEF PendingDebits
<1>3. \A p \in Providers : Outstanding(p) = 0
  BY <1>2, OutstandingIsSum, SumEmpty
<1>4. \A p \in Providers : balance[p] = 0 /\ earned[p] = 0
  BY DEF Init
<1> QED
  BY <1>1, <1>3, <1>4, FS_EmptySet DEF PayoutsAreFinite, Slack

MoneyInv == IInv /\ PayoutsAreFinite /\ \A p \in Providers : Slack(p) >= 0

\* Whatever requests overlap, and however often a payout is cancelled and
\* reviewed, the provider's wallet and its pending debits hold all it earned.
THEOREM ProviderLosesNothing == Spec => []NothingIsLost
<1>1. Init => MoneyInv
  BY InitIInv, InitSlack DEF MoneyInv
<1>2. MoneyInv /\ [Next]_vars => MoneyInv'
  <2> SUFFICES ASSUME MoneyInv, [Next]_vars PROVE MoneyInv'
    OBVIOUS
  <2>1. IInv' /\ PayoutsAreFinite' /\ \A p \in Providers : SlackKept(p)
    BY StepIInv, StepSlack DEF MoneyInv
  <2>2. ASSUME NEW p \in Providers PROVE Slack(p)' >= 0
    <3>1. Slack(p) \in Int /\ Slack(p) >= 0 /\ SlackKept(p)
      BY <2>1, SlackTypes DEF MoneyInv
    <3> QED
      BY <3>1 DEF SlackKept
  <2> QED
    BY <2>1, <2>2 DEF MoneyInv
<1>3. MoneyInv => NothingIsLost
  BY SlackTypes DEF MoneyInv, NothingIsLost, Slack
<1> QED
  BY <1>1, <1>2, <1>3, PTL DEF Spec

-----------------------------------------------------------------------------
(* What Payouts guarantees when its requests run one at a time.  Each      *)
(* request's check then still holds when the request writes, which is what *)
(* SInv says.                                                              *)

\* At most one request is in flight.
OneAtATime == \A r, s \in Requests : r = s

\* What a request has checked is still true.
StillHolds(q) ==
  /\ q.op \in {"preview", "create"} => Findable(q.transfer.method)
  /\ q.op = "create" => ~InUse(q.transfer.method)
  /\ q.op \in {"cancel", "review"} => payout[q.key].status \in {"PENDING", "ON_HOLD"}
  /\ q.op \in {"default", "makeDefault", "delete", "remove"} => Findable(q.method)
  /\ q.op = "makeDefault" =>
       \A n \in Methods :
         IsDefault(n) /\ method[n].provider = method[q.method].provider => n \in q.seen
  /\ q.op \in {"delete", "remove"} => (q.promote => IsDefault(q.method))
  /\ q.op = "remove" => ~InUse(q.method)

Kept == ActiveIsBacked /\ OnePayoutPerMethod /\ OneDefault

SInv == IInv /\ Kept /\ \A r \in Requests : StillHolds(req[r])

LEMMA IdleHolds == StillHolds(Idle)
BY DEF StillHolds, Idle

LEMMA InitSInv == Init => SInv
<1> SUFFICES ASSUME Init PROVE SInv
  OBVIOUS
<1>1. Kept
  BY DEF Init, Kept, ActiveIsBacked, OnePayoutPerMethod, OneDefault, IsDefault, Active,
         NotRequested, NotAdded
<1>2. \A r \in Requests : StillHolds(req[r])
  BY IdleHolds DEF Init
<1> QED
  BY <1>1, <1>2, InitIInv DEF SInv

\* A step that writes the only request there is.
LEMMA OnlyOneWritten ==
  ASSUME OneAtATime, IInv, IInv', Kept', NEW r \in Requests, NEW q, StillHolds(q)',
         req' = [req EXCEPT ![r] = q]
  PROVE  SInv'
<1>1. ASSUME NEW s \in Requests PROVE StillHolds(req[s])'
  <2>1. req'[s] = q
    BY DEF OneAtATime, IInv, TypeOK
  <2> QED
    BY <2>1 DEF StillHolds
<1> QED
  BY <1>1 DEF SInv

\* A step that reads leaves Kept alone.
LEMMA ReadingStep ==
  ASSUME OneAtATime, SInv, IInv', NEW r \in Requests, NEW q, StillHolds(q),
         req' = [req EXCEPT ![r] = q], UNCHANGED <<payout, method>>
  PROVE  SInv'
<1>1. Kept'
  BY DEF SInv, Kept, ActiveIsBacked, OnePayoutPerMethod, OneDefault, IsDefault, Findable
<1>2. StillHolds(q)'
  BY DEF StillHolds, Findable, InUse, IsDefault
<1> QED
  BY <1>1, <1>2, OnlyOneWritten DEF SInv

\* The reads that start a request establish what it relies on.
LEMMA BeginSerial ==
  ASSUME OneAtATime, SInv, IInv', NEW r \in Requests,
         \/ \E transfer \in Transfer : RequestBegin(r, transfer)
         \/ \E k \in Keys : CancelBegin(r, k)
         \/ \E k \in Keys, status \in {"PROCESSING", "ON_HOLD", "REJECTED"} :
              ReviewBegin(r, k, status)
         \/ \E m \in Methods, active \in BOOLEAN : EditBegin(r, m, active)
         \/ \E m \in Methods : SubmitBegin(r, m) \/ DefaultBegin(r, m) \/ DeleteBegin(r, m)
  PROVE  SInv'
<1>1. ASSUME NEW t \in Transfer, RequestBegin(r, t) PROVE SInv'
  <2> DEFINE q == [op |-> "preview", transfer |-> t]
  <2>1. StillHolds(q)
    BY <1>1 DEF RequestBegin, Payable, StillHolds
  <2>2. req' = [req EXCEPT ![r] = q] /\ UNCHANGED <<payout, method>>
    BY <1>1 DEF RequestBegin, Start
  <2> QED
    BY <2>1, <2>2, ReadingStep
<1>2. ASSUME NEW k \in Keys, CancelBegin(r, k) PROVE SInv'
  <2> DEFINE q == [op |-> "cancel", key |-> k]
  <2>1. StillHolds(q)
    BY <1>2 DEF CancelBegin, StillHolds
  <2>2. req' = [req EXCEPT ![r] = q] /\ UNCHANGED <<payout, method>>
    BY <1>2 DEF CancelBegin, Start
  <2> QED
    BY <2>1, <2>2, ReadingStep
<1>3. ASSUME NEW k \in Keys, NEW s \in {"PROCESSING", "ON_HOLD", "REJECTED"},
             ReviewBegin(r, k, s)
      PROVE SInv'
  <2> DEFINE q == [op |-> "review", key |-> k, status |-> s]
  <2>1. StillHolds(q)
    BY <1>3 DEF ReviewBegin, Reviewable, StillHolds
  <2>2. req' = [req EXCEPT ![r] = q] /\ UNCHANGED <<payout, method>>
    BY <1>3 DEF ReviewBegin, Start
  <2> QED
    BY <2>1, <2>2, ReadingStep
<1>4. ASSUME NEW m \in Methods, NEW active \in BOOLEAN, EditBegin(r, m, active) PROVE SInv'
  <2> DEFINE q == [op |-> "edit", method |-> m, active |-> active]
  <2>1. StillHolds(q)
    BY DEF StillHolds
  <2>2. req' = [req EXCEPT ![r] = q] /\ UNCHANGED <<payout, method>>
    BY <1>4 DEF EditBegin, Start
  <2> QED
    BY <2>1, <2>2, ReadingStep
<1>5. ASSUME NEW m \in Methods, SubmitBegin(r, m) PROVE SInv'
  <2> DEFINE q == [op |-> "submit", method |-> m]
  <2>1. StillHolds(q)
    BY DEF StillHolds
  <2>2. req' = [req EXCEPT ![r] = q] /\ UNCHANGED <<payout, method>>
    BY <1>5 DEF SubmitBegin, Start
  <2> QED
    BY <2>1, <2>2, ReadingStep
<1>6. ASSUME NEW m \in Methods, DefaultBegin(r, m) PROVE SInv'
  <2> DEFINE q == [op |-> "default", method |-> m]
  <2>1. StillHolds(q)
    BY <1>6 DEF DefaultBegin, Payable, StillHolds
  <2>2. req' = [req EXCEPT ![r] = q] /\ UNCHANGED <<payout, method>>
    BY <1>6 DEF DefaultBegin, Start
  <2> QED
    BY <2>1, <2>2, ReadingStep
<1>7. ASSUME NEW m \in Methods, DeleteBegin(r, m) PROVE SInv'
  <2>1. PICK promote : promote = method[m].default
    OBVIOUS
  <2> DEFINE q == [op |-> "delete", method |-> m, promote |-> promote]
  <2>2. StillHolds(q)
    BY <1>7, <2>1 DEF DeleteBegin, Findable, IsDefault, StillHolds
  <2>3. req' = [req EXCEPT ![r] = q] /\ UNCHANGED <<payout, method>>
    BY <1>7, <2>1 DEF DeleteBegin, Start
  <2> QED
    BY <2>2, <2>3, ReadingStep
<1> QED
  BY <1>1, <1>2, <1>3, <1>4, <1>5, <1>6, <1>7

\* The reads in the middle of a request add to it.
LEMMA MiddleSerial ==
  ASSUME OneAtATime, SInv, IInv', NEW r \in Requests,
         RequestCheckActive(r) \/ DefaultClear(r) \/ DeleteCheck(r) \/ Fail(r)
  PROVE  SInv'
<1>0. PICK p \in Request : p = req[r]
  BY DEF SInv, IInv, TypeOK
<1> StillHolds(p)
  BY <1>0 DEF SInv
<1>1. CASE RequestCheckActive(r)
  <2> DEFINE q == [op |-> "create", transfer |-> p.transfer]
  <2>1. StillHolds(q)
    BY <1>0, <1>1 DEF RequestCheckActive, IsAt, StillHolds
  <2>2. req' = [req EXCEPT ![r] = q] /\ UNCHANGED <<payout, method>>
    BY <1>0, <1>1 DEF RequestCheckActive, Continue
  <2> QED
    BY <2>1, <2>2, ReadingStep
<1>2. CASE DefaultClear(r)
  <2>1. PICK seen \in SUBSET Methods :
          seen = {n \in Methods : IsDefault(n) /\ method[n].provider = method[p.method].provider}
    OBVIOUS
  <2> DEFINE q == [op |-> "makeDefault", method |-> p.method, seen |-> seen]
  <2>2. StillHolds(q)
    BY <1>0, <1>2, <2>1 DEF DefaultClear, IsAt, StillHolds
  <2>3. req' = [req EXCEPT ![r] = q] /\ UNCHANGED <<payout, method>>
    BY <1>0, <1>2, <2>1 DEF DefaultClear, Continue
  <2> QED
    BY <2>2, <2>3, ReadingStep
<1>3. CASE DeleteCheck(r)
  <2> DEFINE q == [op |-> "remove", method |-> p.method, promote |-> p.promote]
  <2>1. StillHolds(q)
    BY <1>0, <1>3 DEF DeleteCheck, IsAt, StillHolds
  <2>2. req' = [req EXCEPT ![r] = q] /\ UNCHANGED <<payout, method>>
    BY <1>0, <1>3 DEF DeleteCheck, Continue
  <2> QED
    BY <2>1, <2>2, ReadingStep
<1>4. CASE Fail(r)
  BY <1>4, IdleHolds, ReadingStep DEF Fail, Finish
<1> QED
  BY <1>1, <1>2, <1>3, <1>4

\* A new payout is the only active one of its method; a review moves one that
\* is active and a cancellation ends one.
LEMMA PayoutSerial ==
  ASSUME OneAtATime, SInv, IInv', NEW r \in Requests,
         RequestCommit(r) \/ CancelCommit(r) \/ ReviewCommit(r)
  PROVE  SInv'
<1>0. PICK q \in Request : q = req[r]
  BY DEF SInv, IInv, TypeOK
<1> StillHolds(q) /\ Sound(q)
  BY <1>0 DEF SInv, IInv
<1>a. payout \in [Keys -> {NotRequested} \cup PayoutRow] /\ TypeOK
  BY DEF SInv, IInv, TypeOK
<1>b. OneDefault' /\ (\A m \in Methods : Findable(m) => Findable(m)')
  BY DEF SInv, Kept, OneDefault, IsDefault, Findable,
         RequestCommit, CancelCommit, ReviewCommit
\* It is enough to look at the payout the step writes.
<1>1. ASSUME NEW k \in Keys, NEW row \in PayoutRow,
             payout' = [payout EXCEPT ![k] = row],
             row.status \in Active => row.debit = "PENDING" /\ Findable(row.method),
             row.status \in Active =>
               \A j \in Keys \ {k} : ~(payout[j].status \in Active /\ payout[j].method = row.method),
             Finish(r)
      PROVE  SInv'
  <2>1. payout'[k] = row /\ \A j \in Keys \ {k} : payout'[j] = payout[j]
    BY <1>a, <1>1
  <2>2. ASSUME NEW j \in Keys, payout'[j].status \in Active
        PROVE  /\ payout'[j].debit = "PENDING"
               /\ method'[payout'[j].method].exists /\ ~method'[payout'[j].method].deleted
    <3>1. PICK x \in PayoutRow : x = payout'[j]
      BY <1>1, <2>1, <2>2, <1>a, StatusMeansRequested DEF Active, PayoutStatus
    <3>2. x.debit = "PENDING" /\ Findable(x.method) /\ x.method \in Methods
      BY <1>1, <2>1, <2>2, <3>1 DEF SInv, Kept, ActiveIsBacked, PayoutRow
    <3>3. method'[x.method].exists /\ ~method'[x.method].deleted
      BY <1>b, <3>2 DEF Findable
    <3> QED
      BY <3>1, <3>2, <3>3
  <2>3. ActiveIsBacked'
    BY <2>2 DEF ActiveIsBacked, Findable
  <2>4. OnePayoutPerMethod'
    BY <1>1, <2>1 DEF SInv, Kept, OnePayoutPerMethod
  <2>5. req' = [req EXCEPT ![r] = Idle] /\ StillHolds(Idle)'
    BY <1>1 DEF Finish, StillHolds, Idle
  <2> QED
    BY <1>b, <2>3, <2>4, <2>5, OnlyOneWritten DEF Kept, SInv
<1>2. CASE RequestCommit(r)
  <2> DEFINE t == q.transfer
  <2>1. q.op = "create" /\ t \in Transfer
    BY <1>0, <1>2, RequestKind DEF RequestCommit, IsAt
  <2>2. t.key \in Keys /\ payout' = [payout EXCEPT ![t.key] = NewPayout(t)] /\ Finish(r)
    BY <1>0, <1>2, <2>1 DEF RequestCommit, Transfer
  <2>3. NewPayout(t) \in PayoutRow /\ NewPayout(t).debit = "PENDING"
        /\ NewPayout(t).method = t.method
    BY <2>1, NewPayoutRow
  <2>4. Findable(t.method) /\ ~InUse(t.method)
    BY <2>1 DEF StillHolds
  <2> QED
    BY <1>1, <2>2, <2>3, <2>4 DEF InUse
\* The payout a cancellation or a review was started for is still open.
<1>3. ASSUME q.op \in {"cancel", "review"}
      PROVE  /\ q.key \in Keys /\ payout[q.key] \in PayoutRow
             /\ payout[q.key].debit = "PENDING" /\ Findable(payout[q.key].method)
             /\ \A j \in Keys \ {q.key} :
                  ~(payout[j].status \in Active /\ payout[j].method = payout[q.key].method)
  <2>1. q.key \in Keys /\ payout[q.key] \in PayoutRow
    BY <1>3, RequestKind DEF Sound
  <2>2. payout[q.key].status \in Active
    BY <1>3 DEF StillHolds, Active
  <2> QED
    BY <2>1, <2>2 DEF SInv, Kept, ActiveIsBacked, OnePayoutPerMethod
<1>4. ASSUME q.op \in {"cancel", "review"}, NEW s \in {"CANCELLED", "REJECTED"},
             payout' = [payout EXCEPT ![q.key] = Release(@, s)], Finish(r)
      PROVE  SInv'
  <2> DEFINE row == Release(payout[q.key], s)
  <2>1. row \in PayoutRow /\ row.status = s
    BY <1>3, <1>4, ReleasedRow DEF PayoutStatus
  <2>2. row.status \notin Active
    BY <2>1 DEF Active
  <2>3. payout' = [payout EXCEPT ![q.key] = row]
    BY <1>4
  <2> HIDE DEF row
  <2> QED
    BY <1>1, <1>3, <1>4, <2>1, <2>2, <2>3
<1>5. CASE CancelCommit(r)
  BY <1>0, <1>4, <1>5 DEF CancelCommit, IsAt
<1>6. CASE ReviewCommit(r)
  <2>1. q.op = "review" /\ q.status \in {"PROCESSING", "ON_HOLD", "REJECTED"} /\ Finish(r)
    BY <1>0, <1>6, RequestKind DEF ReviewCommit, IsAt
  <2>2. CASE q.status = "REJECTED"
    BY <1>0, <1>4, <1>6, <2>1, <2>2 DEF ReviewCommit
  <2>3. CASE q.status # "REJECTED"
    <3> DEFINE row == Mark(payout[q.key], q.status)
    <3>1. payout' = [payout EXCEPT ![q.key] = row]
      BY <1>0, <1>6, <2>3 DEF ReviewCommit
    <3>2. /\ row \in PayoutRow /\ row.debit = "PENDING"
          /\ row.method = payout[q.key].method
      BY <1>3, <2>1, MarkedRow DEF PayoutStatus
    <3> HIDE DEF row
    <3> QED
      BY <1>1, <1>3, <2>1, <3>1, <3>2
  <2> QED
    BY <2>2, <2>3
<1> QED
  BY <1>2, <1>5, <1>6

\* A step that adds or edits a method: what the properties read of the rows
\* there were stays the same, and a row it adds is not a default.
LEMMA MethodsEdited ==
  ASSUME SInv, UNCHANGED payout,
         \A m \in Methods : method[m] \in MethodRow =>
           /\ method'[m] \in MethodRow
           /\ method'[m].provider = method[m].provider
           /\ method'[m].default = method[m].default
           /\ method'[m].deleted = method[m].deleted,
         \A m \in Methods : method'[m].exists /\ method'[m].default => method[m] \in MethodRow
  PROVE  /\ Kept'
         /\ \A q \in Request : Sound(q) /\ StillHolds(q) => StillHolds(q)'
<1>1. \A m \in Methods : method[m].exists => method[m] \in MethodRow
  BY ExistsMeansAdded DEF SInv, IInv
<1>2. \A m \in Methods : Findable(m) => Findable(m)'
  BY <1>1 DEF Findable, MethodRow
<1>3. \A m \in Methods : IsDefault(m)' <=> IsDefault(m)
  BY <1>1 DEF IsDefault, MethodRow
<1>4. OneDefault'
  BY <1>1, <1>3 DEF SInv, Kept, OneDefault, IsDefault
<1>5. ActiveIsBacked' /\ OnePayoutPerMethod'
  <2>1. \A k \in Keys : payout[k].status \in Active => payout[k].method \in Methods
    BY StatusMeansRequested DEF SInv, IInv, Active, PayoutStatus, PayoutRow
  <2> QED
    BY <1>2, <2>1 DEF SInv, Kept, ActiveIsBacked, OnePayoutPerMethod, Findable
<1>6. ASSUME NEW q \in Request, Sound(q), StillHolds(q) PROVE StillHolds(q)'
  <2>1. q.op \in {"preview", "create"} => q.transfer.method \in Methods
    BY RequestKind DEF Transfer
  <2>2. q.op \in {"default", "makeDefault", "delete", "remove"} =>
          q.method \in Methods /\ method[q.method] \in MethodRow
    BY <1>6, RequestKind DEF Sound
  <2>3. q.op \in {"preview", "create"} => Findable(q.transfer.method)'
    BY <1>2, <1>6, <2>1 DEF StillHolds
  <2>4. q.op \in {"default", "makeDefault", "delete", "remove"} => Findable(q.method)'
    BY <1>2, <1>6, <2>2 DEF StillHolds
  <2>5. q.op \in {"delete", "remove"} => (q.promote => IsDefault(q.method)')
    BY <1>3, <1>6, <2>2 DEF StillHolds
  <2>6. q.op = "makeDefault" =>
          \A n \in Methods :
            IsDefault(n)' /\ method'[n].provider = method'[q.method].provider => n \in q.seen
    <3>1. \A n \in Methods : IsDefault(n) => method'[n].provider = method[n].provider
      BY <1>1 DEF IsDefault
    <3> QED
      BY <1>3, <1>6, <2>2, <3>1 DEF StillHolds
  <2> QED
    BY <1>6, <2>3, <2>4, <2>5, <2>6 DEF StillHolds, InUse
<1> QED
  BY <1>4, <1>5, <1>6 DEF Kept

\* The end of a request that wrote a method.
LEMMA MethodWritten ==
  ASSUME OneAtATime, SInv, IInv', Kept', NEW r \in Requests, Finish(r)
  PROVE  SInv'
<1>1. StillHolds(Idle)' /\ req' = [req EXCEPT ![r] = Idle]
  BY DEF StillHolds, Idle, Finish
<1> QED
  BY <1>1, OnlyOneWritten DEF SInv

LEMMA EditSerial ==
  ASSUME OneAtATime, SInv, IInv', NEW r \in Requests, EditCommit(r) \/ SubmitCommit(r)
  PROVE  SInv'
<1>0. PICK q \in Request : q = req[r] /\ Sound(q)
  BY DEF SInv, IInv, TypeOK
<1>1. q.op \in {"edit", "submit"} /\ q.method \in Methods /\ method[q.method] \in MethodRow
  BY <1>0, RequestKind DEF EditCommit, SubmitCommit, IsAt, Sound
<1>2. method \in [Methods -> {NotAdded} \cup MethodRow]
  BY DEF SInv, IInv, TypeOK
<1>3. ASSUME NEW row \in MethodRow,
             row.provider = method[q.method].provider,
             row.default = method[q.method].default,
             row.deleted = method[q.method].deleted,
             method' = [method EXCEPT ![q.method] = row], UNCHANGED payout, Finish(r)
      PROVE  SInv'
  <2>1. \A m \in Methods : method[m] \in MethodRow =>
          /\ method'[m] \in MethodRow
          /\ method'[m].provider = method[m].provider
          /\ method'[m].default = method[m].default
          /\ method'[m].deleted = method[m].deleted
    BY <1>1, <1>2, <1>3
  <2>2. \A m \in Methods : method'[m].exists => method[m] \in MethodRow
    BY <1>1, <1>2, <1>3, ExistsMeansAdded DEF SInv, IInv
  <2>3. Kept'
    BY <1>3, <2>1, <2>2, MethodsEdited
  <2> QED
    BY <1>3, <2>3, MethodWritten
<1>4. CASE EditCommit(r)
  <2>1. q.active \in BOOLEAN
    BY <1>0, <1>4, RequestKind DEF EditCommit, IsAt
  <2> DEFINE row == WithActive(method[q.method], q.active)
  <2>2. /\ row \in MethodRow /\ row.provider = method[q.method].provider
        /\ row.default = method[q.method].default /\ row.deleted = method[q.method].deleted
    BY <1>1, <2>1, FlaggedRow
  <2>3. method' = [method EXCEPT ![q.method] = row] /\ UNCHANGED payout /\ Finish(r)
    BY <1>0, <1>4 DEF EditCommit
  <2> HIDE DEF row
  <2> QED
    BY <1>3, <2>2, <2>3
<1>5. CASE SubmitCommit(r)
  <2> DEFINE row == WithVerified(method[q.method], FALSE)
  <2>1. /\ row \in MethodRow /\ row.provider = method[q.method].provider
        /\ row.default = method[q.method].default /\ row.deleted = method[q.method].deleted
    BY <1>1, FlaggedRow
  <2>2. method' = [method EXCEPT ![q.method] = row] /\ UNCHANGED payout /\ Finish(r)
    BY <1>0, <1>5 DEF SubmitCommit
  <2> HIDE DEF row
  <2> QED
    BY <1>3, <2>1, <2>2
<1> QED
  BY <1>4, <1>5

\* Kept' from what a step does to the rows of the methods when the payouts
\* stay as they are.
LEMMA MethodsRewritten ==
  ASSUME SInv, UNCHANGED payout, TypeOK',
         \A m \in Methods : Findable(m) /\ InUse(m) =>
           method'[m].exists /\ ~method'[m].deleted,
         \A m \in Methods : method'[m].exists /\ method'[m].default => ~method'[m].deleted,
         \A m, n \in Methods :
           /\ method'[m].exists /\ method'[m].default
           /\ method'[n].exists /\ method'[n].default
           /\ method'[m].provider = method'[n].provider
           => m = n
  PROVE  Kept'
<1>1. \A k \in Keys : payout[k].status \in Active =>
        payout[k].method \in Methods /\ Findable(payout[k].method) /\ InUse(payout[k].method)
  BY StatusMeansRequested
     DEF SInv, IInv, Kept, ActiveIsBacked, Active, PayoutStatus, PayoutRow, InUse
<1>2. ActiveIsBacked' /\ OnePayoutPerMethod'
  BY <1>1 DEF SInv, Kept, ActiveIsBacked, OnePayoutPerMethod, Findable
<1>3. OneDefault'
  BY DEF OneDefault, IsDefault
<1> QED
  BY <1>2, <1>3 DEF Kept

LEMMA DefaultSerial ==
  ASSUME OneAtATime, SInv, IInv', NEW r \in Requests, DefaultCommit(r)
  PROVE  SInv'
<1>0. PICK q \in Request : q = req[r] /\ Sound(q) /\ StillHolds(q)
  BY DEF SInv, IInv, TypeOK
<1>1. /\ q.op = "makeDefault" /\ q.method \in Methods
      /\ method[q.method] \in MethodRow
      /\ \A n \in q.seen : method[n] \in MethodRow
  BY <1>0, RequestKind DEF DefaultCommit, IsAt, Sound
<1>2. /\ method' = [m \in Methods |->
                       IF m = q.method THEN WithDefault(method[m], TRUE)
                       ELSE IF m \in q.seen THEN WithDefault(method[m], FALSE)
                       ELSE method[m]]
      /\ UNCHANGED payout
  BY <1>0 DEF DefaultCommit
<1>3. \A row \in MethodRow, flag \in BOOLEAN :
        /\ WithDefault(row, flag).exists
        /\ WithDefault(row, flag).provider = row.provider
        /\ WithDefault(row, flag).default = flag
        /\ WithDefault(row, flag).deleted = row.deleted
  BY DefaultRow
<1>4. ~method[q.method].deleted
  BY <1>0, <1>1 DEF StillHolds, Findable
<1>5. ASSUME NEW m \in Methods
      PROVE  /\ method[m] \in MethodRow =>
                  /\ method'[m].exists
                  /\ method'[m].provider = method[m].provider
                  /\ method'[m].deleted = method[m].deleted
             /\ method'[m].exists /\ method'[m].default =>
                  m = q.method \/ (IsDefault(m) /\ m \notin q.seen)
  <2>1. CASE m = q.method
    BY <1>1, <1>2, <1>3, <2>1
  <2>2. CASE m # q.method /\ m \in q.seen
    BY <1>1, <1>2, <1>3, <2>2
  <2>3. CASE m # q.method /\ m \notin q.seen
    BY <1>2, <2>3 DEF IsDefault, MethodRow
  <2> QED
    BY <2>1, <2>2, <2>3
<1>6. \A m \in Methods : method[m].exists => method[m] \in MethodRow
  BY ExistsMeansAdded DEF SInv, IInv
<1>7. \A m \in Methods : Findable(m) => method'[m].exists /\ ~method'[m].deleted
  BY <1>5, <1>6 DEF Findable
<1>8. \A m \in Methods : method'[m].exists /\ method'[m].default => ~method'[m].deleted
  BY <1>1, <1>4, <1>5, <1>6 DEF SInv, Kept, OneDefault, IsDefault
<1>9. ASSUME NEW m \in Methods, NEW n \in Methods,
             method'[m].exists, method'[m].default, method'[n].exists, method'[n].default,
             method'[m].provider = method'[n].provider
      PROVE  m = n
  <2>1. \A x \in Methods : IsDefault(x) /\ method[x].provider = method[q.method].provider
                            => x \in q.seen
    BY <1>0, <1>1 DEF StillHolds
  <2>2. method[m] \in MethodRow /\ method[n] \in MethodRow
    BY <1>1, <1>5, <1>6, <1>9 DEF IsDefault
  <2>3. method[m].provider = method[n].provider
    BY <1>5, <1>9, <2>2
  <2>4. m = q.method \/ (IsDefault(m) /\ m \notin q.seen)
    BY <1>5, <1>9
  <2>5. n = q.method \/ (IsDefault(n) /\ n \notin q.seen)
    BY <1>5, <1>9
  <2>6. CASE IsDefault(m) /\ IsDefault(n)
    BY <2>3, <2>6 DEF SInv, Kept, OneDefault
  <2> QED
    BY <2>1, <2>3, <2>4, <2>5, <2>6
<1>10. Kept'
  BY <1>2, <1>7, <1>8, <1>9, MethodsRewritten DEF IInv
<1> QED
  BY <1>10, MethodWritten DEF DefaultCommit

LEMMA DeleteSerial ==
  ASSUME OneAtATime, SInv, IInv', NEW r \in Requests, DeleteCommit(r)
  PROVE  SInv'
<1>0. PICK q \in Request : q = req[r] /\ Sound(q) /\ StillHolds(q)
  BY DEF SInv, IInv, TypeOK
<1>1. /\ q.op = "remove" /\ q.method \in Methods /\ q.promote \in BOOLEAN
      /\ method[q.method] \in MethodRow
      /\ ~InUse(q.method)
      /\ q.promote => IsDefault(q.method)
  BY <1>0, RequestKind DEF DeleteCommit, IsAt, Sound, StillHolds
<1>2. method \in [Methods -> {NotAdded} \cup MethodRow]
  BY DEF SInv, IInv, TypeOK
<1>3. \A m \in Methods : method[m].exists => method[m] \in MethodRow
  BY ExistsMeansAdded DEF SInv, IInv
<1>4. PICK gone \in MethodRow :
        /\ gone = Deleted(method[q.method])
        /\ gone.default = FALSE
        /\ gone.provider = method[q.method].provider
  BY <1>1, DeletedRow
<1> DEFINE removed == [method EXCEPT ![q.method] = gone]
<1>5. UNCHANGED payout
  BY DEF DeleteCommit
<1>6. CASE method' = removed
  <2>1. \A m \in Methods \ {q.method} : method'[m] = method[m]
    BY <1>2, <1>6
  <2>2. method'[q.method] = gone
    BY <1>1, <1>2, <1>6
  <2>3. \A m \in Methods : Findable(m) /\ InUse(m) => method'[m].exists /\ ~method'[m].deleted
    BY <1>1, <2>1 DEF Findable
  <2>4. \A m \in Methods : method'[m].exists /\ method'[m].default =>
          m # q.method /\ IsDefault(m)
    BY <1>4, <2>1, <2>2 DEF IsDefault
  <2>5. \A m \in Methods : method'[m].exists /\ method'[m].default => ~method'[m].deleted
    BY <2>1, <2>4 DEF SInv, Kept, OneDefault
  <2>6. ASSUME NEW m \in Methods, NEW n \in Methods,
               method'[m].exists, method'[m].default, method'[n].exists, method'[n].default,
               method'[m].provider = method'[n].provider
        PROVE  m = n
    BY <2>1, <2>4, <2>6 DEF SInv, Kept, OneDefault
  <2> QED
    BY <1>5, <2>3, <2>5, <2>6, MethodsRewritten, MethodWritten DEF DeleteCommit, IInv
<1>7. ASSUME NEW x \in Methods \ {q.method}, q.promote, Payable(x),
             method[x].provider = method[q.method].provider,
             method' = [removed EXCEPT ![x] = WithDefault(@, TRUE)]
      PROVE  SInv'
  <2>1. removed \in [Methods -> {NotAdded} \cup MethodRow] /\ removed[x] = method[x]
    BY <1>2
  <2>2. PICK new \in MethodRow :
          /\ new = WithDefault(method[x], TRUE)
          /\ new.exists /\ new.provider = method[x].provider /\ new.deleted = method[x].deleted
    BY <1>3, <1>7, DefaultRow DEF Payable, Findable
  <2>3. method' = [removed EXCEPT ![x] = new]
    BY <1>7, <2>1, <2>2
  <2>4. method'[x] = new
    BY <2>1, <2>3
  <2>5. method'[q.method] = gone
    BY <1>1, <1>2, <2>1, <2>3
  <2>6. \A m \in Methods \ {q.method, x} : method'[m] = method[m]
    BY <1>2, <2>1, <2>3
  <2>7. ~new.deleted
    BY <1>7, <2>2 DEF Payable, Findable
  <2>8. \A m \in Methods : Findable(m) /\ InUse(m) => method'[m].exists /\ ~method'[m].deleted
    BY <1>1, <2>2, <2>4, <2>6, <2>7 DEF Findable
  \* The deleted method was the default, so no other of its provider's is.
  <2>9. \A m \in Methods \ {q.method} :
          IsDefault(m) => method[m].provider # method[q.method].provider
    BY <1>1, <1>7 DEF SInv, Kept, OneDefault
  <2>10. \A m \in Methods : method'[m].exists /\ method'[m].default =>
           m # q.method /\ (m = x \/ IsDefault(m))
    BY <1>4, <2>5, <2>6 DEF IsDefault
  <2>11. \A m \in Methods : method'[m].exists /\ method'[m].default => ~method'[m].deleted
    BY <2>4, <2>6, <2>7, <2>10 DEF SInv, Kept, OneDefault
  <2>12. \A m \in Methods \ {q.method} : method'[m].provider = method[m].provider
    BY <2>2, <2>4, <2>6
  <2>13. ASSUME NEW m \in Methods, NEW n \in Methods,
                method'[m].exists, method'[m].default, method'[n].exists, method'[n].default,
                method'[m].provider = method'[n].provider
         PROVE  m = n
    <3>1. /\ m # q.method /\ n # q.method
          /\ m = x \/ IsDefault(m)
          /\ n = x \/ IsDefault(n)
      BY <2>10, <2>13
    <3>2. method[m].provider = method[n].provider
      BY <2>12, <2>13, <3>1
    <3>3. CASE IsDefault(m) /\ IsDefault(n)
      BY <3>2, <3>3 DEF SInv, Kept, OneDefault
    <3> QED
      BY <1>7, <2>9, <3>1, <3>2, <3>3
  <2> HIDE DEF removed
  <2> QED
    BY <1>5, <2>8, <2>11, <2>13, MethodsRewritten, MethodWritten DEF DeleteCommit, IInv
<1> HIDE DEF removed
<1>8. removed = [method EXCEPT ![q.method] = Deleted(@)]
  BY <1>4 DEF removed
<1>9. \/ method' = removed
      \/ /\ q.promote
         /\ \E x \in Methods \ {q.method} :
              /\ Payable(x) /\ method[x].provider = method[q.method].provider
              /\ method' = [removed EXCEPT ![x] = WithDefault(@, TRUE)]
  BY <1>0, <1>8 DEF DeleteCommit
<1> QED
  BY <1>6, <1>7, <1>9

\* A step of the environment, which leaves the requests as they are.
LEMMA EnvironmentSerial ==
  ASSUME SInv, IInv', Environment
  PROVE  SInv'
<1>1. method \in [Methods -> {NotAdded} \cup MethodRow]
  BY DEF SInv, IInv, TypeOK
<1>2. \A m \in Methods : method[m].exists => method[m] \in MethodRow
  BY ExistsMeansAdded DEF SInv, IInv
<1>3. UNCHANGED <<payout, req>>
  BY DEF Environment, Earn, AddMethod, Verified
<1>4. /\ \A m \in Methods : method[m] \in MethodRow =>
           /\ method'[m] \in MethodRow
           /\ method'[m].provider = method[m].provider
           /\ method'[m].default = method[m].default
           /\ method'[m].deleted = method[m].deleted
      /\ \A m \in Methods : method'[m].exists /\ method'[m].default => method[m] \in MethodRow
  <2>1. CASE UNCHANGED method
    BY <1>2, <2>1
  <2>2. ASSUME NEW m \in Methods, NEW p \in Providers, AddMethod(m, p) PROVE <1>4!:
    <3> DEFINE row == [exists |-> TRUE, provider |-> p, verified |-> FALSE, active |-> TRUE,
                       default |-> FALSE, deleted |-> FALSE]
    <3>1. row.default = FALSE
      OBVIOUS
    <3>2. method' = [method EXCEPT ![m] = row]
      BY <2>2 DEF AddMethod
    <3>3. \A x \in MethodRow : x.exists = TRUE
      BY DEF MethodRow
    <3>4. method[m] \notin MethodRow
      BY <2>2, <3>3 DEF AddMethod, NotAdded
    <3> HIDE DEF row
    <3> QED
      BY <1>1, <1>2, <3>1, <3>2, <3>4
  <2>3. ASSUME NEW m \in Methods, Verified(m) PROVE <1>4!:
    <3>1. method[m] \in MethodRow
      BY <1>2, <2>3 DEF Verified
    <3>2. PICK row \in MethodRow :
            /\ row = WithVerified(method[m], TRUE)
            /\ row.provider = method[m].provider
            /\ row.default = method[m].default
            /\ row.deleted = method[m].deleted
      BY <3>1, FlaggedRow
    <3>3. method' = [method EXCEPT ![m] = row]
      BY <2>3, <3>2 DEF Verified
    <3> QED
      BY <1>1, <1>2, <3>1, <3>2, <3>3
  <2> QED
    BY <2>1, <2>2, <2>3 DEF Environment, Earn
<1>5. Kept' /\ \A q \in Request : Sound(q) /\ StillHolds(q) => StillHolds(q)'
  BY <1>3, <1>4, MethodsEdited
<1>6. ASSUME NEW r \in Requests PROVE StillHolds(req[r])'
  <2>1. PICK q \in Request : q = req[r]
    BY DEF SInv, IInv, TypeOK
  <2>2. StillHolds(q)'
    BY <1>5, <2>1 DEF SInv, IInv
  <2>3. q = req'[r]
    BY <1>3, <2>1
  <2> QED
    BY <2>2, <2>3 DEF StillHolds
<1> QED
  BY <1>5, <1>6 DEF SInv

LEMMA StepSInv == OneAtATime /\ SInv /\ [Next]_vars => SInv'
<1> SUFFICES ASSUME OneAtATime, SInv, [Next]_vars PROVE SInv'
  OBVIOUS
<1>1. IInv'
  BY StepIInv DEF SInv
<1>2. ASSUME NEW r \in Requests, Proceed(r) PROVE SInv'
  BY <1>1, <1>2, MiddleSerial, PayoutSerial, EditSerial, DefaultSerial, DeleteSerial DEF Proceed
<1>3. CASE Environment
  BY <1>1, <1>3, EnvironmentSerial
<1>4. CASE UNCHANGED vars
  BY <1>4 DEF vars, SInv, IInv, TypeOK, Sound, Kept, ActiveIsBacked, OnePayoutPerMethod,
              OneDefault, StillHolds, Findable, InUse, IsDefault, Requested
<1> QED
  BY <1>1, <1>2, <1>3, <1>4, BeginSerial DEF Next, Environment

\* Requests that do not overlap never leave two active payouts for a method.
THEOREM OnePayoutSerially == OneAtATime => (Spec => []OnePayoutPerMethod)
<1> SUFFICES ASSUME OneAtATime PROVE Spec => []OnePayoutPerMethod
  OBVIOUS
<1>1. SInv /\ [Next]_vars => SInv'
  BY StepSInv
<1>2. SInv => OnePayoutPerMethod
  BY DEF SInv, Kept
<1> QED
  BY <1>1, <1>2, InitSInv, PTL DEF Spec

\* Requests that do not overlap never leave an active payout without its debit
\* or with a deleted destination.
THEOREM ActiveIsBackedSerially == OneAtATime => (Spec => []ActiveIsBacked)
<1> SUFFICES ASSUME OneAtATime PROVE Spec => []ActiveIsBacked
  OBVIOUS
<1>1. SInv /\ [Next]_vars => SInv'
  BY StepSInv
<1>2. SInv => ActiveIsBacked
  BY DEF SInv, Kept
<1> QED
  BY <1>1, <1>2, InitSInv, PTL DEF Spec

\* Requests that do not overlap never leave a provider with two default methods
\* or with a deleted one.
THEOREM OneDefaultSerially == OneAtATime => (Spec => []OneDefault)
<1> SUFFICES ASSUME OneAtATime PROVE Spec => []OneDefault
  OBVIOUS
<1>1. SInv /\ [Next]_vars => SInv'
  BY StepSInv
<1>2. SInv => OneDefault
  BY DEF SInv, Kept
<1> QED
  BY <1>1, <1>2, InitSInv, PTL DEF Spec

-----------------------------------------------------------------------------
(* The money of requests that run one at a time.                           *)

\* A payout that is being requested is covered by its provider's wallet.
RequestsAreFunded ==
  \A r \in Requests :
    req[r].op \in {"preview", "create"} =>
      req[r].transfer.amount <= balance[req[r].transfer.provider]

SerialMoneyInv ==
  /\ SInv
  /\ PayoutsAreFinite
  /\ \A p \in Providers : Slack(p) = 0 /\ balance[p] >= 0
  /\ RequestsAreFunded

LEMMA OnlyOneFunded ==
  ASSUME OneAtATime, IInv, NEW r \in Requests, NEW q, req' = [req EXCEPT ![r] = q],
         q.op \in {"preview", "create"} => q.transfer.amount <= balance'[q.transfer.provider]
  PROVE  RequestsAreFunded'
<1>1. \A s \in Requests : req'[s] = q
  BY DEF OneAtATime, IInv, TypeOK
<1> QED
  BY <1>1 DEF RequestsAreFunded

\* The balance a request has read covers it until it commits.
LEMMA FundedStep ==
  ASSUME OneAtATime, IInv, RequestsAreFunded, Next
  PROVE  RequestsAreFunded'
<1>1. ASSUME NEW r \in Requests, NEW q, q.op \notin {"preview", "create"},
             req' = [req EXCEPT ![r] = q]
      PROVE  RequestsAreFunded'
  BY <1>1, OnlyOneFunded
<1>2. ASSUME NEW r \in Requests, NEW t \in Transfer, RequestBegin(r, t) PROVE RequestsAreFunded'
  <2> DEFINE q == [op |-> "preview", transfer |-> t]
  <2>1. req' = [req EXCEPT ![r] = q] /\ t.amount <= balance'[t.provider]
    BY <1>2 DEF RequestBegin, Start
  <2> QED
    BY <2>1, OnlyOneFunded
<1>3. ASSUME NEW r \in Requests, RequestCheckActive(r) PROVE RequestsAreFunded'
  <2>1. PICK t : t = req[r].transfer
    OBVIOUS
  <2> DEFINE q == [op |-> "create", transfer |-> t]
  <2>2. req' = [req EXCEPT ![r] = q] /\ t.amount <= balance'[t.provider]
    BY <1>3, <2>1 DEF RequestCheckActive, Continue, IsAt, RequestsAreFunded
  <2> QED
    BY <2>2, OnlyOneFunded
<1>4. ASSUME NEW r \in Requests,
             \/ \E k \in Keys : CancelBegin(r, k)
             \/ \E k \in Keys, status \in {"PROCESSING", "ON_HOLD", "REJECTED"} :
                  ReviewBegin(r, k, status)
             \/ \E m \in Methods, active \in BOOLEAN : EditBegin(r, m, active)
             \/ \E m \in Methods : SubmitBegin(r, m) \/ DefaultBegin(r, m) \/ DeleteBegin(r, m)
      PROVE  RequestsAreFunded'
  BY <1>1, <1>4 DEF CancelBegin, ReviewBegin, EditBegin, SubmitBegin, DefaultBegin, DeleteBegin,
                    Start
<1>5. ASSUME NEW r \in Requests, Proceed(r), ~RequestCheckActive(r) PROVE RequestsAreFunded'
  <2>1. CASE Finish(r)
    BY <1>1, <2>1 DEF Finish, Idle
  <2>2. CASE DefaultClear(r) \/ DeleteCheck(r)
    BY <1>1, <2>2 DEF DefaultClear, DeleteCheck, Continue
  <2> QED
    BY <1>5, <2>1, <2>2 DEF Proceed, RequestCommit, CancelCommit, ReviewCommit, EditCommit,
                            SubmitCommit, DefaultCommit, DeleteCommit, Fail
<1>6. CASE Environment
  <2>1. UNCHANGED req
    BY <1>6 DEF Environment, Earn, AddMethod, Verified
  <2>2. \A p \in Providers : balance'[p] \in Int /\ balance[p] \in Int /\ balance'[p] >= balance[p]
    <3>1. balance \in [Providers -> Int]
      BY DEF IInv, TypeOK
    <3>2. ASSUME NEW p \in Providers, NEW amount \in Amounts, Earn(p, amount) PROVE <2>2
      <4>1. amount \in Int /\ amount > 0
        BY AmountIsPositive
      <4> QED
        BY <3>1, <3>2, <4>1 DEF Earn
    <3>3. CASE UNCHANGED balance
      BY <3>1, <3>3
    <3> QED
      BY <1>6, <3>2, <3>3 DEF Environment, AddMethod, Verified
  <2>3. ASSUME NEW r \in Requests, req[r].op \in {"preview", "create"}
        PROVE  req[r].transfer.amount <= balance'[req[r].transfer.provider]
    <3>1. PICK t \in Transfer : t = req[r].transfer
      BY <2>3, RequestKind DEF IInv, TypeOK
    <3>2. t.provider \in Providers /\ t.amount \in Int /\ t.amount <= balance[t.provider]
      BY <2>3, <3>1, AmountIsPositive DEF Transfer, RequestsAreFunded
    <3>3. t.amount <= balance'[t.provider]
      BY <2>2, <3>2
    <3> QED
      BY <3>1, <3>3
  <2> QED
    BY <2>1, <2>3 DEF RequestsAreFunded
<1> QED
  BY <1>2, <1>3, <1>4, <1>5, <1>6 DEF Next, Environment

\* No wallet goes below zero.
LEMMA NotOverdrawn ==
  ASSUME IInv, RequestsAreFunded, [Next]_vars, \A p \in Providers : balance[p] >= 0
  PROVE  \A p \in Providers : balance'[p] >= 0
<1>a. balance \in [Providers -> Int]
  BY DEF IInv, TypeOK
<1>1. CASE UNCHANGED balance
  BY <1>1
<1>2. ASSUME NEW q \in Providers, NEW x \in Amounts, balance' = [balance EXCEPT ![q] = @ + x]
      PROVE  \A p \in Providers : balance'[p] >= 0
  BY <1>a, <1>2, AmountIsPositive
<1>3. ASSUME NEW r \in Requests, CancelCommit(r) \/ ReviewCommit(r)
      PROVE  \A p \in Providers : balance'[p] >= 0
  <2>1. PICK q \in Request : q = req[r] /\ Sound(q)
    BY DEF IInv, TypeOK
  <2>2. q.key \in Keys /\ payout[q.key] \in PayoutRow
    BY <1>3, <2>1, RequestKind DEF CancelCommit, ReviewCommit, IsAt, Sound
  <2>3. Refund(q.key) => \A p \in Providers : balance'[p] >= 0
    BY <1>2, <2>2 DEF Refund, PayoutRow
  <2> QED
    BY <1>1, <1>3, <2>1, <2>3 DEF CancelCommit, ReviewCommit
<1>4. ASSUME NEW r \in Requests, RequestCommit(r) PROVE \A p \in Providers : balance'[p] >= 0
  <2>1. PICK q \in Request : q = req[r]
    BY DEF IInv, TypeOK
  <2>2. PICK t \in Transfer : t = q.transfer /\ q.op = "create"
    BY <1>4, <2>1, RequestKind DEF RequestCommit, IsAt
  <2>3. t.provider \in Providers /\ t.amount \in Int /\ t.amount <= balance[t.provider]
    BY <2>1, <2>2, AmountIsPositive DEF RequestsAreFunded, Transfer
  <2>4. balance' = [balance EXCEPT ![t.provider] = @ - t.amount]
    BY <1>4, <2>1, <2>2 DEF RequestCommit
  <2> QED
    BY <1>a, <2>3, <2>4
<1>5. ASSUME NEW p \in Providers, NEW amount \in Amounts, Earn(p, amount)
      PROVE  \A q \in Providers : balance'[q] >= 0
  BY <1>2, <1>5 DEF Earn
<1> QED
  BY <1>1, <1>3, <1>4, <1>5
     DEF Next, Proceed, vars, RequestBegin, CancelBegin, ReviewBegin, EditBegin, SubmitBegin,
         DefaultBegin, DeleteBegin, RequestCheckActive, DefaultClear, DeleteCheck, Fail,
         EditCommit, SubmitCommit, DefaultCommit, DeleteCommit, AddMethod, Verified

LEMMA SerialMoneyStep == OneAtATime /\ SerialMoneyInv /\ [Next]_vars => SerialMoneyInv'
<1> SUFFICES ASSUME OneAtATime, SerialMoneyInv, [Next]_vars PROVE SerialMoneyInv'
  OBVIOUS
<1>a. SInv /\ IInv /\ PayoutsAreFinite /\ RequestsAreFunded /\ \A p \in Providers : balance[p] >= 0
  BY DEF SerialMoneyInv, SInv
<1>1. SInv' /\ PayoutsAreFinite' /\ \A p \in Providers : SlackKept(p)
  BY <1>a, StepSInv, StepSlack
\* The payout of the one request there is has not been released.
<1>2. ~VoidsAgain
  <2>1. ASSUME NEW r \in Requests, req[r].op \in {"cancel", "review"}
        PROVE  payout[req[r].key].debit = "PENDING"
    <3>1. PICK q \in Request : q = req[r] /\ StillHolds(q)
      BY <1>a DEF SInv, IInv, TypeOK
    <3>2. q.key \in Keys /\ payout[q.key].status \in Active
      BY <2>1, <3>1, RequestKind DEF StillHolds, Active
    <3> QED
      BY <1>a, <3>1, <3>2 DEF SInv, Kept, ActiveIsBacked
  <2> QED
    BY <2>1 DEF VoidsAgain
<1>3. \A p \in Providers : Slack(p)' = 0
  BY <1>1, <1>2 DEF SlackKept, SerialMoneyInv
<1>4. RequestsAreFunded'
  BY <1>a, FundedStep DEF vars, RequestsAreFunded
<1>5. \A p \in Providers : balance'[p] >= 0
  BY <1>a, NotOverdrawn
<1> QED
  BY <1>1, <1>3, <1>4, <1>5 DEF SerialMoneyInv

\* When requests do not overlap, a provider can withdraw exactly what it has
\* earned less its pending debits, and never more than it has.
THEOREM BalanceIsExactSerially == OneAtATime => (Spec => []BalanceIsExact)
<1> SUFFICES ASSUME OneAtATime PROVE Spec => []BalanceIsExact
  OBVIOUS
<1>1. Init => SerialMoneyInv
  <2> SUFFICES ASSUME Init PROVE SerialMoneyInv
    OBVIOUS
  <2>1. RequestsAreFunded /\ \A p \in Providers : balance[p] >= 0
    BY DEF Init, RequestsAreFunded, Idle
  <2> QED
    BY <2>1, InitSInv, InitSlack DEF SerialMoneyInv
<1>2. SerialMoneyInv /\ [Next]_vars => SerialMoneyInv'
  BY SerialMoneyStep
<1>3. SerialMoneyInv => BalanceIsExact
  <2> SUFFICES ASSUME SerialMoneyInv, NEW p \in Providers
               PROVE  balance[p] = earned[p] - Outstanding(p) /\ balance[p] >= 0
    BY DEF BalanceIsExact
  <2>1. /\ balance[p] \in Int /\ earned[p] \in Int /\ Outstanding(p) \in Int
        /\ balance[p] + Outstanding(p) - earned[p] = 0 /\ balance[p] >= 0
    BY SlackTypes DEF SerialMoneyInv, SInv, Slack
  <2> QED
    BY <2>1, NothingLeft
<1> QED
  BY <1>1, <1>2, <1>3, PTL DEF Spec


-----------------------------------------------------------------------------
(* What is decided stays decided.                                          *)

\* A payout is written while it is open; it begins as pending.
OnlyOpenIsWritten ==
  \A k \in Keys :
    payout'[k] # payout[k] =>
      \/ ~Requested(k) /\ payout'[k].status = "PENDING"
      \/ payout[k].status \in {"PENDING", "ON_HOLD"}

ApprovedFromOpen ==
  \A k \in Keys :
    payout'[k].status = "PROCESSING" /\ payout[k].status # "PROCESSING" =>
      payout[k].status \in {"PENDING", "ON_HOLD"}

LEMMA StepOnlyOpenIsWritten == SInv /\ [Next]_vars => OnlyOpenIsWritten
<1> SUFFICES ASSUME SInv, [Next]_vars PROVE OnlyOpenIsWritten
  OBVIOUS
<1>a. payout \in [Keys -> {NotRequested} \cup PayoutRow]
  BY DEF SInv, IInv, TypeOK
<1>1. CASE UNCHANGED payout
  BY <1>1 DEF OnlyOpenIsWritten
<1>2. ASSUME NEW key \in Keys, NEW row, payout' = [payout EXCEPT ![key] = row],
             \/ ~Requested(key) /\ row.status = "PENDING"
             \/ payout[key].status \in {"PENDING", "ON_HOLD"}
      PROVE  OnlyOpenIsWritten
  BY <1>a, <1>2 DEF OnlyOpenIsWritten
<1>3. ASSUME NEW r \in Requests, CancelCommit(r) \/ ReviewCommit(r) PROVE OnlyOpenIsWritten
  <2>1. PICK q \in Request : q = req[r] /\ StillHolds(q)
    BY DEF SInv, IInv, TypeOK
  <2>2. q.key \in Keys /\ payout[q.key].status \in {"PENDING", "ON_HOLD"}
    BY <1>3, <2>1, RequestKind DEF CancelCommit, ReviewCommit, IsAt, StillHolds
  <2>3. \E row : payout' = [payout EXCEPT ![q.key] = row]
    BY <1>3, <2>1 DEF CancelCommit, ReviewCommit
  <2> QED
    BY <1>2, <2>2, <2>3
<1>4. ASSUME NEW r \in Requests, RequestCommit(r) PROVE OnlyOpenIsWritten
  <2>1. PICK q \in Request : q = req[r]
    BY DEF SInv, IInv, TypeOK
  <2>2. q.transfer \in Transfer
    BY <1>4, <2>1, RequestKind DEF RequestCommit, IsAt
  <2>3. q.transfer.key \in Keys /\ ~Requested(q.transfer.key)
        /\ payout' = [payout EXCEPT ![q.transfer.key] = NewPayout(q.transfer)]
    BY <1>4, <2>1, <2>2 DEF RequestCommit, Transfer
  <2>4. NewPayout(q.transfer).status = "PENDING"
    BY <2>2, NewPayoutRow
  <2> QED
    BY <1>2, <2>3, <2>4
<1> QED
  BY <1>1, <1>3, <1>4
     DEF Next, Proceed, vars, RequestBegin, CancelBegin, ReviewBegin, EditBegin, SubmitBegin,
         DefaultBegin, DeleteBegin, RequestCheckActive, DefaultClear, DeleteCheck, Fail,
         EditCommit, SubmitCommit, DefaultCommit, DeleteCommit, AddMethod, Verified, Earn

\* When requests do not overlap, a payout that was approved, cancelled or rejected is never
\* written again: no approval, hold, rejection or cancellation comes after it.
THEOREM DecidedStaysSerially == OneAtATime => (Spec => [][OnlyOpenIsWritten]_vars)
<1> SUFFICES ASSUME OneAtATime PROVE Spec => [][OnlyOpenIsWritten]_vars
  OBVIOUS
<1>1. SInv /\ [Next]_vars => SInv'
  BY StepSInv
<1>2. SInv /\ [Next]_vars => OnlyOpenIsWritten
  BY StepOnlyOpenIsWritten
<1> QED
  BY <1>1, <1>2, InitSInv, PTL DEF Spec

\* The same of approvals: "Only PENDING or ON_HOLD payout can be approved"
\* (admin-provider-payouts.service.ts, approve).
THEOREM OnlyOpenIsApprovedSerially == OneAtATime => (Spec => OnlyOpenIsApproved)
<1> SUFFICES ASSUME OneAtATime PROVE Spec => OnlyOpenIsApproved
  OBVIOUS
<1>1. SInv /\ [Next]_vars => SInv'
  BY StepSInv
<1>2. SInv /\ [Next]_vars => ApprovedFromOpen
  BY StepOnlyOpenIsWritten DEF OnlyOpenIsWritten, ApprovedFromOpen
<1> QED
  BY <1>1, <1>2, InitSInv, PTL DEF Spec, OnlyOpenIsApproved, ApprovedFromOpen
=============================================================================
