---------------------------- MODULE TopUpsProofs ----------------------------
(***************************************************************************)
(* Proofs about TopUps for every set of customers, keys, ledger rows and   *)
(* concurrent requests, for every amount and any number of failures.       *)
(***************************************************************************)
EXTENDS TopUps, TLAPS

-----------------------------------------------------------------------------
(* What the helpers return.                                                *)

LEMMA TopUpWithStatus ==
  ASSUME NEW row \in TopUpRow, NEW s \in {"PENDING", "SUCCESS", "FAILED"}
  PROVE  /\ WithStatus(row, s) \in TopUpRow
         /\ WithStatus(row, s).status = s
         /\ WithStatus(row, s).customer = row.customer
         /\ WithStatus(row, s).amount = row.amount
BY Zenon DEF WithStatus, TopUpRow

LEMMA PaymentWithStatus ==
  ASSUME NEW row \in PaymentRow, NEW s \in {"PENDING", "PROCESSING"} \cup Final
  PROVE  /\ WithStatus(row, s) \in PaymentRow
         /\ WithStatus(row, s).status = s
         /\ WithStatus(row, s).topUp = row.topUp
BY Zenon DEF WithStatus, PaymentRow

\* A row is told from the absence of one.
LEMMA RowsAreCreated ==
  /\ \A row \in TopUpRow : row # NotCreated
  /\ \A row \in PaymentRow : row # NotCreated
<1>1. \A row \in TopUpRow : row.status # "NONE"
  BY DEF TopUpRow
<1>2. \A row \in PaymentRow : row.status # "NONE"
  BY DEF PaymentRow, Final
<1> QED
  BY <1>1, <1>2 DEF NotCreated

\* A request's tag tells what it holds.
LEMMA RequestKind ==
  ASSUME NEW q \in Request
  PROVE  /\ q.op \in {"pay", "intent", "confirm", "confirmTopUp", "record", "settle"}
              => q.key \in Keys
         /\ q.op = "pay" => q.topUp \in TopUpRows
         /\ q.op = "record" => q.status \in {"PROCESSING"} \cup Final
         /\ q.op = "settle" => q.status \in {"SUCCEEDED", "FAILED"}
BY DEF Request, Idle

LEMMA IdleIsARequest == Idle \in Request /\ RequestIsSound(Idle) /\ Idle.op = "idle"
BY DEF Request, Idle, RequestIsSound

-----------------------------------------------------------------------------
(* The invariant.                                                          *)

IInv == TypeOK /\ PaymentInvariant

\* What no step takes back, whatever it writes.
Grows ==
  /\ \A l \in TopUpRows, k \in Keys : IsTopUpOf(l, k) => IsTopUpOf(l, k)'
  /\ \A k \in Keys : payment[k] # NotCreated =>
       payment'[k] # NotCreated /\ payment'[k].topUp = payment[k].topUp
  /\ \A k \in Keys : /\ intent[k] # "none" => intent'[k] # "none"
                     /\ intent[k] = "succeeded" => intent'[k] = "succeeded"

LEMMA NothingChangedGrows ==
  ASSUME UNCHANGED <<topUp, payment, intent>>
  PROVE  Grows
BY DEF Grows, IsTopUpOf

\* What a request holds stays true while rows and intents grow.
LEMMA SoundStays ==
  ASSUME NEW q \in Request, RequestIsSound(q), Grows,
         q.op = "intent" => intent'[q.key] = "none"
  PROVE  RequestIsSound(q)'
<1>1. q.op = "pay" => IsTopUpOf(q.topUp, q.key)'
  BY RequestKind DEF RequestIsSound, Grows
<1>2. q.op \in {"intent", "confirm", "confirmTopUp", "record", "settle"} =>
        payment'[q.key] # NotCreated
  BY RequestKind DEF RequestIsSound, Grows
<1>3. q.op \in {"confirm", "confirmTopUp", "record"} => intent'[q.key] # "none"
  BY RequestKind DEF RequestIsSound, Grows
<1>4. q.op \in {"record", "settle"} /\ q.status = "SUCCEEDED" =>
        intent'[q.key] = "succeeded"
  BY RequestKind DEF RequestIsSound, Grows
<1> QED
  BY <1>1, <1>2, <1>3, <1>4 DEF RequestIsSound

\* Request r moves on to p, and the others to nothing.
Moves(r, p) ==
  /\ req' = [req EXCEPT ![r] = p]
  /\ RequestIsSound(p)'
  /\ \A s \in Requests \ {r} : IsAt(s, "intent") => /\ intent'[req[s].key] = "none"
                                                    /\ p.op = "intent" => req[s].key # p.key

LEMMA RequestsStaySound ==
  ASSUME IInv, Grows, NEW r \in Requests, NEW p \in Request, Moves(r, p)
  PROVE  /\ req' \in [Requests -> Request]
         /\ \A s \in Requests : RequestIsSound(req[s])'
         /\ OneCreator'
<1>1. /\ req' \in [Requests -> Request]
      /\ req'[r] = p
      /\ \A s \in Requests \ {r} : req'[s] = req[s]
  BY DEF IInv, TypeOK, Moves
<1>2. ASSUME NEW s \in Requests
      PROVE  RequestIsSound(req[s])'
  <2>1. PICK q \in Request : q = req[s] /\ RequestIsSound(q)
    BY DEF IInv, TypeOK, PaymentInvariant
  <2>2. CASE s = r
    <3>1. RequestIsSound(p)' /\ req'[s] = p
      BY <1>1, <2>2 DEF Moves
    <3> QED
      BY <3>1 DEF RequestIsSound, IsTopUpOf
  <2>3. CASE s # r
    <3>1. q.op = "intent" => intent'[q.key] = "none"
      BY <2>1, <2>3 DEF Moves, IsAt
    <3>2. RequestIsSound(q)'
      BY <2>1, <3>1, SoundStays
    <3>3. req'[s] = q
      BY <1>1, <2>1, <2>3
    <3> QED
      BY <3>2, <3>3 DEF RequestIsSound, IsTopUpOf
  <2> QED
    BY <2>2, <2>3
<1>3. ASSUME NEW s \in Requests, NEW t \in Requests,
             IsAt(s, "intent")', IsAt(t, "intent")', req'[s].key = req'[t].key
      PROVE  s = t
  <2>1. CASE s # r /\ t # r
    BY <1>1, <1>3, <2>1 DEF IInv, PaymentInvariant, OneCreator, IsAt
  <2>2. CASE s = r /\ t # r
    BY <1>1, <1>3, <2>2 DEF Moves, IsAt
  <2>3. CASE s # r /\ t = r
    BY <1>1, <1>3, <2>3 DEF Moves, IsAt
  <2> QED
    BY <2>1, <2>2, <2>3
<1> QED
  BY <1>1, <1>2, <1>3 DEF OneCreator

\* A credited row stays paid as long as the step credits no other.
LEMMA CreditStaysPaid ==
  ASSUME IInv, Grows,
         \A l \in TopUpRows : topUp'[l].status = "SUCCESS" => topUp'[l] = topUp[l]
  PROVE  CreditIsPaid'
<1> SUFFICES ASSUME NEW l \in TopUpRows, topUp'[l].status = "SUCCESS"
             PROVE  \E k \in Keys : /\ payment'[k] # NotCreated
                                    /\ payment'[k].topUp = l
                                    /\ intent'[k] = "succeeded"
                                    /\ topUp'[l].customer = Owner[k]
  BY DEF CreditIsPaid
<1>1. topUp'[l] = topUp[l]
  OBVIOUS
<1>2. PICK k \in Keys : /\ payment[k] # NotCreated
                        /\ payment[k].topUp = l
                        /\ intent[k] = "succeeded"
                        /\ topUp[l].customer = Owner[k]
  BY <1>1 DEF IInv, PaymentInvariant, CreditIsPaid
<1> QED
  BY <1>1, <1>2 DEF Grows

\* A step that only moves a request on, to something true.
LEMMA QuietStep ==
  ASSUME IInv, NEW r \in Requests, NEW p \in Request, req' = [req EXCEPT ![r] = p],
         RequestIsSound(p), p.op # "intent",
         UNCHANGED <<balance, topUp, payment, intent, events>>,
         failures' \in 0..MaxFailures
  PROVE  IInv'
<1>1. Grows
  BY NothingChangedGrows
<1>2. RequestIsSound(p)'
  BY <1>1, SoundStays
<1>3. \A s \in Requests : IsAt(s, "intent") => intent'[req[s].key] = "none"
  BY DEF IInv, PaymentInvariant, RequestIsSound, IsAt
<1>4. Moves(r, p)
  BY <1>2, <1>3 DEF Moves
<1>5. CreditIsPaid'
  BY <1>1, CreditStaysPaid
<1>6. PaymentsAreLinked'
  BY DEF IInv, PaymentInvariant, PaymentsAreLinked, IsTopUpOf, HasIntent
<1>7. TypeOK'
  BY <1>1, <1>4, RequestsStaySound DEF IInv, TypeOK
<1> QED
  BY <1>1, <1>4, <1>5, <1>6, <1>7, RequestsStaySound DEF IInv, PaymentInvariant

-----------------------------------------------------------------------------
(* The invariant holds at first and after every step.                      *)

LEMMA InitInvariant == Init => IInv
<1> SUFFICES ASSUME Init PROVE IInv
  OBVIOUS
<1>1. TypeOK
  BY IdleIsARequest, AmountsArePositive DEF Init, TypeOK, IntentStatus
<1>2. PaymentsAreLinked /\ CreditIsPaid
  BY DEF Init, PaymentsAreLinked, CreditIsPaid, HasIntent, NotCreated
<1>3. \A r \in Requests : RequestIsSound(req[r])
  BY IdleIsARequest DEF Init
<1>4. OneCreator
  BY IdleIsARequest DEF Init, OneCreator, IsAt
<1> QED
  BY <1>1, <1>2, <1>3, <1>4 DEF IInv, PaymentInvariant

\* A payment that exists has a row, which belongs to the owner of its key.
LEMMA LinkedRow ==
  ASSUME IInv, NEW k \in Keys, payment[k] # NotCreated
  PROVE  /\ payment[k] \in PaymentRow
         /\ payment[k].topUp \in TopUpRows
         /\ topUp[payment[k].topUp] \in TopUpRow
         /\ topUp[payment[k].topUp].customer = Owner[k]
<1>1. payment[k] \in PaymentRow
  BY DEF IInv, TypeOK
<1>2. payment[k].topUp \in TopUpRows
  BY <1>1 DEF PaymentRow
<1> QED
  BY <1>1, <1>2 DEF IInv, TypeOK, PaymentInvariant, PaymentsAreLinked, IsTopUpOf

\* What a request that has started holds.
LEMMA SoundRequest ==
  ASSUME IInv, NEW r \in Requests
  PROVE  req[r] \in Request /\ RequestIsSound(req[r])
BY DEF IInv, TypeOK, PaymentInvariant

LEMMA AddFundsBeginStep ==
  ASSUME IInv, NEW r \in Requests, NEW k \in Keys, NEW l \in TopUpRows,
         NEW amount \in Amounts, AddFundsBegin(r, k, l, amount)
  PROVE  IInv'
<1> DEFINE p == [op |-> "pay", key |-> k, topUp |-> l]
           new == [status |-> "PENDING", customer |-> Owner[k], amount |-> amount]
<1>1. new \in TopUpRow /\ new.status = "PENDING" /\ new.customer = Owner[k]
  BY KeysAreOwned DEF TopUpRow
<1>2. p \in Request /\ p.op = "pay" /\ p.key = k /\ p.topUp = l
  BY DEF Request
<1>3. /\ topUp[l] = NotCreated
      /\ topUp' = [topUp EXCEPT ![l] = new]
      /\ req' = [req EXCEPT ![r] = p]
      /\ UNCHANGED <<balance, payment, intent, events, failures>>
  BY DEF AddFundsBegin, Start
<1> HIDE DEF new, p
<1>4. /\ topUp' \in [TopUpRows -> {NotCreated} \cup TopUpRow]
      /\ topUp'[l] = new
      /\ \A m \in TopUpRows \ {l} : topUp'[m] = topUp[m]
  BY <1>1, <1>3 DEF IInv, TypeOK
<1>5. Grows
  BY <1>3, <1>4 DEF Grows, IsTopUpOf
<1>6. RequestIsSound(p)'
  BY <1>1, <1>2, <1>4, RowsAreCreated DEF RequestIsSound, IsTopUpOf
<1>7. Moves(r, p)
  BY <1>2, <1>3, <1>6, SoundRequest DEF Moves, RequestIsSound, IsAt
<1>8. CreditIsPaid'
  BY <1>1, <1>4, <1>5, CreditStaysPaid
<1>9. PaymentsAreLinked'
  BY <1>3, <1>5, LinkedRow DEF IInv, PaymentInvariant, PaymentsAreLinked, Grows, HasIntent
<1>10. TypeOK'
  BY <1>2, <1>3, <1>4, <1>5, <1>7, RequestsStaySound DEF IInv, TypeOK
<1> QED
  BY <1>2, <1>5, <1>7, <1>8, <1>9, <1>10, RequestsStaySound DEF IInv, PaymentInvariant

LEMMA AddFundsPaymentStep ==
  ASSUME IInv, NEW r \in Requests, AddFundsPayment(r)
  PROVE  IInv'
<1>1. PICK k \in Keys, l \in TopUpRows :
        /\ k = req[r].key
        /\ l = req[r].topUp
        /\ IsTopUpOf(l, k)
  BY SoundRequest, RequestKind DEF AddFundsPayment, IsAt, RequestIsSound
<1> DEFINE p == [op |-> "intent", key |-> k]
           new == [status |-> "PENDING", topUp |-> l]
<1>2. new \in PaymentRow /\ new.status = "PENDING" /\ new.topUp = l
  BY DEF PaymentRow
<1>3. p \in Request /\ p.op = "intent" /\ p.key = k
  BY DEF Request
<1>4. /\ payment[k] = NotCreated
      /\ payment' = [payment EXCEPT ![k] = new]
      /\ req' = [req EXCEPT ![r] = p]
      /\ UNCHANGED <<balance, topUp, intent, events, failures>>
  BY <1>1 DEF AddFundsPayment, Continue
<1> HIDE DEF new, p
<1>5. /\ payment' \in [Keys -> {NotCreated} \cup PaymentRow]
      /\ payment'[k] = new
      /\ \A j \in Keys \ {k} : payment'[j] = payment[j]
  BY <1>2, <1>4 DEF IInv, TypeOK
<1>6. new # NotCreated /\ intent[k] = "none"
  BY <1>2, <1>4, RowsAreCreated DEF IInv, PaymentInvariant, PaymentsAreLinked
<1>7. Grows
  BY <1>4, <1>5 DEF Grows, IsTopUpOf
<1>8. RequestIsSound(p)'
  BY <1>3, <1>4, <1>5, <1>6 DEF RequestIsSound
<1>9. ASSUME NEW s \in Requests, IsAt(s, "intent")
      PROVE  intent'[req[s].key] = "none" /\ req[s].key # k
  BY <1>4, <1>9, SoundRequest DEF RequestIsSound, IsAt
<1>10. Moves(r, p)
  BY <1>3, <1>4, <1>8, <1>9 DEF Moves
<1>11. CreditIsPaid'
  BY <1>4, <1>7, CreditStaysPaid
<1>12. PaymentsAreLinked'
  <2> SUFFICES ASSUME NEW j \in Keys
               PROVE  /\ payment'[j] # NotCreated => IsTopUpOf(payment[j].topUp, j)'
                      /\ intent'[j] # "none" => payment'[j] # NotCreated
                      /\ HasIntent(j)' => intent'[j] # "none"
                      /\ "SUCCEEDED" \in events'[j] => intent'[j] = "succeeded"
    BY DEF PaymentsAreLinked, IsTopUpOf
  <2>1. CASE j = k
    BY <1>1, <1>2, <1>4, <1>5, <1>6, <2>1
       DEF IInv, PaymentInvariant, PaymentsAreLinked, HasIntent, IsTopUpOf
  <2>2. CASE j # k
    BY <1>4, <1>5, <2>2
       DEF IInv, PaymentInvariant, PaymentsAreLinked, HasIntent, IsTopUpOf
  <2> QED
    BY <2>1, <2>2
<1>13. TypeOK'
  BY <1>3, <1>4, <1>5, <1>7, <1>10, RequestsStaySound DEF IInv, TypeOK
<1> QED
  BY <1>3, <1>7, <1>10, <1>11, <1>12, <1>13, RequestsStaySound DEF IInv, PaymentInvariant

LEMMA AddFundsIntentStep ==
  ASSUME IInv, NEW r \in Requests, AddFundsIntent(r)
  PROVE  IInv'
<1>1. PICK k \in Keys : /\ k = req[r].key
                        /\ payment[k] # NotCreated
                        /\ intent[k] = "none"
                        /\ IsAt(r, "intent")
  BY SoundRequest, RequestKind DEF AddFundsIntent, IsAt, RequestIsSound
<1>2. PICK new \in PaymentRow : /\ payment' = [payment EXCEPT ![k] = new]
                                /\ new.topUp = payment[k].topUp
  BY <1>1, LinkedRow, PaymentWithStatus DEF AddFundsIntent
<1>3. /\ intent' = [intent EXCEPT ![k] = "requires_payment_method"]
      /\ req' = [req EXCEPT ![r] = Idle]
      /\ UNCHANGED <<balance, topUp, events, failures>>
  BY <1>1 DEF AddFundsIntent, Finish
<1>4. /\ payment' \in [Keys -> {NotCreated} \cup PaymentRow]
      /\ payment'[k] = new
      /\ \A j \in Keys \ {k} : payment'[j] = payment[j]
  BY <1>2 DEF IInv, TypeOK
<1>5. /\ intent' \in [Keys -> IntentStatus]
      /\ intent'[k] = "requires_payment_method"
      /\ \A j \in Keys \ {k} : intent'[j] = intent[j]
  BY <1>3 DEF IInv, TypeOK, IntentStatus
<1>6. Grows
  BY <1>1, <1>2, <1>3, <1>4, <1>5, RowsAreCreated DEF Grows, IsTopUpOf
<1>7. ASSUME NEW s \in Requests \ {r}, IsAt(s, "intent")
      PROVE  intent'[req[s].key] = "none"
  <2>1. req[s].key # k
    BY <1>1, <1>7 DEF IInv, PaymentInvariant, OneCreator
  <2>2. req[s].key \in Keys /\ intent[req[s].key] = "none"
    BY <1>7, SoundRequest, RequestKind DEF IsAt, RequestIsSound
  <2> QED
    BY <1>5, <2>1, <2>2
<1>8. Moves(r, Idle)
  BY <1>3, <1>7, IdleIsARequest DEF Moves, RequestIsSound
<1>9. CreditIsPaid'
  BY <1>3, <1>6, CreditStaysPaid
<1>10. PaymentsAreLinked'
  <2> SUFFICES ASSUME NEW j \in Keys
               PROVE  /\ payment'[j] # NotCreated => IsTopUpOf(payment[j].topUp, j)'
                      /\ intent'[j] # "none" => payment'[j] # NotCreated
                      /\ HasIntent(j)' => intent'[j] # "none"
                      /\ "SUCCEEDED" \in events'[j] => intent'[j] = "succeeded"
    BY DEF PaymentsAreLinked, IsTopUpOf
  <2>1. CASE j = k
    BY <1>1, <1>2, <1>3, <1>4, <1>5, <2>1, LinkedRow, RowsAreCreated
       DEF IInv, PaymentInvariant, PaymentsAreLinked, HasIntent, IsTopUpOf
  <2>2. CASE j # k
    BY <1>3, <1>4, <1>5, <2>2
       DEF IInv, PaymentInvariant, PaymentsAreLinked, HasIntent, IsTopUpOf
  <2> QED
    BY <2>1, <2>2
<1>11. TypeOK'
  BY <1>3, <1>4, <1>5, <1>6, <1>8, IdleIsARequest, RequestsStaySound DEF IInv, TypeOK
<1> QED
  BY <1>6, <1>8, <1>9, <1>10, <1>11, IdleIsARequest, RequestsStaySound
     DEF IInv, PaymentInvariant

LEMMA RecordPaymentStep ==
  ASSUME IInv, NEW r \in Requests, RecordPayment(r)
  PROVE  IInv'
<1>1. PICK q \in Request : q = req[r] /\ RequestIsSound(q) /\ q.op = "record"
  BY SoundRequest DEF RecordPayment, IsAt
<1>2. PICK k \in Keys : /\ k = q.key
                        /\ payment[k] # NotCreated
                        /\ intent[k] # "none"
                        /\ q.status = "SUCCEEDED" => intent[k] = "succeeded"
  BY <1>1, RequestKind DEF RequestIsSound
<1>3. PICK new \in PaymentRow : /\ payment' = [payment EXCEPT ![k] = new]
                                /\ new.topUp = payment[k].topUp
  <2>1. /\ WithStatus(payment[k], q.status) \in PaymentRow
        /\ WithStatus(payment[k], q.status).topUp = payment[k].topUp
    <3>1. payment[k] \in PaymentRow /\ q.status \in {"PENDING", "PROCESSING"} \cup Final
      BY <1>1, <1>2, LinkedRow, RequestKind
    <3> QED
      BY <3>1, PaymentWithStatus
  <2>2. payment' = [payment EXCEPT ![k] = WithStatus(payment[k], q.status)]
    BY <1>1, <1>2 DEF RecordPayment
  <2> QED
    BY <2>1, <2>2
<1>4. UNCHANGED <<balance, topUp, intent, events, failures>>
  BY DEF RecordPayment
<1>5. PICK p \in Request : /\ req' = [req EXCEPT ![r] = p]
                           /\ RequestIsSound(p)
                           /\ p.op # "intent"
  <2>1. CASE q.status \in {"SUCCEEDED", "FAILED"}
    <3> DEFINE p == [op |-> "settle", key |-> k, status |-> q.status]
    <3>1. p \in Request /\ p.op = "settle" /\ p.key = k /\ p.status = q.status
      BY <2>1 DEF Request
    <3>2. req' = [req EXCEPT ![r] = p]
      BY <1>1, <1>2, <2>1 DEF RecordPayment, Continue
    <3>3. RequestIsSound(p)
      BY <1>2, <3>1 DEF RequestIsSound
    <3> QED
      BY <3>1, <3>2, <3>3
  <2>2. CASE q.status \notin {"SUCCEEDED", "FAILED"}
    BY <1>1, <2>2, IdleIsARequest DEF RecordPayment, Finish
  <2> QED
    BY <2>1, <2>2
<1>6. /\ payment' \in [Keys -> {NotCreated} \cup PaymentRow]
      /\ payment'[k] = new
      /\ \A j \in Keys \ {k} : payment'[j] = payment[j]
  BY <1>3 DEF IInv, TypeOK
<1>7. Grows
  BY <1>3, <1>4, <1>6, RowsAreCreated DEF Grows, IsTopUpOf
<1>8. RequestIsSound(p)'
  BY <1>5, <1>7, SoundStays
<1>9. Moves(r, p)
  BY <1>4, <1>5, <1>8, SoundRequest DEF Moves, RequestIsSound, IsAt
<1>10. CreditIsPaid'
  BY <1>4, <1>7, CreditStaysPaid
<1>11. PaymentsAreLinked'
  <2> SUFFICES ASSUME NEW j \in Keys
               PROVE  /\ payment'[j] # NotCreated => IsTopUpOf(payment[j].topUp, j)'
                      /\ intent'[j] # "none" => payment'[j] # NotCreated
                      /\ HasIntent(j)' => intent'[j] # "none"
                      /\ "SUCCEEDED" \in events'[j] => intent'[j] = "succeeded"
    BY DEF PaymentsAreLinked, IsTopUpOf
  <2>1. CASE j = k
    BY <1>2, <1>3, <1>4, <1>6, <2>1, LinkedRow, RowsAreCreated
       DEF IInv, PaymentInvariant, PaymentsAreLinked, HasIntent, IsTopUpOf
  <2>2. CASE j # k
    BY <1>4, <1>6, <2>2
       DEF IInv, PaymentInvariant, PaymentsAreLinked, HasIntent, IsTopUpOf
  <2> QED
    BY <2>1, <2>2
<1>12. TypeOK'
  BY <1>4, <1>6, <1>7, <1>9, RequestsStaySound DEF IInv, TypeOK
<1> QED
  BY <1>7, <1>9, <1>10, <1>11, <1>12, RequestsStaySound DEF IInv, PaymentInvariant

\* Settle, in terms of its request's key: the row of the key goes from PENDING
\* to SUCCESS with the wallet, or to FAILED without it, or nothing moves.
LEMMA SettleFacts ==
  ASSUME IInv, NEW r \in Requests, Settle(r)
  PROVE  \E k \in Keys :
           LET l == payment[k].topUp
               row == topUp[l]
           IN  /\ payment[k] # NotCreated
               /\ \/ /\ row.status = "PENDING"
                     /\ intent[k] = "succeeded"
                     /\ topUp' = [topUp EXCEPT ![l] = WithStatus(row, "SUCCESS")]
                     /\ balance' = [balance EXCEPT ![row.customer] = @ + row.amount]
                  \/ /\ row.status = "PENDING"
                     /\ topUp' = [topUp EXCEPT ![l] = WithStatus(row, "FAILED")]
                     /\ UNCHANGED balance
                  \/ UNCHANGED <<topUp, balance>>
<1>1. PICK q \in Request : q = req[r] /\ RequestIsSound(q) /\ q.op = "settle"
  BY SoundRequest DEF Settle, IsAt
<1>2. PICK k \in Keys : /\ k = q.key
                        /\ payment[k] # NotCreated
                        /\ q.status = "SUCCEEDED" => intent[k] = "succeeded"
  BY <1>1, RequestKind DEF RequestIsSound
<1> DEFINE l == payment[k].topUp
           row == topUp[l]
<1>3. CanSettle(k) <=> row.status = "PENDING"
  BY DEF CanSettle, RowOf
<1>4. \/ /\ CanSettle(k) /\ q.status = "SUCCEEDED"
         /\ topUp' = [topUp EXCEPT ![l] = WithStatus(row, "SUCCESS")]
         /\ balance' = [balance EXCEPT ![row.customer] = @ + row.amount]
      \/ /\ CanSettle(k) /\ q.status = "FAILED"
         /\ topUp' = [topUp EXCEPT ![l] = WithStatus(row, "FAILED")]
         /\ UNCHANGED balance
      \/ UNCHANGED <<topUp, balance>>
  BY <1>1, <1>2 DEF Settle
<1> QED
  BY <1>2, <1>3, <1>4

LEMMA SettleStep ==
  ASSUME IInv, NEW r \in Requests, Settle(r)
  PROVE  IInv'
<1>1. PICK k \in Keys, l \in TopUpRows, row \in TopUpRow :
        /\ l = payment[k].topUp
        /\ row = topUp[l]
        /\ payment[k] # NotCreated
        /\ row.customer = Owner[k]
        /\ \/ /\ intent[k] = "succeeded"
              /\ topUp' = [topUp EXCEPT ![l] = WithStatus(row, "SUCCESS")]
              /\ balance' = [balance EXCEPT ![row.customer] = @ + row.amount]
           \/ /\ topUp' = [topUp EXCEPT ![l] = WithStatus(row, "FAILED")]
              /\ UNCHANGED balance
           \/ UNCHANGED <<topUp, balance>>
  BY SettleFacts, LinkedRow
<1>2. req' = [req EXCEPT ![r] = Idle] /\ UNCHANGED <<payment, intent, events, failures>>
  BY DEF Settle, Finish
<1>3. PICK new \in TopUpRow :
        /\ topUp' = [topUp EXCEPT ![l] = new]
        /\ new.customer = row.customer
        /\ new.status = "SUCCESS" => intent[k] = "succeeded" \/ new = row
  BY <1>1, TopUpWithStatus DEF IInv, TypeOK
<1>4. /\ topUp' \in [TopUpRows -> {NotCreated} \cup TopUpRow]
      /\ topUp'[l] = new
      /\ \A m \in TopUpRows \ {l} : topUp'[m] = topUp[m]
  BY <1>3 DEF IInv, TypeOK
<1>5. Grows
  BY <1>1, <1>2, <1>3, <1>4, RowsAreCreated DEF Grows, IsTopUpOf
<1>6. Moves(r, Idle)
  <2>1. RequestIsSound(Idle)'
    BY <1>5, IdleIsARequest, SoundStays
  <2> QED
    BY <1>2, <2>1, SoundRequest, IdleIsARequest DEF Moves, RequestIsSound, IsAt
<1>7. CreditIsPaid'
  <2>1. CASE topUp'[l].status = "SUCCESS" /\ new # row
    <3>1. intent'[k] = "succeeded" /\ payment'[k] # NotCreated /\ payment'[k].topUp = l
            /\ topUp'[l].customer = Owner[k]
      BY <1>1, <1>2, <1>3, <1>4, <2>1
    <3>2. \A m \in TopUpRows \ {l} :
            topUp'[m].status = "SUCCESS" =>
              \E j \in Keys : /\ payment'[j] # NotCreated
                              /\ payment'[j].topUp = m
                              /\ intent'[j] = "succeeded"
                              /\ topUp'[m].customer = Owner[j]
      BY <1>2, <1>4 DEF IInv, PaymentInvariant, CreditIsPaid
    <3> QED
      BY <3>1, <3>2 DEF CreditIsPaid
  <2>2. CASE ~(topUp'[l].status = "SUCCESS" /\ new # row)
    BY <1>1, <1>4, <1>5, <2>2, CreditStaysPaid
  <2> QED
    BY <2>1, <2>2
<1>8. PaymentsAreLinked'
  BY <1>2, <1>5, LinkedRow DEF IInv, PaymentInvariant, PaymentsAreLinked, Grows, HasIntent
<1>9. balance' \in [Customers -> Nat]
  <2>1. row.amount \in Nat /\ row.customer \in Customers
    BY AmountsArePositive DEF TopUpRow
  <2> QED
    BY <1>1, <2>1 DEF IInv, TypeOK
<1>10. TypeOK'
  BY <1>2, <1>4, <1>5, <1>6, <1>9, IdleIsARequest, RequestsStaySound DEF IInv, TypeOK
<1> QED
  BY <1>5, <1>6, <1>7, <1>8, <1>10, IdleIsARequest, RequestsStaySound
     DEF IInv, PaymentInvariant

\* Stripe and the customer at Stripe: an open intent moves, with its events.
LEMMA StripeStep ==
  ASSUME IInv, NEW k \in Keys, Attempt(k) \/ Pay(k) \/ Decline(k) \/ CancelIntent(k)
  PROVE  IInv'
<1>1. PICK status \in IntentStatus \ {"none"}, told \in SUBSET Final :
        /\ intent' = [intent EXCEPT ![k] = status]
        /\ events' = [events EXCEPT ![k] = told]
        /\ "SUCCEEDED" \in told => "SUCCEEDED" \in events[k] \/ status = "succeeded"
        /\ intent[k] \notin {"none", "succeeded"}
  <2>1. events[k] \in SUBSET Final /\ events = [events EXCEPT ![k] = events[k]]
    BY DEF IInv, TypeOK
  <2>2. CASE Attempt(k)
    BY <2>1, <2>2 DEF Attempt, IntentStatus
  <2>3. CASE Pay(k)
    BY <2>1, <2>3 DEF Pay, IntentStatus, Final
  <2>4. CASE Decline(k)
    BY <2>1, <2>4 DEF Decline, IntentStatus, Final
  <2>5. CASE CancelIntent(k)
    BY <2>1, <2>5 DEF CancelIntent, IntentStatus, Final
  <2> QED
    BY <2>2, <2>3, <2>4, <2>5
<1>2. UNCHANGED <<balance, topUp, payment, failures, req>>
  BY DEF Attempt, Pay, Decline, CancelIntent
<1>3. /\ intent' \in [Keys -> IntentStatus] /\ events' \in [Keys -> SUBSET Final]
      /\ intent'[k] = status /\ events'[k] = told
      /\ \A j \in Keys \ {k} : intent'[j] = intent[j] /\ events'[j] = events[j]
  BY <1>1 DEF IInv, TypeOK
<1>4. "SUCCEEDED" \notin events[k]
  BY <1>1 DEF IInv, PaymentInvariant, PaymentsAreLinked
<1>5. Grows
  BY <1>1, <1>2, <1>3 DEF Grows, IsTopUpOf
<1>6. \A s \in Requests : RequestIsSound(req[s])'
  <2> SUFFICES ASSUME NEW s \in Requests PROVE RequestIsSound(req[s])'
    OBVIOUS
  <2>1. PICK q \in Request : q = req[s] /\ RequestIsSound(q)
    BY SoundRequest
  <2>2. q.op = "intent" => intent'[q.key] = "none"
    BY <1>1, <1>3, <2>1, RequestKind DEF RequestIsSound
  <2>3. RequestIsSound(q)' /\ req'[s] = q
    BY <1>2, <1>5, <2>1, <2>2, SoundStays
  <2> QED
    BY <2>3 DEF RequestIsSound, IsTopUpOf
<1>7. OneCreator'
  BY <1>2 DEF IInv, PaymentInvariant, OneCreator, IsAt
<1>8. CreditIsPaid'
  BY <1>2, <1>5, CreditStaysPaid
<1>9. PaymentsAreLinked'
  BY <1>1, <1>2, <1>3, <1>4
     DEF IInv, PaymentInvariant, PaymentsAreLinked, IsTopUpOf, HasIntent
<1>10. TypeOK'
  BY <1>2, <1>3 DEF IInv, TypeOK
<1> QED
  BY <1>6, <1>7, <1>8, <1>9, <1>10 DEF IInv, PaymentInvariant

\* The steps that only move a request on.
Reads(r) ==
  \/ \E k \in Keys, status \in Final : WebhookBegin(r, k, status)
  \/ \E k \in Keys : ConfirmBegin(r, k) \/ ConfirmTopUpBegin(r, k)
  \/ ConfirmRetrieve(r)
  \/ ConfirmTopUpRetrieve(r)
  \/ AddFundsConflict(r)
  \/ Fail(r)

LEMMA ReadsLeaveRows ==
  ASSUME IInv, NEW r \in Requests, Reads(r)
  PROVE  UNCHANGED <<balance, topUp, payment, intent, events>> /\ failures' \in 0..MaxFailures
<1>1. CASE Fail(r)
  <2>1. failures \in Nat /\ MaxFailures \in Nat /\ failures < MaxFailures /\ failures' = failures + 1
    BY <1>1, AmountsArePositive DEF Fail, IInv, TypeOK
  <2> QED
    BY <1>1, <2>1 DEF Fail
<1>2. CASE ~Fail(r)
  <2>1. failures \in 0..MaxFailures
    BY DEF IInv, TypeOK
  <2> QED
    BY <1>2, <2>1 DEF Reads, WebhookBegin, ConfirmBegin, ConfirmTopUpBegin, ConfirmRetrieve,
                      ConfirmTopUpRetrieve, AddFundsConflict
<1> QED
  BY <1>1, <1>2

\* A reading step makes its request say something true.
LEMMA ReadsAreSound ==
  ASSUME IInv, NEW r \in Requests, Reads(r)
  PROVE  \E p \in Request : /\ req' = [req EXCEPT ![r] = p]
                            /\ RequestIsSound(p)
                            /\ p.op # "intent"
<1> DEFINE To(p) == /\ p \in Request
                    /\ req' = [req EXCEPT ![r] = p]
                    /\ RequestIsSound(p)
                    /\ p.op # "intent"
<1>idle. Finish(r) => To(Idle)
  BY IdleIsARequest DEF Finish
<1>record. ASSUME NEW k \in Keys, NEW status \in {"PROCESSING"} \cup Final,
                  req' = [req EXCEPT ![r] = [op |-> "record", key |-> k, status |-> status]],
                  payment[k] # NotCreated, intent[k] # "none",
                  status = "SUCCEEDED" => intent[k] = "succeeded"
           PROVE  \E p : To(p)
  <2> DEFINE p == [op |-> "record", key |-> k, status |-> status]
  <2>1. p \in Request /\ p.op = "record" /\ p.key = k /\ p.status = status
    BY DEF Request
  <2>2. RequestIsSound(p)
    BY <1>record, <2>1 DEF RequestIsSound
  <2> QED
    BY <1>record, <2>1, <2>2
<1>ask. ASSUME NEW k \in Keys, NEW op \in {"confirm", "confirmTopUp"}, HasIntent(k),
               req' = [req EXCEPT ![r] = [op |-> op, key |-> k]]
        PROVE  \E p : To(p)
  <2> DEFINE p == [op |-> op, key |-> k]
  <2>1. p \in Request /\ p.op = op /\ p.key = k
    BY DEF Request
  <2>2. payment[k] # NotCreated /\ intent[k] # "none"
    BY <1>ask DEF HasIntent, IInv, PaymentInvariant, PaymentsAreLinked
  <2>3. RequestIsSound(p)
    BY <2>1, <2>2 DEF RequestIsSound
  <2> QED
    BY <1>ask, <2>1, <2>3
<1> HIDE DEF To
<1>1. ASSUME NEW k \in Keys, NEW status \in Final, WebhookBegin(r, k, status)
      PROVE  \E p : To(p)
  <2>1. /\ payment[k] # NotCreated
        /\ intent[k] # "none"
        /\ status = "SUCCEEDED" => intent[k] = "succeeded"
    BY <1>1 DEF WebhookBegin, HasIntent, IInv, PaymentInvariant, PaymentsAreLinked
  <2> QED
    BY <1>1, <2>1, <1>record DEF WebhookBegin, Start
<1>2. ASSUME NEW k \in Keys, ConfirmBegin(r, k)
      PROVE  \E p : To(p)
  BY <1>2, <1>ask DEF ConfirmBegin, Start
<1>3. ASSUME NEW k \in Keys, ConfirmTopUpBegin(r, k)
      PROVE  \E p : To(p)
  BY <1>3, <1>ask DEF ConfirmTopUpBegin, Start
<1>4. ASSUME ConfirmRetrieve(r)
      PROVE  \E p : To(p)
  <2>1. PICK k \in Keys : k = req[r].key /\ payment[k] # NotCreated /\ intent[k] # "none"
    BY <1>4, SoundRequest, RequestKind DEF ConfirmRetrieve, IsAt, RequestIsSound
  <2>2. intent[k] \in IntentStatus \ {"none"}
    BY <2>1 DEF IInv, TypeOK
  <2>3. PICK status \in {"PROCESSING"} \cup Final :
          /\ status = StatusFromStripe[intent[k]]
          /\ status = "SUCCEEDED" => intent[k] = "succeeded"
    BY <2>2 DEF StatusFromStripe, IntentStatus, Final
  <2> QED
    BY <1>4, <2>1, <2>3, <1>record DEF ConfirmRetrieve, Continue
<1>5. ASSUME ConfirmTopUpRetrieve(r)
      PROVE  \E p : To(p)
  <2>1. PICK k \in Keys : k = req[r].key /\ payment[k] # NotCreated /\ intent[k] # "none"
    BY <1>5, SoundRequest, RequestKind DEF ConfirmTopUpRetrieve, IsAt, RequestIsSound
  <2>2. CASE Finish(r)
    BY <2>2, <1>idle
  <2>3. CASE ~Finish(r)
    <3>1. \/ /\ intent[k] = "succeeded"
             /\ req' = [req EXCEPT ![r] =
                            [op |-> "record", key |-> k, status |-> "SUCCEEDED"]]
          \/ req' = [req EXCEPT ![r] = [op |-> "record", key |-> k, status |-> "FAILED"]]
      BY <1>5, <2>1, <2>3 DEF ConfirmTopUpRetrieve, Continue
    <3> QED
      BY <2>1, <3>1, <1>record DEF Final
  <2> QED
    BY <2>2, <2>3
<1>6. ASSUME AddFundsConflict(r) \/ Fail(r)
      PROVE  \E p : To(p)
  BY <1>6, <1>idle DEF AddFundsConflict, Fail
<1>7. \E p : To(p)
  BY <1>1, <1>2, <1>3, <1>4, <1>5, <1>6 DEF Reads
<1> QED
  BY <1>7 DEF To

\* Every step of the specification is one of these.
LEMMA StepKinds ==
  ASSUME Next
  PROVE  \/ \E r \in Requests, k \in Keys, l \in TopUpRows, amount \in Amounts :
              AddFundsBegin(r, k, l, amount)
         \/ \E r \in Requests : \/ AddFundsPayment(r) \/ AddFundsIntent(r)
                               \/ RecordPayment(r) \/ Settle(r) \/ Reads(r)
         \/ \E k \in Keys : Attempt(k) \/ Pay(k) \/ Decline(k) \/ CancelIntent(k)
BY DEF Next, Proceed, Reads

LEMMA InvariantStep == IInv /\ [Next]_vars => IInv'
<1> SUFFICES ASSUME IInv, [Next]_vars PROVE IInv'
  OBVIOUS
<1>1. CASE UNCHANGED vars
  BY <1>1 DEF vars, IInv, TypeOK, PaymentInvariant, PaymentsAreLinked, RequestIsSound,
              OneCreator, CreditIsPaid, IsTopUpOf, HasIntent, IsAt
<1>2. ASSUME NEW r \in Requests, Reads(r)
      PROVE  IInv'
  BY <1>2, ReadsAreSound, ReadsLeaveRows, QuietStep
<1>3. CASE Next
  BY <1>2, <1>3, StepKinds, AddFundsBeginStep, AddFundsPaymentStep, AddFundsIntentStep,
     RecordPaymentStep, SettleStep, StripeStep
<1> QED
  BY <1>1, <1>3

THEOREM Invariant == Spec => []IInv
BY InitInvariant, InvariantStep, PTL DEF Spec

\* Every row, intent and request has its type in every reachable state, however
\* many confirmations and events overlap.
THEOREM TypeCorrect == Spec => []TypeOK
<1>1. IInv => TypeOK
  BY DEF IInv
<1> QED
  BY <1>1, Invariant, PTL

\* A top-up is credited only if the card was charged for it, by an intent of
\* the owner that paid for no other row.
THEOREM OnlyPaidIsCredited == Spec => []CreditIsPaid
<1>1. IInv => CreditIsPaid
  BY DEF IInv, PaymentInvariant
<1> QED
  BY <1>1, Invariant, PTL

-----------------------------------------------------------------------------
(* What a step may do to the ledger rows and the wallets.                  *)

\* A row is created pending, and succeeds or fails once.
LEMMA RowsMove ==
  ASSUME IInv, [Next]_vars
  PROVE  \/ UNCHANGED <<topUp, balance>>
         \/ \E l \in TopUpRows :
              /\ topUp[l].status \in {"NONE", "PENDING"}
              /\ \A m \in TopUpRows \ {l} : topUp'[m] = topUp[m]
              /\ \/ topUp'[l].status # "SUCCESS" /\ UNCHANGED balance
                 \/ /\ topUp[l] \in TopUpRow
                    /\ topUp[l].status = "PENDING"
                    /\ topUp'[l].status = "SUCCESS"
                    /\ topUp'[l].customer = topUp[l].customer
                    /\ balance' = [balance EXCEPT ![topUp[l].customer] = @ + topUp[l].amount]
<1>1. ASSUME NEW r \in Requests, NEW k \in Keys, NEW l \in TopUpRows, NEW amount \in Amounts,
             AddFundsBegin(r, k, l, amount)
      PROVE  /\ topUp[l].status = "NONE"
             /\ \A m \in TopUpRows \ {l} : topUp'[m] = topUp[m]
             /\ topUp'[l].status # "SUCCESS" /\ UNCHANGED balance
  BY <1>1 DEF AddFundsBegin, NotCreated, IInv, TypeOK
<1>2. ASSUME NEW r \in Requests, Settle(r)
      PROVE  \/ UNCHANGED <<topUp, balance>>
             \/ \E l \in TopUpRows :
                  /\ topUp[l] \in TopUpRow
                  /\ topUp[l].status = "PENDING"
                  /\ \A m \in TopUpRows \ {l} : topUp'[m] = topUp[m]
                  /\ \/ topUp'[l].status = "FAILED" /\ UNCHANGED balance
                     \/ /\ topUp'[l].status = "SUCCESS"
                        /\ topUp'[l].customer = topUp[l].customer
                        /\ balance' = [balance EXCEPT ![topUp[l].customer] =
                                                           @ + topUp[l].amount]
  <2>1. PICK l \in TopUpRows, row \in TopUpRow :
          /\ row = topUp[l]
          /\ \/ /\ row.status = "PENDING"
                /\ topUp' = [topUp EXCEPT ![l] = WithStatus(row, "SUCCESS")]
                /\ balance' = [balance EXCEPT ![row.customer] = @ + row.amount]
             \/ /\ row.status = "PENDING"
                /\ topUp' = [topUp EXCEPT ![l] = WithStatus(row, "FAILED")]
                /\ UNCHANGED balance
             \/ UNCHANGED <<topUp, balance>>
    BY <1>2, SettleFacts, LinkedRow
  <2>2. \A s \in {"SUCCESS", "FAILED"} : topUp' = [topUp EXCEPT ![l] = WithStatus(row, s)] =>
          /\ topUp'[l].status = s
          /\ topUp'[l].customer = row.customer
          /\ \A m \in TopUpRows \ {l} : topUp'[m] = topUp[m]
    BY TopUpWithStatus DEF IInv, TypeOK
  <2> QED
    BY <2>1, <2>2
<1>3. ASSUME NEW r \in Requests,
             AddFundsPayment(r) \/ AddFundsIntent(r) \/ RecordPayment(r) \/ Reads(r)
      PROVE  UNCHANGED <<topUp, balance>>
  BY <1>3, ReadsLeaveRows DEF AddFundsPayment, AddFundsIntent, RecordPayment
<1>4. ASSUME NEW k \in Keys, Attempt(k) \/ Pay(k) \/ Decline(k) \/ CancelIntent(k)
      PROVE  UNCHANGED <<topUp, balance>>
  BY <1>4 DEF Attempt, Pay, Decline, CancelIntent
<1>5. CASE Next
  BY <1>1, <1>2, <1>3, <1>4, <1>5, StepKinds
<1>6. CASE UNCHANGED vars
  BY <1>6 DEF vars
<1> QED
  BY <1>5, <1>6

\* A top-up that succeeded or failed stays so, whatever arrives afterwards.
THEOREM SettledRowsStay == Spec => SettledStays
<1>1. IInv /\ [Next]_vars =>
        [\A l \in TopUpRows :
           topUp[l].status \in {"SUCCESS", "FAILED"} => topUp'[l] = topUp[l]]_vars
  BY RowsMove
<1> QED
  BY <1>1, Invariant, PTL DEF Spec, SettledStays

\* One customer's wallet across one step.
WalletMoves(c) ==
  LET credited == {l \in TopUpRows : /\ topUp'[l].status = "SUCCESS"
                                     /\ topUp[l].status # "SUCCESS"
                                     /\ topUp'[l].customer = c}
  IN  \/ credited = {} /\ balance'[c] = balance[c]
      \/ \E l \in credited : /\ credited = {l}
                             /\ topUp[l].status = "PENDING"
                             /\ balance'[c] = balance[c] + topUp[l].amount

LEMMA WalletStep ==
  ASSUME IInv, [Next]_vars, NEW c \in Customers
  PROVE  WalletMoves(c)
<1> DEFINE credited == {l \in TopUpRows : /\ topUp'[l].status = "SUCCESS"
                                         /\ topUp[l].status # "SUCCESS"
                                         /\ topUp'[l].customer = c}
<1>1. CASE UNCHANGED <<topUp, balance>>
  <2>1. credited = {} /\ balance'[c] = balance[c]
    BY <1>1
  <2> QED
    BY <2>1 DEF WalletMoves
<1>2. ASSUME NEW l \in TopUpRows,
             \A m \in TopUpRows \ {l} : topUp'[m] = topUp[m],
             topUp'[l].status # "SUCCESS", UNCHANGED balance
      PROVE  WalletMoves(c)
  <2>1. credited = {} /\ balance'[c] = balance[c]
    BY <1>2
  <2> QED
    BY <2>1 DEF WalletMoves
<1>3. ASSUME NEW l \in TopUpRows,
             \A m \in TopUpRows \ {l} : topUp'[m] = topUp[m],
             topUp[l] \in TopUpRow,
             topUp[l].status = "PENDING",
             topUp'[l].status = "SUCCESS",
             topUp'[l].customer = topUp[l].customer,
             balance' = [balance EXCEPT ![topUp[l].customer] = @ + topUp[l].amount]
      PROVE  WalletMoves(c)
  <2>1. topUp[l].customer \in Customers /\ balance \in [Customers -> Nat]
    BY <1>3 DEF TopUpRow, IInv, TypeOK
  <2>2. CASE c = topUp[l].customer
    <3>1. l \in credited /\ credited = {l}
      BY <1>3, <2>2
    <3>2. balance'[c] = balance[c] + topUp[l].amount
      BY <1>3, <2>1, <2>2
    <3> QED
      BY <1>3, <3>1, <3>2 DEF WalletMoves
  <2>3. CASE c # topUp[l].customer
    <3>1. credited = {}
      BY <1>3, <2>3
    <3>2. balance'[c] = balance[c]
      BY <1>3, <2>1, <2>3
    <3> QED
      BY <3>1, <3>2 DEF WalletMoves
  <2> QED
    BY <2>2, <2>3
<1> QED
  BY <1>1, <1>2, <1>3, RowsMove

\* A wallet moves with exactly one pending row that succeeds, by its amount:
\* however many confirmations overlap, none of them credits twice.
THEOREM CreditedWithItsRow == Spec => CreditedWithRow
<1>1. IInv /\ [Next]_vars => [\A c \in Customers : WalletMoves(c)]_vars
  BY WalletStep
<1>2. IInv /\ [Next]_vars =>
        [\A c \in Customers :
           LET credited == {l \in TopUpRows : /\ topUp'[l].status = "SUCCESS"
                                              /\ topUp[l].status # "SUCCESS"
                                              /\ topUp'[l].customer = c}
           IN  \/ credited = {} /\ balance'[c] = balance[c]
               \/ \E l \in credited : /\ credited = {l}
                                      /\ topUp[l].status = "PENDING"
                                      /\ balance'[c] = balance[c] + topUp[l].amount]_vars
  BY <1>1 DEF WalletMoves
<1> QED
  BY <1>2, Invariant, PTL DEF Spec, CreditedWithRow
=============================================================================
