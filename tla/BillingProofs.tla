--------------------------- MODULE BillingProofs ---------------------------
(***************************************************************************)
(* Proofs about what is billed again and again, for every bound and any    *)
(* number of runs, requests and events: recurring payments (module         *)
(* Recurring), the dates they fall due (module BillingCalendar) and        *)
(* subscriptions (module Subscriptions); and about the refunds of an order *)
(* (module Refunds).                                                       *)
(***************************************************************************)
EXTENDS Recurring, BillingCalendar, Subscriptions, Refunds, SequenceTheorems, SumLemmas

-----------------------------------------------------------------------------
(* Recurring: what the writes make of a row.                               *)

Stage == {"due", "charged", "recorded", "failed"}
RunRow == [at : Stage, row : PaymentRow, now : 1 .. MaxDay]
Bill == [charges : 0 .. 2, excused : BOOLEAN]

LEMMA PaymentFields ==
  ASSUME NEW p \in PaymentRow
  PROVE  /\ p.status \in PaymentStatus /\ p.due \in Day /\ p.failures \in Nat
         /\ p.stopAt \in 0 .. MaxDay + 1
BY Zenon DEF PaymentRow

LEMMA RunFields ==
  ASSUME NEW q \in {NoRun} \cup RunRow
  PROVE  /\ q # NoRun => /\ q \in RunRow /\ q.at \in Stage
                         /\ q.row \in PaymentRow /\ q.now \in 1 .. MaxDay
         /\ q.at \in Stage => q # NoRun
         /\ NoRun.at = "idle"
<1>1. NoRun.at = "idle"
  BY DEF NoRun
<1>2. q \in RunRow => /\ q.at \in Stage
                      /\ q.row \in PaymentRow /\ q.now \in 1 .. MaxDay
  BY Zenon DEF RunRow
<1> QED
  BY <1>1, <1>2 DEF Stage

Charged1(p, due, st) == [p EXCEPT !.due = due, !.failures = 0, !.status = st]
Failed1(p, n, st) == [p EXCEPT !.failures = n, !.status = st]
Dated(p, due) == [p EXCEPT !.due = due]
Stopped(p, st) == [p EXCEPT !.status = st, !.stopAt = 0]
Restarted(p, st, due) == [p EXCEPT !.status = st, !.stopAt = 0, !.due = due]
Stopping(p, day) == [p EXCEPT !.stopAt = day]

LEMMA ChargedRow ==
  ASSUME NEW p \in PaymentRow, NEW due \in Day, NEW st \in PaymentStatus
  PROVE  /\ Charged1(p, due, st) \in PaymentRow /\ Charged1(p, due, st).due = due
         /\ Charged1(p, due, st).status = st
<1>1. 0 \in Nat
  OBVIOUS
<1> QED
  BY <1>1, Zenon DEF PaymentRow, Charged1

LEMMA FailedRow ==
  ASSUME NEW p \in PaymentRow, NEW n \in Nat, NEW st \in PaymentStatus
  PROVE  /\ Failed1(p, n, st) \in PaymentRow /\ Failed1(p, n, st).due = p.due
         /\ Failed1(p, n, st).status = st
BY Zenon DEF PaymentRow, Failed1

LEMMA DatedRow ==
  ASSUME NEW p \in PaymentRow, NEW due \in Day
  PROVE  /\ Dated(p, due) \in PaymentRow /\ Dated(p, due).due = due
         /\ Dated(p, due).status = p.status
BY Zenon DEF PaymentRow, Dated

LEMMA StoppedRow ==
  ASSUME NEW p \in PaymentRow, NEW st \in PaymentStatus
  PROVE  /\ Stopped(p, st) \in PaymentRow /\ Stopped(p, st).due = p.due
         /\ Stopped(p, st).status = st
<1>1. 0 \in 0 .. MaxDay + 1
  BY RecurringAssumption
<1> QED
  BY <1>1, Zenon DEF PaymentRow, Stopped

LEMMA RestartedRow ==
  ASSUME NEW p \in PaymentRow, NEW st \in PaymentStatus, NEW due \in Day
  PROVE  /\ Restarted(p, st, due) \in PaymentRow /\ Restarted(p, st, due).due = due
         /\ Restarted(p, st, due).status = st
<1>1. 0 \in 0 .. MaxDay + 1
  BY RecurringAssumption
<1> QED
  BY <1>1, Zenon DEF PaymentRow, Restarted

LEMMA StoppingRow ==
  ASSUME NEW p \in PaymentRow, NEW day \in 0 .. MaxDay + 1
  PROVE  /\ Stopping(p, day) \in PaymentRow /\ Stopping(p, day).due = p.due
         /\ Stopping(p, day).status = p.status
BY Zenon DEF PaymentRow, Stopping

At(q, stage) == [q EXCEPT !.at = stage]

LEMMA RunAt ==
  ASSUME NEW q \in RunRow, NEW stage \in Stage
  PROVE  /\ At(q, stage) \in RunRow /\ At(q, stage).at = stage
         /\ At(q, stage).row = q.row /\ At(q, stage).now = q.now
BY Zenon DEF RunRow, At

LEMMA NewRun ==
  ASSUME NEW p \in PaymentRow, NEW now \in 1 .. MaxDay
  PROVE  /\ [at |-> "due", row |-> p, now |-> now] \in RunRow
         /\ [at |-> "due", row |-> p, now |-> now].at = "due"
         /\ [at |-> "due", row |-> p, now |-> now].row = p
         /\ [at |-> "due", row |-> p, now |-> now].now = now
BY DEF RunRow, Stage

Excuse(b, e) == [b EXCEPT !.excused = e]
ChargeOn(b, n) == [b EXCEPT !.charges = n]

LEMMA BillFields ==
  ASSUME NEW b \in Bill
  PROVE  b.charges \in 0 .. 2 /\ b.excused \in BOOLEAN
BY Zenon DEF Bill

LEMMA ExcusedBill ==
  ASSUME NEW b \in Bill, NEW e \in BOOLEAN
  PROVE  /\ Excuse(b, e) \in Bill /\ Excuse(b, e).charges = b.charges
         /\ Excuse(b, e).excused = e
BY Zenon DEF Bill, Excuse

LEMMA ChargedBill ==
  ASSUME NEW b \in Bill, NEW n \in 0 .. 2
  PROVE  /\ ChargeOn(b, n) \in Bill /\ ChargeOn(b, n).charges = n
         /\ ChargeOn(b, n).excused = b.excused
BY Zenon DEF Bill, ChargeOn

-----------------------------------------------------------------------------
(* The invariant: a day charged with no excuse is behind the due date, or  *)
(* its run is about to put it behind; and every run under way began on     *)
(* that day or later, so what it writes is behind it too.                  *)

RunsOK(rn, day) ==
  \A r \in Run : rn[r] # NoRun =>
    rn[r].row.due <= rn[r].now /\ rn[r].now <= day /\ rn[r].row.status = "ACTIVE"

\* A run found alone stays the only one to charge its day.
Alone1(rn, bl) ==
  \A r, q \in Run :
    /\ rn[r].at = "due" /\ ~bl[rn[r].row.due].excused
    /\ q # r /\ rn[q] # NoRun
    => rn[q].now >= rn[r].row.due /\ ~(rn[q].at = "due" /\ rn[q].row.due = rn[r].row.due)

Behind(rn, bl, day, due) ==
  \A d \in Day : bl[d].charges >= 1 /\ ~bl[d].excused =>
    /\ d <= day
    /\ due > d \/ \E r \in Run : rn[r].at = "charged" /\ rn[r].row.due = d
    /\ \A r \in Run : rn[r] # NoRun => rn[r].now >= d /\ ~(rn[r].at = "due" /\ rn[r].row.due = d)

\* The type invariant but for the histories of a cancellation.
RecurringRowsOK ==
  /\ recurring \in PaymentRow
  /\ today \in 1 .. MaxDay
  /\ run \in [Run -> {NoRun} \cup RunRow]
  /\ ask \in [Ask -> {NoAsk} \cup [at : {"asked"}, status : PaymentStatus, due : Day]]
  /\ bill \in [Day -> Bill]

RInv == /\ RecurringRowsOK /\ ChargedOnce
        /\ RunsOK(run, today) /\ Alone1(run, bill) /\ Behind(run, bill, today, recurring.due)

LEMMA RTypes ==
  ASSUME RecurringRowsOK
  PROVE  /\ recurring \in PaymentRow /\ recurring.due \in 1 .. MaxDay + 1
         /\ today \in 1 .. MaxDay
         /\ run \in [Run -> {NoRun} \cup RunRow] /\ bill \in [Day -> Bill]
         /\ MaxDay \in Nat \ {0} /\ today + 1 \in Day
         /\ Day = 1 .. MaxDay + 1
<1>1. recurring.due \in Day
  BY PaymentFields DEF RecurringRowsOK
<1> QED
  BY <1>1, RecurringAssumption DEF RecurringRowsOK, RunRow, Bill, Day

\* The run r in flight.
LEMMA RunTypes ==
  ASSUME RecurringRowsOK, NEW r \in Run, run[r] # NoRun
  PROVE  /\ run[r] \in RunRow /\ run[r].row \in PaymentRow /\ run[r].now \in 1 .. MaxDay
         /\ run[r].row.due \in Day /\ run[r].row.status \in PaymentStatus
         /\ run[r].row.failures \in Nat /\ run[r].now + 1 \in Day
<1>1. run[r] \in RunRow /\ run[r].row \in PaymentRow /\ run[r].now \in 1 .. MaxDay
  BY RTypes, RunFields
<1>2. run[r].now + 1 \in Day
  BY <1>1, RTypes
<1> QED
  BY <1>1, <1>2, PaymentFields


LEMMA RunStepTo ==
  ASSUME RecurringRowsOK, NEW r \in Run, NEW job \in {NoRun} \cup RunRow, RunStep(r, job)
  PROVE  /\ run' \in [Run -> {NoRun} \cup RunRow] /\ run'[r] = job
         /\ \A q \in Run : q # r => run'[q] = run[q]
BY RTypes DEF RunStep

LEMMA BackToTypes ==
  ASSUME recurring \in PaymentRow, today \in 1 .. MaxDay, bill \in [Day -> Bill],
         run \in [Run -> {NoRun} \cup RunRow],
         ask \in [Ask -> {NoAsk} \cup [at : {"asked"}, status : PaymentStatus, due : Day]]
  PROVE  RecurringRowsOK
BY DEF RecurringRowsOK, RunRow, Bill

LEMMA AskType ==
  ASSUME RecurringRowsOK
  PROVE  ask \in [Ask -> {NoAsk} \cup [at : {"asked"}, status : PaymentStatus, due : Day]]
BY DEF RecurringRowsOK

\* A run ends, or fails, and the row's date stays or moves behind every charged day.
LEMMA RunSettles ==
  ASSUME RInv, NEW r \in Run, run[r] # NoRun, NEW job \in {NoRun} \cup RunRow, RunStep(r, job),
         job # NoRun => job.at \in {"recorded", "failed"} /\ job.row = run[r].row /\ job.now = run[r].now,
         bill' \in [Day -> Bill],
         \A d \in Day : bill'[d].charges = bill[d].charges /\ (bill[d].excused => bill'[d].excused),
         recurring' \in PaymentRow, UNCHANGED <<today, ask>>,
         \A d \in Day : bill[d].charges >= 1 /\ ~bill'[d].excused =>
            \/ recurring'.due > d
            \/ recurring'.due = recurring.due /\ ~(run[r].at = "charged" /\ run[r].row.due = d)
  PROVE  RInv'
<1> USE RunStepTo
<1>1. RecurringRowsOK'
  <2>1. run' \in [Run -> {NoRun} \cup RunRow] /\ today' \in 1 .. MaxDay
        /\ ask' \in [Ask -> {NoAsk} \cup [at : {"asked"}, status : PaymentStatus, due : Day]]
    BY RTypes, AskType DEF RInv
  <2> QED
    BY <2>1 DEF RecurringRowsOK, RunRow, Bill
<1>2. ChargedOnce'
  BY DEF RInv, ChargedOnce
<1>3. \A q \in Run : run'[q] # NoRun =>
        /\ run[q] # NoRun /\ run'[q].row = run[q].row /\ run'[q].now = run[q].now
        /\ run'[q].at = "due" => run[q].at = "due"
        /\ q # r => run'[q] = run[q]
  BY DEF RInv
<1>4. RunsOK(run', today')
  BY <1>3 DEF RInv, RunsOK
<1>5. \A q \in Run : run'[q].at \in Stage => run'[q] # NoRun
  BY RunFields
<1>6. Alone1(run', bill')
  <2> SUFFICES ASSUME NEW s \in Run, NEW q \in Run, run'[s].at = "due",
                      ~bill'[run'[s].row.due].excused, q # s, run'[q] # NoRun
               PROVE  run'[q].now >= run'[s].row.due
                      /\ ~(run'[q].at = "due" /\ run'[q].row.due = run'[s].row.due)
    BY DEF Alone1
  <2>1. /\ run[s] # NoRun /\ run'[s].row = run[s].row /\ run[s].at = "due"
        /\ run[q] # NoRun /\ run'[q].row = run[q].row /\ run'[q].now = run[q].now
        /\ run'[q].at = "due" => run[q].at = "due"
    BY <1>3, <1>5 DEF Stage
  <2>2. run[s].row.due \in Day
    BY <2>1, RunTypes DEF RInv
  <2>3. ~bill[run[s].row.due].excused
    BY <2>1, <2>2
  <2> QED
    BY <2>1, <2>3 DEF RInv, Alone1
<1>7. Behind(run', bill', today', recurring'.due)
  <2> SUFFICES ASSUME NEW d \in Day, bill'[d].charges >= 1, ~bill'[d].excused
               PROVE  /\ d <= today'
                      /\ \/ recurring'.due > d
                         \/ \E q \in Run : run'[q].at = "charged" /\ run'[q].row.due = d
                      /\ \A q \in Run : run'[q] # NoRun =>
                           run'[q].now >= d /\ ~(run'[q].at = "due" /\ run'[q].row.due = d)
    BY DEF Behind
  <2>1. bill[d].charges >= 1 /\ ~bill[d].excused
    OBVIOUS
  <2>2. /\ d <= today
        /\ recurring.due > d \/ \E q \in Run : run[q].at = "charged" /\ run[q].row.due = d
        /\ \A q \in Run : run[q] # NoRun => run[q].now >= d /\ ~(run[q].at = "due" /\ run[q].row.due = d)
    BY <2>1 DEF RInv, Behind
  <2>3. \A q \in Run : run'[q] # NoRun =>
           run'[q].now >= d /\ ~(run'[q].at = "due" /\ run'[q].row.due = d)
    BY <1>3, <2>2
  <2>4. CASE recurring'.due > d
    BY <2>2, <2>3, <2>4
  <2>5. CASE recurring'.due = recurring.due /\ ~(run[r].at = "charged" /\ run[r].row.due = d)
    <3>1. CASE recurring.due > d
      BY <2>2, <2>3, <2>5, <3>1
    <3>2. ASSUME NEW q \in Run, run[q].at = "charged", run[q].row.due = d
          PROVE  run'[q].at = "charged" /\ run'[q].row.due = d
      <4>1. q # r
        BY <2>5, <3>2
      <4> QED
        BY <4>1, <3>2 DEF RInv
    <3> QED
      BY <2>2, <2>3, <3>1, <3>2
  <2> QED
    BY <2>1, <2>4, <2>5
<1> QED
  BY <1>1, <1>2, <1>4, <1>6, <1>7 DEF RInv

\* The customer writes the row: its date stays, or is tomorrow; or a day passes.
LEMMA RowWritten ==
  ASSUME RInv, UNCHANGED <<run, bill>>, today' \in 1 .. MaxDay, today' >= today,
         ask' \in [Ask -> {NoAsk} \cup [at : {"asked"}, status : PaymentStatus, due : Day]],
         recurring' \in PaymentRow,
         recurring'.due = recurring.due \/ recurring'.due = today + 1
  PROVE  RInv'
<1>t. /\ recurring.due \in 1 .. MaxDay + 1 /\ today \in 1 .. MaxDay /\ MaxDay \in Nat \ {0}
      /\ Day = 1 .. MaxDay + 1 /\ RecurringRowsOK
  BY RTypes DEF RInv
<1>1. RecurringRowsOK'
  BY <1>t DEF RecurringRowsOK
<1>2. ChargedOnce' /\ Alone1(run', bill')
  BY DEF RInv, ChargedOnce
<1>3. RunsOK(run', today')
  <2> SUFFICES ASSUME NEW r \in Run, run[r] # NoRun
               PROVE  run[r].row.due <= run[r].now /\ run[r].now <= today'
                      /\ run[r].row.status = "ACTIVE"
    BY DEF RunsOK
  <2>1. run[r].now \in 1 .. MaxDay
    BY <1>t, RunTypes
  <2>2. run[r].row.due <= run[r].now /\ run[r].now <= today /\ run[r].row.status = "ACTIVE"
    BY DEF RInv, RunsOK
  <2> QED
    BY <2>1, <2>2, <1>t
<1>4. Behind(run', bill', today', recurring'.due)
  <2> SUFFICES ASSUME NEW d \in Day, bill[d].charges >= 1, ~bill[d].excused
               PROVE  /\ d <= today'
                      /\ recurring'.due > d \/ \E r \in Run : run[r].at = "charged" /\ run[r].row.due = d
                      /\ \A r \in Run : run[r] # NoRun =>
                           run[r].now >= d /\ ~(run[r].at = "due" /\ run[r].row.due = d)
    BY DEF Behind
  <2>1. /\ d <= today
        /\ recurring.due > d \/ \E r \in Run : run[r].at = "charged" /\ run[r].row.due = d
        /\ \A r \in Run : run[r] # NoRun =>
             run[r].now >= d /\ ~(run[r].at = "due" /\ run[r].row.due = d)
    BY DEF RInv, Behind
  <2>2. d <= today' /\ (recurring.due > d => recurring'.due > d)
    BY <2>1, <1>t
  <2> QED
    BY <2>1, <2>2
<1> QED
  BY <1>1, <1>2, <1>3, <1>4 DEF RInv

-----------------------------------------------------------------------------
(* The steps of a run.                                                     *)

LEMMA ChargeDeclinedInv ==
  ASSUME RInv, NEW r \in Run, ChargeDeclined(r)
  PROVE  RInv'
<1>t. RecurringRowsOK
  BY DEF RInv
<1>1. run[r] # NoRun /\ run[r].at = "due"
  BY <1>t, RTypes, RunFields DEF ChargeDeclined
<1>2. RunStep(r, At(run[r], "failed"))
  BY DEF ChargeDeclined, At
<1>3. /\ At(run[r], "failed") \in RunRow /\ At(run[r], "failed").at = "failed"
      /\ At(run[r], "failed").row = run[r].row /\ At(run[r], "failed").now = run[r].now
  BY <1>t, <1>1, RunTypes, RunAt DEF Stage
<1>4. UNCHANGED <<recurring, today, ask, bill>>
  BY DEF ChargeDeclined
<1>5. RInv'
  BY <1>t, <1>1, <1>2, <1>3, <1>4, RunSettles, RTypes
<1> QED
  BY <1>4, <1>5

\* What follows the charge is lost: the day is excused.
LEMMA RecordingFailsInv ==
  ASSUME RInv, NEW r \in Run, RecordingFails(r)
  PROVE  RInv'
<1>t. RecurringRowsOK
  BY DEF RInv
<1>1. run[r] # NoRun /\ run[r].at = "charged"
  BY <1>t, RTypes, RunFields DEF RecordingFails
<1>2. RunStep(r, At(run[r], "failed"))
  BY DEF RecordingFails, At
<1>3. /\ At(run[r], "failed") \in RunRow /\ At(run[r], "failed").at = "failed"
      /\ At(run[r], "failed").row = run[r].row /\ At(run[r], "failed").now = run[r].now
  BY <1>t, <1>1, RunTypes, RunAt DEF Stage
<1>4. UNCHANGED <<recurring, today, ask>>
  BY DEF RecordingFails
<1> DEFINE e == run[r].row.due
<1>5. e \in Day /\ bill \in [Day -> Bill] /\ recurring \in PaymentRow
  BY <1>t, <1>1, RunTypes, RTypes
<1>6. bill' = [bill EXCEPT ![e] = Excuse(bill[e], TRUE)]
  BY Zenon DEF RecordingFails, Excuse
<1>7. /\ bill' \in [Day -> Bill] /\ bill'[e].excused
      /\ \A d \in Day : bill'[d].charges = bill[d].charges /\ (bill[d].excused => bill'[d].excused)
  <2>1. bill[e] \in Bill
    BY <1>5
  <2>2. /\ Excuse(bill[e], TRUE) \in Bill /\ Excuse(bill[e], TRUE).charges = bill[e].charges
        /\ Excuse(bill[e], TRUE).excused
    BY <2>1, ExcusedBill
  <2> HIDE DEF e
  <2> QED
    BY <2>2, <1>5, <1>6
<1> HIDE DEF e
<1>8. \A d \in Day : bill[d].charges >= 1 /\ ~bill'[d].excused =>
        recurring'.due = recurring.due /\ ~(run[r].at = "charged" /\ run[r].row.due = d)
  BY <1>4, <1>7 DEF e
<1>9. RInv'
  BY <1>1, <1>2, <1>3, <1>4, <1>5, <1>7, <1>8, RunSettles
<1> QED
  BY <1>4, <1>9

LEMMA RunCrashesInv ==
  ASSUME RInv, NEW r \in Run, RunCrashes(r)
  PROVE  RInv'
<1>t. RecurringRowsOK
  BY DEF RInv
<1>1. run[r] # NoRun /\ RunStep(r, NoRun) /\ UNCHANGED <<recurring, today, ask>>
  BY DEF RunCrashes
<1> DEFINE e == run[r].row.due
           x == bill[e].excused \/ run[r].at = "charged"
<1>5. e \in Day /\ bill \in [Day -> Bill] /\ recurring \in PaymentRow
  BY <1>t, <1>1, RunTypes, RTypes
<1>6. bill' = [bill EXCEPT ![e] = Excuse(bill[e], x)]
  BY Zenon DEF RunCrashes, Excuse
<1>x. x \in BOOLEAN
  BY <1>5, BillFields
<1>7. /\ bill' \in [Day -> Bill] /\ bill'[e].excused = x
      /\ \A d \in Day : bill'[d].charges = bill[d].charges /\ (bill[d].excused => bill'[d].excused)
  <2>1. bill[e] \in Bill
    BY <1>5
  <2>2. /\ Excuse(bill[e], x) \in Bill /\ Excuse(bill[e], x).charges = bill[e].charges
        /\ Excuse(bill[e], x).excused = x
    BY <2>1, <1>x, ExcusedBill
  <2>3. bill[e].excused => x
    OBVIOUS
  <2> HIDE DEF e, x
  <2> QED
    BY <2>2, <2>3, <1>5, <1>6
<1>8. \A d \in Day : bill[d].charges >= 1 /\ ~bill'[d].excused =>
        recurring'.due = recurring.due /\ ~(run[r].at = "charged" /\ run[r].row.due = d)
  BY <1>1, <1>7
<1> HIDE DEF e, x
<1>9. RInv'
  BY <1>1, <1>5, <1>7, <1>8, RunSettles
<1> QED
  BY <1>1, <1>9

\* The date written is behind the day the run began on, hence behind every charged day.
LEMMA RecordSuccessInv ==
  ASSUME RInv, NEW r \in Run, RecordSuccess(r)
  PROVE  RInv'
<1>t. RecurringRowsOK
  BY DEF RInv
<1>1. /\ run[r] # NoRun /\ RunStep(r, At(run[r], "recorded"))
      /\ UNCHANGED <<today, ask, bill>>
  BY <1>t, RTypes, RunFields DEF RecordSuccess, At, Stage
<1>7. /\ At(run[r], "recorded") \in RunRow /\ At(run[r], "recorded").at = "recorded"
      /\ At(run[r], "recorded").row = run[r].row /\ At(run[r], "recorded").now = run[r].now
  BY <1>t, <1>1, RunTypes, RunAt DEF Stage
<1>2. run[r].row.status = "ACTIVE" /\ run[r].now + 1 \in Day /\ run[r].now \in 1 .. MaxDay
  BY <1>t, <1>1, RunTypes DEF RInv, RunsOK
<1>3. PICK st \in PaymentStatus : recurring' = Charged1(recurring, run[r].now + 1, st)
  <2> DEFINE row == run[r].row
             next == run[r].now + 1
             stops == row.stopAt # 0 /\ row.stopAt <= run[r].now
             st == IF next > EndDay THEN "EXPIRED" ELSE IF stops THEN "CANCELLED" ELSE "ACTIVE"
  <2>1. recurring' = Charged1(recurring, next, st)
    BY Zenon DEF RecordSuccess, NextBillingAt, Charged1
  <2>2. st \in PaymentStatus
    BY DEF PaymentStatus
  <2> QED
    BY <2>1, <2>2, Zenon
<1>4. recurring' \in PaymentRow /\ recurring'.due = run[r].now + 1
  BY <1>2, <1>3, <1>t, RTypes, ChargedRow
<1>5. \A d \in Day : bill[d].charges >= 1 /\ ~bill[d].excused => recurring'.due > d
  BY <1>1, <1>2, <1>4 DEF RInv, Behind, Day
<1>6. RInv'
  BY <1>1, <1>4, <1>5, <1>7, <1>t, RTypes, RunSettles
<1> QED
  BY <1>1, <1>2, <1>6

\* The charge is recorded; the notification goes out, or its failure is one of the run.
LEMMA NotifyInv ==
  ASSUME RInv, NEW r \in Run, NotifySucceeds(r) \/ NotifyFails(r)
  PROVE  RInv'
<1>t. RecurringRowsOK
  BY DEF RInv
<1>1. run[r] # NoRun /\ run[r].at = "recorded" /\ UNCHANGED <<recurring, today, ask, bill>>
  BY <1>t, RTypes, RunFields DEF NotifySucceeds, NotifyFails, Stage
<1>2. RunStep(r, NoRun) \/ RunStep(r, At(run[r], "failed"))
  BY DEF NotifySucceeds, NotifyFails, At
<1>3. /\ At(run[r], "failed") \in RunRow /\ At(run[r], "failed").at = "failed"
      /\ At(run[r], "failed").row = run[r].row /\ At(run[r], "failed").now = run[r].now
  BY <1>t, <1>1, RunTypes, RunAt DEF Stage
<1>4. CASE RunStep(r, NoRun)
  BY <1>t, <1>1, <1>4, RunSettles, RTypes
<1>5. CASE RunStep(r, At(run[r], "failed"))
  BY <1>t, <1>1, <1>3, <1>5, RunSettles, RTypes
<1> QED
  BY <1>2, <1>4, <1>5

LEMMA RecordFailureInv ==
  ASSUME RInv, NEW r \in Run, RecordFailure(r)
  PROVE  RInv'
<1>t. RecurringRowsOK
  BY DEF RInv
<1>1. /\ run[r] # NoRun /\ run[r].at = "failed" /\ RunStep(r, NoRun)
      /\ UNCHANGED <<today, ask, bill>>
  BY <1>t, RTypes, RunFields DEF RecordFailure
<1>2. run[r].row.status = "ACTIVE" /\ run[r].row.failures \in Nat
      /\ run[r].row.status \in PaymentStatus
  BY <1>t, <1>1, RunTypes DEF RInv, RunsOK
<1>3. PICK st \in PaymentStatus, n \in Nat : recurring' = Failed1(recurring, n, st)
  <2> DEFINE n == run[r].row.failures + 1
             st == IF n >= LastFailure THEN "FAILED" ELSE run[r].row.status
  <2>1. recurring' = Failed1(recurring, n, st)
    BY Zenon DEF RecordFailure, Failed1
  <2>2. st \in PaymentStatus
    BY <1>2 DEF PaymentStatus
  <2>3. n \in Nat
    BY <1>2
  <2> HIDE DEF n, st
  <2> QED
    BY <2>1, <2>2, <2>3, Zenon
<1>4. recurring' \in PaymentRow /\ recurring'.due = recurring.due
  BY <1>3, <1>t, RTypes, FailedRow
<1>6. RInv'
  BY <1>1, <1>4, <1>t, RTypes, RunSettles
<1> QED
  BY <1>1, <1>2, <1>6

\* A day found while another run is under way is excused; a run that finds an unexcused
\* day is alone, and the day is not charged yet.
LEMMA FindDueInv ==
  ASSUME RInv, NEW r \in Run, FindDue(r)
  PROVE  RInv'
<1>t. /\ RecurringRowsOK /\ recurring \in PaymentRow /\ recurring.due \in 1 .. MaxDay + 1
      /\ today \in 1 .. MaxDay /\ run \in [Run -> {NoRun} \cup RunRow] /\ bill \in [Day -> Bill]
      /\ MaxDay \in Nat \ {0} /\ Day = 1 .. MaxDay + 1
  BY RTypes DEF RInv
<1> DEFINE e == recurring.due
           x == bill[e].excused \/ Overlapped
           job == [at |-> "due", row |-> recurring, now |-> today]
<1>1. /\ run[r] = NoRun /\ recurring.status = "ACTIVE" /\ e <= today /\ RunStep(r, job)
      /\ UNCHANGED <<recurring, today, ask>>
  BY DEF FindDue
<1>2. job \in RunRow /\ job.at = "due" /\ job.row = recurring /\ job.now = today
  BY <1>t, NewRun
<1>3. bill' = [bill EXCEPT ![e] = Excuse(bill[e], x)]
  BY Zenon DEF FindDue, Excuse
<1>x. e \in Day /\ e \in 1 .. MaxDay + 1 /\ bill[e] \in Bill /\ x \in BOOLEAN
  BY <1>t, BillFields DEF Overlapped
<1>4. (x <=> bill[e].excused \/ Overlapped) /\ e = recurring.due
  OBVIOUS
<1>5. Excuse(bill[e], x) \in Bill /\ Excuse(bill[e], x).charges = bill[e].charges
      /\ Excuse(bill[e], x).excused = x
  BY <1>x, ExcusedBill
<1> HIDE DEF e, x, job
<1>6. /\ bill' \in [Day -> Bill] /\ bill'[e].excused = x
      /\ \A d \in Day : bill'[d].charges = bill[d].charges /\ (bill[d].excused => bill'[d].excused)
  BY <1>t, <1>3, <1>4, <1>5, <1>x
<1>7. /\ run' \in [Run -> {NoRun} \cup RunRow] /\ run'[r] = job
      /\ \A q \in Run : q # r => run'[q] = run[q]
  BY <1>1, <1>2, <1>t, RunStepTo
<1>8. RecurringRowsOK'
  BY <1>1, <1>6, <1>7, <1>t DEF RecurringRowsOK, RunRow, Bill
<1>9. ChargedOnce'
  BY <1>6 DEF RInv, ChargedOnce
<1>10. RunsOK(run', today')
  <2> SUFFICES ASSUME NEW q \in Run, run'[q] # NoRun
               PROVE  /\ run'[q].row.due <= run'[q].now /\ run'[q].now <= today
                      /\ run'[q].row.status = "ACTIVE"
    BY <1>1 DEF RunsOK
  <2>1. CASE q = r
    <3>1. today <= today
      BY <1>t
    <3> QED
      BY <2>1, <3>1, <1>1, <1>2, <1>4, <1>7
  <2>2. CASE q # r
    BY <2>2, <1>7 DEF RInv, RunsOK
  <2> QED
    BY <2>1, <2>2
<1>11. \A q \in Run : run[q].at \in Stage => run[q] # NoRun
  BY <1>t, RunFields
<1>12. \A q \in Run : run[q] # NoRun => /\ run[q].now \in 1 .. MaxDay /\ run[q].row.due \in Day
                                        /\ run[q].now <= today /\ run[q].row.due <= run[q].now
  BY <1>t, RunTypes DEF RInv, RunsOK
<1>13. Alone1(run', bill')
  <2> SUFFICES ASSUME NEW s \in Run, NEW q \in Run, run'[s].at = "due",
                      ~bill'[run'[s].row.due].excused, q # s, run'[q] # NoRun
               PROVE  run'[q].now >= run'[s].row.due
                      /\ ~(run'[q].at = "due" /\ run'[q].row.due = run'[s].row.due)
    BY DEF Alone1
  <2>1. CASE s = r
    <3>1. run[q] # NoRun /\ ~x
      BY <2>1, <1>2, <1>4, <1>6, <1>7
    <3> QED
      BY <3>1, <1>4 DEF Overlapped
  <2>2. CASE s # r
    <3>1. run[s] # NoRun /\ run[s].at = "due" /\ run'[s] = run[s]
      BY <2>2, <1>7, <1>11 DEF Stage
    <3>2. x
      BY <3>1, <1>4 DEF Overlapped
    <3>3. run[s].row.due # e /\ ~bill[run[s].row.due].excused
      BY <3>1, <3>2, <1>6, <1>12
    <3>4. CASE q = r
      <4>1. today >= run[s].row.due
        BY <3>1, <1>12, <1>t
      <4> QED
        BY <4>1, <3>1, <3>3, <3>4, <1>2, <1>4, <1>7
    <3>5. CASE q # r
      BY <3>1, <3>3, <3>5, <1>7 DEF RInv, Alone1
    <3> QED
      BY <3>4, <3>5
  <2> QED
    BY <2>1, <2>2
<1>14. Behind(run', bill', today', recurring'.due)
  <2> SUFFICES ASSUME NEW d \in Day, bill'[d].charges >= 1, ~bill'[d].excused
               PROVE  /\ d <= today
                      /\ recurring.due > d \/ \E q \in Run : run'[q].at = "charged" /\ run'[q].row.due = d
                      /\ \A q \in Run : run'[q] # NoRun =>
                           run'[q].now >= d /\ ~(run'[q].at = "due" /\ run'[q].row.due = d)
    BY <1>1 DEF Behind
  <2>1. bill[d].charges >= 1 /\ ~bill[d].excused
    BY <1>6
  <2>2. /\ d <= today
        /\ recurring.due > d \/ \E q \in Run : run[q].at = "charged" /\ run[q].row.due = d
        /\ \A q \in Run : run[q] # NoRun => run[q].now >= d /\ ~(run[q].at = "due" /\ run[q].row.due = d)
    BY <2>1 DEF RInv, Behind
  <2>3. ASSUME NEW q \in Run, run[q].at = "charged", run[q].row.due = d
        PROVE  /\ run'[q].at = "charged" /\ run'[q].row.due = d
               /\ x
    <3>1. run[q] # NoRun /\ q # r
      BY <2>3, <1>1, <1>11 DEF Stage
    <3> QED
      BY <3>1, <2>3, <1>4, <1>7 DEF Overlapped
  <2>4. e # d
    <3>1. CASE recurring.due > d
      BY <3>1, <1>4, <1>t, <1>x
    <3>2. CASE \E q \in Run : run[q].at = "charged" /\ run[q].row.due = d
      BY <3>2, <2>3, <1>6
    <3> QED
      BY <3>1, <3>2, <2>2
  <2>5. \A q \in Run : run'[q] # NoRun =>
          run'[q].now >= d /\ ~(run'[q].at = "due" /\ run'[q].row.due = d)
    <3> SUFFICES ASSUME NEW q \in Run, run'[q] # NoRun
                 PROVE  run'[q].now >= d /\ ~(run'[q].at = "due" /\ run'[q].row.due = d)
      OBVIOUS
    <3>1. CASE q = r
      BY <3>1, <2>2, <2>4, <1>2, <1>4, <1>7, <1>t
    <3>2. CASE q # r
      BY <3>2, <2>2, <1>7
    <3> QED
      BY <3>1, <3>2
  <2> QED
    BY <2>2, <2>3, <2>5
<1>15. RInv'
  BY <1>8, <1>9, <1>10, <1>13, <1>14 DEF RInv
<1> QED
  BY <1>1, <1>15

\* The run that charges a day with no excuse is the first and the only one to do so.
LEMMA ChargeInv ==
  ASSUME RInv, NEW r \in Run, Charge(r)
  PROVE  RInv'
<1>t. /\ RecurringRowsOK /\ recurring.due \in 1 .. MaxDay + 1 /\ today \in 1 .. MaxDay
      /\ run \in [Run -> {NoRun} \cup RunRow] /\ bill \in [Day -> Bill]
      /\ MaxDay \in Nat \ {0} /\ Day = 1 .. MaxDay + 1
  BY RTypes DEF RInv
<1>1. run[r] # NoRun /\ run[r].at = "due"
  BY <1>t, RunFields DEF Charge
<1> DEFINE e == run[r].row.due
           n == IF bill[e].charges = 2 THEN 2 ELSE bill[e].charges + 1
           job == At(run[r], "charged")
<1>2. RunStep(r, job) /\ UNCHANGED <<recurring, today, ask>>
  BY DEF Charge, At
<1>3. bill' = [bill EXCEPT ![e] = ChargeOn(bill[e], n)]
  BY Zenon DEF Charge, ChargeOn
<1>4. job \in RunRow /\ job.at = "charged" /\ job.row = run[r].row /\ job.now = run[r].now
  BY <1>t, <1>1, RunTypes, RunAt DEF Stage
<1>5. e \in Day /\ bill[e] \in Bill /\ e = run[r].row.due
  BY <1>t, <1>1, RunTypes
<1>6. n \in 0 .. 2 /\ (bill[e].charges = 0 => n = 1)
  BY <1>5, BillFields
<1>7. ChargeOn(bill[e], n) \in Bill /\ ChargeOn(bill[e], n).charges = n
      /\ ChargeOn(bill[e], n).excused = bill[e].excused
  BY <1>5, <1>6, ChargedBill
<1> HIDE DEF e, n, job
<1>8. /\ bill' \in [Day -> Bill] /\ bill'[e].charges = n
      /\ \A d \in Day : bill'[d].excused = bill[d].excused
      /\ \A d \in Day : d # e => bill'[d] = bill[d]
  BY <1>t, <1>3, <1>5, <1>7
<1>9. /\ run' \in [Run -> {NoRun} \cup RunRow] /\ run'[r] = job
      /\ \A q \in Run : q # r => run'[q] = run[q]
  BY <1>2, <1>4, <1>t, RunStepTo
<1>10. \A q \in Run : run'[q] # NoRun =>
         /\ run[q] # NoRun /\ run'[q].row = run[q].row /\ run'[q].now = run[q].now
         /\ run'[q].at = "due" => run[q].at = "due"
  BY <1>1, <1>4, <1>9
<1>11. \A q \in Run : run'[q].at \in Stage => run'[q] # NoRun
  BY <1>9, RunFields
<1>12. RecurringRowsOK'
  BY <1>2, <1>8, <1>9, <1>t DEF RecurringRowsOK, RunRow, Bill
<1>13. RunsOK(run', today')
  BY <1>2, <1>10 DEF RInv, RunsOK
<1>14. Alone1(run', bill')
  <2> SUFFICES ASSUME NEW s \in Run, NEW q \in Run, run'[s].at = "due",
                      ~bill'[run'[s].row.due].excused, q # s, run'[q] # NoRun
               PROVE  run'[q].now >= run'[s].row.due
                      /\ ~(run'[q].at = "due" /\ run'[q].row.due = run'[s].row.due)
    BY DEF Alone1
  <2>1. /\ run[s] # NoRun /\ run'[s].row = run[s].row /\ run[s].at = "due"
        /\ run[q] # NoRun /\ run'[q].row = run[q].row /\ run'[q].now = run[q].now
        /\ run'[q].at = "due" => run[q].at = "due"
    BY <1>10, <1>11 DEF Stage
  <2>2. ~bill[run[s].row.due].excused
    BY <2>1, <1>8, RunTypes, <1>t
  <2> QED
    BY <2>1, <2>2 DEF RInv, Alone1
<1>15. ~bill[e].excused => bill[e].charges = 0
  <2>1. ~bill[e].excused => ~(bill[e].charges >= 1)
    BY <1>1, <1>5 DEF RInv, Behind
  <2> QED
    BY <2>1, <1>5, BillFields
<1>16. ChargedOnce'
  BY <1>6, <1>8, <1>15 DEF RInv, ChargedOnce
<1>17. Behind(run', bill', today', recurring'.due)
  <2> SUFFICES ASSUME NEW d \in Day, bill'[d].charges >= 1, ~bill'[d].excused
               PROVE  /\ d <= today
                      /\ recurring.due > d \/ \E q \in Run : run'[q].at = "charged" /\ run'[q].row.due = d
                      /\ \A q \in Run : run'[q] # NoRun =>
                           run'[q].now >= d /\ ~(run'[q].at = "due" /\ run'[q].row.due = d)
    BY <1>2 DEF Behind
  <2>1. CASE d = e
    <3>1. e <= run[r].now /\ run[r].now <= today /\ run[r].now \in 1 .. MaxDay
      BY <1>1, <1>5, <1>t, RunTypes DEF RInv, RunsOK
    <3>2. run'[r].at = "charged" /\ run'[r].row.due = d
      BY <2>1, <1>4, <1>5, <1>9
    <3>3. e <= today
      BY <3>1, <1>5, <1>t
    <3>4. ASSUME NEW q \in Run, run'[q] # NoRun, q # r
          PROVE  run'[q].now >= d /\ ~(run'[q].at = "due" /\ run'[q].row.due = d)
      <4>1. ~bill[run[r].row.due].excused
        BY <2>1, <1>5, <1>8
      <4> QED
        BY <4>1, <3>4, <2>1, <1>1, <1>5, <1>9 DEF RInv, Alone1
    <3>5. run'[r].now >= d /\ run'[r].at # "due"
      BY <3>1, <2>1, <1>4, <1>9, <1>5, <1>t
    <3> QED
      BY <2>1, <3>2, <3>3, <3>4, <3>5
  <2>2. CASE d # e
    <3>1. bill[d].charges >= 1 /\ ~bill[d].excused
      BY <2>2, <1>8
    <3>2. /\ d <= today
          /\ recurring.due > d \/ \E q \in Run : run[q].at = "charged" /\ run[q].row.due = d
          /\ \A q \in Run : run[q] # NoRun => run[q].now >= d /\ ~(run[q].at = "due" /\ run[q].row.due = d)
      BY <3>1 DEF RInv, Behind
    <3>3. \A q \in Run : run'[q] # NoRun =>
            run'[q].now >= d /\ ~(run'[q].at = "due" /\ run'[q].row.due = d)
      BY <3>2, <1>10
    <3>4. \A q \in Run : run[q].at = "charged" /\ run[q].row.due = d =>
            run'[q].at = "charged" /\ run'[q].row.due = d
      BY <1>1, <1>9
    <3> QED
      BY <3>2, <3>3, <3>4
  <2> QED
    BY <2>1, <2>2
<1>18. RInv'
  BY <1>12, <1>13, <1>14, <1>16, <1>17 DEF RInv
<1> QED
  BY <1>2, <1>18

-----------------------------------------------------------------------------
(* The steps of the customer, and the day.                                 *)

LEMMA DayPassesInv ==
  ASSUME RInv, DayPasses
  PROVE  RInv'
<1>1. today' \in 1 .. MaxDay /\ today' >= today
  BY RTypes DEF RInv, DayPasses
<1>2. UNCHANGED <<recurring, run, ask, bill>>
  BY DEF DayPasses
<1>3. RInv'
  BY <1>1, <1>2, RowWritten, RTypes, AskType DEF RInv
<1> QED
  BY <1>2, <1>3

LEMMA AskStepType ==
  ASSUME RInv, NEW a \in Ask, NEW job, AskStep(a, job), UNCHANGED <<today, run, bill>>,
         job \in {NoAsk} \cup [at : {"asked"}, status : PaymentStatus, due : Day]
  PROVE  /\ ask' \in [Ask -> {NoAsk} \cup [at : {"asked"}, status : PaymentStatus, due : Day]]
         /\ today' \in 1 .. MaxDay /\ today' >= today
BY RTypes, AskType DEF AskStep, RInv

LEMMA AskFields ==
  ASSUME RInv, NEW a \in Ask
  PROVE  /\ ask[a].at = "asked" => /\ ask[a] # NoAsk
                                   /\ ask[a].status \in PaymentStatus /\ ask[a].due \in Day
<1> DEFINE Asked == [at : {"asked"}, status : PaymentStatus, due : Day]
<1>1. \A q \in Asked : q.status \in PaymentStatus /\ q.due \in Day
  OBVIOUS
<1>2. NoAsk.at # "asked"
  BY DEF NoAsk
<1>3. ask[a] \in {NoAsk} \cup Asked
  BY AskType DEF RInv
<1> HIDE DEF Asked
<1> QED
  BY <1>1, <1>2, <1>3

LEMMA GetOwnedInv ==
  ASSUME RInv, NEW a \in Ask, GetOwned(a)
  PROVE  RInv'
<1>1. recurring.status \in PaymentStatus /\ recurring.due \in Day /\ recurring \in PaymentRow
  BY RTypes, PaymentFields DEF RInv
<1>2. [at |-> "asked", status |-> recurring.status, due |-> recurring.due]
        \in [at : {"asked"}, status : PaymentStatus, due : Day]
  BY <1>1
<1>3. UNCHANGED <<recurring, today, run, bill>>
  BY DEF GetOwned
<1>4. RInv'
  BY <1>1, <1>2, <1>3, AskStepType, RowWritten DEF GetOwned
<1> QED
  BY <1>3, <1>4

LEMMA AskRefusedInv ==
  ASSUME RInv, NEW a \in Ask, AskRefused(a)
  PROVE  RInv'
<1>1. UNCHANGED <<recurring, today, run, bill>> /\ recurring \in PaymentRow
  BY RTypes DEF RInv, AskRefused
<1>2. RInv'
  BY <1>1, AskStepType, RowWritten DEF AskRefused
<1> QED
  BY <1>1, <1>2

\* A request writes a row with the date it had, or tomorrow's.
LEMMA WriteInv ==
  ASSUME RInv, NEW a \in Ask, ask[a].at = "asked", NEW row \in PaymentRow, Write(a, row),
         row.due = recurring.due \/ row.due = today + 1
  PROVE  RInv'
<1>1. recurring' = row /\ UNCHANGED <<today, run, bill>> /\ AskStep(a, NoAsk)
  BY DEF Write
<1>2. RInv'
  BY <1>1, AskStepType, RowWritten
<1>3. ask[a] # NoAsk
  BY AskFields
<1> QED
  BY <1>1, <1>2, <1>3

LEMMA UpdateInv ==
  ASSUME RInv, NEW a \in Ask, Update(a)
  PROVE  RInv'
<1>1. ask[a].at = "asked" /\ ask[a].status # "CANCELLED"
      /\ Write(a, Dated(recurring, today + 1))
  BY DEF Update, Dated, NextBillingAt
<1>2. recurring \in PaymentRow /\ today + 1 \in Day
  BY RTypes DEF RInv
<1> QED
  BY <1>1, <1>2, DatedRow, WriteInv

LEMMA PauseActionInv ==
  ASSUME RInv, NEW a \in Ask, PauseAction(a)
  PROVE  RInv'
<1>1. ask[a].at = "asked" /\ ask[a].status # "CANCELLED" /\ Write(a, Stopped(recurring, "PAUSED"))
  BY DEF PauseAction, Stopped
<1>2. recurring \in PaymentRow /\ "PAUSED" \in PaymentStatus
  BY RTypes DEF RInv, PaymentStatus
<1> QED
  BY <1>1, <1>2, StoppedRow, WriteInv

LEMMA ResumeActionInv ==
  ASSUME RInv, NEW a \in Ask, ResumeAction(a)
  PROVE  RInv'
<1>1. /\ ask[a].at = "asked" /\ ask[a].status # "CANCELLED"
      /\ Write(a, Restarted(recurring, "ACTIVE", today + 1))
  BY DEF ResumeAction, Restarted, NextBillingAt
<1>2. recurring \in PaymentRow /\ today + 1 \in Day /\ "ACTIVE" \in PaymentStatus
  BY RTypes DEF RInv, PaymentStatus
<1> QED
  BY <1>1, <1>2, RestartedRow, WriteInv

LEMMA CancelActionInv ==
  ASSUME RInv, NEW a \in Ask, CancelAction(a)
  PROVE  RInv'
<1>1. ask[a].at = "asked" /\ ask[a].status # "CANCELLED"
  BY DEF CancelAction, Open
<1>2. \/ Write(a, Stopped(recurring, "CANCELLED"))
      \/ Write(a, Stopping(recurring, ask[a].due))
  BY DEF CancelAction, Stopped, Stopping
<1>3. recurring \in PaymentRow /\ "CANCELLED" \in PaymentStatus /\ ask[a].due \in 0 .. MaxDay + 1
  BY <1>1, AskFields, RTypes DEF RInv, PaymentStatus
<1>4. CASE Write(a, Stopped(recurring, "CANCELLED"))
  BY <1>1, <1>3, <1>4, StoppedRow, WriteInv
<1>5. CASE Write(a, Stopping(recurring, ask[a].due))
  BY <1>1, <1>3, <1>5, StoppingRow, WriteInv
<1> QED
  BY <1>2, <1>4, <1>5

-----------------------------------------------------------------------------
LEMMA RecurringStart ==
  ASSUME RecurringInit
  PROVE  RInv
<1>1. /\ today = 1 /\ run = [r \in Run |-> NoRun] /\ ask = [a \in Ask |-> NoAsk]
      /\ recurring = [status |-> "ACTIVE", due |-> 1, failures |-> 0, stopAt |-> 0]
      /\ bill = [d \in Day |-> [charges |-> 0, excused |-> FALSE]]
  BY DEF RecurringInit
<1>2. 1 \in 1 .. MaxDay /\ 1 \in Day /\ 0 \in 0 .. MaxDay + 1 /\ 0 \in Nat /\ 0 \in 0 .. 2
      /\ "ACTIVE" \in PaymentStatus
  BY RecurringAssumption DEF Day, PaymentStatus
<1>3. recurring \in PaymentRow /\ recurring.due = 1
  BY <1>1, <1>2 DEF PaymentRow
<1>4. [charges |-> 0, excused |-> FALSE] \in [charges : 0 .. 2, excused : BOOLEAN]
  BY <1>2
<1>5. RecurringRowsOK
  BY <1>1, <1>2, <1>3, <1>4 DEF RecurringRowsOK, Bill
<1>6. \A d \in Day : bill[d].charges = 0
  BY <1>1
<1>7. \A r \in Run : run[r] = NoRun /\ run[r].at # "due"
  BY <1>1 DEF NoRun
<1>8. ChargedOnce /\ Behind(run, bill, today, recurring.due)
  BY <1>6 DEF ChargedOnce, Behind
<1>9. RunsOK(run, today) /\ Alone1(run, bill)
  BY <1>7 DEF RunsOK, Alone1
<1> QED
  BY <1>5, <1>8, <1>9 DEF RInv

LEMMA RecurringStutters ==
  ASSUME RInv, UNCHANGED recurringVars
  PROVE  RInv'
BY DEF RInv, recurringVars, RecurringRowsOK, ChargedOnce, RunsOK, Alone1, Behind

LEMMA RecurringStep ==
  ASSUME RInv, [RecurringNext]_recurringVars
  PROVE  RInv'
<1>1. CASE UNCHANGED recurringVars
  BY <1>1, RecurringStutters
<1>2. CASE DayPasses
  BY <1>2, DayPassesInv
<1>3. ASSUME NEW r \in Run,
             \/ FindDue(r) \/ Charge(r) \/ ChargeDeclined(r) \/ RecordSuccess(r)
             \/ NotifySucceeds(r) \/ NotifyFails(r)
             \/ RecordingFails(r) \/ RecordFailure(r) \/ RunCrashes(r)
      PROVE  RInv'
  BY <1>3, FindDueInv, ChargeInv, ChargeDeclinedInv, RecordSuccessInv, RecordingFailsInv,
     RecordFailureInv, RunCrashesInv, NotifyInv
<1>4. ASSUME NEW a \in Ask,
             \/ GetOwned(a) \/ Update(a) \/ PauseAction(a) \/ ResumeAction(a)
             \/ CancelAction(a) \/ AskRefused(a)
      PROVE  RInv'
  BY <1>4, GetOwnedInv, UpdateInv, PauseActionInv, ResumeActionInv, CancelActionInv, AskRefusedInv
<1> QED
  BY <1>1, <1>2, <1>3, <1>4 DEF RecurringNext

-----------------------------------------------------------------------------
(* A cancellation.  Only what held the row before writes another status    *)
(* over it: a run holds an active row, a request what it has read.         *)

\* What a step makes of the status, of the runs and of the requests.
Carries ==
  /\ recurring.status = "CANCELLED" /\ recurring'.status # "CANCELLED" =>
       \/ \E r \in Run : run[r] # NoRun /\ run'[r] # run[r]
       \/ \E a \in Ask : ask[a] # NoAsk /\ ask[a].status # "CANCELLED" /\ ask'[a] # ask[a]
  /\ \A r \in Run : run'[r] # NoRun =>
       run[r] # NoRun \/ (recurring.status = "ACTIVE" /\ recurring'.status = "ACTIVE")
  /\ \A a \in Ask : ask'[a] # NoAsk =>
       \/ ask[a] # NoAsk /\ ask'[a].status = ask[a].status
       \/ ask'[a].status = recurring.status /\ recurring' = recurring

\* A step of a run that holds the row leaves the other runs and the requests alone.
LEMMA HeldRunCarries ==
  ASSUME RInv, NEW r \in Run, run[r] # NoRun, NEW job \in {NoRun} \cup RunRow, job # run[r],
         RunStep(r, job), UNCHANGED ask
  PROVE  Carries
<1>1. run'[r] = job /\ \A q \in Run : q # r => run'[q] = run[q]
  BY RunStepTo DEF RInv
<1> QED
  BY <1>1 DEF Carries

LEMMA RunCarries ==
  ASSUME RInv, NEW r \in Run,
         \/ FindDue(r) \/ Charge(r) \/ ChargeDeclined(r) \/ RecordSuccess(r)
         \/ NotifySucceeds(r) \/ NotifyFails(r)
         \/ RecordingFails(r) \/ RecordFailure(r) \/ RunCrashes(r)
  PROVE  Carries
<1>t. /\ RecurringRowsOK /\ run \in [Run -> {NoRun} \cup RunRow] /\ NoRun.at = "idle"
      /\ recurring \in PaymentRow /\ today \in 1 .. MaxDay
  BY RTypes, RunFields DEF RInv
<1>1. CASE FindDue(r)
  <2>1. /\ recurring.status = "ACTIVE" /\ UNCHANGED <<recurring, ask>>
        /\ RunStep(r, [at |-> "due", row |-> recurring, now |-> today])
    BY <1>1 DEF FindDue
  <2>2. \A q \in Run : q # r => run'[q] = run[q]
    BY <1>t, <2>1, NewRun, RunStepTo
  <2> QED
    BY <2>1, <2>2 DEF Carries
<1>2. CASE RecordFailure(r) \/ RunCrashes(r) \/ NotifySucceeds(r)
  <2>1. run[r] # NoRun /\ RunStep(r, NoRun) /\ UNCHANGED ask
    BY <1>2, <1>t DEF RecordFailure, RunCrashes, NotifySucceeds
  <2> QED
    BY <2>1, HeldRunCarries
<1>3. ASSUME NEW stage \in Stage, run[r].at # stage, run[r] # NoRun,
             RunStep(r, At(run[r], stage)), UNCHANGED ask
      PROVE  Carries
  <2>1. At(run[r], stage) \in RunRow /\ At(run[r], stage).at = stage
    BY <1>3, <1>t, RunTypes, RunAt
  <2> QED
    BY <2>1, <1>3, HeldRunCarries
<1>4. CASE ChargeDeclined(r) \/ NotifyFails(r) \/ RecordingFails(r)
  <2>1. run[r].at # "failed" /\ run[r] # NoRun /\ RunStep(r, At(run[r], "failed")) /\ UNCHANGED ask
    BY <1>4, <1>t DEF ChargeDeclined, NotifyFails, RecordingFails, At
  <2> QED
    BY <2>1, <1>3 DEF Stage
<1>5. CASE Charge(r)
  <2>1. run[r].at # "charged" /\ run[r] # NoRun /\ RunStep(r, At(run[r], "charged")) /\ UNCHANGED ask
    BY <1>5, <1>t DEF Charge, At
  <2> QED
    BY <2>1, <1>3 DEF Stage
<1>6. CASE RecordSuccess(r)
  <2>1. run[r].at # "recorded" /\ run[r] # NoRun /\ RunStep(r, At(run[r], "recorded")) /\ UNCHANGED ask
    BY <1>6, <1>t DEF RecordSuccess, At
  <2> QED
    BY <2>1, <1>3 DEF Stage
<1> QED
  BY <1>1, <1>2, <1>4, <1>5, <1>6

LEMMA AskCarries ==
  ASSUME RInv, NEW a \in Ask,
         \/ GetOwned(a) \/ Update(a) \/ PauseAction(a) \/ ResumeAction(a)
         \/ CancelAction(a) \/ AskRefused(a)
  PROVE  Carries
<1>t. ask \in [Ask -> {NoAsk} \cup [at : {"asked"}, status : PaymentStatus, due : Day]]
      /\ recurring \in PaymentRow /\ NoAsk.at = "idle"
  BY RTypes, AskType DEF RInv, NoAsk
<1>1. CASE GetOwned(a)
  <2>1. /\ UNCHANGED <<recurring, run>>
        /\ ask' = [ask EXCEPT ![a] = [at |-> "asked", status |-> recurring.status,
                                      due |-> recurring.due]]
    BY <1>1 DEF GetOwned, AskStep
  <2> QED
    BY <2>1, <1>t DEF Carries
<1>2. CASE AskRefused(a)
  <2>1. UNCHANGED <<recurring, run>> /\ ask' = [ask EXCEPT ![a] = NoAsk]
    BY <1>2 DEF AskRefused, AskStep
  <2> QED
    BY <2>1, <1>t DEF Carries
<1>3. CASE Update(a) \/ PauseAction(a) \/ ResumeAction(a) \/ CancelAction(a)
  <2>1. /\ ask[a] # NoAsk /\ ask[a].status # "CANCELLED" /\ UNCHANGED run
        /\ ask' = [ask EXCEPT ![a] = NoAsk]
    BY <1>3, <1>t DEF Update, PauseAction, ResumeAction, CancelAction, Write, AskStep, Open
  <2> QED
    BY <2>1, <1>t DEF Carries
<1> QED
  BY <1>1, <1>2, <1>3

\* The histories: who still holds the row of before the cancellation, and that every other
\* request has read it cancelled.
EndedInv ==
  /\ ended \in BOOLEAN /\ early \subseteq Run \cup Ask /\ CancelledStays
  /\ ended => \A a \in Ask : ask[a] # NoAsk => a \in early \/ ask[a].status = "CANCELLED"

LEMMA EndedStep ==
  ASSUME RInv, EndedInv, RecurringNext
  PROVE  EndedInv'
<1>1. Carries
  <2>1. CASE DayPasses
    BY <2>1 DEF DayPasses, Carries
  <2> QED
    BY <2>1, RunCarries, AskCarries DEF RecurringNext
<1> DEFINE cancelled == recurring.status # "CANCELLED" /\ recurring'.status = "CANCELLED"
           undone == recurring'.status # "CANCELLED" /\ Moving \cap early # {}
<1>2. /\ ended' = (cancelled \/ (ended /\ ~undone))
      /\ early' = IF cancelled THEN Holding' ELSE IF ended' THEN early \cap Holding' ELSE {}
  BY DEF RecurringNext, Remember
<1>3. Holding' = {r \in Run : run'[r] # NoRun} \cup {a \in Ask : ask'[a] # NoAsk}
  BY DEF Holding
<1>4. ended' \in BOOLEAN /\ early' \subseteq Run \cup Ask
  BY <1>2, <1>3 DEF EndedInv
<1>5. CASE cancelled
  <2>1. /\ recurring'.status = "CANCELLED" /\ early' = Holding'
    BY <1>2, <1>5
  <2>2. /\ \A r \in Run : run'[r] # NoRun => r \in early'
        /\ \A a \in Ask : ask'[a] # NoAsk => a \in early'
    BY <2>1, <1>3
  <2> QED
    BY <2>1, <2>2, <1>4 DEF EndedInv, CancelledStays
<1>6. CASE ~cancelled /\ ended'
  <2>1. /\ ended /\ ~undone /\ early' = early \cap Holding' /\ recurring.status = "CANCELLED"
    BY <1>2, <1>6 DEF EndedInv, CancelledStays
  <2>2. /\ \A r \in Run : run[r] # NoRun => r \in early
        /\ \A a \in Ask : ask[a] # NoAsk => a \in early \/ ask[a].status = "CANCELLED"
    BY <2>1 DEF EndedInv, CancelledStays
  <2>3. recurring'.status = "CANCELLED"
    <3> SUFFICES ASSUME recurring'.status # "CANCELLED"
                 PROVE  Moving \cap early # {}
      BY <2>1
    <3>1. CASE \E r \in Run : run[r] # NoRun /\ run'[r] # run[r]
      BY <3>1, <2>2 DEF Moving
    <3>2. CASE \E a \in Ask : ask[a] # NoAsk /\ ask[a].status # "CANCELLED" /\ ask'[a] # ask[a]
      BY <3>2, <2>2 DEF Moving
    <3> QED
      BY <1>1, <2>1, <3>1, <3>2 DEF Carries
  <2>4. \A r \in Run : run'[r] # NoRun => r \in early'
    BY <1>1, <1>3, <2>1, <2>2 DEF Carries
  <2>5. ASSUME NEW a \in Ask, ask'[a] # NoAsk
        PROVE  a \in early' \/ ask'[a].status = "CANCELLED"
    BY <1>1, <1>3, <2>1, <2>2, <2>5 DEF Carries
  <2> QED
    BY <2>3, <2>4, <2>5, <1>4 DEF EndedInv, CancelledStays
<1>7. CASE ~ended'
  BY <1>4, <1>7 DEF EndedInv, CancelledStays
<1> QED
  BY <1>4, <1>5, <1>6, <1>7

LEMMA RecurringInvariance == RecurringSpec => [](RInv /\ EndedInv)
<1>1. RecurringInit => RInv /\ EndedInv
  <2>1. RecurringInit => EndedInv
    BY DEF RecurringInit, EndedInv, CancelledStays
  <2> QED
    BY <2>1, RecurringStart
<1>2. RInv /\ EndedInv /\ [RecurringNext]_recurringVars => RInv' /\ EndedInv'
  <2> SUFFICES ASSUME RInv, EndedInv, [RecurringNext]_recurringVars
               PROVE  RInv' /\ EndedInv'
    OBVIOUS
  <2>1. CASE UNCHANGED recurringVars
    BY <2>1, RecurringStep DEF recurringVars, EndedInv, CancelledStays
  <2> QED
    BY <2>1, RecurringStep, EndedStep
<1> QED
  BY <1>1, <1>2, PTL DEF RecurringSpec

\* Every variable keeps its type: the rows the runs hold, the requests', the bills of all days.
THEOREM RecurringTypeCorrect == RecurringSpec => []RecurringTypeOK
<1>1. RInv /\ EndedInv => RecurringTypeOK
  BY DEF RInv, EndedInv, RecurringRowsOK, RecurringTypeOK, RunRow, Stage, Bill
<1> QED
  BY <1>1, RecurringInvariance, PTL

\* However many runs and requests interleave, a day is charged twice only if runs
\* overlapped on it or what followed its charge was lost.
THEOREM DaysAreChargedOnce == RecurringSpec => []ChargedOnce
<1>1. RInv => ChargedOnce
  BY DEF RInv
<1> QED
  BY <1>1, RecurringInvariance, PTL

\* For any number of runs and requests: a cancelled recurring payment stays cancelled and
\* no run takes it up, until one that held it when it was cancelled writes over that.
THEOREM CancellationsStay == RecurringSpec => []CancelledStays
<1>1. EndedInv => CancelledStays
  BY DEF EndedInv
<1> QED
  BY <1>1, RecurringInvariance, PTL

-----------------------------------------------------------------------------
(* Subscriptions.  A row, a pending write or an event that stands for the  *)
(* last change at Stripe says what Stripe says; the others are older.      *)

EventType == {"customer.subscription.deleted", "customer.subscription.updated",
              "invoice.payment_succeeded", "invoice.payment_failed"}
Invoices == {"invoice.payment_succeeded", "invoice.payment_failed"}
StripeEvent == [key : Key, type : EventType, status : StripeStatus, atEnd : BOOLEAN,
                change : 0 .. MaxChange]

Current(row, g, n) ==
  /\ row.seen <= n
  /\ g.status = "canceled" /\ row.seen = g.change => ~row.isPremium

Told(e, gw, n) ==
  /\ e \in StripeEvent /\ gw[e.key] # NoSub /\ e.change <= n
  /\ e.change = gw[e.key].change => e.status = gw[e.key].status
  /\ e.type \in Invoices => e.status # "canceled"

JobOK(job, gw, n) ==
  /\ job.op \in {"save", "write"} => gw[job.key] # NoSub
  /\ job.op = "write" => Current(job.row, gw[job.key], n)

GatewayOK(g, n) == g \in Gateway \cup {NoSub} /\ (g # NoSub => g.change <= n)

SubOK(s, g, n) == s # NoSub => g # NoSub /\ Current(s, g, n)

SubscriptionsInv ==
  /\ SubscriptionsTypeOK /\ CachedPriceIsCurrent
  /\ changes \in 0 .. MaxChange
  /\ \A k \in Key : GatewayOK(gateway[k], changes) /\ SubOK(sub[k], gateway[k], changes)
  /\ \A c \in Caller : JobOK(caller[c], gateway, changes)
  /\ \A e \in events : Told(e, gateway, changes)

PriceJob == [op : {"price", "create"}, key : Key, price : Price]
SaveJob == [op : {"save", "pay"}, key : Key]
WriteJob == [op : {"write"}, key : Key, row : SubRow]
Job == {Free} \cup PriceJob \cup SaveJob \cup WriteJob

Edits == [PlanEdit -> Edit \cup {NoEdit}]

LEMMA SubscriptionTypes ==
  ASSUME SubscriptionsInv
  PROVE  /\ plan \in PlanRow /\ edit \in Edits /\ rows \in Seq(Key) /\ paid \subseteq Key
         /\ sub \in [Key -> SubRow \cup {NoSub}] /\ gateway \in [Key -> Gateway \cup {NoSub}]
         /\ caller \in [Caller -> Job] /\ changes \in 0 .. MaxChange
         /\ MaxChange \in Nat \ {0}
BY SubscriptionsAssumption
   DEF SubscriptionsInv, SubscriptionsTypeOK, Edits, Job, PriceJob, SaveJob, WriteJob

LEMMA JobFields ==
  ASSUME NEW j \in Job
  PROVE  /\ j.op \in {"price", "create"} => j \in PriceJob /\ j.key \in Key /\ j.price \in Price
         /\ j.op \in {"save", "pay"} => j.key \in Key
         /\ j.op = "write" => j.key \in Key /\ j.row \in SubRow
<1>1. Free.op = "idle"
  BY DEF Free
<1>2. \A i \in PriceJob : i.op \in {"price", "create"} /\ i.key \in Key /\ i.price \in Price
  BY Zenon DEF PriceJob
<1>3. \A i \in SaveJob : i.op \in {"save", "pay"} /\ i.key \in Key
  BY Zenon DEF SaveJob
<1>4. \A i \in WriteJob : i.op = "write" /\ i.key \in Key /\ i.row \in SubRow
  BY Zenon DEF WriteJob
<1> QED
  BY <1>1, <1>2, <1>3, <1>4 DEF Job

LEMMA NoSubIsNone ==
  /\ NoSub \notin SubRow /\ NoSub \notin Gateway /\ NoSub.status = "NONE"
  /\ \A g \in Gateway : g.status \in StripeStatus /\ g.atEnd \in BOOLEAN /\ g.change \in 0 .. MaxChange
  /\ \A s \in SubRow : s.status \in SubStatus /\ s.isPremium \in BOOLEAN /\ s.atEnd \in BOOLEAN
                       /\ s.seen \in 0 .. MaxChange
<1>1. \A g \in Gateway : g.status \in StripeStatus /\ g.atEnd \in BOOLEAN /\ g.change \in 0 .. MaxChange
  BY Zenon DEF Gateway
<1>2. \A s \in SubRow : s.status \in SubStatus /\ s.isPremium \in BOOLEAN /\ s.atEnd \in BOOLEAN
                       /\ s.seen \in 0 .. MaxChange
  BY Zenon DEF SubRow
<1>3. NoSub.status = "NONE"
  BY DEF NoSub
<1>4. NoSub \notin SubRow /\ NoSub \notin Gateway
  BY <1>1, <1>2, <1>3 DEF StripeStatus, SubStatus
<1> QED
  BY <1>1, <1>2, <1>3, <1>4

LEMMA StatusMapped == \A s : StatusFromStripe(s) \in SubStatus
                             /\ StatusFromStripe("canceled") = "CANCELLED"
BY DEF StatusFromStripe, SubStatus

LEMMA RowFields ==
  ASSUME NEW s \in SubStatus, NEW a \in BOOLEAN, NEW n \in 0 .. MaxChange
  PROVE  /\ Row(s, a, n) \in SubRow /\ Row(s, a, n).seen = n
         /\ s \in {"CANCELLED", "INCOMPLETE"} => ~Row(s, a, n).isPremium
<1>1. IsPremiumStatus(s) \in BOOLEAN /\ (s \in {"CANCELLED", "INCOMPLETE"} => ~IsPremiumStatus(s))
  BY DEF IsPremiumStatus
<1>2. /\ Row(s, a, n).status = s /\ Row(s, a, n).isPremium = IsPremiumStatus(s)
      /\ Row(s, a, n).atEnd = a /\ Row(s, a, n).seen = n
      /\ Row(s, a, n) = [status |-> s, isPremium |-> IsPremiumStatus(s), atEnd |-> a, seen |-> n]
  BY Zenon DEF Row
<1>3. Row(s, a, n) \in SubRow
  BY <1>1, <1>2 DEF SubRow
<1> QED
  BY <1>1, <1>2, <1>3

\* A caller holds another job; nothing else of the gateway, the rows and the events changes.
LEMMA StepTo ==
  ASSUME SubscriptionsInv, NEW c \in Caller, NEW job \in Job, Step(c, job)
  PROVE  /\ caller' \in [Caller -> Job] /\ \A d \in Caller : caller'[d] \in {caller[d], job}
BY SubscriptionTypes DEF Step

LEMMA TypesFrom ==
  ASSUME plan' \in PlanRow, edit' \in Edits, rows' \in Seq(Key), paid' \subseteq Key,
         sub' \in [Key -> SubRow \cup {NoSub}], gateway' \in [Key -> Gateway \cup {NoSub}],
         caller' \in [Caller -> Job]
  PROVE  SubscriptionsTypeOK'
BY DEF SubscriptionsTypeOK, Edits, Job, PriceJob, SaveJob, WriteJob

LEMMA PlanFields ==
  ASSUME NEW p \in PlanRow
  PROVE  /\ p.price \in Price /\ p.cached \in Price \cup {NoPrice}
         /\ p.listed \in BOOLEAN /\ p.overtaken \in BOOLEAN
BY Zenon DEF PlanRow

Cached(p, price) == [p EXCEPT !.cached = price, !.overtaken = price # p.price]

\* A new price drops the cached one; a price that was read keeps it, and is overtaken if
\* the plan's price is another by now.
LEMMA PricedPlan ==
  ASSUME NEW price \in Price, NEW read \in Price, plan \in PlanRow, CachedPriceIsCurrent
  PROVE  /\ WithPrice(price, read) \in PlanRow
         /\ \/ WithPrice(price, read).cached \in {NoPrice, WithPrice(price, read).price}
            \/ WithPrice(price, read).overtaken
<1> DEFINE stale == plan.overtaken \/ read # plan.price
           dropped == [plan EXCEPT !.price = price, !.cached = NoPrice, !.overtaken = FALSE]
           kept == [plan EXCEPT !.price = price, !.overtaken = stale]
<1>1. stale \in BOOLEAN /\ NoPrice \in Price \cup {NoPrice}
  BY PlanFields
<1>2. plan.cached \in {NoPrice, plan.price} \/ plan.overtaken
  BY DEF CachedPriceIsCurrent
<1>3. read = plan.price \/ stale
  OBVIOUS
<1>4. plan.overtaken => stale
  OBVIOUS
<1>5. WithPrice(price, read) = IF price # read THEN dropped ELSE kept
  BY Zenon DEF WithPrice
<1> HIDE DEF stale
<1>6. dropped \in PlanRow /\ dropped.cached = NoPrice
  BY Zenon DEF PlanRow
<1>7. kept \in PlanRow /\ kept.price = price /\ kept.cached = plan.cached
  BY <1>1, Zenon DEF PlanRow
<1>8. kept.overtaken = stale
  BY <1>1, Zenon DEF PlanRow
<1> HIDE DEF dropped, kept
<1>9. CASE price # read
  BY <1>5, <1>6, <1>9
<1>10. CASE price = read
  BY <1>2, <1>3, <1>4, <1>5, <1>7, <1>8, <1>10
<1> QED
  BY <1>9, <1>10

\* Listing a plan changes nothing of its price.
LEMMA ListedPlan ==
  ASSUME NEW p \in PlanRow, NEW listed \in BOOLEAN
  PROVE  /\ [p EXCEPT !.listed = listed] \in PlanRow
         /\ [p EXCEPT !.listed = listed].price = p.price
         /\ [p EXCEPT !.listed = listed].cached = p.cached
         /\ [p EXCEPT !.listed = listed].overtaken = p.overtaken
BY Zenon DEF PlanRow

LEMMA CachedPlan ==
  ASSUME NEW p \in PlanRow, NEW price \in Price
  PROVE  /\ Cached(p, price) \in PlanRow /\ Cached(p, price).cached = price
         /\ Cached(p, price).price = p.price
         /\ price = p.price \/ Cached(p, price).overtaken
<1> DEFINE late == price # p.price
<1>1. late \in BOOLEAN /\ price \in Price \cup {NoPrice} /\ (price = p.price \/ late)
  OBVIOUS
<1>2. Cached(p, price) = [p EXCEPT !.cached = price, !.overtaken = late]
  BY DEF Cached
<1> HIDE DEF late
<1>3. /\ Cached(p, price) \in PlanRow /\ Cached(p, price).cached = price
      /\ Cached(p, price).price = p.price
  BY <1>1, <1>2, Zenon DEF PlanRow
<1>4. Cached(p, price).overtaken = late
  BY <1>1, <1>2, Zenon DEF PlanRow
<1> QED
  BY <1>1, <1>3, <1>4, Zenon

-----------------------------------------------------------------------------
(* The plan, checkout and the requests that only read.                     *)

\* Nothing changes at Stripe, no event is handled, no row written: what the callers hold
\* stays right.
LEMMA CallersMove ==
  ASSUME SubscriptionsInv, UNCHANGED <<sub, gateway, events, changes>>,
         plan' \in PlanRow, edit' \in Edits, CachedPriceIsCurrent', rows' \in Seq(Key),
         paid' \subseteq Key, caller' \in [Caller -> Job],
         \A c \in Caller : JobOK(caller'[c], gateway, changes)
  PROVE  SubscriptionsInv'
BY SubscriptionTypes, TypesFrom DEF SubscriptionsInv

LEMMA EditFields ==
  ASSUME NEW a \in PlanEdit, edit \in Edits, edit[a] # NoEdit
  PROVE  edit[a].price \in Price \cup {NoPrice} /\ edit[a].read \in Price
<1>1. edit[a] \in Edit
  BY DEF Edits
<1> QED
  BY <1>1, Zenon DEF Edit

LEMMA EditStepTo ==
  ASSUME NEW a \in PlanEdit, NEW job \in Edit \cup {NoEdit}, edit \in Edits, EditStep(a, job)
  PROVE  edit' \in Edits
BY DEF Edits, EditStep

\* What an edit has read changes nothing yet; its write leaves the cache right or overtaken.
LEMMA UpdatePlanInv ==
  ASSUME SubscriptionsInv, NEW a \in PlanEdit,
         \/ \E price \in Price \cup {NoPrice} : UpdatePlanBegin(a, price)
         \/ UpdatePlan(a) \/ UpdatePlanFails(a)
  PROVE  SubscriptionsInv'
<1>t. plan \in PlanRow /\ edit \in Edits /\ CachedPriceIsCurrent
  BY SubscriptionTypes DEF SubscriptionsInv
<1>1. UNCHANGED <<rows, sub, paid, gateway, events, changes, caller>>
  BY DEF UpdatePlanBegin, UpdatePlan, UpdatePlanFails
<1>2. edit' \in Edits
  <2>1. CASE \E price \in Price \cup {NoPrice} : UpdatePlanBegin(a, price)
    <3>1. PICK price \in Price \cup {NoPrice} : EditStep(a, [price |-> price, read |-> plan.price])
      BY <2>1 DEF UpdatePlanBegin
    <3>2. [price |-> price, read |-> plan.price] \in Edit
      BY <1>t, PlanFields DEF Edit
    <3> QED
      BY <1>t, <3>1, <3>2, EditStepTo
  <2>2. CASE UpdatePlan(a) \/ UpdatePlanFails(a)
    <3>1. EditStep(a, NoEdit)
      BY <2>2 DEF UpdatePlan, UpdatePlanFails
    <3> QED
      BY <1>t, <3>1, EditStepTo
  <2> QED
    BY <2>1, <2>2
<1>3. plan' \in PlanRow /\ CachedPriceIsCurrent'
  <2>1. CASE UNCHANGED plan
    BY <1>t, <2>1 DEF CachedPriceIsCurrent
  <2>2. CASE UpdatePlan(a)
    <3> DEFINE p == IF edit[a].price = NoPrice THEN plan ELSE WithPrice(edit[a].price, edit[a].read)
    <3>1. edit[a].price \in Price \cup {NoPrice} /\ edit[a].read \in Price
      BY <1>t, <2>2, EditFields DEF UpdatePlan
    <3>2. p \in PlanRow /\ (p.cached \in {NoPrice, p.price} \/ p.overtaken)
      BY <1>t, <3>1, PricedPlan DEF CachedPriceIsCurrent
    <3>3. PICK listed \in BOOLEAN : plan' = [p EXCEPT !.listed = listed]
      BY <2>2, Zenon DEF UpdatePlan
    <3> HIDE DEF p
    <3> QED
      BY <3>2, <3>3, ListedPlan DEF CachedPriceIsCurrent
  <2> QED
    BY <2>1, <2>2 DEF UpdatePlanBegin, UpdatePlanFails
<1> QED
  BY <1>1, <1>2, <1>3, CallersMove, SubscriptionTypes DEF SubscriptionsInv

\* Only one caller moves on.
LEMMA StepOnly ==
  ASSUME SubscriptionsInv, NEW c \in Caller, NEW job \in Job, Step(c, job),
         JobOK(job, gateway, changes), UNCHANGED <<sub, gateway, events, changes>>,
         plan' \in PlanRow, edit' \in Edits, CachedPriceIsCurrent', rows' \in Seq(Key),
         paid' \subseteq Key
  PROVE  SubscriptionsInv'
<1>1. caller' \in [Caller -> Job] /\ \A d \in Caller : caller'[d] \in {caller[d], job}
  BY StepTo
<1>2. \A d \in Caller : JobOK(caller'[d], gateway, changes)
  BY <1>1 DEF SubscriptionsInv
<1> QED
  BY <1>1, <1>2, CallersMove

LEMMA FreeJob == Free \in Job /\ \A gw, n : JobOK(Free, gw, n)
BY DEF Job, Free, JobOK

LEMMA PlanStays ==
  ASSUME SubscriptionsInv, UNCHANGED <<plan, edit>>
  PROVE  plan' \in PlanRow /\ edit' \in Edits /\ CachedPriceIsCurrent'
BY SubscriptionTypes DEF SubscriptionsInv, CachedPriceIsCurrent

LEMMA CheckoutInv ==
  ASSUME SubscriptionsInv, NEW c \in Caller, NEW k \in Key, Checkout(c, k)
  PROVE  SubscriptionsInv'
<1> DEFINE o == IF plan.cached = NoPrice THEN "price" ELSE "create"
           job == [op |-> o, key |-> k, price |-> plan.price]
<1>1. plan.price \in Price
  BY SubscriptionTypes, PlanFields
<1>2. job \in PriceJob /\ job.op \in {"price", "create"}
  BY <1>1 DEF PriceJob
<1>3. job \in Job /\ Step(c, job) /\ UNCHANGED <<plan, edit, rows, sub, paid, gateway, events, changes>>
  BY <1>2 DEF Job, Checkout
<1> HIDE DEF job
<1>4. JobOK(job, gateway, changes)
  BY <1>2 DEF JobOK
<1> QED
  BY <1>3, <1>4, StepOnly, PlanStays, SubscriptionTypes

LEMMA SaveStripePlanIdsInv ==
  ASSUME SubscriptionsInv, NEW c \in Caller, SaveStripePlanIds(c)
  PROVE  SubscriptionsInv'
<1>t. caller[c] \in Job /\ caller[c].op = "price" /\ plan \in PlanRow
  BY SubscriptionTypes DEF SaveStripePlanIds
<1>1. caller[c] \in PriceJob /\ caller[c].price \in Price
  BY <1>t, JobFields
<1>2. plan' = Cached(plan, caller[c].price)
  BY Zenon DEF SaveStripePlanIds, Cached
<1>3. plan' \in PlanRow /\ CachedPriceIsCurrent'
  BY <1>t, <1>1, <1>2, CachedPlan DEF CachedPriceIsCurrent
<1> DEFINE job == [caller[c] EXCEPT !.op = "create"]
<1>4. job \in PriceJob /\ job.op = "create"
  BY <1>1, Zenon DEF PriceJob
<1>5. Step(c, job) /\ UNCHANGED <<edit, rows, sub, paid, gateway, events, changes>>
  BY DEF SaveStripePlanIds
<1> HIDE DEF job
<1>6. job \in Job /\ JobOK(job, gateway, changes)
  BY <1>4 DEF Job, JobOK
<1> QED
  BY <1>3, <1>5, <1>6, StepOnly, SubscriptionTypes

LEMMA PaymentInv ==
  ASSUME SubscriptionsInv, NEW c \in Caller,
         CreateInitialSubscriptionPayment(c) \/ CallerFails(c)
  PROVE  SubscriptionsInv'
<1>1. caller[c].op = "pay" => caller[c].key \in Key
  BY SubscriptionTypes, JobFields
<1>2. /\ Step(c, Free) /\ UNCHANGED <<plan, edit, rows, sub, gateway, events, changes>>
      /\ paid' \subseteq Key
  BY <1>1, SubscriptionTypes DEF CreateInitialSubscriptionPayment, CallerFails
<1> QED
  BY <1>2, FreeJob, StepOnly, PlanStays, SubscriptionTypes

\* Stripe makes an incomplete subscription for a key it does not know: there is no row,
\* no pending write and no event of that key yet.
LEMMA CreateAtStripeInv ==
  ASSUME SubscriptionsInv, NEW c \in Caller, CreateAtStripe(c)
  PROVE  SubscriptionsInv'
<1> DEFINE k == caller[c].key
           new == [status |-> "incomplete", atEnd |-> FALSE, change |-> 0]
           job == [op |-> "save", key |-> k]
<1>t. /\ gateway \in [Key -> Gateway \cup {NoSub}] /\ changes \in 0 .. MaxChange
      /\ MaxChange \in Nat \ {0} /\ sub \in [Key -> SubRow \cup {NoSub}]
      /\ caller \in [Caller -> Job]
  BY SubscriptionTypes
<1>1. /\ k \in Key /\ caller[c].op = "create" /\ Step(c, job)
      /\ gateway' = IF gateway[k] # NoSub THEN gateway ELSE [gateway EXCEPT ![k] = new]
      /\ UNCHANGED <<plan, edit, rows, sub, paid, events, changes>>
  BY <1>t, JobFields DEF CreateAtStripe
<1>2. new \in Gateway /\ new.status = "incomplete" /\ new.change = 0
  BY <1>t DEF Gateway, StripeStatus
<1>3. job \in Job /\ job.op = "save" /\ job.key = k
  BY <1>1 DEF Job, SaveJob
<1> HIDE DEF k, new, job
<1>4. /\ gateway' \in [Key -> Gateway \cup {NoSub}] /\ gateway'[k] # NoSub
      /\ \A j \in Key : gateway'[j] = gateway[j] \/ (gateway[j] = NoSub /\ gateway'[j] = new)
  BY <1>1, <1>2, <1>t, NoSubIsNone
<1>5. new # NoSub
  BY <1>2, NoSubIsNone
<1>6. \A j \in Key : gateway[j] # NoSub => gateway'[j] = gateway[j]
  BY <1>4
<1>7. \A j \in Key : GatewayOK(gateway'[j], changes)
  BY <1>2, <1>4, <1>t DEF SubscriptionsInv, GatewayOK
<1>8. \A j \in Key : SubOK(sub[j], gateway'[j], changes)
  BY <1>6 DEF SubscriptionsInv, SubOK
<1>9. caller' \in [Caller -> Job] /\ \A d \in Caller : caller'[d] \in {caller[d], job}
  BY <1>1, <1>3, StepTo
<1>10. ASSUME NEW d \in Caller
       PROVE  JobOK(caller[d], gateway', changes)
  <2>1. caller[d].op \in {"save", "write"} => caller[d].key \in Key
    BY <1>t, JobFields
  <2> QED
    BY <2>1, <1>6 DEF SubscriptionsInv, JobOK
<1>11. JobOK(job, gateway', changes)
  BY <1>3, <1>4 DEF JobOK
<1>12. ASSUME NEW e \in events
       PROVE  Told(e, gateway', changes)
  <2>1. e.key \in Key
    BY Zenon DEF SubscriptionsInv, Told, StripeEvent
  <2> QED
    BY <2>1, <1>6 DEF SubscriptionsInv, Told
<1>13. SubscriptionsTypeOK' /\ CachedPriceIsCurrent'
  BY <1>1, <1>4, <1>9, TypesFrom, PlanStays, SubscriptionTypes
<1> QED
  BY <1>1, <1>7, <1>8, <1>9, <1>10, <1>11, <1>12, <1>13, <1>t DEF SubscriptionsInv

\* stripeSubscriptionId is unique: the row of a key is made once, for a subscription that
\* is there at Stripe.
LEMMA CreateCustomerSubscriptionInv ==
  ASSUME SubscriptionsInv, NEW c \in Caller, CreateCustomerSubscription(c)
  PROVE  SubscriptionsInv'
<1> DEFINE k == caller[c].key
           new == Row("INCOMPLETE", FALSE, 0)
           job == [op |-> "pay", key |-> k]
<1>t. /\ gateway \in [Key -> Gateway \cup {NoSub}] /\ changes \in 0 .. MaxChange
      /\ MaxChange \in Nat \ {0} /\ sub \in [Key -> SubRow \cup {NoSub}]
      /\ caller \in [Caller -> Job] /\ rows \in Seq(Key)
  BY SubscriptionTypes
<1>1. /\ k \in Key /\ caller[c].op = "save" /\ Step(c, job)
      /\ sub' = [sub EXCEPT ![k] = new] /\ rows' = Append(rows, k)
      /\ UNCHANGED <<plan, edit, paid, gateway, events, changes>>
  BY <1>t, JobFields DEF CreateCustomerSubscription
<1>2. new \in SubRow /\ new.seen = 0 /\ ~new.isPremium
  <2>1. "INCOMPLETE" \in SubStatus /\ 0 \in 0 .. MaxChange
    BY <1>t DEF SubStatus
  <2> QED
    BY <2>1, RowFields
<1>3. job \in Job /\ job.op = "pay"
  BY <1>1 DEF Job, SaveJob
<1>4. gateway[k] # NoSub
  BY <1>1 DEF SubscriptionsInv, JobOK
<1> HIDE DEF k, new, job
<1>5. /\ sub' \in [Key -> SubRow \cup {NoSub}]
      /\ \A j \in Key : sub'[j] = sub[j] \/ (j = k /\ sub'[j] = new)
  BY <1>1, <1>2, <1>t
<1>6. Current(new, gateway[k], changes)
  BY <1>2, <1>t DEF Current
<1>7. \A j \in Key : SubOK(sub'[j], gateway[j], changes)
  BY <1>4, <1>5, <1>6 DEF SubscriptionsInv, SubOK
<1>8. caller' \in [Caller -> Job] /\ \A d \in Caller : caller'[d] \in {caller[d], job}
  BY <1>1, <1>3, StepTo
<1>9. \A gw, n : JobOK(job, gw, n)
  BY <1>3 DEF JobOK
<1>10. SubscriptionsTypeOK' /\ CachedPriceIsCurrent'
  BY <1>1, <1>5, <1>8, <1>t, TypesFrom, PlanStays, SubscriptionTypes
<1> QED
  BY <1>1, <1>7, <1>8, <1>9, <1>10 DEF SubscriptionsInv

-----------------------------------------------------------------------------
(* Rows that are written, and what Stripe changes.                         *)

\* A write pending for key k.
WriteOf(k, row) == [op |-> "write", key |-> k, row |-> row]

LEMMA WriteOfJob ==
  ASSUME NEW k \in Key, NEW row \in SubRow
  PROVE  /\ WriteOf(k, row) \in Job /\ WriteOf(k, row).op = "write"
         /\ WriteOf(k, row).key = k /\ WriteOf(k, row).row = row
BY DEF WriteOf, Job, WriteJob

\* What Stripe says now.
LEMMA ConfirmInv ==
  ASSUME SubscriptionsInv, NEW c \in Caller, NEW k \in Key, Confirm(c, k)
  PROVE  SubscriptionsInv'
<1> DEFINE g == gateway[k]
           row == Row(StatusFromStripe(g.status), g.atEnd, g.change)
<1>1. Step(c, WriteOf(k, row)) /\ UNCHANGED <<plan, edit, rows, sub, paid, gateway, events, changes>>
  BY DEF Confirm, WriteOf
<1>2. g \in Gateway /\ g # NoSub /\ g.change <= changes
  BY SubscriptionTypes DEF Confirm, SubscriptionsInv, SubOK, GatewayOK
<1>3. /\ row \in SubRow /\ row.seen = g.change
      /\ StatusFromStripe(g.status) = "CANCELLED" => ~row.isPremium
  BY <1>2, StatusMapped, RowFields, NoSubIsNone
<1> HIDE DEF g, row
<1>4. Current(row, g, changes)
  BY <1>2, <1>3, StatusMapped DEF Current
<1>5. JobOK(WriteOf(k, row), gateway, changes)
  BY <1>2, <1>3, <1>4, WriteOfJob DEF JobOK, g
<1> QED
  BY <1>1, <1>3, <1>5, WriteOfJob, StepOnly, PlanStays, SubscriptionTypes

\* A row of key k is written that is right for what Stripe says of k.
LEMMA RowWrittenInv ==
  ASSUME SubscriptionsInv, NEW k \in Key, NEW row \in SubRow, gateway[k] # NoSub,
         Current(row, gateway[k], changes), sub' = [sub EXCEPT ![k] = row],
         caller' \in [Caller -> Job], \A d \in Caller : caller'[d] \in {caller[d], Free},
         events' \subseteq events, UNCHANGED <<plan, edit, rows, paid, gateway, changes>>
  PROVE  SubscriptionsInv'
<1>t. sub \in [Key -> SubRow \cup {NoSub}]
  BY SubscriptionTypes
<1>1. /\ sub' \in [Key -> SubRow \cup {NoSub}]
      /\ \A j \in Key : sub'[j] = sub[j] \/ (j = k /\ sub'[j] = row)
  BY <1>t
<1>2. \A j \in Key : SubOK(sub'[j], gateway[j], changes)
  BY <1>1 DEF SubscriptionsInv, SubOK
<1>3. SubscriptionsTypeOK' /\ CachedPriceIsCurrent'
  BY <1>1, TypesFrom, PlanStays, SubscriptionTypes
<1> QED
  BY <1>2, <1>3, FreeJob DEF SubscriptionsInv

LEMMA UpdateCustomerSubscriptionInv ==
  ASSUME SubscriptionsInv, NEW c \in Caller, UpdateCustomerSubscription(c)
  PROVE  SubscriptionsInv'
<1>1. /\ caller[c].op = "write" /\ caller[c].key \in Key /\ caller[c].row \in SubRow
      /\ sub' = [sub EXCEPT ![caller[c].key] = caller[c].row] /\ Step(c, Free)
      /\ UNCHANGED <<plan, edit, rows, paid, gateway, events, changes>>
  BY SubscriptionTypes, JobFields DEF UpdateCustomerSubscription
<1>2. gateway[caller[c].key] # NoSub /\ Current(caller[c].row, gateway[caller[c].key], changes)
  BY <1>1 DEF SubscriptionsInv, JobOK
<1> QED
  BY <1>1, <1>2, FreeJob, StepTo, RowWrittenInv

\* An event that stands for the last change says what Stripe says; an invoice stands for a
\* change that was no cancellation.
LEMMA HandleStripeSubscriptionEventInv ==
  ASSUME SubscriptionsInv, NEW e \in events, HandleStripeSubscriptionEvent(e)
  PROVE  SubscriptionsInv'
<1>t. /\ sub \in [Key -> SubRow \cup {NoSub}] /\ gateway \in [Key -> Gateway \cup {NoSub}]
      /\ caller \in [Caller -> Job]
  BY SubscriptionTypes
<1>1. /\ e.key \in Key /\ e.status \in StripeStatus /\ e.atEnd \in BOOLEAN
      /\ e.change \in 0 .. MaxChange /\ e \in StripeEvent
  BY Zenon DEF SubscriptionsInv, Told, StripeEvent
<1>2. /\ gateway[e.key] # NoSub /\ e.change <= changes
      /\ e.change = gateway[e.key].change => e.status = gateway[e.key].status
      /\ e.type \in Invoices => e.status # "canceled"
  BY DEF SubscriptionsInv, Told
<1>3. events' \subseteq events /\ UNCHANGED <<plan, edit, rows, paid, gateway, changes, caller>>
  BY DEF HandleStripeSubscriptionEvent
<1>4. CASE sub[e.key] = NoSub
  <2>1. UNCHANGED sub
    BY <1>4 DEF HandleStripeSubscriptionEvent
  <2> QED
    BY <2>1, <1>3, TypesFrom, PlanStays, SubscriptionTypes DEF SubscriptionsInv
<1>5. CASE sub[e.key] # NoSub
  <2>1. PICK row : /\ sub' = [sub EXCEPT ![e.key] = row]
                   /\ row = IF e.type \in Invoices THEN UpdateSubscriptionAfterInvoice(e)
                            ELSE UpdateStripeSubscriptionSync(e)
    BY <1>5 DEF HandleStripeSubscriptionEvent, Invoices
  <2>2. row \in SubRow /\ Current(row, gateway[e.key], changes)
    <3>1. CASE e.type \in Invoices
      <4>1. PICK s \in SubStatus : row = Row(s, sub[e.key].atEnd, e.change)
        BY <2>1, <3>1 DEF UpdateSubscriptionAfterInvoice, SubStatus
      <4>2. sub[e.key].atEnd \in BOOLEAN
        BY <1>1, <1>5, <1>t, NoSubIsNone
      <4>3. row \in SubRow /\ row.seen = e.change
        BY <1>1, <4>1, <4>2, RowFields
      <4> QED
        BY <1>2, <3>1, <4>3 DEF Current
    <3>2. CASE e.type \notin Invoices
      <4>1. row = Row(StatusFromStripe(e.status), e.atEnd, e.change)
        BY <2>1, <3>2 DEF UpdateStripeSubscriptionSync
      <4>2. /\ row \in SubRow /\ row.seen = e.change
            /\ StatusFromStripe(e.status) = "CANCELLED" => ~row.isPremium
        BY <1>1, <4>1, StatusMapped, RowFields
      <4> QED
        BY <1>2, <4>2, StatusMapped DEF Current
    <3> QED
      BY <3>1, <3>2
  <2>3. caller' \in [Caller -> Job] /\ \A d \in Caller : caller'[d] \in {caller[d], Free}
    BY <1>3, <1>t
  <2> QED
    BY <1>1, <1>2, <1>3, <2>1, <2>2, <2>3, RowWrittenInv
<1> QED
  BY <1>4, <1>5

\* A change at Stripe is newer than every row, pending write and event; the events that
\* tell of it say what it is.
LEMMA ChangeAtInv ==
  ASSUME SubscriptionsInv, NEW k \in Key, NEW status \in StripeStatus, NEW atEnd \in BOOLEAN,
         NEW invoice \in SUBSET Invoices, gateway[k] # NoSub,
         invoice # {} => status # "canceled",
         ChangeAt(k, status, atEnd, invoice)
  PROVE  /\ changes' = changes + 1 /\ changes' \in 0 .. MaxChange
         /\ gateway' \in [Key -> Gateway \cup {NoSub}]
         /\ gateway'[k].status = status /\ gateway'[k].change = changes' /\ gateway'[k] # NoSub
         /\ \A j \in Key : GatewayOK(gateway'[j], changes') /\ SubOK(sub[j], gateway'[j], changes')
         /\ \A c \in Caller : JobOK(caller[c], gateway', changes')
         /\ \A e \in events' : Told(e, gateway', changes')
<1> DEFINE n == changes + 1
           new == [status |-> status, atEnd |-> atEnd, change |-> n]
           Event(type) == [key |-> k, type |-> type, status |-> status, atEnd |-> atEnd,
                           change |-> n]
<1>t. /\ gateway \in [Key -> Gateway \cup {NoSub}] /\ changes \in 0 .. MaxChange
      /\ MaxChange \in Nat \ {0} /\ sub \in [Key -> SubRow \cup {NoSub}]
      /\ caller \in [Caller -> Job]
  BY SubscriptionTypes
<1>1. /\ changes < MaxChange /\ changes' = n /\ gateway' = [gateway EXCEPT ![k] = new]
      /\ events' = events \cup {Event(IF status = "canceled" THEN "customer.subscription.deleted"
                                      ELSE "customer.subscription.updated")}
                   \cup {Event(type) : type \in invoice}
  BY DEF ChangeAt
<1>2. n \in 0 .. MaxChange /\ changes < n
  BY <1>1, <1>t
<1>3. new \in Gateway /\ new.status = status /\ new.change = n
  BY <1>2 DEF Gateway
<1>4. \A type \in EventType : /\ Event(type) \in StripeEvent /\ Event(type).key = k
                              /\ Event(type).change = n /\ Event(type).status = status
                              /\ Event(type).type = type
  BY <1>2 DEF StripeEvent
<1>5. \A e \in events' : \/ e \in events
                         \/ \E type \in EventType : /\ e = Event(type)
                                                    /\ type \in Invoices => status # "canceled"
  <2>1. ASSUME NEW e \in events', e \notin events
        PROVE  \E type \in EventType : e = Event(type) /\ (type \in Invoices => status # "canceled")
    <3>1. CASE \E type \in invoice : e = Event(type)
      BY <3>1 DEF EventType, Invoices
    <3>2. CASE e = Event("customer.subscription.deleted") \/ e = Event("customer.subscription.updated")
      BY <3>2 DEF EventType, Invoices
    <3> QED
      BY <1>1, <2>1, <3>1, <3>2
  <2> QED
    BY <2>1
<1> HIDE DEF n, new, Event
<1>6. new # NoSub
  BY <1>3, NoSubIsNone
<1>7. /\ gateway' \in [Key -> Gateway \cup {NoSub}] /\ gateway'[k] = new
      /\ \A j \in Key : j # k => gateway'[j] = gateway[j]
  BY <1>1, <1>3, <1>t
<1>8. \A j \in Key : GatewayOK(gateway'[j], n)
  <2> SUFFICES ASSUME NEW j \in Key
               PROVE  GatewayOK(gateway'[j], n)
    OBVIOUS
  <2>1. CASE j = k
    BY <1>2, <1>3, <1>7, <2>1 DEF GatewayOK
  <2>2. CASE j # k
    <3>1. gateway'[j] = gateway[j] /\ GatewayOK(gateway[j], changes)
      BY <1>7, <2>2 DEF SubscriptionsInv
    <3>2. gateway[j] # NoSub => gateway[j].change \in 0 .. MaxChange
      BY <1>t, NoSubIsNone
    <3> QED
      BY <3>1, <3>2, <1>t, <1>2 DEF GatewayOK
  <2> QED
    BY <2>1, <2>2
<1>9. ASSUME NEW j \in Key, NEW row \in SubRow, Current(row, gateway[j], changes)
      PROVE  Current(row, gateway'[j], n)
  <2>1. row.seen \in 0 .. MaxChange /\ row.seen <= changes
    BY <1>9, NoSubIsNone DEF Current
  <2>2. row.seen < n /\ row.seen <= n
    BY <2>1, <1>2, <1>t
  <2>3. row.seen # n
    BY <2>2, <2>1, <1>2
  <2> QED
    BY <2>2, <2>3, <1>3, <1>7, <1>9 DEF Current
<1>10. \A j \in Key : SubOK(sub[j], gateway'[j], n)
  <2> SUFFICES ASSUME NEW j \in Key, sub[j] # NoSub
               PROVE  gateway'[j] # NoSub /\ Current(sub[j], gateway'[j], n)
    BY DEF SubOK
  <2>1. sub[j] \in SubRow /\ gateway[j] # NoSub /\ Current(sub[j], gateway[j], changes)
    BY <1>t DEF SubscriptionsInv, SubOK
  <2> QED
    BY <2>1, <1>6, <1>7, <1>9
<1>11. \A c \in Caller : JobOK(caller[c], gateway', n)
  <2> SUFFICES ASSUME NEW c \in Caller
               PROVE  JobOK(caller[c], gateway', n)
    OBVIOUS
  <2>1. /\ caller[c].op \in {"save", "write"} => caller[c].key \in Key
        /\ caller[c].op = "write" => caller[c].row \in SubRow
    BY <1>t, JobFields
  <2>2. JobOK(caller[c], gateway, changes)
    BY DEF SubscriptionsInv
  <2>3. caller[c].op \in {"save", "write"} => gateway'[caller[c].key] # NoSub
    BY <2>1, <2>2, <1>6, <1>7 DEF JobOK
  <2>4. caller[c].op = "write" => Current(caller[c].row, gateway'[caller[c].key], n)
    BY <2>1, <2>2, <1>9 DEF JobOK
  <2> QED
    BY <2>3, <2>4 DEF JobOK
<1>12. \A e \in events' : Told(e, gateway', n)
  <2> SUFFICES ASSUME NEW e \in events'
               PROVE  Told(e, gateway', n)
    OBVIOUS
  <2>1. CASE e \in events
    <3>1. Told(e, gateway, changes)
      BY <2>1 DEF SubscriptionsInv
    <3>2. e.key \in Key /\ e.change \in 0 .. MaxChange /\ e.change <= changes
      BY <3>1, Zenon DEF Told, StripeEvent
    <3>3. e.change <= n /\ e.change # n
      BY <3>2, <1>2, <1>t
    <3> QED
      BY <3>1, <3>2, <3>3, <1>3, <1>6, <1>7 DEF Told
  <2>2. CASE \E type \in EventType : e = Event(type) /\ (type \in Invoices => status # "canceled")
    <3>1. /\ e \in StripeEvent /\ e.key = k /\ e.change = n /\ e.status = status
          /\ e.type \in Invoices => status # "canceled"
      BY <2>2, <1>4
    <3>2. n <= n
      BY <1>2
    <3> QED
      BY <3>1, <3>2, <1>3, <1>6, <1>7 DEF Told
  <2> QED
    BY <1>5, <2>1, <2>2
<1> QED
  BY <1>1, <1>2, <1>3, <1>6, <1>7, <1>8, <1>10, <1>11, <1>12 DEF n

\* A caller that has changed the subscription at Stripe holds what it made of it.
LEMMA ChangeWrittenInv ==
  ASSUME SubscriptionsInv, NEW c \in Caller, NEW k \in Key, NEW status \in StripeStatus,
         NEW atEnd \in BOOLEAN, gateway[k] # NoSub, ChangeAt(k, status, atEnd, {}),
         NEW s \in SubStatus, Step(c, WriteOf(k, Row(s, atEnd, changes + 1))),
         status = "canceled" => s = "CANCELLED",
         UNCHANGED <<plan, edit, rows, sub, paid>>
  PROVE  SubscriptionsInv'
<1> DEFINE row == Row(s, atEnd, changes + 1)
           job == WriteOf(k, row)
<1>1. /\ changes' = changes + 1 /\ changes' \in 0 .. MaxChange
      /\ gateway' \in [Key -> Gateway \cup {NoSub}]
      /\ gateway'[k].status = status /\ gateway'[k].change = changes' /\ gateway'[k] # NoSub
      /\ \A j \in Key : GatewayOK(gateway'[j], changes') /\ SubOK(sub[j], gateway'[j], changes')
      /\ \A d \in Caller : JobOK(caller[d], gateway', changes')
      /\ \A e \in events' : Told(e, gateway', changes')
  <2>1. {} \in SUBSET Invoices
    OBVIOUS
  <2> QED
    BY <2>1, ChangeAtInv
<1>2. row \in SubRow /\ row.seen = changes' /\ (s = "CANCELLED" => ~row.isPremium)
  BY <1>1, RowFields
<1>3. job \in Job /\ job.op = "write" /\ job.key = k /\ job.row = row
  BY <1>2, WriteOfJob
<1>4. Step(c, job)
  OBVIOUS
<1> HIDE DEF row, job
<1>5. changes' <= changes'
  BY <1>1
<1>6. JobOK(job, gateway', changes')
  BY <1>1, <1>2, <1>3, <1>5 DEF JobOK, Current
<1>7. caller' \in [Caller -> Job] /\ \A d \in Caller : caller'[d] \in {caller[d], job}
  BY <1>3, <1>4, StepTo
<1>8. \A d \in Caller : JobOK(caller'[d], gateway', changes')
  BY <1>1, <1>6, <1>7
<1>9. SubscriptionsTypeOK' /\ CachedPriceIsCurrent'
  BY <1>1, <1>7, TypesFrom, PlanStays, SubscriptionTypes
<1> QED
  BY <1>1, <1>8, <1>9 DEF SubscriptionsInv

\* A row that could be the current one stands for a subscription at Stripe.
LEMMA CurrentIsThere ==
  ASSUME SubscriptionsInv, NEW k \in Key, CurrentAction(k)
  PROVE  gateway[k] \in Gateway /\ gateway[k] # NoSub
<1>1. sub[k] # NoSub
  BY NoSubIsNone DEF CurrentAction, Newest
<1> QED
  BY <1>1, SubscriptionTypes DEF SubscriptionsInv, SubOK

LEMMA CancelSubscriptionInv ==
  ASSUME SubscriptionsInv, NEW c \in Caller, CancelSubscription(c)
  PROVE  SubscriptionsInv'
<1>1. PICK k \in Key, atEnd \in BOOLEAN :
        LET status == IF atEnd THEN gateway[k].status ELSE "canceled"
        IN /\ CurrentAction(k) /\ gateway[k].status # "canceled"
           /\ ChangeAt(k, status, atEnd, {})
           /\ Step(c, [op |-> "write", key |-> k,
                       row |-> Row(StatusFromStripe(status), atEnd, changes + 1)])
  BY DEF CancelSubscription
<1> DEFINE status == IF atEnd THEN gateway[k].status ELSE "canceled"
<1>2. gateway[k] \in Gateway /\ gateway[k] # NoSub
  BY <1>1, CurrentIsThere
<1>3. status \in StripeStatus
  BY <1>2, NoSubIsNone DEF StripeStatus
<1>4. StatusFromStripe(status) \in SubStatus
      /\ (status = "canceled" => StatusFromStripe(status) = "CANCELLED")
  BY StatusMapped
<1>5. /\ ChangeAt(k, status, atEnd, {})
      /\ Step(c, WriteOf(k, Row(StatusFromStripe(status), atEnd, changes + 1)))
  BY <1>1 DEF WriteOf
<1>6. UNCHANGED <<plan, edit, rows, sub, paid>>
  BY DEF CancelSubscription
<1> HIDE DEF status
<1> QED
  BY <1>2, <1>3, <1>4, <1>5, <1>6, ChangeWrittenInv

LEMMA ReactivateActionInv ==
  ASSUME SubscriptionsInv, NEW c \in Caller, ReactivateAction(c)
  PROVE  SubscriptionsInv'
<1>1. PICK k \in Key : /\ CurrentAction(k) /\ gateway[k].status # "canceled"
                       /\ ChangeAt(k, gateway[k].status, FALSE, {})
                       /\ Step(c, WriteOf(k, Row("ACTIVE", FALSE, changes + 1)))
  BY DEF ReactivateAction, WriteOf
<1>2. gateway[k] # NoSub /\ gateway[k].status \in StripeStatus /\ "ACTIVE" \in SubStatus
  BY <1>1, CurrentIsThere, NoSubIsNone DEF SubStatus
<1>3. UNCHANGED <<plan, edit, rows, sub, paid>>
  BY DEF ReactivateAction
<1> QED
  BY <1>1, <1>2, <1>3, ChangeWrittenInv

LEMMA StripeChangesInv ==
  ASSUME SubscriptionsInv, NEW k \in Key, StripeChanges(k)
  PROVE  SubscriptionsInv'
<1>1. gateway[k] # NoSub /\ gateway[k] \in Gateway /\ gateway[k].atEnd \in BOOLEAN
  BY SubscriptionTypes, NoSubIsNone DEF StripeChanges
<1>2. PICK status \in StripeStatus, atEnd \in BOOLEAN, invoice \in SUBSET Invoices :
        /\ invoice # {} => status # "canceled"
        /\ ChangeAt(k, status, atEnd, invoice)
  <2>1. {} \in SUBSET Invoices /\ {"invoice.payment_succeeded"} \in SUBSET Invoices
        /\ {"invoice.payment_failed"} \in SUBSET Invoices
        /\ {"active", "past_due", "canceled", "incomplete_expired"} \subseteq StripeStatus
    BY DEF Invoices, StripeStatus
  <2>2. CASE ChangeAt(k, "active", gateway[k].atEnd, {"invoice.payment_succeeded"})
    BY <1>1, <2>1, <2>2
  <2>3. CASE ChangeAt(k, "past_due", gateway[k].atEnd, {"invoice.payment_failed"})
    BY <1>1, <2>1, <2>3
  <2>4. CASE ChangeAt(k, "canceled", FALSE, {}) \/ ChangeAt(k, "incomplete_expired", FALSE, {})
    BY <2>1, <2>4
  <2> QED
    BY <2>2, <2>3, <2>4 DEF StripeChanges
<1>3. /\ changes' \in 0 .. MaxChange /\ gateway' \in [Key -> Gateway \cup {NoSub}]
      /\ \A j \in Key : GatewayOK(gateway'[j], changes') /\ SubOK(sub[j], gateway'[j], changes')
      /\ \A d \in Caller : JobOK(caller[d], gateway', changes')
      /\ \A e \in events' : Told(e, gateway', changes')
  BY <1>1, <1>2, ChangeAtInv
<1>4. UNCHANGED <<plan, edit, rows, sub, paid, caller>>
  BY DEF StripeChanges
<1>5. SubscriptionsTypeOK' /\ CachedPriceIsCurrent'
  BY <1>3, <1>4, TypesFrom, PlanStays, SubscriptionTypes
<1> QED
  BY <1>3, <1>4, <1>5 DEF SubscriptionsInv

-----------------------------------------------------------------------------
LEMMA SubscriptionsInitially == SubscriptionsInit => SubscriptionsInv
<1> SUFFICES ASSUME SubscriptionsInit
             PROVE  SubscriptionsInv
  OBVIOUS
<1>1. /\ plan = [price |-> 1, cached |-> NoPrice, listed |-> TRUE, overtaken |-> FALSE]
      /\ rows = <<>> /\ paid = {} /\ events = {} /\ changes = 0
      /\ sub = [k \in Key |-> NoSub] /\ gateway = [k \in Key |-> NoSub]
      /\ caller = [c \in Caller |-> Free]
  BY DEF SubscriptionsInit
<1>2. plan \in PlanRow /\ plan.cached = NoPrice
  BY <1>1, SubscriptionsAssumption DEF PlanRow, Price
<1>3. edit = [a \in PlanEdit |-> NoEdit]
  BY DEF SubscriptionsInit
<1>7. CachedPriceIsCurrent /\ SubscriptionsTypeOK
  BY <1>1, <1>2, <1>3 DEF CachedPriceIsCurrent, SubscriptionsTypeOK
<1>4. changes \in 0 .. MaxChange
  BY <1>1, SubscriptionsAssumption
<1>5. \A k \in Key : GatewayOK(gateway[k], changes) /\ SubOK(sub[k], gateway[k], changes)
  BY <1>1 DEF GatewayOK, SubOK
<1>6. \A c \in Caller : JobOK(caller[c], gateway, changes)
  BY <1>1, FreeJob
<1> QED
  BY <1>1, <1>7, <1>4, <1>5, <1>6 DEF SubscriptionsInv

LEMMA SubscriptionsStep == SubscriptionsInv /\ [SubscriptionsNext]_subscriptionVars => SubscriptionsInv'
<1> SUFFICES ASSUME SubscriptionsInv, [SubscriptionsNext]_subscriptionVars
             PROVE  SubscriptionsInv'
  OBVIOUS
<1>1. CASE UNCHANGED subscriptionVars
  <2>1. UNCHANGED <<plan, edit, rows, sub, paid, gateway, events, changes, caller>>
    BY <1>1 DEF subscriptionVars
  <2> QED
    BY <2>1, CallersMove, PlanStays, SubscriptionTypes DEF SubscriptionsInv
<1>2. ASSUME NEW a \in PlanEdit,
             \/ \E price \in Price \cup {NoPrice} : UpdatePlanBegin(a, price)
             \/ UpdatePlan(a) \/ UpdatePlanFails(a)
      PROVE  SubscriptionsInv'
  BY <1>2, UpdatePlanInv
<1>3. ASSUME NEW k \in Key, StripeChanges(k)
      PROVE  SubscriptionsInv'
  BY <1>3, StripeChangesInv
<1>4. ASSUME NEW e \in events, HandleStripeSubscriptionEvent(e)
      PROVE  SubscriptionsInv'
  BY <1>4, HandleStripeSubscriptionEventInv
<1>5. ASSUME NEW c \in Caller, NEW k \in Key, Checkout(c, k) \/ Confirm(c, k)
      PROVE  SubscriptionsInv'
  BY <1>5, CheckoutInv, ConfirmInv
<1>6. ASSUME NEW c \in Caller,
             \/ SaveStripePlanIds(c) \/ CreateAtStripe(c) \/ CreateCustomerSubscription(c)
             \/ CreateInitialSubscriptionPayment(c) \/ CancelSubscription(c)
             \/ ReactivateAction(c) \/ UpdateCustomerSubscription(c) \/ CallerFails(c)
      PROVE  SubscriptionsInv'
  BY <1>6, SaveStripePlanIdsInv, CreateAtStripeInv, CreateCustomerSubscriptionInv, PaymentInv,
     CancelSubscriptionInv, ReactivateActionInv, UpdateCustomerSubscriptionInv
<1> QED
  BY <1>1, <1>2, <1>3, <1>4, <1>5, <1>6 DEF SubscriptionsNext

LEMMA SubscriptionsInvariant == SubscriptionsSpec => []SubscriptionsInv
BY SubscriptionsInitially, SubscriptionsStep, PTL DEF SubscriptionsSpec

\* The plan, the rows, Stripe's subscriptions and what the requests hold keep their types.
THEOREM SubscriptionsTypeCorrect == SubscriptionsSpec => []SubscriptionsTypeOK
<1>1. SubscriptionsInv => SubscriptionsTypeOK
  BY DEF SubscriptionsInv
<1> QED
  BY <1>1, SubscriptionsInvariant, PTL

\* For any number of overlapping plan edits and checkouts, the cached price is the plan's
\* unless a checkout or an edit wrote from a price that had been changed since it read it.
THEOREM CachedPricesAreCurrent == SubscriptionsSpec => []CachedPriceIsCurrent
<1>1. SubscriptionsInv => CachedPriceIsCurrent
  BY DEF SubscriptionsInv
<1> QED
  BY <1>1, SubscriptionsInvariant, PTL

\* In whatever order events and answers come, a row last written from the end of its
\* subscription at Stripe is not premium.
THEOREM EndedSubscriptionsEnd == SubscriptionsSpec => []EndedIsNotPremium
<1>1. SubscriptionsInv => EndedIsNotPremium
  BY DEF SubscriptionsInv, SubOK, Current, EndedIsNotPremium
<1> QED
  BY <1>1, SubscriptionsInvariant, PTL

-----------------------------------------------------------------------------
(* Refunds.  The refunds that were not overlapped were each committed over *)
(* the very refunds their decision had added up, so that together they are *)
(* within the total, whatever the overlapped ones add.                     *)

Worth == [r \in RefundId |-> Refunded(r)]
Existing == {r \in RefundId : Exists(r)}
Apart == {r \in Processed : ~refund[r].overlapped}

ApartAreCovered ==
  /\ SumFunctionOnSet(Worth, Apart \cap Linked) <= Total
  /\ ~Exists(Admin) => SumFunctionOnSet(Worth, Apart) <= Total

\* What a decision grants is within what it saw left.
GrantFits(job) ==
  /\ job.op \in {"approve", "reject"} => Exists(job.id)
  /\ job.op = "approve" => job.amount + SumFunction(job.seen) <= Total
  /\ job.op = "refund" =>
       /\ DOMAIN job.seen \subseteq Existing
       /\ job.amount + SumFunctionOnSet(job.seen, DOMAIN job.seen \cap Linked) <= Total

RefundsInv ==
  /\ RefundsTypeOK
  /\ IsFiniteSet(Existing)
  /\ ApartAreCovered
  /\ \A d \in Decider : GrantFits(decider[d])

RefundJob ==
  {Idle}
    \cup [op : {"approve"}, id : Request, amount : Amount, seen : SeenSet]
    \cup [op : {"reject"}, id : Request]
    \cup [op : {"refund"}, amount : Amount, full : BOOLEAN, seen : SeenSet]

LEMMA RefundJobKinds ==
  ASSUME NEW job \in RefundJob
  PROVE  /\ job.op \in {"approve", "reject"} => job.id \in Request
         /\ job.op \in {"approve", "refund"} => job.amount \in Amount /\ job.seen \in SeenSet
         /\ job.op = "refund" => job.full \in BOOLEAN
BY DEF RefundJob, Idle

LEMMA RefundRowTypes ==
  ASSUME NEW row \in RefundRow
  PROVE  /\ row # NoRefund
         /\ row.requested \in Amount /\ row.approved \in Amount \cup {NoAmount}
         /\ row.linked \in BOOLEAN /\ row.overlapped \in BOOLEAN /\ row.status \in RefundStatus
BY DEF RefundRow, NoRefund, RefundStatus

LEMMA AmountsAreNatural == (\A a \in Amount : a \in Nat /\ a \in Int) /\ Total \in Nat /\ Total \in Int
BY RefundsAssumption DEF Amount

LEMMA ApprovedRefund ==
  ASSUME NEW row \in RefundRow, NEW a \in Amount, NEW o \in BOOLEAN
  PROVE  /\ Approved(row, a, o) \in RefundRow
         /\ Approved(row, a, o).approved = a
         /\ Approved(row, a, o).overlapped = o
         /\ Approved(row, a, o).linked = row.linked
<1>1. Approved(row, a, o) \in RefundRow
  BY Zenon DEF Approved, RefundRow, RefundStatus
<1>2. Approved(row, a, o).approved = a
  BY Zenon DEF Approved, RefundRow
<1>3. Approved(row, a, o).overlapped = o
  BY Zenon DEF Approved, RefundRow
<1>4. Approved(row, a, o).linked = row.linked
  BY Zenon DEF Approved, RefundRow
<1> QED
  BY <1>1, <1>2, <1>3, <1>4

LEMMA RejectedRefund ==
  ASSUME NEW row \in RefundRow
  PROVE  /\ Rejected(row) \in RefundRow
         /\ Rejected(row).status = "REJECTED"
         /\ Rejected(row).linked = row.linked
BY Zenon DEF Rejected, RefundRow, RefundStatus

LEMMA MarkedPayment ==
  ASSUME NEW p \in [status : {"SUCCEEDED", "REFUNDED"},
                    adminRefund : {"NONE", "PARTIALLY_REFUNDED", "REFUNDED"}]
  PROVE  Marked(p, "PARTIALLY_REFUNDED")
           \in [status : {"SUCCEEDED", "REFUNDED"},
                adminRefund : {"NONE", "PARTIALLY_REFUNDED", "REFUNDED"}]
BY Zenon DEF Marked

LEMMA RefundTypes ==
  ASSUME RefundsTypeOK
  PROVE  /\ refund \in [RefundId -> RefundRow \cup {NoRefund}]
         /\ decider \in [Decider -> RefundJob]
         /\ \A r \in Existing : refund[r] \in RefundRow /\ Refunded(r) \in Amount
         /\ Processed \subseteq Existing /\ Linked \subseteq Existing
<1>1. \A r \in Existing : refund[r] \in RefundRow
  BY DEF RefundsTypeOK, Existing, Exists
<1>2. \A r \in Existing : Refunded(r) \in Amount
  BY <1>1, RefundRowTypes DEF Refunded
<1> QED
  BY <1>1, <1>2 DEF RefundsTypeOK, Existing, Processed, Linked, RefundJob

\* What was refunded by some of the refunds is a sum over all their worths.
LEMMA RefundedIsSum ==
  ASSUME RefundsTypeOK, NEW ids, ids \subseteq RefundId, IsFiniteSet(ids)
  PROVE  RefundedBy(ids) = SumFunctionOnSet(Worth, ids)
<1>1. RefundedBy(ids) = SumFunctionOnSet(Seen(ids), ids)
  BY DEF RefundedBy, SumFunction, Seen
<1>2. \A r \in ids : Seen(ids)[r] = Worth[r]
  BY DEF Seen, Worth
<1> QED
  BY <1>1, <1>2, SumSame

LEMMA WorthIsNatural ==
  ASSUME RefundsTypeOK, NEW s \in Existing
  PROVE  Worth[s] \in Nat /\ Worth[s] \in Int
<1>1. Worth[s] \in Amount
  BY RefundTypes DEF Worth, Existing
<1> QED
  BY <1>1, AmountsAreNatural

-----------------------------------------------------------------------------
(* A step writes at most one refund.  The others keep their worth.         *)

LEMMA OthersKeepWorth ==
  ASSUME RefundsTypeOK, NEW r \in RefundId, NEW row \in RefundRow,
         refund' = [refund EXCEPT ![r] = row]
  PROVE  /\ refund'[r] = row
         /\ \A s \in RefundId \ {r} : refund'[s] = refund[s] /\ Worth'[s] = Worth[s]
         /\ Existing' = Existing \cup {r}
         /\ Linked' \ {r} = Linked \ {r}
         /\ Apart' \ {r} = Apart \ {r}
         /\ Processed' \ {r} = Processed \ {r}
<1>1. refund'[r] = row /\ \A s \in RefundId \ {r} : refund'[s] = refund[s]
  BY DEF RefundsTypeOK
<1>2. \A s \in RefundId \ {r} : Worth'[s] = Worth[s]
  BY <1>1 DEF Worth, Refunded
<1> QED
  BY <1>1, <1>2, RefundRowTypes DEF Existing, Linked, Apart, Processed, Exists

\* The refund is not, or no longer, one of those that count.
LEMMA UncountedRefund ==
  ASSUME RefundsInv, NEW r \in RefundId, NEW row \in RefundRow,
         refund' = [refund EXCEPT ![r] = row], row.status # "REFUNDED" \/ row.overlapped
  PROVE  ApartAreCovered'
<1>1. /\ RefundsTypeOK /\ IsFiniteSet(Existing) /\ ApartAreCovered
      /\ Apart \subseteq Existing /\ Linked \subseteq Existing
  BY RefundTypes DEF RefundsInv, Apart
<1>2. r \notin Apart'
  BY <1>1, OthersKeepWorth DEF Apart, Processed
<1>3. \A S : S \subseteq Existing =>
               /\ IsFiniteSet(S) /\ IsFiniteSet(S \ {r})
               /\ SumFunctionOnSet(Worth', S \ {r}) = SumFunctionOnSet(Worth, S \ {r})
               /\ SumFunctionOnSet(Worth, S \ {r}) <= SumFunctionOnSet(Worth, S)
               /\ SumFunctionOnSet(Worth, S \ {r}) \in Int
               /\ SumFunctionOnSet(Worth, S) \in Int
  <2> SUFFICES ASSUME NEW S, S \subseteq Existing PROVE <1>3!(S)!2
    OBVIOUS
  <2>1. IsFiniteSet(S) /\ IsFiniteSet(S \ {r}) /\ S \ {r} \subseteq S
    BY <1>1, FS_Subset
  <2>2. \A s \in S : Worth[s] \in Nat
    BY <1>1, WorthIsNatural
  <2>3. \A s \in S \ {r} : Worth'[s] = Worth[s]
    BY <1>1, OthersKeepWorth DEF Existing
  <2>4. SumFunctionOnSet(Worth', S \ {r}) = SumFunctionOnSet(Worth, S \ {r})
    BY <2>1, <2>3, SumSame
  <2>5. SumFunctionOnSet(Worth, S \ {r}) <= SumFunctionOnSet(Worth, S)
    BY <2>1, <2>2, SumOfPart
  <2>6. SumFunctionOnSet(Worth, S \ {r}) \in Int /\ SumFunctionOnSet(Worth, S) \in Int
    BY <2>1, <2>2, SumType
  <2> QED
    BY <2>1, <2>4, <2>5, <2>6
<1>4. Apart' = Apart \ {r} /\ Apart' \cap Linked' = (Apart \cap Linked) \ {r}
  BY <1>1, <1>2, OthersKeepWorth
<1>5. ~Exists(Admin)' => ~Exists(Admin)
  BY <1>1, OthersKeepWorth, RefundRowTypes DEF Exists, RefundId
<1>6. SumFunctionOnSet(Worth', Apart' \cap Linked') <= Total
  <2> DEFINE S == Apart \cap Linked
  <2>1. S \subseteq Existing /\ SumFunctionOnSet(Worth, S) <= Total
    BY <1>1 DEF ApartAreCovered
  <2>2. Apart' \cap Linked' = S \ {r}
    BY <1>4
  <2> HIDE DEF S
  <2>3. <1>3!(S)!2
    BY <1>3, <2>1
  <2> QED
    BY <2>1, <2>2, <2>3, AmountsAreNatural
<1>7. ~Exists(Admin)' => SumFunctionOnSet(Worth', Apart') <= Total
  <2> SUFFICES ASSUME ~Exists(Admin)' PROVE SumFunctionOnSet(Worth', Apart') <= Total
    OBVIOUS
  <2>1. Apart \subseteq Existing /\ SumFunctionOnSet(Worth, Apart) <= Total
    BY <1>1, <1>5 DEF ApartAreCovered
  <2>2. <1>3!(Apart)!2
    BY <1>3, <2>1
  <2> QED
    BY <1>4, <2>1, <2>2, AmountsAreNatural
<1> QED
  BY <1>6, <1>7 DEF ApartAreCovered

\* The refund counts, and it fits with the others that do.
LEMMA FittingRefund ==
  ASSUME RefundsInv, NEW r \in RefundId, NEW row \in RefundRow,
         refund' = [refund EXCEPT ![r] = row],
         NEW a \in Amount, row.approved = a,
         NEW S, S \subseteq Existing \ {r}, a + SumFunctionOnSet(Worth, S) <= Total,
         Apart' \cap Linked' \subseteq S \cup {r}, Exists(Admin)' \/ Apart' \subseteq S \cup {r}
  PROVE  ApartAreCovered'
<1>1. RefundsTypeOK /\ IsFiniteSet(Existing)
  BY DEF RefundsInv
<1>2. IsFiniteSet(S) /\ r \notin S /\ S \subseteq RefundId
  BY <1>1, FS_Subset DEF Existing
<1>3. Worth'[r] = a
  <2>1. refund'[r].approved = a
    BY <1>1, OthersKeepWorth
  <2>2. a # NoAmount
    BY RefundsAssumption DEF Amount, NoAmount
  <2> QED
    BY <2>1, <2>2 DEF Worth, Refunded
<1>4. \A s \in S : Worth'[s] = Worth[s] /\ Worth[s] \in Nat
  BY <1>1, <1>2, OthersKeepWorth, WorthIsNatural
<1>5. \A s \in S \cup {r} : Worth'[s] \in Nat
  BY <1>3, <1>4, AmountsAreNatural
<1>6. SumFunctionOnSet(Worth', S \cup {r}) <= Total
  <2>1. SumFunctionOnSet(Worth', S) = SumFunctionOnSet(Worth, S)
    BY <1>2, <1>4, SumSame
  <2>2. SumFunctionOnSet(Worth', S \cup {r}) = SumFunctionOnSet(Worth', S) + Worth'[r]
    BY <1>2, <1>5, SumAdd
  <2>3. SumFunctionOnSet(Worth, S) \in Int
    BY <1>2, <1>4, SumType
  <2> QED
    BY <1>3, <2>1, <2>2, <2>3, AmountsAreNatural
<1>7. ASSUME NEW T, T \subseteq S \cup {r} PROVE SumFunctionOnSet(Worth', T) <= Total
  <2>1. IsFiniteSet(S \cup {r})
    BY <1>2, FS_AddElement
  <2>2. SumFunctionOnSet(Worth', T) <= SumFunctionOnSet(Worth', S \cup {r})
    BY <1>5, <1>7, <2>1, SumOfPart
  <2>3. IsFiniteSet(T) /\ \A s \in T : Worth'[s] \in Int
    BY <1>5, <1>7, <2>1, FS_Subset
  <2>4. SumFunctionOnSet(Worth', T) \in Int /\ SumFunctionOnSet(Worth', S \cup {r}) \in Int
    BY <1>5, <2>1, <2>3, SumType
  <2> QED
    BY <1>6, <2>2, <2>4, AmountsAreNatural
<1> QED
  BY <1>7 DEF ApartAreCovered

-----------------------------------------------------------------------------
(* The decisions in flight.                                                *)

\* What a decision was given stays within what it saw.
LEMMA GrantStillFits ==
  ASSUME RefundsTypeOK, NEW r \in RefundId, NEW row \in RefundRow,
         refund' = [refund EXCEPT ![r] = row], Exists(r) => row.linked = refund[r].linked,
         NEW job \in RefundJob, GrantFits(job)
  PROVE  GrantFits(job)'
<1>1. Existing' = Existing \cup {r} /\ \A s \in Existing : refund'[s].linked = refund[s].linked
  BY OthersKeepWorth DEF Existing
<1>2. \A s \in Existing : (s \in Linked)' <=> s \in Linked
  BY <1>1 DEF Linked, Existing
<1>3. job.op \in {"approve", "reject"} => Exists(job.id)'
  <2>1. job.op \in {"approve", "reject"} => job.id \in Existing
    BY RefundJobKinds DEF GrantFits, Existing, RefundId
  <2> QED
    BY <1>1, <2>1 DEF Existing
<1>4. job.op = "refund" => DOMAIN job.seen \cap Linked' = DOMAIN job.seen \cap Linked
  BY <1>2 DEF GrantFits
<1> QED
  BY <1>1, <1>3, <1>4 DEF GrantFits

\* A step that writes a refund and ends the decision it comes from.
LEMMA RefundWritten ==
  ASSUME RefundsInv, NEW r \in RefundId, NEW row \in RefundRow,
         refund' = [refund EXCEPT ![r] = row], Exists(r) => row.linked = refund[r].linked,
         ApartAreCovered',
         payment' \in [status : {"SUCCEEDED", "REFUNDED"},
                       adminRefund : {"NONE", "PARTIALLY_REFUNDED", "REFUNDED"}],
         order' \in {"OPEN", "CANCELLED"},
         UNCHANGED decider \/ \E d \in Decider : decider' = [decider EXCEPT ![d] = Idle]
  PROVE  RefundsInv'
<1>1. RefundsTypeOK /\ decider \in [Decider -> RefundJob]
  BY RefundTypes DEF RefundsInv
<1>2. \A d \in Decider : decider'[d] \in {decider[d], Idle}
  BY <1>1
<1>3. decider' \in [Decider -> RefundJob]
  BY <1>1 DEF RefundJob
<1>4. refund' \in [RefundId -> RefundRow \cup {NoRefund}]
  BY <1>1 DEF RefundsTypeOK
<1>5. RefundsTypeOK'
  BY <1>3, <1>4 DEF RefundsTypeOK, RefundJob
<1>6. IsFiniteSet(Existing)'
  <2>1. Existing' = Existing \cup {r}
    BY <1>1, OthersKeepWorth
  <2> QED
    BY <2>1, FS_AddElement DEF RefundsInv
<1>7. ASSUME NEW d \in Decider PROVE GrantFits(decider[d])'
  <2>1. PICK job \in RefundJob : job = decider'[d] /\ (job = decider[d] \/ job = Idle)
    BY <1>2, <1>3
  <2>2. GrantFits(job)
    BY <2>1 DEF RefundsInv, GrantFits, Idle
  <2>3. GrantFits(job)'
    BY <1>1, <2>2, GrantStillFits
  <2> QED
    BY <2>1, <2>3
<1> QED
  BY <1>5, <1>6, <1>7 DEF RefundsInv

\* A step that only moves a decision on.
LEMMA DecisionTaken ==
  ASSUME RefundsInv, UNCHANGED <<refund, payment, order>>, NEW d \in Decider,
         NEW job \in RefundJob, GrantFits(job), decider' = [decider EXCEPT ![d] = job]
  PROVE  RefundsInv'
<1>1. RefundsTypeOK /\ decider \in [Decider -> RefundJob]
  BY RefundTypes DEF RefundsInv
<1>2. RefundsTypeOK'
  <2>1. decider' \in [Decider -> RefundJob]
    BY <1>1
  <2> QED
    BY <1>1, <2>1 DEF RefundsTypeOK, RefundJob
<1>3. IsFiniteSet(Existing)' /\ ApartAreCovered'
  BY DEF RefundsInv, Existing, Exists, ApartAreCovered, Apart, Linked, Processed, Worth, Refunded
<1>4. \A e \in Decider : GrantFits(decider'[e])
  BY <1>1 DEF RefundsInv
<1>5. \A e \in Decider : GrantFits(decider[e])'
  BY <1>4 DEF GrantFits, Existing, Exists, Linked
<1> QED
  BY <1>2, <1>3, <1>5 DEF RefundsInv

LEMMA CreateRequestInv ==
  ASSUME RefundsInv, NEW r \in Request, CreateRequest(r)
  PROVE  RefundsInv'
<1>1. PICK amount \in Amount, linked \in BOOLEAN :
        refund' = [refund EXCEPT ![r] =
          [status |-> "REQUESTED", requested |-> amount, approved |-> NoAmount,
           linked |-> linked, overlapped |-> FALSE]]
  BY DEF CreateRequest
<1> DEFINE row == [status |-> "REQUESTED", requested |-> amount, approved |-> NoAmount,
                   linked |-> linked, overlapped |-> FALSE]
<1>2. row \in RefundRow /\ row.status # "REFUNDED" /\ refund' = [refund EXCEPT ![r] = row]
  BY <1>1 DEF RefundRow, RefundStatus
<1>3. r \in RefundId /\ ~Exists(r) /\ UNCHANGED <<payment, order, decider>>
  BY DEF CreateRequest, Exists, RefundId
<1> HIDE DEF row
<1>4. ApartAreCovered'
  BY <1>2, <1>3, UncountedRefund
<1> QED
  BY <1>2, <1>3, <1>4, RefundWritten DEF RefundsInv, RefundsTypeOK

\* The sums a decision is based on are those of the refunds it saw.
LEMMA ActionInv ==
  ASSUME RefundsInv, NEW d \in Decider, NEW r \in Request, Action(d, r)
  PROVE  RefundsInv'
<1> DEFINE S == Processed \ {r}
<1>1. /\ RefundsTypeOK /\ S \subseteq Existing /\ S \subseteq RefundId /\ Exists(r)
      /\ UNCHANGED <<refund, payment, order>>
  BY RefundTypes DEF RefundsInv, Action, Existing
<1>2. CASE decider' = [decider EXCEPT ![d] = [op |-> "reject", id |-> r]]
  <2> DEFINE job == [op |-> "reject", id |-> r]
  <2>1. job \in RefundJob /\ GrantFits(job)
    BY <1>1 DEF RefundJob, GrantFits
  <2> QED
    BY <1>1, <1>2, <2>1, DecisionTaken
<1>3. ASSUME NEW a \in Amount, a <= RefundableAmount(r),
             decider' = [decider EXCEPT ![d] =
               [op |-> "approve", id |-> r, amount |-> a, seen |-> Seen(S)]]
      PROVE  RefundsInv'
  <2>1. PICK seen : seen = Seen(S)
    OBVIOUS
  <2> DEFINE job == [op |-> "approve", id |-> r, amount |-> a, seen |-> seen]
  <2>2. seen \in SeenSet
    BY <1>1, <2>1, RefundTypes DEF Seen, SeenSet
  <2>3. a + SumFunction(seen) <= Total
    <3>1. RefundedBy(S) = SumFunction(seen)
      BY <2>1 DEF RefundedBy
    <3>2. a <= Total - SumFunction(seen)
      BY <1>3, <3>1 DEF RefundableAmount
    <3>3. SumFunction(seen) \in Int
      <4>1. IsFiniteSet(S)
        BY <1>1, FS_Subset DEF RefundsInv
      <4>2. \A s \in S : Worth[s] \in Int
        BY <1>1, WorthIsNatural
      <4> QED
        BY <1>1, <3>1, <4>1, <4>2, RefundedIsSum, SumType
    <3> QED
      BY <3>2, <3>3, AmountsAreNatural
  <2>4. job \in RefundJob /\ GrantFits(job)
    BY <1>1, <2>2, <2>3 DEF RefundJob, GrantFits
  <2>5. decider' = [decider EXCEPT ![d] = job]
    BY <1>3, <2>1
  <2> QED
    BY <1>1, <2>4, <2>5, DecisionTaken
<1> QED
  BY <1>2, <1>3 DEF Action

LEMMA ApproveInv ==
  ASSUME RefundsInv, NEW d \in Decider, ApproveWithSideEffects(d)
  PROVE  RefundsInv'
<1>1. RefundsTypeOK
  BY DEF RefundsInv
<1>2. PICK job \in RefundJob : job = decider[d] /\ job.op = "approve" /\ GrantFits(job)
  BY <1>1, RefundTypes DEF RefundsInv, ApproveWithSideEffects
<1>3. PICK r \in Request : r = job.id /\ r \in RefundId /\ Exists(r) /\ r \in Existing
  BY <1>2, RefundJobKinds DEF GrantFits, Existing, RefundId
<1>4. PICK a \in Amount : a = job.amount
  BY <1>2, RefundJobKinds
<1> DEFINE S == Processed \ {r}
<1>5. PICK o \in BOOLEAN : o = (Seen(S) # job.seen)
  OBVIOUS
<1>6. PICK row \in RefundRow :
        /\ row = Approved(refund[r], a, o)
        /\ row.approved = a /\ row.overlapped = o /\ row.linked = refund[r].linked
  BY <1>1, <1>3, RefundTypes, ApprovedRefund
<1>7. /\ refund' = [refund EXCEPT ![r] = row]
      /\ order' = "CANCELLED" /\ payment' = payment
      /\ decider' = [decider EXCEPT ![d] = Idle]
  BY <1>2, <1>3, <1>4, <1>5, <1>6 DEF ApproveWithSideEffects
<1>8. ApartAreCovered'
  <2>1. CASE o
    BY <1>3, <1>6, <1>7, <2>1, UncountedRefund
  <2>2. CASE ~o
    <3>1. S \subseteq Existing \ {r} /\ S \subseteq RefundId /\ IsFiniteSet(S)
      BY <1>1, RefundTypes, FS_Subset DEF RefundsInv, Existing
    <3>2. a + SumFunctionOnSet(Worth, S) <= Total
      BY <1>1, <1>2, <1>4, <1>5, <2>2, <3>1, RefundedIsSum DEF GrantFits, RefundedBy
    <3>3. Apart' \subseteq S \cup {r} /\ Apart' \cap Linked' \subseteq S \cup {r}
      <4>1. Apart' \ {r} = Apart \ {r}
        BY <1>1, <1>3, <1>7, OthersKeepWorth
      <4> QED
        BY <4>1 DEF Apart
    <3> HIDE DEF S
    <3>4. Exists(Admin)' \/ Apart' \subseteq S \cup {r}
      BY <3>3
    <3>5. refund' = [refund EXCEPT ![r] = row] /\ row.approved = a
      BY <1>6, <1>7
    <3> QED
      BY <1>3, <3>1, <3>2, <3>3, <3>4, <3>5, FittingRefund
  <2> QED
    BY <2>1, <2>2
<1> QED
  BY <1>1, <1>3, <1>6, <1>7, <1>8, RefundWritten DEF RefundsTypeOK

LEMMA RejectInv ==
  ASSUME RefundsInv, NEW d \in Decider, RejectWithSideEffects(d)
  PROVE  RefundsInv'
<1>1. RefundsTypeOK
  BY DEF RefundsInv
<1>2. PICK job \in RefundJob : job = decider[d] /\ job.op = "reject" /\ GrantFits(job)
  BY <1>1, RefundTypes DEF RefundsInv, RejectWithSideEffects
<1>3. PICK r \in Request : r = job.id /\ r \in RefundId /\ Exists(r) /\ r \in Existing
  BY <1>2, RefundJobKinds DEF GrantFits, Existing, RefundId
<1>4. PICK row \in RefundRow :
        row = Rejected(refund[r]) /\ row.status = "REJECTED" /\ row.linked = refund[r].linked
  BY <1>1, <1>3, RefundTypes, RejectedRefund
<1>5. /\ refund' = [refund EXCEPT ![r] = row]
      /\ order' = order /\ payment' = payment
      /\ decider' = [decider EXCEPT ![d] = Idle]
  BY <1>2, <1>3, <1>4 DEF RejectWithSideEffects
<1>6. ApartAreCovered'
  BY <1>3, <1>4, <1>5, UncountedRefund
<1> QED
  BY <1>1, <1>3, <1>4, <1>5, <1>6, RefundWritten DEF RefundsTypeOK

LEMMA RefundTransactionInv ==
  ASSUME RefundsInv, NEW d \in Decider, RefundTransaction(d)
  PROVE  RefundsInv'
<1>1. RefundsTypeOK /\ IsFiniteSet(Existing) /\ UNCHANGED <<refund, payment, order>>
  BY DEF RefundsInv, RefundTransaction
<1>2. PICK a \in Amount :
        /\ a <= RemainingRefundable
        /\ decider' = [decider EXCEPT ![d] =
             [op |-> "refund", amount |-> a, full |-> a = RemainingRefundable,
              seen |-> Seen(Processed)]]
  BY DEF RefundTransaction
<1>3. PICK full \in BOOLEAN : full = (a = RemainingRefundable)
  OBVIOUS
<1>4. PICK seen : seen = Seen(Processed)
  OBVIOUS
<1> DEFINE job == [op |-> "refund", amount |-> a, full |-> full, seen |-> seen]
           S == Processed \cap Linked
<1>5. Processed \subseteq Existing /\ Processed \subseteq RefundId
  BY <1>1, RefundTypes DEF Existing
<1>6. /\ seen \in SeenSet /\ DOMAIN seen = Processed
      /\ \A s \in Processed : seen[s] = Worth[s] /\ Worth[s] \in Int
  BY <1>1, <1>4, <1>5, RefundTypes, AmountsAreNatural DEF Seen, SeenSet, Worth
<1>7. a + SumFunctionOnSet(seen, S) <= Total
  <2>1. S \subseteq RefundId /\ S \subseteq Processed /\ IsFiniteSet(S)
    BY <1>1, <1>5, FS_Subset
  <2>2. a <= Total - SumFunctionOnSet(Worth, S)
    BY <1>1, <1>2, <2>1, RefundedIsSum DEF RemainingRefundable
  <2>3. SumFunctionOnSet(seen, S) = SumFunctionOnSet(Worth, S)
    BY <1>6, <2>1, SumSame
  <2>4. SumFunctionOnSet(Worth, S) \in Int
    BY <1>6, <2>1, SumType
  <2> QED
    BY <2>2, <2>3, <2>4, AmountsAreNatural
<1>8. job \in RefundJob /\ GrantFits(job)
  BY <1>5, <1>6, <1>7 DEF RefundJob, GrantFits
<1>9. decider' = [decider EXCEPT ![d] = job]
  BY <1>2, <1>3, <1>4
<1> HIDE DEF job
<1> QED
  BY <1>1, <1>8, <1>9, DecisionTaken

LEMMA ProcessRefundInv ==
  ASSUME RefundsInv, NEW d \in Decider, ProcessRefund(d)
  PROVE  RefundsInv'
<1>1. RefundsTypeOK
  BY DEF RefundsInv
<1>2. PICK job \in RefundJob : job = decider[d] /\ job.op = "refund" /\ GrantFits(job)
  BY <1>1, RefundTypes DEF RefundsInv, ProcessRefund
<1>3. PICK a \in Amount : a = job.amount
  BY <1>2, RefundJobKinds
<1>4. PICK o \in BOOLEAN : o = (Seen(Processed) # job.seen)
  OBVIOUS
<1> DEFINE row == [status |-> "REFUNDED", requested |-> a, approved |-> a, linked |-> TRUE,
                   overlapped |-> o]
           S == Processed \cap Linked
<1>5. /\ row \in RefundRow /\ row.approved = a /\ row.overlapped = o
      /\ refund' = [refund EXCEPT ![Admin] = row]
  BY <1>2, <1>3, <1>4 DEF ProcessRefund, RefundRow, RefundStatus
<1>6. /\ Admin \in RefundId /\ ~Exists(Admin)
      /\ decider' = [decider EXCEPT ![d] = Idle]
      /\ order' \in {"OPEN", "CANCELLED"}
  BY <1>1 DEF ProcessRefund, Exists, RefundId, RefundsTypeOK
<1>7. payment' \in [status : {"SUCCEEDED", "REFUNDED"},
                    adminRefund : {"NONE", "PARTIALLY_REFUNDED", "REFUNDED"}]
  BY <1>1, MarkedPayment DEF ProcessRefund, RefundsTypeOK
<1> HIDE DEF row
<1>8. ApartAreCovered'
  <2>1. CASE o
    BY <1>5, <1>6, <2>1, UncountedRefund
  <2>2. CASE ~o
    <3>1. S \subseteq Existing \ {Admin} /\ S \subseteq RefundId /\ IsFiniteSet(S)
      BY <1>1, <1>6, RefundTypes, FS_Subset DEF RefundsInv, Existing
    <3>2. /\ DOMAIN job.seen \cap Linked = S
          /\ \A s \in S : job.seen[s] = Worth[s]
      BY <1>4, <2>2, <3>1 DEF Seen, Worth
    <3>3. a + SumFunctionOnSet(Worth, S) <= Total
      <4>1. SumFunctionOnSet(job.seen, S) = SumFunctionOnSet(Worth, S)
        BY <3>1, <3>2, SumSame
      <4> QED
        BY <1>2, <1>3, <3>2, <4>1 DEF GrantFits
    <3>4. Apart' \cap Linked' \subseteq S \cup {Admin}
      <4>1. Apart' \ {Admin} = Apart \ {Admin} /\ Linked' \ {Admin} = Linked \ {Admin}
        BY <1>1, <1>5, <1>6, OthersKeepWorth
      <4> QED
        BY <4>1 DEF Apart
    <3>5. Exists(Admin)'
      BY <1>1, <1>5, <1>6, OthersKeepWorth, RefundRowTypes DEF Exists
    <3> HIDE DEF S
    <3> QED
      BY <1>5, <1>6, <3>1, <3>3, <3>4, <3>5, FittingRefund
  <2> QED
    BY <2>1, <2>2
<1> QED
  BY <1>5, <1>6, <1>7, <1>8, RefundWritten

LEMMA DeciderFailsInv ==
  ASSUME RefundsInv, NEW d \in Decider, DeciderFails(d)
  PROVE  RefundsInv'
<1>1. Idle \in RefundJob /\ GrantFits(Idle)
  BY DEF RefundJob, Idle, GrantFits
<1> QED
  BY <1>1, DecisionTaken DEF DeciderFails

LEMMA RefundsStart == RefundsInit => RefundsInv
<1> SUFFICES ASSUME RefundsInit PROVE RefundsInv
  OBVIOUS
<1>1. Existing = {} /\ Processed = {} /\ Linked = {} /\ Apart = {}
  BY DEF RefundsInit, Existing, Exists, Processed, Linked, Apart
<1>2. ApartAreCovered
  BY <1>1, SumEmpty, RefundsAssumption DEF ApartAreCovered
<1>3. RefundsTypeOK
  BY DEF RefundsInit, RefundsTypeOK
<1>4. \A d \in Decider : GrantFits(decider[d])
  BY DEF RefundsInit, GrantFits, Idle
<1> QED
  BY <1>1, <1>2, <1>3, <1>4, FS_EmptySet DEF RefundsInv

LEMMA RefundsStep == RefundsInv /\ [RefundsNext]_refundVars => RefundsInv'
<1> SUFFICES ASSUME RefundsInv, [RefundsNext]_refundVars PROVE RefundsInv'
  OBVIOUS
<1>1. CASE UNCHANGED refundVars
  BY <1>1 DEF refundVars, RefundsInv, RefundsTypeOK, Existing, Exists, ApartAreCovered, Apart,
              Linked, Processed, Worth, Refunded, GrantFits
<1> QED
  BY <1>1, CreateRequestInv, ActionInv, ApproveInv, RejectInv, RefundTransactionInv,
     ProcessRefundInv, DeciderFailsInv DEF RefundsNext

LEMMA RefundsInvariant == RefundsSpec => []RefundsInv
BY RefundsStart, RefundsStep, PTL DEF RefundsSpec

\* The rows of the refunds and what the decisions in flight hold have the shape
\* the code gives them.
THEOREM RefundsTypeCorrect == RefundsSpec => []RefundsTypeOK
<1>1. RefundsInv => RefundsTypeOK
  BY DEF RefundsInv
<1> QED
  BY <1>1, RefundsInvariant, PTL

\* However many providers' decisions and administrators' refunds of an order
\* overlap, more than was paid is only refunded when one was committed over
\* refunds it had not seen, or when the administrator cannot see one of them.
THEOREM RefundsStayCovered == RefundsSpec => []RefundsAreCovered
<1>1. RefundsInv => RefundsAreCovered
  <2> SUFFICES ASSUME RefundsInv, ~RefundsAreCovered PROVE FALSE
    OBVIOUS
  <2>1. /\ RefundsTypeOK /\ Processed \subseteq Existing /\ Existing \subseteq RefundId
        /\ IsFiniteSet(Processed)
    BY RefundTypes, FS_Subset DEF RefundsInv, Existing
  <2>2. RefundedBy(Processed) > Total /\ Apart = Processed
    BY <2>1 DEF RefundsAreCovered, Apart
  <2>3. ~Exists(Admin) \/ Apart \cap Linked = Processed
    BY <2>1, <2>2, RefundTypes DEF RefundsAreCovered, Linked, Processed, Existing
  <2>4. SumFunctionOnSet(Worth, Processed) <= Total
    BY <2>2, <2>3 DEF RefundsInv, ApartAreCovered
  <2>5. RefundedBy(Processed) = SumFunctionOnSet(Worth, Processed)
    BY <2>1, RefundedIsSum
  <2>6. SumFunctionOnSet(Worth, Processed) \in Int
    <3>1. \A s \in Processed : Worth[s] \in Int
      BY <2>1, WorthIsNatural
    <3> QED
      BY <2>1, <3>1, SumType
  <2> QED
    BY <2>2, <2>4, <2>5, <2>6, AmountsAreNatural
<1> QED
  BY <1>1, RefundsInvariant, PTL

-----------------------------------------------------------------------------
(* Billing calendar: a date as the code puts it together.                  *)

LEMMA Concat ==
  ASSUME NEW a \in Int, NEW b \in Int, NEW c \in Int
  PROVE  <<a, b>> \o <<c>> = <<a, b, c>>
<1> DEFINE s == <<a, b>> \o <<c>>
           t == <<a, b, c>>
<1>1. <<a, b>> \in Seq(Int) /\ <<c>> \in Seq(Int) /\ t \in Seq(Int)
  OBVIOUS
<1>2. Len(s) = 3 /\ s \in Seq(Int) /\ Len(t) = 3
  BY <1>1
<1>3. s[1] = t[1] /\ s[2] = t[2] /\ s[3] = t[3]
  BY <1>1
<1> HIDE DEF s, t
<1>4. \A i \in 1 .. Len(s) : s[i] = t[i]
  <2>1. ASSUME NEW i \in 1 .. Len(s) PROVE i = 1 \/ i = 2 \/ i = 3
    BY <1>2
  <2> QED
    BY <2>1, <1>3
<1>5. s = t
  BY <1>1, <1>2, <1>4, SeqEqual
<1> QED
  BY <1>5 DEF s, t

-----------------------------------------------------------------------------
(* The calendar: months, the days before a month, and the day after a day. *)

IsDate(y, m, d) == y \in Nat /\ m \in 1 .. 12 /\ d \in 1 .. DaysInMonth(y, m)

LEMMA MonthLength ==
  ASSUME NEW y \in Nat, NEW m \in 1 .. 12
  PROVE  /\ DaysInMonth(y, m) \in 28 .. 31
         /\ m = 12 => DaysInMonth(y, m) = 31
<1>1. m = 12 => DaysInMonth(y, m) = 31
  BY DEF DaysInMonth
<1>2. DaysInMonth(y, m) \in 28 .. 31
  BY DEF DaysInMonth
<1> QED
  BY <1>1, <1>2

LEMMA YearLength ==
  ASSUME NEW y \in Nat
  PROVE  /\ DaysBefore(y) \in Int
         /\ DaysBefore(y + 1) = DaysBefore(y) + (IF IsLeap(y) THEN 366 ELSE 365)
BY DEF DaysBefore, IsLeap

\* The days of a year before each of its months: the recursive function of WeekDay exists.
Months(y, before) ==
  before = [m \in 1 .. 12 |-> IF m = 1 THEN 0 ELSE before[m - 1] + DaysInMonth(y, m - 1)]

Elapsed(y) == CHOOSE before : Months(y, before)

DaysElapsed(y) ==
  LET leap == IF IsLeap(y) THEN 1 ELSE 0
  IN [m \in 1 .. 12 |-> CASE m = 1 -> 0 [] m = 2 -> 31 [] m = 3 -> 59 + leap [] m = 4 -> 90 + leap
                          [] m = 5 -> 120 + leap [] m = 6 -> 151 + leap [] m = 7 -> 181 + leap
                          [] m = 8 -> 212 + leap [] m = 9 -> 243 + leap [] m = 10 -> 273 + leap
                          [] m = 11 -> 304 + leap [] OTHER -> 334 + leap]

LEMMA MonthsExist ==
  ASSUME NEW y \in Nat
  PROVE  Months(y, Elapsed(y))
<1>1. \A m \in 1 .. 12 : DaysElapsed(y)[m] =
        IF m = 1 THEN 0 ELSE DaysElapsed(y)[m - 1] + DaysInMonth(y, m - 1)
  <2> TAKE m \in 1 .. 12
  <2> QED
    BY DEF DaysElapsed, DaysInMonth
<1>2. Months(y, DaysElapsed(y))
  BY <1>1 DEF Months, DaysElapsed
<1> QED
  BY <1>2 DEF Elapsed

LEMMA DaysBeforeMonth ==
  ASSUME NEW y \in Nat
  PROVE  /\ \A m \in 1 .. 12 : Elapsed(y)[m] \in Int
         /\ Elapsed(y)[1] = 0
         /\ \A m \in 1 .. 11 : Elapsed(y)[m + 1] = Elapsed(y)[m] + DaysInMonth(y, m)
         /\ Elapsed(y)[12] = IF IsLeap(y) THEN 335 ELSE 334
<1> DEFINE e == Elapsed(y)
<1>1. \A m \in 1 .. 12 : e[m] = IF m = 1 THEN 0 ELSE e[m - 1] + DaysInMonth(y, m - 1)
  BY MonthsExist DEF Months
<1> HIDE DEF e
<1>2. e[1] = 0
  BY <1>1
<1>3. \A m \in 1 .. 11 : e[m + 1] = e[m] + DaysInMonth(y, m)
  <2> TAKE m \in 1 .. 11
  <2>1. m + 1 \in 1 .. 12 /\ m + 1 # 1 /\ (m + 1) - 1 = m
    OBVIOUS
  <2> QED
    BY <1>1, <2>1
<1>4. /\ e[2] = 31 /\ e[3] = 31 + DaysInMonth(y, 2)
  <2>1. DaysInMonth(y, 1) = 31
    BY DEF DaysInMonth
  <2>2. e[1 + 1] = e[1] + DaysInMonth(y, 1) /\ e[2 + 1] = e[2] + DaysInMonth(y, 2)
    BY <1>3
  <2> QED
    BY <1>2, <2>1, <2>2, MonthLength
<1>5. e[4] = e[3] + 31 /\ e[5] = e[4] + 30 /\ e[6] = e[5] + 31 /\ e[7] = e[6] + 30
  <2>1. /\ DaysInMonth(y, 3) = 31 /\ DaysInMonth(y, 4) = 30
        /\ DaysInMonth(y, 5) = 31 /\ DaysInMonth(y, 6) = 30
    BY DEF DaysInMonth
  <2>2. /\ e[3 + 1] = e[3] + DaysInMonth(y, 3) /\ e[4 + 1] = e[4] + DaysInMonth(y, 4)
        /\ e[5 + 1] = e[5] + DaysInMonth(y, 5) /\ e[6 + 1] = e[6] + DaysInMonth(y, 6)
    BY <1>3
  <2> QED
    BY <2>1, <2>2
<1>6. e[8] = e[7] + 31 /\ e[9] = e[8] + 31 /\ e[10] = e[9] + 30 /\ e[11] = e[10] + 31
      /\ e[12] = e[11] + 30
  <2>1. /\ DaysInMonth(y, 7) = 31 /\ DaysInMonth(y, 8) = 31 /\ DaysInMonth(y, 9) = 30
        /\ DaysInMonth(y, 10) = 31 /\ DaysInMonth(y, 11) = 30
    BY DEF DaysInMonth
  <2>2. /\ e[7 + 1] = e[7] + DaysInMonth(y, 7) /\ e[8 + 1] = e[8] + DaysInMonth(y, 8)
        /\ e[9 + 1] = e[9] + DaysInMonth(y, 9) /\ e[10 + 1] = e[10] + DaysInMonth(y, 10)
        /\ e[11 + 1] = e[11] + DaysInMonth(y, 11)
    BY <1>3
  <2> QED
    BY <2>1, <2>2
<1>7. DaysInMonth(y, 2) = IF IsLeap(y) THEN 29 ELSE 28
  BY DEF DaysInMonth
<1>8. e[12] = IF IsLeap(y) THEN 335 ELSE 334
  BY <1>4, <1>5, <1>6, <1>7
<1>9. ASSUME NEW m \in 1 .. 12 PROVE e[m] \in Int
  <2>1. e[2] \in Int /\ e[3] \in Int
    BY <1>4, <1>7
  <2>2. e[4] \in Int /\ e[5] \in Int /\ e[6] \in Int /\ e[7] \in Int
    BY <2>1, <1>5
  <2>3. e[8] \in Int /\ e[9] \in Int /\ e[10] \in Int /\ e[11] \in Int /\ e[12] \in Int
    BY <2>2, <1>6
  <2>4. \/ m = 1 \/ m = 2 \/ m = 3 \/ m = 4 \/ m = 5 \/ m = 6 \/ m = 7 \/ m = 8
        \/ m = 9 \/ m = 10 \/ m = 11 \/ m = 12
    OBVIOUS
  <2> QED
    BY <1>2, <2>1, <2>2, <2>3, <2>4
<1> QED
  BY <1>2, <1>3, <1>8, <1>9 DEF e

\* The number of a day, counted from the beginning of the calendar.
DayNumber(y, m, d) == DaysBefore(y) + Elapsed(y)[m] + d

LEMMA WeekDayIs ==
  ASSUME NEW y \in Nat, NEW m \in 1 .. 12, NEW d \in Int
  PROVE  /\ DayNumber(y, m, d) \in Int
         /\ WeekDay(<<y, m, d>>) = (DayNumber(y, m, d) + 5) % 7
<1>1. DaysBefore(y) \in Int /\ Elapsed(y)[m] \in Int
  BY YearLength, DaysBeforeMonth
<1>2. DayNumber(y, m, d) \in Int
  BY <1>1 DEF DayNumber
<1>3. WeekDay(<<y, m, d>>) = (DayNumber(y, m, d) + 5) % 7
  BY DEF WeekDay, Elapsed, Months, DayNumber
<1> QED
  BY <1>2, <1>3

\* The first day of a month follows the last day of the month before it.
LEMMA MonthFollows ==
  ASSUME NEW y \in Nat, NEW m \in 1 .. 12, NEW d \in Int
  PROVE  /\ m = 12 => DayNumber(y + 1, 1, d) = DayNumber(y, m, DaysInMonth(y, m)) + d
         /\ m # 12 => DayNumber(y, m + 1, d) = DayNumber(y, m, DaysInMonth(y, m)) + d
<1>1. y + 1 \in Nat /\ DaysBefore(y) \in Int
  BY YearLength
<1>2. DaysBefore(y + 1) = DaysBefore(y) + (IF IsLeap(y) THEN 366 ELSE 365)
  BY YearLength
<1>3. /\ Elapsed(y + 1)[1] = 0
      /\ Elapsed(y)[12] = IF IsLeap(y) THEN 335 ELSE 334
  BY <1>1, DaysBeforeMonth
<1>4. Elapsed(y)[m] \in Int /\ (m # 12 => Elapsed(y)[m + 1] = Elapsed(y)[m] + DaysInMonth(y, m))
  <2>1. m # 12 => m \in 1 .. 11
    OBVIOUS
  <2> QED
    BY <2>1, DaysBeforeMonth
<1>5. DaysInMonth(y, m) \in Int /\ (m = 12 => DaysInMonth(y, m) = 31)
  BY MonthLength
<1>6. m = 12 => DayNumber(y + 1, 1, d) = DayNumber(y, m, DaysInMonth(y, m)) + d
  BY <1>1, <1>2, <1>3, <1>5 DEF DayNumber
<1>7. m # 12 => DayNumber(y, m + 1, d) = DayNumber(y, m, DaysInMonth(y, m)) + d
  BY <1>1, <1>4, <1>5 DEF DayNumber
<1> QED
  BY <1>6, <1>7

LEMMA AddDaysIs ==
  ASSUME NEW y, NEW m, NEW d, IsDate(y, m, d), NEW n \in 0 .. 28
  PROVE  LET len == DaysInMonth(y, m)
         IN AddDays(<<y, m, d>>, n) =
              IF d + n <= len THEN <<y, m, d + n>>
              ELSE IF m = 12 THEN <<y + 1, 1, (d + n) - len>> ELSE <<y, m + 1, (d + n) - len>>
<1> DEFINE len == DaysInMonth(y, m)
<1>1. y \in Nat /\ m \in 1 .. 12 /\ d \in 1 .. len
  BY DEF IsDate
<1>2. len \in 28 .. 31
  BY <1>1, MonthLength
<1> HIDE DEF len
<1>3. (d + n) - len \in Int
  BY <1>1, <1>2
<1>4. <<y + 1, 1>> \o <<(d + n) - len>> = <<y + 1, 1, (d + n) - len>>
  BY <1>1, <1>3, Concat
<1>5. <<y, m + 1>> \o <<(d + n) - len>> = <<y, m + 1, (d + n) - len>>
  BY <1>1, <1>3, Concat
<1>6. AddDays(<<y, m, d>>, n) = IF d + n <= len THEN <<y, m, d + n>>
                                 ELSE NextMonth(y, m) \o <<(d + n) - len>>
  BY DEF AddDays, len
<1>7. NextMonth(y, m) = IF m = 12 THEN <<y + 1, 1>> ELSE <<y, m + 1>>
  BY DEF NextMonth
<1> QED
  BY <1>4, <1>5, <1>6, <1>7 DEF len

\* Adding days yields a day of the calendar, that many days later.
Reaches(y, m, d, n) ==
  \E z \in Nat, k \in 1 .. 12 : \E e \in 1 .. DaysInMonth(z, k) :
    /\ AddDays(<<y, m, d>>, n) = <<z, k, e>>
    /\ DayNumber(z, k, e) = DayNumber(y, m, d) + n
    /\ n > 0 => \/ z > y \/ (z = y /\ k > m) \/ (z = y /\ k = m /\ e > d)

LEMMA AddDaysReaches ==
  ASSUME NEW y, NEW m, NEW d, IsDate(y, m, d), NEW n \in 0 .. 28
  PROVE  Reaches(y, m, d, n)
<1> DEFINE len == DaysInMonth(y, m)
           f == (d + n) - len
<1>1. y \in Nat /\ m \in 1 .. 12 /\ d \in 1 .. len
  BY DEF IsDate
<1>2. len \in 28 .. 31
  BY <1>1, MonthLength
<1>3. /\ DaysBefore(y) \in Int /\ Elapsed(y)[m] \in Int
      /\ DayNumber(y, m, len) = (DaysBefore(y) + Elapsed(y)[m]) + len
      /\ DayNumber(y, m, d) = (DaysBefore(y) + Elapsed(y)[m]) + d
      /\ DayNumber(y, m, d + n) = (DaysBefore(y) + Elapsed(y)[m]) + (d + n)
  BY <1>1, <1>2, YearLength, DaysBeforeMonth DEF DayNumber
<1>4. CASE d + n <= len
  <2>1. AddDays(<<y, m, d>>, n) = <<y, m, d + n>>
    BY <1>4, AddDaysIs
  <2>2. d + n \in 1 .. len
    BY <1>1, <1>2, <1>4
  <2>3. DayNumber(y, m, d + n) = DayNumber(y, m, d) + n
    BY <1>1, <1>3
  <2> HIDE DEF len
  <2>4. n > 0 => d + n > d
    BY <1>1, <1>2
  <2> QED
    BY <1>1, <2>1, <2>2, <2>3, <2>4 DEF Reaches, len
<1>5. ASSUME ~(d + n <= len) PROVE Reaches(y, m, d, n)
  <2>1. f \in 1 .. 28
    BY <1>1, <1>2, <1>5
  <2>2. DayNumber(y, m, len) + f = DayNumber(y, m, d) + n
    BY <1>1, <1>2, <1>3
  <2>3. CASE m = 12
    <3>1. AddDays(<<y, m, d>>, n) = <<y + 1, 1, f>>
      BY <1>5, <2>3, AddDaysIs
    <3>2. y + 1 \in Nat /\ f \in 1 .. DaysInMonth(y + 1, 1)
      BY <1>1, <2>1, MonthLength
    <3>3. DayNumber(y + 1, 1, f) = DayNumber(y, m, d) + n
      BY <1>1, <2>1, <2>2, <2>3, MonthFollows
    <3>4. y + 1 > y
      BY <1>1
    <3> HIDE DEF f
    <3> QED
      BY <3>1, <3>2, <3>3, <3>4 DEF Reaches
  <2>4. CASE m # 12
    <3>1. AddDays(<<y, m, d>>, n) = <<y, m + 1, f>>
      BY <1>5, <2>4, AddDaysIs
    <3>2. m + 1 \in 1 .. 12 /\ m + 1 > m
      BY <1>1, <2>4
    <3>3. f \in 1 .. DaysInMonth(y, m + 1)
      BY <1>1, <2>1, <3>2, MonthLength
    <3>4. DayNumber(y, m + 1, f) = DayNumber(y, m, d) + n
      BY <1>1, <2>1, <2>2, <2>4, MonthFollows
    <3> HIDE DEF f
    <3> QED
      BY <1>1, <3>1, <3>2, <3>3, <3>4 DEF Reaches
  <2> QED
    BY <2>3, <2>4
<1> QED
  BY <1>4, <1>5

\* Nothing lies between a day and the day after it.
Tomorrow(y, m, d, z, k, e) ==
  /\ IsDate(z, k, e)
  /\ AddDays(<<y, m, d>>, 1) = <<z, k, e>>
  /\ \/ z = y /\ k = m /\ e = d + 1
     \/ z = y /\ k = m + 1 /\ e = 1 /\ d = DaysInMonth(y, m) /\ m # 12
     \/ z = y + 1 /\ k = 1 /\ e = 1 /\ d = 31 /\ m = 12 /\ DaysInMonth(y, m) = 31

LEMMA TomorrowExists ==
  ASSUME NEW y, NEW m, NEW d, IsDate(y, m, d)
  PROVE  \E z \in Nat, k \in 1 .. 12 : \E e \in 1 .. 31 : Tomorrow(y, m, d, z, k, e)
<1> DEFINE len == DaysInMonth(y, m)
<1>1. y \in Nat /\ m \in 1 .. 12 /\ d \in 1 .. len
  BY DEF IsDate
<1>2. len \in 28 .. 31 /\ (m = 12 => len = 31)
  BY <1>1, MonthLength
<1>3. AddDays(<<y, m, d>>, 1) =
        IF d + 1 <= len THEN <<y, m, d + 1>>
        ELSE IF m = 12 THEN <<y + 1, 1, (d + 1) - len>> ELSE <<y, m + 1, (d + 1) - len>>
  <2>1. 1 \in 0 .. 28
    OBVIOUS
  <2> QED
    BY <2>1, AddDaysIs
<1>4. CASE d + 1 <= len
  <2>1. d + 1 \in 1 .. len /\ d + 1 \in 1 .. 31
    BY <1>1, <1>2, <1>4
  <2>2. IsDate(y, m, d + 1)
    BY <1>1, <2>1 DEF IsDate
  <2>3. AddDays(<<y, m, d>>, 1) = <<y, m, d + 1>>
    BY <1>3, <1>4
  <2>4. Tomorrow(y, m, d, y, m, d + 1)
    BY <2>2, <2>3 DEF Tomorrow
  <2> QED
    BY <1>1, <2>1, <2>4
<1>5. ASSUME ~(d + 1 <= len), m = 12
      PROVE  \E z \in Nat, k \in 1 .. 12 : \E e \in 1 .. 31 : Tomorrow(y, m, d, z, k, e)
  <2>1. d = 31 /\ len = 31 /\ (d + 1) - len = 1
    BY <1>1, <1>2, <1>5
  <2>2. AddDays(<<y, m, d>>, 1) = <<y + 1, 1, 1>>
    BY <1>3, <1>5, <2>1
  <2>3. y + 1 \in Nat /\ 1 \in 1 .. DaysInMonth(y + 1, 1)
    BY <1>1, MonthLength
  <2>4. IsDate(y + 1, 1, 1)
    BY <2>3 DEF IsDate
  <2>5. Tomorrow(y, m, d, y + 1, 1, 1)
    BY <1>5, <2>1, <2>2, <2>4 DEF Tomorrow
  <2> QED
    BY <2>3, <2>5
<1>6. ASSUME ~(d + 1 <= len), m # 12
      PROVE  \E z \in Nat, k \in 1 .. 12 : \E e \in 1 .. 31 : Tomorrow(y, m, d, z, k, e)
  <2>1. d = len /\ (d + 1) - len = 1
    BY <1>1, <1>2, <1>6
  <2>2. AddDays(<<y, m, d>>, 1) = <<y, m + 1, 1>>
    BY <1>3, <1>6, <2>1
  <2>3. m + 1 \in 1 .. 12
    BY <1>1, <1>6
  <2>4. IsDate(y, m + 1, 1)
    BY <1>1, <2>3, MonthLength DEF IsDate
  <2>5. Tomorrow(y, m, d, y, m + 1, 1)
    BY <1>6, <2>1, <2>2, <2>4 DEF Tomorrow
  <2> QED
    BY <1>1, <2>3, <2>5
<1> QED
  BY <1>4, <1>5, <1>6

\* Days are added one after the other.
LEMMA AddDaysInTurn ==
  ASSUME NEW y, NEW m, NEW d, IsDate(y, m, d), NEW z, NEW k, NEW e,
         Tomorrow(y, m, d, z, k, e), NEW n \in 0 .. 7
  PROVE  AddDays(<<z, k, e>>, n) = AddDays(<<y, m, d>>, n + 1)
<1>1. y \in Nat /\ m \in 1 .. 12 /\ d \in 1 .. DaysInMonth(y, m)
  BY DEF IsDate
<1>2. DaysInMonth(y, m) \in 28 .. 31 /\ (m = 12 => DaysInMonth(y, m) = 31)
  BY <1>1, MonthLength
<1>3. z \in Nat /\ k \in 1 .. 12 /\ e \in 1 .. DaysInMonth(z, k) /\ IsDate(z, k, e)
  BY DEF Tomorrow, IsDate
<1>4. DaysInMonth(z, k) \in 28 .. 31
  BY <1>3, MonthLength
<1>5. AddDays(<<z, k, e>>, n) =
        IF e + n <= DaysInMonth(z, k) THEN <<z, k, e + n>>
        ELSE IF k = 12 THEN <<z + 1, 1, (e + n) - DaysInMonth(z, k)>>
             ELSE <<z, k + 1, (e + n) - DaysInMonth(z, k)>>
  <2>1. n \in 0 .. 28
    OBVIOUS
  <2> QED
    BY <1>3, <2>1, AddDaysIs
<1>6. AddDays(<<y, m, d>>, n + 1) =
        IF d + (n + 1) <= DaysInMonth(y, m) THEN <<y, m, d + (n + 1)>>
        ELSE IF m = 12 THEN <<y + 1, 1, (d + (n + 1)) - DaysInMonth(y, m)>>
             ELSE <<y, m + 1, (d + (n + 1)) - DaysInMonth(y, m)>>
  <2>1. n + 1 \in 0 .. 28
    OBVIOUS
  <2> QED
    BY <2>1, AddDaysIs
<1>7. CASE z = y /\ k = m /\ e = d + 1
  <2>1. e + n = d + (n + 1)
    BY <1>1, <1>2, <1>7
  <2> QED
    BY <1>5, <1>6, <1>7, <2>1
<1>8. CASE z = y /\ k = m + 1 /\ e = 1 /\ d = DaysInMonth(y, m) /\ m # 12
  <2>1. /\ e + n <= DaysInMonth(z, k) /\ ~(d + (n + 1) <= DaysInMonth(y, m))
        /\ (d + (n + 1)) - DaysInMonth(y, m) = e + n
    BY <1>1, <1>2, <1>4, <1>8
  <2> QED
    BY <1>5, <1>6, <1>8, <2>1
<1>9. CASE z = y + 1 /\ k = 1 /\ e = 1 /\ d = 31 /\ m = 12 /\ DaysInMonth(y, m) = 31
  <2>1. /\ e + n <= DaysInMonth(z, k) /\ ~(d + (n + 1) <= DaysInMonth(y, m))
        /\ (d + (n + 1)) - DaysInMonth(y, m) = e + n
    BY <1>1, <1>2, <1>4, <1>9
  <2> QED
    BY <1>5, <1>6, <1>9, <2>1
<1> QED
  BY <1>7, <1>8, <1>9 DEF Tomorrow

-----------------------------------------------------------------------------
(* The next date, frequency by frequency.                                  *)

LEMMA AfterIs ==
  ASSUME NEW a \in Int, NEW b \in Int, NEW c \in Int,
         NEW y \in Int, NEW m \in Int, NEW d \in Int, NEW past \in BOOLEAN
  PROVE  After(<<a, b, c>>, [date |-> <<y, m, d>>, past |-> past])
           <=> \/ a > y \/ (a = y /\ b > m) \/ (a = y /\ b = m /\ c > d)
               \/ (a = y /\ b = m /\ c = d /\ ~past)
<1> DEFINE from == [date |-> <<y, m, d>>, past |-> past]
<1>1. from.date = <<y, m, d>> /\ from.past = past
  OBVIOUS
<1> HIDE DEF from
<1>2. After(<<a, b, c>>, from) <=> (Later(<<a, b, c>>, from.date)
                                    \/ (<<a, b, c>> = from.date /\ ~from.past))
  BY Zenon DEF After
<1>3. Later(<<a, b, c>>, <<y, m, d>>)
        <=> a > y \/ (a = y /\ b > m) \/ (a = y /\ b = m /\ c > d)
  BY DEF Later
<1>4. <<a, b, c>> = <<y, m, d>> <=> a = y /\ b = m /\ c = d
  OBVIOUS
<1> QED
  BY <1>1, <1>2, <1>3, <1>4, Zenon DEF from

LEMMA AfterMidnight ==
  ASSUME NEW a \in Int, NEW b \in Int, NEW c \in Int,
         NEW y \in Int, NEW m \in Int, NEW d \in Int
  PROVE  After(<<a, b, c>>, [date |-> <<y, m, d>>, past |-> FALSE])
           <=> a > y \/ (a = y /\ b > m) \/ (a = y /\ b = m /\ c >= d)
<1> DEFINE past == FALSE
<1>1. past \in BOOLEAN
  OBVIOUS
<1>2. ~past
  OBVIOUS
<1> HIDE DEF past
<1>3. After(<<a, b, c>>, [date |-> <<y, m, d>>, past |-> past])
        <=> \/ a > y \/ (a = y /\ b > m) \/ (a = y /\ b = m /\ c > d)
            \/ (a = y /\ b = m /\ c = d /\ ~past)
  BY <1>1, AfterIs
<1>4. After(<<a, b, c>>, [date |-> <<y, m, d>>, past |-> past])
        <=> a > y \/ (a = y /\ b > m) \/ (a = y /\ b = m /\ c >= d)
  BY <1>2, <1>3
<1> QED
  BY <1>4 DEF past

LEMMA Weekly ==
  ASSUME NEW y, NEW m, NEW d, IsDate(y, m, d), NEW z, NEW k, NEW e,
         Tomorrow(y, m, d, z, k, e), NEW past \in BOOLEAN, NEW w \in 0 .. 6
  PROVE  LET next == NextWeekday([date |-> <<y, m, d>>, past |-> past], w)
         IN /\ WeekDay(next) = w
            /\ next = IF WeekDay(<<y, m, d>>) = w /\ ~past THEN <<y, m, d>>
                      ELSE NextWeekday([date |-> <<z, k, e>>, past |-> FALSE], w)
<1> DEFINE D == <<y, m, d>>
           T == <<z, k, e>>
           n == (w - WeekDay(D) + 7) % 7
           r == (w - WeekDay(T) + 7) % 7
<1>1. y \in Nat /\ m \in 1 .. 12 /\ d \in 1 .. DaysInMonth(y, m) /\ d \in 1 .. 31 /\ d \in Int
  BY MonthLength DEF IsDate
<1>2. z \in Nat /\ k \in 1 .. 12 /\ e \in 1 .. DaysInMonth(z, k) /\ e \in 1 .. 31 /\ e \in Int
  BY MonthLength DEF Tomorrow, IsDate
<1>3. /\ DayNumber(y, m, d) \in Int /\ DayNumber(z, k, e) \in Int
      /\ WeekDay(D) = (DayNumber(y, m, d) + 5) % 7
      /\ WeekDay(T) = (DayNumber(z, k, e) + 5) % 7
  BY <1>1, <1>2, WeekDayIs
<1>4. DayNumber(z, k, e) = DayNumber(y, m, d) + 1
  <2>1. Reaches(y, m, d, 1)
    BY AddDaysReaches
  <2>2. PICK a \in Nat, b \in 1 .. 12 : \E c \in 1 .. DaysInMonth(a, b) :
          /\ AddDays(<<y, m, d>>, 1) = <<a, b, c>> /\ DayNumber(a, b, c) = DayNumber(y, m, d) + 1
    BY <2>1 DEF Reaches
  <2>3. PICK c \in 1 .. DaysInMonth(a, b) :
          /\ AddDays(<<y, m, d>>, 1) = <<a, b, c>> /\ DayNumber(a, b, c) = DayNumber(y, m, d) + 1
    BY <2>2
  <2>4. a = z /\ b = k /\ c = e
    BY <2>3 DEF Tomorrow
  <2> QED
    BY <2>3, <2>4
<1>5. WeekDay(D) \in 0 .. 6 /\ WeekDay(T) \in 0 .. 6
  BY <1>3
<1>6. WeekDay(T) = (WeekDay(D) + 1) % 7
  BY <1>3, <1>4
<1>7. n \in 0 .. 6 /\ r \in 0 .. 6 /\ (n = 0 <=> WeekDay(D) = w)
      /\ r = (IF n = 0 THEN 6 ELSE n - 1)
  <2> DEFINE i == WeekDay(D)
             j == WeekDay(T)
  <2>1. i \in 0 .. 6 /\ j = (i + 1) % 7
    BY <1>5, <1>6
  <2> HIDE DEF i, j
  <2>2. (i = 6 /\ j = 0) \/ (i \in 0 .. 5 /\ j = i + 1)
    BY <2>1
  <2>3. /\ (w - i + 7) % 7 = (IF w >= i THEN w - i ELSE w - i + 7)
        /\ (w - j + 7) % 7 = (IF w >= j THEN w - j ELSE w - j + 7)
    BY <2>1, <2>2
  <2>4. n = (w - i + 7) % 7 /\ r = (w - j + 7) % 7
    BY DEF i, j
  <2> HIDE DEF n, r
  <2>5. n \in 0 .. 6 /\ r \in 0 .. 6 /\ (n = 0 <=> i = w) /\ r = (IF n = 0 THEN 6 ELSE n - 1)
    BY <2>1, <2>2, <2>3, <2>4
  <2> QED
    BY <2>5 DEF i
\* What adding one to seven days makes of D.
<1>8. ASSUME NEW q \in 0 .. 7
      PROVE  \E a \in Nat, b \in 1 .. 12 : \E c \in 1 .. DaysInMonth(a, b) :
               /\ AddDays(D, q) = <<a, b, c>>
               /\ WeekDay(AddDays(D, q)) = (WeekDay(D) + q) % 7
               /\ q > 0 => After(AddDays(D, q), [date |-> D, past |-> past])
  <2>1. q \in 0 .. 28
    OBVIOUS
  <2>2. Reaches(y, m, d, q)
    BY <2>1, AddDaysReaches
  <2>3. PICK a \in Nat, b \in 1 .. 12 : \E c \in 1 .. DaysInMonth(a, b) :
          /\ AddDays(D, q) = <<a, b, c>> /\ DayNumber(a, b, c) = DayNumber(y, m, d) + q
          /\ q > 0 => \/ a > y \/ (a = y /\ b > m) \/ (a = y /\ b = m /\ c > d)
    BY <2>2, Zenon DEF Reaches
  <2>4. PICK c \in 1 .. DaysInMonth(a, b) :
          /\ AddDays(D, q) = <<a, b, c>> /\ DayNumber(a, b, c) = DayNumber(y, m, d) + q
          /\ q > 0 => \/ a > y \/ (a = y /\ b > m) \/ (a = y /\ b = m /\ c > d)
    BY <2>3
  <2>5. c \in Int
    BY MonthLength
  <2>6. DayNumber(a, b, c) \in Int /\ WeekDay(<<a, b, c>>) = (DayNumber(a, b, c) + 5) % 7
    BY <2>5, WeekDayIs
  <2>7. WeekDay(<<a, b, c>>) = (WeekDay(D) + q) % 7
    <3>1. DayNumber(a, b, c) = DayNumber(y, m, d) + q
      BY <2>4
    <3> HIDE DEF D, T
    <3> QED
      BY <1>3, <2>6, <3>1
  <2>8. q > 0 => After(<<a, b, c>>, [date |-> D, past |-> past])
    BY <1>1, <2>4, <2>5, AfterIs
  <2>9. AddDays(D, q) = <<a, b, c>>
    BY <2>4
  <2> HIDE DEF D, T
  <2> QED
    BY <2>7, <2>8, <2>9
<1>9. AddDays(D, 0) = D
  <2>1. 0 \in 0 .. 28 /\ d + 0 = d /\ d <= DaysInMonth(y, m)
    BY <1>1, MonthLength
  <2> QED
    BY <2>1, AddDaysIs
<1>10. After(D, [date |-> D, past |-> past]) <=> ~past
  BY <1>1, AfterIs
<1>11. NextWeekday([date |-> D, past |-> past], w) = IF n > 0 \/ ~past THEN AddDays(D, n) ELSE AddDays(D, 7)
  <2>1. NextWeekday([date |-> D, past |-> past], w) =
          IF After(AddDays(D, n), [date |-> D, past |-> past]) THEN AddDays(D, n)
          ELSE AddDays(AddDays(D, n), 7)
    BY Zenon DEF NextWeekday
  <2> HIDE DEF D, T
  <2>2. n > 0 => After(AddDays(D, n), [date |-> D, past |-> past])
    <3>1. n \in 0 .. 7
      BY <1>7
    <3> HIDE DEF n
    <3> QED
      BY <3>1, <1>8
  <2>3. n = 0 => AddDays(D, n) = D
    BY <1>9
  <2> HIDE DEF n
  <2> QED
    BY <1>7, <1>10, <2>1, <2>2, <2>3
<1>12. NextWeekday([date |-> T, past |-> FALSE], w) = AddDays(T, r)
  <2>1. NextWeekday([date |-> T, past |-> FALSE], w) =
          IF After(AddDays(T, r), [date |-> T, past |-> FALSE]) THEN AddDays(T, r)
          ELSE AddDays(AddDays(T, r), 7)
    BY Zenon DEF NextWeekday
  <2>2. r \in 0 .. 28 /\ IsDate(z, k, e)
    BY <1>7 DEF Tomorrow
  <2>3. Reaches(z, k, e, r)
    <3> HIDE DEF r
    <3> QED
      BY <2>2, AddDaysReaches
  <2>4. PICK a \in Nat, b \in 1 .. 12 : \E c \in 1 .. DaysInMonth(a, b) :
          /\ AddDays(T, r) = <<a, b, c>>
          /\ r > 0 => \/ a > z \/ (a = z /\ b > k) \/ (a = z /\ b = k /\ c > e)
    BY <2>3, Zenon DEF Reaches
  <2>5. PICK c \in 1 .. DaysInMonth(a, b) :
          /\ AddDays(T, r) = <<a, b, c>>
          /\ r > 0 => \/ a > z \/ (a = z /\ b > k) \/ (a = z /\ b = k /\ c > e)
    BY <2>4
  <2>6. r = 0 => AddDays(T, r) = T
    <3>1. 0 \in 0 .. 28 /\ e + 0 = e /\ e <= DaysInMonth(z, k) /\ IsDate(z, k, e)
      BY <1>2, <2>2, MonthLength
    <3>2. AddDays(T, 0) = T
      BY <3>1, AddDaysIs
    <3> QED
      BY <3>2
  <2>7. c \in Int
    BY MonthLength
  <2>8. r > 0 \/ r = 0
    BY <1>7
  <2>9. After(<<a, b, c>>, [date |-> T, past |-> FALSE])
    <3>1. r = 0 => a = z /\ b = k /\ c = e
      BY <2>5, <2>6
    <3> HIDE DEF r
    <3>2. \/ a > z \/ (a = z /\ b > k) \/ (a = z /\ b = k /\ c > e)
          \/ (a = z /\ b = k /\ c = e /\ ~FALSE)
      BY <2>5, <2>8, <3>1
    <3>3. a \in Int /\ b \in Int /\ c \in Int /\ z \in Int /\ k \in Int /\ e \in Int
      BY <1>2, <2>7
    <3> QED
      BY <3>2, <3>3, AfterIs
  <2> HIDE DEF T, r
  <2> QED
    BY <2>1, <2>5, <2>9
<1>13. AddDays(T, r) = AddDays(D, r + 1)
  <2>1. r \in 0 .. 7
    BY <1>7
  <2> HIDE DEF r
  <2> QED
    BY <2>1, AddDaysInTurn
<1>14. /\ n \in 0 .. 7 /\ 7 \in 0 .. 7
       /\ (WeekDay(D) + n) % 7 = w /\ (n = 0 => (WeekDay(D) + 7) % 7 = w)
  <2> DEFINE i == WeekDay(D)
  <2>1. i \in 0 .. 6
    BY <1>5
  <2> HIDE DEF i
  <2>2. (w - i + 7) % 7 = (IF w >= i THEN w - i ELSE w - i + 7)
    BY <2>1
  <2>3. (i + ((w - i + 7) % 7)) % 7 = w /\ (w = i => (i + 7) % 7 = w)
    BY <2>1, <2>2
  <2>4. n = (w - i + 7) % 7
    BY DEF i
  <2>5. (i + n) % 7 = w
    BY <2>3, <2>4
  <2>6. n = 0 => i = w
    BY <1>7 DEF i
  <2>7. n \in 0 .. 7 /\ 7 \in 0 .. 7
    BY <1>7
  <2> HIDE DEF n
  <2>8. n = 0 => (i + 7) % 7 = w
    BY <2>3, <2>6
  <2> QED
    BY <2>5, <2>7, <2>8 DEF i
<1> HIDE DEF n, r, D, T
<1>15. WeekDay(AddDays(D, n)) = w /\ (n = 0 => WeekDay(AddDays(D, 7)) = w)
  <2>1. WeekDay(AddDays(D, n)) = (WeekDay(D) + n) % 7
    BY <1>8, <1>14
  <2>2. WeekDay(AddDays(D, 7)) = (WeekDay(D) + 7) % 7
    BY <1>8, <1>14
  <2> QED
    BY <1>14, <2>1, <2>2
<1>16. WeekDay(NextWeekday([date |-> D, past |-> past], w)) = w
  BY <1>7, <1>11, <1>15
<1>17. NextWeekday([date |-> D, past |-> past], w) =
         IF WeekDay(D) = w /\ ~past THEN D ELSE NextWeekday([date |-> T, past |-> FALSE], w)
  <2>1. n > 0 => r + 1 = n
    BY <1>7
  <2>2. n = 0 => r + 1 = 7
    BY <1>7
  <2>3. n > 0 \/ n = 0
    BY <1>7
  <2>4. CASE n > 0
    BY <1>7, <1>11, <1>12, <1>13, <2>1, <2>4
  <2>5. CASE n = 0
    BY <1>7, <1>9, <1>11, <1>12, <1>13, <2>2, <2>5
  <2> QED
    BY <2>3, <2>4, <2>5
<1> QED
  BY <1>16, <1>17 DEF D, T

LEMMA ClampedIs ==
  ASSUME NEW y \in Nat, NEW m \in 1 .. 12, NEW day \in 1 .. 31
  PROVE  /\ Clamped(y, m, day) = <<y, m, Least(day, DaysInMonth(y, m))>>
         /\ Least(day, DaysInMonth(y, m)) \in 1 .. DaysInMonth(y, m)
         /\ Least(day, DaysInMonth(y, m)) \in Int
BY MonthLength DEF Clamped, Least

MonthlyFirst(D, T, past, day) ==
  LET next == NextMonthDay([date |-> D, past |-> past], day)
  IN /\ next = Clamped(next[1], next[2], day)
     /\ next = IF D = Clamped(D[1], D[2], day) /\ ~past THEN D
               ELSE NextMonthDay([date |-> T, past |-> FALSE], day)

LEMMA Monthly ==
  ASSUME NEW y, NEW m, NEW d, IsDate(y, m, d), NEW z, NEW k, NEW e,
         Tomorrow(y, m, d, z, k, e), NEW past \in BOOLEAN, NEW day \in 1 .. 31
  PROVE  MonthlyFirst(<<y, m, d>>, <<z, k, e>>, past, day)
<1> DEFINE len == DaysInMonth(y, m)
           c == Least(day, len)
           ny == IF m = 12 THEN y + 1 ELSE y
           nm == IF m = 12 THEN 1 ELSE m + 1
           this == Clamped(y, m, day)
           following == Clamped(ny, nm, day)
           From == [date |-> <<y, m, d>>, past |-> past]
           Then == [date |-> <<z, k, e>>, past |-> FALSE]
<1>1. y \in Nat /\ m \in 1 .. 12 /\ d \in 1 .. len /\ len \in 28 .. 31 /\ d \in Int
  BY MonthLength DEF IsDate
<1>2. z \in Nat /\ k \in 1 .. 12 /\ e \in 1 .. DaysInMonth(z, k) /\ e \in Int
  BY MonthLength DEF Tomorrow, IsDate
<1>3. ny \in Nat /\ nm \in 1 .. 12
  BY <1>1
<1>4. this = <<y, m, c>> /\ c \in 1 .. len /\ c \in Int
  BY <1>1, ClampedIs
<1>5. \E f \in 1 .. 31 : following = <<ny, nm, f>>
  <2>1. /\ following = <<ny, nm, Least(day, DaysInMonth(ny, nm))>>
        /\ Least(day, DaysInMonth(ny, nm)) \in 1 .. DaysInMonth(ny, nm)
    BY <1>3, ClampedIs
  <2>2. DaysInMonth(ny, nm) \in 28 .. 31
    BY <1>3, MonthLength
  <2>3. Least(day, DaysInMonth(ny, nm)) \in 1 .. 31
    BY <2>1, <2>2
  <2> QED
    BY <2>1, <2>3, Zenon
<1>6. NextMonthDay(From, day) = IF After(this, From) THEN this ELSE following
  <2>1. NextMonth(y, m) = <<ny, nm>>
    BY DEF NextMonth
  <2>2. NextMonth(y, m)[1] = ny /\ NextMonth(y, m)[2] = nm
    <3> HIDE DEF ny, nm
    <3> QED
      BY <2>1
  <2>3. From.date = <<y, m, d>> /\ From.date[1] = y /\ From.date[2] = m
    OBVIOUS
  <2>4. NextMonthDay(From, day) =
          IF After(Clamped(From.date[1], From.date[2], day), From)
          THEN Clamped(From.date[1], From.date[2], day)
          ELSE Clamped(NextMonth(From.date[1], From.date[2])[1],
                       NextMonth(From.date[1], From.date[2])[2], day)
    BY Zenon DEF NextMonthDay
  <2> HIDE DEF From, ny, nm
  <2> QED
    BY <2>2, <2>3, <2>4
<1>7. After(this, From) <=> c > d \/ (c = d /\ ~past)
  <2>1. After(<<y, m, c>>, From) <=> \/ y > y \/ (y = y /\ m > m) \/ (y = y /\ m = m /\ c > d)
                                     \/ (y = y /\ m = m /\ c = d /\ ~past)
    <3>1. y \in Int /\ m \in Int /\ c \in Int /\ d \in Int
      BY <1>1, <1>4
    <3> HIDE DEF c
    <3> QED
      BY <3>1, AfterIs
  <2> HIDE DEF From, c, this
  <2> QED
    BY <1>1, <1>4, <2>1
<1>8. NextMonthDay(Then, day) =
        IF After(Clamped(z, k, day), Then) THEN Clamped(z, k, day)
        ELSE Clamped(NextMonth(z, k)[1], NextMonth(z, k)[2], day)
  <2>1. Then.date = <<z, k, e>> /\ Then.date[1] = z /\ Then.date[2] = k
    OBVIOUS
  <2>2. NextMonthDay(Then, day) =
          IF After(Clamped(Then.date[1], Then.date[2], day), Then)
          THEN Clamped(Then.date[1], Then.date[2], day)
          ELSE Clamped(NextMonth(Then.date[1], Then.date[2])[1],
                       NextMonth(Then.date[1], Then.date[2])[2], day)
    BY Zenon DEF NextMonthDay
  <2> HIDE DEF Then
  <2> QED
    BY <2>1, <2>2
<1>9. <<y, m, d>> = this <=> d = c
  <2> HIDE DEF c, this
  <2> QED
    BY <1>4
<1>10. d < len => z = y /\ k = m /\ e = d + 1
  BY <1>1 DEF Tomorrow
<1>11. d = len => z = ny /\ k = nm /\ e = 1
  <2>1. ~(z = y /\ k = m /\ e = d + 1 /\ d = len)
    BY <1>1, <1>2
  <2> QED
    BY <1>1, <2>1 DEF Tomorrow
\* Today's month bills neither today nor later: the following one does.
<1>12. ASSUME d < len
      PROVE  NextMonthDay(From, day) = IF <<y, m, d>> = this /\ ~past THEN <<y, m, d>>
                                       ELSE NextMonthDay(Then, day)
  <2>1. z = y /\ k = m /\ e = d + 1
    BY <1>10, <1>12
  <2>2. After(this, Then) <=> c > d
    <3>1. After(<<y, m, c>>, Then) <=> y > z \/ (y = z /\ m > k) \/ (y = z /\ m = k /\ c >= e)
      <4>1. y \in Int /\ m \in Int /\ c \in Int /\ z \in Int /\ k \in Int /\ e \in Int
        BY <1>1, <1>2, <1>4
      <4> HIDE DEF c
      <4> QED
        BY <4>1, AfterMidnight
    <3> HIDE DEF Then, c, this
    <3> QED
      BY <1>1, <1>2, <1>4, <2>1, <3>1
  <2>3. NextMonthDay(Then, day) = IF c > d THEN this ELSE following
    <3>1. NextMonth(y, m) = <<ny, nm>>
      BY DEF NextMonth
    <3>2. NextMonth(y, m)[1] = ny /\ NextMonth(y, m)[2] = nm
      <4> HIDE DEF ny, nm
      <4> QED
        BY <3>1
    <3>3. Clamped(z, k, day) = this
      BY <2>1
    <3>4. NextMonth(z, k)[1] = ny /\ NextMonth(z, k)[2] = nm
      BY <2>1, <3>2
    <3> HIDE DEF Then, c, this, ny, nm
    <3> QED
      BY <1>8, <2>2, <3>3, <3>4
  <2> HIDE DEF From, Then, c, this, following
  <2>4. NextMonthDay(From, day) = IF <<y, m, d>> = this /\ ~past THEN <<y, m, d>>
                                  ELSE NextMonthDay(Then, day)
    <3>1. CASE d = c /\ ~past
      BY <1>6, <1>7, <1>9, <3>1
    <3>2. CASE c > d
      <4>1. d # c
        BY <1>1, <1>4, <3>2
      <4> QED
        BY <1>6, <1>7, <1>9, <2>3, <3>2, <4>1
    <3>3. CASE ~(c > d) /\ ~(d = c /\ ~past)
      BY <1>6, <1>7, <1>9, <2>3, <3>3
    <3> QED
      BY <3>1, <3>2, <3>3
  <2> QED
    BY <2>4
<1>13. ASSUME d = len
      PROVE  NextMonthDay(From, day) = IF <<y, m, d>> = this /\ ~past THEN <<y, m, d>>
                                       ELSE NextMonthDay(Then, day)
  <2>1. z = ny /\ k = nm /\ e = 1
    BY <1>11, <1>13
  <2>2. PICK f \in 1 .. 31 : following = <<ny, nm, f>>
    BY <1>5
  <2>3. Clamped(z, k, day) = following
    BY <2>1
  <2>4. After(following, Then)
    <3>1. After(<<z, k, f>>, Then) <=> z > z \/ (z = z /\ k > k) \/ (z = z /\ k = k /\ f >= e)
      <4>1. f \in Int /\ z \in Int /\ k \in Int /\ e \in Int
        BY <1>2
      <4> QED
        BY <4>1, AfterMidnight
    <3>2. f >= e
      BY <2>1
    <3>3. following = <<z, k, f>>
      BY <2>1, <2>2
    <3> HIDE DEF Then, following
    <3> QED
      BY <3>1, <3>2, <3>3
  <2> HIDE DEF From, Then, c, this, following
  <2>5. NextMonthDay(Then, day) = following
    BY <1>8, <2>3, <2>4
  <2>6. ~(c > d)
    BY <1>1, <1>4, <1>13
  <2>7. NextMonthDay(From, day) = IF <<y, m, d>> = this /\ ~past THEN <<y, m, d>>
                                  ELSE NextMonthDay(Then, day)
    <3>1. CASE d = c /\ ~past
      BY <1>6, <1>7, <1>9, <3>1
    <3>2. CASE ~(d = c /\ ~past)
      BY <1>6, <1>7, <1>9, <2>5, <2>6, <3>2
    <3> QED
      BY <3>1, <3>2
  <2> QED
    BY <2>7
<1>14. d < len \/ d = len
  BY <1>1
<1>15. NextMonthDay(From, day) = Clamped(NextMonthDay(From, day)[1], NextMonthDay(From, day)[2], day)
  <2>1. this[1] = y /\ this[2] = m
    BY <1>4
  <2>2. following[1] = ny /\ following[2] = nm
    <3> HIDE DEF ny, nm, following
    <3> QED
      BY <1>5
  <2>3. this = Clamped(this[1], this[2], day)
    BY <2>1
  <2>4. following = Clamped(following[1], following[2], day)
    BY <2>2
  <2>5. NextMonthDay(From, day) = this \/ NextMonthDay(From, day) = following
    BY <1>6
  <2> HIDE DEF this, following, From
  <2> QED
    BY <2>3, <2>4, <2>5
<1>16. <<y, m, d>>[1] = y /\ <<y, m, d>>[2] = m
  OBVIOUS
<1> QED
  BY <1>12, <1>13, <1>14, <1>15, <1>16, Zenon DEF MonthlyFirst

YearlyFirst(D, T, past, month, day) ==
  LET next == NextYearDay([date |-> D, past |-> past], month, day)
  IN /\ next = Clamped(next[1], month, day)
     /\ next = IF D = Clamped(D[1], month, day) /\ ~past THEN D
               ELSE NextYearDay([date |-> T, past |-> FALSE], month, day)

LEMMA Yearly ==
  ASSUME NEW y, NEW m, NEW d, IsDate(y, m, d), NEW z, NEW k, NEW e,
         Tomorrow(y, m, d, z, k, e), NEW past \in BOOLEAN, NEW month \in 1 .. 12, NEW day \in 1 .. 31
  PROVE  YearlyFirst(<<y, m, d>>, <<z, k, e>>, past, month, day)
<1> DEFINE this == Clamped(y, month, day)
           following == Clamped(y + 1, month, day)
           c == Least(day, DaysInMonth(y, month))
           f == Least(day, DaysInMonth(y + 1, month))
           From == [date |-> <<y, m, d>>, past |-> past]
           Then == [date |-> <<z, k, e>>, past |-> FALSE]
<1>1. y \in Nat /\ m \in 1 .. 12 /\ d \in 1 .. DaysInMonth(y, m) /\ d \in Int /\ y + 1 \in Nat
  BY MonthLength DEF IsDate
<1>2. z \in Nat /\ k \in 1 .. 12 /\ e \in 1 .. DaysInMonth(z, k) /\ e \in Int
  BY MonthLength DEF Tomorrow, IsDate
<1>3. this = <<y, month, c>> /\ c \in 1 .. DaysInMonth(y, month) /\ c \in Int
  BY <1>1, ClampedIs
<1>4. following = <<y + 1, month, f>> /\ f \in Int /\ f >= 1
  <2>1. following = <<y + 1, month, f>> /\ f \in 1 .. DaysInMonth(y + 1, month) /\ f \in Int
    BY <1>1, ClampedIs
  <2>2. DaysInMonth(y + 1, month) \in 28 .. 31
    BY <1>1, MonthLength
  <2> QED
    BY <2>1, <2>2
<1>5. NextYearDay(From, month, day) = IF After(this, From) THEN this ELSE following
  <2>1. From.date[1] = y
    OBVIOUS
  <2>2. NextYearDay(From, month, day) =
          IF After(Clamped(From.date[1], month, day), From) THEN Clamped(From.date[1], month, day)
          ELSE Clamped(From.date[1] + 1, month, day)
    BY Zenon DEF NextYearDay
  <2> HIDE DEF From
  <2> QED
    BY <2>1, <2>2
<1>6. NextYearDay(Then, month, day) =
        IF After(Clamped(z, month, day), Then) THEN Clamped(z, month, day)
        ELSE Clamped(z + 1, month, day)
  <2>1. Then.date[1] = z
    OBVIOUS
  <2>2. NextYearDay(Then, month, day) =
          IF After(Clamped(Then.date[1], month, day), Then) THEN Clamped(Then.date[1], month, day)
          ELSE Clamped(Then.date[1] + 1, month, day)
    BY Zenon DEF NextYearDay
  <2> HIDE DEF Then
  <2> QED
    BY <2>1, <2>2
<1>7. After(this, From) <=> month > m \/ (month = m /\ c > d) \/ (month = m /\ c = d /\ ~past)
  <2>1. After(<<y, month, c>>, From)
          <=> \/ y > y \/ (y = y /\ month > m) \/ (y = y /\ month = m /\ c > d)
              \/ (y = y /\ month = m /\ c = d /\ ~past)
    <3>1. y \in Int /\ m \in Int /\ month \in Int /\ c \in Int /\ d \in Int
      BY <1>1, <1>3
    <3> HIDE DEF c
    <3> QED
      BY <3>1, AfterIs
  <2> HIDE DEF From, c, this
  <2> QED
    BY <1>1, <1>3, <2>1
<1>8. <<y, m, d>> = this <=> month = m /\ d = c
  <2> HIDE DEF c, this
  <2> QED
    BY <1>3
<1>9. ASSUME z = y
      PROVE  NextYearDay(From, month, day) = IF <<y, m, d>> = this /\ ~past THEN <<y, m, d>>
                                             ELSE NextYearDay(Then, month, day)
  <2>1. After(this, Then) <=> month > k \/ (month = k /\ c >= e)
    <3>1. After(<<y, month, c>>, Then)
            <=> y > z \/ (y = z /\ month > k) \/ (y = z /\ month = k /\ c >= e)
      <4>1. y \in Int /\ month \in Int /\ c \in Int /\ z \in Int /\ k \in Int /\ e \in Int
        BY <1>1, <1>2, <1>3
      <4> HIDE DEF c
      <4> QED
        BY <4>1, AfterMidnight
    <3> HIDE DEF Then, c, this
    <3> QED
      BY <1>1, <1>3, <1>9, <3>1
  <2>2. After(this, Then) <=> month > m \/ (month = m /\ c > d)
    <3>1. CASE k = m /\ e = d + 1
      <4> HIDE DEF c, this, Then
      <4> QED
        BY <1>1, <1>3, <2>1, <3>1
    <3>2. CASE k = m + 1 /\ e = 1 /\ d = DaysInMonth(y, m)
      <4>1. month = m => ~(c > d)
        BY <1>1, <1>3, <3>2, MonthLength
      <4>2. c >= 1
        BY <1>1, <1>3, MonthLength
      <4> HIDE DEF c, this, Then
      <4> QED
        BY <1>1, <1>3, <2>1, <3>2, <4>1, <4>2
    <3> QED
      BY <1>1, <1>9, <3>1, <3>2 DEF Tomorrow
  <2>3. NextYearDay(Then, month, day) = IF After(this, Then) THEN this ELSE following
    BY <1>6, <1>9
  <2> HIDE DEF From, Then, c, this, following
  <2>4. CASE month = m /\ d = c /\ ~past
    BY <1>5, <1>7, <1>8, <2>4
  <2>5. CASE ~(month = m /\ d = c /\ ~past)
    BY <1>5, <1>7, <1>8, <2>2, <2>3, <2>5
  <2> QED
    BY <2>4, <2>5
<1>10. ASSUME z = y + 1
       PROVE  NextYearDay(From, month, day) = IF <<y, m, d>> = this /\ ~past THEN <<y, m, d>>
                                              ELSE NextYearDay(Then, month, day)
  <2>1. k = 1 /\ e = 1 /\ d = 31 /\ m = 12
    BY <1>1, <1>10 DEF Tomorrow
  <2>2. After(following, Then)
    <3>1. After(<<z, month, f>>, Then)
            <=> z > z \/ (z = z /\ month > k) \/ (z = z /\ month = k /\ f >= e)
      <4>1. month \in Int /\ f \in Int /\ z \in Int /\ k \in Int /\ e \in Int
        BY <1>2, <1>4
      <4> HIDE DEF f
      <4> QED
        BY <4>1, AfterMidnight
    <3>2. following = <<z, month, f>>
      BY <1>4, <1>10
    <3>3. month > 1 \/ month = 1
      OBVIOUS
    <3> HIDE DEF Then, following, f
    <3> QED
      BY <1>4, <2>1, <3>1, <3>2, <3>3
  <2>3. NextYearDay(Then, month, day) = following
    <3>1. Clamped(z, month, day) = following
      BY <1>10
    <3> HIDE DEF Then, following
    <3> QED
      BY <1>6, <2>2, <3>1
  <2>4. ~(month > m) /\ (month = m => ~(c > d))
    BY <1>1, <1>3, <2>1, MonthLength
  <2> HIDE DEF From, Then, c, this, following
  <2>5. CASE month = m /\ d = c /\ ~past
    BY <1>5, <1>7, <1>8, <2>5
  <2>6. CASE ~(month = m /\ d = c /\ ~past)
    BY <1>5, <1>7, <1>8, <2>3, <2>4, <2>6
  <2> QED
    BY <2>5, <2>6
<1>11. z = y \/ z = y + 1
  BY DEF Tomorrow
<1>12. NextYearDay(From, month, day) = Clamped(NextYearDay(From, month, day)[1], month, day)
  <2>1. this[1] = y /\ following[1] = y + 1
    BY <1>3, <1>4
  <2>2. this = Clamped(this[1], month, day) /\ following = Clamped(following[1], month, day)
    BY <2>1
  <2>3. NextYearDay(From, month, day) = this \/ NextYearDay(From, month, day) = following
    BY <1>5
  <2> HIDE DEF this, following, From
  <2> QED
    BY <2>2, <2>3
<1>13. <<y, m, d>>[1] = y
  OBVIOUS
<1> QED
  BY <1>9, <1>10, <1>11, <1>12, <1>13, Zenon DEF YearlyFirst

LEMMA Daily ==
  ASSUME NEW y, NEW m, NEW d, IsDate(y, m, d), NEW z, NEW k, NEW e,
         Tomorrow(y, m, d, z, k, e), NEW past \in BOOLEAN
  PROVE  /\ After(<<y, m, d>>, [date |-> <<y, m, d>>, past |-> past]) <=> ~past
         /\ After(<<z, k, e>>, [date |-> <<z, k, e>>, past |-> FALSE])
<1>1. /\ y \in Int /\ m \in Int /\ d \in Int
  BY MonthLength DEF IsDate
<1>2. /\ z \in Int /\ k \in Int /\ e \in Int
  BY MonthLength DEF Tomorrow, IsDate
<1>3. After(<<y, m, d>>, [date |-> <<y, m, d>>, past |-> past]) <=> ~past
  BY <1>1, AfterIs
<1>4. After(<<z, k, e>>, [date |-> <<z, k, e>>, past |-> FALSE])
  BY <1>2, AfterMidnight
<1> QED
  BY <1>3, <1>4

LEMMA ScheduleFields ==
  ASSUME NEW s \in Schedule
  PROVE  \/ s.frequency = "DAILY"
         \/ s.frequency = "WEEKLY" /\ s.dayOfWeek \in 0 .. 6
         \/ s.frequency = "MONTHLY" /\ s.dayOfMonth \in 1 .. 31
         \/ s.frequency = "YEARLY" /\ s.monthOfYear \in 1 .. 12 /\ s.dayOfMonth \in 1 .. 31
BY DEF Schedule

\* From a day and half of it on: the date a schedule yields is one it names, and the first.
Correct(s, D, T, past) ==
  LET next == CalculateNextBillingAt(s, [date |-> D, past |-> past])
  IN /\ Bills(s, next)
     /\ next = IF Bills(s, D) /\ ~past THEN D
               ELSE CalculateNextBillingAt(s, [date |-> T, past |-> FALSE])

LEMMA CalendarSound ==
  ASSUME NEW s \in Schedule, NEW y, NEW m, NEW d, IsDate(y, m, d), NEW z, NEW k, NEW e,
         Tomorrow(y, m, d, z, k, e), NEW past \in BOOLEAN
  PROVE  Correct(s, <<y, m, d>>, <<z, k, e>>, past)
<1> DEFINE D == <<y, m, d>>
           T == <<z, k, e>>
           From == [date |-> D, past |-> past]
           Then == [date |-> T, past |-> FALSE]
<1>1. From.date = D /\ Then.date = T
  OBVIOUS
<1>2. D[1] = y /\ D[2] = m
  OBVIOUS
<1>3. CASE s.frequency = "DAILY"
  <2>1. \A from : CalculateNextBillingAt(s, from) =
          IF After(from.date, from) THEN from.date ELSE AddDays(from.date, 1)
    BY <1>3 DEF CalculateNextBillingAt
  <2>2. \A date : Bills(s, date)
    BY <1>3 DEF Bills
  <2>3. (After(D, From) <=> ~past) /\ After(T, Then)
    BY Daily
  <2>4. AddDays(D, 1) = T
    BY DEF Tomorrow
  <2> HIDE DEF From, Then, D, T
  <2>5. CalculateNextBillingAt(s, From) = IF ~past THEN D ELSE T
    BY <1>1, <2>1, <2>3, <2>4
  <2>6. CalculateNextBillingAt(s, Then) = T
    BY <1>1, <2>1, <2>3
  <2> QED
    BY <2>2, <2>5, <2>6 DEF Correct, From, Then, D, T
<1>4. CASE s.frequency = "WEEKLY" /\ s.dayOfWeek \in 0 .. 6
  <2>1. \A from : CalculateNextBillingAt(s, from) = NextWeekday(from, s.dayOfWeek)
    BY <1>4 DEF CalculateNextBillingAt
  <2>2. \A date : Bills(s, date) <=> WeekDay(date) = s.dayOfWeek
    BY <1>4 DEF Bills
  <2>3. /\ WeekDay(NextWeekday(From, s.dayOfWeek)) = s.dayOfWeek
        /\ NextWeekday(From, s.dayOfWeek) =
             IF WeekDay(D) = s.dayOfWeek /\ ~past THEN D ELSE NextWeekday(Then, s.dayOfWeek)
    BY <1>4, Weekly
  <2> HIDE DEF From, Then, D, T
  <2> QED
    BY <2>1, <2>2, <2>3 DEF Correct, From, Then, D, T
<1>5. CASE s.frequency = "MONTHLY" /\ s.dayOfMonth \in 1 .. 31
  <2>1. \A from : CalculateNextBillingAt(s, from) = NextMonthDay(from, s.dayOfMonth)
    BY <1>5 DEF CalculateNextBillingAt
  <2>2. \A date : Bills(s, date) <=> date = Clamped(date[1], date[2], s.dayOfMonth)
    BY <1>5 DEF Bills
  <2>3. MonthlyFirst(D, T, past, s.dayOfMonth)
    BY <1>5, Monthly
  <2> HIDE DEF From, Then, D, T
  <2> DEFINE next == NextMonthDay(From, s.dayOfMonth)
             later == NextMonthDay(Then, s.dayOfMonth)
  <2>4. /\ next = Clamped(next[1], next[2], s.dayOfMonth)
        /\ next = IF D = Clamped(D[1], D[2], s.dayOfMonth) /\ ~past THEN D ELSE later
    BY <2>3, Zenon DEF MonthlyFirst, From, Then
  <2>5. CalculateNextBillingAt(s, From) = next /\ CalculateNextBillingAt(s, Then) = later
    BY <2>1
  <2> HIDE DEF next, later
  <2>6. Bills(s, next) /\ (Bills(s, D) <=> D = Clamped(D[1], D[2], s.dayOfMonth))
    BY <2>2, <2>4
  <2> QED
    BY <2>4, <2>5, <2>6, Zenon DEF Correct, From, Then, D, T
<1>6. CASE s.frequency = "YEARLY" /\ s.monthOfYear \in 1 .. 12 /\ s.dayOfMonth \in 1 .. 31
  <2>1. \A from : CalculateNextBillingAt(s, from) = NextYearDay(from, s.monthOfYear, s.dayOfMonth)
    BY <1>6 DEF CalculateNextBillingAt
  <2>2. \A date : Bills(s, date) <=> date = Clamped(date[1], s.monthOfYear, s.dayOfMonth)
    BY <1>6 DEF Bills
  <2>3. YearlyFirst(D, T, past, s.monthOfYear, s.dayOfMonth)
    BY <1>6, Yearly
  <2> HIDE DEF From, Then, D, T
  <2> DEFINE next == NextYearDay(From, s.monthOfYear, s.dayOfMonth)
             later == NextYearDay(Then, s.monthOfYear, s.dayOfMonth)
  <2>4. /\ next = Clamped(next[1], s.monthOfYear, s.dayOfMonth)
        /\ next = IF D = Clamped(D[1], s.monthOfYear, s.dayOfMonth) /\ ~past THEN D ELSE later
    BY <2>3, Zenon DEF YearlyFirst, From, Then
  <2>5. CalculateNextBillingAt(s, From) = next /\ CalculateNextBillingAt(s, Then) = later
    BY <2>1
  <2> HIDE DEF next, later
  <2>6. Bills(s, next) /\ (Bills(s, D) <=> D = Clamped(D[1], s.monthOfYear, s.dayOfMonth))
    BY <2>2, <2>4
  <2> QED
    BY <2>4, <2>5, <2>6, Zenon DEF Correct, From, Then, D, T
<1> QED
  BY <1>3, <1>4, <1>5, <1>6, ScheduleFields

-----------------------------------------------------------------------------
(* The moment is one of the calendar, and the schedule one a sender can    *)
(* choose: of these two the date that comes next is the first.             *)

MomentOf(y, m, d, past) == moment = [date |-> <<y, m, d>>, past |-> past]

CalendarInv ==
  /\ schedule \in Schedule
  /\ \E y \in Nat, m \in 1 .. 12 : \E d \in 1 .. DaysInMonth(y, m), past \in BOOLEAN :
       MomentOf(y, m, d, past)

LEMMA CalendarInvHolds == CalendarSpec => []CalendarInv
<1>1. CalendarInit => CalendarInv
  <2> SUFFICES ASSUME CalendarInit PROVE CalendarInv
    OBVIOUS
  <2>1. PICK y \in FirstYear .. LastYear, m \in 1 .. 12 :
          \E d \in 1 .. DaysInMonth(y, m) : moment = Midnight(<<y, m, d>>)
    BY DEF CalendarInit
  <2>2. PICK d \in 1 .. DaysInMonth(y, m) : moment = Midnight(<<y, m, d>>)
    BY <2>1
  <2>3. MomentOf(y, m, d, FALSE)
    BY <2>2 DEF MomentOf, Midnight
  <2>4. y \in Nat /\ FALSE \in BOOLEAN
    BY CalendarAssumption
  <2>5. schedule \in Schedule
    BY CalendarAssumption DEF CalendarInit
  <2> QED
    BY <2>3, <2>4, <2>5 DEF CalendarInv
<1>2. CalendarInv /\ [TimePasses]_calendarVars => CalendarInv'
  <2> SUFFICES ASSUME CalendarInv, [TimePasses]_calendarVars PROVE CalendarInv'
    OBVIOUS
  <2>1. CASE UNCHANGED calendarVars
    BY <2>1 DEF calendarVars, CalendarInv, MomentOf
  <2>2. CASE TimePasses
    <3>1. schedule' \in Schedule
      BY <2>2 DEF TimePasses, CalendarInv
    <3>2. PICK y \in Nat, m \in 1 .. 12 : \E d \in 1 .. DaysInMonth(y, m), past \in BOOLEAN :
            MomentOf(y, m, d, past)
      BY DEF CalendarInv
    <3>3. PICK d \in 1 .. DaysInMonth(y, m), past \in BOOLEAN : MomentOf(y, m, d, past)
      BY <3>2
    <3>4. IsDate(y, m, d)
      BY DEF IsDate
    <3>5. moment.date = <<y, m, d>>
      BY <3>3 DEF MomentOf
    <3>6. PICK z \in Nat, k \in 1 .. 12 : \E e \in 1 .. DaysInMonth(z, k), on \in BOOLEAN :
            moment' = [date |-> <<z, k, e>>, past |-> on]
      <4>1. CASE ~moment.past
        <5>1. moment' = [moment EXCEPT !.past = TRUE]
          BY <2>2, <4>1, Zenon DEF TimePasses
        <5>2. moment' = [date |-> <<y, m, d>>, past |-> TRUE]
          BY <3>3, <5>1, Zenon DEF MomentOf
        <5> QED
          BY <5>2
      <4>2. CASE moment.past /\ moment.date = <<LastYear, 12, 31>>
        <5>1. moment' = Midnight(<<FirstYear, 1, 1>>)
          BY <2>2, <4>2, Zenon DEF TimePasses
        <5>2. moment' = [date |-> <<FirstYear, 1, 1>>, past |-> FALSE]
          BY <5>1, Zenon DEF Midnight
        <5> DEFINE first == FirstYear
                   one == 1
        <5>3. /\ first \in Nat /\ one \in 1 .. 12 /\ one \in 1 .. DaysInMonth(first, one)
              /\ FALSE \in BOOLEAN /\ moment' = [date |-> <<first, one, one>>, past |-> FALSE]
          BY <5>2, CalendarAssumption, MonthLength
        <5> HIDE DEF first, one
        <5> QED
          BY <5>3
      <4>3. CASE moment.past /\ moment.date # <<LastYear, 12, 31>>
        <5>1. moment' = Midnight(AddDays(<<y, m, d>>, 1))
          BY <2>2, <3>5, <4>3, Zenon DEF TimePasses
        <5>2. PICK z \in Nat, k \in 1 .. 12 : \E e \in 1 .. 31 : Tomorrow(y, m, d, z, k, e)
          BY <3>4, TomorrowExists
        <5>3. PICK e \in 1 .. 31 : Tomorrow(y, m, d, z, k, e)
          BY <5>2
        <5>4. moment' = [date |-> <<z, k, e>>, past |-> FALSE]
          BY <5>1, <5>3, Zenon DEF Midnight, Tomorrow
        <5>5. e \in 1 .. DaysInMonth(z, k)
          BY <5>3 DEF Tomorrow, IsDate
        <5> QED
          BY <5>4, <5>5
      <4> QED
        BY <4>1, <4>2, <4>3
    <3> QED
      BY <3>1, <3>6 DEF CalendarInv, MomentOf
  <2> QED
    BY <2>1, <2>2
<1> QED
  BY <1>1, <1>2, PTL DEF CalendarSpec

\* Whatever years, half days and schedules are allowed: the next billing date is one the schedule
\* names, and no such date lies between it and now.  The day after today is the step: what is
\* computed tomorrow is what is computed today, unless today bills.
THEOREM TheNextDateIsTheFirst == CalendarSpec => []NextIsFirst
<1>1. CalendarInv => NextIsFirst
  <2> SUFFICES ASSUME CalendarInv PROVE NextIsFirst
    OBVIOUS
  <2>1. PICK y \in Nat, m \in 1 .. 12 : \E d \in 1 .. DaysInMonth(y, m), past \in BOOLEAN :
          MomentOf(y, m, d, past)
    BY DEF CalendarInv
  <2>2. PICK d \in 1 .. DaysInMonth(y, m), past \in BOOLEAN : MomentOf(y, m, d, past)
    BY <2>1
  <2>3. IsDate(y, m, d)
    BY DEF IsDate
  <2>4. PICK z \in Nat, k \in 1 .. 12 : \E e \in 1 .. 31 : Tomorrow(y, m, d, z, k, e)
    BY <2>3, TomorrowExists
  <2>5. PICK e \in 1 .. 31 : Tomorrow(y, m, d, z, k, e)
    BY <2>4
  <2>6. Correct(schedule, <<y, m, d>>, <<z, k, e>>, past)
    BY <2>3, <2>5, CalendarSound DEF CalendarInv
  <2>7. moment = [date |-> <<y, m, d>>, past |-> past] /\ moment.date = <<y, m, d>>
        /\ moment.past = past
    BY <2>2 DEF MomentOf
  <2>8. Midnight(AddDays(moment.date, 1)) = [date |-> <<z, k, e>>, past |-> FALSE]
    BY <2>5, <2>7, Zenon DEF Midnight, Tomorrow
  <2> QED
    BY <2>6, <2>7, <2>8, Zenon DEF Correct, NextIsFirst
<1> QED
  BY <1>1, CalendarInvHolds, PTL
=============================================================================
