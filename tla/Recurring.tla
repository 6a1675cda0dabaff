------------------------------ MODULE Recurring ------------------------------
(***************************************************************************)
(* One recurring payment of a customer: the row the customer edits, pauses *)
(* and cancels, and the runs of processDue that charge it when it is due.  *)
(* A run works on the row it has read; so does a request of the customer.  *)
(* The schedule is daily and time is counted in days: what any frequency   *)
(* makes of a date is module BillingCalendar.                              *)
(***************************************************************************)
EXTENDS Naturals, FiniteSets

CONSTANTS
  Run,        \* runs of processDue that may overlap
  Ask,        \* requests of the customer that may overlap
  MaxDay,     \* bound of the model: the last day
  EndDay,     \* endDate of the payment
  LastFailure \* failures in a row that end the payment; three in the code

ASSUME RecurringAssumption ==
  MaxDay \in Nat \ {0} /\ EndDay \in Nat /\ LastFailure \in Nat \ {0} /\ Run \cap Ask = {}

VARIABLES
  recurring,    \* the row of customer_recurring_payments
  today,
  run,        \* run[r]: what a run holds of the row, and the day it began
  ask,        \* ask[a]: what a request of the customer holds
  bill,       \* history: bill[d], what happened to the charge of day d
  ended,      \* history: the payment was cancelled, and none that held it then undid it
  early       \* history: the runs and requests that held the payment when it was cancelled

recurringVars == <<recurring, today, run, ask, bill, ended, early>>

Day == 1 .. MaxDay + 1
PaymentStatus == {"ACTIVE", "PAUSED", "CANCELLED", "EXPIRED", "FAILED"}
Open == {"ACTIVE", "PAUSED"}

\* stopAt: cancelAt of a cancellation at the end of the period, or 0.
PaymentRow == [status : PaymentStatus, due : Day, failures : Nat, stopAt : 0 .. MaxDay + 1]

NoRun == [at |-> "idle"]
NoAsk == [at |-> "idle"]

\* calculateNextBillingAt for a daily schedule.
NextBillingAt(from) == from + 1

RecurringTypeOK ==
  /\ recurring \in PaymentRow
  /\ today \in 1 .. MaxDay
  /\ run \in [Run -> {NoRun} \cup [at : {"due", "charged", "recorded", "failed"},
                                   row : PaymentRow, now : 1 .. MaxDay]]
  /\ ask \in [Ask -> {NoAsk} \cup [at : {"asked"}, status : PaymentStatus, due : Day]]
  /\ bill \in [Day -> [charges : 0 .. 2, excused : BOOLEAN]]
  /\ ended \in BOOLEAN /\ early \subseteq Run \cup Ask

RecurringInit ==
  /\ recurring = [status |-> "ACTIVE", due |-> 1, failures |-> 0, stopAt |-> 0]
  /\ today = 1
  /\ run = [r \in Run |-> NoRun]
  /\ ask = [a \in Ask |-> NoAsk]
  /\ bill = [d \in Day |-> [charges |-> 0, excused |-> FALSE]]
  /\ ended = FALSE /\ early = {}

Holding == {r \in Run : run[r] # NoRun} \cup {a \in Ask : ask[a] # NoAsk}
Moving == {r \in Run : run'[r] # run[r]} \cup {a \in Ask : ask'[a] # ask[a]}

\* Histories: a cancellation finds some holding the row; one of them may write over it.
Remember ==
  LET cancelled == recurring.status # "CANCELLED" /\ recurring'.status = "CANCELLED"
      undone == recurring'.status # "CANCELLED" /\ Moving \cap early # {}
  IN /\ ended' = (cancelled \/ (ended /\ ~undone))
     /\ early' = IF cancelled THEN Holding' ELSE IF ended' THEN early \cap Holding' ELSE {}

DayPasses == /\ today < MaxDay
             /\ today' = today + 1
             /\ UNCHANGED <<recurring, run, ask, bill>>

-----------------------------------------------------------------------------
(* A run of processDue *)

RunStep(r, job) == run' = [run EXCEPT ![r] = job]

\* Another run is not done: it may write back an earlier date.
Overlapped == \E q \in Run : run[q] # NoRun

\* Mutant: the status of what is due is not asked for.
MutantFindDue(r) ==
  /\ run[r] = NoRun
  /\ recurring.due <= today
  /\ RunStep(r, [at |-> "due", row |-> recurring, now |-> today])
  /\ bill' = [bill EXCEPT ![recurring.due].excused = @ \/ Overlapped]
  /\ UNCHANGED <<recurring, today, ask>>

\* findDueRecurringPayments: active, due and not deleted.
FindDue(r) ==
  /\ run[r] = NoRun
  /\ recurring.status = "ACTIVE" /\ recurring.due <= today
  /\ RunStep(r, [at |-> "due", row |-> recurring, now |-> today])
  /\ bill' = [bill EXCEPT ![recurring.due].excused = @ \/ Overlapped]
  /\ UNCHANGED <<recurring, today, ask>>

\* createOccurrence, and the card is charged, without an idempotency key; 'processing'
\* counts as charged.  The model counts to two.
Charge(r) ==
  /\ run[r].at = "due"
  /\ bill' = [bill EXCEPT ![run[r].row.due].charges = IF @ = 2 THEN 2 ELSE @ + 1]
  /\ RunStep(r, [run[r] EXCEPT !.at = "charged"])
  /\ UNCHANGED <<recurring, today, ask>>

ChargeDeclined(r) ==
  /\ run[r].at = "due"
  /\ RunStep(r, [run[r] EXCEPT !.at = "failed"])
  /\ UNCHANGED <<recurring, today, ask, bill>>

\* Mutant: the date stays the one that was due.
MutantRecordSuccess(r) ==
  /\ run[r].at = "charged"
  /\ recurring' = [recurring EXCEPT !.due = run[r].row.due, !.failures = 0, !.status = "ACTIVE"]
  /\ RunStep(r, [run[r] EXCEPT !.at = "recorded"])
  /\ UNCHANGED <<today, ask, bill>>

\* The gift, the payment, the occurrence; then the row, whatever it has become since; the
\* notification is still to come.
RecordSuccess(r) ==
  /\ run[r].at = "charged"
  /\ LET row == run[r].row
         now == run[r].now
         next == NextBillingAt(now)
         stops == row.stopAt # 0 /\ row.stopAt <= now
     IN recurring' = [recurring EXCEPT !.due = next, !.failures = 0,
                      !.status = IF next > EndDay THEN "EXPIRED"
                                 ELSE IF stops THEN "CANCELLED" ELSE "ACTIVE"]
  /\ RunStep(r, [run[r] EXCEPT !.at = "recorded"])
  /\ UNCHANGED <<today, ask, bill>>

NotifySucceeds(r) ==
  /\ run[r].at = "recorded"
  /\ RunStep(r, NoRun)
  /\ UNCHANGED <<recurring, today, ask, bill>>

\* The notification is inside the try: its failure counts as one of the charge.
NotifyFails(r) ==
  /\ run[r].at = "recorded"
  /\ RunStep(r, [run[r] EXCEPT !.at = "failed"])
  /\ UNCHANGED <<recurring, today, ask, bill>>

\* A statement fails after the charge: the occurrence counts as a failed charge.
RecordingFails(r) ==
  /\ run[r].at = "charged"
  /\ bill' = [bill EXCEPT ![run[r].row.due].excused = TRUE]
  /\ RunStep(r, [run[r] EXCEPT !.at = "failed"])
  /\ UNCHANGED <<recurring, today, ask>>

\* markOccurrenceFailed; the last failure in a row ends the payment, any other leaves it
\* as the run has read it, whatever it has become since.
RecordFailure(r) ==
  /\ run[r].at = "failed"
  /\ LET failures == run[r].row.failures + 1
     IN recurring' = [recurring EXCEPT !.failures = failures,
                      !.status = IF failures >= LastFailure THEN "FAILED" ELSE run[r].row.status]
  /\ RunStep(r, NoRun)
  /\ UNCHANGED <<today, ask, bill>>

\* The process stops, or the database does.
RunCrashes(r) ==
  /\ run[r] # NoRun
  /\ bill' = [bill EXCEPT ![run[r].row.due].excused = @ \/ run[r].at = "charged"]
  /\ RunStep(r, NoRun)
  /\ UNCHANGED <<recurring, today, ask>>

-----------------------------------------------------------------------------
(* Requests of the customer: getOwned, then the update of the action *)

AskStep(a, job) == ask' = [ask EXCEPT ![a] = job]

GetOwned(a) ==
  /\ ask[a] = NoAsk
  /\ AskStep(a, [at |-> "asked", status |-> recurring.status, due |-> recurring.due])
  /\ UNCHANGED <<recurring, today, run, bill>>

Write(a, row) ==
  /\ recurring' = row
  /\ AskStep(a, NoAsk)
  /\ UNCHANGED <<today, run, bill>>

Update(a) ==
  /\ ask[a].at = "asked" /\ ask[a].status # "CANCELLED"
  /\ Write(a, [recurring EXCEPT !.due = NextBillingAt(today)])

PauseAction(a) ==
  /\ ask[a].at = "asked" /\ ask[a].status = "ACTIVE"
  /\ Write(a, [recurring EXCEPT !.status = "PAUSED", !.stopAt = 0])

ResumeAction(a) ==
  /\ ask[a].at = "asked" /\ ask[a].status = "PAUSED"
  /\ Write(a, [recurring EXCEPT !.status = "ACTIVE", !.stopAt = 0,
                              !.due = NextBillingAt(today)])

CancelAction(a) ==
  /\ ask[a].at = "asked" /\ ask[a].status \in Open
  /\ \/ Write(a, [recurring EXCEPT !.status = "CANCELLED", !.stopAt = 0])
     \/ Write(a, [recurring EXCEPT !.stopAt = ask[a].due])

AskRefused(a) == /\ ask[a] # NoAsk
                 /\ AskStep(a, NoAsk)
                 /\ UNCHANGED <<recurring, today, run, bill>>

RecurringNext ==
  /\ \/ DayPasses
     \/ \E r \in Run : \/ FindDue(r) \/ Charge(r) \/ ChargeDeclined(r)
                       \/ RecordSuccess(r) \/ NotifySucceeds(r) \/ NotifyFails(r)
                       \/ RecordingFails(r) \/ RecordFailure(r) \/ RunCrashes(r)
     \/ \E a \in Ask : \/ GetOwned(a) \/ Update(a) \/ PauseAction(a) \/ ResumeAction(a)
                       \/ CancelAction(a) \/ AskRefused(a)
  /\ Remember

RecurringSpec == RecurringInit /\ [][RecurringNext]_recurringVars

-----------------------------------------------------------------------------
(* Properties *)

\* A due date is charged twice only if two runs overlapped, or if what follows the
\* charge was lost: the charge has no idempotency key and no index covers an occurrence.
ChargedOnce == \A d \in Day : bill[d].charges > 1 => bill[d].excused

\* Once cancelled, a payment stays so and no run takes it up to charge it, unless one that
\* held the row when it was cancelled (the run that cancels it at its period's end, and
\* whose notification fails, is one) has written another status over the cancellation; a
\* charge made all the same is of a run that held it.
CancelledStays ==
  ended => /\ recurring.status = "CANCELLED"
           /\ \A r \in Run : run[r] # NoRun => r \in early

=============================================================================
