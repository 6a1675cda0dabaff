------------------------------ MODULE MCBilling ------------------------------
(* The modules around billing, catalogue, reviews and administration for TLC.  They *)
(* share no state, so a behaviour is one module's, the others staying as they begin. *)
EXTENDS Recurring, BillingCalendar, Subscriptions, Refunds, Offers, Reviews, Marketplace,
        Reports, Directory, TLC

CONSTANTS x1, x2, y1, y2   \* rows, and the requests on them, of whichever module

Rows == {x1, x2}
Requests == {y1, y2}

Symmetry == Permutations(Rows) \cup Permutations(Requests)

\* The plan and the subscriptions meet in a checkout only: their own behaviours, the edits
\* of the one and the changes at Stripe of the others, are explored apart.
PlansNext == UNCHANGED gateway /\ SubscriptionsNext
AtStripeNext == UNCHANGED edit /\ SubscriptionsNext

\* Any two of the runs and requests on a recurring payment may overlap.
PairsNext == RecurringNext /\ Cardinality(Holding') <= 2

\* Every day of the month, in the months that differ for a schedule that bills once a year.
MCSchedules == {s \in Schedule : s.frequency = "YEARLY" => /\ s.monthOfYear \in {2, 12}
                                                           /\ s.dayOfMonth \in {1, 29, 31}}

VARIABLE scope    \* the module the behaviour is about

allVars == <<recurringVars, calendarVars, subscriptionVars, refundVars, offerVars, reviewVars,
             marketVars, reportVars, directoryVars, scope>>

MCInit ==
  /\ RecurringInit /\ CalendarInit /\ SubscriptionsInit /\ RefundsInit /\ OffersInit
  /\ ReviewsInit /\ MarketInit /\ ReportsInit /\ DirectoryInit
  /\ scope \in {"recurring", "calendar", "plans", "subscriptions", "refunds", "offers",
               "reviews", "market", "reports", "directory"}
  /\ scope # "directory" => table = "users"
  /\ scope # "calendar" => /\ schedule = [frequency |-> "DAILY"]
                           /\ moment = Midnight(<<FirstYear, 1, 1>>)

Others(rest) == UNCHANGED <<rest, scope>>

MCNext ==
  \/ /\ scope = "recurring" /\ PairsNext
     /\ Others(<<calendarVars, subscriptionVars, refundVars, offerVars,
                 reviewVars, marketVars, reportVars, directoryVars>>)
  \/ /\ scope = "calendar" /\ TimePasses
     /\ Others(<<recurringVars, subscriptionVars, refundVars, offerVars,
                 reviewVars, marketVars, reportVars, directoryVars>>)
  \/ /\ \/ scope = "plans" /\ PlansNext
        \/ scope = "subscriptions" /\ AtStripeNext
     /\ Others(<<recurringVars, calendarVars, refundVars, offerVars,
                 reviewVars, marketVars, reportVars, directoryVars>>)
  \/ /\ scope = "refunds" /\ RefundsNext
     /\ Others(<<recurringVars, calendarVars, subscriptionVars, offerVars,
                 reviewVars, marketVars, reportVars, directoryVars>>)
  \/ /\ scope = "offers" /\ OffersNext
     /\ Others(<<recurringVars, calendarVars, subscriptionVars, refundVars,
                 reviewVars, marketVars, reportVars, directoryVars>>)
  \/ /\ scope = "reviews" /\ ReviewsNext
     /\ Others(<<recurringVars, calendarVars, subscriptionVars, refundVars,
                 offerVars, marketVars, reportVars, directoryVars>>)
  \/ /\ scope = "market" /\ MarketNext
     /\ Others(<<recurringVars, calendarVars, subscriptionVars, refundVars,
                 offerVars, reviewVars, reportVars, directoryVars>>)
  \/ /\ scope = "reports" /\ ReportsNext
     /\ Others(<<recurringVars, calendarVars, subscriptionVars, refundVars,
                 offerVars, reviewVars, marketVars, directoryVars>>)
  \/ /\ scope = "directory" /\ DirectoryNext
     /\ Others(<<recurringVars, calendarVars, subscriptionVars, refundVars,
                 offerVars, reviewVars, marketVars, reportVars>>)

MCSpec == MCInit /\ [][MCNext]_allVars
=============================================================================
