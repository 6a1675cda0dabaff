------------------------------ MODULE Reports ------------------------------
(* The figures of the dashboards and the statistics pages: the periods they *)
(* compare, the series they draw and the rates they show, over the orders,  *)
(* payments and earnings in the database.  Each page computes its own, from *)
(* its own status lists and date arithmetic.                                *)
(*                                                                          *)
(* An instant is the smallest step of a timestamp (TIMESTAMP(3), one        *)
(* millisecond), a day has TicksPerDay of them; day 0 is a Monday and the   *)
(* first of a month.  Every amount is 1, so a sum is a number of rows, and  *)
(* all orders are one provider's.                                           *)
EXTENDS Integers, FiniteSets

CONSTANTS
  Entry,          \* rows that can be created
  TicksPerDay, DaysPerWeek, DaysPerMonth,
  Windows,        \* lengths in days of the "last N days" ranges: 7, 30, 90
  Labels,         \* numbers of bars of the earnings chart: 7, 4, 12
  TrendMonths,    \* months of the revenue trend: 12
  MostRows,       \* rows the revenue trend reads: 10000
  Horizon         \* bound of the model: the last instant

ASSUME ReportsAssumption ==
  /\ {TicksPerDay, DaysPerWeek, DaysPerMonth, TrendMonths, MostRows, Horizon} \subseteq Nat \ {0}
  /\ Windows \cup Labels \subseteq Nat \ {0}

VARIABLES
  clock,
  entry    \* entry[e]: the row, an order with the instant its earning was recorded

reportVars == <<clock, entry>>

OrderStatuses == {"PENDING", "ACCEPTED", "PROCESSING", "SHIPPED", "DELIVERED", "COMPLETED",
                  "CANCELLED", "REJECTED"}
PaymentStatuses == {"PENDING", "PROCESSING", "SUCCEEDED", "FAILED", "CANCELLED", "REFUNDED"}
Never == -1
NoEntry == [kind |-> "none"]
EntryRow == [kind : {"order"}, at : 0..Horizon, status : OrderStatuses,
             earnedAt : {Never} \cup 0..Horizon]
              \cup [kind : {"payment"}, at : 0..Horizon, status : PaymentStatuses]

OfKind(k) == {e \in Entry : entry[e].kind = k}
Orders(statuses) == {e \in OfKind("order") : entry[e].status \in statuses}
Payments(statuses) == {e \in OfKind("payment") : entry[e].status \in statuses}
Earnings == {e \in OfKind("order") : entry[e].earnedAt # Never}

ReportsInit == clock = 0 /\ entry = [e \in Entry |-> NoEntry]

Create(e, row) ==
  /\ entry[e] = NoEntry
  /\ entry' = [entry EXCEPT ![e] = row]
  /\ UNCHANGED clock

PlaceOrder(e) ==
  Create(e, [kind |-> "order", at |-> clock, status |-> "PENDING", earnedAt |-> Never])
CreatePayment(e) == Create(e, [kind |-> "payment", at |-> clock, status |-> "PENDING"])

\* The provider's update, with the earning of a delivered order, once per order.
UpdateOrder(e, next) ==
  /\ e \in OfKind("order")
  /\ <<entry[e].status, next>> \in
       ({"PENDING"} \X {"ACCEPTED", "REJECTED", "CANCELLED"})
         \cup ({"ACCEPTED"} \X {"PROCESSING", "SHIPPED", "CANCELLED"})
         \cup ({"PROCESSING"} \X {"SHIPPED", "CANCELLED"})
         \cup ({"SHIPPED"} \X {"DELIVERED", "CANCELLED"})
         \cup {<<"DELIVERED", "COMPLETED">>}
  /\ entry' = [entry EXCEPT ![e].status = next,
                 ![e].earnedAt = IF next \in {"DELIVERED", "COMPLETED"} /\ @ = Never
                                 THEN clock ELSE @]
  /\ UNCHANGED clock

\* A settled card payment accepts or cancels the order and a refund cancels it, whatever
\* its status.
OverwriteOrder(e, next) ==
  /\ e \in OfKind("order")
  /\ next \in {"ACCEPTED", "CANCELLED"}
  /\ entry' = [entry EXCEPT ![e].status = next]
  /\ UNCHANGED clock

SettlePayment(e, next) ==
  /\ e \in OfKind("payment")
  /\ <<entry[e].status, next>> \in
       ({"PENDING", "PROCESSING"} \X {"PROCESSING", "SUCCEEDED", "FAILED", "CANCELLED"})
         \cup {<<"SUCCEEDED", "REFUNDED">>}
  /\ entry' = [entry EXCEPT ![e].status = next]
  /\ UNCHANGED clock

ClockTicks == clock < Horizon /\ clock' = clock + 1 /\ UNCHANGED entry

ReportsNext ==
  \/ \E e \in Entry : \/ PlaceOrder(e) \/ CreatePayment(e)
                      \/ \E next \in OrderStatuses : UpdateOrder(e, next) \/ OverwriteOrder(e, next)
                      \/ \E next \in PaymentStatuses : SettlePayment(e, next)
  \/ ClockTicks

ReportsSpec == ReportsInit /\ [][ReportsNext]_reportVars

-----------------------------------------------------------------------------
(* Periods: a range and the one before it that the report compares it with. *)

Days(n) == n * TicksPerDay
MonthTicks == Days(DaysPerMonth)
StartOfDay(t) == t - (t % TicksPerDay)
StartOfWeek(t) == t - (t % Days(DaysPerWeek))
StartOfMonth(t) == t - (t % MonthTicks)
AtLeast(a, b) == IF a >= b THEN a ELSE b
AtMost(a, b) == IF a <= b THEN a ELSE b

\* gte from, lte to; and gte from, lt to.
Through(from, to) == [from |-> from, to |-> to]
Until(from, to) == [from |-> from, to |-> to - 1]
Within(p, t) == p.from <= t /\ t <= p.to

Compared(current, previous) == [current |-> current, previous |-> previous]

LastDays == {Through(clock - Days(n), clock) : n \in Windows}
Today == Through(StartOfDay(clock), clock)
ThisWeek == Through(StartOfWeek(clock), clock)
ThisMonth == Through(StartOfMonth(clock), clock)
LastMonth == Through(StartOfMonth(clock) - MonthTicks, StartOfMonth(clock))

\* Mutant: the period before ends where this one begins, that instant included.
MutantDateRanges(current) ==
  Compared(current, Through(2 * current.from - current.to, current.from))

\* The administrator's dashboard.
DateRanges(current) ==
  Compared(current, Until(current.from - AtLeast(current.to - current.from, 1), current.from))
Dashboard == {DateRanges(p) : p \in LastDays \cup {Today, ThisMonth, LastMonth}}

\* Provider management.
CurrentWindow(days) == Until(clock - Days(days), clock)
PreviousWindow(days, anchor) == Until(anchor - Days(days), anchor)
ProviderWindows ==
  {Compared(CurrentWindow(n), PreviousWindow(n, clock - Days(n))) : n \in Windows}

\* The provider's own pages.
PreviousOrderRange(current) ==
  Compared(current, Through(2 * current.from - current.to, current.from - 1))
PerformanceRanges == {Today, ThisWeek, ThisMonth}
DailyRevenue == Through(StartOfDay(clock) - Days(DaysPerWeek - 1), clock)
OrderReports == {PreviousOrderRange(p) : p \in PerformanceRanges \cup {DailyRevenue}}

\* The platform's analytics, the provider's earnings and the transactions.
PreviousRange(current) ==
  Compared(current,
           Through(current.from - AtLeast(current.to - current.from, TicksPerDay), current.from))
PlatformAnalytics == {PreviousRange(p) : p \in LastDays \cup {Today}}
PreviousEarnings(current) ==
  Compared(current, Through(2 * current.from - current.to, current.from))
EarningsSummary == {PreviousEarnings(p) : p \in LastDays}
DayOf(t) == Until(StartOfDay(t), StartOfDay(t) + TicksPerDay)
WholeDay == DayOf(clock)
FailedToday == Compared(WholeDay, Until(WholeDay.from - TicksPerDay, WholeDay.from))

\* The transactions' range at a reading of the clock; of no days: today, to its last instant.
TransactionRange(days, now) == IF days = 0 THEN DayOf(now) ELSE Through(now - Days(days), now)

\* Their statistics read the clock for the range, await its rows and then read the clock
\* again for the range whose predecessor it is compared with; asked is the first reading.
TransactionStats(days, asked) ==
  Compared(TransactionRange(days, asked), PreviousEarnings(TransactionRange(days, clock)).previous)

Separate == Dashboard \cup ProviderWindows \cup OrderReports \cup {FailedToday}
Touching == PlatformAnalytics \cup EarningsSummary

-----------------------------------------------------------------------------
(* Series.  A bar is the set of rows it adds up. *)

SumOfBars(bars) == Cardinality(UNION {{i} \X bars[i] : i \in DOMAIN bars})

\* findRevenuePayments reads the oldest MostRows, those of one instant in any order:
\* read is what it may come back with.
RevenuePayments ==
  LET paid == Payments({"SUCCEEDED"})
  IN  {read \in SUBSET paid :
         /\ Cardinality(read) = AtMost(MostRows, Cardinality(paid))
         /\ \A p \in read, q \in paid \ read : entry[p].at <= entry[q].at}

\* revenueTrends keeps the last months'.
TrendStart(i) == StartOfMonth(clock) - (TrendMonths - i) * MonthTicks
RevenueTrends(read) ==
  [i \in 1..TrendMonths |->
     {p \in read : Within(Until(TrendStart(i), TrendStart(i + 1)), entry[p].at)}]

\* The provider's week: orders outside the seven days are dropped.
WeekPerformance ==
  [i \in 1..DaysPerWeek |->
     {o \in Orders(OrderStatuses) :
        /\ Within(ThisWeek, entry[o].at)
        /\ StartOfDay(entry[o].at) - ThisWeek.from = Days(i - 1)}]

\* Mutant: the last instant falls in a bar of its own.
MutantBucket(period, bars, at) ==
  LET span == period.to - period.from
  IN  1 + (IF span >= bars THEN ((at - period.from) * bars) \div span ELSE at - period.from)

\* floor((at - from) / max(1, span / bars)), held to the bars there are.
Bucket(period, bars, at) ==
  LET span == period.to - period.from
      index == IF span >= bars THEN ((at - period.from) * bars) \div span ELSE at - period.from
  IN  1 + AtMost(bars - 1, AtLeast(0, index))

ChartPeriod == Through(clock - Days(DaysPerWeek - 1), clock)
ChartRows == {o \in Earnings : Within(ChartPeriod, entry[o].earnedAt)}
EarningsChart(bars) ==
  [i \in 1..bars |-> {o \in ChartRows : Bucket(ChartPeriod, bars, entry[o].earnedAt) = i}]

\* revenuePoints: one point per day of the week that has an order.
PointLabel(at) == (at \div TicksPerDay) % DaysPerWeek
RevenueAnalytics ==
  {o \in Orders({"ACCEPTED", "PROCESSING", "SHIPPED", "DELIVERED", "COMPLETED"}) :
     Within(DailyRevenue, entry[o].at)}

-----------------------------------------------------------------------------
(* Rates, in whole per cent. *)

Rate(part, whole) ==
  IF whole = {} THEN 0 ELSE (100 * Cardinality(part)) \div Cardinality(whole)

\* The administrator's dashboard.
SuccessRate ==
  Rate(Orders({"DELIVERED", "COMPLETED"}), Orders(OrderStatuses \ {"CANCELLED", "REJECTED"}))

\* Mutant: rejected orders count against the provider.
MutantOrderFulfillment ==
  Rate(Orders({"DELIVERED", "COMPLETED"}), Orders(OrderStatuses \ {"CANCELLED"}))

\* Provider management: fulfillmentSuccessStatuses, safeRatioPercent.
OrderFulfillment ==
  Rate(Orders({"DELIVERED", "COMPLETED"}), Orders(OrderStatuses \ {"CANCELLED", "REJECTED"}))

\* The provider's own page: completedStatuses, closedStatuses, over a period.
CompletionRate(period) ==
  LET orders == {o \in Orders(OrderStatuses) : Within(period, entry[o].at)}
  IN  Rate({o \in orders : entry[o].status \in {"DELIVERED", "COMPLETED"}},
           {o \in orders : entry[o].status \notin {"CANCELLED", "REJECTED"}})

\* The counts of the provider's order summary.
SummaryCounts ==
  <<Orders({"PENDING"}), Orders({"ACCEPTED", "PROCESSING"}), Orders({"SHIPPED"}),
    Orders({"DELIVERED", "COMPLETED"}), Orders({"CANCELLED", "REJECTED"})>>

\* The provider's dashboard and order summary: orders up to the day's last instant.
TodayOrders == {o \in Orders(OrderStatuses) : Within(WholeDay, entry[o].at)}

-----------------------------------------------------------------------------
ReportsTypeOK == clock \in 0..Horizon /\ entry \in [Entry -> {NoEntry} \cup EntryRow]

\* A comparison with the period before (the deltas of every dashboard) leaves out no
\* row between the two periods and counts none twice, except, in the pages whose
\* periods touch, a row dated at the very instant where they meet.  The statistics of
\* the transactions take the period before at a later reading of the clock: they count
\* twice what is dated from where the range began at the first reading through where it
\* began at the second, and leave out no row either.
PeriodsMeet ==
  LET dates == {entry[e].at : e \in {e \in Entry : entry[e] # NoEntry}}
      Counted(r, at) == {p \in {"current", "previous"} : Within(r[p], at)}
      Covered(r, at) == r.previous.from <= at /\ at <= r.current.to
  IN  /\ \A r \in Separate, at \in dates : Covered(r, at) => Cardinality(Counted(r, at)) = 1
      /\ \A r \in Touching, at \in dates : Covered(r, at) =>
           Cardinality(Counted(r, at)) = IF at = r.current.from THEN 2 ELSE 1
      /\ \A days \in Windows \cup {0}, asked \in 0..clock :
           LET r == TransactionStats(days, asked)
           IN  \A at \in dates : Covered(r, at) =>
                 Cardinality(Counted(r, at)) =
                   IF at \in r.current.from..TransactionRange(days, clock).from THEN 2 ELSE 1

\* The bars of a series add up to the rows of its period: the provider's week, the
\* earnings chart, a day's point of the daily revenue.  Those of the revenue trend add up
\* to the payments of its months as long as the limit takes them: payments from before
\* its months use the limit up first, and what is past it is in no bar (revenueTrends).
SeriesAddUp ==
  /\ Payments({"SUCCEEDED"}) # {} =>
       LET paid == Payments({"SUCCEEDED"})
           before == {p \in paid : entry[p].at < TrendStart(1)}
       IN  \A read \in RevenuePayments :
             SumOfBars(RevenueTrends(read)) =
               AtMost(Cardinality(paid \ before), AtLeast(0, MostRows - Cardinality(before)))
  /\ OfKind("order") # {} =>
       SumOfBars(WeekPerformance) = Cardinality({o \in OfKind("order") :
                                                Within(ThisWeek, entry[o].at)})
  /\ Earnings # {} =>
       \A bars \in Labels : SumOfBars(EarningsChart(bars)) = Cardinality(ChartRows)
  /\ \A o, p \in RevenueAnalytics :
       PointLabel(entry[o].at) = PointLabel(entry[p].at)
         => StartOfDay(entry[o].at) = StartOfDay(entry[p].at)

\* The share of fulfilled orders is the same on the administrator's dashboard, in
\* provider management and on the provider's page over all time, and the counts of the
\* provider's summary take every order exactly once.
RatesAgree ==
  OfKind("order") # {} =>
    /\ SuccessRate = OrderFulfillment
    /\ OrderFulfillment = CompletionRate(Through(0, clock))
    /\ SuccessRate \in 0..100
    /\ SumOfBars(SummaryCounts) = Cardinality(OfKind("order"))
    /\ Cardinality(TodayOrders)
         = Cardinality({o \in OfKind("order") : StartOfDay(entry[o].at) = StartOfDay(clock)})
=============================================================================
