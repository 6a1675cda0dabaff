--------------------------- MODULE BillingCalendar ---------------------------
(***************************************************************************)
(* calculateNextBillingAt: the next date a schedule bills, counted from a  *)
(* moment.  Dates and times are UTC throughout, also those of a schedule   *)
(* that names another timezone: the code stores that name and never uses   *)
(* it.  A moment is a date and whether the schedule's time of day is past. *)
(***************************************************************************)
EXTENDS Integers, Sequences

CONSTANTS FirstYear, LastYear,   \* bounds of the model: the moments it starts from
          Schedules              \* schedules of the DTO, see Schedule

VARIABLES moment, schedule

calendarVars == <<moment, schedule>>

Schedule == [frequency : {"DAILY"}]
            \cup [frequency : {"WEEKLY"}, dayOfWeek : 0 .. 6]
            \cup [frequency : {"MONTHLY"}, dayOfMonth : 1 .. 31]
            \cup [frequency : {"YEARLY"}, monthOfYear : 1 .. 12, dayOfMonth : 1 .. 31]

ASSUME CalendarAssumption ==
  FirstYear \in Nat /\ LastYear \in Nat /\ Schedules \subseteq Schedule

Least(a, b) == IF a <= b THEN a ELSE b

-----------------------------------------------------------------------------
(* Dates, as JavaScript's Date has them *)

IsLeap(y) == y % 4 = 0 /\ (y % 100 # 0 \/ y % 400 = 0)

DaysInMonth(y, m) == CASE m = 2 -> IF IsLeap(y) THEN 29 ELSE 28
                       [] m \in {4, 6, 9, 11} -> 30
                       [] OTHER -> 31

NextMonth(y, m) == IF m = 12 THEN <<y + 1, 1>> ELSE <<y, m + 1>>

\* The setters roll over into the next month; no caller adds more than a week.
AddDays(date, n) ==
  LET y == date[1]  m == date[2]  d == date[3] + n
  IN IF d <= DaysInMonth(y, m) THEN <<y, m, d>>
     ELSE NextMonth(y, m) \o <<d - DaysInMonth(y, m)>>

DaysBefore(y) == 365 * y + (y + 3) \div 4 - (y + 99) \div 100 + (y + 399) \div 400

\* getUTCDay: Sunday is 0.
WeekDay(date) ==
  LET before[m \in 1 .. 12] == IF m = 1 THEN 0 ELSE before[m - 1] + DaysInMonth(date[1], m - 1)
  IN (DaysBefore(date[1]) + before[date[2]] + date[3] + 5) % 7

Later(date, other) == \/ date[1] > other[1]
                      \/ date[1] = other[1] /\ date[2] > other[2]
                      \/ date[1] = other[1] /\ date[2] = other[2] /\ date[3] > other[3]

\* candidate > from, for a candidate at the schedule's time of day.
After(date, from) == Later(date, from.date) \/ (date = from.date /\ ~from.past)

-----------------------------------------------------------------------------
(* The next date *)

NextWeekday(from, target) ==
  LET next == AddDays(from.date, (target - WeekDay(from.date) + 7) % 7)
  IN IF After(next, from) THEN next ELSE AddDays(next, 7)

\* The day of a month that has fewer days is its last day.
Clamped(y, m, day) == <<y, m, Least(day, DaysInMonth(y, m))>>

\* Mutant: the following month is cut to the length of this one.
MutantNextMonthDay(from, day) ==
  LET y == from.date[1]  m == from.date[2]
      next == Clamped(y, m, day)
  IN IF After(next, from) THEN next ELSE NextMonth(y, m) \o <<next[3]>>

NextMonthDay(from, day) ==
  LET y == from.date[1]  m == from.date[2]
      next == Clamped(y, m, day)
      following == NextMonth(y, m)
  IN IF After(next, from) THEN next ELSE Clamped(following[1], following[2], day)

NextYearDay(from, month, day) ==
  LET next == Clamped(from.date[1], month, day)
  IN IF After(next, from) THEN next ELSE Clamped(from.date[1] + 1, month, day)

CalculateNextBillingAt(s, from) ==
  CASE s.frequency = "DAILY" -> IF After(from.date, from) THEN from.date ELSE AddDays(from.date, 1)
    [] s.frequency = "WEEKLY" -> NextWeekday(from, s.dayOfWeek)
    [] s.frequency = "MONTHLY" -> NextMonthDay(from, s.dayOfMonth)
    [] s.frequency = "YEARLY" -> NextYearDay(from, s.monthOfYear, s.dayOfMonth)

-----------------------------------------------------------------------------
(* Every schedule from every half day of some years *)

Midnight(date) == [date |-> date, past |-> FALSE]

CalendarInit ==
  /\ schedule \in Schedules
  /\ \E y \in FirstYear .. LastYear, m \in 1 .. 12 :
       \E d \in 1 .. DaysInMonth(y, m) : moment = Midnight(<<y, m, d>>)

\* After the last day the years start over.
TimePasses ==
  /\ moment' = IF ~moment.past THEN [moment EXCEPT !.past = TRUE]
               ELSE IF moment.date = <<LastYear, 12, 31>> THEN Midnight(<<FirstYear, 1, 1>>)
               ELSE Midnight(AddDays(moment.date, 1))
  /\ UNCHANGED schedule

CalendarSpec == CalendarInit /\ [][TimePasses]_calendarVars

-----------------------------------------------------------------------------
(* Properties *)

\* A date the schedule names; the last day of a month stands for those it does not have.
Bills(s, date) ==
  CASE s.frequency = "DAILY" -> TRUE
    [] s.frequency = "WEEKLY" -> WeekDay(date) = s.dayOfWeek
    [] s.frequency = "MONTHLY" -> date = Clamped(date[1], date[2], s.dayOfMonth)
    [] s.frequency = "YEARLY" -> date = Clamped(date[1], s.monthOfYear, s.dayOfMonth)

\* The next billing date is the first the schedule names: no month, leap day or week is
\* skipped or billed twice, whenever it is computed.
NextIsFirst ==
  LET next == CalculateNextBillingAt(schedule, moment)
      tomorrow == Midnight(AddDays(moment.date, 1))
  IN /\ Bills(schedule, next)
     /\ next = IF Bills(schedule, moment.date) /\ ~moment.past THEN moment.date
               ELSE CalculateNextBillingAt(schedule, tomorrow)

=============================================================================
