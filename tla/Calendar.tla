------------------------------ MODULE Calendar ------------------------------
(***************************************************************************)
(* The dates behind the statutory deadlines (packages/statutory/src/       *)
(* clocks.ts): a deadline is so many days or so many calendar months after *)
(* the day it runs from.  A day is a number, counted from 1 January of     *)
(* FirstYear; DateOf and MonthStart are what a JavaScript Date does        *)
(* between that number and the fields of the local calendar.  A behaviour  *)
(* is a case submitted later and later.                                    *)
(***************************************************************************)
EXTENDS Integers

CONSTANTS FirstYear, LastYear   \* the case is submitted in these years

ASSUME CalendarAssumption ==
    FirstYear \in Nat /\ LastYear \in Nat /\ FirstYear <= LastYear

VARIABLE submitted

-----------------------------------------------------------------------------
IsLeap(y) == (y % 4 = 0 /\ y % 100 # 0) \/ y % 400 = 0

\* Months are counted from 0, as getMonth does.
LengthOfMonth(y, month) ==
    CASE month = 1 -> IF IsLeap(y) THEN 29 ELSE 28
      [] month \in {3, 5, 8, 10} -> 30
      [] OTHER -> 31

\* The days of a common year before each month.
DaysBefore == <<0, 31, 59, 90, 120, 151, 181, 212, 243, 273, 304, 334>>

\* 1 January of year y.
YearStart(y) ==
    LET leapsBefore(x) == (x - 1) \div 4 - (x - 1) \div 100 + (x - 1) \div 400
    IN  365 * (y - FirstYear) + leapsBefore(y) - leapsBefore(FirstYear)

MonthStart(y, month) ==
    YearStart(y) + DaysBefore[month + 1] + (IF month > 1 /\ IsLeap(y) THEN 1 ELSE 0)

\* The fields of a day, up to two years off the years considered.
DateOf(day) ==
    LET y == CHOOSE x \in FirstYear - 2..LastYear + 2 :
                YearStart(x) <= day /\ day < YearStart(x + 1)
        month == CHOOSE x \in 0..11 :
                    /\ MonthStart(y, x) <= day
                    /\ day < MonthStart(y, x) + LengthOfMonth(y, x)
    IN  [year |-> y, month |-> month, day |-> day - MonthStart(y, month) + 1]

\* setMonth: fields out of range carry over.
SetMonth(day, month) ==
    LET date == DateOf(day)
    IN  MonthStart(date.year + month \div 12, month % 12) + date.day - 1

\* setDate(0): the last day of the month before.
LastOfMonthBefore(day) == day - DateOf(day).day

AddDays(day, days) == day + days

\* A mutant: the overflow of a short month is left standing.
AddMonthsOverflow(day, months) == SetMonth(day, DateOf(day).month + months)

\* A mutant: a month is thirty days.
AddMonthsOfThirty(day, months) == day + 30 * months

AddMonths(day, months) ==
    LET target == DateOf(day).month + months
        moved  == SetMonth(day, target)
    IN  IF DateOf(moved).month # target % 12 THEN LastOfMonthBefore(moved)
        ELSE moved

-----------------------------------------------------------------------------
\* When each clock that runs from `day` is due.
DueOn(day) ==
    LET halfYear == AddMonths(day, 6)
        year == AddMonths(day, 12)
    IN  [das_objection |-> AddDays(day, 21),
         ptd_objection |-> AddDays(day, 35),
         map_discharge |-> halfYear,
         discharge |-> year,
         discharge_effective |-> AddDays(day, 14),
         trustee_proposals |-> AddDays(day, 84),
         creditor_claims |-> AddDays(day, 120),
         accounting_period_end |-> year,
         late_claims_cutoff |-> AddDays(year, -56),
         moratorium_expiry |-> halfYear,
         moratorium_reuse_bar |-> year]

CalendarInit == submitted = YearStart(FirstYear)

\* The case is submitted a day later.
DayLater ==
    /\ submitted + 1 < YearStart(LastYear + 1)
    /\ submitted' = submitted + 1

CalendarSpec == CalendarInit /\ [][DayLater]_submitted

CalendarTypeOK ==
    /\ submitted \in YearStart(FirstYear)..YearStart(LastYear + 1) - 1
    /\ LET date == DateOf(submitted) IN
       date.day \in 1..LengthOfMonth(date.year, date.month)

-----------------------------------------------------------------------------
\* n months after a date: the same day of that month, or the month's last.
MonthsAfter(date, n) ==
    LET months == 12 * date.year + date.month + n
        y == months \div 12
        length == LengthOfMonth(y, months % 12)
    IN  [year |-> y, month |-> months % 12,
         day |-> IF date.day <= length THEN date.day ELSE length]

(***************************************************************************)
(* A case submitted later never has an earlier deadline, whatever months   *)
(* its windows end in: no two cases overtake each other in the queue.      *)
(***************************************************************************)
LaterIsNeverDueEarlier ==
    [][submitted' > submitted =>
        LET earlier == DueOn(submitted) later == DueOn(submitted') IN
        \A clock \in DOMAIN earlier : later[clock] >= earlier[clock]]_submitted

(***************************************************************************)
(* What setMonth and setDate do between them is calendar arithmetic: a     *)
(* window of months ends on the same day of the month meant or on its      *)
(* last.  Two of six months in a row end with the one of twelve or up to   *)
(* three days before it, never after it, so a second moratorium does not   *)
(* reach past the reuse bar of the first; and windows of months have the   *)
(* days StatutoryClocks gives them, to within the difference between one   *)
(* half year, or one year, and another.                                    *)
(***************************************************************************)
MonthWindowsFit ==
    \A due \in {DueOn(submitted)} :
        /\ \A n \in {6, 12} :
            DateOf(AddMonths(submitted, n)) = MonthsAfter(DateOf(submitted), n)
        /\ AddMonths(due.moratorium_expiry, 6)
                \in due.moratorium_reuse_bar - 3..due.moratorium_reuse_bar
        /\ due.map_discharge - submitted \in 181..184
        /\ due.discharge - submitted \in 365..366
        /\ due.creditor_claims < due.late_claims_cutoff
=============================================================================
