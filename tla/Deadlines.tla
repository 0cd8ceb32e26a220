------------------------------ MODULE Deadlines ------------------------------
(***************************************************************************)
(* Swedish tax deadlines, computed and never fetched: which declarations   *)
(* fall due between two days.  Employer declarations and preliminary tax   *)
(* are monthly, moms is quarterly, and a date on a day nobody works moves  *)
(* forward.                                                                *)
(*                                                                         *)
(* A month is numbered from January 2024 and a day from 1 January 2024,    *)
(* a Monday; the calendar is the Gregorian one.                            *)
(***************************************************************************)
EXTENDS Integers, FiniteSets, FiniteSetsExt

CONSTANT LastMonth   \* bound: the months there are

ASSUME LastMonthAssumption == LastMonth \in Nat

Month == 0..LastMonth

-----------------------------------------------------------------------------
(* chrono's calendar                                                        *)

OfYear(month) == (month % 12) + 1

Before == <<0, 31, 59, 90, 120, 151, 181, 212, 243, 273, 304, 334>>

\* Leap years are 2024 and every fourth after it, for as long as anybody asks.
FirstOf(month) ==
  365 * (month \div 12) + Before[OfYear(month)] + (month + 46) \div 48

MonthOf(day) == CHOOSE m \in Month : FirstOf(m) <= day /\ day < FirstOf(m + 1)
Weekend(day) == (day % 7) \in {5, 6}

-----------------------------------------------------------------------------
(* due_day, adjust_for_weekend_and_holidays, upcoming_deadlines             *)

\* Mutant: the ordinary day in every month.
DueDayAlways12(month) == 12

DueDay(month) == IF OfYear(month) \in {1, 8} THEN 17 ELSE 12

FixedHolidays ==
  {<<1, 1>>, <<1, 6>>, <<5, 1>>, <<6, 6>>, <<12, 24>>, <<12, 25>>, <<12, 26>>, <<12, 31>>}

Holidays ==
  {FirstOf(p[1]) + p[2] - 1 :
     p \in {q \in Month \X (1..31) : <<OfYear(q[1]), q[2]>> \in FixedHolidays}}

IsWorkingDay(day) == ~Weekend(day) /\ day \notin Holidays

AdjustForWeekendAndHolidays(day) ==
  Min({day + 14} \cup {d \in day..day+13 : IsWorkingDay(d)})

MomsFilingMonths == {2, 5, 8, 11}

DueIn(month) == AdjustForWeekendAndHolidays(FirstOf(month) + DueDay(month) - 1)

\* What is filed in a month.  A declaration is named by the month its period
\* ends in, which for moms is two months before it is filed.
FiledIn(month) ==
  [kind : {"agi", "preliminarskatt"}, period : {month - 1}, due : {DueIn(month)}]
  \cup [kind : {k \in {"moms"} : OfYear(month) \in MomsFilingMonths},
        period : {month - 2}, due : {DueIn(month)}]

\* Both ends are inclusive, and only the adjusted date counts.
UpcomingDeadlines(from, horizon) ==
  {d \in UNION {FiledIn(m) : m \in MonthOf(from)..MonthOf(from + horizon)} :
     from <= d.due /\ d.due <= from + horizon}

-----------------------------------------------------------------------------
(* What the rule is, said from the period that is declared.                 *)

NextWorkingDay(day) ==
  CHOOSE d \in day..day+31 : IsWorkingDay(d) /\ \A e \in day..d-1 : ~IsWorkingDay(e)

\* Wages and preliminary tax are declared in the month after the period, moms in
\* the second month after the quarter: on the 12th, but 17 January and 17 August.
LawfulDue(kind, period) ==
  LET filed == period + IF kind = "moms" THEN 2 ELSE 1
  IN NextWorkingDay(FirstOf(filed) + IF OfYear(filed) \in {1, 8} THEN 16 ELSE 11)

LawfulDeadlines(from, until) ==
  LET periods == MonthOf(from) - 2..MonthOf(until) - 1
      quarters == {m \in periods : (OfYear(m) % 3) = 0}
  IN {d \in {[kind |-> p[1], period |-> p[2], due |-> LawfulDue(p[1], p[2])]
            : p \in ({"agi", "preliminarskatt"} \X periods) \cup ({"moms"} \X quarters)}
      : from <= d.due /\ d.due <= until}
=============================================================================
