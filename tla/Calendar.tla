------------------------------ MODULE Calendar ------------------------------
(***************************************************************************)
(* The dates of renewals (calculate_renewal_date of                        *)
(* services/credit/utils.py): the same day of the next month, or the last  *)
(* one of a month that is too short.  The time of day does not matter.     *)
(***************************************************************************)
EXTENDS Integers

Leap(year) == year % 4 = 0 /\ (year % 100 # 0 \/ year % 400 = 0)

\* monthrange of Python's calendar.
DaysIn(year, month) ==
    CASE month \in {4, 6, 9, 11} -> 30
      [] month = 2 -> IF Leap(year) THEN 29 ELSE 28
      [] OTHER -> 31

IsDate(d) == /\ d \in [year : Nat, month : 1..12, day : 1..31]
             /\ d.day <= DaysIn(d.year, d.month)

NextMonth(d) ==
    IF d.month = 12 THEN [year |-> d.year + 1, month |-> 1]
                    ELSE [year |-> d.year, month |-> d.month + 1]

\* Mutant of NextRenewal: the length of the wrong month limits the day.
NextRenewalThisLength(d) ==
    LET next   == NextMonth(d)
        length == DaysIn(d.year, d.month)
    IN  [year |-> next.year, month |-> next.month, day |-> IF d.day <= length THEN d.day ELSE length]

NextRenewal(d) ==
    LET next   == NextMonth(d)
        length == DaysIn(next.year, next.month)
    IN  [year |-> next.year, month |-> next.month, day |-> IF d.day <= length THEN d.day ELSE length]

\* The number of a month, counted from the year 0, and the month of a number.
Index(d) == 12 * d.year + d.month - 1
Month(i) == [year |-> i \div 12, month |-> (i % 12) + 1]

\* The day a date that began as d has when it has come to month i: it has dropped to the
\* shortest month on the way, and never comes back.
DayAt(d, i) ==
    LET lengths == {DaysIn(Month(j).year, Month(j).month) : j \in (Index(d) + 1)..i}
    IN  CHOOSE x \in lengths \cup {d.day} : \A y \in lengths \cup {d.day} : x <= y
=============================================================================
