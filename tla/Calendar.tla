------------------------------ MODULE Calendar ------------------------------
(***************************************************************************)
(* Dates as the JavaScript Date arithmetic of the services treats them: a  *)
(* date is a year, a month and a day; setMonth, setDate and setFullYear    *)
(* carry a day the month does not have into the following month.           *)
(***************************************************************************)
EXTENDS Integers

Dates == [year : Int, month : Int, day : Int]
Date(y, m, d) == [year |-> y, month |-> m, day |-> d]

Leap(y) == y % 4 = 0 /\ (y % 100 # 0 \/ y % 400 = 0)
DaysIn(y, m) == CASE m = 2 -> IF Leap(y) THEN 29 ELSE 28
                  [] m \in {4, 6, 9, 11} -> 30
                  [] OTHER -> 31

\* the month and the day exist
Real(dt) == dt \in Dates /\ dt.month \in 1 .. 12 /\ dt.day \in 1 .. DaysIn(dt.year, dt.month)

\* days since a fixed origin; years counted from March put the leap day last
DayNo(dt) ==
  LET y == IF dt.month <= 2 THEN dt.year - 1 ELSE dt.year
      m == (dt.month + 9) % 12
  IN 365 * y + y \div 4 - y \div 100 + y \div 400 + (153 * m + 2) \div 5 + dt.day

\* the month n months after month m of year y
MonthAfter(y, m, n) == [year |-> y + (m - 1 + n) \div 12, month |-> ((m - 1 + n) % 12) + 1]

\* a day past the end of its month falls in the next one
Carry(y, m, d) ==
  IF d <= DaysIn(y, m) THEN Date(y, m, d)
  ELSE LET next == MonthAfter(y, m, 1) IN Date(next.year, next.month, d - DaysIn(y, m))

AddDays(dt, n)   == Carry(dt.year, dt.month, dt.day + n)
AddMonths(dt, n) == LET to == MonthAfter(dt.year, dt.month, n) IN Carry(to.year, to.month, dt.day)

DaysBetween(from, to)   == DayNo(to) - DayNo(from)
MonthsBetween(from, to) == (to.year - from.year) * 12 + (to.month - from.month)

\* slip: no case for ANNUAL
AddPeriodNoAnnual(dt, frequency) ==
  CASE frequency = "DAILY"      -> AddDays(dt, 1)
    [] frequency = "WEEKLY"     -> AddDays(dt, 7)
    [] frequency = "BIWEEKLY"   -> AddDays(dt, 14)
    [] frequency = "MONTHLY"    -> AddMonths(dt, 1)
    [] frequency = "QUARTERLY"  -> AddMonths(dt, 3)
    [] frequency = "SEMIANNUAL" -> AddMonths(dt, 6)
    [] OTHER                    -> dt

\* BULLET is not a case of the switch: the date comes back unchanged
AddPeriod(dt, frequency) ==
  CASE frequency = "DAILY"      -> AddDays(dt, 1)
    [] frequency = "WEEKLY"     -> AddDays(dt, 7)
    [] frequency = "BIWEEKLY"   -> AddDays(dt, 14)
    [] frequency = "MONTHLY"    -> AddMonths(dt, 1)
    [] frequency = "QUARTERLY"  -> AddMonths(dt, 3)
    [] frequency = "SEMIANNUAL" -> AddMonths(dt, 6)
    [] frequency = "ANNUAL"     -> AddMonths(dt, 12)
    [] OTHER                    -> dt
=============================================================================
