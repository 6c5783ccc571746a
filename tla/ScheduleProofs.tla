--------------------------- MODULE ScheduleProofs ---------------------------
(***************************************************************************)
(* The money of a schedule, for every loan and every level payment.        *)
(***************************************************************************)
EXTENDS Schedule, TLAPS

----------------------------------------------------------------------------
(* The calendar stays within dates. *)

(* A month has a number of days.                                             *)
LEMMA DaysInInt == ASSUME NEW y \in Int, NEW m \in Int PROVE DaysIn(y, m) \in Int
BY DEF DaysIn

(* Months later there is a month.                                            *)
LEMMA MonthAfterInt ==
  ASSUME NEW y \in Int, NEW m \in Int, NEW n \in Int
  PROVE  MonthAfter(y, m, n).year \in Int /\ MonthAfter(y, m, n).month \in Int
BY DEF MonthAfter

(* A date carried into the next month is one.                                *)
LEMMA CarryDate ==
  ASSUME NEW y \in Int, NEW m \in Int, NEW d \in Int
  PROVE  Carry(y, m, d) \in Dates
<1>1. MonthAfter(y, m, 1).year \in Int /\ MonthAfter(y, m, 1).month \in Int
  BY MonthAfterInt
<1>2. DaysIn(y, m) \in Int
  BY DaysInInt
<1> QED
  BY <1>1, <1>2 DEF Carry, Date, Dates

(* So is a date one period later.                                            *)
LEMMA AddPeriodDate ==
  ASSUME NEW dt \in Dates, NEW f
  PROVE  AddPeriod(dt, f) \in Dates
<1>1. dt.year \in Int /\ dt.month \in Int /\ dt.day \in Int
  BY DEF Dates
<1>2. \A n \in Int : AddDays(dt, n) \in Dates
  BY <1>1, CarryDate DEF AddDays
<1>3. \A n \in Int : AddMonths(dt, n) \in Dates
  BY <1>1, MonthAfterInt, CarryDate DEF AddMonths
<1> QED
  BY <1>2, <1>3 DEF AddPeriod

(* A date has a day number.                                                  *)
LEMMA DayNoInt == ASSUME NEW dt \in Dates PROVE DayNo(dt) \in Int
BY DEF DayNo, Dates

(* The interest of a period is an amount.                                    *)
LEMMA PeriodInterestInt ==
  ASSUME NEW b \in Int, NEW r \in Int, NEW d \in Int
  PROVE  PeriodInterest(b, r, d) \in Int
<1>1. b * (r * d) \in Int
  OBVIOUS
<1>2. \A a \in Int : (2 * a + 3600000) \div (2 * 3600000) \in Int
  OBVIOUS
<1> QED
  BY <1>1, <1>2 DEF PeriodInterest, RoundDiv

(* So is the level payment.                                                  *)
LEMMA LevelPaymentInt ==
  ASSUME TypeOK, Len(dates) > 0
  PROVE  LevelPayment \in Int
<1>1. input.balance \in Int /\ input.level \in Int
  BY InputsAssumption DEF TypeOK, InputOK
<1>2. \A a, b \in Int : b > 0 => (2 * a + b) \div (2 * b) \in Int
  OBVIOUS
<1>3. Len(dates) \in Int
  BY DEF TypeOK
<1> QED
  BY <1>1, <1>2, <1>3 DEF LevelPayment, RoundDiv

----------------------------------------------------------------------------
SchedInv == TypeOK /\ PrincipalConserved /\ PeriodsChain

(* A schedule not begun satisfies the invariant.                             *)
LEMMA InitInv == Init => SchedInv
<1> SUFFICES ASSUME Init PROVE SchedInv
  OBVIOUS
<1>1. InputOK(input)
  BY InputsAssumption DEF Init
<1>2. FirstDate(input) \in Dates
  BY <1>1, AddPeriodDate DEF FirstDate, InputOK, Real
<1> QED
  BY <1>1, <1>2 DEF Init, SchedInv, TypeOK, PrincipalConserved, PeriodsChain, InputOK

(* One more period: whatever part of the balance it takes, as long as it    *)
(* takes no more than there is, the books still balance.                    *)
LEMMA PushStep ==
  ASSUME SchedInv, stage = "periods",
         NEW principal \in Nat, principal <= balance,
         NEW interest \in Int,
         Push(principal, interest),
         \/ stage' = "periods" /\ ~IsLast
         \/ stage' = "done" /\ balance' = 0
  PROVE  SchedInv'
<1> DEFINE new == [number |-> Number, due |-> dates[Number], beginning |-> balance,
                   interest |-> interest, principal |-> principal,
                   ending |-> balance - principal]
<1>1. /\ balance \in Nat /\ scheduled \in Nat /\ dates \in Seq(Dates) /\ periods \in Seq(Period)
      /\ Len(periods) < Len(dates) /\ scheduled + balance = input.balance
  BY DEF SchedInv, TypeOK, PrincipalConserved
<1>2. Number = Len(periods) + 1 /\ Number \in 1 .. Len(dates) /\ dates[Number] \in Dates
  BY <1>1 DEF Number
<1>3. AtLeastZero(balance - principal) = balance - principal
  BY <1>1 DEF AtLeastZero
<1>4. /\ periods' = Append(periods, new)
      /\ balance' = balance - principal /\ scheduled' = scheduled + principal
      /\ UNCHANGED <<input, current, dates>>
  BY <1>3 DEF Push
<1>5. new \in Period
  BY <1>1, <1>2 DEF Period
<1> HIDE DEF new
<1>6. /\ periods' \in Seq(Period) /\ Len(periods') = Len(periods) + 1
      /\ periods'[Len(periods')] = new
      /\ \A n \in 1 .. Len(periods) : periods'[n] = periods[n]
      /\ DOMAIN periods' = 1 .. Len(periods')
  BY <1>1, <1>4, <1>5
<1>7. TypeOK'
  BY <1>1, <1>2, <1>4, <1>6 DEF SchedInv, TypeOK, IsLast
<1>8. PrincipalConserved'
  <2>1. periods' # << >>
    BY <1>1, <1>6
  <2> QED
    BY <1>1, <1>4, <1>6, <2>1 DEF PrincipalConserved, new
<1>9. PeriodsChain'
  <2> SUFFICES ASSUME NEW n \in 1 .. Len(periods')
               PROVE  /\ periods'[n].number = n /\ periods'[n].due = dates[n]
                      /\ periods'[n].principal <= periods'[n].beginning
                      /\ periods'[n].ending = periods'[n].beginning - periods'[n].principal
                      /\ n > 1 => periods'[n].beginning = periods'[n - 1].ending
    BY <1>4, <1>6 DEF PeriodsChain
  <2>1. CASE n \in 1 .. Len(periods)
    <3>1. n > 1 => n - 1 \in 1 .. Len(periods)
      BY <1>1, <2>1
    <3>2. periods'[n] = periods[n] /\ (n > 1 => periods'[n - 1] = periods[n - 1])
      BY <1>6, <2>1, <3>1
    <3>3. /\ periods[n].number = n /\ periods[n].due = dates[n]
          /\ periods[n].principal <= periods[n].beginning
          /\ periods[n].ending = periods[n].beginning - periods[n].principal
          /\ n > 1 => periods[n].beginning = periods[n - 1].ending
      BY <1>1, <2>1 DEF SchedInv, PeriodsChain
    <3> QED
      BY <3>2, <3>3
  <2>2. CASE n = Len(periods) + 1
    <3>1. periods'[n] = new /\ n = Number
      BY <1>2, <1>6, <2>2
    <3>2. ASSUME n > 1 PROVE periods'[n - 1].ending = balance
      <4>1. n - 1 = Len(periods) /\ Len(periods) \in 1 .. Len(periods) /\ periods # << >>
        BY <1>1, <2>2, <3>2
      <4> QED
        BY <1>6, <4>1 DEF SchedInv, PrincipalConserved
    <3> QED
      BY <3>1, <3>2 DEF new
  <2> QED
    BY <1>1, <1>6, <2>1, <2>2
<1> QED
  BY <1>7, <1>8, <1>9 DEF SchedInv

(* Every iteration keeps the invariant.                                      *)
LEMMA SchedStep == SchedInv /\ [Next]_vars => SchedInv'
<1> SUFFICES ASSUME SchedInv, [Next]_vars PROVE SchedInv'
  OBVIOUS
<1>1. /\ InputOK(input) /\ current \in Dates /\ dates \in Seq(Dates)
      /\ balance \in Nat /\ scheduled \in Nat /\ periods \in Seq(Period)
  BY InputsAssumption DEF SchedInv, TypeOK
<1>2. CASE AddDate
  <2>1. current' \in Dates
    BY <1>1, <1>2, AddPeriodDate DEF AddDate
  <2>2. dates' \in Seq(Dates) /\ periods = << >>
    BY <1>1, <1>2 DEF AddDate, SchedInv, PrincipalConserved
  <2> QED
    BY <1>1, <1>2, <2>1, <2>2
    DEF AddDate, SchedInv, TypeOK, PrincipalConserved, PeriodsChain
<1>3. CASE AddMaturity
  <2>1. input.maturity \in Dates
    BY <1>1 DEF InputOK, Real
  <2>2. dates' \in Seq(Dates) /\ Len(dates') > 0
    <3>1. CASE dates = << >> \/ DayNo(dates[Len(dates)]) # DayNo(input.maturity)
      BY <1>1, <1>3, <2>1, <3>1 DEF AddMaturity
    <3>2. CASE ~(dates = << >> \/ DayNo(dates[Len(dates)]) # DayNo(input.maturity))
      BY <1>1, <1>3, <3>2 DEF AddMaturity
    <3> QED
      BY <3>1, <3>2
  <2>3. periods = << >> /\ UNCHANGED <<input, current, balance, periods, scheduled>>
        /\ stage' = "periods"
    BY <1>3 DEF AddMaturity, SchedInv, PrincipalConserved
  <2>4. TypeOK'
    BY <1>1, <2>2, <2>3 DEF SchedInv, TypeOK
  <2>5. PrincipalConserved'
    BY <2>3 DEF SchedInv, PrincipalConserved
  <2>6. PeriodsChain'
    BY <2>3 DEF PeriodsChain
  <2> QED
    BY <2>4, <2>5, <2>6 DEF SchedInv
<1>4. ASSUME stage = "periods"
      PROVE  /\ Interest \in Int /\ Number \in 1 .. Len(dates)
             /\ Len(dates) > 0
  <2>1. Number \in 1 .. Len(dates) /\ Len(dates) > 0
    BY <1>1, <1>4 DEF Number, SchedInv, TypeOK
  <2>2. PrevDate \in Dates /\ dates[Number] \in Dates
    BY <1>1, <2>1 DEF PrevDate, Number, InputOK, Real
  <2>3. DaysBetween(PrevDate, dates[Number]) \in Int
    BY <2>2, DayNoInt DEF DaysBetween
  <2>4. balance \in Int /\ input.rate \in Int
    BY <1>1 DEF InputOK
  <2>5. PeriodInterest(balance, input.rate, DaysBetween(PrevDate, dates[Number])) \in Int
    BY <2>3, <2>4, PeriodInterestInt
  <2> QED
    BY <2>1, <2>5 DEF Interest
<1>5. CASE AmortizingPeriod
  <2> DEFINE principal == IF IsLast THEN balance
                          ELSE AtLeastZero(AtMost(LevelPayment - Interest, balance))
  <2>1. stage = "periods" /\ Push(principal, Interest)
        /\ stage' = IF IsLast \/ balance' <= 0 THEN "done" ELSE "periods"
    BY <1>5 DEF AmortizingPeriod
  <2>2. LevelPayment \in Int
    BY <1>4, <2>1, LevelPaymentInt DEF SchedInv
  <2>3. principal \in Nat /\ principal <= balance
    BY <1>1, <1>4, <2>1, <2>2 DEF AtLeastZero, AtMost
  <2>4. balance' = balance - principal /\ (IsLast => principal = balance)
    BY <1>1, <2>1, <2>3 DEF Push, AtLeastZero
  <2> HIDE DEF principal
  <2>5. \/ stage' = "periods" /\ ~IsLast
        \/ stage' = "done" /\ balance' = 0
    BY <1>1, <2>1, <2>3, <2>4
  <2> QED
    BY <1>4, <2>1, <2>3, <2>5, PushStep
<1>6. CASE BulletPeriod
  <2> DEFINE principal == IF IsLast THEN balance ELSE 0
  <2>1. stage = "periods" /\ Push(principal, Interest)
        /\ stage' = IF IsLast THEN "done" ELSE "periods"
    BY <1>6 DEF BulletPeriod
  <2>2. principal \in Nat /\ principal <= balance
    BY <1>1
  <2>3. balance' = balance - principal
    BY <1>1, <2>1, <2>2 DEF Push, AtLeastZero
  <2>4. \/ stage' = "periods" /\ ~IsLast
        \/ stage' = "done" /\ balance' = 0
    BY <1>1, <2>1, <2>3
  <2> HIDE DEF principal
  <2> QED
    BY <1>4, <2>1, <2>2, <2>4, PushStep
<1>7. CASE UNCHANGED vars
  BY <1>7 DEF vars, SchedInv, TypeOK, PrincipalConserved, PeriodsChain
<1> QED
  BY <1>2, <1>3, <1>5, <1>6, <1>7 DEF Next

----------------------------------------------------------------------------
(* Types, the conservation of principal and the chain of installments are   *)
(* one inductive invariant of the two loops of schedule.service.ts.         *)
THEOREM SchedulesAreSound == Spec => []SchedInv
BY InitInv, SchedStep, PTL DEF Spec

(* In particular the installments stay well formed, and no principal or     *)
(* balance ever becomes negative, whatever the level payment.               *)
THEOREM SchedulesAreWellFormed == Spec => []TypeOK
<1>1. SchedInv => TypeOK
  BY DEF SchedInv
<1> QED
  BY <1>1, SchedulesAreSound, PTL

(* Whatever amount the level-payment formula returns, a finished schedule   *)
(* repays exactly the balance it was built for.                             *)
THEOREM SchedulesRepay == Spec => []ScheduleRepaysBalance
<1>1. SchedInv => ScheduleRepaysBalance
  BY DEF SchedInv, TypeOK, PrincipalConserved, ScheduleRepaysBalance
<1> QED
  BY <1>1, SchedulesAreSound, PTL

(* Every installment starts from the balance the one before it left and     *)
(* asks for no more principal than that.                                    *)
THEOREM InstallmentsChain == Spec => []PeriodsChain
<1>1. SchedInv => PeriodsChain
  BY DEF SchedInv
<1> QED
  BY <1>1, SchedulesAreSound, PTL

----------------------------------------------------------------------------
(* Due dates *)

\* the day before the first of a month; days of the years and months before it,
\* the years counted from March
Start(y, m) == DayNo(Date(y, m, 0))
Years(y) == 365 * y + y \div 4 - y \div 100 + y \div 400
MonthStart(m) == (153 * ((m + 9) % 12) + 2) \div 5

(* A year number passes at most one multiple of four, a hundred, four       *)
(* hundred.                                                                 *)
LEMMA DivStep == ASSUME NEW y \in Int, NEW k \in {4, 100, 400}
  PROVE y \div k - (y - 1) \div k = IF y % k = 0 THEN 1 ELSE 0
<1>1. CASE k = 4 BY <1>1
<1>2. CASE k = 100 BY <1>2
<1>3. CASE k = 400 BY <1>3
<1> QED BY <1>1, <1>2, <1>3

(* A year counted from March has 366 days if it ends in a leap day.         *)
LEMMA YearLength == ASSUME NEW y \in Int
  PROVE Years(y) = Years(y - 1) + (IF Leap(y) THEN 366 ELSE 365) /\ Years(y) \in Int
<1>1. y \div 4 - (y - 1) \div 4 = IF y % 4 = 0 THEN 1 ELSE 0 BY DivStep
<1>2. y \div 100 - (y - 1) \div 100 = IF y % 100 = 0 THEN 1 ELSE 0 BY DivStep
<1>3. y \div 400 - (y - 1) \div 400 = IF y % 400 = 0 THEN 1 ELSE 0 BY DivStep
<1>4. (y % 400 = 0 => y % 100 = 0) /\ (y % 100 = 0 => y % 4 = 0)
  OBVIOUS
<1> QED BY <1>1, <1>2, <1>3, <1>4 DEF Years, Leap

(* The day before a month is its year and its place in the year.            *)
LEMMA StartIs == ASSUME NEW y \in Int, NEW m \in 1 .. 12
  PROVE Start(y, m) = Years(IF m <= 2 THEN y - 1 ELSE y) + MonthStart(m)
BY DEF Start, DayNo, Date, Years, MonthStart

(* The places of the months.                                                *)
LEMMA Months ==
  /\ MonthStart(3) = 0 /\ MonthStart(4) = 31 /\ MonthStart(5) = 61 /\ MonthStart(6) = 92
  /\ MonthStart(7) = 122 /\ MonthStart(8) = 153 /\ MonthStart(9) = 184 /\ MonthStart(10) = 214
  /\ MonthStart(11) = 245 /\ MonthStart(12) = 275 /\ MonthStart(1) = 306 /\ MonthStart(2) = 337
BY DEF MonthStart

(* A month has 28 to 31 days.                                               *)
LEMMA DaysInMonth == ASSUME NEW y \in Int, NEW m \in 1 .. 12
  PROVE DaysIn(y, m) \in 28 .. 31
BY DEF DaysIn

(* The next month begins as many days later as this one has, also in        *)
(* February and at the end of the year.                                     *)
LEMMA NextMonth ==
  ASSUME NEW y \in Int, NEW m \in 1 .. 12
  PROVE  /\ MonthAfter(y, m, 1).year \in Int /\ MonthAfter(y, m, 1).month \in 1 .. 12
         /\ Start(MonthAfter(y, m, 1).year, MonthAfter(y, m, 1).month)
              = Start(y, m) + DaysIn(y, m)
<1>1. CASE m = 12
  <2>1. MonthAfter(y, m, 1) = [year |-> y + 1, month |-> 1] BY <1>1 DEF MonthAfter
  <2>2. Start(y + 1, 1) = Years(y) + 306 BY StartIs, Months
  <2>3. Start(y, 12) = Years(y) + 275 BY StartIs, Months
  <2>4. DaysIn(y, 12) = 31 BY DEF DaysIn
  <2> QED BY <1>1, <2>1, <2>2, <2>3, <2>4, YearLength
<1>2. CASE m \in 1 .. 11
  <2>1. MonthAfter(y, m, 1) = [year |-> y, month |-> m + 1] BY <1>2 DEF MonthAfter
  <2>2. CASE m = 2
    <3>i. Years(y) \in Int /\ Years(y - 1) \in Int BY YearLength
    <3>a. Start(y, 3) = Years(y) + 0 BY StartIs, Months
    <3>1. Start(y, 3) = Years(y) /\ Start(y, 2) = Years(y - 1) + 337 BY <3>i, <3>a, StartIs, Months
    <3>2. DaysIn(y, 2) = IF Leap(y) THEN 29 ELSE 28 BY DEF DaysIn
    <3> QED BY <1>2, <2>1, <2>2, <3>1, <3>2, YearLength
  <2>3. CASE m = 1
    <3>1. Start(y, 2) = Years(y - 1) + 337 /\ Start(y, 1) = Years(y - 1) + 306
      BY StartIs, Months
    <3>2. DaysIn(y, 1) = 31 BY DEF DaysIn
    <3> QED BY <1>2, <2>1, <2>3, <3>1, <3>2, YearLength
  <2>4. CASE m \in 3 .. 11
    <3>1. Start(y, m) = Years(y) + MonthStart(m) /\ Start(y, m + 1) = Years(y) + MonthStart(m + 1)
      BY <2>4, StartIs
    <3>2. MonthStart(m + 1) = MonthStart(m) + DaysIn(y, m) /\ MonthStart(m) \in Int
      BY <2>4, Months DEF DaysIn
    <3>3. Years(y) \in Int BY YearLength
    <3>4. DaysIn(y, m) \in 28 .. 31 BY DaysInMonth
    <3>5. Start(y, m + 1) = Start(y, m) + DaysIn(y, m) BY <3>1, <3>2, <3>3, <3>4
    <3> QED BY <2>1, <2>4, <3>5
  <2> QED BY <1>2, <2>2, <2>3, <2>4
<1> QED BY <1>1, <1>2

(* A month begins on a day.                                                 *)
LEMMA StartInt == ASSUME NEW y \in Int, NEW m \in Int PROVE Start(y, m) \in Int
BY DEF Start, DayNo, Date

(* A date is its day counted from there.                                    *)
LEMMA DayIs == ASSUME NEW y \in Int, NEW m \in 1 .. 12, NEW d \in Int
  PROVE  DayNo(Date(y, m, d)) = Start(y, m) + d
BY DEF Start, DayNo, Date

(* A day the month does not have becomes a date of the next month, and as   *)
(* many days later as it says.                                              *)
LEMMA CarryDay ==
  ASSUME NEW y \in Int, NEW m \in 1 .. 12, NEW d \in 1 .. 45
  PROVE  Real(Carry(y, m, d)) /\ DayNo(Carry(y, m, d)) = Start(y, m) + d
<1>1. DaysIn(y, m) \in 28 .. 31 BY DaysInMonth
<1>2. CASE d <= DaysIn(y, m)
  <2>1. Carry(y, m, d) = Date(y, m, d) BY <1>2 DEF Carry
  <2>2. DayNo(Date(y, m, d)) = Start(y, m) + d BY DayIs
  <2>3. Real(Date(y, m, d)) BY <1>1, <1>2 DEF Real, Date, Dates
  <2> QED BY <2>1, <2>2, <2>3
<1>3. CASE d > DaysIn(y, m)
  <2> DEFINE a == MonthAfter(y, m, 1).year
             b == MonthAfter(y, m, 1).month
             e == d - DaysIn(y, m)
  <2>1. a \in Int /\ b \in 1 .. 12 /\ Start(a, b) = Start(y, m) + DaysIn(y, m) BY NextMonth
  <2>2. Carry(y, m, d) = Date(a, b, e) BY <1>1, <1>3 DEF Carry
  <2>3. e \in 1 .. 17 BY <1>1, <1>3
  <2>4. Start(y, m) \in Int BY StartInt
  <2> HIDE DEF a, b
  <2>5. DaysIn(a, b) \in 28 .. 31 BY <2>1, DaysInMonth
  <2>6. DayNo(Date(a, b, e)) = Start(a, b) + e BY <2>1, <2>3, DayIs
  <2>7. DayNo(Date(a, b, e)) = Start(y, m) + d BY <1>1, <2>1, <2>4, <2>6
  <2>8. Real(Date(a, b, e)) BY <2>1, <2>3, <2>5 DEF Real, Date, Dates
  <2> QED BY <2>2, <2>7, <2>8
<1> QED BY <1>1, <1>2, <1>3

(* A month that comes later begins later.                                   *)
LEMMA MonthsLater ==
  ASSUME NEW y \in Int, NEW m \in 1 .. 12, NEW n \in 1 .. 12
  PROVE  LET to == MonthAfter(y, m, n) IN
         to.year \in Int /\ to.month \in 1 .. 12 /\ Start(y, m) < Start(to.year, to.month)
<1> DEFINE At(k) == MonthAfter(y, m, k)
           S(k) == Start(At(k).year, At(k).month)
<1>1. ASSUME NEW k \in 0 .. 12 PROVE At(k).year \in Int /\ At(k).month \in 1 .. 12
  BY DEF MonthAfter
<1>2. ASSUME NEW k \in 0 .. 11 PROVE At(k + 1) = MonthAfter(At(k).year, At(k).month, 1)
  BY DEF MonthAfter
<1>3. ASSUME NEW k \in 0 .. 11 PROVE S(k) < S(k + 1)
  <2>1. S(k + 1) = S(k) + DaysIn(At(k).year, At(k).month)
    <3>1. At(k).year \in Int /\ At(k).month \in 1 .. 12 BY <1>1
    <3>2. At(k + 1) = MonthAfter(At(k).year, At(k).month, 1) BY <1>2
    <3> HIDE DEF At
    <3> QED BY <3>1, <3>2, NextMonth
  <2>2. DaysIn(At(k).year, At(k).month) \in 28 .. 31 BY <1>1, DaysInMonth
  <2>3. S(k) \in Int
    <3>1. At(k).year \in Int /\ At(k).month \in Int BY <1>1
    <3> HIDE DEF At
    <3> QED BY <3>1, StartInt
  <2> HIDE DEF S, At
  <2> QED BY <2>1, <2>2, <2>3
<1>4. At(0).year = y /\ At(0).month = m BY DEF MonthAfter
<1>5. ASSUME NEW k \in 0 .. 12 PROVE S(k) \in Int
  <2>1. At(k).year \in Int /\ At(k).month \in Int BY <1>1
  <2> HIDE DEF At
  <2> QED BY <2>1, StartInt
<1>6. S(0) = Start(y, m) BY <1>4
<1> HIDE DEF S
<1>7. S(0) < S(1) /\ S(1) < S(2) /\ S(2) < S(3) BY <1>3
<1>8. S(3) < S(4) /\ S(4) < S(5) /\ S(5) < S(6) BY <1>3
<1>9. S(6) < S(7) /\ S(7) < S(8) /\ S(8) < S(9) BY <1>3
<1>10. S(9) < S(10) /\ S(10) < S(11) /\ S(11) < S(12) BY <1>3
<1>11. S(0) < S(n) BY <1>5, <1>7, <1>8, <1>9, <1>10
<1> QED BY <1>1, <1>6, <1>11 DEF S

(* addPeriod leads from a date of the calendar to a later date of the       *)
(* calendar, leap days, short months and ends of the year included.         *)
LEMMA AddPeriodLater ==
  ASSUME NEW dt, Real(dt),
         NEW f \in {"DAILY", "WEEKLY", "BIWEEKLY", "MONTHLY", "QUARTERLY", "SEMIANNUAL", "ANNUAL"}
  PROVE  Real(AddPeriod(dt, f)) /\ DayNo(dt) < DayNo(AddPeriod(dt, f))
<1> DEFINE y == dt.year
           m == dt.month
           d == dt.day
<1>1. /\ y \in Int /\ m \in 1 .. 12 /\ d \in 1 .. 31 /\ dt = Date(y, m, d)
  BY DaysInMonth DEF Real, Dates, Date
<1>2. DayNo(dt) = Start(y, m) + d /\ Start(y, m) \in Int
  <2> HIDE DEF y, m, d
  <2>1. DayNo(Date(y, m, d)) = Start(y, m) + d BY <1>1, DayIs
  <2>2. Start(y, m) \in Int BY <1>1, StartInt
  <2> QED BY <1>1, <2>1, <2>2
<1>3. ASSUME NEW n \in {1, 7, 14} PROVE Real(AddDays(dt, n)) /\ DayNo(dt) < DayNo(AddDays(dt, n))
  <2>1. AddDays(dt, n) = Carry(y, m, d + n) BY DEF AddDays
  <2>2. d + n \in 1 .. 45 BY <1>1
  <2>3. DayNo(Carry(y, m, d + n)) = Start(y, m) + (d + n) /\ Real(Carry(y, m, d + n))
    BY <1>1, <2>2, CarryDay
  <2> HIDE DEF y, m, d
  <2> QED BY <1>1, <1>2, <2>1, <2>3
<1>4. ASSUME NEW n \in {1, 3, 6, 12} PROVE Real(AddMonths(dt, n)) /\ DayNo(dt) < DayNo(AddMonths(dt, n))
  <2> DEFINE a == MonthAfter(y, m, n).year
             b == MonthAfter(y, m, n).month
  <2>1. AddMonths(dt, n) = Carry(a, b, d) BY DEF AddMonths
  <2>2. a \in Int /\ b \in 1 .. 12 /\ Start(y, m) < Start(a, b)
    <3> HIDE DEF y, m, d
    <3>1. n \in 1 .. 12 OBVIOUS
    <3> QED BY <1>1, <3>1, MonthsLater
  <2> HIDE DEF a, b, y, m, d
  <2>3. d \in 1 .. 45 BY <1>1
  <2>4. DayNo(Carry(a, b, d)) = Start(a, b) + d /\ Real(Carry(a, b, d)) BY <2>2, <2>3, CarryDay
  <2>5. Start(a, b) \in Int BY <2>2, StartInt
  <2> QED BY <1>1, <1>2, <2>1, <2>2, <2>4, <2>5
<1> QED BY <1>3, <1>4 DEF AddPeriod

(* The dates go forward and stay before the maturity until it is added.     *)
DatesInv ==
  /\ Real(current)
  /\ stage = "dates" /\ dates # << >> =>
       /\ DayNo(dates[Len(dates)]) < DayNo(current)
       /\ DayNo(dates[Len(dates)]) < DayNo(input.maturity)
  /\ stage # "dates" => dates # << >>
  /\ DueDatesAdvance

(* No date is listed at the beginning, and the first one exists.            *)
LEMMA InitDates == Init => DatesInv
<1> SUFFICES ASSUME Init PROVE DatesInv
  OBVIOUS
<1>1. InputOK(input)
  BY InputsAssumption DEF Init
<1>2. \A f \in Frequencies \ {"BULLET"} : Real(AddPeriod(input.origination, f))
  BY <1>1, AddPeriodLater DEF Frequencies, InputOK
<1>3. Real(FirstDate(input))
  BY <1>1, <1>2 DEF FirstDate, InputOK, Frequencies
<1> QED
  BY <1>3 DEF Init, DatesInv, DueDatesAdvance

(* One more date at the end of a list that goes forward.                    *)
LEMMA LaterDate ==
  ASSUME NEW ds \in Seq(Dates), NEW dt \in Dates,
         \A n \in 2 .. Len(ds) : DayNo(ds[n - 1]) < DayNo(ds[n]),
         ds # << >> => DayNo(ds[Len(ds)]) < DayNo(dt)
  PROVE  LET more == Append(ds, dt) IN
         /\ more # << >> /\ more[Len(more)] = dt
         /\ \A n \in 2 .. Len(more) : DayNo(more[n - 1]) < DayNo(more[n])
<1> DEFINE more == Append(ds, dt)
<1>1. /\ Len(more) = Len(ds) + 1 /\ more[Len(ds) + 1] = dt /\ more # << >>
      /\ \A n \in 1 .. Len(ds) : more[n] = ds[n]
  <2>1. Len(more) = Len(ds) + 1 /\ more[Len(ds) + 1] = dt
    OBVIOUS
  <2>2. \A n \in 1 .. Len(ds) : more[n] = ds[n]
    OBVIOUS
  <2>3. more # << >>
    <3>1. Len(ds) \in Nat /\ Len(<< >>) = 0
      OBVIOUS
    <3> HIDE DEF more
    <3> QED
      BY <2>1, <3>1
  <2> QED
    BY <2>1, <2>2, <2>3
<1>2. Len(ds) \in Nat /\ (Len(ds) > 0 => ds # << >>)
  OBVIOUS
<1> HIDE DEF more
<1>3. ASSUME NEW n \in 2 .. Len(more) PROVE DayNo(more[n - 1]) < DayNo(more[n])
  <2>1. CASE n \in 2 .. Len(ds)
    <3>1. more[n] = ds[n] /\ more[n - 1] = ds[n - 1]
      BY <1>1, <1>2, <2>1
    <3> QED
      BY <2>1, <3>1
  <2>2. CASE n = Len(ds) + 1
    <3>1. more[n] = dt /\ n - 1 = Len(ds) /\ Len(ds) > 0
      BY <1>1, <1>2, <2>2
    <3>2. more[n - 1] = ds[Len(ds)]
      BY <1>1, <1>2, <3>1
    <3> QED
      BY <1>2, <3>1, <3>2
  <2> QED
    BY <1>1, <1>2, <2>1, <2>2
<1>4. more # << >> /\ more[Len(more)] = dt
  BY <1>1
<1> QED
  BY <1>3, <1>4 DEF more

(* The loop adds the date it holds and goes on to a later one; the builders *)
(* leave the dates alone.                                                   *)
LEMMA DatesStep == TypeOK /\ DatesInv /\ [Next]_vars => DatesInv'
<1> SUFFICES ASSUME TypeOK, DatesInv, [Next]_vars PROVE DatesInv'
  OBVIOUS
<1>1. /\ InputOK(input) /\ Real(current) /\ current \in Dates /\ dates \in Seq(Dates)
      /\ Real(input.maturity) /\ input.maturity \in Dates
  BY InputsAssumption DEF TypeOK, DatesInv, InputOK, Real
<1>2. \A n \in 2 .. Len(dates) : DayNo(dates[n - 1]) < DayNo(dates[n])
  BY DEF DatesInv, DueDatesAdvance
<1>3. CASE AddDate
  <2> DEFINE f == IF Bullet THEN "MONTHLY" ELSE input.frequency
  <2>1. /\ stage = "dates" /\ stage' = "dates" /\ input' = input
        /\ DayNo(current) < DayNo(input.maturity)
        /\ dates' = Append(dates, current) /\ current' = AddPeriod(current, f)
    BY <1>3 DEF AddDate
  <2>2. f \in Frequencies \ {"BULLET"}
    BY <1>1 DEF Bullet, InputOK, Frequencies
  <2>3. Real(current') /\ DayNo(current) < DayNo(current')
    <3> HIDE DEF f
    <3>1. f \in {"DAILY", "WEEKLY", "BIWEEKLY", "MONTHLY", "QUARTERLY", "SEMIANNUAL", "ANNUAL"}
      BY <2>2 DEF Frequencies
    <3> QED
      BY <1>1, <2>1, <3>1, AddPeriodLater
  <2>4. dates # << >> => DayNo(dates[Len(dates)]) < DayNo(current)
    BY <2>1 DEF DatesInv
  <2>5. /\ dates' # << >> /\ dates'[Len(dates')] = current
        /\ \A n \in 2 .. Len(dates') : DayNo(dates'[n - 1]) < DayNo(dates'[n])
    BY <1>1, <1>2, <2>1, <2>4, LaterDate
  <2> QED
    BY <2>1, <2>3, <2>5 DEF DatesInv, DueDatesAdvance
<1>4. CASE AddMaturity
  <2>1. /\ stage = "dates" /\ stage' = "periods" /\ input' = input /\ current' = current
        /\ dates' = IF dates = << >> \/ DayNo(dates[Len(dates)]) # DayNo(input.maturity)
                      THEN Append(dates, input.maturity) ELSE dates
    BY <1>4 DEF AddMaturity
  <2>2. dates # << >> => DayNo(dates[Len(dates)]) < DayNo(input.maturity)
    BY <2>1 DEF DatesInv
  <2>3. dates' = Append(dates, input.maturity)
    <3>1. CASE dates = << >>
      BY <2>1, <3>1
    <3>2. CASE dates # << >>
      <4>1. dates[Len(dates)] \in Dates
        BY <1>1, <3>2
      <4>2. DayNo(dates[Len(dates)]) \in Int /\ DayNo(input.maturity) \in Int
        BY <1>1, <4>1, DayNoInt
      <4> QED
        BY <2>1, <2>2, <3>2, <4>2
    <3> QED
      BY <3>1, <3>2
  <2>4. /\ dates' # << >> /\ dates'[Len(dates')] = input.maturity
        /\ \A n \in 2 .. Len(dates') : DayNo(dates'[n - 1]) < DayNo(dates'[n])
    BY <1>1, <1>2, <2>2, <2>3, LaterDate
  <2> QED
    BY <1>1, <2>1, <2>4 DEF DatesInv, DueDatesAdvance
<1>5. CASE AmortizingPeriod \/ BulletPeriod
  <2>1. stage = "periods" /\ stage' # "dates" /\ UNCHANGED <<input, current, dates>>
    BY <1>5 DEF AmortizingPeriod, BulletPeriod, Push
  <2> QED
    BY <2>1 DEF DatesInv, DueDatesAdvance
<1>6. CASE UNCHANGED vars
  BY <1>6 DEF vars, DatesInv, DueDatesAdvance
<1> QED
  BY <1>3, <1>4, <1>5, <1>6 DEF Next

(* For every loan of the calendar and every frequency the due dates go      *)
(* strictly forward and the last one is the maturity.                       *)
THEOREM DueDatesGoForward == Spec => []DueDatesAdvance
<1>1. SchedInv /\ DatesInv /\ [Next]_vars => SchedInv' /\ DatesInv'
  BY SchedStep, DatesStep DEF SchedInv
<1>2. DatesInv => DueDatesAdvance
  BY DEF DatesInv
<1> QED
  BY <1>1, <1>2, InitInv, InitDates, PTL DEF Spec
=============================================================================
