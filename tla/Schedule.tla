------------------------------ MODULE Schedule ------------------------------
(***************************************************************************)
(* How schedule.service.ts builds the repayment schedule of a loan: the    *)
(* loop that generates the payment dates, then the loop that splits the    *)
(* balance over them (amortizing or bullet).  One step is one iteration.   *)
(*                                                                         *)
(* Money is in 1/10000 dollar, the precision every amount is rounded to;   *)
(* rates are in basis points.  The closed formula of the level payment     *)
(* (powers of a floating-point rate) is abstracted to an arbitrary amount: *)
(* what is checked holds whatever it returns.                              *)
(***************************************************************************)
EXTENDS Calendar, Sequences

CONSTANT Inputs   \* loans to schedule, see InputOK
CONSTANT NoDate   \* first_payment_date is NULL

Frequencies == {"DAILY", "WEEKLY", "BIWEEKLY", "MONTHLY", "QUARTERLY", "SEMIANNUAL", "ANNUAL",
                "BULLET"}

InputOK(in) ==
  /\ in.frequency \in Frequencies
  /\ in.balance \in Nat      \* outstandingBalance || loanAmount
  /\ in.rate \in Nat         \* getEffectiveRate
  /\ in.level \in Int        \* what the formula of calculateLevelPayment gives
  /\ Real(in.origination) /\ Real(in.maturity)
  /\ Real(in.first) \/ in.first = NoDate

ASSUME InputsAssumption == \A in \in Inputs : InputOK(in)

VARIABLES
  input,     \* the loan
  stage,     \* "dates", "periods" or "done"
  current,   \* loop variable of generatePaymentDates
  dates,     \* paymentDates
  balance,   \* loop variable of the builders
  periods,   \* the schedule under construction
  scheduled  \* history: principal scheduled so far

vars == <<input, stage, current, dates, balance, periods, scheduled>>

----------------------------------------------------------------------------
Bullet == input.frequency = "BULLET"

\* Math.round(a / b) for b > 0
RoundDiv(a, b) == (2 * a + b) \div (2 * b)

\* calculatePeriodInterest
PeriodInterest(bal, rate, days) == RoundDiv(bal * (rate * days), 3600000)

\* the two branches without a rate divide the principal; the other is abstract
LevelPayment ==
  IF input.rate = 0 \/ DaysBetween(input.origination, input.maturity) = 0
    THEN RoundDiv(input.balance, Len(dates))
    ELSE input.level

FirstDate(in) ==
  IF in.frequency = "BULLET" THEN AddPeriod(in.origination, "MONTHLY")
  ELSE IF in.first = NoDate THEN AddPeriod(in.origination, in.frequency) ELSE in.first

Init ==
  /\ input \in Inputs
  /\ stage = "dates"
  /\ current = FirstDate(input)
  /\ dates = << >>
  /\ balance = input.balance
  /\ periods = << >>
  /\ scheduled = 0

(* generatePaymentDates *)
AddDate ==
  /\ stage = "dates" /\ DayNo(current) < DayNo(input.maturity)
  /\ dates' = Append(dates, current)
  /\ current' = AddPeriod(current, IF Bullet THEN "MONTHLY" ELSE input.frequency)
  /\ UNCHANGED <<input, stage, balance, periods, scheduled>>

AddMaturity ==
  /\ stage = "dates" /\ ~(DayNo(current) < DayNo(input.maturity))
  /\ dates' = IF dates = << >> \/ DayNo(dates[Len(dates)]) # DayNo(input.maturity)
                THEN Append(dates, input.maturity) ELSE dates
  /\ stage' = "periods"
  /\ UNCHANGED <<input, current, balance, periods, scheduled>>

----------------------------------------------------------------------------
(* the period being built *)
Number   == Len(periods) + 1
IsLast   == Number = Len(dates)
PrevDate == IF periods = << >> THEN input.origination ELSE dates[Number - 1]
Interest == PeriodInterest(balance, input.rate, DaysBetween(PrevDate, dates[Number]))

\* slips: no Math.max(0, ...), no Math.min(..., balance)
Unclamped(x)    == x

AtLeastZero(x) == IF x < 0 THEN 0 ELSE x
AtMost(x, y)   == IF x < y THEN x ELSE y

\* slip: the balance is reduced before the period is recorded
PushReduced(principal, interest) ==
  /\ periods' = Append(periods,
       [number |-> Number, due |-> dates[Number], beginning |-> AtLeastZero(balance - principal),
        interest |-> interest, principal |-> principal,
        ending |-> AtLeastZero(balance - principal)])
  /\ balance' = AtLeastZero(balance - principal)
  /\ scheduled' = scheduled + principal
  /\ UNCHANGED <<input, current, dates>>

Push(principal, interest) ==
  /\ periods' = Append(periods,
       [number |-> Number, due |-> dates[Number], beginning |-> balance,
        interest |-> interest, principal |-> principal,
        ending |-> AtLeastZero(balance - principal)])
  /\ balance' = AtLeastZero(balance - principal)
  /\ scheduled' = scheduled + principal
  /\ UNCHANGED <<input, current, dates>>

\* slips: the last period takes a level payment like the others; a payment that
\* does not cover the interest is not handled
AmortizingPeriodLevel ==
  LET principal == AtLeastZero(AtMost(LevelPayment - Interest, balance)) IN
  /\ stage = "periods" /\ ~Bullet
  /\ Push(principal, Interest)
  /\ stage' = IF IsLast \/ balance' <= 0 THEN "done" ELSE "periods"
AmortizingPeriodCovered ==
  LET principal == IF IsLast THEN balance ELSE AtMost(LevelPayment - Interest, balance) IN
  /\ stage = "periods" /\ ~Bullet /\ principal >= 0
  /\ Push(principal, Interest)
  /\ stage' = IF IsLast \/ balance' <= 0 THEN "done" ELSE "periods"

AmortizingPeriod ==
  LET principal == IF IsLast THEN balance
                   ELSE AtLeastZero(AtMost(LevelPayment - Interest, balance))
  IN
  /\ stage = "periods" /\ ~Bullet
  /\ Push(principal, Interest)
  /\ stage' = IF IsLast \/ balance' <= 0 THEN "done" ELSE "periods"

BulletPeriod ==
  /\ stage = "periods" /\ Bullet
  /\ Push(IF IsLast THEN balance ELSE 0, Interest)
  /\ stage' = IF IsLast THEN "done" ELSE "periods"

Next == AddDate \/ AddMaturity \/ AmortizingPeriod \/ BulletPeriod

Spec == Init /\ [][Next]_vars
FairSpec == Spec /\ WF_vars(Next)

----------------------------------------------------------------------------
(* Properties *)

Period == [number : Nat, due : Dates, beginning : Nat, interest : Int, principal : Nat,
           ending : Nat]

TypeOK ==
  /\ input \in Inputs
  /\ stage \in {"dates", "periods", "done"}
  /\ current \in Dates
  /\ dates \in Seq(Dates)
  /\ balance \in Nat
  /\ periods \in Seq(Period)
  /\ scheduled \in Nat
  /\ stage = "periods" => Len(periods) < Len(dates)

(* Whatever the level payment, the finished schedule repays exactly the     *)
(* balance it was built for.                                                *)
ScheduleRepaysBalance ==
  stage = "done" =>
    /\ scheduled = input.balance
    /\ periods # << >> /\ periods[Len(periods)].ending = 0

(* Inductive form: what is scheduled and what is left make the balance.     *)
PrincipalConserved ==
  /\ scheduled + balance = input.balance
  /\ stage = "dates" => periods = << >>
  /\ stage = "done" => balance = 0 /\ periods # << >>
  /\ periods # << >> => periods[Len(periods)].ending = balance

(* Each installment takes up the balance the one before it left, and none   *)
(* asks for more principal than is owed.                                    *)
PeriodsChain ==
  \A n \in DOMAIN periods :
    /\ periods[n].number = n /\ periods[n].due = dates[n]
    /\ periods[n].principal <= periods[n].beginning
    /\ periods[n].ending = periods[n].beginning - periods[n].principal
    /\ n > 1 => periods[n].beginning = periods[n - 1].ending

(* Due dates go strictly forward, also where a month is too short for the   *)
(* day and the date is carried into the next one, and end at maturity.      *)
DueDatesAdvance ==
  /\ \A n \in 2 .. Len(dates) : DayNo(dates[n - 1]) < DayNo(dates[n])
  /\ stage # "dates" => dates[Len(dates)] = input.maturity

(* The two loops end: addPeriod always advances and the last date repays.   *)
Terminates == <>(stage = "done")
=============================================================================
