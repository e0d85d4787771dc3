------------------------------ MODULE PlanTerms ------------------------------
(***************************************************************************)
(* What a payment plan asks for, when, and whether it is being kept        *)
(* (services/payment-plan: splitInstallments, scheduleAmounts,             *)
(* planProgress).                                                          *)
(*                                                                         *)
(* Amounts are whole cents and dates whole days.  addPeriods is a fixed    *)
(* number of days here; a calendar month is not, and all that is used of   *)
(* it is that the dates of a schedule increase.                            *)
(***************************************************************************)
EXTENDS Integers, FiniteSets

CONSTANTS
  Period,              \* days between two payments (installment_frequency)
  GraceDays,           \* days before a late payment counts as missed
  MissedBeforeDefault, \* missed payments that break a plan
  PartialCounts        \* partial_installment_counts

ASSUME PeriodAssumption == Period \in Nat \ {0}
ASSUME GraceAssumption == GraceDays \in Nat
ASSUME MissedAssumption == MissedBeforeDefault \in Nat \ {0}
ASSUME PartialAssumption == PartialCounts \in BOOLEAN

\* The columns frozen when the plan is agreed.  base is installment_amount.
Schedule == [total : Nat, down : Nat, base : Nat, count : Nat, start : Nat]

\* splitInstallments: equal instalments, rounded down ...
Base(remainder, count) == remainder \div count

\* ... and the remainder of the rounding on the first one.
First(plan) == plan.total - plan.down - plan.base * (plan.count - 1)

\* Payment 0 is the down payment, payments 1..count are the instalments.
Payments(plan) == 0..plan.count

\* What payments 0..i ask for together: scheduleAmounts, added up.
Asked(plan, i) ==
  IF i = 0 THEN plan.down ELSE plan.down + First(plan) + (i - 1) * plan.base

DueDate(plan, i) == plan.start + i * Period

\* The payments whose date has arrived.
Due(plan, today) == {i \in Payments(plan) : DueDate(plan, i) <= today}

Met(plan, i, paid) ==
  IF PartialCounts
    THEN paid > (IF i = 0 THEN 0 ELSE Asked(plan, i - 1))
    ELSE paid >= Asked(plan, i)

\* Late: the date has passed, not only arrived.
Late(plan, paid, today) ==
  {i \in Due(plan, today) : ~Met(plan, i, paid) /\ DueDate(plan, i) # today}

\* Mutant: missed on the last grace day.
MissedInGrace(plan, paid, today) ==
  {i \in Late(plan, paid, today) : DueDate(plan, i) + GraceDays <= today}

\* Missed: the grace days have passed too.
Missed(plan, paid, today) ==
  {i \in Late(plan, paid, today) : DueDate(plan, i) + GraceDays < today}

Broken(plan, paid, today) ==
  Cardinality(Missed(plan, paid, today)) >= MissedBeforeDefault
=============================================================================
