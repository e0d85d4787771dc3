----------------------------- MODULE PaymentPlan -----------------------------
(***************************************************************************)
(* The payment plans of ONE account, from agreement to end                 *)
(* (services/payment-plan/create.ts and lifecycle.ts), under the nightly   *)
(* sweep, operators who agree and cancel, and a ledger whose open amounts  *)
(* move at any time.                                                       *)
(*                                                                         *)
(* Agreeing takes the account's lock and is one action.  The sweep takes   *)
(* no lock: each of its queries and each of its updates is an action, and  *)
(* everything else happens in between.  So does a cancellation, which      *)
(* reads the status and writes it in two statements of a transaction that  *)
(* locks nothing it read.                                                  *)
(***************************************************************************)
EXTENDS PlanTerms, Sequences, Sums

CONSTANTS
  MaxDebits,       \* bound: debits the account's bills will post
  Arrears,         \* the debits already open when the behaviour begins
  Sweeper,         \* the jobs that may run the sweep
  MaxDay,          \* bound: days
  MaxPlans,        \* bound: plans ever agreed
  MaxCrashes,      \* bound: sweeps that die
  Face,            \* bound: the amount of a debit, in cents
  DaysToPay,       \* a bill's due date, counted from its posting
  MaxStartDays,    \* how far ahead the first payment may be set
  Counts,          \* the instalment counts the tenant allows
  Downs,           \* bound: down payments, in cents
  CurrentBillCounts, AllowSecondPlan   \* the terms of the same names

ASSUME FaceAssumption == {Face, MaxDebits, MaxPlans, MaxCrashes} \subseteq Nat
ASSUME ArrearsAssumption == Arrears \subseteq 1..MaxDebits
ASSUME CountsAssumption == Counts \subseteq Nat \ {0}
ASSUME DownsAssumption == Downs \subseteq Nat
ASSUME DaysAssumption == {DaysToPay, MaxStartDays, MaxDay} \subseteq Nat

PlanStatus == {"ACTIVE", "COMPLETED", "DEFAULTED", "CANCELLED"}
Debit == 1..MaxDebits
PlanId == 1..MaxPlans
MaxCount == CHOOSE n \in Counts : \A m \in Counts : m <= n
Payment == 0..MaxCount
Unposted == -1   \* a debit that is not there yet
NoNotice == -1   \* late_notice_installment IS NULL

VARIABLES
  day,      \* the calendar
  due,      \* due_date of each debit
  open,     \* open_amount of each debit
  plans,    \* the account's plans, in the order they were agreed
  sweep,    \* each sweep, where it stands and what it has read
  reading,  \* the plans some cancellation has read as ACTIVE
  crashes,  \* bound: sweeps that have died
  seen      \* no part of the program: the plans that were settled, and the
            \* plans that were behind, in some state since a sweep began

vars == <<day, due, open, plans, sweep, reading, crashes, seen>>
account == <<due, open>>

\* The day it judges by, the ids it found satisfied, those it has yet to
\* close or to judge, and of the plan in hand what it has found.
SweepState ==
  [pc : {"idle", "close", "live", "bill", "decide", "mark"},
   asOf : 0..MaxDay, todo : SUBSET PlanId, satisfied : SUBSET PlanId,
   plan : {0} \union PlanId,
   noticed : UNION {[S -> Payment \union {NoNotice}] : S \in SUBSET PlanId},
   late : 0..(MaxCount + 1), watermark : Payment \union {NoNotice}, broken : BOOLEAN]

AtRest == [pc |-> "idle", asOf |-> 0, todo |-> {}, satisfied |-> {},
           plan |-> 0, noticed |-> <<>>, late |-> 0, watermark |-> -1,
           broken |-> FALSE]

TypeOK ==
  /\ day \in 0..MaxDay
  /\ due \in [Debit -> Unposted..(MaxDay + DaysToPay)]
  /\ open \in [Debit -> 0..Face]
  /\ Len(plans) <= MaxPlans
  /\ \A p \in DOMAIN plans :
       /\ plans[p].status \in PlanStatus
       /\ plans[p].covers \subseteq Debit
       /\ plans[p].terms \in Schedule /\ plans[p].terms.base > 0
       /\ plans[p].noticed \in Payment \union {NoNotice}
  /\ sweep \in [Sweeper -> SweepState]
  /\ reading \subseteq PlanId
-----------------------------------------------------------------------------
(***************************************************************************)
(* What the queries of the sweep return.                                   *)
(***************************************************************************)
Active == {p \in DOMAIN plans : plans[p].status = "ACTIVE"}
OpenOn(covers) ==
  SumTo([d \in Debit |-> IF d \in covers THEN open[d] ELSE 0], MaxDebits)
StillOpen(p) == OpenOn(plans[p].covers)

\* Mutant: a plan ends with its last date, not with its last debt.
SatisfiedAtItsEnd ==
  {p \in Active : StillOpen(p) = 0
                  /\ DueDate(plans[p].terms, plans[p].terms.count) <= day}

\* satisfiedPlanIds
Satisfied == {p \in Active : StillOpen(p) = 0}

\* paidTowardPlan: what has gone from the covered debits, however it went
PaidToward(p) == LET gone == plans[p].terms.total - StillOpen(p)
                 IN IF gone > 0 THEN gone ELSE 0

\* the debits some live plan covers
CoveredNow == UNION {plans[p].covers : p \in Active}

\* hasUncoveredPastDue
UncoveredPastDue(asOf) ==
  \E d \in Debit \ CoveredNow :
    open[d] > 0 /\ due[d] # Unposted /\ due[d] < asOf - GraceDays
-----------------------------------------------------------------------------
(***************************************************************************)
(* The ledger and the calendar.                                            *)
(***************************************************************************)
PostBill(d) ==
  /\ due[d] = Unposted
  /\ due' = [due EXCEPT ![d] = day + DaysToPay]
  /\ open' = [open EXCEPT ![d] = Face]
  /\ UNCHANGED <<day, plans, sweep, reading, crashes>>

\* A payment, a waiver, a write-off, a reversal: what is open on one debit
\* becomes something else.
LedgerMoves(d, amount) ==
  /\ due[d] # Unposted /\ open[d] # amount
  /\ open' = [open EXCEPT ![d] = amount]
  /\ UNCHANGED <<day, due, plans, sweep, reading, crashes>>

NextDay ==
  /\ day < MaxDay
  /\ day' = day + 1
  /\ UNCHANGED <<account, plans, sweep, reading, crashes>>
-----------------------------------------------------------------------------
(***************************************************************************)
(* Operators.                                                              *)
(***************************************************************************)
Terms(covers, count, down, start) ==
  LET total == OpenOn(covers)
  IN [total |-> total, down |-> down, base |-> Base(total - down, count),
      count |-> count, start |-> start]

CreatePaymentPlan(covers, count, down, start) ==
  LET terms == Terms(covers, count, down, start)
  IN /\ Len(plans) < MaxPlans
     /\ covers # {} /\ \A d \in covers : due[d] # Unposted
     /\ start \in day..(day + MaxStartDays)
     /\ Active = {}
     /\ AllowSecondPlan \/ \A p \in DOMAIN plans : plans[p].status # "DEFAULTED"
     /\ terms.total > down     \* NOTHING_TO_COVER, DOWN_PAYMENT_LEAVES_NOTHING
     /\ terms.base > 0         \* INSTALLMENTS_BELOW_A_CENT
     /\ plans' = Append(plans, [status |-> "ACTIVE", covers |-> covers,
                                terms |-> terms, noticed |-> NoNotice])
     /\ UNCHANGED <<day, account, sweep, reading, crashes>>

\* cancelPaymentPlan reads the status ...
ReadForCancel(p) ==
  /\ p \in Active \ reading
  /\ reading' = reading \union {p}
  /\ UNCHANGED <<day, account, plans, sweep, crashes>>

\* ... and writes it without looking again.
CancelPaymentPlan(p) ==
  /\ p \in reading
  /\ reading' = reading \ {p}
  /\ plans' = [plans EXCEPT ![p].status = "CANCELLED"]
  /\ UNCHANGED <<day, account, sweep, crashes>>
-----------------------------------------------------------------------------
(***************************************************************************)
(* The sweep.                                                              *)
(***************************************************************************)
SweepStep == UNCHANGED <<day, account, reading, crashes>>

\* Done with the plan in hand: the next one.
NextPlan(s) ==
  sweep' = [sweep EXCEPT ![s] = [AtRest EXCEPT
    !.pc = "live", !.asOf = sweep[s].asOf, !.todo = sweep[s].todo,
    !.noticed = sweep[s].noticed]]

StartSweep(s) ==
  /\ sweep[s].pc = "idle"
  /\ sweep' = [sweep EXCEPT ![s] = [AtRest EXCEPT
       !.pc = "close", !.asOf = day, !.satisfied = Satisfied, !.todo = Satisfied]]
  /\ UNCHANGED plans /\ SweepStep

\* Close one plan that was found satisfied, if it is still ACTIVE.
Complete(s) ==
  /\ sweep[s].pc = "close"
  /\ \E p \in sweep[s].todo :
       /\ plans' = [plans EXCEPT ![p].status =
                      IF @ = "ACTIVE" THEN "COMPLETED" ELSE @]
       /\ sweep' = [sweep EXCEPT ![s].todo = @ \ {p}]
  /\ SweepStep

\* The plans still live, the satisfied ones left out.  Of the columns read
\* here only late_notice_installment can change before it is used.
FindLive(s) ==
  /\ sweep[s].pc = "close" /\ sweep[s].todo = {}
  /\ LET live == Active \ sweep[s].satisfied
     IN sweep' = [sweep EXCEPT ![s].pc = "live", ![s].todo = live,
                    ![s].satisfied = {},
                    ![s].noticed = [p \in live |-> plans[p].noticed]]
  /\ UNCHANGED plans /\ SweepStep

\* paidTowardPlan and planProgress of the next one.
ReadPaid(s) ==
  /\ sweep[s].pc = "live"
  /\ \E p \in sweep[s].todo :
       LET terms == plans[p].terms
           paid == PaidToward(p)
           late == Late(terms, paid, sweep[s].asOf)
       IN sweep' = [sweep EXCEPT ![s] = [sweep[s] EXCEPT
            !.pc = "bill", !.todo = sweep[s].todo \ {p}, !.plan = p,
            !.late = Cardinality(late),
            !.watermark = Cardinality(Due(terms, sweep[s].asOf)) - 1,
            !.broken = Broken(terms, paid, sweep[s].asOf)]]
  /\ UNCHANGED plans /\ SweepStep

\* Mutant: only the instalments are judged.
ReadNoBill(s) ==
  /\ sweep[s].pc = "bill"
  /\ sweep' = [sweep EXCEPT ![s].pc = "decide"]
  /\ UNCHANGED plans /\ SweepStep

ReadBill(s) ==
  /\ sweep[s].pc = "bill"
  /\ sweep' = [sweep EXCEPT ![s].pc = "decide",
       ![s].broken = @ \/ (CurrentBillCounts /\ UncoveredPastDue(sweep[s].asOf))]
  /\ UNCHANGED plans /\ SweepStep

Default(s) ==
  /\ sweep[s].pc = "decide" /\ sweep[s].broken
  /\ plans' = [plans EXCEPT ![sweep[s].plan].status =
                 IF @ = "ACTIVE" THEN "DEFAULTED" ELSE @]
  /\ NextPlan(s)
  /\ SweepStep

\* Behind, and the customer has not been told of this payment.
NeedsNotice(s) ==
  sweep[s].late > 0 /\ sweep[s].noticed[sweep[s].plan] < sweep[s].watermark

SayNothing(s) ==
  /\ sweep[s].pc = "decide" /\ ~sweep[s].broken /\ ~NeedsNotice(s)
  /\ NextPlan(s)
  /\ UNCHANGED plans /\ SweepStep

\* sendNotification.  The tenant may have no template for the event: then
\* nothing is sent and nothing is marked.
Notify(s) ==
  /\ sweep[s].pc = "decide" /\ ~sweep[s].broken /\ NeedsNotice(s)
  /\ \/ sweep' = [sweep EXCEPT ![s].pc = "mark"]
     \/ NextPlan(s)
  /\ UNCHANGED plans /\ SweepStep

\* Notify first, then mark.
MarkNotice(s) ==
  /\ sweep[s].pc = "mark"
  /\ plans' = [plans EXCEPT ![sweep[s].plan].noticed = sweep[s].watermark]
  /\ NextPlan(s)
  /\ SweepStep

FinishSweep(s) ==
  /\ sweep[s].pc = "live" /\ sweep[s].todo = {}
  /\ sweep' = [sweep EXCEPT ![s] = AtRest]
  /\ UNCHANGED plans /\ SweepStep

\* The process dies: what the sweep had read is lost, what it wrote stays.
CrashSweep(s) ==
  /\ sweep[s].pc # "idle" /\ crashes < MaxCrashes
  /\ crashes' = crashes + 1
  /\ sweep' = [sweep EXCEPT ![s] = AtRest]
  /\ UNCHANGED <<day, account, plans, reading>>
-----------------------------------------------------------------------------
(***************************************************************************)
(* What a plan looks like from outside, read off the schedule the customer *)
(* was shown (the result of createPaymentPlan) and not off planProgress.   *)
(***************************************************************************)
Shown(terms, i) == CASE i = 0 -> terms.down
                     [] i = 1 -> First(terms)
                     [] i > 1 -> terms.base

Settled(p) == p \in Active /\ \A d \in plans[p].covers : open[d] = 0

ShownThrough(terms, i) ==
  SumTo([n \in 1..(i + 1) |-> Shown(terms, n - 1)], i + 1)

\* Payment i asked for something, its grace days are over, and what has
\* gone from the debits is less than the schedule said by then.
Unpaid(p, i) ==
  LET terms == plans[p].terms
      gone  == terms.total - StillOpen(p)
  IN /\ Shown(terms, i) > 0
     /\ DueDate(terms, i) + GraceDays < day
     /\ IF PartialCounts THEN gone <= ShownThrough(terms, i) - Shown(terms, i)
                         ELSE gone < ShownThrough(terms, i)

MissesSchedule(p) ==
  /\ p \in Active
  /\ Cardinality({i \in Payments(plans[p].terms) : Unpaid(p, i)})
       >= MissedBeforeDefault

OwesNewBill(p) == p \in Active /\ CurrentBillCounts /\ UncoveredPastDue(day)

Behind(p) == MissesSchedule(p) \/ OwesNewBill(p)

Observe ==
  seen' = [s \in Sweeper |->
    IF sweep'[s].pc = "idle" THEN [settled |-> {}, behind |-> {}]
    ELSE [settled |-> {p \in PlanId : Settled(p)'} \union seen[s].settled,
          behind  |-> {p \in PlanId : Behind(p)'} \union seen[s].behind]]
-----------------------------------------------------------------------------
Init ==
  /\ day = 0
  /\ due = [d \in Debit |-> IF d \in Arrears THEN 0 ELSE Unposted]
  /\ open = [d \in Debit |-> IF d \in Arrears THEN Face ELSE 0]
  /\ plans = <<>>
  /\ sweep = [s \in Sweeper |-> AtRest]
  /\ reading = {}
  /\ crashes = 0
  /\ seen = [s \in Sweeper |-> [settled |-> {}, behind |-> {}]]

Work(s) ==
  \/ Complete(s) \/ FindLive(s) \/ ReadPaid(s) \/ ReadBill(s) \/ Default(s)
  \/ SayNothing(s) \/ Notify(s) \/ MarkNotice(s) \/ FinishSweep(s)

Step ==
  \/ NextDay
  \/ \E d \in Debit : PostBill(d) \/ \E amount \in 0..Face : LedgerMoves(d, amount)
  \/ \E covers \in SUBSET Debit, count \in Counts, down \in Downs,
        start \in 0..(MaxDay + MaxStartDays) :
       CreatePaymentPlan(covers, count, down, start)
  \/ \E p \in PlanId : ReadForCancel(p) \/ CancelPaymentPlan(p)
  \/ \E s \in Sweeper : StartSweep(s) \/ Work(s) \/ CrashSweep(s)

Next == Step /\ Observe

Spec == Init /\ [][Next]_vars

\* The dispatcher starts a sweep again and again (hourly cron, nightly run
\* and missed-tick recovery), and a sweep that has started goes on.
LiveSpec ==
  Spec /\ \A s \in Sweeper : WF_vars((StartSweep(s) \/ Work(s)) /\ Observe)
-----------------------------------------------------------------------------
(***************************************************************************)
(* Properties.                                                             *)
(***************************************************************************)
BecomesStatus(p, status) ==
  p \in DOMAIN plans /\ plans[p].status # status /\ plans'[p].status = status

\* A sweep reads payments and bills in separate queries and acts on both
\* later, yet it closes a plan only for what was so at one and the same moment
\* since it began.  COMPLETED: all the plan's debts were gone.  DEFAULTED: the
\* plan was behind by the schedule its customer was shown, or on the new bills
\* where those count.
ClosedForACause ==
  [][\A p \in PlanId :
       /\ BecomesStatus(p, "COMPLETED") => \E s \in Sweeper : p \in seen[s].settled
       /\ BecomesStatus(p, "DEFAULTED") => \E s \in Sweeper : p \in seen[s].behind]_vars

\* A plan with nothing left to collect does not stay open, unless a reversal
\* brings a debt back first: the sweep that misses it is not the last.
SettledIsClosed == \A p \in PlanId : []<>(~Settled(p))

\* A plan that stays broken in one of the two ways does not run on and hold
\* its debts off the ladder: the customer catches up or the plan ends.
BrokenIsEnded ==
  \A p \in PlanId : []<>(~MissesSchedule(p)) /\ []<>(~OwesNewBill(p))
=============================================================================
