---------------------------- MODULE BillingDispatch ----------------------------
(***************************************************************************)
(* The hourly sweep that starts billing runs (workers/billing-dispatcher), *)
(* for one tenant and one monthly cycle: which hour makes it due, which    *)
(* window it then bills, and what the tenant is told of windows that did   *)
(* not bill (services/billing-notice.service.ts).                          *)
(*                                                                         *)
(* Time is in hours of UTC from the first day of month 1, on a calendar of *)
(* a few short months; the window of month m ends on its bill day and is   *)
(* called m, and window 0 is the one before the calendar.                  *)
(***************************************************************************)
EXTENDS Integers, Sequences, FiniteSets

CONSTANTS
  MonthDays,    \* the days of each month of the calendar
  DayHours,     \* hours in a day
  BillDay,      \* bill_day_of_month of the cycle (after the 1st: its read day
                \* comes before it, and is a day of the month)
  RunHour,      \* run_hour_local of the tenant's billing scheduler
  Zones,        \* time zones: hours ahead of UTC, when and how far they jump
  Retention,    \* NOTICE_RETENTION_DAYS, in hours
  MaxFaults     \* bound: hours without a sweep, sweeps that die, lost jobs

Month == 1..Len(MonthDays)
Window == 0..Len(MonthDays)

\* Months have two days at least; a zone is less than a day ahead of UTC; and
\* a notice is kept through the month of its bill day and the next.
CalendarTypes ==
  /\ {DayHours, Retention} \subseteq Nat \ {0} /\ BillDay \in Nat \ {0, 1}
  /\ RunHour \in 0..(DayHours - 1)
  /\ MonthDays \in Seq(Nat \ {0, 1}) /\ MonthDays # <<>>
  /\ \A z \in Zones :
       /\ z.ahead \in -DayHours..DayHours /\ z.jumpAt \in Nat /\ z.jump \in Nat
       /\ z.ahead + z.jump < DayHours
  /\ \A m \in Month :
       /\ MonthDays[m] * DayHours <= Retention
       /\ m # Len(MonthDays) => (MonthDays[m] + MonthDays[m + 1]) * DayHours <= Retention
  /\ MaxFaults \in Nat
ASSUME CalendarAssumption == CalendarTypes
-----------------------------------------------------------------------------
(***************************************************************************)
(* The calendar.                                                           *)
(***************************************************************************)
DaysBefore[m \in Month] == IF m = 1 THEN 0 ELSE DaysBefore[m - 1] + MonthDays[m - 1]
MonthStart(m) == DaysBefore[m] * DayHours
End == MonthStart(Len(MonthDays)) + MonthDays[Len(MonthDays)] * DayHours

MonthOf(t) == CHOOSE m \in Month :
  /\ MonthStart(m) <= t
  /\ \A n \in Month : MonthStart(n) <= t => n <= m
DayOf(t) == ((t - MonthStart(MonthOf(t))) \div DayHours) + 1
HourOf(t) == t % DayHours

\* The same clamp for due-ness and for the window (billDayIn).
BillDayIn(m) == IF BillDay <= MonthDays[m] THEN BillDay ELSE MonthDays[m]

\* The window a run planned at t covers (computeBillPeriod), on UTC dates:
\* it ends on the most recent bill day.
WindowAt(t) ==
  IF DayOf(t) >= BillDayIn(MonthOf(t)) THEN MonthOf(t) ELSE MonthOf(t) - 1

VARIABLES
  zone,     \* the tenant's time zone
  now,      \* the clock
  ticking,  \* the hour's job waits to be taken
  reads,    \* the windows with at least one meter read
  runs,     \* the windows with a billing run
  queued,   \* those whose run has been handed to the queue
  ledger,   \* noticedWindows: when each window was reported, or Never
  sweep,    \* the sweep: where it stands and what it carries
  told,     \* history: sweeps that told the tenant of each window
  looked,   \* history: windows a whole sweep has found closed
  landed,   \* history: windows whose reads were in before their bill day
  faults

dispatchVars == <<zone, now, ticking, reads, runs, queued, ledger, sweep, told, looked,
                  landed, faults>>

Never == -1
AtRest == [pc |-> "idle", at |-> 0, notices |-> {}, fresh |-> {},
           ledger |-> [w \in Window |-> Never]]

DispatchTypeOK ==
  /\ zone \in Zones /\ now \in 0..End /\ ticking \in BOOLEAN
  /\ {reads, runs, queued, looked, landed} \subseteq SUBSET Window
  /\ queued \subseteq runs
  /\ ledger \in [Window -> -1..End]
  /\ sweep \in [pc : {"idle", "plan", "reads", "create", "enqueue", "closed",
                      "ledger", "send", "write"},
                at : 0..End, notices : SUBSET Window, fresh : SUBSET Window,
                ledger : [Window -> -1..End]]
  /\ told \in [Window -> Nat] /\ faults \in 0..MaxFaults
-----------------------------------------------------------------------------
\* The tenant's clock, which jumps when summer time begins.
Local(t) == t + zone.ahead + (IF t >= zone.jumpAt THEN zone.jump ELSE 0)

\* Mutant: on the bill day the hour must be the tenant's, neither more nor less.
DueAtTheHour(t) ==
  LET day == DayOf(Local(t))
      billDay == BillDayIn(MonthOf(Local(t)))
  IN  day > billDay \/ (day = billDay /\ HourOf(Local(t)) = RunHour)

\* billingDueAt: on the bill day from the hour on, and after the bill day
\* for as long as the month lasts.
DueAt(t) ==
  LET day == DayOf(Local(t))
      billDay == BillDayIn(MonthOf(Local(t)))
  IN  day > billDay \/ (day = billDay /\ HourOf(Local(t)) >= RunHour)

At(pc) == sweep.pc = pc
Goes(pc) == sweep' = [sweep EXCEPT !.pc = pc]
Rests == sweep' = AtRest
Planned == WindowAt(sweep.at)

clock == <<zone, now, ticking>>
billing == <<reads, runs, queued>>
history == <<looked, landed>>
Fault == faults < MaxFaults /\ faults' = faults + 1
-----------------------------------------------------------------------------
(***************************************************************************)
(* The sweep (dispatchBilling): starting the cycle if it is due, then      *)
(* telling the tenant.                                                     *)
(***************************************************************************)
Start ==
  /\ At("idle") /\ ticking
  /\ ticking' = FALSE
  /\ sweep' = [AtRest EXCEPT !.pc = IF DueAt(now) THEN "plan" ELSE "closed",
                             !.at = now]
  /\ UNCHANGED <<zone, now, billing, ledger, told, history, faults>>

\* previewBillingRun at the sweep's instant: a window with a run is done.
Plan ==
  /\ At("plan")
  /\ Goes(IF Planned \in runs THEN "closed" ELSE "reads")
  /\ UNCHANGED <<clock, billing, ledger, told, history, faults>>

\* Without one read in the window the cycle is refused, and noted.
CheckReads ==
  /\ At("reads")
  /\ sweep' = IF Planned \in reads
              THEN [sweep EXCEPT !.pc = "create"]
              ELSE [sweep EXCEPT !.pc = "closed", !.notices = {Planned}]
  /\ UNCHANGED <<clock, billing, ledger, told, history, faults>>

\* One run to a window: the unique key turns away the second.
Create ==
  /\ At("create")
  /\ runs' = runs \union {Planned}
  /\ Goes(IF Planned \in runs THEN "closed" ELSE "enqueue")
  /\ UNCHANGED <<clock, reads, queued, ledger, told, history, faults>>

\* enqueueSafely: a queue that is not reached is logged, and forgotten.
EnqueueRun ==
  /\ At("enqueue")
  /\ \/ queued' = queued \union {Planned} /\ UNCHANGED faults
     \/ Fault /\ UNCHANGED queued
  /\ Goes("closed")
  /\ UNCHANGED <<clock, reads, runs, ledger, told, history>>

BillDayOf(t) == MonthStart(MonthOf(t)) + (BillDayIn(MonthOf(t)) - 1) * DayHours

\* Mutant: the window is looked for on the bill day itself.
TheBillDay(t) == BillDayOf(t)

\* The day before the bill day of the UTC month.
ClosedAsOf(t) == BillDayOf(t) - DayHours

\* findClosedUnbilledWindows: the window planned as of that day, once that
\* day has begun.
FindClosed ==
  /\ At("closed")
  /\ LET asOf == ClosedAsOf(sweep.at)
         closed == IF asOf < sweep.at THEN {WindowAt(asOf)} \ runs ELSE {}
     IN  sweep' = [sweep EXCEPT !.pc = "ledger", !.notices = @ \union closed]
  /\ UNCHANGED <<clock, billing, ledger, told, history, faults>>

Untold(notices, book) == {w \in notices : book[w] = Never}

Ends ==
  /\ Rests
  /\ looked' = looked \union
       (IF sweep.at >= BillDayOf(sweep.at) THEN {MonthOf(sweep.at) - 1} ELSE {})
  /\ UNCHANGED landed

\* reportBillingNotices: what the ledger does not hold is fresh.
ReadLedger ==
  /\ At("ledger")
  /\ LET fresh == Untold(sweep.notices, ledger)
     IN  IF fresh = {} THEN Ends
         ELSE /\ sweep' = [sweep EXCEPT !.pc = "send", !.fresh = fresh,
                                        !.ledger = ledger]
              /\ UNCHANGED history
  /\ UNCHANGED <<clock, billing, ledger, told, faults>>

Send ==
  /\ At("send")
  /\ told' = [w \in Window |-> told[w] + (IF w \in sweep.fresh THEN 1 ELSE 0)]
  /\ Goes("write")
  /\ UNCHANGED <<clock, billing, ledger, history, faults>>

Stamped(w) ==
  IF w \in sweep.fresh THEN sweep.at
  ELSE IF sweep.ledger[w] < sweep.at - Retention THEN Never ELSE sweep.ledger[w]

\* The ledger as it was read, without what is past its retention, and with
\* what has just been said; written over whatever is there.
WriteLedger ==
  /\ At("write")
  /\ ledger' = [w \in Window |-> Stamped(w)]
  /\ Ends
  /\ UNCHANGED <<clock, billing, told, faults>>

\* The process dies, and the queue's job with it until the next hour.
Dies ==
  /\ ~At("idle") /\ Fault /\ Rests
  /\ UNCHANGED <<clock, billing, ledger, told, history>>
-----------------------------------------------------------------------------
(***************************************************************************)
(* The world: the hours, the reads, an operator who starts a run by hand.  *)
(***************************************************************************)
\* The next hour.  A job that still waits, or a sweep still at work, as an
\* hour ends is an outage; of overdue jobs one fires.
Hour ==
  /\ now < End /\ Local(now + 1) < End
  /\ IF ticking \/ ~At("idle") THEN Fault ELSE UNCHANGED faults
  /\ now' = now + 1 /\ ticking' = TRUE
  /\ UNCHANGED <<zone, billing, ledger, sweep, told, history>>

ReadsLand(w) ==
  /\ w \notin reads
  /\ reads' = reads \union {w}
  /\ landed' = IF w \in Month /\ now < MonthStart(w) + (BillDayIn(w) - 1) * DayHours
               THEN landed \union {w} ELSE landed
  /\ UNCHANGED <<clock, runs, queued, ledger, sweep, told, looked, faults>>

RunByHand ==
  /\ WindowAt(now) \notin runs
  /\ runs' = runs \union {WindowAt(now)}
  /\ queued' = queued \union {WindowAt(now)}
  /\ UNCHANGED <<clock, reads, ledger, sweep, told, history, faults>>

\* The second day, so that no zone is before the calendar.
DispatchInit ==
  /\ zone \in Zones /\ now = DayHours /\ ticking = TRUE
  /\ reads \in {{}, {0}} /\ runs \in {{}, {0}} /\ queued = runs
  /\ ledger = [w \in Window |-> Never] /\ sweep = AtRest
  /\ told = [w \in Window |-> 0] /\ looked = {} /\ landed = {} /\ faults = 0

Sweep ==
  \/ Start \/ Plan \/ CheckReads \/ Create \/ EnqueueRun
  \/ FindClosed \/ ReadLedger \/ Send \/ WriteLedger
DispatchNext == Sweep \/ Dies \/ Hour \/ (\E w \in Window : ReadsLand(w)) \/ RunByHand

DispatchSpec == DispatchInit /\ [][DispatchNext]_dispatchVars
-----------------------------------------------------------------------------
(***************************************************************************)
(* A window whose reads were in before its bill day is handed to the queue *)
(* by the end of the tenant's month, if the hourly sweep missed no hour:   *)
(* in a zone ahead of UTC, where the first due hours still plan the window *)
(* before; on a bill day clamped to a short month's last day; and when the *)
(* tenant's hour does not occur that day, because the clocks jump over it. *)
(***************************************************************************)
BilledByMonthEnd ==
  \A m \in Month :
    m \in landed /\ faults = 0 /\ At("idle") /\ ~ticking /\ MonthOf(Local(now)) > m
      => m \in queued

(***************************************************************************)
(* Of a window that closed without a run the tenant has been told once a   *)
(* whole sweep has run after it closed, whether for its missing reads      *)
(* before or for its closing; and is told by one sweep alone, unless a     *)
(* sweep died between the message and the ledger.                          *)
(***************************************************************************)
UnbilledIsToldOnce ==
  \A w \in Window :
    /\ w \in looked => w \in runs \/ told[w] > 0
    /\ told[w] <= 1 + faults

(***************************************************************************)
(* SCH-BILL-7 as billingDueAt words it: a window whose reads are in stays  *)
(* dispatchable until the next bill day closes it, so that a sweep which   *)
(* begins after its bill day goes on to plan it.                           *)
(***************************************************************************)
IsOpen(m) ==
  /\ WindowAt(now) = m /\ WindowAt(Local(now)) = m
  /\ DayOf(Local(now)) = BillDayIn(MonthOf(Local(now))) => HourOf(Local(now)) >= RunHour
StaysDispatchable ==
  [][\A m \in Month :
       m \in reads \ runs /\ IsOpen(m) /\ At("idle") /\ sweep'.pc # "idle"
         => sweep'.pc = "plan"]_dispatchVars
=============================================================================
