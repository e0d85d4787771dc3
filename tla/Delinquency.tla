------------------------------ MODULE Delinquency ------------------------------
(***************************************************************************)
(* The collections ladder of ONE account (services/delinquency.service.ts, *)
(* routes/delinquency.ts): an evaluation files an action for every tier    *)
(* the account has reached and charges every bill that has reached a       *)
(* charging tier, once.                                                    *)
(*                                                                         *)
(* An evaluation takes no lock until it charges: its three queries, each   *)
(* action it files and each notice it records are actions of their own.    *)
(* The charge is one transaction under the account's lock.  Beside it run  *)
(* another evaluation (asked for by a route), a clerk who cancels,         *)
(* resolves and escalates, the agreement of a payment plan, and a ledger   *)
(* that moves at any time.  A bill is named by its due date.               *)
(***************************************************************************)
EXTENDS Integers, Sequences, FiniteSets

CONSTANTS
  Evaluator,    \* the evaluations that may run at once
  Job,          \* the one that is the nightly job
  Bill,         \* the account's bills, each by its due date
  MaxTier,      \* the tenant's tiers are 1..MaxTier
  TierDays,     \* tier t is reached t * TierDays days after the due date
  Notices,      \* the tiers that send a notice
  Charging,     \* the tiers that charge a fee
  Plannable,    \* bound: the bills a plan may cover
  Replacing,    \* those whose fee replaces the lower tiers' fees
  MaxDay,       \* bound: days
  MaxEvents     \* bound: movements of the ledger, decisions of the clerk,
                \* plans, crashes and evaluations a route asks for, together

LadderTypes ==
  /\ Job \in Evaluator
  /\ {MaxTier, TierDays, MaxDay, MaxEvents} \subseteq Nat
  /\ Plannable \subseteq Bill /\ Bill \subseteq Nat
  /\ Notices \subseteq 1..MaxTier
  /\ Replacing \subseteq Charging /\ Charging \subseteq 1..MaxTier
ASSUME LadderAssumption == LadderTypes

Tiers == 1..MaxTier
LiveStatus == {"PENDING", "COMPLETED"}
None == 0   \* no action

VARIABLES
  day,      \* the calendar
  open,     \* the bills with an open amount
  owed,     \* some late fee is still open (its due date is left open)
  plan,     \* the payment plan: the bills it covers, and whether it is ACTIVE
  filed,    \* delinquency_action, in the order they were filed
  fees,     \* the late fees, each with the action and the bill it is for
  eval,     \* each evaluation, where it stands and what it has read
  desk,     \* the clerk's request between its read and its write
  events    \* bound: how many of MaxEvents have happened

ladderVars == <<day, open, owed, plan, filed, fees, eval, desk, events>>
world == <<day, open, owed, plan, events>>

Unstarted == [pc |-> "idle", asOf |-> 0, live |-> [t \in Tiers |-> None],
              todo |-> {}, closing |-> {}]

Status == LiveStatus \union {"RESOLVED", "CANCELLED"}

\* Whatever names an action names one that was filed: none is ever deleted.
LadderTypeOK ==
  /\ day \in 0..MaxDay
  /\ open \subseteq Bill /\ owed \in BOOLEAN
  /\ plan \in [covers : SUBSET Bill, active : BOOLEAN]
  /\ filed \in Seq([tier : Tiers, status : Status])
  /\ fees \in Seq([action : DOMAIN filed, bill : Bill, reversed : BOOLEAN])
  /\ eval \in [Evaluator ->
       [pc : {"idle", "actions", "clock", "file", "notice", "close"},
        asOf : 0..MaxDay, live : [Tiers -> {None} \union DOMAIN filed],
        todo : SUBSET Tiers, closing : SUBSET DOMAIN filed]]
  /\ desk \in [op : {"none", "cancel", "resolve", "escalate"}, on : Nat]
-----------------------------------------------------------------------------
(***************************************************************************)
(* What the queries return.                                                *)
(***************************************************************************)
Least(S) == CHOOSE x \in S : \A y \in S : x <= y
Greatest(S) == CHOOSE x \in S : \A y \in S : x >= y

IsLive(a) == filed[a].status \in LiveStatus
LiveActions == {a \in DOMAIN filed : IsLive(a)}
LiveTiers == {filed[a].tier : a \in LiveActions}

\* the live action of a tier: the partial unique index allows at most one
LiveAction(t) == IF t \in LiveTiers
                 THEN CHOOSE a \in LiveActions : filed[a].tier = t
                 ELSE None

Balance == open # {} \/ owed   \* account.balance > 0

\* the debts a live plan covers, read through payment_plan.status
Covered == IF plan.active THEN plan.covers ELSE {}

\* chargeableDebits: open, past due, and under no live plan
Chargeable(e) == {b \in open \ Covered : b < eval[e].asOf}

\* Mutant: a tier is done with a bill while its action is live.
ChargedByLive(t, b) ==
  \E i \in DOMAIN fees : /\ fees[i].bill = b
                         /\ filed[fees[i].action].tier = t
                         /\ IsLive(fees[i].action)

\* alreadyChargedBill
AlreadyCharged(t, b) ==
  \E i \in DOMAIN fees : fees[i].bill = b /\ filed[fees[i].action].tier = t
-----------------------------------------------------------------------------
(***************************************************************************)
(* An evaluation (evaluateAll).                                            *)
(***************************************************************************)
At(e, pc) == eval[e].pc = pc
Become(e, state) == eval' = [eval EXCEPT ![e] = state]
Goes(e, pc) == [eval[e] EXCEPT !.pc = pc]

\* The pass after the ladder is the job's; a route's evaluation is over.
Done(e) == IF e = Job THEN [Unstarted EXCEPT !.pc = "close"] ELSE Unstarted

\* the accounts with a balance and a due date
ReadAccount(e) ==
  /\ At(e, "idle")
  /\ e # Job => events < MaxEvents
  /\ Become(e, IF Balance THEN Goes(e, "actions") ELSE Done(e))
  /\ events' = IF e = Job THEN events ELSE events + 1
  /\ UNCHANGED <<day, open, owed, plan, filed, fees, desk>>

\* existingActions
ReadActions(e) ==
  /\ At(e, "actions")
  /\ Become(e, [Goes(e, "clock") EXCEPT !.live = [t \in Tiers |-> LiveAction(t)]])
  /\ UNCHANGED <<world, filed, fees, desk>>

\* A late fee is a debit with a due date as well, later than the first bill's.
FeeDates == IF owed THEN {{d} : d \in (Least(Bill) + 1)..day} ELSE {{}}

\* uncoveredOldestDueDates, and the tiers its age has reached: those that were
\* read as live stand for their actions, the others are to be filed
ReadClock(e) == \E feeDates \in FeeDates :
  LET uncovered == (open \ Covered) \union feeDates
      reached == {t \in Tiers : t * TierDays <= day - Least(uncovered)}
      live == [t \in Tiers |-> IF t \in reached THEN eval[e].live[t] ELSE None]
  IN /\ At(e, "clock")
     /\ IF uncovered = {} \/ Least(uncovered) >= day
        THEN Become(e, Done(e))
        ELSE Become(e, [Goes(e, "file") EXCEPT
               !.asOf = day, !.live = live,
               !.todo = {t \in reached : live[t] = None}])
     /\ UNCHANGED <<world, filed, fees, desk>>

Hand(e) == Least(eval[e].todo)   \* the tier in hand, lowest first
NextTier(e) == [eval[e] EXCEPT !.pc = "file", !.todo = @ \ {Hand(e)}]

\* The insert, or the unique violation that is taken for "already there".
FileAction(e) ==
  /\ At(e, "file") /\ eval[e].todo # {}
  /\ IF Hand(e) \in LiveTiers
     THEN Become(e, NextTier(e)) /\ UNCHANGED filed
     ELSE LET held == [IF Hand(e) \in Notices THEN Goes(e, "notice")
                                               ELSE NextTier(e)
                        EXCEPT !.live[Hand(e)] = Len(filed) + 1]
          IN /\ filed' = Append(filed, [tier |-> Hand(e), status |-> "PENDING"])
             /\ Become(e, held)
  /\ UNCHANGED <<world, fees, desk>>

\* The notice; where a template produced one, the action is COMPLETED by id.
Notify(e) ==
  /\ At(e, "notice")
  /\ \/ filed' = [filed EXCEPT ![eval[e].live[Hand(e)]].status = "COMPLETED"]
     \/ UNCHANGED filed
  /\ Become(e, NextTier(e))
  /\ UNCHANGED <<world, fees, desk>>

\* Mutant: an action charges in one evaluation only.
ChargesOnce(e) == {t \in Charging : /\ eval[e].live[t] # None
                                   /\ \A i \in DOMAIN fees :
                                        fees[i].action # eval[e].live[t]}

\* the tiers that hold an action this evaluation filed or recognised
ChargingTiers(e) == {t \in Charging : eval[e].live[t] # None}

\* the tier and bill of every fee this evaluation will raise
FeesDue(e) ==
  {f \in ChargingTiers(e) \X Chargeable(e) :
     /\ f[1] * TierDays <= eval[e].asOf - f[2]
     /\ ~AlreadyCharged(f[1], f[2])}

\* tiers low to high, and under each the oldest bill first
ChargedFirst(f, g) == f[1] < g[1] \/ (f[1] = g[1] /\ f[2] < g[2])

\* replaceLowerTierFeesOnBill: the fees that a fee of a replacing tier
\* displaces, as long as the action they hang on is live
Displaced(fee, raised) ==
  /\ IsLive(fee.action)
  /\ \E f \in raised : /\ f[1] \in Replacing /\ f[2] = fee.bill
                       /\ filed[fee.action].tier < f[1]

\* chargeOverdueBills
Charge(e) ==
  LET raised == FeesDue(e)
      entry(f) == [action |-> eval[e].live[f[1]], bill |-> f[2],
                   reversed |-> FALSE]
  IN /\ At(e, "file") /\ eval[e].todo = {}
     /\ \E order \in [1..Cardinality(raised) -> raised] :
          /\ \A i, j \in DOMAIN order : i < j => ChargedFirst(order[i], order[j])
          /\ LET all == fees \o [i \in DOMAIN order |-> entry(order[i])]
             IN fees' = [i \in DOMAIN all |->
                  [all[i] EXCEPT !.reversed = @ \/ Displaced(all[i], raised)]]
     /\ owed' = (owed \/ raised # {})
     /\ Become(e, Done(e))
     /\ UNCHANGED <<day, open, plan, events, filed, desk>>

\* The live actions of an account that owes nothing (sweepReconnections) ...
FindPaidUp ==
  /\ At(Job, "close") /\ eval[Job].closing = {}
  /\ IF ~Balance /\ LiveActions # {}
     THEN Become(Job, [eval[Job] EXCEPT !.closing = LiveActions])
     ELSE Become(Job, Unstarted)
  /\ UNCHANGED <<world, filed, fees, desk>>

\* ... each resolved by its id, whatever has happened since.
Close ==
  LET a == Least(eval[Job].closing)
      rest == eval[Job].closing \ {a}
  IN /\ At(Job, "close") /\ eval[Job].closing # {}
     /\ filed' = [filed EXCEPT ![a].status = "RESOLVED"]
     /\ Become(Job, IF rest = {} THEN Unstarted
                    ELSE [eval[Job] EXCEPT !.closing = rest])
     /\ UNCHANGED <<world, fees, desk>>

Evaluate(e) ==
  \/ ReadAccount(e) \/ ReadActions(e) \/ ReadClock(e)
  \/ FileAction(e) \/ Notify(e) \/ Charge(e)
  \/ e = Job /\ (FindPaidUp \/ Close)

\* The process dies; the queue's retry or the next tick begins again.
EvaluationDies(e) ==
  /\ ~At(e, "idle") /\ events < MaxEvents
  /\ Become(e, Unstarted)
  /\ events' = events + 1
  /\ UNCHANGED <<day, open, owed, plan, filed, fees, desk>>
-----------------------------------------------------------------------------
(***************************************************************************)
(* The clerk: a read, and later a write by what was read.                  *)
(***************************************************************************)
Idle == [op |-> "none", on |-> 0]
Begin(op, on) ==
  /\ desk = Idle /\ events < MaxEvents
  /\ desk' = [op |-> op, on |-> on]
  /\ events' = events + 1
  /\ UNCHANGED <<day, open, owed, plan, fees, eval>>

\* POST /delinquency-actions/:id/cancel reads a PENDING action ...
ReadForCancel(a) ==
  filed[a].status = "PENDING" /\ Begin("cancel", a) /\ UNCHANGED filed

\* ... and cancels it by id.
CancelAction ==
  /\ desk.op = "cancel"
  /\ filed' = [filed EXCEPT ![desk.on].status = "CANCELLED"]
  /\ desk' = Idle
  /\ UNCHANGED <<world, fees, eval>>

\* resolveAccount: the PENDING ones are cancelled ...
CancelPending(acts) ==
  [a \in DOMAIN acts |-> IF acts[a].status = "PENDING"
                         THEN [acts[a] EXCEPT !.status = "CANCELLED"]
                         ELSE acts[a]]

\* ... and the highest tier still live is resolved.
ResolveHighest(acts) ==
  LET live == {a \in DOMAIN acts : acts[a].status \in LiveStatus}
      high == CHOOSE a \in live : \A b \in live : acts[b].tier <= acts[a].tier
  IN IF live = {} THEN acts ELSE [acts EXCEPT ![high].status = "RESOLVED"]

BeginResolve == Begin("resolve", 0) /\ filed' = CancelPending(filed)

FinishResolve ==
  /\ desk.op = "resolve"
  /\ filed' = ResolveHighest(filed)
  /\ desk' = Idle
  /\ UNCHANGED <<world, fees, eval>>

\* escalateAccount: the next tier up from the highest that is live ...
ReadForEscalate ==
  LET next == Greatest(LiveTiers \union {0}) + 1
  IN Balance /\ next \in Tiers /\ Begin("escalate", next) /\ UNCHANGED filed

\* ... is filed, or the insert meets the unique index and the request fails.
Escalate ==
  /\ desk.op = "escalate"
  /\ IF desk.on \in LiveTiers
     THEN UNCHANGED filed
     ELSE \E s \in IF desk.on \in Notices THEN LiveStatus ELSE {"PENDING"} :
            filed' = Append(filed, [tier |-> desk.on, status |-> s])
  /\ desk' = Idle
  /\ UNCHANGED <<world, fees, eval>>
-----------------------------------------------------------------------------
(***************************************************************************)
(* The account.                                                            *)
(***************************************************************************)
\* createPaymentPlan: the plan and the resolve in one transaction
AgreePlan ==
  /\ ~plan.active /\ events < MaxEvents
  /\ \E covers \in SUBSET (open \intersect Plannable) \ {{}} :
       plan' = [covers |-> covers, active |-> TRUE]
  /\ filed' = ResolveHighest(CancelPending(filed))
  /\ events' = events + 1
  /\ UNCHANGED <<day, open, owed, fees, eval, desk>>

\* completed, defaulted or cancelled: its rows stay, its status does not
EndPlan ==
  /\ plan.active
  /\ plan' = [plan EXCEPT !.active = FALSE]
  /\ UNCHANGED <<day, open, owed, filed, fees, eval, desk, events>>

\* Payments, credits, reversals of payments and waivers of fees.
LedgerMoves ==
  /\ events < MaxEvents
  /\ open' \in SUBSET Bill
  /\ owed' \in IF fees = <<>> THEN {FALSE} ELSE BOOLEAN
  /\ events' = events + 1
  /\ UNCHANGED <<day, plan, filed, fees, eval, desk>>

NextDay ==
  /\ day < MaxDay
  /\ day' = day + 1
  /\ UNCHANGED <<open, owed, plan, filed, fees, eval, desk, events>>

LadderInit ==
  /\ day = 0 /\ open = Bill /\ owed = FALSE
  /\ plan = [covers |-> {}, active |-> FALSE]
  /\ filed = <<>> /\ fees = <<>>
  /\ eval = [e \in Evaluator |-> Unstarted]
  /\ desk = Idle
  /\ events = 0

LadderNext ==
  \/ \E e \in Evaluator : Evaluate(e) \/ EvaluationDies(e)
  \/ \E a \in DOMAIN filed : ReadForCancel(a)
  \/ CancelAction \/ BeginResolve \/ FinishResolve
  \/ ReadForEscalate \/ Escalate
  \/ AgreePlan \/ EndPlan \/ LedgerMoves \/ NextDay

LadderSpec == LadderInit /\ [][LadderNext]_ladderVars

\* The dispatcher starts the job every night and a job goes on until it ends.
LadderLiveSpec == LadderSpec /\ WF_ladderVars(Evaluate(Job))
-----------------------------------------------------------------------------
(***************************************************************************)
(* Properties.                                                             *)
(***************************************************************************)

\* A tier charges a bill once, and once only, whatever happens to the fee, to
\* the action it hangs on and to the account in between, and however many
\* evaluations run at once (alreadyChargedBill under chargeableDebits' lock).
FeeOncePerTier ==
  \A i, j \in DOMAIN fees :
    (fees[i].bill = fees[j].bill
       /\ filed[fees[i].action].tier = filed[fees[j].action].tier) => i = j

\* A bill that stays unpaid past a charging tier, and under no plan, is charged
\* by that tier in the end: also the second bill, which gets there long after
\* the action was filed, and also one whose plan has ended.
EveryBillIsCharged ==
  \A t \in Charging, b \in Bill :
    <>[](b \in open \ Covered /\ t * TierDays <= day - b)
      => <>AlreadyCharged(t, b)
=============================================================================
