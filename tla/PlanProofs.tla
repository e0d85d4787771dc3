----------------------------- MODULE PlanProofs -----------------------------
(***************************************************************************)
(* What planProgress says of a schedule, for every amount, every number of *)
(* instalments and every setting of the terms; and that a sweep ends a     *)
(* plan only for a cause.                                                  *)
(***************************************************************************)
EXTENDS PaymentPlan, SumTheorems, SequenceTheorems, FiniteSetTheorems, TLAPS

\* The schedules createPaymentPlan agrees: something is left after the down
\* payment and it is at least a cent for each instalment.
Agreed(plan) ==
  /\ plan \in Schedule
  /\ plan.count > 0
  /\ plan.base > 0
  /\ plan.base * plan.count <= plan.total - plan.down

(***************************************************************************)
(* splitInstallments: rounded down, the instalments never ask for more     *)
(* than there is, and less than a cent each is left for the first.         *)
(***************************************************************************)
THEOREM SplitFits ==
  ASSUME NEW r \in Nat, NEW n \in Nat \ {0}
  PROVE  /\ Base(r, n) \in Nat
         /\ Base(r, n) * n <= r
         /\ r - Base(r, n) * n < n
BY Z3 DEF Base

(***************************************************************************)
(* The payments of a schedule together ask for the frozen balance exactly, *)
(* whatever the rounding: no cent too much and none too little.            *)
(***************************************************************************)
THEOREM ScheduleAsksTheBalance ==
  ASSUME NEW plan, Agreed(plan)
  PROVE  Asked(plan, plan.count) = plan.total
<1>1. /\ plan.total \in Nat /\ plan.down \in Nat /\ plan.base \in Nat
      /\ plan.count \in Nat \ {0}
  BY DEF Agreed, Schedule
<1> QED BY <1>1 DEF Asked, First

(***************************************************************************)
(* What the solver does not find by itself about products.                 *)
(***************************************************************************)
LEMMA ProductOfDifference ==
  ASSUME NEW a \in Int, NEW b \in Int, NEW c \in Int
  PROVE  (a - b) * c = a * c - b * c
BY Z3

LEMMA ProductIsPositive ==
  ASSUME NEW a \in Nat \ {0}, NEW b \in Nat \ {0}
  PROVE  a * b \in Nat /\ a * b > 0
BY Z3

(***************************************************************************)
(* What is asked for by payment i, without the first instalment in it.     *)
(***************************************************************************)
LEMMA AskedIs ==
  ASSUME NEW plan, Agreed(plan), NEW i \in Payments(plan), i # 0
  PROVE  Asked(plan, i) = plan.total - (plan.count - i) * plan.base
<1>1. /\ plan.total \in Nat /\ plan.down \in Nat /\ plan.base \in Nat
      /\ plan.count \in Nat \ {0} /\ i \in Nat
  BY DEF Agreed, Schedule, Payments
<1> DEFINE B == plan.base
           C == plan.count
<1>2. /\ (C - 1) * B = C * B - 1 * B
      /\ (i - 1) * B = i * B - 1 * B
      /\ (C - i) * B = C * B - i * B
  BY <1>1, ProductOfDifference
<1>3. B * (C - 1) = (C - 1) * B /\ C * B \in Int /\ i * B \in Int
  BY <1>1
<1> QED BY <1>1, <1>2, <1>3 DEF Asked, First

LEMMA AskedBounds ==
  ASSUME NEW plan, Agreed(plan), NEW i \in Payments(plan)
  PROVE  /\ Asked(plan, i) \in Nat
         /\ Asked(plan, i) <= plan.total
         /\ i # plan.count => Asked(plan, i) < plan.total
<1>1. /\ plan.total \in Nat /\ plan.down \in Nat /\ plan.base \in Nat
      /\ plan.count \in Nat \ {0} /\ i \in 0..plan.count
      /\ plan.base > 0 /\ plan.base * plan.count <= plan.total - plan.down
  BY DEF Agreed, Schedule, Payments
<1>2. plan.base * plan.count >= plan.base
  BY <1>1
<1>3. CASE i = 0
  BY <1>1, <1>2, <1>3 DEF Asked
<1>4. CASE i # 0
  <2>1. Asked(plan, i) = plan.total - (plan.count - i) * plan.base
    BY <1>4, AskedIs
  <2>2. (plan.count - i) * plan.base >= 0
    BY <1>1
  <2>3. i # plan.count => (plan.count - i) * plan.base > 0
    <3>1. i # plan.count => plan.count - i \in Nat \ {0}
      BY <1>1
    <3> QED BY <1>1, <3>1, ProductIsPositive
  <2>4. (plan.count - i) * plan.base <= plan.base * plan.count
    BY <1>1
  <2>5. (plan.count - i) * plan.base \in Int
    BY <1>1
  <2> QED BY <1>1, <2>1, <2>2, <2>3, <2>4, <2>5
<1> QED BY <1>3, <1>4

(***************************************************************************)
(* "A plan cannot be both satisfied and broken": when the whole balance    *)
(* has gone nothing is late, on any day and in either reading of a part    *)
(* payment.  This is what lets the sweep complete before it defaults.      *)
(***************************************************************************)
THEOREM SettledIsOnTrack ==
  ASSUME NEW plan, Agreed(plan), NEW paid \in Nat, paid >= plan.total,
         NEW today \in Nat
  PROVE  Late(plan, paid, today) = {} /\ ~Broken(plan, paid, today)
<1>1. /\ plan.total \in Nat /\ plan.base \in Nat \ {0} /\ plan.count \in Nat \ {0}
      /\ plan.total > 0
  <2>1. plan.base * plan.count > 0
    BY DEF Agreed, Schedule
  <2> QED BY <2>1 DEF Agreed, Schedule
<1>2. ASSUME NEW i \in Payments(plan) PROVE Met(plan, i, paid)
  <2>1. Asked(plan, i) \in Nat /\ Asked(plan, i) <= plan.total
    BY AskedBounds
  <2>2. i # 0 => Asked(plan, i - 1) \in Nat /\ Asked(plan, i - 1) < plan.total
    <3>1. i # 0 => i - 1 \in Payments(plan) /\ i - 1 # plan.count
      BY <1>1 DEF Payments
    <3> QED BY <3>1, AskedBounds
  <2> QED BY <1>1, <2>1, <2>2 DEF Met
<1>3. Late(plan, paid, today) = {}
  BY <1>2 DEF Late, Due
<1>4. Missed(plan, paid, today) = {}
  BY <1>3 DEF Missed
<1> QED BY <1>3, <1>4, FS_EmptySet, MissedAssumption DEF Broken

LEMMA MissedIsFinite ==
  ASSUME NEW plan, Agreed(plan), NEW paid, NEW today
  PROVE  IsFiniteSet(Missed(plan, paid, today))
<1>1. plan.count \in Nat
  BY DEF Agreed, Schedule
<1>2. IsFiniteSet(Payments(plan))
  BY <1>1, FS_Interval DEF Payments
<1>3. Missed(plan, paid, today) \subseteq Payments(plan)
  BY DEF Missed, Late, Due
<1> QED BY <1>2, <1>3, FS_Subset

(***************************************************************************)
(* Paying more never makes a plan later, and never breaks one that was     *)
(* kept: a sweep that reads the payments too early can only be too strict. *)
(***************************************************************************)
THEOREM PayingNeverHurts ==
  ASSUME NEW plan, Agreed(plan), NEW paid \in Nat, NEW more \in Nat,
         paid <= more, NEW today \in Nat
  PROVE  /\ Late(plan, more, today) \subseteq Late(plan, paid, today)
         /\ Broken(plan, more, today) => Broken(plan, paid, today)
<1>1. ASSUME NEW i \in Payments(plan), Met(plan, i, paid)
      PROVE  Met(plan, i, more)
  <2>1. Asked(plan, i) \in Nat
    BY AskedBounds
  <2>2. i # 0 => Asked(plan, i - 1) \in Nat
    <3>1. i # 0 => i - 1 \in Payments(plan)
      BY DEF Payments, Agreed, Schedule
    <3> QED BY <3>1, AskedBounds
  <2> QED BY <1>1, <2>1, <2>2 DEF Met
<1>2. Late(plan, more, today) \subseteq Late(plan, paid, today)
  BY <1>1 DEF Late, Due
<1>3. Missed(plan, more, today) \subseteq Missed(plan, paid, today)
  BY <1>2 DEF Missed
<1>4. Cardinality(Missed(plan, more, today)) <= Cardinality(Missed(plan, paid, today))
  BY <1>3, MissedIsFinite, FS_Subset
<1>5. /\ Cardinality(Missed(plan, more, today)) \in Nat
      /\ Cardinality(Missed(plan, paid, today)) \in Nat
  BY MissedIsFinite, FS_CardinalityType
<1> QED BY <1>2, <1>4, <1>5, MissedAssumption DEF Broken

(***************************************************************************)
(* A later day never takes a missed payment back: a sweep that judges by   *)
(* an earlier day than today's can only be too lenient.                    *)
(***************************************************************************)
THEOREM TimeNeverHelps ==
  ASSUME NEW plan, Agreed(plan), NEW paid \in Nat,
         NEW today \in Nat, NEW later \in Nat, today <= later
  PROVE  Broken(plan, paid, today) => Broken(plan, paid, later)
<1>1. ASSUME NEW i \in Payments(plan) PROVE DueDate(plan, i) \in Nat
  BY PeriodAssumption DEF DueDate, Agreed, Schedule, Payments
<1>2. Missed(plan, paid, today) \subseteq Missed(plan, paid, later)
  BY <1>1, GraceAssumption DEF Missed, Late, Due
<1>3. Cardinality(Missed(plan, paid, today)) <= Cardinality(Missed(plan, paid, later))
  BY <1>2, MissedIsFinite, FS_Subset
<1>4. /\ Cardinality(Missed(plan, paid, today)) \in Nat
      /\ Cardinality(Missed(plan, paid, later)) \in Nat
  BY MissedIsFinite, FS_CardinalityType
<1> QED BY <1>3, <1>4, MissedAssumption DEF Broken
-----------------------------------------------------------------------------
(***************************************************************************)
(* The schedule as the customer was shown it.                              *)
(***************************************************************************)
LEMMA ShownIs ==
  ASSUME NEW plan, Agreed(plan), NEW i \in Payments(plan)
  PROVE  /\ Shown(plan, i) \in Nat
         /\ i = 0 => Asked(plan, i) = plan.down /\ Shown(plan, i) = plan.down
         /\ i # 0 => /\ Shown(plan, i) > 0
                     /\ i - 1 \in Payments(plan)
                     /\ Asked(plan, i) = Asked(plan, i - 1) + Shown(plan, i)
<1>1. /\ plan.total \in Nat /\ plan.down \in Nat /\ plan.base \in Nat \ {0}
      /\ plan.count \in Nat \ {0} /\ i \in 0..plan.count
      /\ plan.base * plan.count <= plan.total - plan.down
  BY DEF Agreed, Schedule, Payments
<1> DEFINE B == plan.base
           C == plan.count
<1>2. First(plan) \in Nat /\ First(plan) > 0
  <2>0. B * (C - 1) = (C - 1) * B /\ B * C = C * B /\ 1 * B = B
    BY <1>1
  <2>1. (C - 1) * B = C * B - 1 * B
    <3>1. B \in Int /\ C \in Int /\ 1 \in Int
      BY <1>1
    <3> HIDE DEF B, C
    <3> QED BY <3>1, ProductOfDifference, Zenon
  <2>2. C * B \in Int
    BY <1>1
  <2>3. First(plan) = plan.total - plan.down - (C * B - B)
    BY <1>1, <2>0, <2>1 DEF First
  <2>4. C * B <= plan.total - plan.down
    BY <1>1, <2>0
  <2> QED BY <1>1, <2>2, <2>3, <2>4
<1>3. CASE i = 0
  BY <1>1, <1>3 DEF Shown, Asked
<1>4. CASE i = 1
  BY <1>1, <1>2, <1>4 DEF Shown, Asked, Payments
<1>5. CASE i > 1
  <2>1. (i - 1) * B = (i - 2) * B + B
    <3>1. (i - 1 - 1) * B = (i - 1) * B - 1 * B /\ i - 1 - 1 = i - 2
      BY <1>1, ProductOfDifference
    <3>2. (i - 1) * B \in Int
      BY <1>1
    <3> QED BY <1>1, <3>1, <3>2
  <2>2. Asked(plan, i) = plan.down + First(plan) + (i - 1) * B
    BY <1>5 DEF Asked
  <2>3. Asked(plan, i - 1) = plan.down + First(plan) + (i - 2) * B
    BY <1>1, <1>5 DEF Asked
  <2>4. (i - 2) * B \in Int
    BY <1>1
  <2> QED BY <1>1, <1>2, <1>5, <2>1, <2>2, <2>3, <2>4 DEF Shown, Payments
<1> QED BY <1>1, <1>3, <1>4, <1>5

\* scheduleAmounts, added up, is what the running total of Asked says.
LEMMA ShownThroughIs ==
  ASSUME NEW plan, Agreed(plan)
  PROVE  \A i \in Payments(plan) : ShownThrough(plan, i) = Asked(plan, i)
<1> DEFINE f(i) == [n \in 1..(i + 1) |-> Shown(plan, n - 1)]
           S == {i \in Nat : i \in Payments(plan) => ShownThrough(plan, i) = Asked(plan, i)}
<1>c. plan.count \in Nat
  BY DEF Agreed, Schedule
<1>1. 0 \in S
  <2>1. 0 \in Payments(plan)
    BY <1>c DEF Payments
  <2>2. Shown(plan, 0) \in Nat /\ Asked(plan, 0) = Shown(plan, 0)
    BY <2>1, ShownIs
  <2>3. SumTo(f(0), 0 + 1) = SumTo(f(0), 0) + f(0)[0 + 1]
    BY SumToStep
  <2>4. f(0)[0 + 1] = Shown(plan, 0)
    OBVIOUS
  <2>5. SumTo(f(0), 0) = 0
    BY SumToZero
  <2> HIDE DEF f
  <2>6. SumTo(f(0), 0 + 1) = Shown(plan, 0)
    BY <2>2, <2>3, <2>4, <2>5
  <2> QED BY <2>2, <2>6 DEF ShownThrough, f
<1>2. ASSUME NEW i \in Nat, i \in S PROVE i + 1 \in S
  <2> SUFFICES ASSUME i + 1 \in Payments(plan)
               PROVE  ShownThrough(plan, i + 1) = Asked(plan, i + 1)
    OBVIOUS
  <2>1. i \in Payments(plan) /\ i + 1 # 0
    BY <1>c DEF Payments
  <2>2. ShownThrough(plan, i) = Asked(plan, i)
    BY <1>2, <2>1
  <2>3. Asked(plan, i + 1) = Asked(plan, i) + Shown(plan, i + 1)
    BY <2>1, ShownIs
  <2>4. SumTo(f(i + 1), (i + 1) + 1) = SumTo(f(i + 1), i + 1) + f(i + 1)[(i + 1) + 1]
    BY SumToStep
  <2>5. f(i + 1)[(i + 1) + 1] = Shown(plan, i + 1)
    OBVIOUS
  <2>6. \A n \in 1..(i + 1) : f(i + 1)[n] = f(i)[n]
    OBVIOUS
  <2>7. ShownThrough(plan, i) = SumTo(f(i), i + 1)
        /\ ShownThrough(plan, i + 1) = SumTo(f(i + 1), (i + 1) + 1)
    BY DEF ShownThrough
  <2> HIDE DEF f
  <2>8. SumTo(f(i + 1), i + 1) = SumTo(f(i), i + 1)
    BY <2>6, SumToEq
  <2> QED BY <2>2, <2>3, <2>4, <2>5, <2>7, <2>8
<1>3. \A i \in Nat : i \in S
  <2> HIDE DEF S
  <2> QED BY <1>1, <1>2, NatSetInduction
<1>4. Payments(plan) \subseteq Nat
  BY <1>c DEF Payments
<1> QED BY <1>3, <1>4

-----------------------------------------------------------------------------
(***************************************************************************)
(* The plans of an account.  PlanShape is what every step keeps of them:   *)
(* the terms createPaymentPlan agreed stay those of an agreed plan.        *)
(***************************************************************************)
PlanRec == [status : PlanStatus, covers : SUBSET Debit, terms : Schedule,
            noticed : Int]

PlanShape ==
  /\ day \in Nat /\ crashes \in Nat
  /\ due \in [Debit -> Int] /\ open \in [Debit -> Nat]
  /\ plans \in Seq(PlanRec) /\ Len(plans) <= MaxPlans
  /\ \A p \in DOMAIN plans : Agreed(plans[p].terms) /\ plans[p].terms.down \in Downs
  /\ reading \subseteq DOMAIN plans

LEMMA PlanIs ==
  ASSUME PlanShape, NEW p \in DOMAIN plans
  PROVE  /\ plans[p] \in PlanRec /\ p \in 1..Len(plans) /\ p \in PlanId
         /\ Agreed(plans[p].terms) /\ plans[p].terms.down \in Downs
BY FaceAssumption DEF PlanShape, PlanId

\* What is open on the covered debits is nothing only when each is settled.
LEMMA NothingOpen ==
  ASSUME open \in [Debit -> Nat], NEW covers
  PROVE  /\ OpenOn(covers) \in Nat
         /\ OpenOn(covers) = 0 => \A d \in Debit \intersect covers : open[d] = 0
<1> DEFINE f == [d \in Debit |-> IF d \in covers THEN open[d] ELSE 0]
           g == [d \in Debit |-> 0]
<1>1. MaxDebits \in Nat
  BY FaceAssumption
<1>2. \A d \in 1..MaxDebits : f[d] \in Int /\ g[d] = 0 /\ g[d] <= f[d]
  BY DEF Debit
<1>3. OpenOn(covers) = SumTo(f, MaxDebits)
  BY DEF OpenOn
<1>4. \A d \in Debit \intersect covers : f[d] = open[d]
  OBVIOUS
<1> HIDE DEF f, g
<1>5. SumTo(g, MaxDebits) = 0 /\ SumTo(f, MaxDebits) \in Int
  BY <1>1, <1>2, SumToAllZero, SumToInt
<1>6. SumTo(g, MaxDebits) <= SumTo(f, MaxDebits)
  BY <1>1, <1>2, SumToLe
<1>7. ASSUME SumTo(f, MaxDebits) = 0 PROVE \A d \in 1..MaxDebits : g[d] = f[d]
  BY <1>1, <1>2, <1>5, <1>7, SumToSame
<1> QED BY <1>2, <1>3, <1>4, <1>5, <1>6, <1>7 DEF Debit

\* Where part payments count and nothing is paid down, planProgress takes the
\* down payment of nothing for one that was missed, and the customer's schedule
\* does not: the two agree unless both are so.
DownIsAsked == PartialCounts => 0 \notin Downs

\* What planProgress calls missed on an earlier day is unpaid today by the
\* schedule the customer was shown.
LEMMA MissedIsUnpaid ==
  ASSUME DownIsAsked, PlanShape, NEW p \in DOMAIN plans, NEW asOf \in Nat, asOf <= day,
         NEW i \in Missed(plans[p].terms, PaidToward(p), asOf)
  PROVE  i \in Payments(plans[p].terms) /\ Unpaid(p, i)
<1> DEFINE t == plans[p].terms
           gone == t.total - StillOpen(p)
           paid == PaidToward(p)
<1>1. /\ Agreed(t) /\ t.down \in Downs /\ t \in Schedule
  BY PlanIs DEF Agreed
<1>2. /\ i \in Payments(t) /\ ~Met(t, i, paid)
      /\ DueDate(t, i) + GraceDays < asOf
  BY DEF Missed, Late, Due
<1>3. gone \in Int /\ paid \in Nat /\ gone <= paid
  <2>1. StillOpen(p) \in Nat /\ t.total \in Nat
    BY <1>1, NothingOpen DEF StillOpen, PlanShape, Schedule
  <2> QED BY <2>1 DEF PaidToward
<1>4. DueDate(t, i) + GraceDays < day
  <2>1. DueDate(t, i) \in Nat
    <3>1. i \in Nat /\ t.start \in Nat /\ Period \in Nat
      BY <1>1, <1>2, PeriodAssumption DEF Payments, Schedule
    <3> QED BY <3>1 DEF DueDate
  <2> QED BY <1>2, <2>1, GraceAssumption DEF PlanShape
<1>5. /\ ShownThrough(t, i) = Asked(t, i) /\ Asked(t, i) \in Nat
      /\ Shown(t, i) \in Nat
  BY <1>1, <1>2, ShownThroughIs, AskedBounds, ShownIs
<1>6. CASE PartialCounts
  <2>1. CASE i = 0
    <3>1. ~(paid > 0) /\ t.down # 0 /\ t.down \in Nat
      BY <1>1, <1>2, <1>6, <2>1 DEF Met, DownIsAsked, Schedule
    <3>2. Asked(t, i) = t.down /\ Shown(t, i) = t.down
      BY <1>1, <1>2, <2>1, ShownIs
    <3> QED BY <1>2, <1>3, <1>4, <1>5, <1>6, <3>1, <3>2 DEF Unpaid
  <2>2. CASE i # 0
    <3>1. ~(paid > Asked(t, i - 1))
      BY <1>2, <1>6, <2>2 DEF Met
    <3>2. /\ Shown(t, i) > 0 /\ Asked(t, i) = Asked(t, i - 1) + Shown(t, i)
          /\ Asked(t, i - 1) \in Nat
      BY <1>1, <1>2, <2>2, ShownIs, AskedBounds
    <3> QED BY <1>2, <1>3, <1>4, <1>5, <1>6, <3>1, <3>2 DEF Unpaid
  <2> QED BY <2>1, <2>2
<1>7. CASE ~PartialCounts
  <2>1. ~(paid >= Asked(t, i))
    BY <1>2, <1>7 DEF Met
  <2>2. Shown(t, i) > 0
    BY <1>1, <1>2, <1>3, <1>5, <2>1, ShownIs
  <2> QED BY <1>2, <1>3, <1>4, <1>5, <1>7, <2>1, <2>2 DEF Unpaid
<1> QED BY <1>6, <1>7

\* So a plan the sweep finds broken misses its schedule.
LEMMA BrokenMisses ==
  ASSUME DownIsAsked, PlanShape, NEW p \in DOMAIN plans, plans[p].status = "ACTIVE",
         NEW asOf \in Nat, asOf <= day, Broken(plans[p].terms, PaidToward(p), asOf)
  PROVE  MissesSchedule(p)
<1> DEFINE t == plans[p].terms
           M == Missed(t, PaidToward(p), asOf)
           U == {i \in Payments(t) : Unpaid(p, i)}
<1>1. M \subseteq U
  BY MissedIsUnpaid
<1>2. IsFiniteSet(U)
  <2>1. t.count \in Int /\ 0 \in Int /\ Payments(t) = 0..t.count
    BY PlanIs DEF Agreed, Schedule, Payments
  <2>2. IsFiniteSet(Payments(t))
    <3> HIDE DEF t
    <3> QED BY <2>1, FS_Interval
  <2>3. U \in SUBSET Payments(t)
    OBVIOUS
  <2> HIDE DEF U
  <2> QED BY <2>2, <2>3, FS_Subset
<1>3. Cardinality(M) <= Cardinality(U) /\ Cardinality(M) \in Nat /\ Cardinality(U) \in Nat
  BY <1>1, <1>2, FS_Subset, FS_CardinalityType
<1>4. Cardinality(M) >= MissedBeforeDefault
  BY DEF Broken
<1>5. Cardinality(U) >= MissedBeforeDefault
  BY <1>3, <1>4, MissedAssumption
<1> QED BY <1>5 DEF MissesSchedule, Active

-----------------------------------------------------------------------------
(***************************************************************************)
(* What a sweep carries from one query to the next still has its cause: a  *)
(* plan it means to complete has been seen settled, and one it means to    *)
(* default has been seen behind, unless it has ended since.                *)
(***************************************************************************)
Field == {"pc", "asOf", "todo", "satisfied", "plan", "noticed", "late",
          "watermark", "broken"}

Sound(s) ==
  /\ sweep[s] = [x \in Field |-> sweep[s][x]]
  /\ sweep[s].asOf \in Nat /\ sweep[s].asOf <= day
  /\ sweep[s].todo \subseteq DOMAIN plans
  /\ sweep[s].pc \in {"bill", "decide", "mark"} =>
       sweep[s].plan \in DOMAIN plans /\ sweep[s].watermark \in Int
  /\ sweep[s].pc = "close" => sweep[s].todo \subseteq seen[s].settled
  /\ /\ DownIsAsked /\ sweep[s].pc \in {"bill", "decide"} /\ sweep[s].broken
     /\ plans[sweep[s].plan].status = "ACTIVE"
     => sweep[s].plan \in seen[s].behind

CauseInv ==
  /\ PlanShape /\ sweep = [s \in Sweeper |-> sweep[s]]
  /\ \A s \in Sweeper : Sound(s)

\* What no step does to the plans: take one away, or bring one back.
NoneRevived ==
  /\ day <= day' /\ DOMAIN plans \subseteq DOMAIN plans'
  /\ \A p \in DOMAIN plans : plans'[p].status = "ACTIVE" => plans[p].status = "ACTIVE"

LEMMA SeenGrows ==
  ASSUME Observe, NEW s \in Sweeper, sweep'[s].pc # "idle"
  PROVE  /\ seen[s].settled \subseteq seen'[s].settled
         /\ seen[s].behind \subseteq seen'[s].behind
         /\ \A p \in PlanId : Settled(p)' => p \in seen'[s].settled
         /\ \A p \in PlanId : Behind(p)' => p \in seen'[s].behind
BY DEF Observe

\* A sweep that does not move keeps what it knows.
LEMMA WaitingIsSound ==
  ASSUME CauseInv, PlanShape', NoneRevived, Observe,
         NEW s \in Sweeper, sweep'[s] = sweep[s]
  PROVE  Sound(s)'
<1>1. Sound(s) /\ day \in Nat /\ day' \in Nat
  BY DEF CauseInv, PlanShape
<1>2. CASE sweep[s].pc = "idle"
  BY <1>1, <1>2 DEF Sound, NoneRevived
<1>3. CASE sweep[s].pc # "idle"
  <2>1. /\ seen[s].settled \subseteq seen'[s].settled
        /\ seen[s].behind \subseteq seen'[s].behind
    BY <1>3, SeenGrows
  <2>2. sweep'[s].asOf \in Nat /\ sweep'[s].asOf <= day'
    BY <1>1 DEF Sound, NoneRevived
  <2>3. sweep'[s].todo \subseteq DOMAIN plans'
    BY <1>1 DEF Sound, NoneRevived
  <2>4. sweep'[s].pc \in {"bill", "decide", "mark"} =>
          sweep'[s].plan \in DOMAIN plans' /\ sweep'[s].watermark \in Int
    BY <1>1 DEF Sound, NoneRevived
  <2>5. sweep'[s].pc = "close" => sweep'[s].todo \subseteq seen'[s].settled
    BY <1>1, <2>1 DEF Sound
  <2>6. ASSUME DownIsAsked, sweep'[s].pc \in {"bill", "decide"}, sweep'[s].broken,
               plans'[sweep'[s].plan].status = "ACTIVE"
        PROVE  sweep'[s].plan \in seen'[s].behind
    <3>1. sweep[s].plan \in DOMAIN plans
      BY <1>1, <2>6 DEF Sound
    <3>2. plans[sweep[s].plan].status = "ACTIVE"
      BY <2>6, <3>1 DEF NoneRevived
    <3> QED BY <1>1, <2>1, <2>6, <3>2 DEF Sound
  <2>7. sweep'[s] = [x \in Field |-> sweep'[s][x]]
    BY <1>1 DEF Sound
  <2> QED BY <2>2, <2>3, <2>4, <2>5, <2>6, <2>7 DEF Sound
<1> QED BY <1>2, <1>3

LEMMA WorldKeeps ==
  ASSUME CauseInv, PlanShape', NoneRevived, Observe, UNCHANGED sweep
  PROVE  CauseInv'
<1>1. \A s \in Sweeper : Sound(s)'
  BY WaitingIsSound
<1> QED BY <1>1 DEF CauseInv

LEMMA SweepKeeps ==
  ASSUME CauseInv, PlanShape', NoneRevived, Observe,
         NEW s \in Sweeper, NEW c, sweep' = [sweep EXCEPT ![s] = c],
         sweep'[s] = c => Sound(s)'
  PROVE  CauseInv'
<1>1. sweep'[s] = c /\ \A r \in Sweeper : r # s => sweep'[r] = sweep[r]
  BY DEF CauseInv
<1>2. sweep' = [r \in Sweeper |-> sweep'[r]]
  BY DEF CauseInv
<1>3. ASSUME NEW r \in Sweeper PROVE Sound(r)'
  <2>1. CASE r = s
    BY <1>1, <2>1
  <2>2. CASE r # s
    BY <1>1, <2>2, WaitingIsSound
  <2> QED BY <2>1, <2>2
<1> QED BY <1>2, <1>3 DEF CauseInv

LEMMA RestIsSound ==
  ASSUME PlanShape', NEW s \in Sweeper, sweep'[s] = AtRest
  PROVE  Sound(s)'
<1>1. /\ AtRest = [x \in Field |-> AtRest[x]] /\ AtRest.asOf = 0
      /\ AtRest.todo = {} /\ AtRest.pc = "idle"
  BY DEF AtRest, Field
<1>2. day' \in Nat
  BY DEF PlanShape
<1>3. sweep'[s] = [x \in Field |-> sweep'[s][x]]
  BY <1>1
<1>4. /\ sweep'[s].asOf = 0 /\ sweep'[s].todo = {} /\ sweep'[s].pc = "idle"
  BY <1>1
<1> QED BY <1>2, <1>3, <1>4 DEF Sound

LEMMA SameShape ==
  ASSUME PlanShape, UNCHANGED <<day, crashes, account, plans, reading>>
  PROVE  PlanShape' /\ NoneRevived
BY DEF PlanShape, NoneRevived, account

\* One plan is written, with the terms it had.
LEMMA PlanIsWritten ==
  ASSUME PlanShape, NEW p \in DOMAIN plans, NEW r \in PlanRec,
         r.terms = plans[p].terms,
         r.status = "ACTIVE" => plans[p].status = "ACTIVE",
         plans' = [plans EXCEPT ![p] = r],
         UNCHANGED <<day, crashes, account>>, reading' \subseteq reading
  PROVE  /\ PlanShape' /\ NoneRevived /\ DOMAIN plans' = DOMAIN plans
         /\ \A q \in DOMAIN plans : plans'[q] = IF q = p THEN r ELSE plans[q]
<1>1. p \in 1..Len(plans) /\ plans \in Seq(PlanRec) /\ DOMAIN plans = 1..Len(plans)
  BY DEF PlanShape
<1>2. /\ plans' \in Seq(PlanRec) /\ Len(plans') = Len(plans)
      /\ \A q \in 1..Len(plans) : plans'[q] = IF q = p THEN r ELSE plans[q]
  BY <1>1, ExceptSeq
<1>3. DOMAIN plans' = DOMAIN plans
  BY <1>1, <1>2
<1> QED BY <1>1, <1>2, <1>3 DEF PlanShape, NoneRevived, account

LEMMA StatusIsWritten ==
  ASSUME PlanShape, NEW p \in DOMAIN plans, NEW x \in PlanStatus,
         x = "ACTIVE" => plans[p].status = "ACTIVE",
         plans' = [plans EXCEPT ![p].status = x],
         UNCHANGED <<day, crashes, account>>, reading' \subseteq reading
  PROVE  /\ PlanShape' /\ NoneRevived /\ DOMAIN plans' = DOMAIN plans
         /\ \A q \in DOMAIN plans :
              /\ q # p => plans'[q] = plans[q]
              /\ plans'[q].status = IF q = p THEN x ELSE plans[q].status
<1> DEFINE r == [plans[p] EXCEPT !.status = x]
<1>1. /\ r \in PlanRec /\ r.terms = plans[p].terms /\ r.status = x
  BY PlanIs DEF PlanRec
<1>2. plans' = [plans EXCEPT ![p] = r]
  OBVIOUS
<1> HIDE DEF r
<1> QED BY <1>1, <1>2, PlanIsWritten

\* A plan is agreed by createPaymentPlan.
LEMMA AgreementKeeps ==
  ASSUME PlanShape, NEW covers \in SUBSET Debit, NEW count \in Counts,
         NEW down \in Downs, NEW start \in 0..(MaxDay + MaxStartDays),
         CreatePaymentPlan(covers, count, down, start)
  PROVE  PlanShape' /\ NoneRevived
<1> DEFINE t == Terms(covers, count, down, start)
           r == [status |-> "ACTIVE", covers |-> covers, terms |-> t,
                 noticed |-> NoNotice]
<1>1. /\ t.total = OpenOn(covers) /\ t.down = down /\ t.count = count
      /\ t.start = start /\ t.base = Base(t.total - down, count)
  BY DEF Terms
<1>2. /\ t.total \in Nat /\ down \in Nat /\ count \in Nat \ {0} /\ start \in Nat
      /\ t.total > down /\ t.base > 0 /\ Len(plans) < MaxPlans
      /\ plans' = Append(plans, r)
      /\ UNCHANGED <<day, account, sweep, reading, crashes>>
  <2>1. t.total \in Nat
    BY <1>1, NothingOpen DEF PlanShape
  <2> QED BY <2>1, CountsAssumption, DownsAssumption, DaysAssumption
          DEF CreatePaymentPlan
<1>3. Agreed(t)
  <2>1. t.total - down \in Nat
    BY <1>2
  <2>2. t.base \in Nat /\ t.base * count <= t.total - down
    BY <1>1, <1>2, <2>1, SplitFits
  <2>3. t = [total |-> t.total, down |-> down, base |-> t.base, count |-> count,
             start |-> start]
    BY DEF Terms
  <2>4. t \in Schedule
    BY <1>2, <2>2, <2>3 DEF Schedule
  <2> QED BY <1>1, <1>2, <2>2, <2>4 DEF Agreed
<1> HIDE DEF t
<1>4. r \in PlanRec /\ r.terms = t
  BY <1>3 DEF PlanRec, PlanStatus, NoNotice, Agreed
<1> HIDE DEF r
<1>5. /\ plans' \in Seq(PlanRec) /\ Len(plans') = Len(plans) + 1
      /\ \A q \in 1..Len(plans) : plans'[q] = plans[q]
      /\ plans'[Len(plans) + 1] = r
  BY <1>2, <1>4, AppendProperties DEF PlanShape
<1>6. /\ DOMAIN plans = 1..Len(plans) /\ DOMAIN plans' = 1..(Len(plans) + 1)
      /\ Len(plans) \in Nat
  BY <1>5 DEF PlanShape
<1>7. ASSUME NEW q \in DOMAIN plans'
      PROVE  Agreed(plans'[q].terms) /\ plans'[q].terms.down \in Downs
  <2>1. CASE q = Len(plans) + 1
    BY <1>1, <1>3, <1>4, <1>5, <2>1
  <2>2. CASE q # Len(plans) + 1
    <3>1. q \in DOMAIN plans /\ plans'[q] = plans[q]
      BY <1>5, <1>6, <2>2
    <3> QED BY <3>1, PlanIs
  <2> QED BY <2>1, <2>2
<1>8. Len(plans') <= MaxPlans
  BY <1>2, <1>5, <1>6, FaceAssumption
<1> QED BY <1>2, <1>5, <1>6, <1>7, <1>8 DEF PlanShape, NoneRevived, account

\* Only finitely many payments are due.
LEMMA DueIsFinite ==
  ASSUME NEW plan, Agreed(plan), NEW today
  PROVE  Cardinality(Due(plan, today)) \in Nat
<1>1. plan.count \in Nat
  BY DEF Agreed, Schedule
<1>2. IsFiniteSet(Payments(plan))
  BY <1>1, FS_Interval DEF Payments
<1>3. IsFiniteSet(Due(plan, today))
  BY <1>2, FS_Subset DEF Due
<1> QED BY <1>3, FS_CardinalityType

(***************************************************************************)
(* The steps of a sweep.                                                   *)
(***************************************************************************)
\* It begins with the plans it found settled.
LEMMA StartKeepsCause ==
  ASSUME CauseInv, NEW s \in Sweeper, StartSweep(s), Observe PROVE CauseInv'
<1>1. UNCHANGED <<day, crashes, account, plans, reading>>
  BY DEF StartSweep, SweepStep
<1>2. PlanShape' /\ NoneRevived
  BY <1>1, SameShape DEF CauseInv
<1> DEFINE c == [AtRest EXCEPT !.pc = "close", !.asOf = day, !.satisfied = Satisfied,
                               !.todo = Satisfied]
<1>3. sweep' = [sweep EXCEPT ![s] = c]
  BY DEF StartSweep
<1>4. /\ c = [x \in Field |-> c[x]]
      /\ c.pc = "close" /\ c.asOf = day /\ c.todo = Satisfied
  BY DEF AtRest, Field
<1> HIDE DEF c
<1>5. ASSUME sweep'[s] = c PROVE Sound(s)'
  <2>1. ASSUME NEW p \in Satisfied PROVE p \in PlanId /\ Settled(p)'
    <3>1. p \in DOMAIN plans /\ plans[p].status = "ACTIVE" /\ StillOpen(p) = 0
      BY DEF Satisfied, Active
    <3>2. /\ p \in PlanId /\ plans[p].covers \subseteq Debit
      BY <3>1, PlanIs DEF CauseInv, PlanRec
    <3>3. \A d \in plans[p].covers : open[d] = 0
      BY <3>1, <3>2, NothingOpen DEF StillOpen, CauseInv, PlanShape
    <3> QED BY <1>1, <3>1, <3>2, <3>3 DEF Settled, Active, account
  <2>2. Satisfied \subseteq seen'[s].settled
    BY <1>4, <1>5, <2>1, SeenGrows
  <2>3. Satisfied \subseteq DOMAIN plans
    BY DEF Satisfied, Active
  <2>4. day \in Nat
    BY DEF CauseInv, PlanShape
  <2> QED BY <1>1, <1>4, <1>5, <2>2, <2>3, <2>4 DEF Sound
<1> QED BY <1>2, <1>3, <1>5, SweepKeeps

LEMMA CompleteKeepsCause ==
  ASSUME CauseInv, NEW s \in Sweeper, Complete(s), Observe PROVE CauseInv'
<1>1. PICK p \in sweep[s].todo :
        /\ plans' = [plans EXCEPT ![p].status =
                       IF @ = "ACTIVE" THEN "COMPLETED" ELSE @]
        /\ sweep' = [sweep EXCEPT ![s].todo = @ \ {p}]
  BY DEF Complete
<1>2. /\ sweep[s].pc = "close" /\ UNCHANGED <<day, crashes, account, reading>>
  BY DEF Complete, SweepStep
<1>3. Sound(s) /\ p \in DOMAIN plans
  BY DEF CauseInv, Sound
<1> DEFINE x == IF plans[p].status = "ACTIVE" THEN "COMPLETED" ELSE plans[p].status
           c == [sweep[s] EXCEPT !.todo = @ \ {p}]
<1>4. x \in PlanStatus /\ x # "ACTIVE" /\ plans' = [plans EXCEPT ![p].status = x]
  <2>1. plans[p].status \in PlanStatus
    BY <1>3, PlanIs DEF CauseInv, PlanRec
  <2> QED BY <1>1, <2>1 DEF PlanStatus
<1> HIDE DEF x
<1>5. PlanShape' /\ NoneRevived /\ DOMAIN plans' = DOMAIN plans
  BY <1>2, <1>3, <1>4, StatusIsWritten DEF CauseInv
<1>6. /\ c = [f \in Field |-> c[f]] /\ c.pc = "close"
      /\ c.asOf = sweep[s].asOf /\ c.todo = sweep[s].todo \ {p}
      /\ sweep' = [sweep EXCEPT ![s] = c]
  BY <1>1, <1>2, <1>3 DEF Sound, Field
<1> HIDE DEF c
<1>7. ASSUME sweep'[s] = c PROVE Sound(s)'
  <2>1. seen[s].settled \subseteq seen'[s].settled
    BY <1>6, <1>7, SeenGrows
  <2> QED BY <1>2, <1>3, <1>5, <1>6, <1>7, <2>1 DEF Sound
<1> QED BY <1>5, <1>6, <1>7, SweepKeeps

LEMMA FindLiveKeepsCause ==
  ASSUME CauseInv, NEW s \in Sweeper, FindLive(s), Observe PROVE CauseInv'
<1>1. UNCHANGED <<day, crashes, account, plans, reading>>
  BY DEF FindLive, SweepStep
<1>2. PlanShape' /\ NoneRevived
  BY <1>1, SameShape DEF CauseInv
<1> DEFINE live == Active \ sweep[s].satisfied
           c == [sweep[s] EXCEPT !.pc = "live", !.todo = live, !.satisfied = {},
                   !.noticed = [p \in live |-> plans[p].noticed]]
<1>3. Sound(s)
  BY DEF CauseInv
<1>4. /\ c = [f \in Field |-> c[f]] /\ c.pc = "live"
      /\ c.asOf = sweep[s].asOf /\ c.todo = live
      /\ sweep' = [sweep EXCEPT ![s] = c]
  BY <1>3 DEF FindLive, Sound, Field
<1> HIDE DEF c
<1>5. live \subseteq DOMAIN plans
  BY DEF Active
<1>6. ASSUME sweep'[s] = c PROVE Sound(s)'
  BY <1>1, <1>3, <1>4, <1>5, <1>6 DEF Sound
<1> QED BY <1>2, <1>4, <1>6, SweepKeeps

\* planProgress of one plan, by the payments as they are now.
LEMMA ReadPaidKeepsCause ==
  ASSUME CauseInv, NEW s \in Sweeper, ReadPaid(s), Observe PROVE CauseInv'
<1>1. UNCHANGED <<day, crashes, account, plans, reading>>
  BY DEF ReadPaid, SweepStep
<1>2. PlanShape' /\ NoneRevived
  BY <1>1, SameShape DEF CauseInv
<1>3. PICK p \in sweep[s].todo :
        sweep' = [sweep EXCEPT ![s] = [sweep[s] EXCEPT
            !.pc = "bill", !.todo = sweep[s].todo \ {p}, !.plan = p,
            !.late = Cardinality(Late(plans[p].terms, PaidToward(p), sweep[s].asOf)),
            !.watermark = Cardinality(Due(plans[p].terms, sweep[s].asOf)) - 1,
            !.broken = Broken(plans[p].terms, PaidToward(p), sweep[s].asOf)]]
  BY DEF ReadPaid
<1>4. Sound(s) /\ p \in DOMAIN plans
  BY DEF CauseInv, Sound
<1> DEFINE w == Cardinality(Due(plans[p].terms, sweep[s].asOf)) - 1
           b == Broken(plans[p].terms, PaidToward(p), sweep[s].asOf)
           n == Cardinality(Late(plans[p].terms, PaidToward(p), sweep[s].asOf))
           c == [sweep[s] EXCEPT !.pc = "bill", !.todo = sweep[s].todo \ {p}, !.plan = p,
                   !.late = n, !.watermark = w, !.broken = b]
<1>5. w \in Int
  BY <1>4, PlanIs, DueIsFinite DEF CauseInv
<1>6. DownIsAsked /\ b /\ plans[p].status = "ACTIVE" => MissesSchedule(p)
  BY <1>4, BrokenMisses DEF CauseInv, Sound
<1>r. sweep' = [sweep EXCEPT ![s] = [sweep[s] EXCEPT
          !.pc = "bill", !.todo = sweep[s].todo \ {p}, !.plan = p,
          !.late = n, !.watermark = w, !.broken = b]]
  BY <1>3
<1> HIDE DEF w, b, n
<1>7. sweep' = [sweep EXCEPT ![s] = c]
  BY <1>r
<1>8. /\ c = [f \in Field |-> c[f]] /\ c.pc = "bill" /\ c.asOf = sweep[s].asOf
      /\ c.todo = sweep[s].todo \ {p} /\ c.plan = p /\ c.watermark = w /\ c.broken = b
  BY <1>4 DEF Sound, Field
<1> HIDE DEF c
<1>9. ASSUME sweep'[s] = c PROVE Sound(s)'
  <2>1. ASSUME DownIsAsked, b, plans[p].status = "ACTIVE" PROVE p \in seen'[s].behind
    <3>1. MissesSchedule(p)'
      BY <1>1, <1>6, <2>1
         DEF MissesSchedule, Active, Unpaid, StillOpen, OpenOn, account
    <3>2. p \in PlanId
      BY <1>4, PlanIs DEF CauseInv
    <3> QED BY <1>8, <1>9, <3>1, <3>2, SeenGrows DEF Behind
  <2> QED BY <1>1, <1>4, <1>5, <1>8, <1>9, <2>1 DEF Sound
<1> QED BY <1>2, <1>7, <1>9, SweepKeeps

\* hasUncoveredPastDue, by the bills as they are now.
LEMMA ReadBillKeepsCause ==
  ASSUME CauseInv, NEW s \in Sweeper, ReadBill(s), Observe PROVE CauseInv'
<1>1. UNCHANGED <<day, crashes, account, plans, reading>> /\ sweep[s].pc = "bill"
  BY DEF ReadBill, SweepStep
<1>2. PlanShape' /\ NoneRevived
  BY <1>1, SameShape DEF CauseInv
<1> DEFINE b == sweep[s].broken \/ (CurrentBillCounts /\ UncoveredPastDue(sweep[s].asOf))
           c == [sweep[s] EXCEPT !.pc = "decide", !.broken = b]
<1>p. PICK p : p = sweep[s].plan
  OBVIOUS
<1>3. Sound(s) /\ p \in DOMAIN plans
  BY <1>1, <1>p DEF CauseInv, Sound
<1>4. sweep' = [sweep EXCEPT ![s] = c]
  BY DEF ReadBill
<1>5. ASSUME CurrentBillCounts, UncoveredPastDue(sweep[s].asOf), plans[p].status = "ACTIVE"
      PROVE  OwesNewBill(p)
  <2>1. PICK d \in Debit \ CoveredNow :
          open[d] > 0 /\ due[d] # Unposted /\ due[d] < sweep[s].asOf - GraceDays
    BY <1>5 DEF UncoveredPastDue
  <2>2. due[d] < day - GraceDays
    BY <1>3, <2>1, GraceAssumption DEF Sound, CauseInv, PlanShape
  <2> QED BY <1>3, <1>5, <2>1, <2>2 DEF OwesNewBill, UncoveredPastDue, Active
<1>6. DownIsAsked /\ b /\ plans[p].status = "ACTIVE" =>
        p \in seen[s].behind \/ OwesNewBill(p)
  BY <1>1, <1>p, <1>3, <1>5 DEF Sound
<1> HIDE DEF b
<1>7. /\ c = [f \in Field |-> c[f]] /\ c.pc = "decide" /\ c.asOf = sweep[s].asOf
      /\ c.todo = sweep[s].todo /\ c.plan = p /\ c.watermark = sweep[s].watermark
      /\ c.broken = b
  BY <1>p, <1>3 DEF Sound, Field
<1> HIDE DEF c
<1>8. ASSUME sweep'[s] = c PROVE Sound(s)'
  <2>1. ASSUME DownIsAsked, b, plans[p].status = "ACTIVE" PROVE p \in seen'[s].behind
    <3>1. p \in PlanId
      BY <1>3, PlanIs DEF CauseInv
    <3>2. OwesNewBill(p) => OwesNewBill(p)'
      BY <1>1 DEF OwesNewBill, UncoveredPastDue, CoveredNow, Active, account
    <3>3. sweep'[s].pc # "idle"
      BY <1>7, <1>8
    <3>4. OwesNewBill(p) => Behind(p)'
      BY <3>2 DEF Behind
    <3> QED BY <1>6, <2>1, <3>1, <3>3, <3>4, SeenGrows
  <2> QED BY <1>1, <1>3, <1>7, <1>8, <2>1 DEF Sound
<1> QED BY <1>2, <1>4, <1>8, SweepKeeps

\* A plan is done with, and the sweep goes on with those it has left.
LEMMA NextPlanIsSound ==
  ASSUME CauseInv, PlanShape', NoneRevived, Observe, NEW s \in Sweeper, NextPlan(s)
  PROVE  CauseInv'
<1> DEFINE c == [AtRest EXCEPT !.pc = "live", !.asOf = sweep[s].asOf,
                   !.todo = sweep[s].todo, !.noticed = sweep[s].noticed]
<1>1. /\ c = [f \in Field |-> c[f]] /\ c.pc = "live"
      /\ c.asOf = sweep[s].asOf /\ c.todo = sweep[s].todo
  BY DEF AtRest, Field
<1>2. sweep' = [sweep EXCEPT ![s] = c]
  BY DEF NextPlan
<1> HIDE DEF c
<1>3. ASSUME sweep'[s] = c PROVE Sound(s)'
  <2>1. Sound(s) /\ day \in Nat /\ day' \in Nat
    BY DEF CauseInv, PlanShape
  <2> QED BY <1>1, <1>3, <2>1 DEF Sound, NoneRevived
<1> QED BY <1>2, <1>3, SweepKeeps

LEMMA DefaultKeepsCause ==
  ASSUME CauseInv, NEW s \in Sweeper, Default(s), Observe PROVE CauseInv'
<1>1. /\ sweep[s].pc = "decide" /\ NextPlan(s)
      /\ UNCHANGED <<day, crashes, account, reading>>
  BY DEF Default, SweepStep
<1>p. PICK p : p = sweep[s].plan
  OBVIOUS
<1>2. p \in DOMAIN plans
  BY <1>1, <1>p DEF CauseInv, Sound
<1>3. PICK x : x = IF plans[p].status = "ACTIVE" THEN "DEFAULTED" ELSE plans[p].status
  OBVIOUS
<1>4. x \in PlanStatus /\ x # "ACTIVE"
  <2>1. plans[p].status \in PlanStatus
    BY <1>2, PlanIs DEF CauseInv, PlanRec
  <2> QED BY <1>3, <2>1 DEF PlanStatus
<1>5. plans' = [plans EXCEPT ![p].status = x]
  BY <1>p, <1>3 DEF Default
<1>6. PlanShape' /\ NoneRevived
  BY <1>1, <1>2, <1>4, <1>5, StatusIsWritten DEF CauseInv
<1> QED BY <1>1, <1>6, NextPlanIsSound

LEMMA NotifyKeepsCause ==
  ASSUME CauseInv, NEW s \in Sweeper, Notify(s), Observe PROVE CauseInv'
<1>1. /\ UNCHANGED <<day, crashes, account, plans, reading>>
      /\ sweep[s].pc = "decide" /\ ~sweep[s].broken
  BY DEF Notify, SweepStep
<1>2. PlanShape' /\ NoneRevived
  BY <1>1, SameShape DEF CauseInv
<1>3. CASE NextPlan(s)
  BY <1>2, <1>3, NextPlanIsSound
<1>4. CASE sweep' = [sweep EXCEPT ![s].pc = "mark"]
  <2> DEFINE c == [sweep[s] EXCEPT !.pc = "mark"]
  <2>1. Sound(s)
    BY DEF CauseInv
  <2>2. /\ c = [f \in Field |-> c[f]] /\ c.pc = "mark" /\ c.asOf = sweep[s].asOf
        /\ c.todo = sweep[s].todo /\ c.plan = sweep[s].plan
        /\ c.watermark = sweep[s].watermark
    BY <2>1 DEF Sound, Field
  <2>3. sweep' = [sweep EXCEPT ![s] = c]
    BY <1>4
  <2> HIDE DEF c
  <2>4. ASSUME sweep'[s] = c PROVE Sound(s)'
    BY <1>1, <2>1, <2>2, <2>4 DEF Sound
  <2> QED BY <1>2, <2>3, <2>4, SweepKeeps
<1> QED BY <1>3, <1>4 DEF Notify

LEMMA MarkKeepsCause ==
  ASSUME CauseInv, NEW s \in Sweeper, MarkNotice(s), Observe PROVE CauseInv'
<1>1. /\ sweep[s].pc = "mark" /\ NextPlan(s)
      /\ UNCHANGED <<day, crashes, account, reading>>
      /\ plans' = [plans EXCEPT ![sweep[s].plan].noticed = sweep[s].watermark]
  BY DEF MarkNotice, SweepStep
<1>p. PICK p, w : p = sweep[s].plan /\ w = sweep[s].watermark
  OBVIOUS
<1>2. p \in DOMAIN plans /\ w \in Int
  BY <1>1, <1>p DEF CauseInv, Sound
<1>r. PICK r : r = [plans[p] EXCEPT !.noticed = w]
  OBVIOUS
<1>3. /\ r \in PlanRec /\ r.terms = plans[p].terms /\ r.status = plans[p].status
  <2>1. plans[p] \in PlanRec
    BY <1>2, PlanIs DEF CauseInv
  <2> QED BY <1>2, <1>r, <2>1 DEF PlanRec
<1>4. plans' = [plans EXCEPT ![p] = r]
  <2>1. plans' = [plans EXCEPT ![p].noticed = w]
    BY <1>1, <1>p
  <2> QED BY <1>r, <2>1
<1>5. PlanShape' /\ NoneRevived
  <2>1. PlanShape /\ reading' \subseteq reading /\ UNCHANGED <<day, crashes, account>>
    BY <1>1 DEF CauseInv
  <2> QED BY <1>2, <1>3, <1>4, <2>1, PlanIsWritten
<1> QED BY <1>1, <1>5, NextPlanIsSound

LEMMA RestingKeepsCause ==
  ASSUME CauseInv, NEW s \in Sweeper, Observe, sweep' = [sweep EXCEPT ![s] = AtRest],
         UNCHANGED <<day, account, plans, reading>>, crashes' \in Nat
  PROVE  CauseInv'
<1>1. PlanShape' /\ NoneRevived
  BY DEF CauseInv, PlanShape, NoneRevived, account
<1>2. sweep'[s] = AtRest => Sound(s)'
  BY <1>1, RestIsSound
<1> QED BY <1>1, <1>2, SweepKeeps

LEMMA InitCause == Init => CauseInv
<1> SUFFICES ASSUME Init PROVE CauseInv
  OBVIOUS
<1>1. /\ Face \in Nat /\ MaxPlans \in Nat /\ plans = <<>> /\ day = 0 /\ crashes = 0
      /\ reading = {}
  BY FaceAssumption DEF Init
<1>2. due \in [Debit -> Int] /\ open \in [Debit -> Nat]
  BY <1>1 DEF Init, Unposted
<1>3. plans \in Seq(PlanRec) /\ Len(plans) = 0 /\ DOMAIN plans = {}
  BY <1>1
<1>4. PlanShape
  BY <1>1, <1>2, <1>3 DEF PlanShape
<1>5. /\ AtRest = [x \in Field |-> AtRest[x]] /\ AtRest.asOf = 0
      /\ AtRest.todo = {} /\ AtRest.pc = "idle"
  BY DEF AtRest, Field
<1>6. ASSUME NEW s \in Sweeper PROVE Sound(s)
  <2>1. sweep[s] = AtRest
    BY DEF Init
  <2> QED BY <1>1, <1>5, <2>1 DEF Sound
<1> QED BY <1>4, <1>6 DEF CauseInv, Init

\* Every step keeps the cause.
LEMMA NextCause == CauseInv /\ [Next]_vars => CauseInv'
<1> SUFFICES ASSUME CauseInv, [Next]_vars PROVE CauseInv'
  OBVIOUS
<1>s. PlanShape
  BY DEF CauseInv
<1>1. CASE UNCHANGED vars
  <2>1. UNCHANGED <<day, due, open, plans, sweep, reading, crashes, seen>>
    BY <1>1 DEF vars
  <2> QED BY <2>1 DEF CauseInv, PlanShape, Sound
<1>2. ASSUME Step, Observe PROVE CauseInv'
  <2>1. CASE NextDay
    <3>1. PlanShape' /\ NoneRevived
      BY <1>s, <2>1 DEF NextDay, PlanShape, NoneRevived, account
    <3> QED BY <1>2, <2>1, <3>1, WorldKeeps DEF NextDay
  <2>2. ASSUME NEW d \in Debit, PostBill(d) PROVE CauseInv'
    <3>1. day + DaysToPay \in Int /\ Face \in Nat
      BY <1>s, DaysAssumption, FaceAssumption DEF PlanShape
    <3>2. due' \in [Debit -> Int] /\ open' \in [Debit -> Nat]
      BY <1>s, <2>2, <3>1 DEF PostBill, PlanShape
    <3>3. PlanShape' /\ NoneRevived
      BY <1>s, <2>2, <3>2 DEF PostBill, PlanShape, NoneRevived
    <3> QED BY <1>2, <2>2, <3>3, WorldKeeps DEF PostBill
  <2>3. ASSUME NEW d \in Debit, NEW amount \in 0..Face, LedgerMoves(d, amount)
        PROVE  CauseInv'
    <3>1. open' \in [Debit -> Nat]
      BY <1>s, <2>3 DEF LedgerMoves, PlanShape
    <3>2. PlanShape' /\ NoneRevived
      BY <1>s, <2>3, <3>1 DEF LedgerMoves, PlanShape, NoneRevived
    <3> QED BY <1>2, <2>3, <3>2, WorldKeeps DEF LedgerMoves
  <2>4. ASSUME NEW covers \in SUBSET Debit, NEW count \in Counts, NEW down \in Downs,
               NEW start \in 0..(MaxDay + MaxStartDays),
               CreatePaymentPlan(covers, count, down, start)
        PROVE  CauseInv'
    <3>1. PlanShape' /\ NoneRevived
      BY <1>s, <2>4, AgreementKeeps
    <3> QED BY <1>2, <2>4, <3>1, WorldKeeps DEF CreatePaymentPlan
  <2>5. ASSUME NEW p \in PlanId, ReadForCancel(p) PROVE CauseInv'
    <3>1. PlanShape' /\ NoneRevived
      BY <1>s, <2>5 DEF ReadForCancel, PlanShape, NoneRevived, Active, account
    <3> QED BY <1>2, <2>5, <3>1, WorldKeeps DEF ReadForCancel
  <2>6. ASSUME NEW p \in PlanId, CancelPaymentPlan(p) PROVE CauseInv'
    <3>1. p \in DOMAIN plans /\ "CANCELLED" \in PlanStatus
      BY <1>s, <2>6 DEF CancelPaymentPlan, PlanShape, PlanStatus
    <3>2. PlanShape' /\ NoneRevived
      BY <1>s, <2>6, <3>1, StatusIsWritten DEF CancelPaymentPlan
    <3> QED BY <1>2, <2>6, <3>2, WorldKeeps DEF CancelPaymentPlan
  <2>7. ASSUME NEW s \in Sweeper, StartSweep(s) \/ Work(s) \/ CrashSweep(s)
        PROVE  CauseInv'
    <3>1. CASE StartSweep(s)
      BY <1>2, <3>1, StartKeepsCause
    <3>2. CASE Complete(s)
      BY <1>2, <3>2, CompleteKeepsCause
    <3>3. CASE FindLive(s)
      BY <1>2, <3>3, FindLiveKeepsCause
    <3>4. CASE ReadPaid(s)
      BY <1>2, <3>4, ReadPaidKeepsCause
    <3>5. CASE ReadBill(s)
      BY <1>2, <3>5, ReadBillKeepsCause
    <3>6. CASE Default(s)
      BY <1>2, <3>6, DefaultKeepsCause
    <3>7. CASE SayNothing(s)
      <4>1. PlanShape' /\ NoneRevived
        BY <1>s, <3>7, SameShape DEF SayNothing, SweepStep
      <4> QED BY <1>2, <3>7, <4>1, NextPlanIsSound DEF SayNothing
    <3>8. CASE Notify(s)
      BY <1>2, <3>8, NotifyKeepsCause
    <3>9. CASE MarkNotice(s)
      BY <1>2, <3>9, MarkKeepsCause
    <3>10. CASE FinishSweep(s)
      <4>1. crashes' \in Nat
        BY <1>s, <3>10 DEF FinishSweep, SweepStep, PlanShape
      <4> QED BY <1>2, <3>10, <4>1, RestingKeepsCause DEF FinishSweep, SweepStep
    <3>11. CASE CrashSweep(s)
      <4>1. crashes' \in Nat
        BY <1>s, <3>11 DEF CrashSweep, PlanShape
      <4> QED BY <1>2, <3>11, <4>1, RestingKeepsCause DEF CrashSweep
    <3> QED BY <2>7, <3>1, <3>2, <3>3, <3>4, <3>5, <3>6, <3>7, <3>8, <3>9, <3>10, <3>11
            DEF Work
  <2> QED BY <1>2, <2>1, <2>2, <2>3, <2>4, <2>5, <2>6, <2>7 DEF Step
<1> QED BY <1>1, <1>2 DEF Next

\* Only these two write a plan's status, apart from a cancellation.
LEMMA EndsWithCause ==
  ASSUME DownIsAsked, CauseInv, [Next]_vars, NEW p \in PlanId
  PROVE  /\ BecomesStatus(p, "COMPLETED") => \E s \in Sweeper : p \in seen[s].settled
         /\ BecomesStatus(p, "DEFAULTED") => \E s \in Sweeper : p \in seen[s].behind
<1> SUFFICES ASSUME p \in DOMAIN plans, plans'[p].status # plans[p].status,
                    plans'[p].status \in {"COMPLETED", "DEFAULTED"}
             PROVE  /\ plans'[p].status = "COMPLETED" =>
                         \E s \in Sweeper : p \in seen[s].settled
                    /\ plans'[p].status = "DEFAULTED" =>
                         \E s \in Sweeper : p \in seen[s].behind
  BY DEF BecomesStatus
<1>s. PlanShape
  BY DEF CauseInv
<1>1. Step
  BY DEF Next, vars
<1>2. ASSUME NEW covers \in SUBSET Debit, NEW count \in Counts, NEW down \in Downs,
             NEW start \in 0..(MaxDay + MaxStartDays),
             CreatePaymentPlan(covers, count, down, start)
      PROVE  FALSE
  <2>1. PICK r : plans' = Append(plans, r)
    BY <1>2 DEF CreatePaymentPlan
  <2>2. p \in 1..Len(plans)
    BY <1>s DEF PlanShape
  <2> QED BY <1>s, <2>1, <2>2 DEF PlanShape
<1>3. ASSUME NEW q \in PlanId, CancelPaymentPlan(q) PROVE FALSE
  <2>1. q \in DOMAIN plans /\ "CANCELLED" \in PlanStatus
    BY <1>s, <1>3 DEF CancelPaymentPlan, PlanShape, PlanStatus
  <2>2. plans'[p].status = IF p = q THEN "CANCELLED" ELSE plans[p].status
    BY <1>s, <1>3, <2>1, StatusIsWritten DEF CancelPaymentPlan
  <2> QED BY <2>2
<1>4. ASSUME NEW s \in Sweeper, MarkNotice(s) PROVE FALSE
  <2>1. plans' = [plans EXCEPT ![sweep[s].plan].noticed = sweep[s].watermark]
    BY <1>4 DEF MarkNotice
  <2>2. plans[p] \in PlanRec
    BY <1>s, PlanIs
  <2>3. plans'[p].status = plans[p].status
    BY <1>s, <2>1, <2>2 DEF PlanRec, PlanShape
  <2> QED BY <2>3
<1>5. ASSUME NEW s \in Sweeper, Complete(s)
      PROVE  plans'[p].status = "COMPLETED" /\ p \in seen[s].settled
  <2>1. PICK q \in sweep[s].todo :
          plans' = [plans EXCEPT ![q].status = IF @ = "ACTIVE" THEN "COMPLETED" ELSE @]
    BY <1>5 DEF Complete
  <2>2. sweep[s].pc = "close" /\ Sound(s)
    BY <1>5 DEF Complete, CauseInv
  <2>3. q \in seen[s].settled
    BY <2>2 DEF Sound
  <2>4. q = p /\ plans[p].status = "ACTIVE" /\ plans'[p].status = "COMPLETED"
    <3>1. plans[p] \in PlanRec
      BY <1>s, PlanIs
    <3> QED BY <1>s, <2>1, <3>1 DEF PlanRec, PlanShape
  <2> QED BY <2>3, <2>4
<1>6. ASSUME NEW s \in Sweeper, Default(s)
      PROVE  plans'[p].status = "DEFAULTED" /\ p \in seen[s].behind
  <2>1. /\ sweep[s].pc = "decide" /\ sweep[s].broken /\ Sound(s)
        /\ plans' = [plans EXCEPT ![sweep[s].plan].status =
                       IF @ = "ACTIVE" THEN "DEFAULTED" ELSE @]
    BY <1>6 DEF Default, CauseInv
  <2>2. /\ sweep[s].plan = p /\ plans[p].status = "ACTIVE"
        /\ plans'[p].status = "DEFAULTED"
    <3>1. plans[p] \in PlanRec
      BY <1>s, PlanIs
    <3> QED BY <1>s, <2>1, <3>1 DEF PlanRec, PlanShape
  <2> QED BY <2>1, <2>2 DEF Sound
<1> QED BY <1>1, <1>2, <1>3, <1>4, <1>5, <1>6
        DEF Step, NextDay, PostBill, LedgerMoves, ReadForCancel, StartSweep, Work,
            FindLive, ReadPaid, ReadBill, SayNothing, Notify, FinishSweep, CrashSweep

(***************************************************************************)
(* sweepPaymentPlans acts on what it read several queries ago, yet         *)
(* completes and defaults a plan only for what was so at some moment since *)
(* the sweep began: for any number of sweeps at once, plans and debits,    *)
(* and any terms in which a payment of nothing is not asked for.           *)
(***************************************************************************)
THEOREM PlansCloseForACause == DownIsAsked => (Spec => ClosedForACause)
<1> SUFFICES ASSUME DownIsAsked PROVE Spec => ClosedForACause
  OBVIOUS
<1>1. CauseInv /\ [Next]_vars => CauseInv'
  BY NextCause
<1> DEFINE Causes ==
  \A p \in PlanId :
    /\ BecomesStatus(p, "COMPLETED") => \E s \in Sweeper : p \in seen[s].settled
    /\ BecomesStatus(p, "DEFAULTED") => \E s \in Sweeper : p \in seen[s].behind
<1>2. CauseInv /\ [Next]_vars => [Causes]_vars
  BY EndsWithCause
<1> QED BY <1>1, <1>2, InitCause, PTL DEF Spec, ClosedForACause
=============================================================================
