------------------------------- MODULE Ledger -------------------------------
(***************************************************************************)
(* The accounts-receivable ledger of ONE account                           *)
(* (packages/api/src/services/ar).                                         *)
(*                                                                         *)
(* Every operation below runs in one database transaction that takes the   *)
(* account's row lock (lockAccount, SELECT ... FOR UPDATE) before it reads *)
(* anything it will decide on, and commits or rolls back as a whole.  Two  *)
(* operations on the same account are therefore serialised, and one action *)
(* is one operation.  No operation reads or writes another account's       *)
(* entries, so one account is the whole state.  An operation that throws   *)
(* rolls back: it is a guard that is false.                                *)
(*                                                                         *)
(* Amounts are whole cents.  An entry's number is its place in the order   *)
(* of posted_at, which is also how every tie of the code's orderings ends. *)
(***************************************************************************)
EXTENDS Integers, Sequences, FiniteSets, Sums

CONSTANTS
  MaxEntries,   \* bound: entries the account's ledger may hold
  MaxAmount,    \* bound: the largest amount of one entry, in cents
  LastDay,      \* bound: due dates are the days 1..LastDay
  MaxCovered,   \* bound: entries one payment plan covers
  Bill          \* the bills generated for this account

ASSUME MaxEntriesAssumption == MaxEntries \in Nat
ASSUME MaxAmountAssumption == MaxAmount \in Nat
ASSUME LastDayAssumption == LastDay \in Nat
ASSUME MaxCoveredAssumption == MaxCovered \in Nat

Id     == 1..MaxEntries
Amount == 1..MaxAmount
Day    == 1..LastDay

\* due_date IS NULL.  Larger than every day, because compareDebits sorts a
\* debit without a due date after those that have one.
NoDate == LastDay + 1
\* reverses_id IS NULL
NoId == 0

DebitTypes  == {"BILL_CHARGE", "FEE", "ADJUSTMENT_DEBIT", "REFUND"}
CreditTypes == {"PAYMENT", "ADJUSTMENT_CREDIT", "WRITE_OFF", "DEPOSIT"}
EntryTypes  == DebitTypes \union CreditTypes \union {"REVERSAL"}

\* The columns of ledger_entry no operation ever updates.
EntryRow == [type     : EntryTypes,
             amount   : (-MaxAmount..MaxAmount) \ {0},
             due      : Day \union {NoDate},
             reverses : Id \union {NoId}]

VARIABLES
  ledger,   \* the posted entries, in posted_at order
  open,     \* open_amount of each entry; 0 where there is no entry
  app,      \* app[<<c, d>>]: the ledger_application from credit c to debit d
  cache,    \* Account.balance, .depositAmount and .lastDueDate
  billed,   \* the bills whose posted_at is set
  plan      \* the account's latest payment plan: its debits, and ACTIVE or not

vars == <<ledger, open, app, cache, billed, plan>>

Entries == 1..Len(ledger)
Total(f) == SumTo(f, MaxEntries)

TypeOK ==
  /\ ledger \in Seq(EntryRow) /\ Len(ledger) <= MaxEntries
  /\ open \in [Id -> Int]
  /\ app \in [Id \X Id -> Nat]
  /\ cache \in [balance : Int, deposit : Int, lastDue : Day \union {NoDate}]
  /\ billed \subseteq Bill
  /\ plan \in [debits : SUBSET Id, active : BOOLEAN]
-----------------------------------------------------------------------------
(***************************************************************************)
(* The cached figures of the account row, as a function of the ledger.     *)
(***************************************************************************)
NonDeposits(l) == {i \in 1..Len(l) : l[i].type # "DEPOSIT"}
Deposits(l)    == {i \in 1..Len(l) : l[i].type = "DEPOSIT"}

\* SUM(open_amount) FILTER (WHERE the entry is in S)
OpenSum(o, S) == Total([i \in Id |-> IF i \in S THEN o[i] ELSE 0])

\* The due dates of the debits still open, and NoDate.
OpenDueDates(l, o) ==
  {l[i].due : i \in {j \in 1..Len(l) : o[j] > 0}} \union {NoDate}

\* Mutant: the balance counts what is owed and forgets the unspent credits.
CacheOfOwedOnly(l, o) ==
  [balance |-> OpenSum(o, {i \in NonDeposits(l) : o[i] > 0}),
   deposit |-> -OpenSum(o, Deposits(l)),
   lastDue |-> CHOOSE d \in OpenDueDates(l, o) :
                 \A e \in OpenDueDates(l, o) : d <= e]

CacheOf(l, o) ==
  [balance |-> OpenSum(o, NonDeposits(l)),
   deposit |-> -OpenSum(o, Deposits(l)),
   lastDue |-> CHOOSE d \in OpenDueDates(l, o) :
                 \A e \in OpenDueDates(l, o) : d <= e]

\* The last thing every operation does before it commits.
RecomputeAccountCache == cache' = CacheOf(ledger', open')
-----------------------------------------------------------------------------
(***************************************************************************)
(* Allocation.                                                             *)
(***************************************************************************)
\* DEBIT_ALLOCATION_ORDER; a type that is not in the list ranks last.
Rank(type) ==
  CASE type = "FEE"              -> 0
    [] type = "ADJUSTMENT_DEBIT" -> 1
    [] type = "BILL_CHARGE"      -> 2
    [] OTHER                     -> 3

\* Debits an ACTIVE plan covers go to the back of the queue ...
Covered(i) == plan.active /\ i \in plan.debits

\* ... and within each part: type class, oldest due date, posted_at.
ComesBefore(i, j) ==
  \/ Rank(ledger[i].type) < Rank(ledger[j].type)
  \/ /\ Rank(ledger[i].type) = Rank(ledger[j].type)
     /\ \/ ledger[i].due < ledger[j].due
        \/ ledger[i].due = ledger[j].due /\ i < j

\* Mutant: one queue for all debits, whatever a plan covers.
PaidInOneQueue(i, j) == ComesBefore(i, j)

PaidBefore(i, j) ==
  \/ ~Covered(i) /\ Covered(j)
  \/ (Covered(i) <=> Covered(j)) /\ ComesBefore(i, j)

OpenDebits == {i \in Entries : open[i] > 0}

\* What is ahead of each candidate: of a debit, those paid before it, and of a
\* credit, those posted before it.
PaidAhead   == [i \in OpenDebits |-> {j \in OpenDebits : PaidBefore(j, i)}]
PostedAhead == [i \in Id |-> 1..(i - 1)]

\* Mutant: a candidate is given all that is left, whatever its room.
WalkPastRoom(want, room, ahead) ==
  LET earlier(i) == Total([j \in Id |-> IF j \in ahead[i] THEN room[j] ELSE 0])
  IN  [i \in Id |-> IF room[i] = 0 THEN 0 ELSE MaxOf(0, want - earlier(i))]

\* Walk the candidates, giving each as much of `want' as is left and as its
\* `room' allows: what candidate i gets is its room, or what those ahead of it
\* have left of `want'.  Room 0 is no candidate.
Walk(want, room, ahead) ==
  LET earlier(i) == Total([j \in Id |-> IF j \in ahead[i] THEN room[j] ELSE 0])
  IN  [i \in Id |-> IF room[i] = 0 THEN 0
                    ELSE MinOf(room[i], MaxOf(0, want - earlier(i)))]

\* What is still owed on each debit of S, and nothing elsewhere.
Owed(S) == [i \in Id |-> IF i \in S /\ open[i] > 0 THEN open[i] ELSE 0]

\* The candidates of an ordinary payment, and of a plan's instalment.
PaymentCandidates(scope) ==
  IF scope = "INSTALMENT" THEN OpenDebits \intersect plan.debits
                          ELSE OpenDebits

\* Mutant: the filter on DEPOSIT is dropped from the ordinary pool.
PoolOfAll(source) ==
  IF source = "DEPOSIT" THEN Deposits(ledger) ELSE Entries

\* The two pools of credits, never both.
Pool(source) ==
  IF source = "DEPOSIT" THEN Deposits(ledger) ELSE NonDeposits(ledger)

\* What each credit of a pool still has to give.
Unspent(source) ==
  [i \in Id |-> IF i \in Pool(source) /\ open[i] < 0 THEN -open[i] ELSE 0]

AvailableToRefund(source) == Total(Unspent(source))
-----------------------------------------------------------------------------
(***************************************************************************)
(* Posting one entry, allocating it, and recomputing the cache.            *)
(***************************************************************************)
NextId == Len(ledger) + 1

\* A credit of `amount', spent on the debits of S in the order of PaidBefore;
\* what S cannot absorb stays open on the credit.
PostCredit(type, amount, S) ==
  LET give == Walk(amount, Owed(S), PaidAhead)
  IN  /\ NextId \in Id
      /\ ledger' = Append(ledger, [type |-> type, amount |-> -amount,
                                   due |-> NoDate, reverses |-> NoId])
      /\ open' = [i \in Id |-> IF i = NextId THEN Total(give) - amount
                               ELSE open[i] - give[i]]
      /\ app' = [p \in Id \X Id |-> IF p[1] = NextId THEN give[p[2]]
                                    ELSE app[p]]
      /\ RecomputeAccountCache

\* Mutant: the newest credit is absorbed first.
PostDebitNewestFirst(type, amount, due, source) ==
  LET newer == [i \in Id |-> (i + 1)..MaxEntries]
      take == Walk(amount, Unspent(source), newer)
  IN  /\ NextId \in Id
      /\ ledger' = Append(ledger, [type |-> type, amount |-> amount,
                                   due |-> due, reverses |-> NoId])
      /\ open' = [i \in Id |-> IF i = NextId THEN amount - Total(take)
                               ELSE open[i] + take[i]]
      /\ app' = [p \in Id \X Id |-> IF p[2] = NextId THEN take[p[1]]
                                    ELSE app[p]]
      /\ RecomputeAccountCache

\* A debit of `amount' that absorbs the credits of one pool, oldest first.
PostDebit(type, amount, due, source) ==
  LET take == Walk(amount, Unspent(source), PostedAhead)
  IN  /\ NextId \in Id
      /\ ledger' = Append(ledger, [type |-> type, amount |-> amount,
                                   due |-> due, reverses |-> NoId])
      /\ open' = [i \in Id |-> IF i = NextId THEN amount - Total(take)
                               ELSE open[i] + take[i]]
      /\ app' = [p \in Id \X Id |-> IF p[2] = NextId THEN take[p[1]]
                                    ELSE app[p]]
      /\ RecomputeAccountCache
-----------------------------------------------------------------------------
(***************************************************************************)
(* The operations.                                                         *)
(***************************************************************************)
\* Post an issued bill, once.  A bill that rates to nothing is marked posted
\* and writes no entry; one that nets negative is a credit, left open.
\* (Billing holds, which make this refuse, only disable the action.)
PostBill(b, total, due) ==
  /\ b \notin billed
  /\ billed' = billed \union {b}
  /\ \/ /\ total = 0
        /\ UNCHANGED <<ledger, open, app>>
        /\ RecomputeAccountCache
     \/ total > 0 /\ PostDebit("BILL_CHARGE", total, due, "CREDIT")
     \/ total < 0 /\ PostCredit("ADJUSTMENT_CREDIT", -total, {})
  /\ UNCHANGED plan

AssessFee(amount, due) ==
  PostDebit("FEE", amount, due, "CREDIT") /\ UNCHANGED <<billed, plan>>

AdjustDebit(amount, due) ==
  PostDebit("ADJUSTMENT_DEBIT", amount, due, "CREDIT")
  /\ UNCHANGED <<billed, plan>>

RecordPayment(amount, scope) ==
  PostCredit("PAYMENT", amount, PaymentCandidates(scope))
  /\ UNCHANGED <<billed, plan>>

RecordDeposit(amount) ==
  PostCredit("DEPOSIT", amount, {}) /\ UNCHANGED <<billed, plan>>

\* Mutant: what the nominated charge cannot absorb spills onto the others.
PostCreditAgainstAnyDebit(type, amount, target) ==
  /\ ledger[target].amount > 0
  /\ PostCredit(type, amount, OpenDebits)
  /\ UNCHANGED <<billed, plan>>

\* Waive or write off one nominated charge: no spill onto another.
PostCreditAgainstDebit(type, amount, target) ==
  /\ ledger[target].amount > 0
  /\ PostCredit(type, amount, {target})
  /\ UNCHANGED <<billed, plan>>

Waive(amount, target) ==
  PostCreditAgainstDebit("ADJUSTMENT_CREDIT", amount, target)
WriteOff(amount, target) ==
  PostCreditAgainstDebit("WRITE_OFF", amount, target)

\* Pay money out of one pool, capped at what that pool holds, and refuse if
\* anything of the refund were left unbacked.
RecordRefund(source, amount) ==
  /\ amount <= AvailableToRefund(source)
  /\ PostDebit("REFUND", amount, NoDate, source)
  /\ open'[NextId] = 0
  /\ UNCHANGED <<billed, plan>>

Reversed(e) == \E r \in Entries : ledger[r].reverses = e

\* Mutant: the applications go, but the other sides get nothing back.
ReverseEntryNoGiveBack(e) ==
  LET r == NextId
      settled == IF ledger[e].amount > 0 THEN <<r, e>> ELSE <<e, r>>
  IN  /\ ledger[e].type # "REVERSAL"
      /\ ~Reversed(e)
      /\ r \in Id
      /\ ledger' = Append(ledger, [type |-> "REVERSAL",
                                   amount |-> -ledger[e].amount,
                                   due |-> NoDate, reverses |-> e])
      /\ open' = [i \in Id |-> IF i \in {e, r} THEN 0 ELSE open[i]]
      /\ app' = [p \in Id \X Id |->
                   IF p = settled THEN Abs(ledger[e].amount)
                   ELSE IF e \in {p[1], p[2]} THEN 0
                   ELSE app[p]]
      /\ RecomputeAccountCache
      /\ UNCHANGED <<billed, plan>>

\* Mutant: an entry may be reversed again.
ReverseEntryAgain(e) ==
  LET r == NextId
      settled == IF ledger[e].amount > 0 THEN <<r, e>> ELSE <<e, r>>
  IN  /\ ledger[e].type # "REVERSAL"
      /\ r \in Id
      /\ ledger' = Append(ledger, [type |-> "REVERSAL",
                                   amount |-> -ledger[e].amount,
                                   due |-> NoDate, reverses |-> e])
      /\ open' = [i \in Id |-> IF i \in {e, r} THEN 0
                               ELSE open[i] + app[<<e, i>>] - app[<<i, e>>]]
      /\ app' = [p \in Id \X Id |->
                   IF p = settled THEN Abs(ledger[e].amount)
                   ELSE IF e \in {p[1], p[2]} THEN 0
                   ELSE app[p]]
      /\ RecomputeAccountCache
      /\ UNCHANGED <<billed, plan>>

\* Mutant: reversing a payment clears every application of the debits it paid.
ReverseEntryClearsDebits(e) ==
  LET r == NextId
      settled == IF ledger[e].amount > 0 THEN <<r, e>> ELSE <<e, r>>
  IN  /\ ledger[e].type # "REVERSAL"
      /\ ~Reversed(e)
      /\ r \in Id
      /\ ledger' = Append(ledger, [type |-> "REVERSAL",
                                   amount |-> -ledger[e].amount,
                                   due |-> NoDate, reverses |-> e])
      /\ open' = [i \in Id |-> IF i \in {e, r} THEN 0
                               ELSE open[i] + app[<<e, i>>] - app[<<i, e>>]]
      /\ app' = [p \in Id \X Id |->
                   IF p = settled THEN Abs(ledger[e].amount)
                   ELSE IF e \in {p[1], p[2]} \/ app[<<e, p[2]>>] > 0 THEN 0
                   ELSE app[p]]
      /\ RecomputeAccountCache
      /\ UNCHANGED <<billed, plan>>

\* Mutant: the other sides get back the whole of the entry reversed.
ReverseEntryGivesBackAll(e) ==
  LET r == NextId
      whole == Abs(ledger[e].amount)
      settled == IF ledger[e].amount > 0 THEN <<r, e>> ELSE <<e, r>>
  IN  /\ ledger[e].type # "REVERSAL"
      /\ ~Reversed(e)
      /\ r \in Id
      /\ ledger' = Append(ledger, [type |-> "REVERSAL",
                                   amount |-> -ledger[e].amount,
                                   due |-> NoDate, reverses |-> e])
      /\ open' = [i \in Id |-> IF i \in {e, r} THEN 0
                               ELSE IF app[<<e, i>>] > 0 THEN open[i] + whole
                               ELSE IF app[<<i, e>>] > 0 THEN open[i] - whole
                               ELSE open[i]]
      /\ app' = [p \in Id \X Id |->
                   IF p = settled THEN whole
                   ELSE IF e \in {p[1], p[2]} THEN 0
                   ELSE app[p]]
      /\ RecomputeAccountCache
      /\ UNCHANGED <<billed, plan>>

\* Negate a posted entry: give back what each of its applications consumed,
\* delete them, post the REVERSAL and settle it against the original.
ReverseEntry(e) ==
  LET r == NextId
      settled == IF ledger[e].amount > 0 THEN <<r, e>> ELSE <<e, r>>
  IN  /\ ledger[e].type # "REVERSAL"
      /\ ~Reversed(e)
      /\ r \in Id
      /\ ledger' = Append(ledger, [type |-> "REVERSAL",
                                   amount |-> -ledger[e].amount,
                                   due |-> NoDate, reverses |-> e])
      /\ open' = [i \in Id |-> IF i \in {e, r} THEN 0
                               ELSE open[i] + app[<<e, i>>] - app[<<i, e>>]]
      /\ app' = [p \in Id \X Id |->
                   IF p = settled THEN Abs(ledger[e].amount)
                   ELSE IF e \in {p[1], p[2]} THEN 0
                   ELSE app[p]]
      /\ RecomputeAccountCache
      /\ UNCHANGED <<billed, plan>>

\* Agree a payment plan over the entries S: one ACTIVE plan per account, and
\* something of S still owed.
CreatePaymentPlan(S) ==
  /\ ~plan.active
  /\ S # {} /\ Cardinality(S) <= MaxCovered
  /\ OpenSum(open, S) > 0
  /\ plan' = [debits |-> S, active |-> TRUE]
  /\ UNCHANGED <<ledger, open, app, cache, billed>>

\* The plan completes, defaults or is cancelled.  None touches the ledger, and
\* the plan's debits are ordinary arrears again.
EndPaymentPlan ==
  /\ plan.active
  /\ plan' = [plan EXCEPT !.active = FALSE]
  /\ UNCHANGED <<ledger, open, app, cache, billed>>
-----------------------------------------------------------------------------
Init ==
  /\ ledger = <<>>
  /\ open = [i \in Id |-> 0]
  /\ app = [p \in Id \X Id |-> 0]
  /\ cache = [balance |-> 0, deposit |-> 0, lastDue |-> NoDate]
  /\ billed = {}
  /\ plan = [debits |-> {}, active |-> FALSE]

Next ==
  \/ \E b \in Bill, total \in -MaxAmount..MaxAmount, due \in Day :
       PostBill(b, total, due)
  \/ \E amount \in Amount, due \in Day : AssessFee(amount, due)
  \/ \E amount \in Amount, due \in Day : AdjustDebit(amount, due)
  \/ \E amount \in Amount, scope \in {"ORDINARY", "INSTALMENT"} :
       RecordPayment(amount, scope)
  \/ \E amount \in Amount : RecordDeposit(amount)
  \/ \E amount \in Amount, target \in Entries : Waive(amount, target)
  \/ \E amount \in Amount, target \in Entries : WriteOff(amount, target)
  \/ \E source \in {"CREDIT", "DEPOSIT"}, amount \in Amount :
       RecordRefund(source, amount)
  \/ \E e \in Entries : ReverseEntry(e)
  \/ \E S \in SUBSET Entries : CreatePaymentPlan(S)
  \/ EndPaymentPlan

Spec == Init /\ [][Next]_vars
-----------------------------------------------------------------------------
(***************************************************************************)
(* Safety.                                                                 *)
(***************************************************************************)
AsDebit(i)  == Total([c \in Id |-> app[<<c, i>>]])
AsCredit(i) == Total([d \in Id |-> app[<<i, d>>]])

\* Spec 23 section 5: what is open on an entry is its amount less what it
\* absorbed as a debit plus what it gave as a credit.  Allocation, refund and
\* reversal each write open_amount and ledger_application separately.
OpenItemBalance ==
  \A i \in Entries : open[i] = ledger[i].amount - AsDebit(i) + AsCredit(i)

\* The two CHECKs on ledger_entry.open_amount never reject an operation: an
\* entry is never over-applied, and giving back never gives back too much.
OpenWithinAmount ==
  \A i \in Entries : \/ 0 <= open[i] /\ open[i] <= ledger[i].amount
                     \/ ledger[i].amount <= open[i] /\ open[i] <= 0

\* What the account owes less what the utility holds for it is the plain sum
\* of every amount ever posted, whatever was allocated to what and undone.
NetPosition ==
  cache.balance - cache.deposit =
    Total([i \in Id |-> IF i \in Entries THEN ledger[i].amount ELSE 0])

\* A security deposit never pays a charge: it is spent by a refund, or undone.
DepositIsolation ==
  \A c \in Deposits(ledger), d \in Entries :
    app[<<c, d>>] > 0 => ledger[d].type \in {"REFUND", "REVERSAL"}

\* A reversed entry and its reversal settle each other and nothing else, for
\* ever: a bounced payment is never spent again.  No entry is reversed twice.
ReversedIsSettled ==
  \A r \in Entries : ledger[r].type = "REVERSAL" =>
    LET e == ledger[r].reverses
    IN  /\ e \in 1..(r - 1) /\ ledger[e].type # "REVERSAL"
        /\ open[e] = 0 /\ open[r] = 0
        /\ \A p \in Id \X Id :
             app[p] > 0 /\ {p[1], p[2]} \intersect {e, r} # {}
               => {p[1], p[2]} = {e, r}
        /\ \A s \in Entries : ledger[s].reverses = e => s = r

(***************************************************************************)
(* What a step may never do.                                               *)
(***************************************************************************)
Posts(type) ==
  Len(ledger') = Len(ledger) + 1 /\ ledger'[Len(ledger')].type = type

\* A refund is paid out of credit in full.  It is short of something later only
\* by the reversal of a credit it consumed, and of exactly what it consumed.
RefundStep ==
  \A d \in 1..Len(ledger') : ledger'[d].type = "REFUND" =>
    \/ d \notin Entries /\ open'[d] = 0
    \/ d \in Entries /\ open'[d] <= open[d]
    \/ /\ d \in Entries /\ Posts("REVERSAL")
       /\ \E c \in Entries : /\ ledger'[Len(ledger')].reverses = c
                            /\ open'[d] - open[d] = app[<<c, d>>]
RefundStaysBacked == [][RefundStep]_vars

\* Allocation spec section 6.3: debits an active plan does not cover before
\* those it does, and within each part type class, oldest due date, posted_at.
OwedFirst(i, j) ==
  LET held(k) == plan.active /\ k \in plan.debits
  IN  \/ ~held(i) /\ held(j)
      \/ held(i) = held(j) /\ ComesBefore(i, j)

\* The payment just posted pays no debit of S while one owed before it in S is
\* left open, none outside S, and has money over only with all of S paid.
PaysInOrder(S) ==
  LET paid(d) == app'[<<Len(ledger'), d>>] > 0
  IN  /\ \A d \in Entries : paid(d) => d \in S
      /\ \A d, e \in S : paid(e) /\ OwedFirst(d, e) => open'[d] = 0
      /\ open'[Len(ledger')] < 0 => \A d \in S : open'[d] = 0

\* An ordinary payment pays whatever is owed, in that order: a customer who
\* pays the current bill is not defaulted because the arrears of the plan were
\* older.  An instalment is kept to the debits of its plan.
PaymentStep ==
  \A amount \in Amount :
    /\ RecordPayment(amount, "ORDINARY") => PaysInOrder(OpenDebits)
    /\ RecordPayment(amount, "INSTALMENT") =>
         PaysInOrder(OpenDebits \intersect plan.debits)
PaymentOrder == [][PaymentStep]_vars

\* A new charge is never left owing while the account holds spendable credit,
\* and absorbs the oldest credit first.
ChargeStep ==
  \A type \in {"BILL_CHARGE", "FEE", "ADJUSTMENT_DEBIT"} : Posts(type) =>
    \A c \in NonDeposits(ledger) : open[c] < 0 =>
      /\ open'[Len(ledger')] > 0 => open'[c] = 0
      /\ open'[c] # open[c] =>
           \A b \in NonDeposits(ledger) : b < c => open'[b] >= 0
ChargesAbsorbCredit == [][ChargeStep]_vars

\* A concession forgives the charge it was granted for and no other: waiving 30
\* of a 10 charge leaves 20 due back, not 20 off what else is outstanding.
ConcessionStep ==
  \A amount \in Amount, target \in Entries :
    Waive(amount, target) \/ WriteOff(amount, target) =>
      /\ \A i \in Entries \ {target} : open'[i] = open[i]
      /\ open[target] - open'[target] = amount + open'[Len(ledger')]
ConcessionsDoNotSpill == [][ConcessionStep]_vars

\* History is kept: an entry never changes, and an application disappears
\* only with the reversal of one of its two sides.
HistoryStep ==
  /\ Len(ledger) <= Len(ledger')
  /\ \A i \in Entries : ledger'[i] = ledger[i]
  /\ \A p \in Id \X Id : app'[p] # app[p] =>
       \/ app[p] = 0
       \/ /\ app'[p] = 0
          /\ Posts("REVERSAL")
          /\ ledger'[Len(ledger')].reverses \in {p[1], p[2]}
HistoryIsKept == [][HistoryStep]_vars
-----------------------------------------------------------------------------
\* What an entry is, to a reader of the account's two figures.
KindOf(type) ==
  CASE type \in {"BILL_CHARGE", "FEE", "ADJUSTMENT_DEBIT"}      -> "CHARGE"
    [] type \in {"PAYMENT", "ADJUSTMENT_CREDIT", "WRITE_OFF"}   -> "CREDIT"
    [] type = "REVERSAL"                                        -> "UNDO"
    [] OTHER                                                    -> type

\* The ledger implements the account's two figures: which debit a credit was
\* allocated to never shows in them, a deposit moves by deposits and refunds
\* only, and a reversal takes back exactly what its entry did.
Position == INSTANCE AccountPosition
              WITH receivable <- cache.balance,
                   held       <- cache.deposit,
                   moves      <- [i \in Entries |->
                                    [kind   |-> KindOf(ledger[i].type),
                                     amount |-> ledger[i].amount,
                                     undoes |-> ledger[i].reverses]]
ImplementsPosition == Position!Spec
=============================================================================
