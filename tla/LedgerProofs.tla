----------------------------- MODULE LedgerProofs -----------------------------
(***************************************************************************)
(* Invariants of Ledger, for every bound on entries, amounts and days and  *)
(* every set of bills.                                                     *)
(***************************************************************************)
EXTENDS Ledger, SumTheorems, SequenceTheorems, FiniteSetTheorems

\* Nothing is recorded of entries that do not exist yet.
NoStrays ==
  /\ \A i \in Id : i \notin Entries => open[i] = 0
  /\ \A c, d \in Id : c \notin Entries \/ d \notin Entries => app[<<c, d>>] = 0

\* The CHECK ledger_entry_type_sign.
SignOfType ==
  \A i \in Entries : /\ ledger[i].type \in DebitTypes => ledger[i].amount > 0
                     /\ ledger[i].type \in CreditTypes => ledger[i].amount < 0
                     /\ ledger[i].type # "REVERSAL" => ledger[i].reverses = NoId

\* The inductive invariant: each of the three properties needs the first
\* three conjuncts; ReversedIsSettled needs nothing of the other two.
IInv ==
  /\ TypeOK
  /\ NoStrays
  /\ SignOfType
  /\ OpenItemBalance
  /\ DepositIsolation
  /\ ReversedIsSettled

USE MaxEntriesAssumption, MaxAmountAssumption, LastDayAssumption

-----------------------------------------------------------------------------
(***************************************************************************)
(* The operators the operations are built from.                            *)
(***************************************************************************)
\* Total of an integer function on Id is an integer.
LEMMA TotalInt ==
  ASSUME NEW f, \A i \in Id : f[i] \in Int
  PROVE  Total(f) \in Int
BY SumToInt DEF Total, Id

\* What a walk gives each candidate is a natural number, at most its room, in
\* whatever order it walks them.
LEMMA WalkBounds ==
  ASSUME NEW want \in Int, NEW room \in [Id -> Nat], NEW ahead
  PROVE  /\ Walk(want, room, ahead) \in [Id -> Nat]
         /\ \A i \in Id : Walk(want, room, ahead)[i] <= room[i]
<1> DEFINE earlier(i) == [j \in Id |-> IF j \in ahead[i] THEN room[j] ELSE 0]
<1>1. \A i \in Id : Total(earlier(i)) \in Int
  <2> TAKE i \in Id
  <2>1. \A j \in Id : earlier(i)[j] \in Int
    OBVIOUS
  <2> HIDE DEF earlier
  <2> QED BY <2>1, TotalInt
<1>2. Walk(want, room, ahead) =
        [i \in Id |-> IF room[i] = 0 THEN 0
                      ELSE MinOf(room[i], MaxOf(0, want - Total(earlier(i))))]
  BY DEF Walk
<1> HIDE DEF earlier
<1> QED BY <1>1, <1>2 DEF MinOf, MaxOf

\* The cached figures are of their types.
LEMMA CacheType ==
  ASSUME NEW l \in Seq(EntryRow), NEW o \in [Id -> Int]
  PROVE  CacheOf(l, o) \in
           [balance : Int, deposit : Int, lastDue : Day \union {NoDate}]
<1>1. ASSUME NEW S PROVE OpenSum(o, S) \in Int
  <2> DEFINE f == [i \in Id |-> IF i \in S THEN o[i] ELSE 0]
  <2>1. \A i \in Id : f[i] \in Int
    OBVIOUS
  <2> HIDE DEF f
  <2>2. Total(f) \in Int
    BY <2>1, TotalInt
  <2> QED BY <2>2 DEF OpenSum, f
<1>2. OpenDueDates(l, o) \subseteq Day \union {NoDate} /\ OpenDueDates(l, o) # {}
  <2>1. \A i \in 1..Len(l) : l[i] \in EntryRow
    OBVIOUS
  <2> QED BY <2>1 DEF OpenDueDates, EntryRow
<1>3. \E d \in OpenDueDates(l, o) : \A e \in OpenDueDates(l, o) : d <= e
  <2>1. OpenDueDates(l, o) \in SUBSET Nat
    BY <1>2 DEF Day, NoDate
  <2> QED BY <1>2, <2>1, NatLeast
<1>4. CacheOf(l, o).lastDue \in Day \union {NoDate}
  BY <1>2, <1>3 DEF CacheOf
<1> QED BY <1>1, <1>4 DEF CacheOf
-----------------------------------------------------------------------------
(***************************************************************************)
(* Sums over a column (what a debit absorbed) and over a row (what a       *)
(* credit gave) of the table of applications.                              *)
(***************************************************************************)
Table == [Id \X Id -> Nat]
Column(a, i) == [c \in Id |-> a[<<c, i>>]]
Row(a, i)    == [d \in Id |-> a[<<i, d>>]]

\* Where two tables differ in one place of a column, so do the column's sums.
LEMMA ColumnPoint ==
  ASSUME NEW a \in Table, NEW b \in Table, NEW i \in Id, NEW k \in Id,
         \A c \in Id : c # k => b[<<c, i>>] = a[<<c, i>>]
  PROVE  /\ Total(Column(a, i)) \in Int
         /\ Total(Column(b, i)) =
              Total(Column(a, i)) + (b[<<k, i>>] - a[<<k, i>>])
<1>1. \A c \in 1..MaxEntries : Column(a, i)[c] \in Int /\ Column(b, i)[c] \in Int
  BY DEF Column, Table, Id
<1>2. \A c \in 1..MaxEntries : c # k => Column(b, i)[c] = Column(a, i)[c]
  BY DEF Column, Id
<1>3. k \in 1..MaxEntries
  BY DEF Id
<1>4. SumTo(Column(b, i), MaxEntries) =
        SumTo(Column(a, i), MaxEntries) + (Column(b, i)[k] - Column(a, i)[k])
  BY <1>1, <1>2, <1>3, SumToPoint
<1>5. SumTo(Column(a, i), MaxEntries) \in Int
  BY <1>1, SumToInt
<1> QED BY <1>4, <1>5 DEF Total, Column

\* The same of a row.
LEMMA RowPoint ==
  ASSUME NEW a \in Table, NEW b \in Table, NEW i \in Id, NEW k \in Id,
         \A d \in Id : d # k => b[<<i, d>>] = a[<<i, d>>]
  PROVE  /\ Total(Row(a, i)) \in Int
         /\ Total(Row(b, i)) = Total(Row(a, i)) + (b[<<i, k>>] - a[<<i, k>>])
<1>1. \A d \in 1..MaxEntries : Row(a, i)[d] \in Int /\ Row(b, i)[d] \in Int
  BY DEF Row, Table, Id
<1>2. \A d \in 1..MaxEntries : d # k => Row(b, i)[d] = Row(a, i)[d]
  BY DEF Row, Id
<1>3. k \in 1..MaxEntries
  BY DEF Id
<1>4. SumTo(Row(b, i), MaxEntries) =
        SumTo(Row(a, i), MaxEntries) + (Row(b, i)[k] - Row(a, i)[k])
  BY <1>1, <1>2, <1>3, SumToPoint
<1>5. SumTo(Row(a, i), MaxEntries) \in Int
  BY <1>1, SumToInt
<1> QED BY <1>4, <1>5 DEF Total, Row

\* Functions that agree on Id have the same total, and no terms the total 0.
LEMMA TotalEq ==
  ASSUME NEW f, NEW g, \A i \in Id : f[i] = g[i]
  PROVE  Total(f) = Total(g)
BY SumToEq DEF Total, Id

LEMMA TotalZero ==
  ASSUME NEW f, \A i \in Id : f[i] = 0
  PROVE  Total(f) = 0
BY SumToAllZero DEF Total, Id

LEMMA TotalSingle ==
  ASSUME NEW f, NEW k \in Id, f[k] \in Int, \A i \in Id : i # k => f[i] = 0
  PROVE  Total(f) = f[k]
BY SumToSingle DEF Total, Id

-----------------------------------------------------------------------------
\* Appending a row: the new entries are the old ones and the next number.
LEMMA AppendRow ==
  ASSUME TypeOK, NextId \in Id, NEW row \in EntryRow, ledger' = Append(ledger, row)
  PROVE  /\ ledger' \in Seq(EntryRow) /\ Len(ledger') = NextId
         /\ Len(ledger') <= MaxEntries
         /\ Entries' = Entries \union {NextId}
         /\ NextId \notin Entries
         /\ Entries \subseteq Id
         /\ ledger'[NextId] = row
         /\ \A i \in Entries : ledger'[i] = ledger[i]
<1>1. ledger \in Seq(EntryRow) /\ Len(ledger) \in Nat
  BY DEF TypeOK
<1>2. /\ ledger' \in Seq(EntryRow) /\ Len(ledger') = Len(ledger) + 1
      /\ ledger'[Len(ledger) + 1] = row
      /\ \A i \in 1..Len(ledger) : ledger'[i] = ledger[i]
  BY <1>1, AppendProperties
<1> QED BY <1>1, <1>2 DEF NextId, Entries, Id, TypeOK

\* A posted entry is a row, with an integer amount.
LEMMA EntriesAreRows ==
  ASSUME TypeOK
  PROVE  \A i \in Entries : ledger[i] \in EntryRow /\ ledger[i].amount \in Int
<1>1. ledger \in Seq(EntryRow)
  BY DEF TypeOK
<1>2. \A i \in 1..Len(ledger) : ledger[i] \in EntryRow
  BY <1>1
<1>3. \A row \in EntryRow : row.amount \in Int
  BY DEF EntryRow
<1> QED BY <1>2, <1>3 DEF Entries

\* Posting a credit keeps the invariant.
LEMMA PostCreditKeeps ==
  ASSUME IInv, NEW type \in CreditTypes, NEW amount \in Amount,
         NEW S \in SUBSET Entries, type = "DEPOSIT" => S = {},
         PostCredit(type, amount, S), billed' \subseteq Bill, UNCHANGED plan
  PROVE  IInv'
<1>0. PICK n \in Id : n = NextId
  BY DEF PostCredit
<1> DEFINE give == Walk(amount, Owed(S), PaidAhead)
           row == [type |-> type, amount |-> -amount,
                   due |-> NoDate, reverses |-> NoId]
<1>a. /\ ledger' = Append(ledger, row)
      /\ open' = [i \in Id |-> IF i = n THEN Total(give) - amount
                               ELSE open[i] - give[i]]
      /\ app' = [p \in Id \X Id |-> IF p[1] = n THEN give[p[2]] ELSE app[p]]
      /\ cache' = CacheOf(ledger', open')
  BY <1>0 DEF PostCredit, RecomputeAccountCache
<1>b. row \in EntryRow /\ amount \in Int /\ -amount < 0
  BY DEF EntryRow, EntryTypes, CreditTypes, Amount
<1>c. /\ ledger' \in Seq(EntryRow) /\ Len(ledger') = n
      /\ Len(ledger') <= MaxEntries
      /\ Entries' = Entries \union {n} /\ n \notin Entries
      /\ Entries \subseteq Id
      /\ ledger'[n] = row
      /\ \A i \in Entries : ledger'[i] = ledger[i]
  BY <1>0, <1>a, <1>b, AppendRow DEF IInv
<1>d. /\ open \in [Id -> Int] /\ app \in [Id \X Id -> Nat]
      /\ Owed(S) \in [Id -> Nat]
      /\ \A i \in Id : Owed(S)[i] > 0 => i \in S /\ open[i] > 0
  BY DEF IInv, TypeOK, Owed
<1>e. /\ give \in [Id -> Nat]
      /\ \A i \in Id : give[i] > 0 => i \in S /\ open[i] > 0
      /\ \A i \in Id : i \notin Entries => give[i] = 0
  <2>1. give \in [Id -> Nat] /\ \A i \in Id : give[i] <= Owed(S)[i]
    BY <1>b, <1>d, WalkBounds
  <2> QED BY <1>d, <2>1
<1> HIDE DEF give, row
<1>f. Total(give) \in Int
  BY <1>e, TotalInt
<1>g. open' \in [Id -> Int] /\ app' \in [Id \X Id -> Nat]
  BY <1>a, <1>b, <1>d, <1>e, <1>f
<1>1. TypeOK'
  <2>1. cache' \in [balance : Int, deposit : Int, lastDue : Day \union {NoDate}]
    BY <1>a, <1>c, <1>g, CacheType
  <2> QED BY <1>c, <1>g, <2>1 DEF IInv, TypeOK
<1>2. NoStrays'
  BY <1>a, <1>c, <1>d, <1>e DEF IInv, NoStrays
<1>3. SignOfType'
  BY <1>b, <1>c DEF IInv, SignOfType, row, DebitTypes, CreditTypes
<1>4. OpenItemBalance'
  <2>a. app \in Table /\ app' \in Table
    BY <1>d, <1>g DEF Table
  <2>1. ASSUME NEW i \in Entries
        PROVE  open'[i] = ledger'[i].amount - AsDebit(i)' + AsCredit(i)'
    <3>0. i \in Id /\ i # n /\ ledger[i].amount \in Int
      BY <1>c, EntriesAreRows DEF IInv
    <3>1. /\ Total(Column(app, i)) \in Int
          /\ Total(Column(app', i)) = Total(Column(app, i)) + give[i]
      <4>1. \A c \in Id : c # n => app'[<<c, i>>] = app[<<c, i>>]
        BY <1>a, <3>0
      <4>2. app'[<<n, i>>] = give[i] /\ app[<<n, i>>] = 0
        BY <1>a, <1>c, <3>0 DEF IInv, NoStrays
      <4> QED BY <1>e, <2>a, <3>0, <4>1, <4>2, ColumnPoint
    <3>2. /\ Total(Row(app, i)) \in Int
          /\ Total(Row(app', i)) = Total(Row(app, i))
      <4>1. \A d \in Id : app'[<<i, d>>] = app[<<i, d>>]
        BY <1>a, <3>0
      <4>2. app'[<<i, n>>] = app[<<i, n>>] /\ app[<<i, n>>] \in Int
        BY <1>d, <3>0, <4>1
      <4>3. Total(Row(app', i)) = Total(Row(app, i)) + (app'[<<i, n>>] - app[<<i, n>>])
        BY <2>a, <3>0, <4>1, RowPoint
      <4>4. Total(Row(app, i)) \in Int
        BY <2>a, <3>0, <4>1, RowPoint
      <4> QED BY <4>2, <4>3, <4>4
    <3>3. open[i] = ledger[i].amount - Total(Column(app, i)) + Total(Row(app, i))
      BY DEF IInv, OpenItemBalance, AsDebit, AsCredit, Column, Row
    <3>4. open'[i] = ledger'[i].amount - Total(Column(app', i))
                                       + Total(Row(app', i))
      <4>1. open'[i] = open[i] - give[i] /\ give[i] \in Int
        BY <1>a, <1>e, <3>0
      <4> QED BY SMTT(30), <1>c, <3>0, <3>1, <3>2, <3>3, <4>1
    <3> QED BY <3>4 DEF AsDebit, AsCredit, Column, Row
  <2>2. open'[n] = ledger'[n].amount - AsDebit(n)' + AsCredit(n)'
    <3>1. Total(Column(app', n)) = 0
      <4>1. \A c \in Id : Column(app', n)[c] = 0
        BY <1>a, <1>c, <1>e DEF IInv, NoStrays, Column
      <4> QED BY <4>1, TotalZero
    <3>2. Total(Row(app', n)) = Total(give)
      <4>1. \A d \in Id : Row(app', n)[d] = give[d]
        BY <1>a DEF Row
      <4> QED BY <4>1, TotalEq
    <3>3. open'[n] = ledger'[n].amount - Total(Column(app', n))
                                       + Total(Row(app', n))
      <4>1. open'[n] = Total(give) - amount /\ ledger'[n].amount = -amount
        BY <1>a, <1>c DEF row
      <4> QED BY <1>b, <1>f, <3>1, <3>2, <4>1
    <3> QED BY <3>3 DEF AsDebit, AsCredit, Column, Row
  <2> QED BY <1>c, <2>1, <2>2 DEF OpenItemBalance
<1>5. DepositIsolation'
  <2>1. SUFFICES ASSUME NEW c \in Entries', NEW d \in Entries',
                        ledger'[c].type = "DEPOSIT", app'[<<c, d>>] > 0
                 PROVE  ledger'[d].type \in {"REFUND", "REVERSAL"}
    BY <1>c DEF DepositIsolation, Deposits, Entries
  <2>2. CASE c = n
    BY <1>a, <1>c, <1>e, <2>1, <2>2 DEF row
  <2>3. CASE c # n
    <3>1. c \in Entries /\ app[<<c, d>>] > 0 /\ ledger[c].type = "DEPOSIT"
      BY <1>a, <1>c, <2>1, <2>3
    <3>2. d \in Entries
      BY <1>c, <3>1 DEF IInv, NoStrays
    <3> QED BY <1>c, <3>1, <3>2 DEF IInv, DepositIsolation, Deposits, Entries
  <2> QED BY <2>2, <2>3
<1>6. ReversedIsSettled'
  <2>1. SUFFICES ASSUME NEW r \in Entries', ledger'[r].type = "REVERSAL"
                 PROVE  LET e == ledger'[r].reverses
                        IN /\ e \in 1..(r - 1) /\ ledger'[e].type # "REVERSAL"
                           /\ open'[e] = 0 /\ open'[r] = 0
                           /\ \A p \in Id \X Id :
                                app'[p] > 0 /\ {p[1], p[2]} \intersect {e, r} # {}
                                  => {p[1], p[2]} = {e, r}
                           /\ \A s \in Entries' : ledger'[s].reverses = e => s = r
    BY DEF ReversedIsSettled
  <2>2. r \in Entries /\ ledger[r].type = "REVERSAL" /\ ledger'[r] = ledger[r]
    BY <1>c, <2>1 DEF row, CreditTypes
  <2> DEFINE e == ledger[r].reverses
  <2>3. /\ e \in 1..(r - 1) /\ e \in Entries /\ ledger[e].type # "REVERSAL"
        /\ open[e] = 0 /\ open[r] = 0
        /\ \A p \in Id \X Id :
             app[p] > 0 /\ {p[1], p[2]} \intersect {e, r} # {}
               => {p[1], p[2]} = {e, r}
        /\ \A s \in Entries : ledger[s].reverses = e => s = r
    BY <2>2 DEF IInv, ReversedIsSettled, Entries
  <2> HIDE DEF e
  <2>4. give[e] = 0 /\ give[r] = 0 /\ e # n /\ r # n /\ e # NoId
    BY <1>c, <1>e, <2>2, <2>3 DEF NoId
  <2>5. \A p \in Id \X Id :
          app'[p] > 0 /\ {p[1], p[2]} \intersect {e, r} # {}
            => {p[1], p[2]} = {e, r}
    BY <1>a, <2>3, <2>4
  <2>6. \A s \in Entries' : ledger'[s].reverses = e => s = r
    BY <1>c, <2>3, <2>4 DEF row
  <2>7. open'[e] = 0 /\ open'[r] = 0
    BY <1>a, <1>c, <2>2, <2>3, <2>4
  <2> QED BY <1>c, <2>2, <2>3, <2>5, <2>6, <2>7 DEF e
<1> QED BY <1>1, <1>2, <1>3, <1>4, <1>5, <1>6 DEF IInv

\* Posting a debit keeps the invariant.
LEMMA PostDebitKeeps ==
  ASSUME IInv, NEW type \in DebitTypes, NEW amount \in Amount,
         NEW due \in Day \union {NoDate}, NEW source,
         source = "DEPOSIT" => type = "REFUND",
         PostDebit(type, amount, due, source), billed' \subseteq Bill, UNCHANGED plan
  PROVE  IInv'
<1>0. PICK n \in Id : n = NextId
  BY DEF PostDebit
<1> DEFINE take == Walk(amount, Unspent(source), PostedAhead)
           row == [type |-> type, amount |-> amount,
                   due |-> due, reverses |-> NoId]
<1>a. /\ ledger' = Append(ledger, row)
      /\ open' = [i \in Id |-> IF i = n THEN amount - Total(take)
                               ELSE open[i] + take[i]]
      /\ app' = [p \in Id \X Id |-> IF p[2] = n THEN take[p[1]] ELSE app[p]]
      /\ cache' = CacheOf(ledger', open')
  BY <1>0 DEF PostDebit, RecomputeAccountCache
<1>b. row \in EntryRow /\ amount \in Int /\ amount > 0
  BY DEF EntryRow, EntryTypes, DebitTypes, Amount
<1>c. /\ ledger' \in Seq(EntryRow) /\ Len(ledger') = n
      /\ Len(ledger') <= MaxEntries
      /\ Entries' = Entries \union {n} /\ n \notin Entries
      /\ Entries \subseteq Id
      /\ ledger'[n] = row
      /\ \A i \in Entries : ledger'[i] = ledger[i]
  BY <1>0, <1>a, <1>b, AppendRow DEF IInv
<1>d. /\ open \in [Id -> Int] /\ app \in [Id \X Id -> Nat]
      /\ Unspent(source) \in [Id -> Nat]
      /\ \A i \in Id : Unspent(source)[i] > 0 =>
           /\ i \in Entries /\ open[i] < 0
           /\ ledger[i].type = "DEPOSIT" => source = "DEPOSIT"
  BY DEF IInv, TypeOK, Unspent, Pool, Deposits, NonDeposits, Entries
<1>e. /\ take \in [Id -> Nat]
      /\ \A i \in Id : take[i] > 0 =>
           /\ i \in Entries /\ open[i] < 0
           /\ ledger[i].type = "DEPOSIT" => source = "DEPOSIT"
      /\ \A i \in Id : i \notin Entries => take[i] = 0
  <2>1. take \in [Id -> Nat] /\ \A i \in Id : take[i] <= Unspent(source)[i]
    BY <1>b, <1>d, WalkBounds
  <2> QED BY <1>d, <2>1
<1> HIDE DEF take, row
<1>f. Total(take) \in Int
  BY <1>e, TotalInt
<1>g. open' \in [Id -> Int] /\ app' \in [Id \X Id -> Nat]
  BY <1>a, <1>b, <1>d, <1>e, <1>f
<1>1. TypeOK'
  <2>1. cache' \in [balance : Int, deposit : Int, lastDue : Day \union {NoDate}]
    BY <1>a, <1>c, <1>g, CacheType
  <2> QED BY <1>c, <1>g, <2>1 DEF IInv, TypeOK
<1>2. NoStrays'
  BY <1>a, <1>c, <1>d, <1>e DEF IInv, NoStrays
<1>3. SignOfType'
  BY <1>b, <1>c DEF IInv, SignOfType, row, DebitTypes, CreditTypes
<1>4. OpenItemBalance'
  <2>a. app \in Table /\ app' \in Table
    BY <1>d, <1>g DEF Table
  <2>1. ASSUME NEW i \in Entries
        PROVE  open'[i] = ledger'[i].amount - AsDebit(i)' + AsCredit(i)'
    <3>0. i \in Id /\ i # n /\ ledger[i].amount \in Int
      BY <1>c, EntriesAreRows DEF IInv
    <3>1. /\ Total(Row(app, i)) \in Int
          /\ Total(Row(app', i)) = Total(Row(app, i)) + take[i]
      <4>1. \A d \in Id : d # n => app'[<<i, d>>] = app[<<i, d>>]
        BY <1>a, <3>0
      <4>2. app'[<<i, n>>] = take[i] /\ app[<<i, n>>] = 0
        BY <1>a, <1>c, <3>0 DEF IInv, NoStrays
      <4> QED BY <1>e, <2>a, <3>0, <4>1, <4>2, RowPoint
    <3>2. /\ Total(Column(app, i)) \in Int
          /\ Total(Column(app', i)) = Total(Column(app, i))
      <4>1. \A c \in Id : app'[<<c, i>>] = app[<<c, i>>]
        BY <1>a, <3>0
      <4>2. app'[<<n, i>>] = app[<<n, i>>] /\ app[<<n, i>>] \in Int
        BY <1>d, <3>0, <4>1
      <4>3. Total(Column(app', i)) =
              Total(Column(app, i)) + (app'[<<n, i>>] - app[<<n, i>>])
        BY <2>a, <3>0, <4>1, ColumnPoint
      <4>4. Total(Column(app, i)) \in Int
        BY <2>a, <3>0, <4>1, ColumnPoint
      <4> QED BY <4>2, <4>3, <4>4
    <3>3. open[i] = ledger[i].amount - Total(Column(app, i)) + Total(Row(app, i))
      BY DEF IInv, OpenItemBalance, AsDebit, AsCredit, Column, Row
    <3>4. open'[i] = ledger'[i].amount - Total(Column(app', i))
                                       + Total(Row(app', i))
      <4>1. open'[i] = open[i] + take[i] /\ take[i] \in Int
        BY <1>a, <1>e, <3>0
      <4> QED BY SMTT(30), <1>c, <3>0, <3>1, <3>2, <3>3, <4>1
    <3> QED BY <3>4 DEF AsDebit, AsCredit, Column, Row
  <2>2. open'[n] = ledger'[n].amount - AsDebit(n)' + AsCredit(n)'
    <3>1. Total(Row(app', n)) = 0
      <4>1. \A d \in Id : Row(app', n)[d] = 0
        BY <1>a, <1>c, <1>e DEF IInv, NoStrays, Row
      <4> QED BY <4>1, TotalZero
    <3>2. Total(Column(app', n)) = Total(take)
      <4>1. \A c \in Id : Column(app', n)[c] = take[c]
        BY <1>a DEF Column
      <4> QED BY <4>1, TotalEq
    <3>3. open'[n] = ledger'[n].amount - Total(Column(app', n))
                                       + Total(Row(app', n))
      <4>1. open'[n] = amount - Total(take) /\ ledger'[n].amount = amount
        BY <1>a, <1>c DEF row
      <4> QED BY <1>b, <1>f, <3>1, <3>2, <4>1
    <3> QED BY <3>3 DEF AsDebit, AsCredit, Column, Row
  <2> QED BY <1>c, <2>1, <2>2 DEF OpenItemBalance
<1>5. DepositIsolation'
  <2>1. SUFFICES ASSUME NEW c \in Entries', NEW d \in Entries',
                        ledger'[c].type = "DEPOSIT", app'[<<c, d>>] > 0
                 PROVE  ledger'[d].type \in {"REFUND", "REVERSAL"}
    BY <1>c DEF DepositIsolation, Deposits, Entries
  <2>2. c \in Entries /\ ledger[c].type = "DEPOSIT"
    BY <1>c, <2>1 DEF row, DebitTypes
  <2>3. CASE d = n
    BY <1>a, <1>c, <1>e, <2>1, <2>2, <2>3 DEF row
  <2>4. CASE d # n
    <3>1. d \in Entries /\ app[<<c, d>>] > 0
      BY <1>a, <1>c, <2>1, <2>2, <2>4
    <3> QED BY <1>c, <2>2, <3>1 DEF IInv, DepositIsolation, Deposits, Entries
  <2> QED BY <2>3, <2>4
<1>6. ReversedIsSettled'
  <2>1. SUFFICES ASSUME NEW r \in Entries', ledger'[r].type = "REVERSAL"
                 PROVE  LET e == ledger'[r].reverses
                        IN /\ e \in 1..(r - 1) /\ ledger'[e].type # "REVERSAL"
                           /\ open'[e] = 0 /\ open'[r] = 0
                           /\ \A p \in Id \X Id :
                                app'[p] > 0 /\ {p[1], p[2]} \intersect {e, r} # {}
                                  => {p[1], p[2]} = {e, r}
                           /\ \A s \in Entries' : ledger'[s].reverses = e => s = r
    BY DEF ReversedIsSettled
  <2>2. r \in Entries /\ ledger[r].type = "REVERSAL" /\ ledger'[r] = ledger[r]
    BY <1>c, <2>1 DEF row, DebitTypes
  <2> DEFINE e == ledger[r].reverses
  <2>3. /\ e \in 1..(r - 1) /\ e \in Entries /\ ledger[e].type # "REVERSAL"
        /\ open[e] = 0 /\ open[r] = 0
        /\ \A p \in Id \X Id :
             app[p] > 0 /\ {p[1], p[2]} \intersect {e, r} # {}
               => {p[1], p[2]} = {e, r}
        /\ \A s \in Entries : ledger[s].reverses = e => s = r
    BY <2>2 DEF IInv, ReversedIsSettled, Entries
  <2> HIDE DEF e
  <2>4. take[e] = 0 /\ take[r] = 0 /\ e # n /\ r # n /\ e # NoId
    BY <1>c, <1>e, <2>2, <2>3 DEF NoId
  <2>5. \A p \in Id \X Id :
          app'[p] > 0 /\ {p[1], p[2]} \intersect {e, r} # {}
            => {p[1], p[2]} = {e, r}
    BY <1>a, <2>3, <2>4
  <2>6. \A s \in Entries' : ledger'[s].reverses = e => s = r
    BY <1>c, <2>3, <2>4 DEF row
  <2>7. open'[e] = 0 /\ open'[r] = 0
    BY <1>a, <1>c, <2>2, <2>3, <2>4
  <2> QED BY <1>c, <2>2, <2>3, <2>5, <2>6, <2>7 DEF e
<1> QED BY <1>1, <1>2, <1>3, <1>4, <1>5, <1>6 DEF IInv
\* Reversing an entry keeps the invariant.
LEMMA ReverseEntryKeeps ==
  ASSUME IInv, NEW e \in Entries, ReverseEntry(e)
  PROVE  IInv'
<1>0. PICK n \in Id : n = NextId
  BY DEF ReverseEntry
<1> DEFINE amount == ledger[e].amount
           settled == IF amount > 0 THEN <<n, e>> ELSE <<e, n>>
           row == [type |-> "REVERSAL", amount |-> -amount,
                   due |-> NoDate, reverses |-> e]
<1>a. /\ ledger' = Append(ledger, row)
      /\ open' = [i \in Id |-> IF i \in {e, n} THEN 0
                               ELSE open[i] + app[<<e, i>>] - app[<<i, e>>]]
      /\ app' = [p \in Id \X Id |-> IF p = settled THEN Abs(amount)
                                    ELSE IF e \in {p[1], p[2]} THEN 0
                                    ELSE app[p]]
      /\ cache' = CacheOf(ledger', open')
      /\ billed' = billed /\ plan' = plan
      /\ ledger[e].type # "REVERSAL"
      /\ \A s \in Entries : ledger[s].reverses # e
  BY <1>0 DEF ReverseEntry, RecomputeAccountCache, Reversed
<1>b. /\ row \in EntryRow /\ e \in Id /\ amount \in Int /\ amount # 0
      /\ -amount \in Int
  <2>1. ledger[e] \in EntryRow /\ amount \in Int
    BY EntriesAreRows DEF IInv
  <2>2. amount \in (-MaxAmount..MaxAmount) \ {0}
    BY <2>1 DEF EntryRow
  <2>3. -amount \in (-MaxAmount..MaxAmount) \ {0}
    BY <2>2
  <2>4. e \in Id
    BY DEF IInv, TypeOK, Entries, Id
  <2> QED BY <2>1, <2>2, <2>3, <2>4 DEF EntryRow, EntryTypes
<1>c. /\ ledger' \in Seq(EntryRow) /\ Len(ledger') = n
      /\ Len(ledger') <= MaxEntries
      /\ Entries' = Entries \union {n} /\ n \notin Entries
      /\ Entries \subseteq Id
      /\ ledger'[n] = row
      /\ \A i \in Entries : ledger'[i] = ledger[i]
  BY <1>0, <1>a, <1>b, AppendRow DEF IInv
<1>d. /\ open \in [Id -> Int] /\ app \in [Id \X Id -> Nat] /\ e # n
      /\ \A i \in Id : app[<<e, i>>] \in Int /\ app[<<i, e>>] \in Int
      /\ e \in 1..(n - 1)
  BY <1>0, <1>b, <1>c DEF IInv, TypeOK, NextId, Entries
<1> HIDE DEF row, amount
<1>g. open' \in [Id -> Int] /\ app' \in [Id \X Id -> Nat]
  <2>1. Abs(amount) \in Nat
    BY <1>b DEF Abs
  <2> QED BY <1>a, <1>d, <2>1
<1>1. TypeOK'
  <2>1. cache' \in [balance : Int, deposit : Int, lastDue : Day \union {NoDate}]
    BY <1>a, <1>c, <1>g, CacheType
  <2> QED BY <1>a, <1>c, <1>g, <2>1 DEF IInv, TypeOK
<1>2. NoStrays'
  <2>1. ASSUME NEW i \in Id, i \notin Entries' PROVE open'[i] = 0
    BY <1>a, <1>b, <1>c, <2>1 DEF IInv, NoStrays
  <2>2. ASSUME NEW c \in Id, NEW d \in Id, c \notin Entries' \/ d \notin Entries'
        PROVE  app'[<<c, d>>] = 0
    BY <1>a, <1>b, <1>c, <2>2 DEF IInv, NoStrays
  <2> QED BY <2>1, <2>2 DEF NoStrays
<1>3. SignOfType'
  BY <1>b, <1>c DEF IInv, SignOfType, row, DebitTypes, CreditTypes
<1>4. OpenItemBalance'
  <2>a. app \in Table /\ app' \in Table
    BY <1>d, <1>g DEF Table
  <2>b. ledger'[e].amount = amount /\ ledger'[n].amount = -amount
    BY <1>c DEF row, amount
  <2>c. open'[e] = 0 /\ open'[n] = 0
    BY <1>a, <1>b
  <2>1. ASSUME NEW i \in Entries, i # e
        PROVE  open'[i] = ledger'[i].amount - Total(Column(app', i))
                                            + Total(Row(app', i))
    <3>0. i \in Id /\ i # n /\ ledger[i].amount \in Int
      BY <1>c, EntriesAreRows DEF IInv
    <3>1. /\ Total(Column(app, i)) \in Int
          /\ Total(Column(app', i)) = Total(Column(app, i)) + (0 - app[<<e, i>>])
      <4>1. \A c \in Id : c # e => app'[<<c, i>>] = app[<<c, i>>]
        BY <1>a, <2>1, <3>0
      <4>2. app'[<<e, i>>] = 0
        BY <1>a, <1>b, <2>1, <3>0
      <4> QED BY <1>b, <2>a, <3>0, <4>1, <4>2, ColumnPoint
    <3>2. /\ Total(Row(app, i)) \in Int
          /\ Total(Row(app', i)) = Total(Row(app, i)) + (0 - app[<<i, e>>])
      <4>1. \A d \in Id : d # e => app'[<<i, d>>] = app[<<i, d>>]
        BY <1>a, <2>1, <3>0
      <4>2. app'[<<i, e>>] = 0
        BY <1>a, <1>b, <2>1, <3>0
      <4> QED BY <1>b, <2>a, <3>0, <4>1, <4>2, RowPoint
    <3>3. open[i] = ledger[i].amount - Total(Column(app, i)) + Total(Row(app, i))
      BY DEF IInv, OpenItemBalance, AsDebit, AsCredit, Column, Row
    <3>4. open'[i] = open[i] + app[<<e, i>>] - app[<<i, e>>]
      BY <1>a, <2>1, <3>0
    <3>5. ledger'[i].amount = ledger[i].amount
      BY <1>c
    <3> QED BY <1>d, <3>0, <3>1, <3>2, <3>3, <3>4, <3>5
  <2>2. CASE amount > 0
    <3>1. settled = <<n, e>> /\ Abs(amount) = amount
      BY <1>b, <2>2 DEF Abs
    <3>2. Total(Column(app', e)) = amount
      <4>1. Column(app', e)[n] = amount
        BY <1>a, <1>b, <3>1 DEF Column
      <4>2. \A c \in Id : c # n => Column(app', e)[c] = 0
        BY <1>a, <1>b, <3>1 DEF Column
      <4> QED BY <1>b, <4>1, <4>2, TotalSingle
    <3>3. Total(Row(app', e)) = 0
      <4>1. \A d \in Id : Row(app', e)[d] = 0
        BY <1>a, <1>b, <1>d, <3>1 DEF Row
      <4> QED BY <4>1, TotalZero
    <3>4. Total(Row(app', n)) = amount
      <4>1. Row(app', n)[e] = amount
        BY <1>a, <1>b, <3>1 DEF Row
      <4>2. \A d \in Id : d # e => Row(app', n)[d] = 0
        BY <1>a, <1>b, <1>c, <1>d, <3>1 DEF Row, IInv, NoStrays
      <4> QED BY <1>b, <4>1, <4>2, TotalSingle
    <3>5. Total(Column(app', n)) = 0
      <4>1. \A c \in Id : Column(app', n)[c] = 0
        BY <1>a, <1>b, <1>c, <1>d, <3>1 DEF Column, IInv, NoStrays
      <4> QED BY <4>1, TotalZero
    <3>6. /\ open'[e] = ledger'[e].amount - Total(Column(app', e))
                                          + Total(Row(app', e))
          /\ open'[n] = ledger'[n].amount - Total(Column(app', n))
                                          + Total(Row(app', n))
      BY <1>b, <2>b, <2>c, <3>2, <3>3, <3>4, <3>5
    <3> QED BY <1>c, <2>1, <3>6 DEF OpenItemBalance, AsDebit, AsCredit, Column, Row
  <2>3. CASE ~(amount > 0)
    <3>1. settled = <<e, n>> /\ Abs(amount) = -amount
      BY <1>b, <2>3 DEF Abs
    <3>2. Total(Row(app', e)) = -amount
      <4>1. Row(app', e)[n] = -amount
        BY <1>a, <1>b, <3>1 DEF Row
      <4>2. \A d \in Id : d # n => Row(app', e)[d] = 0
        BY <1>a, <1>b, <3>1 DEF Row
      <4> QED BY <1>b, <4>1, <4>2, TotalSingle
    <3>3. Total(Column(app', e)) = 0
      <4>1. \A c \in Id : Column(app', e)[c] = 0
        BY <1>a, <1>b, <1>d, <3>1 DEF Column
      <4> QED BY <4>1, TotalZero
    <3>4. Total(Column(app', n)) = -amount
      <4>1. Column(app', n)[e] = -amount
        BY <1>a, <1>b, <3>1 DEF Column
      <4>2. \A c \in Id : c # e => Column(app', n)[c] = 0
        BY <1>a, <1>b, <1>c, <1>d, <3>1 DEF Column, IInv, NoStrays
      <4> QED BY <1>b, <4>1, <4>2, TotalSingle
    <3>5. Total(Row(app', n)) = 0
      <4>1. \A d \in Id : Row(app', n)[d] = 0
        BY <1>a, <1>b, <1>c, <1>d, <3>1 DEF Row, IInv, NoStrays
      <4> QED BY <4>1, TotalZero
    <3>6. /\ open'[e] = ledger'[e].amount - Total(Column(app', e))
                                          + Total(Row(app', e))
          /\ open'[n] = ledger'[n].amount - Total(Column(app', n))
                                          + Total(Row(app', n))
      BY <1>b, <2>b, <2>c, <3>2, <3>3, <3>4, <3>5
    <3> QED BY <1>c, <2>1, <3>6 DEF OpenItemBalance, AsDebit, AsCredit, Column, Row
  <2> QED BY <2>2, <2>3
<1>5. DepositIsolation'
  <2>1. SUFFICES ASSUME NEW c \in Entries', NEW d \in Entries',
                        ledger'[c].type = "DEPOSIT", app'[<<c, d>>] > 0
                 PROVE  ledger'[d].type \in {"REFUND", "REVERSAL"}
    BY <1>c DEF DepositIsolation, Deposits, Entries
  <2>2. c \in Entries /\ c # n /\ c \in Id /\ d \in Id
    BY <1>c, <2>1 DEF row
  <2>3. CASE d = n
    BY <1>c, <2>3 DEF row
  <2>4. CASE d # n
    <3>1. <<c, d>> # settled
      BY <2>2, <2>4
    <3>2. d \in Entries /\ app[<<c, d>>] > 0
      BY <1>a, <1>c, <2>1, <2>2, <2>4, <3>1
    <3> QED BY <1>c, <2>1, <2>2, <3>2 DEF IInv, DepositIsolation, Deposits, Entries
  <2> QED BY <2>3, <2>4
<1>6. ReversedIsSettled'
  <2>1. SUFFICES ASSUME NEW r \in Entries', ledger'[r].type = "REVERSAL"
                 PROVE  LET f == ledger'[r].reverses
                        IN /\ f \in 1..(r - 1) /\ ledger'[f].type # "REVERSAL"
                           /\ open'[f] = 0 /\ open'[r] = 0
                           /\ \A p \in Id \X Id :
                                app'[p] > 0 /\ {p[1], p[2]} \intersect {f, r} # {}
                                  => {p[1], p[2]} = {f, r}
                           /\ \A s \in Entries' : ledger'[s].reverses = f => s = r
    BY DEF ReversedIsSettled
  <2>2. CASE r = n
    <3>1. ledger'[n].reverses = e
      BY <1>c DEF row
    <3>2. open'[e] = 0 /\ open'[n] = 0
      BY <1>a, <1>b
    <3>3. ASSUME NEW p \in Id \X Id, app'[p] > 0,
                 {p[1], p[2]} \intersect {e, n} # {}
          PROVE  {p[1], p[2]} = {e, n}
      <4>1. CASE p = settled
        BY <4>1
      <4>2. CASE p # settled
        <5>1. app[p] > 0 /\ n \in {p[1], p[2]}
          BY <1>a, <3>3, <4>2
        <5>2. p = <<p[1], p[2]>> /\ p[1] \in Id /\ p[2] \in Id
          OBVIOUS
        <5>3. app[<<p[1], p[2]>>] = 0
          BY <1>c, <5>1, <5>2 DEF IInv, NoStrays
        <5> QED BY <5>1, <5>2, <5>3
      <4> QED BY <4>1, <4>2
    <3>4. \A s \in Entries' : ledger'[s].reverses = e => s = n
      BY <1>a, <1>c
    <3>5. ledger'[e].type # "REVERSAL"
      BY <1>a, <1>c
    <3> QED BY <1>d, <2>2, <3>1, <3>2, <3>3, <3>4, <3>5
  <2>3. CASE r # n
    <3>1. r \in Entries /\ ledger[r].type = "REVERSAL" /\ ledger'[r] = ledger[r]
          /\ r \in Id
      BY <1>c, <2>1, <2>3
    <3> DEFINE f == ledger[r].reverses
    <3>2. /\ f \in 1..(r - 1) /\ f \in Entries /\ ledger[f].type # "REVERSAL"
          /\ open[f] = 0 /\ open[r] = 0
          /\ \A p \in Id \X Id :
               app[p] > 0 /\ {p[1], p[2]} \intersect {f, r} # {}
                 => {p[1], p[2]} = {f, r}
          /\ \A s \in Entries : ledger[s].reverses = f => s = r
      BY <3>1 DEF IInv, ReversedIsSettled, Entries
    <3>3. f # e /\ r # e /\ f # n /\ f \in Id
      BY <1>a, <1>c, <3>1, <3>2
    <3> HIDE DEF f
    <3>4. /\ app[<<e, f>>] = 0 /\ app[<<f, e>>] = 0
          /\ app[<<e, r>>] = 0 /\ app[<<r, e>>] = 0
      <4>1. ASSUME NEW x \in {f, r} PROVE app[<<e, x>>] = 0 /\ app[<<x, e>>] = 0
        <5>1. x \in Id /\ e \in Id /\ {e, x} # {f, r}
          BY <1>b, <3>1, <3>3
        <5>2. <<e, x>> \in Id \X Id /\ <<x, e>> \in Id \X Id
          BY <5>1
        <5>3. ~(app[<<e, x>>] > 0) /\ ~(app[<<x, e>>] > 0)
          BY <3>2, <5>1, <5>2
        <5>4. app[<<e, x>>] \in Nat /\ app[<<x, e>>] \in Nat
          BY <1>d, <5>2
        <5> QED BY <5>3, <5>4
      <4> QED BY <4>1
    <3>5. open'[f] = 0 /\ open'[r] = 0
      BY <1>a, <2>3, <3>1, <3>2, <3>3, <3>4
    <3>6. ASSUME NEW p \in Id \X Id, app'[p] > 0,
                 {p[1], p[2]} \intersect {f, r} # {}
          PROVE  {p[1], p[2]} = {f, r}
      <4>1. p # settled
        BY <2>3, <3>3, <3>6
      <4>2. app[p] > 0
        BY <1>a, <3>6, <4>1
      <4> QED BY <3>2, <3>6, <4>2
    <3>7. \A s \in Entries' : ledger'[s].reverses = f => s = r
      BY <1>c, <3>2, <3>3 DEF row
    <3>8. ledger'[f].type # "REVERSAL"
      BY <1>c, <3>2
    <3>9. ledger'[r].reverses = f
      BY <3>1 DEF f
    <3> QED BY <3>2, <3>5, <3>6, <3>7, <3>8, <3>9
  <2> QED BY <2>2, <2>3
<1> QED BY <1>1, <1>2, <1>3, <1>4, <1>5, <1>6 DEF IInv
-----------------------------------------------------------------------------
(***************************************************************************)
(* The invariant: initially, over every step, and its consequences.        *)
(***************************************************************************)
\* An account starts with no entries, so there is nothing to conserve.
LEMMA InitIInv == Init => IInv
<1> SUFFICES ASSUME Init PROVE IInv
  OBVIOUS
<1>1. Entries = {} /\ Deposits(ledger) = {}
  BY DEF Init, Entries, Deposits
<1>2. TypeOK
  <2>1. ledger \in Seq(EntryRow) /\ Len(ledger) <= MaxEntries
    BY DEF Init
  <2> QED BY <2>1 DEF Init, TypeOK, NoDate
<1>3. NoStrays
  BY DEF Init, NoStrays
<1> QED BY <1>1, <1>2, <1>3
        DEF IInv, SignOfType, OpenItemBalance, DepositIsolation, ReversedIsSettled

\* A step that leaves ledger, open items and applications alone keeps it.
LEMMA SameLedgerKeeps ==
  ASSUME IInv, UNCHANGED <<ledger, open, app>>,
         cache' = cache \/ RecomputeAccountCache,
         billed' \subseteq Bill,
         plan' \in [debits : SUBSET Id, active : BOOLEAN]
  PROVE  IInv'
<1>1. CacheOf(ledger, open) \in
        [balance : Int, deposit : Int, lastDue : Day \union {NoDate}]
  BY CacheType DEF IInv, TypeOK
<1>2. cache' \in [balance : Int, deposit : Int, lastDue : Day \union {NoDate}]
  BY <1>1 DEF IInv, TypeOK, RecomputeAccountCache
<1>3. TypeOK'
  BY <1>2 DEF IInv, TypeOK
<1>4. NoStrays' /\ SignOfType'
  BY DEF IInv, NoStrays, SignOfType, Entries
<1>5. OpenItemBalance'
  BY DEF IInv, OpenItemBalance, AsDebit, AsCredit, Entries
<1>6. DepositIsolation' /\ ReversedIsSettled'
  BY DEF IInv, DepositIsolation, ReversedIsSettled, Deposits, Entries
<1> QED BY <1>3, <1>4, <1>5, <1>6 DEF IInv

\* Every step keeps it: one case per operation.
LEMMA NextIInv == IInv /\ [Next]_vars => IInv'
<1> SUFFICES ASSUME IInv, [Next]_vars PROVE IInv'
  OBVIOUS
<1>t. /\ billed \subseteq Bill /\ plan \in [debits : SUBSET Id, active : BOOLEAN]
      /\ Entries \subseteq Id
  BY DEF IInv, TypeOK, Entries, Id
<1>1. ASSUME NEW b \in Bill, NEW total \in -MaxAmount..MaxAmount, NEW due \in Day,
             PostBill(b, total, due)
      PROVE  IInv'
  <2>0. billed' \subseteq Bill /\ UNCHANGED plan
    BY <1>t, <1>1 DEF PostBill
  <2>1. CASE UNCHANGED <<ledger, open, app>> /\ RecomputeAccountCache
    BY <1>t, <2>0, <2>1, SameLedgerKeeps
  <2>2. CASE total > 0 /\ PostDebit("BILL_CHARGE", total, due, "CREDIT")
    <3>1. total \in Amount
      BY <2>2 DEF Amount
    <3> QED BY <2>0, <2>2, <3>1, PostDebitKeeps DEF DebitTypes
  <2>3. CASE total < 0 /\ PostCredit("ADJUSTMENT_CREDIT", -total, {})
    <3>1. -total \in Amount
      BY <2>3 DEF Amount
    <3> QED BY <2>0, <2>3, <3>1, PostCreditKeeps DEF CreditTypes
  <2> QED BY <1>1, <2>1, <2>2, <2>3 DEF PostBill
<1>2. ASSUME NEW amount \in Amount, NEW due \in Day, AssessFee(amount, due)
      PROVE  IInv'
  BY <1>t, <1>2, PostDebitKeeps DEF AssessFee, DebitTypes
<1>3. ASSUME NEW amount \in Amount, NEW due \in Day, AdjustDebit(amount, due)
      PROVE  IInv'
  BY <1>t, <1>3, PostDebitKeeps DEF AdjustDebit, DebitTypes
<1>4. ASSUME NEW amount \in Amount, NEW scope \in {"ORDINARY", "INSTALMENT"},
             RecordPayment(amount, scope)
      PROVE  IInv'
  <2>1. PaymentCandidates(scope) \subseteq Entries
    BY DEF PaymentCandidates, OpenDebits
  <2> QED BY <1>t, <1>4, <2>1, PostCreditKeeps DEF RecordPayment, CreditTypes
<1>5. ASSUME NEW amount \in Amount, RecordDeposit(amount)
      PROVE  IInv'
  BY <1>t, <1>5, PostCreditKeeps DEF RecordDeposit, CreditTypes
<1>6. ASSUME NEW type \in {"ADJUSTMENT_CREDIT", "WRITE_OFF"}, NEW amount \in Amount,
             NEW target \in Entries, PostCreditAgainstDebit(type, amount, target)
      PROVE  IInv'
  BY <1>t, <1>6, PostCreditKeeps DEF PostCreditAgainstDebit, CreditTypes
<1>7. ASSUME NEW amount \in Amount, NEW source \in {"CREDIT", "DEPOSIT"},
             RecordRefund(source, amount)
      PROVE  IInv'
  <2>1. /\ PostDebit("REFUND", amount, NoDate, source)
        /\ billed' \subseteq Bill /\ UNCHANGED plan
    BY <1>t, <1>7 DEF RecordRefund
  <2> QED BY <2>1, PostDebitKeeps DEF DebitTypes
<1>8. ASSUME NEW S \in SUBSET Entries, CreatePaymentPlan(S)
      PROVE  IInv'
  BY <1>t, <1>8, SameLedgerKeeps DEF CreatePaymentPlan
<1>9. CASE EndPaymentPlan
  BY <1>t, <1>9, SameLedgerKeeps DEF EndPaymentPlan
<1>10. CASE UNCHANGED vars
  BY <1>t, <1>10, SameLedgerKeeps DEF vars
<1> QED BY <1>1, <1>2, <1>3, <1>4, <1>5, <1>6, <1>7, <1>8, <1>9, <1>10,
           ReverseEntryKeeps DEF Next, Waive, WriteOff

\* The invariant holds in every reachable state of every instance.
THEOREM Invariance == Spec => []IInv
BY InitIInv, NextIInv, PTL DEF Spec

\* Every variable keeps its type: amounts and open items are integers, the
\* applications natural numbers, and no application has an unknown side.
THEOREM TypeCorrect == Spec => []TypeOK
<1>1. IInv => TypeOK
  BY DEF IInv
<1> QED BY <1>1, Invariance, PTL

\* open_amount and ledger_application, which every operation writes apart,
\* never disagree: the open-item balance of spec 23 section 5.
THEOREM Conservation == Spec => []OpenItemBalance
<1>1. IInv => OpenItemBalance
  BY DEF IInv
<1> QED BY <1>1, Invariance, PTL

\* No charge is ever paid with a security deposit.
THEOREM DepositsIsolated == Spec => []DepositIsolation
<1>1. IInv => DepositIsolation
  BY DEF IInv
<1> QED BY <1>1, Invariance, PTL

\* A reversed entry and its reversal stay settled against each other.
THEOREM ReversalsSettled == Spec => []ReversedIsSettled
<1>1. IInv => ReversedIsSettled
  BY DEF IInv
<1> QED BY <1>1, Invariance, PTL
\* Posting a credit or a debit appends, and writes applications only of the
\* entry it appends.
LEMMA PostingKeepsHistory ==
  ASSUME IInv, NEW row \in EntryRow, NextId \in Id, ledger' = Append(ledger, row),
         \A p \in Id \X Id : NextId \notin {p[1], p[2]} => app'[p] = app[p]
  PROVE  HistoryStep
<1>1. /\ Len(ledger) <= Len(ledger') /\ NextId \notin Entries
      /\ \A i \in Entries : ledger'[i] = ledger[i]
  <2>1. /\ Len(ledger') = NextId /\ NextId \notin Entries
        /\ \A i \in Entries : ledger'[i] = ledger[i]
    BY AppendRow DEF IInv
  <2>2. Len(ledger) \in Nat /\ NextId = Len(ledger) + 1
    BY DEF IInv, TypeOK, NextId
  <2>3. Len(ledger') \in Int /\ Len(ledger) <= Len(ledger')
    BY <2>1, <2>2
  <2> QED BY <2>1, <2>3, Zenon
<1>2. ASSUME NEW p \in Id \X Id, app'[p] # app[p] PROVE app[p] = 0
  <2>1. p = <<p[1], p[2]>> /\ p[1] \in Id /\ p[2] \in Id
    OBVIOUS
  <2>2. p[1] \notin Entries \/ p[2] \notin Entries
    BY <1>1, <1>2
  <2>3. app[<<p[1], p[2]>>] = 0
    BY <2>1, <2>2 DEF IInv, NoStrays
  <2> QED BY <2>1, <2>3
<1> QED BY <1>1, <1>2 DEF HistoryStep

\* Nothing in the ledger is ever rewritten: entries are immutable, and an
\* application goes only with the reversal of one of its two sides.
THEOREM HistoryKept == Spec => HistoryIsKept
<1>1. IInv /\ [Next]_vars => [HistoryStep]_vars
  <2> SUFFICES ASSUME IInv, Next PROVE HistoryStep
    OBVIOUS
  <2>t. /\ ledger \in Seq(EntryRow) /\ Len(ledger) \in Nat
        /\ app \in [Id \X Id -> Nat]
    BY DEF IInv, TypeOK
  <2>0. ASSUME UNCHANGED <<ledger, app>> PROVE HistoryStep
    BY <2>0, <2>t DEF HistoryStep
  <2>1. ASSUME NEW type \in CreditTypes, NEW amount \in Amount, NEW S,
               PostCredit(type, amount, S)
        PROVE  HistoryStep
    <3>1. [type |-> type, amount |-> -amount, due |-> NoDate, reverses |-> NoId]
            \in EntryRow
      BY DEF EntryRow, EntryTypes, CreditTypes, Amount
    <3>2. \A p \in Id \X Id : NextId \notin {p[1], p[2]} => app'[p] = app[p]
      BY <2>1, <2>t DEF PostCredit
    <3> QED BY <2>1, <3>1, <3>2, PostingKeepsHistory DEF PostCredit
  <2>2. ASSUME NEW type \in DebitTypes, NEW amount \in Amount,
               NEW due \in Day \union {NoDate}, NEW source,
               PostDebit(type, amount, due, source)
        PROVE  HistoryStep
    <3>1. [type |-> type, amount |-> amount, due |-> due, reverses |-> NoId]
            \in EntryRow
      BY DEF EntryRow, EntryTypes, DebitTypes, Amount
    <3>2. \A p \in Id \X Id : NextId \notin {p[1], p[2]} => app'[p] = app[p]
      BY <2>2, <2>t DEF PostDebit
    <3> QED BY <2>2, <3>1, <3>2, PostingKeepsHistory DEF PostDebit
  <2>3. ASSUME NEW e \in Entries, ReverseEntry(e) PROVE HistoryStep
    <3> DEFINE row == [type |-> "REVERSAL", amount |-> -ledger[e].amount,
                       due |-> NoDate, reverses |-> e]
    <3>0. PICK n \in Id : n = NextId
      BY <2>3 DEF ReverseEntry
    <3>1. row \in EntryRow
      <4>1. ledger[e] \in EntryRow
        BY EntriesAreRows DEF IInv
      <4>2. ledger[e].amount \in (-MaxAmount..MaxAmount) \ {0}
        BY <4>1 DEF EntryRow
      <4>3. -ledger[e].amount \in (-MaxAmount..MaxAmount) \ {0}
        BY <4>2
      <4>4. e \in Id
        BY DEF IInv, TypeOK, Entries, Id
      <4> QED BY <4>3, <4>4 DEF EntryRow, EntryTypes
    <3>2. /\ ledger' = Append(ledger, row)
          /\ \A p \in Id \X Id : e \notin {p[1], p[2]} =>
               n \in {p[1], p[2]} \/ app'[p] = app[p]
          /\ \A p \in Id \X Id : e \in {p[1], p[2]} =>
               n \in {p[1], p[2]} \/ app'[p] = 0
      BY <2>3, <3>0 DEF ReverseEntry
    <3>3. /\ Len(ledger') = n /\ n \notin Entries
          /\ \A i \in Entries : ledger'[i] = ledger[i]
          /\ ledger'[n] = row
      BY <3>0, <3>1, <3>2, AppendRow DEF IInv
    <3>4. Posts("REVERSAL") /\ ledger'[Len(ledger')].reverses = e
          /\ Len(ledger) <= Len(ledger')
      BY <2>t, <3>0, <3>3 DEF Posts, NextId
    <3>5. ASSUME NEW p \in Id \X Id, app'[p] # app[p], app[p] # 0
          PROVE  app'[p] = 0 /\ e \in {p[1], p[2]}
      <4>1. p = <<p[1], p[2]>> /\ p[1] \in Id /\ p[2] \in Id
        OBVIOUS
      <4>2. n \notin {p[1], p[2]}
        <5>1. p[1] \in Entries /\ p[2] \in Entries
          BY <3>5, <4>1 DEF IInv, NoStrays
        <5> QED BY <3>3, <5>1
      <4> QED BY <3>2, <3>5, <4>2
    <3> QED BY <3>3, <3>4, <3>5 DEF HistoryStep
  <2>4. ASSUME NEW b \in Bill, NEW total \in -MaxAmount..MaxAmount, NEW due \in Day,
               PostBill(b, total, due)
        PROVE  HistoryStep
    <3>1. CASE UNCHANGED <<ledger, open, app>>
      BY <3>1, <2>0
    <3>2. CASE total > 0 /\ PostDebit("BILL_CHARGE", total, due, "CREDIT")
      BY <2>2, <3>2 DEF DebitTypes, Amount
    <3>3. CASE total < 0 /\ PostCredit("ADJUSTMENT_CREDIT", -total, {})
      BY <2>1, <3>3 DEF CreditTypes, Amount
    <3> QED BY <2>4, <3>1, <3>2, <3>3 DEF PostBill
  <2>5. ASSUME NEW S \in SUBSET Entries, CreatePaymentPlan(S) PROVE HistoryStep
    BY <2>0, <2>5 DEF CreatePaymentPlan
  <2>6. CASE EndPaymentPlan
    BY <2>0, <2>6 DEF EndPaymentPlan
  <2>7. ASSUME NEW amount \in Amount, NEW due \in Day,
               AssessFee(amount, due) \/ AdjustDebit(amount, due)
        PROVE  HistoryStep
    BY <2>2, <2>7 DEF AssessFee, AdjustDebit, DebitTypes
  <2>8. ASSUME NEW amount \in Amount, NEW scope,
               RecordPayment(amount, scope) \/ RecordDeposit(amount)
        PROVE  HistoryStep
    BY <2>1, <2>8 DEF RecordPayment, RecordDeposit, CreditTypes
  <2>9. ASSUME NEW amount \in Amount, NEW target,
               Waive(amount, target) \/ WriteOff(amount, target)
        PROVE  HistoryStep
    BY <2>1, <2>9 DEF Waive, WriteOff, PostCreditAgainstDebit, CreditTypes
  <2>10. ASSUME NEW amount \in Amount, NEW source, RecordRefund(source, amount)
         PROVE  HistoryStep
    BY <2>2, <2>10 DEF RecordRefund, DebitTypes
  <2> QED BY <2>3, <2>4, <2>5, <2>6, <2>7, <2>8, <2>9, <2>10 DEF Next
<1> QED BY <1>1, Invariance, PTL DEF Spec, HistoryIsKept

-----------------------------------------------------------------------------
(***************************************************************************)
(* Sums over a part of the entries.                                        *)
(***************************************************************************)
\* A part of a function with integer values has an integer sum.
LEMMA OpenSumInt ==
  ASSUME NEW f, \A i \in Id : f[i] \in Int, NEW S
  PROVE  OpenSum(f, S) \in Int
<1> DEFINE g == [i \in Id |-> IF i \in S THEN f[i] ELSE 0]
<1>1. \A i \in Id : g[i] \in Int
  OBVIOUS
<1> HIDE DEF g
<1>2. Total(g) \in Int
  BY <1>1, TotalInt
<1> QED BY <1>2 DEF OpenSum, g

\* Functions that agree on the entries of a part have the same sum over it.
LEMMA OpenSumEq ==
  ASSUME NEW f, NEW g, NEW S, NEW T,
         \A i \in Id : (IF i \in S THEN f[i] ELSE 0) = (IF i \in T THEN g[i] ELSE 0)
  PROVE  OpenSum(f, S) = OpenSum(g, T)
<1> DEFINE u == [i \in Id |-> IF i \in S THEN f[i] ELSE 0]
           v == [i \in Id |-> IF i \in T THEN g[i] ELSE 0]
<1>1. \A i \in Id : u[i] = v[i]
  OBVIOUS
<1> HIDE DEF u, v
<1>2. Total(u) = Total(v)
  BY <1>1, TotalEq
<1> QED BY <1>2 DEF OpenSum, u, v

\* One term more, or one term changed.
LEMMA OpenSumPoint ==
  ASSUME NEW f, NEW g, NEW S, NEW T, NEW k \in Id, NEW x \in Int,
         \A i \in Id : f[i] \in Int /\ g[i] \in Int,
         \A i \in Id : i # k =>
           (IF i \in S THEN f[i] ELSE 0) = (IF i \in T THEN g[i] ELSE 0),
         (IF k \in T THEN g[k] ELSE 0) = (IF k \in S THEN f[k] ELSE 0) + x
  PROVE  OpenSum(g, T) = OpenSum(f, S) + x
<1> DEFINE u == [i \in Id |-> IF i \in S THEN f[i] ELSE 0]
           v == [i \in Id |-> IF i \in T THEN g[i] ELSE 0]
<1>1. v[k] = u[k] + x /\ u[k] \in Int
  OBVIOUS
<1>c. k \in 1..MaxEntries
  BY DEF Id
<1>a. \A i \in 1..MaxEntries : u[i] \in Int /\ v[i] \in Int
  BY DEF Id
<1>b. \A i \in 1..MaxEntries : i # k => v[i] = u[i]
  BY DEF Id
<1> HIDE DEF u, v
<1>2. SumTo(v, MaxEntries) = SumTo(u, MaxEntries) + (v[k] - u[k])
  BY <1>a, <1>b, <1>c, SumToPoint
<1>3. SumTo(u, MaxEntries) \in Int
  BY <1>a, SumToInt
<1>4. SumTo(v, MaxEntries) = SumTo(u, MaxEntries) + x
  BY <1>1, <1>2, <1>3
<1> QED BY <1>4 DEF OpenSum, Total, u, v

\* Where one function is at most another on a part, so are their sums.
LEMMA OpenSumLe ==
  ASSUME NEW f, NEW g, NEW S, NEW T,
         \A i \in Id : f[i] \in Int /\ g[i] \in Int,
         \A i \in Id :
           (IF i \in S THEN f[i] ELSE 0) <= (IF i \in T THEN g[i] ELSE 0)
  PROVE  OpenSum(f, S) <= OpenSum(g, T)
<1> DEFINE u == [i \in Id |-> IF i \in S THEN f[i] ELSE 0]
           v == [i \in Id |-> IF i \in T THEN g[i] ELSE 0]
<1>1. \A i \in 1..MaxEntries : u[i] \in Int /\ v[i] \in Int /\ u[i] <= v[i]
  BY DEF Id
<1> HIDE DEF u, v
<1>2. SumTo(u, MaxEntries) <= SumTo(v, MaxEntries)
  BY <1>1, SumToLe
<1> QED BY <1>2 DEF OpenSum, Total, u, v

\* Sums over a part add term by term.
LEMMA OpenSumAdd ==
  ASSUME NEW f, NEW g, NEW h, NEW S,
         \A i \in Id : f[i] \in Int /\ g[i] \in Int,
         \A i \in Id : i \in S => h[i] = f[i] + g[i]
  PROVE  OpenSum(h, S) = OpenSum(f, S) + OpenSum(g, S)
<1> DEFINE u == [i \in Id |-> IF i \in S THEN f[i] ELSE 0]
           v == [i \in Id |-> IF i \in S THEN g[i] ELSE 0]
           w == [i \in Id |-> IF i \in S THEN h[i] ELSE 0]
<1>1. \A i \in 1..MaxEntries : u[i] \in Int /\ v[i] \in Int /\ w[i] = u[i] + v[i]
  BY DEF Id
<1> HIDE DEF u, v, w
<1>2. SumTo(w, MaxEntries) = SumTo(u, MaxEntries) + SumTo(v, MaxEntries)
  BY <1>1, SumToAdd
<1> QED BY <1>2 DEF OpenSum, Total, u, v, w

\* Where nothing is open there is nothing to sum.
LEMMA OpenSumEmpty ==
  ASSUME NEW f, NEW S, \A i \in Id : i \in S => f[i] = 0
  PROVE  OpenSum(f, S) = 0
<1> DEFINE u == [i \in Id |-> IF i \in S THEN f[i] ELSE 0]
<1>1. \A i \in Id : u[i] = 0
  OBVIOUS
<1> HIDE DEF u
<1>2. Total(u) = 0
  BY <1>1, TotalZero
<1> QED BY <1>2 DEF OpenSum, u

\* The sum over every entry is the total.
LEMMA OpenSumAll ==
  ASSUME NEW f, NEW S, \A i \in Id : i \notin S => f[i] = 0
  PROVE  OpenSum(f, S) = Total(f)
<1> DEFINE u == [i \in Id |-> IF i \in S THEN f[i] ELSE 0]
<1>1. \A i \in Id : u[i] = f[i]
  OBVIOUS
<1> HIDE DEF u
<1>2. Total(u) = Total(f)
  BY <1>1, TotalEq
<1> QED BY <1>2 DEF OpenSum, u

-----------------------------------------------------------------------------
(***************************************************************************)
(* What a walk gives in all.                                               *)
(***************************************************************************)
Candidates(room) == {i \in Id : room[i] > 0}

\* `ahead' orders the candidates, strictly and totally.
Orders(ahead, C) ==
  /\ \A i \in C : i \notin ahead[i]
  /\ \A i, j \in C : i = j \/ i \in ahead[j] \/ j \in ahead[i]
  /\ \A i, j, k \in C : i \in ahead[j] /\ j \in ahead[k] => i \in ahead[k]

\* What a walk gives a candidate: all its room, what is still wanted, or nothing.
LEMMA WalkTerm ==
  ASSUME NEW want, NEW room \in [Id -> Nat], NEW ahead, NEW i \in Id
  PROVE  /\ OpenSum(room, ahead[i]) \in Int
         /\ Walk(want, room, ahead)[i] =
              IF room[i] = 0 THEN 0
              ELSE MinOf(room[i], MaxOf(0, want - OpenSum(room, ahead[i])))
<1>1. OpenSum(room, ahead[i]) \in Int
  BY OpenSumInt
<1>2. Walk(want, room, ahead)[i] =
        IF room[i] = 0 THEN 0
        ELSE MinOf(room[i], MaxOf(0, want - OpenSum(room, ahead[i])))
  BY DEF Walk, OpenSum
<1> QED BY <1>1, <1>2

\* What lies ahead of a candidate that is itself ahead is less.
LEMMA AheadIsLess ==
  ASSUME NEW room \in [Id -> Nat], NEW ahead, Orders(ahead, Candidates(room)),
         NEW i \in Candidates(room), NEW k \in Candidates(room), i \in ahead[k]
  PROVE  OpenSum(room, ahead[i]) + room[i] <= OpenSum(room, ahead[k])
<1> DEFINE with == ahead[i] \union {i}
<1>1. i \in Id /\ k \in Id /\ i \notin ahead[i]
  BY DEF Orders, Candidates
<1>2. OpenSum(room, with) = OpenSum(room, ahead[i]) + room[i]
  BY <1>1, OpenSumPoint
<1>3. \A j \in Id : (IF j \in with THEN room[j] ELSE 0)
                      <= (IF j \in ahead[k] THEN room[j] ELSE 0)
  <2>1. \A j \in Candidates(room) : j \in with => j \in ahead[k]
    BY DEF Orders
  <2>2. \A j \in Id : room[j] \in Nat /\ (j \notin Candidates(room) => room[j] = 0)
    BY DEF Candidates
  <2> QED BY <2>1, <2>2
<1>4. OpenSum(room, with) <= OpenSum(room, ahead[k])
  BY <1>3, OpenSumLe
<1> QED BY <1>2, <1>4

\* A nonempty set of candidates has a last one.
LEMMA LastCandidate ==
  ASSUME NEW room \in [Id -> Nat], NEW ahead, Orders(ahead, Candidates(room)),
         NEW D \in SUBSET Candidates(room), D # {}
  PROVE  \E k \in D : \A j \in D : j = k \/ j \in ahead[k]
<1> DEFINE before(i) == OpenSum(room, ahead[i])
           slack(i)  == OpenSum(room, Id) - before(i)
<1>1. \A i \in Id : before(i) \in Int /\ slack(i) \in Nat
  <2> TAKE i \in Id
  <2>1. OpenSum(room, ahead[i]) \in Int /\ OpenSum(room, Id) \in Int
    BY OpenSumInt
  <2>2. OpenSum(room, ahead[i]) <= OpenSum(room, Id)
    BY OpenSumLe
  <2> QED BY <2>1, <2>2
<1>2. \A i \in D : i \in Id /\ room[i] \in Nat /\ room[i] > 0
  BY DEF Candidates
<1>3. \A i, j \in D : i \in ahead[j] => before(i) + room[i] <= before(j)
  BY AheadIsLess
<1> DEFINE T == {slack(i) : i \in D}
<1>5. OpenSum(room, Id) \in Int
  BY OpenSumInt
<1> HIDE DEF before
<1>4. PICK k \in D : \A j \in D : slack(k) <= slack(j)
  <2>1. T \in SUBSET Nat /\ T # {}
    BY <1>1, <1>2
  <2>2. PICK x \in T : \A y \in T : x <= y
    BY <2>1, NatLeast
  <2> QED BY <2>2
<1>6. ASSUME NEW j \in D, j # k, j \notin ahead[k] PROVE FALSE
  <2>1. k \in ahead[j]
    BY <1>6 DEF Orders
  <2>2. before(k) + room[k] <= before(j)
    BY <1>3, <2>1, <1>6
  <2>3. before(j) <= before(k)
    BY <1>1, <1>2, <1>4, <1>5
  <2> QED BY <1>1, <1>2, <2>2, <2>3
<1> QED BY <1>6

\* Over candidates that nobody outside precedes, a walk gives all that is
\* wanted or all there is room for.
LEMMA WalkPart ==
  ASSUME NEW want \in Nat, NEW room \in [Id -> Nat], NEW ahead,
         Orders(ahead, Candidates(room)),
         NEW C \in SUBSET Candidates(room),
         \A i \in C, j \in Candidates(room) : j \in ahead[i] => j \in C
  PROVE  OpenSum(Walk(want, room, ahead), C) = MinOf(want, OpenSum(room, C))
<1> DEFINE give == Walk(want, room, ahead)
           Closed(D) == \A i \in D, j \in Candidates(room) : j \in ahead[i] => j \in D
           Wrong == {D \in SUBSET Candidates(room) :
                       Closed(D) /\ OpenSum(give, D) # MinOf(want, OpenSum(room, D))}
           T == {OpenSum(room, D) : D \in Wrong}
<1>a. \A D \in SUBSET Candidates(room) : OpenSum(room, D) \in Nat
  <2> TAKE D \in SUBSET Candidates(room)
  <2> DEFINE none == [i \in Id |-> 0]
  <2>1. OpenSum(room, D) \in Int
    BY OpenSumInt
  <2>2. OpenSum(none, D) <= OpenSum(room, D)
    BY OpenSumLe
  <2>3. OpenSum(none, D) = 0
    BY OpenSumEmpty
  <2> QED BY <2>1, <2>2, <2>3
<1>b. give \in [Id -> Nat]
  BY WalkBounds
<1>1. SUFFICES ASSUME Wrong # {} PROVE FALSE
  BY <1>1
<1>2. PICK D \in Wrong : \A E \in Wrong : OpenSum(room, D) <= OpenSum(room, E)
  <2>1. T \in SUBSET Nat /\ T # {}
    BY <1>1, <1>a
  <2>2. PICK x \in T : \A y \in T : x <= y
    BY <2>1, NatLeast
  <2> QED BY <2>2
<1>3. /\ D \in SUBSET Candidates(room) /\ Closed(D)
      /\ OpenSum(give, D) # MinOf(want, OpenSum(room, D))
  BY <1>2
<1> HIDE DEF give
<1>4. CASE D = {}
  <2>1. OpenSum(give, D) = 0 /\ OpenSum(room, D) = 0
    BY <1>4, OpenSumEmpty
  <2> QED BY <1>3, <2>1 DEF MinOf
<1>5. CASE D # {}
  <2>1. PICK k \in D : \A j \in D : j = k \/ j \in ahead[k]
    BY <1>3, <1>5, LastCandidate
  <2>2. k \in Id /\ k \in Candidates(room) /\ room[k] \in Nat /\ room[k] > 0
    BY <1>3 DEF Candidates
  <2> DEFINE E == D \ {k}
  <2>3. /\ OpenSum(room, D) = OpenSum(room, E) + room[k]
        /\ OpenSum(give, D) = OpenSum(give, E) + give[k]
    BY <1>b, <2>2, OpenSumPoint
  <2>4. E \in SUBSET Candidates(room) /\ Closed(E)
    <3>1. ASSUME NEW i \in E, NEW j \in Candidates(room), j \in ahead[i]
          PROVE  j \in E
      <4>1. j \in D /\ i \in D /\ i \in ahead[k] /\ i \in Candidates(room)
        BY <1>3, <2>1, <3>1
      <4>2. j # k
        BY <2>2, <3>1, <4>1 DEF Orders
      <4> QED BY <4>1, <4>2
    <3> QED BY <1>3, <3>1
  <2>5. OpenSum(room, E) \in Nat /\ OpenSum(room, E) < OpenSum(room, D)
    BY <1>a, <2>2, <2>3, <2>4
  <2>6. OpenSum(give, E) = MinOf(want, OpenSum(room, E))
    <3>1. E \notin Wrong
      BY <1>2, <1>3, <1>a, <2>5
    <3> QED BY <2>4, <3>1
  <2>7. OpenSum(room, ahead[k]) = OpenSum(room, E)
    <3>1. \A j \in Candidates(room) : j \in ahead[k] <=> j \in E
      BY <1>3, <2>1, <2>2 DEF Orders
    <3>2. \A j \in Id : room[j] \in Nat /\ (j \notin Candidates(room) => room[j] = 0)
      BY DEF Candidates
    <3>3. \A j \in Id : (IF j \in ahead[k] THEN room[j] ELSE 0)
                          = (IF j \in E THEN room[j] ELSE 0)
      BY <2>4, <3>1, <3>2
    <3> HIDE DEF E
    <3> QED BY <3>3, OpenSumEq
  <2>8. give[k] = MinOf(room[k], MaxOf(0, want - OpenSum(room, E)))
    BY <2>2, <2>7, WalkTerm DEF give
  <2> HIDE DEF E
  <2>9. OpenSum(give, D) = MinOf(want, OpenSum(room, D))
    BY <2>2, <2>3, <2>5, <2>6, <2>8 DEF MinOf, MaxOf
  <2> QED BY <1>3, <2>9
<1> QED BY <1>4, <1>5

\* In all, a walk gives what is wanted, or all there is room for.
LEMMA WalkTotal ==
  ASSUME NEW want \in Nat, NEW room \in [Id -> Nat], NEW ahead,
         Orders(ahead, Candidates(room))
  PROVE  /\ Total(room) \in Nat
         /\ Total(Walk(want, room, ahead)) = MinOf(want, Total(room))
<1> DEFINE give == Walk(want, room, ahead)
           C == Candidates(room)
<1>1. OpenSum(give, C) = MinOf(want, OpenSum(room, C))
  BY WalkPart
<1>2. give \in [Id -> Nat] /\ \A i \in Id : give[i] <= room[i]
  BY WalkBounds
<1>3. \A i \in Id : i \notin C => room[i] = 0 /\ give[i] = 0
  BY <1>2 DEF Candidates
<1> HIDE DEF give, C
<1>4. OpenSum(give, C) = Total(give) /\ OpenSum(room, C) = Total(room)
  BY <1>3, OpenSumAll
<1>5. Total(room) \in Nat
  <2> DEFINE none == [i \in Id |-> 0]
  <2>1. OpenSum(none, C) <= OpenSum(room, C) /\ OpenSum(room, C) \in Int
    BY OpenSumLe, OpenSumInt
  <2>2. OpenSum(none, C) = 0
    BY OpenSumEmpty
  <2> QED BY <1>4, <2>1, <2>2
<1> QED BY <1>1, <1>4, <1>5 DEF give

-----------------------------------------------------------------------------
\* The order of posting is an order.
LEMMA PostedIsOrder ==
  ASSUME NEW C \in SUBSET Id
  PROVE  Orders(PostedAhead, C)
<1>1. \A i \in C : i \in Id /\ i \in Int /\ PostedAhead[i] = 1..(i - 1)
  BY DEF PostedAhead, Id
<1>2. \A i, j \in C : i \in PostedAhead[j] <=> i < j
  BY <1>1 DEF Id
<1> HIDE DEF PostedAhead
<1> QED BY <1>1, <1>2 DEF Orders

\* DEBIT_ALLOCATION_ORDER, with the debits under a plan last, is an order: no
\* two debits tie, and there is no cycle through the plan's partition.
LEMMA PaidIsOrder ==
  ASSUME TypeOK, NEW C \in SUBSET OpenDebits
  PROVE  Orders(PaidAhead, C)
<1>1. ASSUME NEW i \in OpenDebits
      PROVE  /\ i \in Int /\ ledger[i].due \in Int /\ Rank(ledger[i].type) \in Int
             /\ Covered(i) \in BOOLEAN
  <2>1. i \in Int /\ ledger[i] \in EntryRow
    BY EntriesAreRows DEF OpenDebits, Entries
  <2>2. Rank(ledger[i].type) \in Int
    BY DEF Rank
  <2>3. plan.active \in BOOLEAN
    BY DEF TypeOK
  <2> QED BY <2>1, <2>2, <2>3 DEF EntryRow, Day, NoDate, Covered
<1>2. \A i, j \in C : i \in PaidAhead[j] <=> PaidBefore(i, j)
  BY DEF PaidAhead
<1>3. \A i \in C : ~PaidBefore(i, i)
  BY <1>1 DEF PaidBefore, ComesBefore
<1>4. \A i, j \in C : i = j \/ PaidBefore(i, j) \/ PaidBefore(j, i)
  BY <1>1 DEF PaidBefore, ComesBefore
<1>5. \A i, j, k \in C : PaidBefore(i, j) /\ PaidBefore(j, k) => PaidBefore(i, k)
  <2>1. \A i, j, k \in C : ComesBefore(i, j) /\ ComesBefore(j, k) => ComesBefore(i, k)
    BY <1>1 DEF ComesBefore
  <2> QED BY <2>1 DEF PaidBefore
<1> QED BY <1>2, <1>3, <1>4, <1>5 DEF Orders

-----------------------------------------------------------------------------
(***************************************************************************)
(* What one operation does, in the terms the invariants need.              *)
(***************************************************************************)
\* Entry n is posted as `row', and the entries before it are kept.
Appends(n, row) ==
  /\ n = Len(ledger) + 1 /\ ledger' = Append(ledger, row)
  /\ Len(ledger') = n /\ ledger'[n] = row
  /\ Entries' = Entries \union {n} /\ n \notin Entries /\ Entries \subseteq Id
  /\ \A i \in Entries : ledger'[i] = ledger[i]

CreditRow(type, amount) ==
  [type |-> type, amount |-> -amount, due |-> NoDate, reverses |-> NoId]
DebitRow(type, amount, due) ==
  [type |-> type, amount |-> amount, due |-> due, reverses |-> NoId]

\* A credit is posted as entry n and gives give[d] to each debit d.
CreditStep(n, give, type, amount, S) ==
  /\ Appends(n, CreditRow(type, amount))
  /\ give = Walk(amount, Owed(S), PaidAhead)
  /\ open' = [i \in Id |-> IF i = n THEN Total(give) - amount
                           ELSE open[i] - give[i]]
  /\ app' = [p \in Id \X Id |-> IF p[1] = n THEN give[p[2]] ELSE app[p]]
  /\ cache' = CacheOf(ledger', open')
  /\ \A i \in Id : give[i] > 0 => i \in S /\ give[i] <= open[i]
  /\ \A i \in Id : i \notin Entries => give[i] = 0
  /\ Total(give) \in Nat /\ Total(Owed(S)) \in Nat
  /\ Total(give) = MinOf(amount, Total(Owed(S)))

\* A debit is posted as entry n and takes take[c] of each credit c.
DebitStep(n, take, type, amount, due, source) ==
  /\ Appends(n, DebitRow(type, amount, due))
  /\ take = Walk(amount, Unspent(source), PostedAhead)
  /\ open' = [i \in Id |-> IF i = n THEN amount - Total(take)
                           ELSE open[i] + take[i]]
  /\ app' = [p \in Id \X Id |-> IF p[2] = n THEN take[p[1]] ELSE app[p]]
  /\ cache' = CacheOf(ledger', open')
  /\ \A i \in Id : take[i] > 0 => i \in Pool(source) /\ take[i] <= -open[i]
  /\ \A i \in Id : i \notin Entries => take[i] = 0
  /\ Total(take) \in Nat /\ Total(Unspent(source)) \in Nat
  /\ Total(take) = MinOf(amount, Total(Unspent(source)))

\* A credit gives to debits still owed, in all its amount or all they owe.
LEMMA CreditFacts ==
  ASSUME IInv, NEW type \in CreditTypes, NEW amount \in Amount,
         NEW S \in SUBSET Entries, PostCredit(type, amount, S)
  PROVE  \E n \in Id, give \in [Id -> Nat] : CreditStep(n, give, type, amount, S)
<1>0. PICK n \in Id : n = NextId
  BY DEF PostCredit
<1> DEFINE give == Walk(amount, Owed(S), PaidAhead)
<1>1. CreditRow(type, amount) \in EntryRow /\ amount \in Nat
  BY DEF CreditRow, EntryRow, EntryTypes, CreditTypes, Amount
<1>2. /\ ledger' = Append(ledger, CreditRow(type, amount))
      /\ open' = [i \in Id |-> IF i = n THEN Total(give) - amount
                               ELSE open[i] - give[i]]
      /\ app' = [p \in Id \X Id |-> IF p[1] = n THEN give[p[2]] ELSE app[p]]
      /\ cache' = CacheOf(ledger', open')
  BY <1>0 DEF PostCredit, RecomputeAccountCache, CreditRow
<1>3. Appends(n, CreditRow(type, amount))
  BY <1>0, <1>1, <1>2, AppendRow DEF IInv, Appends, NextId
<1>4. /\ Owed(S) \in [Id -> Nat]
      /\ \A i \in Id : Owed(S)[i] > 0 => i \in S /\ Owed(S)[i] = open[i]
      /\ Candidates(Owed(S)) \in SUBSET OpenDebits
  BY DEF IInv, TypeOK, Owed, Candidates, OpenDebits
<1>5. give \in [Id -> Nat] /\ \A i \in Id : give[i] <= Owed(S)[i]
  <2>1. amount \in Int /\ Owed(S) \in [Id -> Nat]
    BY <1>1, <1>4
  <2> QED BY <2>1, WalkBounds
<1>6. Orders(PaidAhead, Candidates(Owed(S)))
  BY <1>4, PaidIsOrder DEF IInv
<1>7. Total(Owed(S)) \in Nat /\ Total(give) = MinOf(amount, Total(Owed(S)))
  BY <1>1, <1>4, <1>6, WalkTotal
<1> HIDE DEF give
<1>8. Total(give) \in Nat
  BY <1>1, <1>7 DEF MinOf
<1>9. \A i \in Id : give[i] > 0 => i \in S /\ give[i] <= open[i]
  BY <1>4, <1>5
<1>10. \A i \in Id : i \notin Entries => give[i] = 0
  BY <1>5, <1>9
<1>11. WITNESS n \in Id
<1> USE <1>5
<1>12. WITNESS give \in [Id -> Nat]
<1> QED BY <1>2, <1>3, <1>5, <1>7, <1>8, <1>9, <1>10 DEF give, CreditStep

\* A debit takes from the unspent credits of one pool, in all its amount or all
\* the pool holds.
LEMMA DebitFacts ==
  ASSUME IInv, NEW type \in DebitTypes, NEW amount \in Amount,
         NEW due \in Day \union {NoDate}, NEW source,
         PostDebit(type, amount, due, source)
  PROVE  \E n \in Id, take \in [Id -> Nat] :
           DebitStep(n, take, type, amount, due, source)
<1>0. PICK n \in Id : n = NextId
  BY DEF PostDebit
<1> DEFINE take == Walk(amount, Unspent(source), PostedAhead)
<1>1. DebitRow(type, amount, due) \in EntryRow /\ amount \in Nat
  BY DEF DebitRow, EntryRow, EntryTypes, DebitTypes, Amount
<1>2. /\ ledger' = Append(ledger, DebitRow(type, amount, due))
      /\ open' = [i \in Id |-> IF i = n THEN amount - Total(take)
                               ELSE open[i] + take[i]]
      /\ app' = [p \in Id \X Id |-> IF p[2] = n THEN take[p[1]] ELSE app[p]]
      /\ cache' = CacheOf(ledger', open')
  BY <1>0 DEF PostDebit, RecomputeAccountCache, DebitRow
<1>3. Appends(n, DebitRow(type, amount, due))
  BY <1>0, <1>1, <1>2, AppendRow DEF IInv, Appends, NextId
<1>4. /\ Unspent(source) \in [Id -> Nat]
      /\ \A i \in Id : Unspent(source)[i] > 0 =>
           i \in Pool(source) /\ i \in Entries /\ Unspent(source)[i] = -open[i]
      /\ Candidates(Unspent(source)) \in SUBSET Id
  BY DEF IInv, TypeOK, Unspent, Pool, Deposits, NonDeposits, Entries, Candidates
<1>5. take \in [Id -> Nat] /\ \A i \in Id : take[i] <= Unspent(source)[i]
  BY <1>1, <1>4, WalkBounds
<1>6. Orders(PostedAhead, Candidates(Unspent(source)))
  BY <1>4, PostedIsOrder
<1>7. /\ Total(Unspent(source)) \in Nat
      /\ Total(take) = MinOf(amount, Total(Unspent(source)))
  BY <1>1, <1>4, <1>6, WalkTotal
<1> HIDE DEF take
<1>8. Total(take) \in Nat
  BY <1>1, <1>7 DEF MinOf
<1>9. \A i \in Id : take[i] > 0 => i \in Pool(source) /\ take[i] <= -open[i]
  BY <1>4, <1>5
<1>10. \A i \in Id : i \notin Entries => take[i] = 0
  BY <1>4, <1>5
<1>11. WITNESS n \in Id
<1> USE <1>5
<1>12. WITNESS take \in [Id -> Nat]
<1> QED BY <1>2, <1>3, <1>5, <1>7, <1>8, <1>9, <1>10 DEF take, DebitStep

\* A reversal settles entry e with entry n, and gives back what e applied.
ReversalRow(e) ==
  [type |-> "REVERSAL", amount |-> -ledger[e].amount,
   due |-> NoDate, reverses |-> e]

ReversalStep(n, e) ==
  /\ Appends(n, ReversalRow(e)) /\ ReversalRow(e) \in EntryRow
  /\ open' = [i \in Id |-> IF i \in {e, n} THEN 0
                           ELSE open[i] + app[<<e, i>>] - app[<<i, e>>]]
  /\ app' = [p \in Id \X Id |->
               IF p = (IF ledger[e].amount > 0 THEN <<n, e>> ELSE <<e, n>>)
               THEN Abs(ledger[e].amount)
               ELSE IF e \in {p[1], p[2]} THEN 0
               ELSE app[p]]
  /\ cache' = CacheOf(ledger', open')
  /\ ledger[e].type # "REVERSAL"
  /\ \A r \in Entries : ledger[r].reverses # e

\* A reversal negates its entry, gives back what the entry took of others, and
\* settles the two against each other.
LEMMA ReversalFacts ==
  ASSUME IInv, NEW e \in Entries, ReverseEntry(e)
  PROVE  \E n \in Id : ReversalStep(n, e)
<1>0. PICK n \in Id : n = NextId
  BY DEF ReverseEntry
<1>1. ReversalRow(e) \in EntryRow
  <2>1. ledger[e] \in EntryRow
    BY EntriesAreRows DEF IInv
  <2>2. -ledger[e].amount \in (-MaxAmount..MaxAmount) \ {0}
    <3>1. ledger[e].amount \in (-MaxAmount..MaxAmount) \ {0}
      BY <2>1 DEF EntryRow
    <3> QED BY <3>1
  <2>3. e \in Id
    BY DEF IInv, TypeOK, Entries, Id
  <2> QED BY <2>2, <2>3 DEF EntryRow, EntryTypes, ReversalRow
<1>2. ledger' = Append(ledger, ReversalRow(e))
  BY DEF ReverseEntry, ReversalRow
<1>3. Appends(n, ReversalRow(e))
  BY <1>0, <1>1, <1>2, AppendRow DEF IInv, Appends, NextId
<1> QED BY <1>0, <1>1, <1>3
        DEF ReverseEntry, RecomputeAccountCache, Reversed, ReversalStep

-----------------------------------------------------------------------------
(***************************************************************************)
(* The figures: the invariant that the open items, the applications and    *)
(* the cached columns keep together.                                       *)
(***************************************************************************)
\* Value flows from a credit to a debit, never the other way.
SidesHaveSigns ==
  \A c, d \in Id :
    app[<<c, d>>] > 0 => ledger[c].amount < 0 /\ ledger[d].amount > 0

\* The cached columns are what recomputeAccountCache would write now.
CacheIsTrue == cache = CacheOf(ledger, open)

Amounts == [i \in Id |-> IF i \in Entries THEN ledger[i].amount ELSE 0]

\* Allocation moves what is open between entries and creates none of it.
NetIsPosted == Total(open) = Total(Amounts)

FInv ==
  /\ IInv
  /\ SidesHaveSigns
  /\ OpenWithinAmount
  /\ CacheIsTrue
  /\ NetIsPosted

\* A sum follows the change of one term.
LEMMA TotalPoint ==
  ASSUME NEW f, NEW g, NEW k \in Id,
         \A i \in Id : f[i] \in Int /\ g[i] \in Int,
         \A i \in Id : i # k => g[i] = f[i]
  PROVE  Total(f) \in Int /\ Total(g) = Total(f) + (g[k] - f[k])
<1>1. \A i \in 1..MaxEntries : f[i] \in Int /\ g[i] \in Int
  BY DEF Id
<1>2. \A i \in 1..MaxEntries : i # k => g[i] = f[i]
  BY DEF Id
<1>3. k \in 1..MaxEntries
  BY DEF Id
<1>4. SumTo(g, MaxEntries) = SumTo(f, MaxEntries) + (g[k] - f[k])
  BY <1>1, <1>2, <1>3, SumToPoint
<1>5. SumTo(f, MaxEntries) \in Int
  BY <1>1, SumToInt
<1> QED BY <1>4, <1>5 DEF Total

\* Sums add term by term.
LEMMA TotalAdd ==
  ASSUME NEW f, NEW g, NEW h,
         \A i \in Id : f[i] \in Int /\ g[i] \in Int /\ h[i] = f[i] + g[i]
  PROVE  Total(f) \in Int /\ Total(g) \in Int /\ Total(h) = Total(f) + Total(g)
<1>1. \A i \in 1..MaxEntries : f[i] \in Int /\ g[i] \in Int /\ h[i] = f[i] + g[i]
  BY DEF Id
<1>2. SumTo(h, MaxEntries) = SumTo(f, MaxEntries) + SumTo(g, MaxEntries)
  BY <1>1, SumToAdd
<1>3. SumTo(f, MaxEntries) \in Int /\ SumTo(g, MaxEntries) \in Int
  BY <1>1, SumToInt
<1> QED BY <1>2, <1>3 DEF Total

\* Posting adds the amount of the row to the sum of what was posted.
LEMMA AmountsPosted ==
  ASSUME TypeOK, NEW n \in Id, NEW row \in EntryRow, Appends(n, row)
  PROVE  Total(Amounts) \in Int /\ Total(Amounts') = Total(Amounts) + row.amount
<1>1. row.amount \in Int
  BY DEF EntryRow
<1>2. \A i \in Entries : ledger[i].amount \in Int
  BY EntriesAreRows
<1>3. \A i \in Id : Amounts[i] \in Int /\ Amounts'[i] \in Int
  <2>1. \A i \in Id : Amounts[i] \in Int
    BY <1>2 DEF Amounts
  <2>2. \A i \in Id : Amounts'[i] = IF i \in Entries' THEN ledger'[i].amount ELSE 0
    BY DEF Amounts
  <2>3. \A i \in Entries' : ledger'[i].amount \in Int
    BY <1>1, <1>2 DEF Appends
  <2> QED BY <2>1, <2>2, <2>3
<1>4. \A i \in Id : i # n => Amounts'[i] = Amounts[i]
  BY DEF Amounts, Appends
<1>5. Amounts[n] = 0 /\ Amounts'[n] = row.amount
  BY DEF Amounts, Appends
<1>6. Total(Amounts) \in Int
      /\ Total(Amounts') = Total(Amounts) + (Amounts'[n] - Amounts[n])
  BY <1>3, <1>4, TotalPoint
<1> QED BY <1>1, <1>5, <1>6

\* An entry is a row; what is open on a debit is not negative, and what is open
\* on a credit is not positive.
LEMMA OpenSigns ==
  ASSUME FInv, NEW i \in Entries
  PROVE  /\ i \in Id /\ ledger[i] \in EntryRow /\ ledger[i].amount \in Int
         /\ ledger[i].amount # 0 /\ open[i] \in Int
         /\ ledger[i].amount > 0 <=> ~(ledger[i].amount < 0)
         /\ ledger[i].amount > 0 => 0 <= open[i] /\ open[i] <= ledger[i].amount
         /\ ledger[i].amount < 0 => ledger[i].amount <= open[i] /\ open[i] <= 0
         /\ ledger[i].type \in DebitTypes => ledger[i].amount > 0
         /\ ledger[i].type \in CreditTypes => ledger[i].amount < 0
<1>1. /\ TypeOK /\ SignOfType /\ OpenWithinAmount
      /\ Entries \subseteq Id /\ open \in [Id -> Int]
  BY DEF FInv, IInv, TypeOK, Entries, Id
<1>2. ledger[i] \in EntryRow /\ ledger[i].amount \in Int
  BY <1>1, EntriesAreRows
<1>3. ledger[i].amount # 0
  BY <1>2 DEF EntryRow
<1> QED BY <1>1, <1>2, <1>3 DEF OpenWithinAmount, SignOfType

\* Posting a credit keeps the figures.
LEMMA CreditKeepsFigures ==
  ASSUME FInv, NEW type \in CreditTypes, NEW amount \in Amount,
         NEW S \in SUBSET Entries, type = "DEPOSIT" => S = {},
         PostCredit(type, amount, S), billed' \subseteq Bill, UNCHANGED plan
  PROVE  FInv'
<1>0. PICK n \in Id, give \in [Id -> Nat] : CreditStep(n, give, type, amount, S)
  BY CreditFacts DEF FInv
<1>1. /\ Appends(n, CreditRow(type, amount))
      /\ give = Walk(amount, Owed(S), PaidAhead)
      /\ open' = [i \in Id |-> IF i = n THEN Total(give) - amount
                               ELSE open[i] - give[i]]
      /\ app' = [p \in Id \X Id |-> IF p[1] = n THEN give[p[2]] ELSE app[p]]
      /\ cache' = CacheOf(ledger', open')
      /\ \A i \in Id : give[i] > 0 => i \in S /\ give[i] <= open[i]
      /\ \A i \in Id : i \notin Entries => give[i] = 0
      /\ Total(give) \in Nat /\ Total(Owed(S)) \in Nat
      /\ Total(give) = MinOf(amount, Total(Owed(S)))
  BY <1>0 DEF CreditStep
<1>a. /\ amount \in Nat /\ amount > 0 /\ open \in [Id -> Int]
      /\ app \in [Id \X Id -> Nat] /\ TypeOK /\ NoStrays
      /\ CreditRow(type, amount) \in EntryRow
      /\ CreditRow(type, amount).amount = -amount
      /\ CreditRow(type, amount).type = type
  BY DEF Amount, FInv, IInv, TypeOK, CreditRow, EntryRow, EntryTypes, CreditTypes
<1>b. /\ Entries' = Entries \union {n} /\ n \notin Entries /\ Entries \subseteq Id
      /\ ledger'[n].amount = -amount /\ ledger'[n].type = type
      /\ \A i \in Entries : ledger'[i] = ledger[i]
  BY <1>1, <1>a DEF Appends
<1>c. Total(give) <= amount
  BY <1>1, <1>a DEF MinOf
<1>2. IInv'
  BY PostCreditKeeps DEF FInv
<1>3. SidesHaveSigns'
  <2>1. SUFFICES ASSUME NEW c \in Id, NEW d \in Id, app'[<<c, d>>] > 0
                 PROVE  ledger'[c].amount < 0 /\ ledger'[d].amount > 0
    BY DEF SidesHaveSigns
  <2>2. CASE c = n
    <3>1. give[d] > 0
      BY <1>1, <2>1, <2>2
    <3>2. d \in Entries /\ open[d] > 0
      <4>1. d \in S /\ give[d] <= open[d]
        BY <1>1, <3>1
      <4>2. give[d] \in Int /\ open[d] \in Int
        BY <1>1, <1>a
      <4> QED BY <3>1, <4>1, <4>2
    <3>3. ledger[d].amount > 0
      BY <3>2, OpenSigns
    <3> QED BY <1>a, <1>b, <2>2, <3>2, <3>3
  <2>3. CASE c # n
    <3>1. app[<<c, d>>] > 0
      BY <1>1, <2>1, <2>3
    <3>2. c \in Entries /\ d \in Entries
      BY <1>a, <3>1 DEF NoStrays
    <3> QED BY <1>b, <3>1, <3>2 DEF FInv, SidesHaveSigns
  <2> QED BY <2>2, <2>3
<1>4. OpenWithinAmount'
  <2>1. ASSUME NEW i \in Entries
        PROVE  \/ 0 <= open'[i] /\ open'[i] <= ledger'[i].amount
               \/ ledger'[i].amount <= open'[i] /\ open'[i] <= 0
    <3>1. i \in Id /\ open'[i] = open[i] - give[i] /\ give[i] \in Nat
      BY <1>1, <1>b
    <3>2. give[i] > 0 => give[i] <= open[i]
      BY <1>1, <3>1
    <3> QED BY <1>b, <3>1, <3>2, OpenSigns
  <2>2. ledger'[n].amount <= open'[n] /\ open'[n] <= 0
    BY <1>1, <1>a, <1>b, <1>c
  <2> QED BY <1>b, <2>1, <2>2 DEF OpenWithinAmount
<1>5. CacheIsTrue'
  BY <1>1 DEF CacheIsTrue
<1>6. NetIsPosted'
  <2> DEFINE rest == [i \in Id |-> open[i] - give[i]]
  <2>1. Total(open) = Total(rest) + Total(give) /\ Total(rest) \in Int
    <3>1. \A i \in Id : rest[i] \in Int /\ give[i] \in Int
                       /\ open[i] = rest[i] + give[i]
      BY <1>a
    <3> HIDE DEF rest
    <3> QED BY <3>1, TotalAdd
  <2>2. open'[n] = Total(give) - amount /\ rest[n] = 0
    BY <1>1, <1>a, <1>b DEF NoStrays
  <2>3. /\ \A i \in Id : rest[i] \in Int /\ open'[i] \in Int
        /\ \A i \in Id : i # n => open'[i] = rest[i]
    BY <1>1, <1>a
  <2> HIDE DEF rest
  <2>4. Total(open') = Total(rest) + (open'[n] - rest[n])
    BY <2>3, TotalPoint
  <2>5. Total(Amounts) \in Int /\ Total(Amounts') = Total(Amounts) + (-amount)
    BY <1>1, <1>a, AmountsPosted
  <2>6. Total(open) = Total(Amounts)
    BY DEF FInv, NetIsPosted
  <2>7. Total(open') = Total(Amounts')
    <3>1. Total(open') = Total(open) - amount
      BY <1>1, <1>a, <2>1, <2>2, <2>4
    <3> QED BY <1>a, <2>5, <2>6, <3>1
  <2> QED BY <2>7 DEF NetIsPosted
<1> QED BY <1>2, <1>3, <1>4, <1>5, <1>6 DEF FInv

\* Posting a debit keeps the figures.  A refund may only be what is said of it
\* when nothing of it is left open.
LEMMA DebitKeepsFigures ==
  ASSUME FInv, NEW type \in DebitTypes, NEW amount \in Amount,
         NEW due \in Day \union {NoDate}, NEW source,
         source = "DEPOSIT" => type = "REFUND",
         PostDebit(type, amount, due, source),
         type = "REFUND" => open'[NextId] = 0,
         billed' \subseteq Bill, UNCHANGED plan
  PROVE  FInv'
<1>0. PICK n \in Id, take \in [Id -> Nat] :
        DebitStep(n, take, type, amount, due, source)
  BY DebitFacts DEF FInv
<1>1. /\ Appends(n, DebitRow(type, amount, due))
      /\ take = Walk(amount, Unspent(source), PostedAhead)
      /\ open' = [i \in Id |-> IF i = n THEN amount - Total(take)
                               ELSE open[i] + take[i]]
      /\ app' = [p \in Id \X Id |-> IF p[2] = n THEN take[p[1]] ELSE app[p]]
      /\ cache' = CacheOf(ledger', open')
      /\ \A i \in Id : take[i] > 0 => i \in Pool(source) /\ take[i] <= -open[i]
      /\ \A i \in Id : i \notin Entries => take[i] = 0
      /\ Total(take) \in Nat /\ Total(Unspent(source)) \in Nat
      /\ Total(take) = MinOf(amount, Total(Unspent(source)))
  BY <1>0 DEF DebitStep
<1>a. /\ amount \in Nat /\ amount > 0 /\ open \in [Id -> Int]
      /\ app \in [Id \X Id -> Nat] /\ TypeOK /\ NoStrays
      /\ DebitRow(type, amount, due) \in EntryRow
      /\ DebitRow(type, amount, due).amount = amount
      /\ DebitRow(type, amount, due).type = type
  BY DEF Amount, FInv, IInv, TypeOK, DebitRow, EntryRow, EntryTypes, DebitTypes
<1>b. /\ Entries' = Entries \union {n} /\ n \notin Entries /\ Entries \subseteq Id
      /\ ledger'[n].amount = amount /\ ledger'[n].type = type /\ n = NextId
      /\ \A i \in Entries : ledger'[i] = ledger[i]
  BY <1>1, <1>a DEF Appends, NextId
<1>c. Total(take) <= amount
  BY <1>1, <1>a DEF MinOf
<1>2. IInv'
  BY PostDebitKeeps DEF FInv
<1>3. SidesHaveSigns'
  <2>1. SUFFICES ASSUME NEW c \in Id, NEW d \in Id, app'[<<c, d>>] > 0
                 PROVE  ledger'[c].amount < 0 /\ ledger'[d].amount > 0
    BY DEF SidesHaveSigns
  <2>2. CASE d = n
    <3>1. take[c] > 0
      BY <1>1, <2>1, <2>2
    <3>2. c \in Entries /\ open[c] < 0
      <4>1. c \in Pool(source) /\ take[c] <= -open[c]
        BY <1>1, <3>1
      <4>2. take[c] \in Int /\ open[c] \in Int
        BY <1>1, <1>a
      <4> QED BY <3>1, <4>1, <4>2 DEF Pool, Deposits, NonDeposits, Entries
    <3>3. ledger[c].amount < 0
      BY <3>2, OpenSigns
    <3> QED BY <1>a, <1>b, <2>2, <3>2, <3>3
  <2>3. CASE d # n
    <3>1. app[<<c, d>>] > 0
      BY <1>1, <2>1, <2>3
    <3>2. c \in Entries /\ d \in Entries
      BY <1>a, <3>1 DEF NoStrays
    <3> QED BY <1>b, <3>1, <3>2 DEF FInv, SidesHaveSigns
  <2> QED BY <2>2, <2>3
<1>d. ASSUME NEW i \in Entries
      PROVE  /\ i \in Id /\ open'[i] = open[i] + take[i] /\ take[i] \in Nat
             /\ take[i] > 0 => take[i] <= -open[i]
  BY <1>1, <1>b
<1>4. OpenWithinAmount'
  <2>1. ASSUME NEW i \in Entries
        PROVE  \/ 0 <= open'[i] /\ open'[i] <= ledger'[i].amount
               \/ ledger'[i].amount <= open'[i] /\ open'[i] <= 0
    BY <1>b, <1>d, OpenSigns
  <2>2. 0 <= open'[n] /\ open'[n] <= ledger'[n].amount
    BY <1>1, <1>a, <1>b, <1>c
  <2> QED BY <1>b, <2>1, <2>2 DEF OpenWithinAmount
<1>5. CacheIsTrue'
  BY <1>1 DEF CacheIsTrue
<1>6. NetIsPosted'
  <2> DEFINE rest == [i \in Id |-> open[i] + take[i]]
  <2>1. Total(rest) = Total(open) + Total(take) /\ Total(open) \in Int
    <3>1. \A i \in Id : open[i] \in Int /\ take[i] \in Int
                       /\ rest[i] = open[i] + take[i]
      BY <1>a
    <3> HIDE DEF rest
    <3> QED BY <3>1, TotalAdd
  <2>2. open'[n] = amount - Total(take) /\ rest[n] = 0
    BY <1>1, <1>a, <1>b DEF NoStrays
  <2>3. /\ \A i \in Id : rest[i] \in Int /\ open'[i] \in Int
        /\ \A i \in Id : i # n => open'[i] = rest[i]
    BY <1>1, <1>a
  <2> HIDE DEF rest
  <2>4. Total(open') = Total(rest) + (open'[n] - rest[n])
    BY <2>3, TotalPoint
  <2>5. Total(Amounts) \in Int /\ Total(Amounts') = Total(Amounts) + amount
    BY <1>1, <1>a, AmountsPosted
  <2>6. Total(open) = Total(Amounts)
    BY DEF FInv, NetIsPosted
  <2>7. Total(open') = Total(Amounts')
    <3>1. Total(open') = Total(open) + amount
      BY <1>1, <1>a, <2>1, <2>2, <2>4
    <3> QED BY <1>a, <2>5, <2>6, <3>1
  <2> QED BY <2>7 DEF NetIsPosted
<1> QED BY <1>2, <1>3, <1>4, <1>5, <1>6 DEF FInv

\* One term of a sum of natural numbers is at most the sum.
LEMMA TermAtMostTotal ==
  ASSUME NEW f, \A i \in Id : f[i] \in Nat, NEW k \in Id
  PROVE  f[k] <= Total(f) /\ Total(f) \in Nat
<1> DEFINE z == [i \in Id |-> 0]
           s == [i \in Id |-> IF i = k THEN f[k] ELSE 0]
<1>1. /\ \A i \in 1..MaxEntries : f[i] \in Int /\ z[i] \in Int /\ s[i] \in Int
                                  /\ z[i] <= f[i] /\ s[i] <= f[i]
      /\ \A i \in Id : z[i] = 0
      /\ s[k] = f[k] /\ f[k] \in Int
      /\ \A i \in Id : i # k => s[i] = 0
  BY DEF Id
<1> HIDE DEF z, s
<1>2. SumTo(z, MaxEntries) <= SumTo(f, MaxEntries)
      /\ SumTo(s, MaxEntries) <= SumTo(f, MaxEntries)
  BY <1>1, SumToLe
<1>3. Total(z) = 0
  BY <1>1, TotalZero
<1>4. Total(s) = f[k]
  BY <1>1, TotalSingle
<1>5. Total(f) \in Int
  BY <1>1, SumToInt DEF Total
<1> QED BY <1>2, <1>3, <1>4, <1>5 DEF Total

\* What a debit absorbed, or a credit gave, is at most what its open item says
\* is gone; the other of the two sums is 0.
LEMMA AppliedWithin ==
  ASSUME FInv, NEW i \in Entries, NEW k \in Id
  PROVE  /\ app[<<k, i>>] \in Nat /\ app[<<i, k>>] \in Nat
         /\ ledger[i].amount > 0 => /\ app[<<i, k>>] = 0
                                    /\ app[<<k, i>>] <= ledger[i].amount - open[i]
                                    /\ AsDebit(i) = ledger[i].amount - open[i]
         /\ ledger[i].amount < 0 => /\ app[<<k, i>>] = 0
                                    /\ app[<<i, k>>] <= open[i] - ledger[i].amount
                                    /\ AsCredit(i) = open[i] - ledger[i].amount
<1>1. /\ i \in Id /\ ledger[i].amount \in Int /\ open[i] \in Int
      /\ (ledger[i].amount > 0 <=> ~(ledger[i].amount < 0))
  BY OpenSigns
<1>2. \A c \in Id : app[<<c, i>>] \in Nat /\ app[<<i, c>>] \in Nat
  BY <1>1 DEF FInv, IInv, TypeOK
<1>3. /\ \A c \in Id : ledger[i].amount > 0 => ~(app[<<i, c>>] > 0)
      /\ \A c \in Id : ledger[i].amount < 0 => ~(app[<<c, i>>] > 0)
  BY <1>1 DEF FInv, SidesHaveSigns
<1>4. open[i] = ledger[i].amount - AsDebit(i) + AsCredit(i)
  BY DEF FInv, IInv, OpenItemBalance
<1> DEFINE col == [c \in Id |-> app[<<c, i>>]]
           row == [d \in Id |-> app[<<i, d>>]]
<1>5. \A c \in Id : col[c] \in Nat /\ row[c] \in Nat
  BY <1>2
<1>9. col[k] = app[<<k, i>>] /\ row[k] = app[<<i, k>>]
  OBVIOUS
<1>10. ASSUME ledger[i].amount > 0 PROVE \A c \in Id : row[c] = 0
  <2>1. ASSUME NEW c \in Id PROVE app[<<i, c>>] = 0
    <3>1. app[<<i, c>>] \in Nat /\ ~(app[<<i, c>>] > 0)
      BY <1>2, <1>3, <1>10
    <3> QED BY <3>1
  <2> QED BY <2>1
<1>11. ASSUME ledger[i].amount < 0 PROVE \A c \in Id : col[c] = 0
  <2>1. ASSUME NEW c \in Id PROVE app[<<c, i>>] = 0
    <3>1. app[<<c, i>>] \in Nat /\ ~(app[<<c, i>>] > 0)
      BY <1>2, <1>3, <1>11
    <3> QED BY <3>1
  <2> QED BY <2>1
<1>6. AsDebit(i) = Total(col) /\ AsCredit(i) = Total(row)
  BY DEF AsDebit, AsCredit
<1> HIDE DEF col, row
<1>7. /\ col[k] <= Total(col) /\ Total(col) \in Nat
      /\ row[k] <= Total(row) /\ Total(row) \in Nat
  BY <1>5, TermAtMostTotal
<1>8. ASSUME ledger[i].amount > 0 PROVE Total(row) = 0 /\ row[k] = 0
  BY <1>8, <1>10, TotalZero
<1>12. ASSUME ledger[i].amount < 0 PROVE Total(col) = 0 /\ col[k] = 0
  BY <1>11, <1>12, TotalZero
<1>13. app[<<k, i>>] \in Nat /\ app[<<i, k>>] \in Nat
  BY <1>2
<1> QED BY <1>1, <1>4, <1>6, <1>7, <1>8, <1>9, <1>12, <1>13

\* Undoing an entry keeps the figures: giving back never gives back too much,
\* and the net position loses exactly the amount of the entry.
LEMMA ReversalKeepsFigures ==
  ASSUME FInv, NEW e \in Entries, ReverseEntry(e)
  PROVE  FInv'
<1>0. PICK n \in Id : ReversalStep(n, e)
  BY ReversalFacts DEF FInv
<1>1. /\ Appends(n, ReversalRow(e)) /\ ReversalRow(e) \in EntryRow
      /\ open' = [i \in Id |-> IF i \in {e, n} THEN 0
                               ELSE open[i] + app[<<e, i>>] - app[<<i, e>>]]
      /\ app' = [p \in Id \X Id |->
                   IF p = (IF ledger[e].amount > 0 THEN <<n, e>> ELSE <<e, n>>)
                   THEN Abs(ledger[e].amount)
                   ELSE IF e \in {p[1], p[2]} THEN 0
                   ELSE app[p]]
      /\ cache' = CacheOf(ledger', open')
  BY <1>0 DEF ReversalStep
<1> DEFINE x == ledger[e].amount
<1>a. /\ x \in Int /\ x # 0 /\ open \in [Id -> Int]
      /\ app \in [Id \X Id -> Nat] /\ TypeOK /\ NoStrays
      /\ ReversalRow(e).amount = -x /\ ReversalRow(e).type = "REVERSAL"
      /\ ReversalRow(e).reverses = e
  BY OpenSigns DEF FInv, IInv, TypeOK, ReversalRow
<1>b. /\ Entries' = Entries \union {n} /\ n \notin Entries /\ Entries \subseteq Id
      /\ ledger'[n].amount = -x /\ ledger'[n].type = "REVERSAL"
      /\ ledger'[n].reverses = e
      /\ n \in Id /\ e \in Id /\ e # n
      /\ \A i \in Entries : ledger'[i] = ledger[i] /\ i < n
  <2>1. Len(ledger) \in Nat
    BY <1>a DEF TypeOK
  <2>2. /\ n = Len(ledger) + 1 /\ ledger'[n] = ReversalRow(e)
        /\ Entries' = Entries \union {n} /\ n \notin Entries /\ Entries \subseteq Id
        /\ \A i \in Entries : ledger'[i] = ledger[i]
    BY <1>1 DEF Appends
  <2>3. \A i \in Entries : i < n
    BY <2>1, <2>2 DEF Entries
  <2> QED BY <1>a, <2>2, <2>3
<1>c. ASSUME NEW i \in Entries, i # e
      PROVE  open'[i] = open[i] + app[<<e, i>>] - app[<<i, e>>]
  BY <1>1, <1>b, <1>c
<1>d. open'[e] = 0 /\ open'[n] = 0
  BY <1>1, <1>b
<1>e. ASSUME NEW i \in Entries
      PROVE  /\ app[<<e, i>>] \in Nat /\ app[<<i, e>>] \in Nat
             /\ ledger[i].amount > 0 =>
                  /\ app[<<i, e>>] = 0
                  /\ app[<<e, i>>] <= ledger[i].amount - open[i]
             /\ ledger[i].amount < 0 =>
                  /\ app[<<e, i>>] = 0
                  /\ app[<<i, e>>] <= open[i] - ledger[i].amount
  BY <1>b, AppliedWithin
<1> HIDE DEF x
<1>2. IInv'
  BY ReverseEntryKeeps DEF FInv
<1>3. SidesHaveSigns'
  <2>1. SUFFICES ASSUME NEW c \in Id, NEW d \in Id, app'[<<c, d>>] > 0
                 PROVE  ledger'[c].amount < 0 /\ ledger'[d].amount > 0
    BY DEF SidesHaveSigns
  <2>2. CASE <<c, d>> = (IF x > 0 THEN <<n, e>> ELSE <<e, n>>)
    <3>1. ASSUME x > 0 PROVE c = n /\ d = e
      BY <2>2, <3>1
    <3>2. ASSUME ~(x > 0) PROVE c = e /\ d = n
      BY <2>2, <3>2
    <3>3. ledger'[e].amount = x /\ ledger'[n].amount = -x
      BY <1>b DEF x
    <3> QED BY <1>a, <3>1, <3>2, <3>3
  <2>3. CASE <<c, d>> # (IF x > 0 THEN <<n, e>> ELSE <<e, n>>)
    <3>1. app[<<c, d>>] > 0
      <4>1. app'[<<c, d>>] = IF e \in {c, d} THEN 0 ELSE app[<<c, d>>]
        BY <1>1, <2>3 DEF x
      <4> QED BY <2>1, <4>1
    <3>2. c \in Entries /\ d \in Entries
      BY <1>a, <3>1 DEF NoStrays
    <3> QED BY <1>b, <3>1, <3>2 DEF FInv, SidesHaveSigns
  <2> QED BY <2>2, <2>3
<1>4. OpenWithinAmount'
  <2>1. ASSUME NEW i \in Entries, i # e
        PROVE  \/ 0 <= open'[i] /\ open'[i] <= ledger'[i].amount
               \/ ledger'[i].amount <= open'[i] /\ open'[i] <= 0
    <3>1. open'[i] = open[i] + app[<<e, i>>] - app[<<i, e>>]
      BY <1>c, <2>1
    <3>2. ledger'[i] = ledger[i]
      BY <1>b
    <3> QED BY <1>e, <3>1, <3>2, OpenSigns
  <2>2. ASSUME NEW i \in {e, n}
        PROVE  \/ 0 <= open'[i] /\ open'[i] <= ledger'[i].amount
               \/ ledger'[i].amount <= open'[i] /\ open'[i] <= 0
    <3>1. ledger'[e].amount = x /\ ledger'[n].amount = -x
      BY <1>b DEF x
    <3> QED BY <1>a, <1>d, <3>1
  <2> QED BY <1>b, <2>1, <2>2 DEF OpenWithinAmount
<1>5. CacheIsTrue'
  BY <1>1 DEF CacheIsTrue
<1>6. NetIsPosted'
  <2> DEFINE gave == [i \in Id |-> app[<<e, i>>]]
             took == [i \in Id |-> app[<<i, e>>]]
             some == [i \in Id |-> open[i] + gave[i]]
             rest == [i \in Id |-> some[i] - took[i]]
  <2>0. \A i \in Id : /\ open[i] \in Int /\ gave[i] \in Int /\ took[i] \in Int
                      /\ rest[i] \in Int /\ some[i] \in Int
                      /\ some[i] = open[i] + gave[i]
                      /\ some[i] = rest[i] + took[i]
    BY <1>a, <1>b
  <2>1. AsCredit(e) = Total(gave) /\ AsDebit(e) = Total(took)
    BY DEF AsCredit, AsDebit
  <2>2. rest[e] = open[e] /\ open'[e] = 0
    BY <1>a, <1>b, <1>d
  <2>3. /\ \A i \in Id : open'[i] \in Int
        /\ \A i \in Id : i # e => open'[i] = rest[i]
    <3>1. app[<<e, n>>] = 0 /\ app[<<n, e>>] = 0 /\ open[n] = 0
      BY <1>a, <1>b DEF NoStrays
    <3> QED BY <1>1, <1>a, <1>b, <3>1
  <2> HIDE DEF gave, took, some, rest
  <2>4. /\ Total(some) = Total(open) + Total(gave)
        /\ Total(open) \in Int /\ Total(gave) \in Int
    <3>1. \A i \in Id : open[i] \in Int /\ gave[i] \in Int
                       /\ some[i] = open[i] + gave[i]
      BY <2>0
    <3> QED BY <3>1, TotalAdd
  <2>5. /\ Total(some) = Total(rest) + Total(took)
        /\ Total(rest) \in Int /\ Total(took) \in Int
    <3>1. \A i \in Id : rest[i] \in Int /\ took[i] \in Int
                       /\ some[i] = rest[i] + took[i]
      BY <2>0
    <3> QED BY <3>1, TotalAdd
  <2>6. Total(open') = Total(rest) + (open'[e] - rest[e])
    BY <1>b, <2>0, <2>3, TotalPoint
  <2>7. open[e] = x - AsDebit(e) + AsCredit(e)
    BY DEF FInv, IInv, OpenItemBalance, x
  <2>8. Total(Amounts) \in Int /\ Total(Amounts') = Total(Amounts) + (-x)
    BY <1>1, <1>a, AmountsPosted
  <2>9. Total(open') = Total(open) - x
    BY <1>a, <2>1, <2>2, <2>4, <2>5, <2>6, <2>7
  <2>10. Total(open) = Total(Amounts)
    BY DEF FInv, NetIsPosted
  <2>11. Total(open') = Total(Amounts')
    BY <1>a, <2>8, <2>9, <2>10
  <2> QED BY <2>11 DEF NetIsPosted
<1> QED BY <1>2, <1>3, <1>4, <1>5, <1>6 DEF FInv

-----------------------------------------------------------------------------
(***************************************************************************)
(* The operations by what they post: a credit, a debit, a reversal, or     *)
(* nothing.                                                                *)
(***************************************************************************)
CreditPosted(type, amount, S) ==
  /\ PostCredit(type, amount, S)
  /\ type = "DEPOSIT" => S = {}
  /\ type = "PAYMENT" =>
       \E scope \in {"ORDINARY", "INSTALMENT"} : S = PaymentCandidates(scope)
  /\ type \in {"WRITE_OFF", "ADJUSTMENT_CREDIT"} => \A i, j \in S : i = j
  /\ billed' \subseteq Bill /\ UNCHANGED plan

DebitPosted(type, amount, due, source) ==
  /\ PostDebit(type, amount, due, source)
  /\ source = "DEPOSIT" => type = "REFUND"
  /\ type = "REFUND" => /\ amount <= AvailableToRefund(source)
                        /\ open'[NextId] = 0
  /\ billed' \subseteq Bill /\ UNCHANGED plan

NothingPosted ==
  /\ UNCHANGED <<ledger, open, app>>
  /\ cache' = cache \/ RecomputeAccountCache
  /\ billed' \subseteq Bill
  /\ plan' \in [debits : SUBSET Id, active : BOOLEAN]

\* A step posts a credit, posts a debit, undoes an entry, or posts nothing.
LEMMA StepCases ==
  ASSUME TypeOK, [Next]_vars
  PROVE  \/ \E type \in CreditTypes, amount \in Amount, S \in SUBSET Entries :
              CreditPosted(type, amount, S)
         \/ \E type \in DebitTypes, amount \in Amount, due \in Day \union {NoDate},
               source \in {"CREDIT", "DEPOSIT"} :
              DebitPosted(type, amount, due, source)
         \/ \E e \in Entries : ReverseEntry(e)
         \/ NothingPosted
<1>t. /\ billed \subseteq Bill /\ plan \in [debits : SUBSET Id, active : BOOLEAN]
      /\ Entries \subseteq Id
  BY DEF TypeOK, Entries, Id
<1>1. ASSUME NEW b \in Bill, NEW total \in -MaxAmount..MaxAmount, NEW due \in Day,
             PostBill(b, total, due)
      PROVE  \/ \E type \in CreditTypes, amount \in Amount, S \in SUBSET Entries :
                  CreditPosted(type, amount, S)
             \/ \E type \in DebitTypes, amount \in Amount,
                   d \in Day \union {NoDate}, source \in {"CREDIT", "DEPOSIT"} :
                  DebitPosted(type, amount, d, source)
             \/ NothingPosted
  <2>0. billed' \subseteq Bill /\ UNCHANGED plan
    BY <1>t, <1>1 DEF PostBill
  <2>1. CASE UNCHANGED <<ledger, open, app>> /\ RecomputeAccountCache
    BY <1>t, <2>0, <2>1 DEF NothingPosted
  <2>2. CASE total > 0 /\ PostDebit("BILL_CHARGE", total, due, "CREDIT")
    <3>1. total \in Amount /\ DebitPosted("BILL_CHARGE", total, due, "CREDIT")
      BY <2>0, <2>2 DEF Amount, DebitPosted
    <3> QED BY <3>1 DEF DebitTypes
  <2>3. CASE total < 0 /\ PostCredit("ADJUSTMENT_CREDIT", -total, {})
    <3>1. -total \in Amount /\ CreditPosted("ADJUSTMENT_CREDIT", -total, {})
      BY <2>0, <2>3 DEF Amount, CreditPosted
    <3> QED BY <3>1 DEF CreditTypes
  <2> QED BY <1>1, <2>1, <2>2, <2>3 DEF PostBill
<1>2. ASSUME NEW amount \in Amount, NEW due \in Day,
             AssessFee(amount, due) \/ AdjustDebit(amount, due)
      PROVE  \E type \in DebitTypes : DebitPosted(type, amount, due, "CREDIT")
  BY <1>t, <1>2 DEF AssessFee, AdjustDebit, DebitTypes, DebitPosted
<1>3. ASSUME NEW amount \in Amount, NEW scope \in {"ORDINARY", "INSTALMENT"},
             RecordPayment(amount, scope)
      PROVE  /\ PaymentCandidates(scope) \in SUBSET Entries
             /\ CreditPosted("PAYMENT", amount, PaymentCandidates(scope))
  BY <1>t, <1>3 DEF RecordPayment, CreditPosted, PaymentCandidates, OpenDebits
<1>4. ASSUME NEW amount \in Amount, RecordDeposit(amount)
      PROVE  CreditPosted("DEPOSIT", amount, {})
  BY <1>t, <1>4 DEF RecordDeposit, CreditPosted
<1>5. ASSUME NEW amount \in Amount, NEW target \in Entries,
             Waive(amount, target) \/ WriteOff(amount, target)
      PROVE  \E type \in CreditTypes : CreditPosted(type, amount, {target})
  BY <1>t, <1>5
     DEF Waive, WriteOff, PostCreditAgainstDebit, CreditTypes, CreditPosted
<1>6. ASSUME NEW amount \in Amount, NEW source \in {"CREDIT", "DEPOSIT"},
             RecordRefund(source, amount)
      PROVE  DebitPosted("REFUND", amount, NoDate, source)
  BY <1>t, <1>6 DEF RecordRefund, DebitPosted
<1>7. ASSUME (\E S \in SUBSET Entries : CreatePaymentPlan(S)) \/ EndPaymentPlan
             \/ UNCHANGED vars
      PROVE  NothingPosted
  <2>1. ASSUME NEW S \in SUBSET Entries, CreatePaymentPlan(S) PROVE NothingPosted
    BY <1>t, <2>1 DEF CreatePaymentPlan, NothingPosted
  <2>2. CASE EndPaymentPlan
    BY <1>t, <2>2 DEF EndPaymentPlan, NothingPosted
  <2>3. CASE UNCHANGED vars
    BY <1>t, <2>3 DEF vars, NothingPosted
  <2> QED BY <1>7, <2>1, <2>2, <2>3
<1>8. "PAYMENT" \in CreditTypes /\ "DEPOSIT" \in CreditTypes
      /\ "REFUND" \in DebitTypes
  BY DEF CreditTypes, DebitTypes
<1> QED BY ZenonT(30), <1>1, <1>2, <1>3, <1>4, <1>5, <1>6, <1>7, <1>8 DEF Next

\* An account starts with no entries.
LEMMA InitFInv == Init => FInv
<1> SUFFICES ASSUME Init PROVE FInv
  OBVIOUS
<1>1. /\ Entries = {} /\ ledger = <<>> /\ Len(ledger) = 0
      /\ open = [i \in Id |-> 0] /\ app = [p \in Id \X Id |-> 0]
  BY DEF Init, Entries
<1>2. IInv
  BY InitIInv
<1>3. SidesHaveSigns /\ OpenWithinAmount
  BY <1>1 DEF SidesHaveSigns, OpenWithinAmount
<1>4. NetIsPosted
  <2>1. Total(open) = 0
    BY <1>1, TotalZero
  <2>2. Total(Amounts) = 0
    <3>1. \A i \in Id : Amounts[i] = 0
      BY <1>1 DEF Amounts
    <3> QED BY <3>1, TotalZero
  <2> QED BY <2>1, <2>2 DEF NetIsPosted
<1>5. CacheIsTrue
  <2>1. ASSUME NEW S PROVE OpenSum(open, S) = 0
    BY <1>1, OpenSumEmpty
  <2>2. OpenDueDates(ledger, open) = {NoDate}
    BY <1>1 DEF OpenDueDates
  <2>3. (CHOOSE d \in {NoDate} : \A e \in {NoDate} : d <= e) = NoDate
    BY DEF NoDate
  <2>4. /\ CacheOf(ledger, open).balance = 0 /\ CacheOf(ledger, open).deposit = -0
        /\ CacheOf(ledger, open).lastDue = NoDate
    BY <2>1, <2>2, <2>3 DEF CacheOf
  <2>5. CacheOf(ledger, open) = [balance |-> CacheOf(ledger, open).balance,
                                 deposit |-> CacheOf(ledger, open).deposit,
                                 lastDue |-> CacheOf(ledger, open).lastDue]
    BY DEF CacheOf
  <2> QED BY <2>4, <2>5 DEF CacheIsTrue, Init
<1> QED BY <1>2, <1>3, <1>4, <1>5 DEF FInv

\* A step that posts nothing leaves the figures as they are.
LEMMA NothingKeepsFigures ==
  ASSUME FInv, NothingPosted
  PROVE  FInv'
<1>1. IInv'
  BY SameLedgerKeeps DEF FInv, NothingPosted
<1>2. SidesHaveSigns' /\ OpenWithinAmount'
  BY DEF FInv, NothingPosted, SidesHaveSigns, OpenWithinAmount, Entries
<1>3. cache' = cache /\ CacheIsTrue'
  BY DEF FInv, NothingPosted, CacheIsTrue, RecomputeAccountCache
<1>4. NetIsPosted'
  BY DEF FInv, NothingPosted, NetIsPosted, Amounts, Entries
<1> QED BY <1>1, <1>2, <1>3, <1>4 DEF FInv

\* Every step keeps the figures.
LEMMA NextFInv == FInv /\ [Next]_vars => FInv'
<1> SUFFICES ASSUME FInv, [Next]_vars PROVE FInv'
  OBVIOUS
<1>0. TypeOK
  BY DEF FInv, IInv
<1>1. ASSUME NEW type \in CreditTypes, NEW amount \in Amount,
             NEW S \in SUBSET Entries, CreditPosted(type, amount, S)
      PROVE  FInv'
  BY <1>1, CreditKeepsFigures DEF CreditPosted
<1>2. ASSUME NEW type \in DebitTypes, NEW amount \in Amount,
             NEW due \in Day \union {NoDate}, NEW source \in {"CREDIT", "DEPOSIT"},
             DebitPosted(type, amount, due, source)
      PROVE  FInv'
  BY <1>2, DebitKeepsFigures DEF DebitPosted
<1> QED BY <1>0, <1>1, <1>2, StepCases, ReversalKeepsFigures, NothingKeepsFigures

\* The open items, the applications and the cached columns agree in every
\* reachable state.
THEOREM FiguresInvariance == Spec => []FInv
BY InitFInv, NextFInv, PTL DEF Spec

\* The CHECKs on open_amount never reject an operation: no entry is ever
\* over-applied, and no reversal gives back more than was taken.
THEOREM WithinAmount == Spec => []OpenWithinAmount
<1>1. FInv => OpenWithinAmount
  BY DEF FInv
<1> QED BY <1>1, FiguresInvariance, PTL

\* The two cached columns split what is open between them.
LEMMA NetFromFigures == FInv => NetPosition
<1> SUFFICES ASSUME FInv PROVE NetPosition
  OBVIOUS
<1>1. open \in [Id -> Int] /\ NoStrays
  BY DEF FInv, IInv, TypeOK
<1> DEFINE owed == [i \in Id |-> IF i \in NonDeposits(ledger) THEN open[i] ELSE 0]
           kept == [i \in Id |-> IF i \in Deposits(ledger) THEN open[i] ELSE 0]
<1>2. \A i \in Id : owed[i] \in Int /\ kept[i] \in Int /\ open[i] = owed[i] + kept[i]
  BY <1>1 DEF NonDeposits, Deposits, NoStrays, Entries
<1>3. OpenSum(open, NonDeposits(ledger)) = Total(owed)
      /\ OpenSum(open, Deposits(ledger)) = Total(kept)
  BY DEF OpenSum
<1> HIDE DEF owed, kept
<1>4. /\ Total(owed) \in Int /\ Total(kept) \in Int
      /\ Total(open) = Total(owed) + Total(kept)
  BY <1>2, TotalAdd
<1>5. cache.balance = Total(owed) /\ cache.deposit = -Total(kept)
  BY <1>3 DEF FInv, CacheIsTrue, CacheOf
<1>6. Total(open) = Total(Amounts)
  BY DEF FInv, NetIsPosted
<1>7. cache.balance - cache.deposit = Total(Amounts)
  BY <1>4, <1>5, <1>6
<1> QED BY <1>7 DEF NetPosition, Amounts

\* What the account owes less what is held for it is the sum of what was
\* posted, whatever was allocated to what and undone.
THEOREM NetPositionHolds == Spec => []NetPosition
BY NetFromFigures, FiguresInvariance, PTL

-----------------------------------------------------------------------------
(***************************************************************************)
(* What a step may never do.                                               *)
(***************************************************************************)
\* What was posted last is the row that was appended.
LEMMA PostedIsRow ==
  ASSUME TypeOK, NEW n, NEW row, Appends(n, row), NEW type, Posts(type)
  PROVE  row.type = type
BY DEF Posts, Appends

\* Where nothing is posted, nothing was posted of any type.
LEMMA NothingIsPosted ==
  ASSUME TypeOK, NothingPosted, NEW type
  PROVE  ~Posts(type)
<1>1. Len(ledger) \in Nat
  BY DEF TypeOK
<1> QED BY <1>1 DEF Posts, NothingPosted

\* The rows of the three kinds of posting, and their types.
LEMMA RowTypes ==
  /\ \A type, amount : CreditRow(type, amount).type = type
  /\ \A type, amount, due : DebitRow(type, amount, due).type = type
  /\ \A e : ReversalRow(e).type = "REVERSAL"
BY DEF CreditRow, DebitRow, ReversalRow

\* A walk that did not give everything wanted filled every candidate.
LEMMA WalkFills ==
  ASSUME NEW want \in Nat, NEW room \in [Id -> Nat], NEW ahead,
         Total(Walk(want, room, ahead)) = MinOf(want, Total(room)),
         Total(room) \in Nat, Total(Walk(want, room, ahead)) < want
  PROVE  \A i \in Id : Walk(want, room, ahead)[i] = room[i]
<1> DEFINE give == Walk(want, room, ahead)
<1>1. give \in [Id -> Nat] /\ \A i \in Id : give[i] <= room[i]
  BY WalkBounds
<1> HIDE DEF give
<1>2. Total(give) = Total(room)
  BY DEF MinOf, give
<1>3. \A i \in 1..MaxEntries : give[i] \in Int /\ room[i] \in Int /\ give[i] <= room[i]
  BY <1>1 DEF Id
<1>4. \A i \in 1..MaxEntries : give[i] = room[i]
  BY <1>2, <1>3, SumToSame DEF Total
<1> QED BY <1>4 DEF Id, give

\* Nothing is given past a candidate that is ahead and not yet filled.
LEMMA WalkInOrder ==
  ASSUME NEW want \in Nat, NEW room \in [Id -> Nat], NEW ahead,
         Orders(ahead, Candidates(room)), NEW i \in Candidates(room),
         NEW k \in Candidates(room), i \in ahead[k],
         Walk(want, room, ahead)[k] > 0
  PROVE  Walk(want, room, ahead)[i] = room[i]
<1>1. OpenSum(room, ahead[i]) + room[i] <= OpenSum(room, ahead[k])
  BY AheadIsLess
<1>2. /\ i \in Id /\ k \in Id /\ room[i] \in Nat /\ room[k] \in Nat
      /\ room[i] > 0 /\ room[k] > 0
  BY DEF Candidates
<1>3. /\ OpenSum(room, ahead[i]) \in Int
      /\ Walk(want, room, ahead)[i] =
           MinOf(room[i], MaxOf(0, want - OpenSum(room, ahead[i])))
  BY <1>2, WalkTerm
<1>4. /\ OpenSum(room, ahead[k]) \in Int
      /\ Walk(want, room, ahead)[k] =
           MinOf(room[k], MaxOf(0, want - OpenSum(room, ahead[k])))
  BY <1>2, WalkTerm
<1> QED BY <1>1, <1>2, <1>3, <1>4 DEF MinOf, MaxOf

\* A refund is paid out of credit in full, and is short of something later only
\* by the reversal of a credit it consumed, and of exactly what it consumed.
THEOREM RefundsBacked == Spec => RefundStaysBacked
<1>1. FInv /\ [Next]_vars => [RefundStep]_vars
  <2> SUFFICES ASSUME FInv, [Next]_vars, NEW d \in 1..Len(ledger'),
                      ledger'[d].type = "REFUND"
               PROVE  \/ d \notin Entries /\ open'[d] = 0
                      \/ d \in Entries /\ open'[d] <= open[d]
                      \/ /\ d \in Entries /\ Posts("REVERSAL")
                         /\ \E c \in Entries :
                              /\ ledger'[Len(ledger')].reverses = c
                              /\ open'[d] - open[d] = app[<<c, d>>]
    BY DEF RefundStep
  <2> DEFINE Goal == \/ d \notin Entries /\ open'[d] = 0
                     \/ d \in Entries /\ open'[d] <= open[d]
                     \/ /\ d \in Entries /\ Posts("REVERSAL")
                        /\ \E c \in Entries :
                             /\ ledger'[Len(ledger')].reverses = c
                             /\ open'[d] - open[d] = app[<<c, d>>]
  <2>0. TypeOK /\ IInv /\ open \in [Id -> Int] /\ Entries \subseteq Id
        /\ d \in Entries'
    BY DEF FInv, IInv, TypeOK, Entries, Id
  <2>1. ASSUME NEW t \in CreditTypes, NEW amount \in Amount,
               NEW S \in SUBSET Entries, CreditPosted(t, amount, S)
        PROVE  Goal
    <3>1. PICK n \in Id, give \in [Id -> Nat] : CreditStep(n, give, t, amount, S)
      BY <2>0, <2>1, CreditFacts DEF CreditPosted
    <3>2. d \in Entries
      BY <2>0, <3>1, RowTypes DEF CreditStep, Appends, CreditTypes
    <3>3. open'[d] = open[d] - give[d] /\ give[d] \in Nat /\ open[d] \in Int
      BY <2>0, <3>1, <3>2 DEF CreditStep, Appends
    <3> QED BY <3>2, <3>3
  <2>2. ASSUME NEW t \in DebitTypes, NEW amount \in Amount,
               NEW due \in Day \union {NoDate}, NEW source \in {"CREDIT", "DEPOSIT"},
               DebitPosted(t, amount, due, source)
        PROVE  Goal
    <3>1. PICK n \in Id, take \in [Id -> Nat] :
            DebitStep(n, take, t, amount, due, source)
      BY <2>0, <2>2, DebitFacts DEF DebitPosted
    <3>2. CASE d \in Entries
      <4>1. /\ open'[d] = open[d] + take[d] /\ take[d] \in Nat /\ open[d] \in Int
            /\ take[d] > 0 => take[d] <= -open[d]
        BY <2>0, <3>1, <3>2 DEF DebitStep, Appends
      <4>2. ledger[d].type = "REFUND"
        BY <3>1, <3>2 DEF DebitStep, Appends
      <4>3. open[d] >= 0
        BY <3>2, <4>2, OpenSigns DEF DebitTypes
      <4> QED BY <3>2, <4>1, <4>3
    <3>3. CASE d \notin Entries
      <4>1. d = n /\ n = NextId
        BY <2>0, <3>1, <3>3 DEF DebitStep, Appends, NextId
      <4>2. t = "REFUND"
        BY <3>1, <4>1, RowTypes DEF DebitStep, Appends
      <4> QED BY <2>2, <3>3, <4>1, <4>2 DEF DebitPosted
    <3> QED BY <3>2, <3>3
  <2>3. ASSUME NEW e \in Entries, ReverseEntry(e) PROVE Goal
    <3>1. PICK n \in Id : ReversalStep(n, e)
      BY <2>0, <2>3, ReversalFacts
    <3>2. /\ d \in Entries /\ d # n /\ ledger[d].type = "REFUND"
          /\ Posts("REVERSAL") /\ ledger'[Len(ledger')].reverses = e
      <4>1. /\ Len(ledger') = n /\ ledger'[n] = ReversalRow(e)
            /\ n = Len(ledger) + 1
            /\ Entries' = Entries \union {n} /\ n \notin Entries
            /\ \A i \in Entries : ledger'[i] = ledger[i]
        BY <3>1 DEF ReversalStep, Appends
      <4>2. ReversalRow(e).reverses = e /\ ReversalRow(e).type = "REVERSAL"
        BY DEF ReversalRow
      <4>3. Len(ledger) \in Nat
        BY <2>0 DEF TypeOK
      <4>4. Posts("REVERSAL") /\ ledger'[Len(ledger')].reverses = e
        BY <4>1, <4>2, <4>3 DEF Posts
      <4> QED BY <2>0, <4>1, <4>2, <4>4
    <3>3. open[d] >= 0 /\ open[d] \in Int /\ ledger[d].amount > 0
          /\ ledger[d].amount \in Int /\ d \in Id /\ e \in Id
      BY <2>0, <3>2, OpenSigns DEF DebitTypes
    <3>4. CASE d = e
      BY <3>1, <3>2, <3>3, <3>4 DEF ReversalStep
    <3>5. CASE d # e
      <4>1. open'[d] = open[d] + app[<<e, d>>] - app[<<d, e>>]
        BY <3>1, <3>2, <3>3, <3>5 DEF ReversalStep
      <4>2. app[<<e, d>>] \in Nat /\ app[<<d, e>>] \in Nat
        BY <3>3 DEF FInv, IInv, TypeOK
      <4>3. ~(app[<<d, e>>] > 0)
        BY <3>3 DEF FInv, SidesHaveSigns
      <4>4. open'[d] - open[d] = app[<<e, d>>]
        BY <3>3, <4>1, <4>2, <4>3
      <4> QED BY <3>2, <4>4
    <3> QED BY <3>4, <3>5
  <2>4. CASE NothingPosted
    <3>1. d \in Entries /\ open'[d] = open[d] /\ open[d] \in Int
      BY <2>0, <2>4 DEF NothingPosted, Entries
    <3> QED BY <3>1
  <2> QED BY <2>0, <2>1, <2>2, <2>3, <2>4, StepCases
<1> QED BY <1>1, FiguresInvariance, PTL DEF Spec, RefundStaysBacked

\* A concession takes of the charge it was granted for what its credit does not
\* keep, and moves no other entry.
THEOREM ConcessionsKept == Spec => ConcessionsDoNotSpill
<1>1. FInv => [ConcessionStep]_vars
  <2> SUFFICES ASSUME FInv, NEW amount \in Amount, NEW target \in Entries,
                      Waive(amount, target) \/ WriteOff(amount, target)
               PROVE  /\ \A i \in Entries \ {target} : open'[i] = open[i]
                      /\ open[target] - open'[target] =
                           amount + open'[Len(ledger')]
    BY DEF ConcessionStep
  <2>0. IInv /\ open \in [Id -> Int] /\ amount \in Int
    BY DEF FInv, IInv, TypeOK, Amount
  <2>1. PICK type \in CreditTypes : PostCredit(type, amount, {target})
    BY DEF Waive, WriteOff, PostCreditAgainstDebit, CreditTypes
  <2>2. PICK n \in Id, give \in [Id -> Nat] :
          CreditStep(n, give, type, amount, {target})
    BY <2>0, <2>1, CreditFacts
  <2>3. /\ Len(ledger') = n /\ open'[n] = Total(give) - amount
        /\ \A i \in Entries : /\ i \in Id /\ open[i] \in Int /\ give[i] \in Nat
                              /\ open'[i] = open[i] - give[i]
        /\ \A i \in Id : i # target => give[i] = 0
    <3>1. /\ Len(ledger') = n /\ n \notin Entries /\ Entries \subseteq Id
          /\ open' = [i \in Id |-> IF i = n THEN Total(give) - amount
                                   ELSE open[i] - give[i]]
          /\ \A i \in Id : give[i] > 0 => i \in {target}
      BY <2>2 DEF CreditStep, Appends
    <3>2. \A i \in Id : i # target => give[i] = 0
      <4>1. \A i \in Id : give[i] \in Nat
        OBVIOUS
      <4> QED BY <3>1, <4>1
    <3> QED BY <2>0, <3>1, <3>2
  <2>4. Total(give) = give[target]
    BY <2>3, TotalSingle
  <2> QED BY <2>0, <2>3, <2>4
<1> QED BY <1>1, FiguresInvariance, PTL DEF Spec, ConcessionsDoNotSpill

\* A new charge is not left owing beside spendable credit, and absorbs the
\* oldest credit first.
THEOREM ChargesKept == Spec => ChargesAbsorbCredit
<1>1. FInv /\ [Next]_vars => [ChargeStep]_vars
  <2> SUFFICES ASSUME FInv, [Next]_vars,
                      NEW type \in {"BILL_CHARGE", "FEE", "ADJUSTMENT_DEBIT"},
                      Posts(type), NEW c \in NonDeposits(ledger), open[c] < 0
               PROVE  /\ open'[Len(ledger')] > 0 => open'[c] = 0
                      /\ open'[c] # open[c] =>
                           \A b \in NonDeposits(ledger) : b < c => open'[b] >= 0
    BY DEF ChargeStep
  <2>0. TypeOK /\ IInv /\ open \in [Id -> Int] /\ NonDeposits(ledger) \subseteq Entries
    BY DEF FInv, IInv, TypeOK, NonDeposits, Entries
  <2>1. ASSUME NEW t \in DebitTypes, NEW amount \in Amount,
               NEW due \in Day \union {NoDate}, NEW source \in {"CREDIT", "DEPOSIT"},
               DebitPosted(t, amount, due, source)
        PROVE  /\ open'[Len(ledger')] > 0 => open'[c] = 0
               /\ open'[c] # open[c] =>
                    \A b \in NonDeposits(ledger) : b < c => open'[b] >= 0
    <3>1. PICK n \in Id, take \in [Id -> Nat] :
            DebitStep(n, take, t, amount, due, source)
      BY <2>0, <2>1, DebitFacts DEF DebitPosted
    <3>2. t = type
      BY <2>0, <3>1, PostedIsRow, RowTypes DEF DebitStep
    <3>3. source = "CREDIT"
      BY <2>1, <3>2 DEF DebitPosted
    <3> DEFINE room == Unspent("CREDIT")
    <3>4. /\ room \in [Id -> Nat]
          /\ \A i \in NonDeposits(ledger) : /\ open[i] < 0 => room[i] = -open[i]
                                            /\ ~(open[i] < 0) => room[i] = 0
          /\ Candidates(room) \in SUBSET Id
      BY <2>0 DEF Unspent, Pool, Candidates, Entries, IInv, TypeOK, Id
    <3>5. /\ take = Walk(amount, room, PostedAhead) /\ amount \in Nat
          /\ Total(room) \in Nat /\ Total(take) \in Nat
          /\ Total(take) = MinOf(amount, Total(room))
      BY <3>1, <3>3 DEF DebitStep, Amount
    <3>6. /\ Len(ledger') = n /\ open'[n] = amount - Total(take)
          /\ \A i \in Entries : /\ i \in Id /\ open[i] \in Int /\ take[i] \in Nat
                                /\ open'[i] = open[i] + take[i]
      BY <2>0, <3>1 DEF DebitStep, Appends
    <3> HIDE DEF room
    <3>7. ASSUME open'[Len(ledger')] > 0 PROVE open'[c] = 0
      <4>1. Total(take) < amount
        BY <3>5, <3>6, <3>7
      <4>2. take[c] = room[c]
        BY SMTT(30), <2>0, <3>4, <3>5, <3>6, <4>1, WalkFills
      <4> QED BY <2>0, <3>4, <3>6, <4>2
    <3>8. ASSUME open'[c] # open[c], NEW b \in NonDeposits(ledger), b < c
          PROVE  open'[b] >= 0
      <4>1. take[c] > 0
        BY <2>0, <3>6, <3>8
      <4>2. CASE open[b] < 0
        <5>1. b \in Candidates(room) /\ c \in Candidates(room) /\ b \in PostedAhead[c]
          <6>1. /\ b \in Id /\ c \in Id /\ open[b] \in Int /\ open[c] \in Int
                /\ room[b] = -open[b] /\ room[c] = -open[c]
            BY <2>0, <3>4, <3>6, <4>2
          <6>2. PostedAhead[c] = 1..(c - 1) /\ b \in Nat /\ b > 0 /\ c \in Nat
            BY <6>1 DEF PostedAhead, Id
          <6> QED BY SMTT(30), <3>8, <4>2, <6>1, <6>2 DEF Candidates
        <5>2. Orders(PostedAhead, Candidates(room))
          BY <3>4, PostedIsOrder
        <5>3. take[b] = room[b]
          BY <3>4, <3>5, <4>1, <5>1, <5>2, WalkInOrder
        <5> QED BY <2>0, <3>4, <3>6, <4>2, <5>3
      <4>3. CASE ~(open[b] < 0)
        BY <2>0, <3>6, <4>3
      <4> QED BY <4>2, <4>3
    <3> QED BY <3>7, <3>8
  <2>2. ASSUME NEW t \in CreditTypes, NEW amount \in Amount,
               NEW S \in SUBSET Entries, CreditPosted(t, amount, S)
        PROVE  FALSE
    <3>1. PICK n \in Id, give \in [Id -> Nat] : CreditStep(n, give, t, amount, S)
      BY <2>0, <2>2, CreditFacts DEF CreditPosted
    <3>2. t = type
      BY <2>0, <3>1, PostedIsRow, RowTypes DEF CreditStep
    <3> QED BY <3>2 DEF CreditTypes
  <2>3. ASSUME NEW e \in Entries, ReverseEntry(e) PROVE FALSE
    <3>1. PICK n \in Id : ReversalStep(n, e)
      BY <2>0, <2>3, ReversalFacts
    <3> QED BY <2>0, <3>1, PostedIsRow, RowTypes DEF ReversalStep
  <2> QED BY <2>0, <2>1, <2>2, <2>3, StepCases, NothingIsPosted
<1> QED BY <1>1, FiguresInvariance, PTL DEF Spec, ChargesAbsorbCredit

\* A payment given S to pay pays S in the order of section 6.3.
LEMMA PaymentPaysInOrder ==
  ASSUME FInv, NEW amount \in Amount, NEW S \in SUBSET OpenDebits,
         PostCredit("PAYMENT", amount, S)
  PROVE  PaysInOrder(S)
<1>0. /\ TypeOK /\ IInv /\ open \in [Id -> Int] /\ plan.active \in BOOLEAN
      /\ Entries \subseteq Id /\ OpenDebits \subseteq Entries
  BY DEF FInv, IInv, TypeOK, Entries, Id, OpenDebits
<1>1. PICK n \in Id, give \in [Id -> Nat] : CreditStep(n, give, "PAYMENT", amount, S)
  BY <1>0, CreditFacts DEF CreditTypes
<1> DEFINE paid(d) == app'[<<Len(ledger'), d>>] > 0
           room == Owed(S)
<1>2. /\ room \in [Id -> Nat]
      /\ \A i \in S : room[i] = open[i]
      /\ Candidates(room) \in SUBSET OpenDebits
  BY <1>0 DEF OpenDebits, Owed, Candidates
<1>3. /\ give = Walk(amount, room, PaidAhead) /\ amount \in Nat
      /\ Total(room) \in Nat /\ Total(give) \in Nat
      /\ Total(give) = MinOf(amount, Total(room))
      /\ \A i \in Id : give[i] > 0 => i \in S
  BY <1>1 DEF CreditStep, Amount
<1>4. /\ Len(ledger') = n /\ open'[n] = Total(give) - amount
      /\ \A i \in Entries : /\ i \in Id /\ open[i] \in Int /\ give[i] \in Nat
                            /\ open'[i] = open[i] - give[i]
                            /\ app'[<<n, i>>] = give[i]
  BY <1>0, <1>1 DEF CreditStep, Appends
<1> HIDE DEF room
<1>5. ASSUME NEW d \in Entries, paid(d) PROVE d \in S
  BY <1>3, <1>4, <1>5
<1>6. ASSUME NEW d \in S, NEW e \in S, paid(e), OwedFirst(d, e)
      PROVE  open'[d] = 0
  <2>1. PaidBefore(d, e)
    BY <1>0, <1>6 DEF OwedFirst, PaidBefore, Covered
  <2>2. give[e] > 0 /\ d \in OpenDebits /\ e \in OpenDebits
    BY <1>0, <1>4, <1>6
  <2>3. /\ d \in Candidates(room) /\ e \in Candidates(room)
        /\ d \in PaidAhead[e]
    <3>1. /\ room[d] = open[d] /\ room[e] = open[e]
          /\ open[d] > 0 /\ open[e] > 0 /\ d \in Id /\ e \in Id
      BY <1>0, <1>2, <2>2 DEF OpenDebits
    <3> QED BY <2>1, <2>2, <3>1 DEF Candidates, PaidAhead
  <2>4. Orders(PaidAhead, Candidates(room))
    BY <1>0, <1>2, PaidIsOrder
  <2>5. give[d] = room[d]
    BY <1>2, <1>3, <2>2, <2>3, <2>4, WalkInOrder
  <2>6. open'[d] = open[d] - give[d] /\ room[d] = open[d] /\ open[d] \in Int
    BY <1>0, <1>2, <1>4, <2>2
  <2> QED BY <2>5, <2>6
<1>7. ASSUME open'[Len(ledger')] < 0, NEW d \in S PROVE open'[d] = 0
  <2>1. Total(give) < amount
    BY <1>3, <1>4, <1>7
  <2>2. d \in Entries /\ d \in Id /\ room[d] = open[d]
    BY <1>0, <1>2
  <2>3. give[d] = room[d]
    BY <1>2, <1>3, <2>1, <2>2, WalkFills
  <2>4. open[d] \in Int /\ open'[d] = open[d] - give[d]
    BY <1>4, <2>2
  <2> QED BY <2>2, <2>3, <2>4
<1> QED BY <1>5, <1>6, <1>7 DEF PaysInOrder

\* An ordinary payment pays whatever is owed in DEBIT_ALLOCATION_ORDER, the
\* debits an active plan covers last, and keeps money over only when nothing is
\* owed; an instalment does so within its plan.
THEOREM PaymentsKept == Spec => PaymentOrder
<1>1. FInv => [PaymentStep]_vars
  <2> SUFFICES ASSUME FInv, NEW amount \in Amount
               PROVE  /\ RecordPayment(amount, "ORDINARY") => PaysInOrder(OpenDebits)
                      /\ RecordPayment(amount, "INSTALMENT") =>
                           PaysInOrder(OpenDebits \intersect plan.debits)
    BY DEF PaymentStep
  <2>1. ASSUME RecordPayment(amount, "ORDINARY") PROVE PaysInOrder(OpenDebits)
    <3>1. PostCredit("PAYMENT", amount, OpenDebits)
      BY <2>1 DEF RecordPayment, PaymentCandidates
    <3> QED BY <3>1, PaymentPaysInOrder
  <2>2. ASSUME RecordPayment(amount, "INSTALMENT")
        PROVE  PaysInOrder(OpenDebits \intersect plan.debits)
    <3>1. PostCredit("PAYMENT", amount, OpenDebits \intersect plan.debits)
      BY <2>2 DEF RecordPayment, PaymentCandidates
    <3>2. OpenDebits \intersect plan.debits \in SUBSET OpenDebits
      OBVIOUS
    <3> QED BY <3>1, <3>2, PaymentPaysInOrder
  <2> QED BY <2>1, <2>2
<1> QED BY <1>1, FiguresInvariance, PTL DEF Spec, PaymentOrder

-----------------------------------------------------------------------------
(***************************************************************************)
(* The ledger implements AccountPosition.                                  *)
(***************************************************************************)
MoveOf(row) ==
  [kind |-> KindOf(row.type), amount |-> row.amount, undoes |-> row.reverses]

\* The refinement mapping of the postings.
Moves == [i \in Entries |-> [kind   |-> KindOf(ledger[i].type),
                             amount |-> ledger[i].amount,
                             undoes |-> ledger[i].reverses]]

\* Appending a row appends its posting.
LEMMA MovesPosted ==
  ASSUME TypeOK, NEW n \in Id, NEW row, Appends(n, row)
  PROVE  /\ Moves' = Append(Moves, MoveOf(row))
         /\ Len(Moves) = Len(ledger)
<1>1. Len(ledger) \in Nat /\ n = Len(ledger) + 1 /\ Len(ledger') = n
  BY DEF TypeOK, Appends
<1> DEFINE R == {Moves[i] : i \in Entries} \union {MoveOf(row)}
<1>2. Moves \in [1..Len(ledger) -> R]
  BY DEF Moves, Entries
<1>3. Moves' = [i \in 1..n |-> MoveOf(ledger'[i])]
  BY <1>1 DEF Moves, MoveOf, Entries
<1>4. \A i \in 1..n : Moves'[i] \in R
  <2>1. \A i \in Entries : Moves[i] = MoveOf(ledger[i]) /\ ledger'[i] = ledger[i]
    BY DEF Moves, MoveOf, Appends
  <2>2. \A i \in 1..n : i \in Entries \/ i = n
    BY <1>1 DEF Entries
  <2>3. ledger'[n] = row
    BY DEF Appends
  <2> QED BY <1>3, <2>1, <2>2, <2>3
<1>5. Moves' \in [1..n -> R]
  BY <1>3, <1>4
<1> HIDE DEF R
<1>6. Moves \in Seq(R) /\ Len(Moves) = Len(ledger)
  BY <1>1, <1>2
<1>7. Moves' \in Seq(R) /\ Len(Moves') = n
  BY <1>1, <1>5
<1>8. MoveOf(row) \in R
  BY DEF R
<1>9. /\ Append(Moves, MoveOf(row)) \in Seq(R)
      /\ Len(Append(Moves, MoveOf(row))) = n
      /\ \A i \in 1..Len(ledger) : Append(Moves, MoveOf(row))[i] = Moves[i]
      /\ Append(Moves, MoveOf(row))[n] = MoveOf(row)
  BY <1>1, <1>6, <1>8, AppendProperties
<1>10. \A i \in 1..n : Moves'[i] = Append(Moves, MoveOf(row))[i]
  <2>1. \A i \in 1..Len(ledger) : Moves[i] = MoveOf(ledger[i]) /\ ledger'[i] = ledger[i]
    BY DEF Moves, MoveOf, Appends, Entries
  <2>2. \A i \in 1..n : i \in 1..Len(ledger) \/ i = n
    BY <1>1
  <2>3. ledger'[n] = row
    BY DEF Appends
  <2> QED BY <1>3, <1>9, <2>1, <2>2, <2>3
<1>11. Moves' = Append(Moves, MoveOf(row))
  BY <1>7, <1>9, <1>10, SeqEqual
<1> QED BY <1>6, <1>11

\* The two figures: what is held is never negative, and what is owed less what
\* is held is the sum of what was posted.
TwoFigures ==
  /\ cache.deposit = -OpenSum(open, Deposits(ledger))
  /\ OpenSum(open, Deposits(ledger)) \in Int
  /\ cache.balance \in Int /\ cache.deposit \in Int /\ cache.deposit >= 0
  /\ cache.balance - cache.deposit = Total(Amounts)

\* The two figures are what the invariant of the open items makes them.
LEMMA FiguresFollow == FInv => TwoFigures
<1> SUFFICES ASSUME FInv PROVE TwoFigures
  OBVIOUS
<1>1. open \in [Id -> Int] /\ cache.balance \in Int /\ cache.deposit \in Int
  BY DEF FInv, IInv, TypeOK
<1>2. cache.deposit = -OpenSum(open, Deposits(ledger))
  BY DEF FInv, CacheIsTrue, CacheOf
<1>3. OpenSum(open, Deposits(ledger)) \in Int
  BY <1>1, OpenSumInt
<1>4. OpenSum(open, Deposits(ledger)) <= 0
  <2> DEFINE none == [i \in Id |-> 0]
  <2>1. \A i \in Deposits(ledger) : open[i] <= 0
    BY OpenSigns DEF Deposits, Entries, CreditTypes
  <2>2. OpenSum(open, Deposits(ledger)) <= OpenSum(none, Deposits(ledger))
    BY <1>1, <2>1, OpenSumLe
  <2>3. OpenSum(none, Deposits(ledger)) = 0
    BY OpenSumEmpty
  <2> QED BY <2>2, <2>3
<1>5. cache.balance - cache.deposit = Total(Amounts)
  BY NetFromFigures DEF NetPosition, Amounts
<1> QED BY <1>1, <1>2, <1>3, <1>4, <1>5 DEF TwoFigures

\* And so they are after a step.
LEMMA FiguresFollowNext == FInv' => TwoFigures'
BY FiguresFollow, PTL

\* A row that moves what is held by h moves what is owed by the rest of it.
LEMMA HeldMoves ==
  ASSUME FInv, FInv', NEW n \in Id, NEW row \in EntryRow, Appends(n, row),
         NEW h \in Int,
         OpenSum(open', Deposits(ledger')) = OpenSum(open, Deposits(ledger)) - h
  PROVE  /\ cache.balance \in Int /\ cache.deposit \in Int
         /\ cache'.deposit = cache.deposit + h /\ cache.deposit + h >= 0
         /\ cache'.balance = cache.balance + row.amount + h
<1>1. TwoFigures /\ TwoFigures'
  BY FiguresFollow, FiguresFollowNext
<1>2. row.amount \in Int /\ Total(Amounts) \in Int
      /\ Total(Amounts') = Total(Amounts) + row.amount
  BY AmountsPosted DEF FInv, IInv, EntryRow
<1>3. /\ cache'.deposit = -OpenSum(open', Deposits(ledger'))
      /\ cache'.balance \in Int /\ cache'.deposit \in Int /\ cache'.deposit >= 0
      /\ cache'.balance - cache'.deposit = Total(Amounts')
  BY <1>1 DEF TwoFigures
<1>4. /\ cache.deposit = -OpenSum(open, Deposits(ledger))
      /\ OpenSum(open, Deposits(ledger)) \in Int
      /\ cache.balance \in Int /\ cache.deposit \in Int
      /\ cache.balance - cache.deposit = Total(Amounts)
  BY <1>1 DEF TwoFigures
<1>5. cache'.deposit = cache.deposit + h
  BY <1>3, <1>4
<1>6. cache'.balance = cache.balance + row.amount + h
  BY <1>2, <1>3, <1>4, <1>5
<1> QED BY <1>3, <1>4, <1>5, <1>6

\* The deposits are a part of the entries, nothing is owed on them, and no row
\* but a deposit adds to them.
LEMMA DepositsOf ==
  ASSUME FInv, NEW n \in Id, NEW row, Appends(n, row)
  PROVE  /\ Deposits(ledger) \subseteq Entries /\ n \notin Deposits(ledger)
         /\ \A i \in Deposits(ledger) :
              open[i] <= 0 /\ ledger[i].amount < 0 /\ ledger[i].type = "DEPOSIT"
         /\ row.type # "DEPOSIT" => Deposits(ledger') = Deposits(ledger)
         /\ row.type = "DEPOSIT" => Deposits(ledger') = Deposits(ledger) \union {n}
<1>1. Deposits(ledger) \subseteq Entries /\ n \notin Deposits(ledger)
  BY DEF Deposits, Appends, Entries
<1>2. \A i \in Deposits(ledger) : open[i] <= 0 /\ ledger[i].amount < 0
                                  /\ ledger[i].type = "DEPOSIT"
  BY OpenSigns DEF Deposits, Entries, CreditTypes
<1>3. \A i : i \in Deposits(ledger') <=> i \in Entries' /\ ledger'[i].type = "DEPOSIT"
  BY DEF Deposits, Entries
<1>4. \A i : i \in Deposits(ledger) <=> i \in Entries /\ ledger[i].type = "DEPOSIT"
  BY DEF Deposits, Entries
<1>5. /\ Entries' = Entries \union {n} /\ ledger'[n] = row
      /\ \A i \in Entries : ledger'[i] = ledger[i]
  BY DEF Appends
<1>6. ASSUME row.type # "DEPOSIT" PROVE Deposits(ledger') = Deposits(ledger)
  BY <1>3, <1>4, <1>5, <1>6
<1>7. ASSUME row.type = "DEPOSIT"
      PROVE  Deposits(ledger') = Deposits(ledger) \union {n}
  BY <1>3, <1>4, <1>5, <1>7
<1> QED BY <1>1, <1>2, <1>6, <1>7

\* Posting a credit is a payment or a concession, or it takes a deposit.
LEMMA CreditImplements ==
  ASSUME FInv, FInv', NEW type \in CreditTypes, NEW amount \in Amount,
         NEW S \in SUBSET Entries, CreditPosted(type, amount, S)
  PROVE  Position!Next
<1>1. PICK n \in Id, give \in [Id -> Nat] : CreditStep(n, give, type, amount, S)
  BY CreditFacts DEF FInv, CreditPosted
<1> DEFINE row == CreditRow(type, amount)
<1>2. /\ Appends(n, row) /\ row \in EntryRow /\ amount \in Nat /\ TypeOK
      /\ row.amount = -amount /\ row.type = type
      /\ MoveOf(row) = [kind |-> KindOf(type), amount |-> -amount, undoes |-> 0]
  BY <1>1 DEF CreditStep, FInv, IInv, CreditRow, EntryRow, EntryTypes, CreditTypes,
              Amount, MoveOf, NoId
<1>3. Moves' = Append(Moves, MoveOf(row))
  BY <1>2, MovesPosted
<1>4. /\ open \in [Id -> Int] /\ \A i \in Id : open'[i] \in Int
      /\ \A i \in Deposits(ledger) : i \in Id /\ i # n /\ open'[i] = open[i]
  <2>1. open \in [Id -> Int] /\ open' \in [Id -> Int] /\ Entries \subseteq Id
    BY DEF FInv, IInv, TypeOK, Entries, Id
  <2>2. ASSUME NEW i \in Deposits(ledger) PROVE i \in Id /\ i # n /\ open'[i] = open[i]
    <3>1. i \in Id /\ i # n /\ open[i] <= 0 /\ open[i] \in Int
      BY <1>2, <2>1, DepositsOf
    <3>2. open'[i] = open[i] - give[i] /\ give[i] \in Nat
          /\ (give[i] > 0 => give[i] <= open[i])
      BY <1>1, <3>1 DEF CreditStep
    <3> QED BY <3>1, <3>2
  <2> QED BY <2>1, <2>2
<1> HIDE DEF row
<1>5. CASE type # "DEPOSIT"
  <2>1. Deposits(ledger') = Deposits(ledger)
    BY <1>2, <1>5, DepositsOf
  <2>2. OpenSum(open', Deposits(ledger')) = OpenSum(open, Deposits(ledger)) - 0
    <3>1. OpenSum(open', Deposits(ledger')) = OpenSum(open, Deposits(ledger))
      BY <1>4, <2>1, OpenSumEq
    <3>2. OpenSum(open, Deposits(ledger)) \in Int
      BY <1>4, OpenSumInt
    <3> QED BY <3>1, <3>2
  <2>3. cache'.deposit = cache.deposit /\ cache'.balance = cache.balance - amount
    <3>1. /\ cache.balance \in Int /\ cache.deposit \in Int
          /\ cache'.deposit = cache.deposit + 0
          /\ cache'.balance = cache.balance + row.amount + 0
      BY <1>2, <2>2, HeldMoves
    <3> QED BY <1>2, <3>1
  <2>4. KindOf(type) = "CREDIT"
    BY <1>5 DEF CreditTypes, KindOf
  <2>5. Position!Credit(amount)
    BY <1>2, <1>3, <2>3, <2>4 DEF Position!Credit, Position!Post, Moves
  <2> QED BY <2>5 DEF Position!Next, Position!Amount, Amount
<1>6. CASE type = "DEPOSIT"
  <2>1. Deposits(ledger') = Deposits(ledger) \union {n}
    BY <1>2, <1>6, DepositsOf
  <2>2. open'[n] = -amount
    <3>1. \A i \in Id : give[i] = 0
      BY <1>1, <1>6 DEF CreditStep, CreditPosted
    <3>2. Total(give) = 0
      BY <3>1, TotalZero
    <3> QED BY <1>1, <1>2, <3>2 DEF CreditStep
  <2>3. OpenSum(open', Deposits(ledger')) = OpenSum(open, Deposits(ledger)) + (-amount)
    <3>1. \A i \in Id : i # n =>
            (IF i \in Deposits(ledger) THEN open[i] ELSE 0)
              = (IF i \in Deposits(ledger') THEN open'[i] ELSE 0)
      BY <1>4, <2>1
    <3>2. n \notin Deposits(ledger) /\ n \in Deposits(ledger')
      BY <1>2, <2>1, DepositsOf
    <3>3. (IF n \in Deposits(ledger') THEN open'[n] ELSE 0)
            = (IF n \in Deposits(ledger) THEN open[n] ELSE 0) + (-amount)
      BY <1>2, <2>2, <3>2
    <3>4. -amount \in Int /\ \A i \in Id : open[i] \in Int /\ open'[i] \in Int
      BY <1>2, <1>4
    <3> QED BY <3>1, <3>3, <3>4, OpenSumPoint
  <2>4. cache'.deposit = cache.deposit + amount /\ cache'.balance = cache.balance
    <3>1. OpenSum(open, Deposits(ledger)) \in Int
      BY <1>4, OpenSumInt
    <3>2. OpenSum(open', Deposits(ledger')) = OpenSum(open, Deposits(ledger)) - amount
      BY <1>2, <2>3, <3>1
    <3>3. /\ cache.balance \in Int /\ cache.deposit \in Int
          /\ cache'.deposit = cache.deposit + amount
          /\ cache'.balance = cache.balance + row.amount + amount
      BY <1>2, <3>2, HeldMoves
    <3> QED BY <1>2, <3>3
  <2>5. KindOf(type) = "DEPOSIT"
    BY <1>6 DEF KindOf
  <2>6. Position!TakeDeposit(amount)
    BY <1>2, <1>3, <2>4, <2>5 DEF Position!TakeDeposit, Position!Post, Moves
  <2> QED BY <2>6 DEF Position!Next, Position!Amount, Amount
<1> QED BY <1>5, <1>6

\* Posting a debit is a charge, or a refund out of one of the two figures.
LEMMA DebitImplements ==
  ASSUME FInv, FInv', NEW type \in DebitTypes, NEW amount \in Amount,
         NEW due \in Day \union {NoDate}, NEW source \in {"CREDIT", "DEPOSIT"},
         DebitPosted(type, amount, due, source)
  PROVE  Position!Next
<1>1. PICK n \in Id, take \in [Id -> Nat] :
        DebitStep(n, take, type, amount, due, source)
  BY DebitFacts DEF FInv, DebitPosted
<1> DEFINE row == DebitRow(type, amount, due)
<1>2. /\ Appends(n, row) /\ row \in EntryRow /\ amount \in Nat /\ TypeOK
      /\ row.amount = amount /\ row.type = type /\ type # "DEPOSIT"
      /\ MoveOf(row) = [kind |-> KindOf(type), amount |-> amount, undoes |-> 0]
  BY <1>1 DEF DebitStep, FInv, IInv, DebitRow, EntryRow, EntryTypes, DebitTypes,
              Amount, MoveOf, NoId
<1>3. Moves' = Append(Moves, MoveOf(row))
  BY <1>2, MovesPosted
<1> DEFINE D == Deposits(ledger)
<1>4. /\ D \subseteq Id /\ n \notin D /\ Deposits(ledger') = D
      /\ open \in [Id -> Int] /\ \A i \in Id : open'[i] \in Int /\ take[i] \in Int
      /\ \A i \in D : open'[i] = open[i] + take[i]
  <2>1. open \in [Id -> Int] /\ open' \in [Id -> Int] /\ Entries \subseteq Id
    BY DEF FInv, IInv, TypeOK, Entries, Id
  <2>2. D \subseteq Entries /\ n \notin D /\ Deposits(ledger') = D
    BY <1>2, DepositsOf
  <2>3. \A i \in D : open'[i] = open[i] + take[i]
    BY <1>1, <2>1, <2>2 DEF DebitStep
  <2> QED BY <2>1, <2>2, <2>3
<1>5. OpenSum(open, D) \in Int
  BY <1>4, OpenSumInt
<1> HIDE DEF row
<1>6. CASE source = "CREDIT"
  <2>1. \A i \in D : take[i] = 0
    <3>1. Pool(source) = NonDeposits(ledger)
      BY <1>6 DEF Pool
    <3>2. \A i \in D : i \notin Pool(source) /\ i \in Id
      BY <1>4, <3>1 DEF Deposits, NonDeposits
    <3>3. \A i \in D : ~(take[i] > 0) /\ take[i] \in Nat
      BY <1>1, <3>2 DEF DebitStep
    <3> QED BY <3>3
  <2>2. OpenSum(open', Deposits(ledger')) = OpenSum(open, D) - 0
    <3>1. \A i \in Id : (IF i \in Deposits(ledger') THEN open'[i] ELSE 0)
                          = (IF i \in D THEN open[i] ELSE 0)
      BY <1>4, <2>1
    <3> HIDE DEF D
    <3>2. OpenSum(open', Deposits(ledger')) = OpenSum(open, D)
      BY <3>1, OpenSumEq
    <3> QED BY <1>5, <3>2
  <2>3. cache'.deposit = cache.deposit /\ cache'.balance = cache.balance + amount
    <3>1. /\ cache.balance \in Int /\ cache.deposit \in Int
          /\ cache'.deposit = cache.deposit + 0
          /\ cache'.balance = cache.balance + row.amount + 0
      BY <1>2, <2>2, HeldMoves
    <3> QED BY <1>2, <3>1
  <2>4. CASE type = "REFUND"
    <3>1. KindOf(type) = "REFUND"
      BY <2>4 DEF KindOf
    <3>2. Position!Refund(amount)
      BY <1>2, <1>3, <2>3, <3>1 DEF Position!Refund, Position!Post, Moves
    <3> QED BY <3>2 DEF Position!Next, Position!Amount, Amount
  <2>5. CASE type # "REFUND"
    <3>1. KindOf(type) = "CHARGE"
      BY <2>5 DEF KindOf, DebitTypes
    <3>2. Position!Charge(amount)
      BY <1>2, <1>3, <2>3, <3>1 DEF Position!Charge, Position!Post, Moves
    <3> QED BY <3>2 DEF Position!Next, Position!Amount, Amount
  <2> QED BY <2>4, <2>5
<1>7. CASE source = "DEPOSIT"
  <2>1. type = "REFUND" /\ open'[n] = 0
    BY <1>2, <1>7 DEF DebitPosted, Appends, NextId
  <2>2. Total(take) = amount
    BY <1>1, <1>2, <2>1 DEF DebitStep
  <2>3. OpenSum(take, D) = amount
    <3>1. \A i \in Id : i \notin D => take[i] = 0
      <4>1. Pool(source) = D
        BY <1>7 DEF Pool
      <4>2. \A i \in Id : i \notin D => ~(take[i] > 0) /\ take[i] \in Nat
        BY <1>1, <4>1 DEF DebitStep
      <4> QED BY <4>2
    <3> HIDE DEF D
    <3> QED BY <2>2, <3>1, OpenSumAll
  <2>4. OpenSum(open', Deposits(ledger')) = OpenSum(open, D) - (-amount)
    <3>1. /\ \A i \in Id : open[i] \in Int /\ take[i] \in Int
          /\ \A i \in Id : i \in D => open'[i] = open[i] + take[i]
      BY <1>4
    <3> HIDE DEF D
    <3>2. OpenSum(open', D) = OpenSum(open, D) + OpenSum(take, D)
      BY <3>1, OpenSumAdd
    <3> QED BY <1>2, <1>4, <1>5, <2>3, <3>2
  <2>5. /\ cache'.deposit = cache.deposit - amount /\ cache.deposit >= amount
        /\ cache'.balance = cache.balance
    <3>1. -amount \in Int
      BY <1>2
    <3>2. /\ cache.balance \in Int /\ cache.deposit \in Int
          /\ cache'.deposit = cache.deposit + (-amount)
          /\ cache.deposit + (-amount) >= 0
          /\ cache'.balance = cache.balance + row.amount + (-amount)
      BY <1>2, <2>4, <3>1, HeldMoves
    <3> QED BY <1>2, <3>2
  <2>6. KindOf(type) = "REFUND"
    BY <2>1 DEF KindOf
  <2>7. Position!Refund(amount)
    BY <1>2, <1>3, <2>5, <2>6 DEF Position!Refund, Position!Post, Moves
  <2> QED BY <2>7 DEF Position!Next, Position!Amount, Amount
<1> QED BY <1>6, <1>7

\* What the deposits get back, or lose, when an entry is undone: the rest of a
\* deposit, what a refund took of them, and nothing of anything else.
LEMMA UndoHeld ==
  ASSUME FInv, FInv', NEW e \in Entries, ReverseEntry(e), NEW n \in Id, ReversalStep(n, e)
  PROVE  \E h \in Int :
           /\ OpenSum(open', Deposits(ledger')) = OpenSum(open, Deposits(ledger)) - h
           /\ \/ 0 <= h /\ h <= ledger[e].amount
              \/ ledger[e].amount <= h /\ h <= 0
           /\ ledger[e].type \notin {"DEPOSIT", "REFUND"} => h = 0
<1> DEFINE D == Deposits(ledger)
<1>1. /\ Appends(n, ReversalRow(e)) /\ ReversalRow(e).type = "REVERSAL"
      /\ e # n /\ e \in Id /\ ledger[e].type # "REVERSAL"
  BY DEF ReversalStep, Appends, ReversalRow
<1>2. /\ D \subseteq Entries /\ D \subseteq Id /\ n \notin D /\ Deposits(ledger') = D
      /\ \A i \in D : open[i] <= 0 /\ ledger[i].amount < 0 /\ ledger[i].type = "DEPOSIT"
  BY <1>1, DepositsOf DEF Appends
<1>3. /\ open \in [Id -> Int] /\ \A i \in Id : open'[i] \in Int
      /\ OpenSum(open, D) \in Int /\ OpenSum(open', D) \in Int
  <2>1. open \in [Id -> Int] /\ open' \in [Id -> Int]
    BY DEF FInv, IInv, TypeOK
  <2>2. \A i \in Id : open[i] \in Int /\ open'[i] \in Int
    BY <2>1
  <2> HIDE DEF D
  <2>3. OpenSum(open, D) \in Int /\ OpenSum(open', D) \in Int
    BY <2>2, OpenSumInt
  <2> QED BY <2>1, <2>3
<1>4. ASSUME NEW i \in D, i # e
      PROVE  open'[i] = open[i] - app[<<i, e>>] /\ app[<<i, e>>] \in Nat
  <2>1. app[<<e, i>>] = 0 /\ app[<<i, e>>] \in Nat
    BY <1>1, <1>2, AppliedWithin
  <2>2. open'[i] = open[i] + app[<<e, i>>] - app[<<i, e>>]
    BY <1>2, <1>4 DEF ReversalStep
  <2> QED BY <1>2, <1>3, <2>1, <2>2
<1>5. CASE ledger[e].type = "DEPOSIT"
  <2>1. e \in D /\ open[e] <= 0 /\ open[e] \in Int /\ open'[e] = 0
        /\ ledger[e].amount <= open[e] /\ ledger[e].amount < 0
    BY <1>1, <1>3, <1>5, OpenSigns DEF Deposits, Entries, CreditTypes, ReversalStep
  <2>2. \A i \in D : i # e => open'[i] = open[i]
    <3>1. \A i \in D : i # e => app[<<i, e>>] = 0
      BY <1>2, <2>1, AppliedWithin
    <3>2. ASSUME NEW i \in D, i # e
          PROVE  open'[i] = open[i]
      <4>1. open[i] \in Int /\ open'[i] \in Int
        BY <1>2, <1>3
      <4>2. app[<<i, e>>] = 0
        BY <3>1, <3>2
      <4>3. open'[i] = open[i] - app[<<i, e>>]
        BY <1>4, <3>2
      <4> QED BY <4>1, <4>2, <4>3
    <3> QED BY <3>2
  <2>3. OpenSum(open', D) = OpenSum(open, D) + (-open[e])
    <3>1. \A i \in Id : i # e => (IF i \in D THEN open[i] ELSE 0)
                                   = (IF i \in D THEN open'[i] ELSE 0)
      BY <2>2
    <3>2. (IF e \in D THEN open'[e] ELSE 0)
            = (IF e \in D THEN open[e] ELSE 0) + (-open[e])
      BY <2>1
    <3>3. -open[e] \in Int /\ \A i \in Id : open[i] \in Int /\ open'[i] \in Int
      BY <1>3, <2>1
    <3> HIDE DEF D
    <3> QED BY <1>1, <3>1, <3>2, <3>3, OpenSumPoint
  <2>4. OpenSum(open', Deposits(ledger')) = OpenSum(open, D) - open[e]
    BY <1>2, <1>3, <2>1, <2>3
  <2> QED BY <1>5, <2>1, <2>4
<1>6. CASE ledger[e].type = "REFUND"
  <2> DEFINE took == [i \in Id |-> app[<<i, e>>]]
             none == [i \in Id |-> 0]
             h == OpenSum(took, D)
  <2>1. /\ ledger[e].amount > 0 /\ open[e] >= 0 /\ open[e] \in Int
        /\ ledger[e].amount \in Int /\ e \notin D
    BY <1>2, <1>6, OpenSigns DEF DebitTypes
  <2>2. \A i \in Id : took[i] \in Nat /\ took[i] \in Int /\ none[i] \in Int
                      /\ none[i] = 0
    BY <1>1 DEF FInv, IInv, TypeOK
  <2>3. \A i \in Id : i \in D => open[i] = open'[i] + took[i]
    BY <1>2, <1>3, <1>4, <2>1
  <2>4. Total(took) = ledger[e].amount - open[e]
    BY <1>1, <2>1, AppliedWithin DEF AsDebit
  <2> HIDE DEF took, none, D
  <2>5. OpenSum(open, D) = OpenSum(open', D) + h /\ h \in Int
    BY <1>3, <2>2, <2>3, OpenSumAdd, OpenSumInt
  <2>6. 0 <= h
    <3>1. OpenSum(none, D) <= OpenSum(took, D)
      BY <2>2, OpenSumLe
    <3>2. OpenSum(none, D) = 0
      BY <2>2, OpenSumEmpty
    <3> QED BY <3>1, <3>2
  <2>7. h <= Total(took)
    <3>1. OpenSum(took, D) <= OpenSum(took, Id)
      BY <2>2, OpenSumLe
    <3>2. OpenSum(took, Id) = Total(took)
      BY OpenSumAll
    <3> QED BY <3>1, <3>2
  <2>8. OpenSum(open', Deposits(ledger')) = OpenSum(open, D) - h
    BY <1>2, <1>3, <2>5
  <2> HIDE DEF h
  <2>9. 0 <= h /\ h <= ledger[e].amount
    BY <2>1, <2>4, <2>5, <2>6, <2>7
  <2> QED BY <1>6, <2>5, <2>8, <2>9 DEF D
<1>7. CASE ledger[e].type \notin {"DEPOSIT", "REFUND"}
  <2>1. e \notin D
    BY <1>2, <1>7
  <2>2. \A i \in D : open'[i] = open[i]
    <3>1. ASSUME NEW i \in D PROVE app[<<i, e>>] = 0
      <4>1. ~(app[<<i, e>>] > 0)
        BY <1>1, <1>7 DEF FInv, IInv, DepositIsolation
      <4>2. app[<<i, e>>] \in Nat
        BY <1>4, <2>1
      <4> QED BY <4>1, <4>2
    <3>2. ASSUME NEW i \in D
          PROVE  open'[i] = open[i]
      <4>1. open[i] \in Int /\ open'[i] \in Int
        BY <1>2, <1>3
      <4>2. app[<<i, e>>] = 0
        BY <3>1
      <4>3. open'[i] = open[i] - app[<<i, e>>]
        BY <1>4, <2>1
      <4> QED BY <4>1, <4>2, <4>3
    <3> QED BY <3>2
  <2>3. OpenSum(open', Deposits(ledger')) = OpenSum(open, D)
    <3>1. \A i \in Id : (IF i \in Deposits(ledger') THEN open'[i] ELSE 0)
                          = (IF i \in D THEN open[i] ELSE 0)
      BY <1>2, <2>2
    <3> HIDE DEF D
    <3> QED BY <3>1, OpenSumEq
  <2>4. OpenSum(open', Deposits(ledger')) = OpenSum(open, D) - 0
    BY <1>3, <2>3
  <2>5. 0 <= ledger[e].amount \/ ledger[e].amount <= 0
    BY OpenSigns
  <2> QED BY <2>4, <2>5
<1> QED BY <1>5, <1>6, <1>7

\* Undoing an entry is the undoing of its posting.
LEMMA UndoImplements ==
  ASSUME FInv, FInv', NEW e \in Entries, ReverseEntry(e)
  PROVE  Position!Next
<1>1. PICK n \in Id : ReversalStep(n, e)
  BY ReversalFacts DEF FInv
<1>2. PICK h \in Int :
        /\ OpenSum(open', Deposits(ledger')) = OpenSum(open, Deposits(ledger)) - h
        /\ \/ 0 <= h /\ h <= ledger[e].amount
           \/ ledger[e].amount <= h /\ h <= 0
        /\ ledger[e].type \notin {"DEPOSIT", "REFUND"} => h = 0
  BY <1>1, UndoHeld
<1> DEFINE row == ReversalRow(e)
<1>3. /\ Appends(n, row) /\ row \in EntryRow /\ TypeOK
      /\ row.amount = -ledger[e].amount
      /\ MoveOf(row) = [kind |-> "UNDO", amount |-> -ledger[e].amount, undoes |-> e]
      /\ ledger[e].type # "REVERSAL"
      /\ \A r \in Entries : ledger[r].reverses # e
  BY <1>1 DEF ReversalStep, FInv, IInv, ReversalRow, MoveOf, KindOf
<1>4. ledger[e] \in EntryRow
  BY EntriesAreRows DEF FInv, IInv
<1>5. /\ ledger[e].amount \in Int /\ ledger[e].type \in EntryTypes
      /\ -MaxAmount <= ledger[e].amount /\ ledger[e].amount <= MaxAmount
  BY <1>4 DEF EntryRow
<1>6. Moves' = Append(Moves, MoveOf(row)) /\ Len(Moves) = Len(ledger)
  BY <1>3, MovesPosted
<1> HIDE DEF row
<1>7. /\ cache.balance \in Int /\ cache.deposit \in Int
      /\ cache'.deposit = cache.deposit + h /\ cache.deposit + h >= 0
      /\ cache'.balance = cache.balance + row.amount + h
  BY <1>2, <1>3, HeldMoves
<1>8. cache'.balance = cache.balance - ledger[e].amount + h
  BY <1>3, <1>5, <1>7
<1>9. h \in -MaxAmount..MaxAmount
  BY <1>2, <1>5
<1>10. /\ e \in 1..Len(Moves)
       /\ Moves[e].kind = KindOf(ledger[e].type)
       /\ Moves[e].amount = ledger[e].amount
       /\ \A j \in 1..Len(Moves) : Moves[j].undoes = ledger[j].reverses
  BY <1>6 DEF Moves, Entries
<1>11. Moves[e].kind # "UNDO"
  BY <1>3, <1>5, <1>10 DEF KindOf, EntryTypes, CreditTypes, DebitTypes
<1>12. \A j \in 1..Len(Moves) : Moves[j].undoes # e
  BY <1>3, <1>6, <1>10 DEF Entries
<1>13. Moves[e].kind \in {"CHARGE", "CREDIT"} => h = 0
  BY <1>2, <1>10 DEF KindOf
<1>14. Position!Undo(e)
  <2>1. Moves' = Append(Moves, [kind |-> "UNDO", amount |-> -Moves[e].amount,
                                undoes |-> e])
    BY <1>3, <1>6, <1>10
  <2>2. \/ 0 <= h /\ h <= Moves[e].amount
        \/ Moves[e].amount <= h /\ h <= 0
    BY <1>2, <1>10
  <2>3. cache'.balance = cache.balance - Moves[e].amount + h
    BY <1>8, <1>10
  <2> QED BY <1>7, <1>9, <1>11, <1>12, <1>13, <2>1, <2>2, <2>3
          DEF Position!Undo, Position!Post, Moves
<1> QED BY <1>10, <1>14 DEF Position!Next, Moves

\* Every step of the ledger is a posting to the two figures, or leaves them be.
LEMMA NextImplements ==
  FInv /\ FInv' /\ [Next]_vars
    => [Position!Next]_<<cache.balance, cache.deposit, Moves>>
<1> SUFFICES ASSUME FInv, FInv', [Next]_vars
             PROVE  [Position!Next]_<<cache.balance, cache.deposit, Moves>>
  OBVIOUS
<1>1. CASE NothingPosted
  <2>1. ledger' = ledger /\ cache' = cache
    BY <1>1 DEF FInv, NothingPosted, CacheIsTrue, RecomputeAccountCache
  <2>2. Moves' = Moves
    BY <2>1 DEF Moves, Entries
  <2> QED BY <2>1, <2>2
<1>2. CASE \E type \in CreditTypes, amount \in Amount, S \in SUBSET Entries :
             CreditPosted(type, amount, S)
  BY <1>2, CreditImplements
<1>3. CASE \E type \in DebitTypes, amount \in Amount, due \in Day \union {NoDate},
              source \in {"CREDIT", "DEPOSIT"} :
             DebitPosted(type, amount, due, source)
  BY <1>3, DebitImplements
<1>4. CASE \E e \in Entries : ReverseEntry(e)
  BY <1>4, UndoImplements
<1>5. TypeOK
  BY DEF FInv, IInv
<1> QED BY <1>1, <1>2, <1>3, <1>4, <1>5, StepCases

\* Nothing is owed, held or posted at the start.
LEMMA InitImplements == Init => Position!Init
<1> SUFFICES ASSUME Init PROVE Position!Init
  OBVIOUS
<1>1. Entries = {} /\ cache.balance = 0 /\ cache.deposit = 0
  BY DEF Init, Entries
<1>2. Moves = <<>>
  BY <1>1 DEF Moves
<1> QED BY <1>1, <1>2 DEF Position!Init, Moves

\* The ledger implements the account's two figures: whatever credits are
\* allocated to, the receivable and the deposit move by the postings alone.
THEOREM LedgerImplementsPosition == Spec => ImplementsPosition
<1>1. Init => Position!Init
  BY InitImplements
<1>2. FInv /\ FInv' /\ [Next]_vars
        => [Position!Next]_<<cache.balance, cache.deposit, Moves>>
  BY NextImplements
<1> QED BY <1>1, <1>2, FiguresInvariance, PTL
        DEF Spec, ImplementsPosition, Position!Spec, Moves

=============================================================================
