----------------------------- MODULE ImportProofs -----------------------------
(***************************************************************************)
(* What an import batch promises, for every number of rows, chunk, passes, *)
(* operators, retries and crashes.                                         *)
(***************************************************************************)
EXTENDS Imports, SumTheorems, FiniteSetTheorems

\* A pass at work alone: the batch shows that it is not at rest, its rows are
\* not imported yet, and its counts are those of the rows, but for the errors
\* whose update failed, which it has dealt with.
InLoop == {"loop", "made", "failed", "cancelled"}
ErrorsWithin(n, m) == n <= m + faults /\ m <= n + faults
CountsRows(p) ==
  /\ pass[p].imported = Count("IMPORTED")
  /\ ErrorsWithin(pass[p].errors, Count("ERROR"))
  /\ pass[p].errors # Count("ERROR") =>
       \E r \in Row \ pass[p].rows : row[r] = "ERROR"
Works(p) ==
  /\ batch.status \notin TerminalStatus
  /\ pass[p].pc # "list" => \A r \in pass[p].rows : row[r] # "IMPORTED"
  /\ pass[p].pc \in InLoop => CountsRows(p)
  /\ pass[p].pc = "cancelled" => pass[p].rows # {}

\* A batch at rest counts its rows.
Summary ==
  batch.status \in TerminalStatus =>
    /\ batch.imported = Count("IMPORTED")
    /\ ErrorsWithin(batch.errors, Count("ERROR"))
    /\ batch.status = "COMPLETE" <=> Count("IMPORTED") = Rows
    /\ batch.status = "FAILED" => Count("IMPORTED") = 0

\* What holds until two passes meet.
Alone ==
  /\ \A p, q \in Working : p = q
  /\ \A p \in Working : Works(p)
  /\ Summary

\* A row in hand is one of this chunk.
InChunk ==
  \A p \in Pass : pass[p].pc \in {"made", "failed"} =>
    pass[p].since < Chunk /\ pass[p].rows # {}

\* The inductive invariant.
IInv == TypeOK /\ InChunk /\ (met = 0 => Alone)

\* The states a pass can be in.
PassState ==
  [pc : {"idle", "list", "parse", "count", "loop", "made", "failed", "cancelled"},
   scope : Scope, rows : SUBSET Row, since : 0..Chunk,
   imported : Nat, errors : Nat]
Batches == [status : {"PENDING", "PROCESSING"} \union TerminalStatus,
            cancel : BOOLEAN, imported : Nat, errors : Nat]
RowStatus == {"PENDING", "ERROR", "IMPORTED"}

USE ImportAssumption

-----------------------------------------------------------------------------
(***************************************************************************)
(* Counting rows, and the row in hand.                                     *)
(***************************************************************************)
\* The types, by name.
LEMMA Types ==
  ASSUME TypeOK
  PROVE  /\ batch \in Batches /\ quiet \in BOOLEAN /\ row \in [Row -> RowStatus]
         /\ made \in [Row -> Nat] /\ pass \in [Pass -> PassState]
         /\ queue \in [Scope -> Nat] /\ faults \in 0..MaxFaults
         /\ {crashes, retries, faults, lost, met} \subseteq Nat
<1>1. pass \in [Pass -> PassState] /\ batch \in Batches
  BY DEF TypeOK, PassState, Batches
<1>2. row \in [Row -> RowStatus] /\ made \in [Row -> Nat] /\ queue \in [Scope -> Nat]
      /\ quiet \in BOOLEAN
  BY DEF TypeOK, RowStatus
<1>3. /\ crashes \in 0..MaxCrashes /\ retries \in 0..MaxRetries
      /\ faults \in 0..MaxFaults /\ lost \in 0..MaxLost /\ met \in 0..MaxMeetings
  BY DEF TypeOK
<1>4. {crashes, retries, faults, lost, met} \subseteq Nat
  BY <1>3
<1> QED BY <1>1, <1>2, <1>3, <1>4

\* What a pass is, before a step.
LEMMA PassType ==
  ASSUME TypeOK, NEW p \in Pass
  PROVE  pass[p] \in PassState /\ pass[p].rows \in SUBSET Row
         /\ pass[p].imported \in Nat /\ pass[p].errors \in Nat
<1>1. pass[p] \in PassState
  BY Types
<1> QED BY <1>1 DEF PassState

\* A set of rows has a number, no more than there are.
LEMMA RowsAreCounted ==
  ASSUME NEW S \in SUBSET Row
  PROVE  /\ IsFiniteSet(S) /\ Cardinality(S) \in Nat
         /\ Cardinality(S) <= Rows
         /\ Cardinality(S) = Rows => S = Row
         /\ Cardinality(S) = 0 => S = {}
<1>1. IsFiniteSet(Row) /\ Cardinality(Row) = Rows
  BY FS_Interval DEF Row
<1>2. IsFiniteSet(S) /\ Cardinality(S) <= Rows /\ (Cardinality(S) = Rows => S = Row)
  BY <1>1, FS_Subset
<1> QED BY <1>2, FS_CardinalityType, FS_EmptySet

\* The counts are numbers.
LEMMA CountType ==
  ASSUME NEW status
  PROVE  Count(status) \in Nat /\ Count(status) <= Rows
BY RowsAreCounted DEF Count

\* The first of the rows a pass has left is one of them.
LEMMA InHandIsOne ==
  ASSUME TypeOK, NEW p \in Pass, pass[p].rows # {}
  PROVE  InHand(p) \in pass[p].rows /\ InHand(p) \in Row
<1>1. pass[p].rows \in SUBSET Row /\ Row \subseteq Nat
  BY PassType DEF Row
<1>2. pass[p].rows \in SUBSET Nat
  BY <1>1
<1>3. PICK x \in pass[p].rows : \A y \in pass[p].rows : x <= y
  BY <1>2, NatLeast
<1> QED BY <1>1, <1>3 DEF InHand, Least

\* One row that changes what it says moves one from one count to another.
LEMMA CountMoves ==
  ASSUME TypeOK, NEW r \in Row, NEW s \in {"IMPORTED", "ERROR"},
         row' = [row EXCEPT ![r] = s]
  PROVE  /\ Count(s)' = IF row[r] = s THEN Count(s) ELSE Count(s) + 1
         /\ \A t \in {"IMPORTED", "ERROR"} : t # s =>
              Count(t)' = IF row[r] = t THEN Count(t) - 1 ELSE Count(t)
<1>1. /\ row'[r] = s /\ \A x \in Row : x # r => row'[x] = row[x]
  BY DEF TypeOK
<1>2. Count(s)' = IF row[r] = s THEN Count(s) ELSE Count(s) + 1
  <2>1. {x \in Row : row'[x] = s} = {x \in Row : row[x] = s} \union {r}
    BY <1>1
  <2>2. IsFiniteSet({x \in Row : row[x] = s})
    BY RowsAreCounted
  <2>3. r \in {x \in Row : row[x] = s} <=> row[r] = s
    OBVIOUS
  <2>4. Cardinality({x \in Row : row[x] = s} \union {r}) =
          IF row[r] = s THEN Count(s) ELSE Count(s) + 1
    BY <2>2, <2>3, FS_AddElement DEF Count
  <2> QED BY <2>1, <2>4 DEF Count
<1>3. ASSUME NEW t \in {"IMPORTED", "ERROR"}, t # s
      PROVE  Count(t)' = IF row[r] = t THEN Count(t) - 1 ELSE Count(t)
  <2>1. {x \in Row : row'[x] = t} = {x \in Row : row[x] = t} \ {r}
    BY <1>1, <1>3
  <2>2. IsFiniteSet({x \in Row : row[x] = t})
    BY RowsAreCounted
  <2>3. CASE row[r] = t
    <3>1. r \in {x \in Row : row[x] = t}
      BY <2>3
    <3>2. Cardinality({x \in Row : row[x] = t} \ {r}) = Count(t) - 1
      BY <2>2, <3>1, FS_RemoveElement DEF Count
    <3> QED BY <2>1, <2>3, <3>2 DEF Count
  <2>4. CASE row[r] # t
    <3>1. {x \in Row : row'[x] = t} = {x \in Row : row[x] = t}
      BY <2>1, <2>4
    <3> QED BY <2>4, <3>1 DEF Count
  <2> QED BY <2>3, <2>4
<1> QED BY <1>2, <1>3

\* A pass that becomes something else leaves the others as they are.
LEMMA Becomes ==
  ASSUME TypeOK, NEW p \in Pass, NEW s, Become(p, s)
  PROVE  pass'[p] = s /\ \A q \in Pass : q # p => pass'[q] = pass[q]
BY DEF TypeOK, Become

\* So it does with its type.
LEMMA BecomesType ==
  ASSUME TypeOK, NEW p \in Pass, NEW s \in PassState, Become(p, s)
  PROVE  pass' \in [Pass -> PassState]
BY DEF TypeOK, Become, PassState

\* While nobody has met anybody, who works works alone.
LEMMA WorksAlone ==
  ASSUME IInv, met = 0, NEW p \in Pass, ~At(p, "idle")
  PROVE  Works(p) /\ Summary /\ Working = {p} /\ batch.status \notin TerminalStatus
BY DEF IInv, Alone, Working, Works

\* A pass that goes on keeps the invariant, if alone it still does its work.
LEMMA PassGoes ==
  ASSUME IInv, NEW p \in Pass, NEW s \in PassState, Become(p, s),
         ~At(p, "idle"), s.pc # "idle",
         s.pc \in {"made", "failed"} => s.since < Chunk /\ s.rows # {},
         batch' \in Batches, batch'.status = batch.status, quiet' \in BOOLEAN,
         row' \in [Row -> RowStatus], made' \in [Row -> Nat], queue' = queue,
         faults' \in 0..MaxFaults, UNCHANGED <<outside, crashes, met>>,
         met = 0 => Works(p)'
  PROVE  IInv'
<1>1. TypeOK /\ pass'[p] = s /\ (\A q \in Pass : q # p => pass'[q] = pass[q])
      /\ pass' \in [Pass -> PassState]
  BY Becomes, BecomesType DEF IInv
<1>2. TypeOK'
  BY <1>1 DEF TypeOK, outside, PassState, Batches, RowStatus
<1>3. InChunk'
  BY <1>1 DEF IInv, InChunk
<1>4. ASSUME met = 0 PROVE Alone'
  <2>1. Working = {p} /\ Summary /\ batch.status \notin TerminalStatus
    BY <1>4, WorksAlone
  <2>2. \A q \in Pass : q # p => At(q, "idle")
    BY <2>1 DEF Working
  <2>3. Working' = {p}
    BY <1>1, <2>2 DEF Working, At
  <2>4. Summary'
    BY <2>1 DEF Summary
  <2> QED BY <1>4, <2>3, <2>4 DEF Alone
<1>5. met' = met
  OBVIOUS
<1> QED BY <1>2, <1>3, <1>4, <1>5 DEF IInv

-----------------------------------------------------------------------------
(***************************************************************************)
(* The steps of a pass.                                                    *)
(***************************************************************************)
\* The rows a scope asks for are not imported.
LEMMA ListRowsKeeps ==
  ASSUME IInv, NEW p \in Pass, ListRows(p)
  PROVE  IInv'
<1> DEFINE L == {r \in Row : row[r] \in StatusFilter(pass[p].scope)}
           s == [pass[p] EXCEPT !.pc = "parse", !.rows = L]
<1>1. /\ ~At(p, "idle") /\ TypeOK /\ pass[p] \in PassState
      /\ UNCHANGED <<batch, quiet, row, made, queue, outside, crashes, faults, met>>
  BY PassType DEF ListRows, At, IInv, others
<1>2. L \in SUBSET Row /\ \A r \in L : row[r] # "IMPORTED"
  BY <1>1 DEF StatusFilter, PassState, Scope
<1>3. Become(p, s)
  BY <1>1 DEF ListRows, Goes, PassState
<1> HIDE DEF L
<1>4. s \in PassState /\ s.pc = "parse" /\ s.rows = L
  BY <1>1, <1>2 DEF PassState
<1> HIDE DEF s
<1>5. pass'[p] = s
  BY <1>1, <1>3, Becomes
<1>6. ASSUME met = 0 PROVE Works(p)'
  BY <1>1, <1>2, <1>4, <1>5, <1>6, WorksAlone DEF Works, InLoop
<1> QED BY <1>1, <1>3, <1>4, <1>6, PassGoes DEF TypeOK, Batches, RowStatus

\* A row that does not parse is an error, and was not imported.
LEMMA ParseRowsKeeps ==
  ASSUME IInv, NEW p \in Pass, ParseRows(p)
  PROVE  IInv'
<1> DEFINE s == [pass[p] EXCEPT !.pc = "count"]
<1>1. /\ ~At(p, "idle") /\ TypeOK /\ pass[p] \in PassState /\ pass[p].pc = "parse"
      /\ UNCHANGED <<batch, quiet, made, queue, outside, crashes, faults, met>>
  BY PassType DEF ParseRows, At, IInv, others
<1>2. Become(p, s) /\ s \in PassState /\ s.pc = "count" /\ s.rows = pass[p].rows
  BY <1>1 DEF ParseRows, Goes, PassState
<1> HIDE DEF s
<1>3. pass'[p] = s
  BY <1>1, <1>2, Becomes
<1>4. /\ row' \in [Row -> RowStatus]
      /\ \A r \in Row : row'[r] = "IMPORTED" => row[r] = "IMPORTED"
  BY <1>1 DEF ParseRows, TypeOK, RowStatus
<1>5. ASSUME met = 0 PROVE Works(p)'
  <2>1. Works(p) /\ \A r \in pass[p].rows : row[r] # "IMPORTED"
    BY <1>1, <1>5, WorksAlone DEF Works
  <2>2. pass[p].rows \in SUBSET Row
    BY <1>1, PassType
  <2> QED BY <1>1, <1>2, <1>3, <1>4, <2>1, <2>2 DEF Works, InLoop
<1> QED BY <1>1, <1>2, <1>4, <1>5, PassGoes DEF TypeOK, Batches

\* The counts a pass begins with are those of the rows.
LEMMA CountRowsKeeps ==
  ASSUME IInv, NEW p \in Pass, CountRows(p)
  PROVE  IInv'
<1>1. /\ ~At(p, "idle") /\ TypeOK /\ pass[p] \in PassState /\ pass[p].pc = "count"
      /\ UNCHANGED <<batch, quiet, row, made, queue, outside, crashes, faults, met>>
  BY PassType DEF CountRows, At, IInv, others
<1>2. PICK i \in Nat, e \in Nat : i = Count("IMPORTED") /\ e = Count("ERROR")
  BY CountType
<1> DEFINE s == [pass[p] EXCEPT !.pc = "loop", !.imported = i, !.errors = e]
<1>3. Become(p, s)
  BY <1>1, <1>2 DEF CountRows, Goes, PassState
<1>4. s \in PassState /\ s.pc = "loop" /\ s.rows = pass[p].rows
      /\ s.imported = i /\ s.errors = e
  BY <1>1, <1>2 DEF PassState
<1> HIDE DEF s
<1>5. pass'[p] = s
  BY <1>1, <1>3, Becomes
<1>6. Count("IMPORTED")' = i /\ Count("ERROR")' = e
  BY <1>1, <1>2 DEF Count
<1>7. CountsRows(p)'
  <2>1. faults' \in Nat
    BY <1>1, Types
  <2> QED BY <1>4, <1>5, <1>6, <2>1 DEF CountsRows, ErrorsWithin
<1>8. ASSUME met = 0 PROVE Works(p)'
  BY <1>1, <1>4, <1>5, <1>7, <1>8, WorksAlone DEF Works, InLoop
<1> QED BY <1>1, <1>3, <1>4, <1>8, PassGoes DEF TypeOK, Batches, RowStatus

\* The counts stay those of the rows while neither moves.
LEMMA CountsStay ==
  ASSUME NEW p \in Pass, CountsRows(p), row' = row, faults' = faults,
         pass'[p].imported = pass[p].imported, pass'[p].errors = pass[p].errors,
         pass'[p].rows \subseteq pass[p].rows
  PROVE  CountsRows(p)'
<1>1. Count("IMPORTED")' = Count("IMPORTED") /\ Count("ERROR")' = Count("ERROR")
  BY DEF Count
<1> QED BY <1>1 DEF CountsRows, ErrorsWithin

\* A step that moves neither the rows nor the counts.
LEMMA MoveKeeps ==
  ASSUME IInv, NEW p \in Pass, NEW s \in PassState, Become(p, s),
         pass[p].pc = "loop", s.pc \in InLoop, s.rows \subseteq pass[p].rows,
         s.pc = "cancelled" => s.rows # {},
         s.pc \in {"made", "failed"} => s.since < Chunk /\ s.rows # {},
         s.imported = pass[p].imported, s.errors = pass[p].errors,
         batch' \in Batches, batch'.status = batch.status, quiet' \in BOOLEAN,
         row' = row, made' \in [Row -> Nat], queue' = queue, UNCHANGED others
  PROVE  IInv'
<1>1. /\ TypeOK /\ pass'[p] = s /\ ~At(p, "idle") /\ s.pc # "idle" /\ s.pc # "list"
      /\ UNCHANGED <<outside, crashes, met>> /\ faults' = faults
      /\ faults' \in 0..MaxFaults /\ row' \in [Row -> RowStatus]
  BY Becomes DEF IInv, At, InLoop, others, TypeOK, RowStatus
<1>2. ASSUME met = 0 PROVE Works(p)'
  <2>1. Works(p) /\ CountsRows(p)
    BY <1>1, <1>2, WorksAlone DEF Works, InLoop
  <2>2. CountsRows(p)'
    BY <1>1, <2>1, CountsStay
  <2> QED BY <1>1, <2>1, <2>2 DEF Works
<1> QED BY <1>1, <1>2, PassGoes

\* Between chunks nothing is lost: the pass says how far it is, or stops.
LEMMA HeartbeatKeeps ==
  ASSUME IInv, NEW p \in Pass, Heartbeat(p)
  PROVE  IInv'
<1>1. /\ TypeOK /\ pass[p] \in PassState /\ pass[p].pc = "loop" /\ pass[p].rows # {}
      /\ UNCHANGED <<row, made, queue, others>>
  BY PassType DEF Heartbeat, At, IInv
<1>2. PICK s \in PassState :
        /\ Become(p, s) /\ s.pc \in {"loop", "cancelled"}
        /\ s.rows = pass[p].rows
        /\ s.imported = pass[p].imported /\ s.errors = pass[p].errors
  <2>1. CASE Become(p, Goes(p, "cancelled"))
    <3>1. /\ Goes(p, "cancelled") \in PassState
          /\ Goes(p, "cancelled").pc = "cancelled"
          /\ Goes(p, "cancelled").rows = pass[p].rows
          /\ Goes(p, "cancelled").imported = pass[p].imported
          /\ Goes(p, "cancelled").errors = pass[p].errors
      BY <1>1 DEF Goes, PassState
    <3> QED BY <2>1, <3>1
  <2>2. CASE Become(p, [pass[p] EXCEPT !.since = 0])
    <3> DEFINE t == [pass[p] EXCEPT !.since = 0]
    <3>1. /\ t \in PassState /\ t.pc = "loop" /\ t.rows = pass[p].rows
          /\ t.imported = pass[p].imported /\ t.errors = pass[p].errors
      BY <1>1 DEF PassState
    <3> QED BY <2>2, <3>1
  <2> QED BY <2>1, <2>2 DEF Heartbeat
<1>3. batch'.status = batch.status /\ quiet' \in BOOLEAN /\ batch' \in Batches
  <2>1. pass[p].imported \in Nat /\ pass[p].errors \in Nat
    BY <1>1, PassType
  <2> QED BY <1>1, <2>1 DEF Heartbeat, TypeOK, Batches
<1> QED BY <1>1, <1>2, <1>3, MoveKeeps DEF TypeOK, InLoop

\* The next row: one less to do, one more of the chunk done.
LEMMA NextRowType ==
  ASSUME TypeOK, NEW p \in Pass, pass[p].since < Chunk
  PROVE  /\ NextRow(p) \in PassState /\ NextRow(p).pc = "loop"
         /\ NextRow(p).rows = pass[p].rows \ {InHand(p)}
         /\ NextRow(p).imported = pass[p].imported
         /\ NextRow(p).errors = pass[p].errors
<1>1. pass[p] \in PassState /\ pass[p].since \in 0..Chunk /\ Chunk \in Nat
  BY PassType DEF PassState
<1>2. pass[p].since + 1 \in 0..Chunk
  BY <1>1
<1> DEFINE h == InHand(p)
<1> HIDE DEF h
<1> DEFINE s == [pass[p] EXCEPT !.pc = "loop", !.rows = @ \ {h}, !.since = @ + 1]
<1>3. /\ s \in PassState /\ s.pc = "loop" /\ s.rows = pass[p].rows \ {h}
      /\ s.imported = pass[p].imported /\ s.errors = pass[p].errors
  BY <1>1, <1>2 DEF PassState
<1> QED BY <1>3 DEF NextRow, h

\* A row that did not parse is passed over, and keeps what it says.
LEMMA SkipRowKeeps ==
  ASSUME IInv, NEW p \in Pass, SkipRow(p)
  PROVE  IInv'
<1>1. /\ TypeOK /\ pass[p].pc = "loop" /\ pass[p].since < Chunk
      /\ Become(p, NextRow(p))
      /\ UNCHANGED <<batch, quiet, row, made, queue, others>>
  BY DEF SkipRow, Fresh, At, IInv
<1>2. PICK s \in PassState :
        /\ s = NextRow(p) /\ s.pc = "loop" /\ s.rows = pass[p].rows \ {InHand(p)}
        /\ s.imported = pass[p].imported /\ s.errors = pass[p].errors
  BY <1>1, NextRowType
<1> QED BY <1>1, <1>2, MoveKeeps DEF TypeOK, InLoop, Batches

\* The entity is made or refused, and neither the row nor the counts say so yet.
LEMMA ProcessRowKeeps ==
  ASSUME IInv, NEW p \in Pass, ProcessRow(p)
  PROVE  IInv'
<1>1. /\ TypeOK /\ pass[p].pc = "loop" /\ pass[p].rows # {} /\ pass[p].since < Chunk
      /\ pass[p] \in PassState /\ InHand(p) \in Row
      /\ UNCHANGED <<batch, quiet, row, queue, others>>
  BY PassType, InHandIsOne DEF ProcessRow, Fresh, At, IInv
<1>2. PICK s \in PassState :
        /\ Become(p, s) /\ s.pc \in {"made", "failed"} /\ s.since < Chunk
        /\ s.rows = pass[p].rows
        /\ s.imported = pass[p].imported /\ s.errors = pass[p].errors
  <2>1. ASSUME NEW pc \in {"made", "failed"}
        PROVE  /\ Goes(p, pc) \in PassState /\ Goes(p, pc).pc = pc
               /\ Goes(p, pc).since = pass[p].since /\ Goes(p, pc).rows = pass[p].rows
               /\ Goes(p, pc).imported = pass[p].imported
               /\ Goes(p, pc).errors = pass[p].errors
    BY <1>1 DEF Goes, PassState
  <2>2. PICK pc \in {"made", "failed"} : Become(p, Goes(p, pc))
    BY DEF ProcessRow
  <2> QED BY <1>1, <2>1, <2>2
<1>3. made' \in [Row -> Nat]
  <2>1. made \in [Row -> Nat]
    BY <1>1, Types
  <2> QED BY <1>1, <2>1 DEF ProcessRow
<1> QED BY <1>1, <1>2, <1>3, MoveKeeps DEF TypeOK, InLoop, Batches

\* What a mark makes of the pass.
Marked(p, i, e) == [NextRow(p) EXCEPT !.imported = i, !.errors = e]
LEMMA MarkType ==
  ASSUME IInv, NEW p \in Pass, At(p, "made") \/ At(p, "failed"),
         NEW i \in Nat, NEW e \in Nat
  PROVE  /\ Marked(p, i, e) \in PassState /\ Marked(p, i, e).pc = "loop"
         /\ Marked(p, i, e).rows = pass[p].rows \ {InHand(p)}
         /\ Marked(p, i, e).imported = i /\ Marked(p, i, e).errors = e
<1>1. /\ NextRow(p) \in PassState /\ NextRow(p).pc = "loop"
      /\ NextRow(p).rows = pass[p].rows \ {InHand(p)}
  BY NextRowType DEF IInv, InChunk, At
<1>2. PICK t \in PassState : t = NextRow(p)
  BY <1>1
<1> DEFINE u == [t EXCEPT !.imported = i, !.errors = e]
<1>3. /\ u \in PassState /\ u.pc = t.pc /\ u.rows = t.rows
      /\ u.imported = i /\ u.errors = e
  BY DEF PassState
<1>4. Marked(p, i, e) = u
  BY <1>2 DEF Marked
<1> HIDE DEF u
<1> QED BY <1>1, <1>2, <1>3, <1>4

\* A mark: the row says what it says, and the counts follow.
LEMMA MarkKeeps ==
  ASSUME IInv, NEW p \in Pass, At(p, "made") \/ At(p, "failed"),
         NEW s \in PassState, s.pc = "loop", s.rows = pass[p].rows \ {InHand(p)},
         Become(p, s), NEW to \in {"IMPORTED", "ERROR"},
         row' = [row EXCEPT ![InHand(p)] = to],
         faults' \in 0..MaxFaults,
         UNCHANGED <<batch, quiet, made, queue, outside, crashes, met>>,
         met = 0 => CountsRows(p)'
  PROVE  IInv'
<1>2. TypeOK /\ ~At(p, "idle") /\ pass'[p] = s /\ Become(p, s) /\ pass[p].pc # "list"
      /\ pass[p].rows # {}
  BY Becomes DEF IInv, At, InChunk
<1>3. PICK h \in Row : h = InHand(p) /\ h \in pass[p].rows
  BY <1>2, InHandIsOne
<1>4. row' \in [Row -> RowStatus] /\ \A r \in Row : r # h => row'[r] = row[r]
  BY <1>2, <1>3 DEF TypeOK, RowStatus
<1>5. ASSUME met = 0 PROVE Works(p)'
  <2>1. Works(p) /\ pass[p].rows \in SUBSET Row
    BY <1>2, <1>5, WorksAlone, PassType
  <2>2. \A r \in s.rows : row'[r] # "IMPORTED"
    BY <1>2, <1>3, <1>4, <2>1 DEF Works
  <2>3. CountsRows(p)'
    BY <1>5
  <2> QED BY <1>2, <2>1, <2>2, <2>3 DEF Works, InLoop
<1> QED BY <1>2, <1>4, <1>5, PassGoes DEF TypeOK, Batches

\* The error count after the read of the row's former status is a number.
LEMMA ErrorsNowIs ==
  ASSUME TypeOK, NEW p \in Pass
  PROVE  /\ ErrorsNow(p) \in Nat
         /\ At(p, "made") =>
              ErrorsNow(p) = IF row[InHand(p)] = "ERROR" /\ pass[p].errors > 0
                             THEN pass[p].errors - 1 ELSE pass[p].errors
         /\ ~At(p, "made") =>
              ErrorsNow(p) = IF row[InHand(p)] = "ERROR"
                             THEN pass[p].errors ELSE pass[p].errors + 1
<1>1. pass[p].errors \in Nat
  BY PassType
<1> QED BY <1>1 DEF ErrorsNow

\* What is known of the row in hand of a pass alone, and of the counts.
LEMMA InHandAlone ==
  ASSUME IInv, met = 0, NEW p \in Pass, At(p, "made") \/ At(p, "failed")
  PROVE  /\ InHand(p) \in Row /\ InHand(p) \in pass[p].rows
         /\ row[InHand(p)] # "IMPORTED" /\ CountsRows(p)
         /\ row[InHand(p)] = "ERROR" => Count("ERROR") > 0
         /\ pass[p].errors \in Nat /\ pass[p].imported \in Nat
         /\ Count("ERROR") \in Nat /\ Count("IMPORTED") \in Nat
         /\ faults \in Nat
<1>1. TypeOK /\ ~At(p, "idle") /\ pass[p].rows # {} /\ pass[p].pc \in InLoop
      /\ pass[p].pc # "list"
  BY DEF IInv, InChunk, At, InLoop
<1>2. InHand(p) \in Row /\ InHand(p) \in pass[p].rows
  BY <1>1, InHandIsOne
<1>3. row[InHand(p)] # "IMPORTED" /\ CountsRows(p)
  BY <1>1, <1>2, WorksAlone DEF Works
<1>4. Count("ERROR") \in Nat /\ Count("IMPORTED") \in Nat
  BY CountType
<1>5. Count("ERROR") = 0 => {r \in Row : row[r] = "ERROR"} = {}
  BY RowsAreCounted DEF Count
<1>6. row[InHand(p)] = "ERROR" => Count("ERROR") > 0
  BY <1>2, <1>4, <1>5
<1>7. pass[p].errors \in Nat /\ pass[p].imported \in Nat
  BY <1>1, PassType
<1>8. faults \in Nat
  BY <1>1, Types
<1> QED BY <1>2, <1>3, <1>4, <1>6, <1>7, <1>8

\* The row says so, and the two counts follow from what it said.
LEMMA MarkImportedKeeps ==
  ASSUME IInv, NEW p \in Pass, MarkImported(p)
  PROVE  IInv'
<1>1. /\ TypeOK /\ At(p, "made") /\ pass[p].imported \in Nat /\ pass[p].errors \in Nat
      /\ row' = [row EXCEPT ![InHand(p)] = "IMPORTED"]
      /\ UNCHANGED <<batch, quiet, made, queue, outside, crashes, faults, met>>
  BY PassType DEF MarkImported, IInv, others
<1>2. PICK i \in Nat, e \in Nat : i = pass[p].imported + 1 /\ e = ErrorsNow(p)
  <2>1. ErrorsNow(p) \in Nat /\ pass[p].imported + 1 \in Nat
    BY <1>1, ErrorsNowIs
  <2> QED BY <2>1
<1>3. Become(p, Marked(p, i, e))
  <2>1. NextRow(p).imported = pass[p].imported
    BY <1>1, NextRowType DEF IInv, InChunk, At
  <2>2. Become(p, [NextRow(p) EXCEPT !.imported = NextRow(p).imported + 1,
                                     !.errors = ErrorsNow(p)])
    BY DEF MarkImported
  <2> QED BY <1>2, <2>1, <2>2 DEF Marked
<1>4. pass'[p].imported = i /\ pass'[p].errors = e
      /\ pass'[p].rows = pass[p].rows \ {InHand(p)}
  <2>1. pass'[p] = Marked(p, i, e)
    BY <1>1, <1>3, MarkType, Becomes
  <2> QED BY <1>1, <2>1, MarkType
<1>5. ASSUME met = 0 PROVE CountsRows(p)'
  <2>1. PICK h \in Row : h = InHand(p) /\ h \in pass[p].rows /\ row[h] # "IMPORTED"
    BY <1>1, <1>5, InHandAlone
  <2>2. /\ Count("IMPORTED")' = Count("IMPORTED") + 1
        /\ Count("ERROR")' = IF row[h] = "ERROR" THEN Count("ERROR") - 1
                             ELSE Count("ERROR")
    BY <1>1, <2>1, CountMoves
  <2>3. /\ CountsRows(p) /\ (row[h] = "ERROR" => Count("ERROR") > 0)
        /\ Count("ERROR") \in Nat /\ faults \in Nat
    BY <1>1, <1>5, <2>1, InHandAlone
  <2>4. e = IF row[h] = "ERROR" /\ pass[p].errors > 0
            THEN pass[p].errors - 1 ELSE pass[p].errors
    BY <1>1, <1>2, <2>1, ErrorsNowIs
  <2>5. e <= Count("ERROR")' + faults' /\ Count("ERROR")' <= e + faults'
    BY <1>1, <2>2, <2>3, <2>4 DEF CountsRows, ErrorsWithin
  <2>6. e # Count("ERROR")' => pass[p].errors # Count("ERROR")
    BY <1>1, <2>2, <2>3, <2>4
  <2>7. ASSUME NEW r \in Row \ pass[p].rows, row[r] = "ERROR"
        PROVE  r \in Row \ pass'[p].rows /\ row'[r] = "ERROR"
    BY <1>1, <1>4, <2>1, <2>7 DEF TypeOK
  <2>8. i = Count("IMPORTED")'
    BY <1>2, <2>2, <2>3 DEF CountsRows
  <2>9. e # Count("ERROR")' => \E r \in Row \ pass'[p].rows : row'[r] = "ERROR"
    BY <2>3, <2>6, <2>7 DEF CountsRows
  <2> QED BY <1>4, <2>5, <2>8, <2>9 DEF CountsRows, ErrorsWithin
<1>6. PICK s \in PassState :
        Become(p, s) /\ s.pc = "loop" /\ s.rows = pass[p].rows \ {InHand(p)}
  <2>1. /\ Marked(p, i, e) \in PassState /\ Marked(p, i, e).pc = "loop"
        /\ Marked(p, i, e).rows = pass[p].rows \ {InHand(p)}
    BY <1>1, MarkType
  <2> QED BY <1>3, <2>1
<1> QED BY <1>1, <1>5, <1>6, MarkKeeps DEF TypeOK

\* A row that fails is an error, and counted as one unless it was.
LEMMA MarkErrorKeeps ==
  ASSUME IInv, NEW p \in Pass, MarkError(p)
  PROVE  IInv'
<1>1. /\ TypeOK /\ At(p, "failed") /\ ~At(p, "made")
      /\ pass[p].imported \in Nat /\ pass[p].errors \in Nat
      /\ row' = [row EXCEPT ![InHand(p)] = "ERROR"]
      /\ UNCHANGED <<batch, quiet, made, queue, outside, crashes, faults, met>>
  BY PassType DEF MarkError, IInv, others, At
<1>2. PICK i \in Nat, e \in Nat : i = pass[p].imported /\ e = ErrorsNow(p)
  BY <1>1, ErrorsNowIs
<1>3. Become(p, Marked(p, i, e))
  <2>1. NextRow(p).imported = pass[p].imported /\ NextRow(p) \in PassState
    BY <1>1, NextRowType DEF IInv, InChunk, At
  <2>2. Become(p, [NextRow(p) EXCEPT !.errors = ErrorsNow(p)])
    BY DEF MarkError
  <2>3. PICK t \in PassState : t = NextRow(p)
    BY <2>1
  <2>4. [t EXCEPT !.errors = e] = [t EXCEPT !.imported = t.imported, !.errors = e]
    BY DEF PassState
  <2> QED BY <1>2, <2>1, <2>2, <2>3, <2>4 DEF Marked
<1>4. pass'[p].imported = i /\ pass'[p].errors = e
      /\ pass'[p].rows = pass[p].rows \ {InHand(p)}
  <2>1. pass'[p] = Marked(p, i, e)
    BY <1>1, <1>3, MarkType, Becomes
  <2> QED BY <1>1, <2>1, MarkType
<1>5. ASSUME met = 0 PROVE CountsRows(p)'
  <2>1. PICK h \in Row : h = InHand(p) /\ h \in pass[p].rows /\ row[h] # "IMPORTED"
    BY <1>1, <1>5, InHandAlone
  <2>2. /\ Count("IMPORTED")' = Count("IMPORTED")
        /\ Count("ERROR")' = IF row[h] = "ERROR" THEN Count("ERROR")
                             ELSE Count("ERROR") + 1
    BY <1>1, <2>1, CountMoves
  <2>3. CountsRows(p) /\ Count("ERROR") \in Nat /\ faults \in Nat
    BY <1>1, <1>5, InHandAlone
  <2>4. e = IF row[h] = "ERROR" THEN pass[p].errors ELSE pass[p].errors + 1
    BY <1>1, <1>2, <2>1, ErrorsNowIs
  <2>5. e <= Count("ERROR")' + faults' /\ Count("ERROR")' <= e + faults'
    BY <1>1, <2>2, <2>3, <2>4 DEF CountsRows, ErrorsWithin
  <2>6. e # Count("ERROR")' => pass[p].errors # Count("ERROR")
    BY <1>1, <2>2, <2>3, <2>4
  <2>7. ASSUME NEW r \in Row \ pass[p].rows, row[r] = "ERROR"
        PROVE  r \in Row \ pass'[p].rows /\ row'[r] = "ERROR"
    BY <1>1, <1>4, <2>1, <2>7 DEF TypeOK
  <2>8. i = Count("IMPORTED")'
    BY <1>2, <2>2, <2>3 DEF CountsRows
  <2>9. e # Count("ERROR")' => \E r \in Row \ pass'[p].rows : row'[r] = "ERROR"
    BY <2>3, <2>6, <2>7 DEF CountsRows
  <2> QED BY <1>4, <2>5, <2>8, <2>9 DEF CountsRows, ErrorsWithin
<1>6. PICK s \in PassState :
        Become(p, s) /\ s.pc = "loop" /\ s.rows = pass[p].rows \ {InHand(p)}
  <2>1. /\ Marked(p, i, e) \in PassState /\ Marked(p, i, e).pc = "loop"
        /\ Marked(p, i, e).rows = pass[p].rows \ {InHand(p)}
    BY <1>1, MarkType
  <2> QED BY <1>3, <2>1
<1> QED BY <1>1, <1>5, <1>6, MarkKeeps DEF TypeOK

\* An update that fails leaves an error behind, counted at most one too many or
\* one too few: the row is there, and this pass is done with it.
LEMMA MarkFailsKeeps ==
  ASSUME IInv, NEW p \in Pass, MarkFails(p)
  PROVE  IInv'
<1>1. /\ TypeOK /\ (At(p, "made") \/ At(p, "failed"))
      /\ pass[p].imported \in Nat /\ pass[p].errors \in Nat
      /\ row' = [row EXCEPT ![InHand(p)] = "ERROR"]
      /\ faults \in Nat /\ faults' = faults + 1 /\ faults' \in 0..MaxFaults
      /\ UNCHANGED <<batch, quiet, made, queue, outside, crashes, met>>
  <2>1. TypeOK /\ faults \in Nat /\ MaxFaults \in Nat
    BY Types DEF IInv
  <2> QED BY <2>1, PassType DEF MarkFails
<1>2. PICK n \in {pass[p].errors, ErrorsNow(p)} :
        Become(p, [NextRow(p) EXCEPT
          !.errors = IF row[InHand(p)] = "ERROR" THEN n ELSE n + 1])
  BY DEF MarkFails
<1>3. n \in Nat
  BY <1>1, <1>2, ErrorsNowIs
<1>4. PICK i \in Nat, e \in Nat :
        /\ i = pass[p].imported
        /\ e = IF row[InHand(p)] = "ERROR" THEN n ELSE n + 1
  BY <1>1, <1>3
<1>5. Become(p, Marked(p, i, e))
  <2>1. NextRow(p).imported = pass[p].imported /\ NextRow(p) \in PassState
    BY <1>1, NextRowType DEF IInv, InChunk, At
  <2>2. PICK t \in PassState : t = NextRow(p)
    BY <2>1
  <2>3. [t EXCEPT !.errors = e] = [t EXCEPT !.imported = t.imported, !.errors = e]
    BY DEF PassState
  <2> QED BY <1>2, <1>4, <2>1, <2>2, <2>3 DEF Marked
<1>6. pass'[p].imported = i /\ pass'[p].errors = e
      /\ pass'[p].rows = pass[p].rows \ {InHand(p)}
  <2>1. pass'[p] = Marked(p, i, e)
    BY <1>1, <1>5, MarkType, Becomes
  <2> QED BY <1>1, <2>1, MarkType
<1>7. ASSUME met = 0 PROVE CountsRows(p)'
  <2>1. PICK h \in Row : h = InHand(p) /\ h \in pass[p].rows /\ row[h] # "IMPORTED"
    BY <1>1, <1>7, InHandAlone
  <2>2. /\ Count("IMPORTED")' = Count("IMPORTED")
        /\ Count("ERROR")' = IF row[h] = "ERROR" THEN Count("ERROR")
                             ELSE Count("ERROR") + 1
    BY <1>1, <2>1, CountMoves
  <2>3. CountsRows(p) /\ Count("ERROR") \in Nat
    BY <1>1, <1>7, InHandAlone
  <2>4. /\ row[h] = "ERROR" => e \in {pass[p].errors, pass[p].errors - 1}
        /\ row[h] # "ERROR" => e \in {pass[p].errors + 1, pass[p].errors + 2}
    BY <1>1, <1>2, <1>4, <2>1, ErrorsNowIs
  <2>5. e <= Count("ERROR")' + faults' /\ Count("ERROR")' <= e + faults'
    <3>1. pass[p].errors <= Count("ERROR") + faults
          /\ Count("ERROR") <= pass[p].errors + faults
      BY <2>3 DEF CountsRows, ErrorsWithin
    <3>2. e <= Count("ERROR")' + (faults + 1) /\ Count("ERROR")' <= e + (faults + 1)
      BY <1>1, <2>2, <2>3, <2>4, <3>1
    <3> QED BY <1>1, <3>2
  <2>6. h \in Row \ pass'[p].rows /\ row'[h] = "ERROR"
    BY <1>1, <1>6, <2>1 DEF TypeOK
  <2>7. i = Count("IMPORTED")'
    BY <1>4, <2>2, <2>3 DEF CountsRows
  <2> QED BY <1>6, <2>5, <2>6, <2>7 DEF CountsRows, ErrorsWithin
<1>8. PICK s \in PassState :
        Become(p, s) /\ s.pc = "loop" /\ s.rows = pass[p].rows \ {InHand(p)}
  <2>1. /\ Marked(p, i, e) \in PassState /\ Marked(p, i, e).pc = "loop"
        /\ Marked(p, i, e).rows = pass[p].rows \ {InHand(p)}
    BY <1>1, MarkType
  <2> QED BY <1>5, <2>1
<1> QED BY <1>1, <1>7, <1>8, MarkKeeps DEF TypeOK

\* What a pass alone counts when it ends is what the rows say.
LEMMA FinalStatusTells ==
  ASSUME TypeOK, NEW p \in Pass, Works(p),
         At(p, "cancelled") \/ (At(p, "loop") /\ pass[p].rows = {})
  PROVE  /\ FinalStatus(p) \in TerminalStatus /\ CountsRows(p)
         /\ FinalStatus(p) = "COMPLETE" <=> Count("IMPORTED") = Rows
         /\ FinalStatus(p) = "FAILED" => Count("IMPORTED") = 0
<1>1. CountsRows(p)
  BY DEF Works, InLoop, At
<1>2. Count("IMPORTED") = Rows => \A r \in Row : row[r] = "IMPORTED"
  <2>1. Count("IMPORTED") = Rows => {r \in Row : row[r] = "IMPORTED"} = Row
    BY RowsAreCounted DEF Count
  <2> QED BY <2>1
<1>3. Count("IMPORTED") = Rows => pass[p].errors = 0
  <2>1. Count("IMPORTED") = Rows => {r \in Row : row[r] = "ERROR"} = {}
    BY <1>2
  <2>2. Count("IMPORTED") = Rows => Count("ERROR") = 0
    BY <2>1, FS_EmptySet DEF Count
  <2> QED BY <1>1, <1>2, <2>2 DEF CountsRows
<1>4. CASE At(p, "cancelled")
  <2>1. pass[p].rows # {} /\ pass[p].rows \in SUBSET Row
        /\ \A r \in pass[p].rows : row[r] # "IMPORTED"
    BY <1>4, PassType DEF Works, At
  <2>2. Count("IMPORTED") # Rows
    BY <1>2, <2>1
  <2>3. FinalStatus(p) = "CANCELLED"
    BY <1>4 DEF FinalStatus
  <2> QED BY <1>1, <2>2, <2>3 DEF TerminalStatus
<1>5. CASE ~At(p, "cancelled")
  <2>1. FinalStatus(p) = IF pass[p].imported = 0 THEN "FAILED"
                         ELSE IF pass[p].errors = 0 /\ pass[p].imported = Rows
                              THEN "COMPLETE" ELSE "PARTIAL"
    BY <1>5 DEF FinalStatus
  <2>2. pass[p].imported = Count("IMPORTED") /\ Rows # 0
    BY <1>1, ImportAssumption DEF CountsRows
  <2> QED BY <1>1, <1>3, <2>1, <2>2 DEF TerminalStatus
<1> QED BY <1>4, <1>5

\* A pass is at rest, and then begins with nothing in hand.
LEMMA RestType ==
  /\ AtRest \in PassState /\ AtRest.pc = "idle"
  /\ \A scope \in Scope :
       LET s == [AtRest EXCEPT !.pc = "list", !.scope = scope]
       IN  s \in PassState /\ s.pc = "list"
<1>1. 0 \in 0..Chunk
  BY ImportAssumption
<1>2. AtRest \in PassState /\ AtRest.pc = "idle"
  BY <1>1 DEF AtRest, PassState, Scope
<1>3. ASSUME NEW scope \in Scope
      PROVE  LET s == [AtRest EXCEPT !.pc = "list", !.scope = scope]
             IN  s \in PassState /\ s.pc = "list"
  BY <1>2, <1>3 DEF PassState
<1> QED BY <1>2, <1>3

\* A pass that leaves, for whatever reason, leaves nobody at work where it was
\* alone.
LEMMA PassLeaves ==
  ASSUME IInv, NEW p \in Pass, ~At(p, "idle"), Become(p, AtRest),
         batch' \in Batches, quiet' \in BOOLEAN, row' = row, made' = made,
         queue' \in [Scope -> Nat], crashes' \in 0..MaxCrashes,
         UNCHANGED <<outside, faults, met>>,
         met = 0 => Summary'
  PROVE  IInv'
<1>1. /\ TypeOK /\ pass' \in [Pass -> PassState] /\ pass'[p].pc = "idle"
      /\ \A q \in Pass : q # p => pass'[q] = pass[q]
  BY RestType, Becomes, BecomesType DEF IInv
<1>2. TypeOK'
  BY <1>1 DEF TypeOK, PassState, Batches, outside
<1>3. InChunk'
  BY <1>1 DEF IInv, InChunk
<1>4. ASSUME met = 0 PROVE Alone'
  <2>1. Working = {p}
    BY <1>4, WorksAlone
  <2>2. Working' = {}
    BY <1>1, <2>1 DEF Working, At
  <2> QED BY <1>4, <2>2 DEF Alone
<1>5. met' = met
  OBVIOUS
<1> QED BY <1>2, <1>3, <1>4, <1>5 DEF IInv

\* A pass alone ends with what the rows say.
LEMMA FinaliseKeeps ==
  ASSUME IInv, NEW p \in Pass, Finalise(p)
  PROVE  IInv'
<1>1. /\ ~At(p, "idle") /\ TypeOK
      /\ pass[p].imported \in Nat /\ pass[p].errors \in Nat
      /\ At(p, "cancelled") \/ (At(p, "loop") /\ pass[p].rows = {})
      /\ Become(p, AtRest) /\ UNCHANGED <<row, made, queue, others>> /\ quiet' = FALSE
  BY PassType DEF Finalise, At, IInv
<1>2. FinalStatus(p) \in TerminalStatus
  BY DEF FinalStatus, TerminalStatus
<1>3. /\ batch'.status = FinalStatus(p) /\ batch'.imported = pass[p].imported
      /\ batch'.errors = pass[p].errors /\ batch' \in Batches
  <2> DEFINE f == FinalStatus(p)
  <2> HIDE DEF f
  <2>1. batch' = [batch EXCEPT !.status = f, !.imported = pass[p].imported,
                               !.errors = pass[p].errors]
    BY DEF Finalise, f
  <2>2. f \in TerminalStatus /\ batch \in Batches
    BY <1>1, <1>2, Types DEF f
  <2> QED BY <1>1, <2>1, <2>2 DEF Batches, f
<1>4. ASSUME met = 0 PROVE Summary'
  <2>1. Works(p)
    BY <1>1, <1>4, WorksAlone
  <2>2. /\ CountsRows(p)
        /\ FinalStatus(p) = "COMPLETE" <=> Count("IMPORTED") = Rows
        /\ FinalStatus(p) = "FAILED" => Count("IMPORTED") = 0
    BY <1>1, <2>1, FinalStatusTells
  <2>3. Count("IMPORTED")' = Count("IMPORTED") /\ Count("ERROR")' = Count("ERROR")
    BY <1>1 DEF Count
  <2>4. faults' = faults
    BY <1>1 DEF others
  <2> QED BY <1>3, <2>2, <2>3, <2>4 DEF Summary, CountsRows, ErrorsWithin
<1>5. queue' \in [Scope -> Nat] /\ crashes' \in 0..MaxCrashes
  BY <1>1 DEF TypeOK, others
<1>6. UNCHANGED <<outside, faults, met>>
  BY <1>1 DEF others
<1> QED BY <1>1, <1>3, <1>4, <1>5, <1>6, PassLeaves

\* A pass that dies leaves the batch as it is, at rest no more than before.
LEMMA CrashKeeps ==
  ASSUME IInv, NEW p \in Pass, Crash(p)
  PROVE  IInv'
<1>1. /\ ~At(p, "idle") /\ TypeOK /\ Become(p, AtRest)
      /\ crashes < MaxCrashes /\ crashes' = crashes + 1
      /\ UNCHANGED <<batch, quiet, row, made, outside, faults, met>>
  BY DEF Crash, IInv, Working
<1>2. queue' \in [Scope -> Nat]
  <2>1. pass[p] \in PassState /\ queue \in [Scope -> Nat]
    BY <1>1, Types, PassType
  <2>2. pass[p].scope \in Scope /\ \A x \in Scope : queue[x] + 1 \in Nat
    BY <2>1 DEF PassState
  <2> QED BY <2>1, <2>2 DEF Crash
<1>3. crashes' \in 0..MaxCrashes
  <2>1. crashes \in Nat /\ MaxCrashes \in Nat
    BY <1>1, Types
  <2> QED BY <1>1, <2>1
<1>4. ASSUME met = 0 PROVE Summary'
  BY <1>1, <1>4, WorksAlone DEF Summary
<1>5. batch' \in Batches /\ quiet' \in BOOLEAN
  BY <1>1, Types
<1> QED BY <1>1, <1>2, <1>3, <1>4, <1>5, PassLeaves

\* A job is taken: alone where nobody is at work.
LEMMA ClaimKeeps ==
  ASSUME IInv, NEW p \in Pass, NEW scope \in Scope, Claim(p, scope)
  PROVE  IInv'
<1> DEFINE s == [AtRest EXCEPT !.pc = "list", !.scope = scope]
<1>1. /\ At(p, "idle") /\ TypeOK /\ InChunk /\ Become(p, s)
      /\ UNCHANGED <<row, made, outside, crashes, faults>> /\ quiet' = FALSE
      /\ batch' = [batch EXCEPT !.status = "PROCESSING"]
      /\ queue[scope] > 0 /\ queue' = [queue EXCEPT ![scope] = @ - 1]
  BY DEF Claim, IInv
<1>2. s \in PassState /\ s.pc = "list"
  BY RestType
<1> HIDE DEF s
<1>3. /\ pass'[p].pc = "list" /\ pass' \in [Pass -> PassState]
      /\ \A q \in Pass : q # p => pass'[q] = pass[q]
  BY <1>1, <1>2, Becomes, BecomesType
<1>4. batch'.status = "PROCESSING" /\ batch' \in Batches
  <2>1. batch \in Batches
    BY <1>1, Types
  <2> QED BY <1>1, <2>1 DEF Batches
<1>5. queue' \in [Scope -> Nat]
  <2>1. queue \in [Scope -> Nat] /\ queue[scope] - 1 \in Nat
    BY <1>1, Types
  <2> QED BY <1>1, <2>1
<1>6. /\ met \in Nat /\ met' \in 0..MaxMeetings
      /\ met' = 0 => met = 0 /\ Working = {}
  <2>1. met \in 0..MaxMeetings /\ MaxMeetings \in Nat
    BY <1>1 DEF TypeOK
  <2>2. IF Working = {} THEN met' = met ELSE met < MaxMeetings /\ met' = met + 1
    BY DEF Claim
  <2> QED BY <2>1, <2>2
<1>7. TypeOK'
  BY <1>1, <1>3, <1>4, <1>5, <1>6 DEF TypeOK, PassState, Batches, outside
<1>8. InChunk'
  BY <1>1, <1>3 DEF InChunk
<1>9. ASSUME met' = 0 PROVE Alone'
  <2>1. Working = {}
    BY <1>6, <1>9
  <2>2. Working' = {p}
    BY <1>3, <2>1 DEF Working, At
  <2>3. Works(p)'
    BY <1>3, <1>4 DEF Works, InLoop, TerminalStatus
  <2>4. Summary'
    BY <1>4 DEF Summary, TerminalStatus
  <2> QED BY <2>2, <2>3, <2>4 DEF Alone
<1> QED BY <1>7, <1>8, <1>9 DEF IInv

\* The sweep, the operators, the queue and the clock write the batch, never its
\* rows; and what they write of the status is that it waits.
LEMMA OthersKeep ==
  ASSUME IInv, TypeOK', UNCHANGED <<row, pass, faults, met>>,
         \/ batch'.status = "PENDING"
         \/ /\ batch'.status = batch.status
            /\ batch'.imported = batch.imported /\ batch'.errors = batch.errors
  PROVE  IInv'
<1>1. InChunk'
  BY DEF IInv, InChunk
<1>2. ASSUME met = 0 PROVE Alone'
  <2>1. Alone
    BY <1>2 DEF IInv
  <2>2. Working' = Working
    BY DEF Working, At
  <2>3. Count("IMPORTED")' = Count("IMPORTED") /\ Count("ERROR")' = Count("ERROR")
    BY DEF Count
  <2>4. Summary'
    BY <2>1, <2>3 DEF Alone, Summary, TerminalStatus, ErrorsWithin
  <2>5. ASSUME NEW p \in Working PROVE Works(p)'
    <3>1. Works(p)
      BY <2>1 DEF Alone
    <3>2. CountsRows(p) => CountsRows(p)'
      BY <2>3 DEF CountsRows, ErrorsWithin
    <3> QED BY <3>1, <3>2 DEF Works, TerminalStatus, InLoop
  <2> QED BY <2>1, <2>2, <2>4, <2>5 DEF Alone
<1> QED BY <1>1, <1>2 DEF IInv

\* What the others do keeps the types.
LEMMA OthersType ==
  ASSUME TypeOK,
         \/ GoQuiet \/ Boot \/ PutBack \/ Reenqueue \/ CancelImport
         \/ \E o \in Operator : ReadForRetry(o) \/ RetryImport(o)
  PROVE  /\ TypeOK' /\ UNCHANGED <<row, made, pass, crashes, faults, met>>
         /\ \/ batch'.status = "PENDING"
            \/ /\ batch'.status = batch.status
               /\ batch'.imported = batch.imported /\ batch'.errors = batch.errors
<1>0. /\ batch \in Batches /\ queue \in [Scope -> Nat] /\ lost \in 0..MaxLost
      /\ retrying \in [Operator -> [at : {"no", "read", "put back"}, scope : Scope]]
      /\ MaxLost \in Nat
  BY Types DEF TypeOK
<1>1. CASE GoQuiet \/ Boot
  BY <1>1 DEF GoQuiet, Boot, others, outside, TypeOK
<1>2. CASE PutBack \/ CancelImport
  <2>1. /\ batch' \in Batches
        /\ \/ batch'.status = "PENDING"
           \/ /\ batch'.status = batch.status
              /\ batch'.imported = batch.imported /\ batch'.errors = batch.errors
    BY <1>0, <1>2 DEF PutBack, CancelImport, Batches
  <2>2. /\ booting' \in {"no", "listed", "put back"}
        /\ UNCHANGED <<quiet, row, made, pass, queue, retrying, retries, lost,
                       crashes, faults, met>>
    BY <1>2 DEF PutBack, CancelImport, others, outside, TypeOK
  <2> QED BY <2>1, <2>2 DEF TypeOK, Batches
<1>3. ASSUME NEW scope \in Scope, Enqueue(scope)
      PROVE  queue' \in [Scope -> Nat] /\ lost' \in 0..MaxLost
  <2>1. queue \in [Scope -> Nat] /\ lost \in 0..MaxLost /\ MaxLost \in Nat
    BY <1>0
  <2>2. queue[scope] + 1 \in Nat
    BY <1>3, <2>1
  <2>3. CASE queue' = [queue EXCEPT ![scope] = @ + 1] /\ UNCHANGED lost
    BY <1>3, <2>1, <2>2, <2>3
  <2>4. CASE lost < MaxLost /\ lost' = lost + 1 /\ UNCHANGED queue
    BY <2>1, <2>4
  <2> QED BY <1>3, <2>3, <2>4 DEF Enqueue
<1>4. CASE Reenqueue
  <2>1. queue' \in [Scope -> Nat] /\ lost' \in 0..MaxLost
    BY <1>3, <1>4 DEF Reenqueue, Scope
  <2> QED BY <1>4, <2>1 DEF Reenqueue, TypeOK
<1>5. ASSUME NEW o \in Operator, ReadForRetry(o)
      PROVE  TypeOK'
  <2>1. retries' \in 0..MaxRetries
    <3>1. retries \in 0..MaxRetries /\ MaxRetries \in Nat
      BY DEF TypeOK
    <3> QED BY <1>5, <3>1 DEF ReadForRetry
  <2>2. retrying' \in [Operator -> [at : {"no", "read", "put back"}, scope : Scope]]
    BY <1>0, <1>5 DEF ReadForRetry, Scope
  <2> QED BY <1>5, <2>1, <2>2 DEF ReadForRetry, TypeOK
<1>6. ASSUME NEW o \in Operator, WriteRetry(o)
      PROVE  TypeOK' /\ batch'.status = "PENDING"
  <2>1. batch' \in Batches /\ batch'.status = "PENDING"
    BY <1>0, <1>6 DEF WriteRetry, Batches
  <2>2. retrying' \in [Operator -> [at : {"no", "read", "put back"}, scope : Scope]]
    BY <1>0, <1>6 DEF WriteRetry
  <2> QED BY <1>6, <2>1, <2>2 DEF WriteRetry, TypeOK, Batches
<1>7. ASSUME NEW o \in Operator, EnqueueRetry(o)
      PROVE  TypeOK'
  <2>1. queue' \in [Scope -> Nat] /\ lost' \in 0..MaxLost
    BY <1>0, <1>3, <1>7 DEF EnqueueRetry
  <2>2. retrying' \in [Operator -> [at : {"no", "read", "put back"}, scope : Scope]]
    BY <1>0, <1>7 DEF EnqueueRetry, NoRetry, Scope
  <2> QED BY <1>7, <2>1, <2>2 DEF EnqueueRetry, TypeOK
<1>8. CASE \E o \in Operator : ReadForRetry(o) \/ RetryImport(o)
  BY <1>5, <1>6, <1>7, <1>8 DEF RetryImport, ReadForRetry, WriteRetry, EnqueueRetry
<1> QED BY <1>1, <1>2, <1>4, <1>8 DEF Reenqueue

-----------------------------------------------------------------------------
(***************************************************************************)
(* The invariant, and what a batch at rest counts.                         *)
(***************************************************************************)
\* Nothing is imported, and nobody is at work.
LEMMA InitIInv == Init => IInv
<1> SUFFICES ASSUME Init PROVE IInv
  OBVIOUS
<1>1. TypeOK
  <2>1. pass \in [Pass -> PassState]
    BY RestType DEF Init
  <2>2. /\ crashes \in 0..MaxCrashes /\ retries \in 0..MaxRetries
        /\ faults \in 0..MaxFaults /\ met \in 0..MaxMeetings
        /\ lost \in 0..MaxLost /\ lost \in {0, 1}
    BY ImportAssumption DEF Init
  <2>3. queue \in [Scope -> Nat]
    BY <2>2 DEF Init
  <2>4. retrying \in [Operator -> [at : {"no", "read", "put back"}, scope : Scope]]
    BY DEF Init, NoRetry, Scope
  <2> QED BY <2>1, <2>2, <2>3, <2>4 DEF Init, TypeOK, PassState
<1>2. Working = {} /\ InChunk
  BY DEF Init, Working, At, InChunk, AtRest
<1>3. Summary
  BY DEF Init, Summary, TerminalStatus
<1> QED BY <1>1, <1>2, <1>3 DEF IInv, Alone

\* Every step keeps the invariant.
LEMMA NextIInv == IInv /\ [Next]_vars => IInv'
<1> SUFFICES ASSUME IInv, [Next]_vars PROVE IInv'
  OBVIOUS
<1>0. TypeOK
  BY DEF IInv
<1>1. ASSUME NEW p \in Pass, Step(p) PROVE IInv'
  BY <1>1, ClaimKeeps, ListRowsKeeps, ParseRowsKeeps, CountRowsKeeps, HeartbeatKeeps,
     SkipRowKeeps, ProcessRowKeeps, MarkImportedKeeps, MarkErrorKeeps, MarkFailsKeeps,
     FinaliseKeeps
     DEF Step
<1>2. ASSUME NEW p \in Pass, Crash(p) PROVE IInv'
  BY <1>2, CrashKeeps
<1>3. CASE UNCHANGED vars
  BY <1>0, <1>3, OthersKeep DEF vars, TypeOK
<1>4. CASE \/ GoQuiet \/ Boot \/ PutBack \/ Reenqueue \/ CancelImport
           \/ \E o \in Operator : ReadForRetry(o) \/ RetryImport(o)
  BY <1>0, <1>4, OthersType, OthersKeep
<1> QED BY <1>1, <1>2, <1>3, <1>4 DEF Next

\* The invariant holds in every reachable state.
THEOREM ImportInvariance == Spec => []IInv
BY InitIInv, NextIInv, PTL DEF Spec

\* A batch at rest counts its rows, its errors but for the updates that failed,
\* as long as no pass has begun beside another.
THEOREM SummariesAreTrue == Spec => []SummaryTellsRows
<1>1. IInv => SummaryTellsRows
  BY DEF IInv, Alone, Summary, SummaryTellsRows, ErrorsWithin
<1> QED BY <1>1, ImportInvariance, PTL

-----------------------------------------------------------------------------
(***************************************************************************)
(* A row makes one entity, and another for each accident at most.  Any     *)
(* pass that still has the row before it may make one more, so they are    *)
(* counted with what has been made; a row that is marked is before none.   *)
(***************************************************************************)
\* The accidents: deaths, updates that failed, passes that began beside others.
Spent == crashes + faults + met

\* A pass holds a row it has made an entity for; it may make one for the rows
\* it has yet to come to; and those are not before it which it has done.
Holds(p, r) == At(p, "made") /\ InHand(p) = r
MayMake(p, r) ==
  \/ At(p, "list")
  \/ pass[p].pc \notin {"idle", "list"} /\ r \in pass[p].rows /\ ~Holds(p, r)
Away(p, r) == pass[p].pc \in {"idle", "list"} \/ r \notin pass[p].rows
Makers(r) == {p \in Pass : MayMake(p, r)}
ToMake(p, r) == IF MayMake(p, r) THEN 1 ELSE 0

\* Nobody has the row before him, and it has not been marked.
Free(r) == Makers(r) = {} /\ row[r] # "IMPORTED" /\ \A p \in Pass : ~Holds(p, r)
Owed(r) ==
  \/ /\ made[r] + Cardinality(Makers(r)) <= Spent + 1
     /\ Free(r) => made[r] <= Spent
  \/ /\ row[r] = "IMPORTED" /\ made[r] <= Spent + 1
     /\ \A p \in Pass : Away(p, r)
OInv == IInv /\ \A r \in Row : Owed(r)

\* The figures are numbers.
LEMMA OwedType ==
  ASSUME TypeOK, NEW r \in Row
  PROVE  /\ made[r] \in Nat /\ Spent \in Nat
         /\ IsFiniteSet(Makers(r)) /\ Cardinality(Makers(r)) \in Nat
<1>1. made[r] \in Nat /\ Spent \in Nat
  BY Types DEF Spent
<1>2. IsFiniteSet(Makers(r))
  BY FS_Subset, ImportAssumption DEF Makers
<1> QED BY <1>1, <1>2, FS_CardinalityType

\* One pass that moves moves the number of those who may make an entity.
LEMMA MakersMove ==
  ASSUME TypeOK, NEW p \in Pass, NEW r \in Row,
         \A q \in Pass : q # p => pass'[q] = pass[q]
  PROVE  /\ Cardinality(Makers(r)) \in Nat /\ Cardinality(Makers(r))' \in Nat
         /\ Cardinality(Makers(r))' + ToMake(p, r) = Cardinality(Makers(r)) + ToMake(p, r)'
         /\ Makers(r)' = {} => Cardinality(Makers(r))' = 0
         /\ Makers(r) = {} => Cardinality(Makers(r)) = 0
         /\ Makers(r)' = {} /\ ToMake(p, r) = 0 => Makers(r) = {}
<1>1. IsFiniteSet(Pass)
  BY ImportAssumption
<1>2. \A q \in Pass \ {p} : MayMake(q, r)' <=> MayMake(q, r)
  BY DEF MayMake, At, Holds, InHand
<1> DEFINE O == {q \in Pass \ {p} : MayMake(q, r)}
<1>3. IsFiniteSet(O) /\ p \notin O
  BY <1>1, FS_Subset
<1>4. Makers(r) = IF MayMake(p, r) THEN O \union {p} ELSE O
  BY DEF Makers
<1>5. Makers(r)' = IF MayMake(p, r)' THEN O \union {p} ELSE O
  BY <1>2 DEF Makers
<1> HIDE DEF O
<1>6. Cardinality(O) \in Nat /\ Cardinality(O \union {p}) = Cardinality(O) + 1
  BY <1>3, FS_CardinalityType, FS_AddElement
<1>7. Cardinality(Makers(r)) = Cardinality(O) + ToMake(p, r)
      /\ ToMake(p, r) \in {0, 1}
  BY <1>4, <1>6 DEF ToMake
<1>8. Cardinality(Makers(r))' = Cardinality(O) + ToMake(p, r)'
      /\ ToMake(p, r)' \in {0, 1}
  BY <1>5, <1>6 DEF ToMake
<1>9. Cardinality({}) = 0
  BY FS_EmptySet
<1>10. Makers(r)' = {} /\ ToMake(p, r) = 0 => Makers(r) = {}
  BY <1>4, <1>5 DEF ToMake
<1>11. (Makers(r)' = {} => Cardinality(Makers(r))' = 0)
       /\ (Makers(r) = {} => Cardinality(Makers(r)) = 0)
  BY <1>9
<1> QED BY <1>6, <1>7, <1>8, <1>10, <1>11

\* What a step of a pass must do to a row for the row to stay within its due:
\* make no more than it had to make or than is spent on it; if it leaves the
\* row free, have had less to make before, or have had nothing to do with it;
\* and leave alone a marked row it is done with.
Within(p, r) ==
  made'[r] + ToMake(p, r)' + Spent <= made[r] + ToMake(p, r) + Spent'
Releases(p, r) ==
  \/ made'[r] + ToMake(p, r)' + Spent < made[r] + ToMake(p, r) + Spent'
  \/ MayMake(p, r)' \/ Holds(p, r)' \/ row'[r] = "IMPORTED"
  \/ row'[r] = row[r] /\ ~Holds(p, r) /\ ~MayMake(p, r)
LeavesMarked(p, r) ==
  row[r] = "IMPORTED" /\ Away(p, r) =>
    row'[r] = "IMPORTED" /\ Away(p, r)' /\ made'[r] + Spent <= made[r] + Spent'

LEMMA OwedKept ==
  ASSUME TypeOK, TypeOK', NEW p \in Pass, NEW r \in Row, Owed(r),
         \A q \in Pass : q # p => pass'[q] = pass[q],
         Within(p, r), Releases(p, r), LeavesMarked(p, r)
  PROVE  Owed(r)'
<1> DEFINE c == Cardinality(Makers(r))
           d == Cardinality(Makers(r))'
           t == ToMake(p, r)
           u == ToMake(p, r)'
<1>1. /\ made[r] \in Nat /\ made'[r] \in Nat /\ Spent \in Nat /\ Spent' \in Nat
      /\ t \in {0, 1} /\ u \in {0, 1}
      /\ t = 0 <=> ~MayMake(p, r)
      /\ u = 0 <=> ~MayMake(p, r)'
  <2>1. made[r] \in Nat /\ Spent \in Nat
    BY OwedType
  <2>2. made' \in [Row -> Nat]
    BY DEF TypeOK
  <2>3. /\ crashes' \in 0..MaxCrashes /\ faults' \in 0..MaxFaults
        /\ met' \in 0..MaxMeetings
    BY DEF TypeOK
  <2>4. made'[r] \in Nat /\ Spent' \in Nat
    BY <2>2, <2>3 DEF Spent
  <2> QED BY <2>1, <2>4 DEF ToMake
<1>2. /\ c \in Nat /\ d \in Nat /\ d + t = c + u
      /\ Makers(r)' = {} => d = 0
      /\ Makers(r) = {} => c = 0
      /\ Makers(r)' = {} /\ t = 0 => Makers(r) = {}
  BY MakersMove
<1>3. Free(r)' => d = 0 /\ u = 0 /\ ~Holds(p, r)' /\ row'[r] # "IMPORTED"
  <2>1. Free(r)' => Makers(r)' = {} /\ ~MayMake(p, r)'
    BY DEF Free, Makers
  <2> QED BY <1>1, <1>2, <2>1 DEF Free
<1>4. \A q \in Pass : q # p => (Holds(q, r)' <=> Holds(q, r)) /\ (Away(q, r)' <=> Away(q, r))
  BY DEF Holds, Away, At, InHand
<1>5. ASSUME made[r] + c <= Spent + 1, Free(r) => made[r] <= Spent
      PROVE  Owed(r)'
  <2>1. made'[r] + u + Spent <= made[r] + t + Spent'
    BY DEF Within
  <2>2. made'[r] + d <= Spent' + 1
    BY <1>1, <1>2, <1>5, <2>1
  <2>3. ASSUME Free(r)' PROVE made'[r] <= Spent'
    <3>1. d = 0 /\ u = 0 /\ c = t
      BY <1>1, <1>2, <1>3, <2>3
    <3>2. CASE made'[r] + u + Spent < made[r] + t + Spent'
      BY <1>1, <1>5, <3>1, <3>2
    <3>3. CASE row'[r] = row[r] /\ ~Holds(p, r) /\ ~MayMake(p, r)
      <4>1. t = 0 /\ Makers(r) = {}
        BY <1>1, <1>2, <2>3, <3>3 DEF Free
      <4>2. Free(r)
        BY <1>4, <2>3, <3>3, <4>1 DEF Free
      <4> QED BY <1>1, <1>5, <2>1, <3>1, <4>1, <4>2
    <3> QED BY <1>1, <1>3, <2>3, <3>1, <3>2, <3>3 DEF Releases
  <2> QED BY <2>2, <2>3 DEF Owed
<1>6. ASSUME row[r] = "IMPORTED", made[r] <= Spent + 1, \A q \in Pass : Away(q, r)
      PROVE  Owed(r)'
  <2>1. row'[r] = "IMPORTED" /\ Away(p, r)' /\ made'[r] + Spent <= made[r] + Spent'
    BY <1>6 DEF LeavesMarked
  <2>2. made'[r] <= Spent' + 1
    BY <1>1, <1>6, <2>1
  <2>3. \A q \in Pass : Away(q, r)'
    BY <1>4, <1>6, <2>1
  <2> QED BY <2>1, <2>2, <2>3 DEF Owed
<1> QED BY <1>5, <1>6 DEF Owed

\* A step that makes nothing for a row, marks nothing of it, spends nothing and
\* leaves it before or behind the pass as it was.
LEMMA NothingToDo ==
  ASSUME TypeOK, NEW p \in Pass, NEW r \in Row,
         made'[r] = made[r], row'[r] = row[r], Spent' = Spent,
         MayMake(p, r)' <=> MayMake(p, r), Holds(p, r)' <=> Holds(p, r),
         Away(p, r) => Away(p, r)'
  PROVE  Within(p, r) /\ Releases(p, r) /\ LeavesMarked(p, r)
<1>1. made[r] \in Nat /\ Spent \in Nat /\ ToMake(p, r) \in {0, 1}
      /\ ToMake(p, r)' = ToMake(p, r)
  BY OwedType DEF ToMake
<1>2. Within(p, r) /\ LeavesMarked(p, r)
  BY <1>1 DEF Within, LeavesMarked
<1>3. Releases(p, r)
  BY DEF Releases
<1> QED BY <1>2, <1>3

\* A step that leaves a row behind, or spends something on the pass, and makes
\* nothing.
LEMMA LetsGo ==
  ASSUME TypeOK, NEW p \in Pass, NEW r \in Row,
         made'[r] = made[r], Spent' \in {Spent, Spent + 1}, ~MayMake(p, r)',
         MayMake(p, r) \/ Spent' = Spent + 1,
         row[r] = "IMPORTED" /\ Away(p, r) => row'[r] = "IMPORTED",
         Away(p, r)'
  PROVE  Within(p, r) /\ Releases(p, r) /\ LeavesMarked(p, r)
<1>1. made[r] \in Nat /\ Spent \in Nat
  BY OwedType
<1>2. /\ ToMake(p, r)' = 0
      /\ ToMake(p, r) = IF MayMake(p, r) THEN 1 ELSE 0
  BY DEF ToMake
<1>3. made'[r] + ToMake(p, r)' + Spent < made[r] + ToMake(p, r) + Spent'
  BY <1>1, <1>2
<1>4. Within(p, r) /\ Releases(p, r)
  BY <1>1, <1>2, <1>3 DEF Within, Releases
<1>5. LeavesMarked(p, r)
  BY <1>1 DEF LeavesMarked
<1> QED BY <1>4, <1>5

\* What a step of a pass does to one row.
Handles(p, r) == Within(p, r) /\ Releases(p, r) /\ LeavesMarked(p, r)

\* A pass lists rows that are not imported, and those it does not list it will
\* not make.
LEMMA ListRowsOwes ==
  ASSUME IInv, NEW p \in Pass, ListRows(p), NEW r \in Row
  PROVE  Handles(p, r)
<1>1. /\ TypeOK /\ At(p, "list") /\ made'[r] = made[r] /\ row'[r] = row[r]
      /\ Spent' = Spent /\ pass[p] \in PassState
  BY PassType DEF IInv, ListRows, others, Spent
<1> DEFINE L == {x \in Row : row[x] \in StatusFilter(pass[p].scope)}
<1>2. pass'[p].pc = "parse" /\ pass'[p].rows = L
  <2> DEFINE s == [Goes(p, "parse") EXCEPT !.rows = L]
  <2>1. s.pc = "parse" /\ s.rows = L
    BY <1>1 DEF Goes, PassState
  <2>2. Become(p, s)
    BY DEF ListRows
  <2> HIDE DEF s
  <2> QED BY <1>1, <2>1, <2>2, Becomes
<1>3. r \in L => row[r] # "IMPORTED"
  BY <1>1 DEF StatusFilter, PassState, Scope
<1> HIDE DEF L
<1>4. MayMake(p, r) /\ ~Holds(p, r) /\ ~Holds(p, r)'
      /\ (MayMake(p, r)' <=> r \in L) /\ (Away(p, r)' <=> r \notin L)
  BY <1>1, <1>2 DEF MayMake, Holds, Away, At
<1>5. CASE r \in L
  <2>1. made[r] \in Nat /\ Spent \in Nat /\ ToMake(p, r) = 1 /\ ToMake(p, r)' = 1
    BY <1>1, <1>4, <1>5, OwedType DEF ToMake
  <2> QED BY <1>1, <1>3, <1>4, <1>5, <2>1 DEF Handles, Within, Releases, LeavesMarked
<1>6. CASE r \notin L
  BY <1>1, <1>4, <1>6, LetsGo DEF Handles
<1> QED BY <1>5, <1>6

\* A row that fails to parse was before the pass, and still is.
LEMMA ParseRowsOwes ==
  ASSUME IInv, NEW p \in Pass, ParseRows(p), NEW r \in Row
  PROVE  Handles(p, r)
<1>1. /\ TypeOK /\ At(p, "parse") /\ made'[r] = made[r] /\ Spent' = Spent
      /\ r \notin pass[p].rows => row'[r] = row[r]
      /\ pass[p] \in PassState /\ Become(p, Goes(p, "count"))
  BY PassType DEF IInv, ParseRows, others, Spent
<1>2. pass'[p].pc = "count" /\ pass'[p].rows = pass[p].rows
  BY <1>1, Becomes DEF Goes, PassState
<1>3. /\ MayMake(p, r) <=> r \in pass[p].rows
      /\ MayMake(p, r)' <=> r \in pass[p].rows
      /\ Away(p, r) <=> r \notin pass[p].rows
      /\ Away(p, r)' <=> r \notin pass[p].rows
      /\ ~Holds(p, r) /\ ~Holds(p, r)'
  BY <1>1, <1>2 DEF MayMake, Holds, Away, At
<1>4. CASE r \notin pass[p].rows
  BY <1>1, <1>3, <1>4, NothingToDo DEF Handles
<1>5. CASE r \in pass[p].rows
  <2>1. made[r] \in Nat /\ Spent \in Nat /\ ToMake(p, r) = 1 /\ ToMake(p, r)' = 1
    BY <1>1, <1>3, <1>5, OwedType DEF ToMake
  <2> QED BY <1>1, <1>3, <1>5, <2>1 DEF Handles, Within, Releases, LeavesMarked
<1> QED BY <1>4, <1>5

\* A step that only carries the pass on, with the rows it has.
LEMMA CarriesOn ==
  ASSUME TypeOK, NEW p \in Pass, NEW r \in Row,
         pass[p].pc \in {"count", "loop"},
         pass'[p].pc \in {"loop", "cancelled", "failed"},
         pass'[p].rows = pass[p].rows,
         made'[r] = made[r], row'[r] = row[r], Spent' = Spent
  PROVE  Handles(p, r)
BY NothingToDo DEF Handles, MayMake, Holds, Away, At

LEMMA CountRowsOwes ==
  ASSUME IInv, NEW p \in Pass, CountRows(p) \/ Heartbeat(p), NEW r \in Row
  PROVE  Handles(p, r)
<1>1. /\ TypeOK /\ pass[p] \in PassState /\ made'[r] = made[r] /\ row'[r] = row[r]
      /\ Spent' = Spent /\ pass[p].pc \in {"count", "loop"}
  BY PassType DEF IInv, CountRows, Heartbeat, others, Spent, At
<1>2. pass'[p].pc \in {"loop", "cancelled"} /\ pass'[p].rows = pass[p].rows
  <2>1. PICK s : Become(p, s) /\ s.pc \in {"loop", "cancelled"} /\ s.rows = pass[p].rows
    <3>1. CASE Become(p, Goes(p, "cancelled"))
      BY <1>1, <3>1 DEF Goes, PassState
    <3>2. CASE Heartbeat(p) /\ Become(p, [pass[p] EXCEPT !.since = 0])
      <4>1. pass[p].pc = "loop"
        BY <3>2 DEF Heartbeat, At
      <4> QED BY <1>1, <3>2, <4>1 DEF PassState
    <3>3. CASE CountRows(p)
      <4> DEFINE s == [Goes(p, "loop") EXCEPT !.imported = Count("IMPORTED"),
                                              !.errors = Count("ERROR")]
      <4>1. s.pc = "loop" /\ s.rows = pass[p].rows
        BY <1>1 DEF Goes, PassState
      <4>2. Become(p, s)
        BY <3>3 DEF CountRows
      <4> HIDE DEF s
      <4> QED BY <4>1, <4>2
    <3> QED BY <3>1, <3>2, <3>3 DEF Heartbeat
  <2> QED BY <1>1, <2>1, Becomes
<1> QED BY <1>1, <1>2, CarriesOn

\* A row passed over will not be made.
LEMMA SkipRowOwes ==
  ASSUME IInv, NEW p \in Pass, SkipRow(p), NEW r \in Row
  PROVE  Handles(p, r)
<1>1. /\ TypeOK /\ pass[p].pc = "loop" /\ pass[p].since < Chunk
      /\ made'[r] = made[r] /\ row'[r] = row[r] /\ Spent' = Spent
      /\ Become(p, NextRow(p)) /\ pass[p].rows # {}
  BY DEF IInv, SkipRow, Fresh, others, Spent, At
<1>2. pass'[p].pc = "loop" /\ pass'[p].rows = pass[p].rows \ {InHand(p)}
  BY <1>1, NextRowType, Becomes
<1>3. InHand(p) \in pass[p].rows
  BY <1>1, InHandIsOne
<1>4. /\ MayMake(p, r) <=> r \in pass[p].rows
      /\ MayMake(p, r)' <=> r \in pass'[p].rows
      /\ Away(p, r) <=> r \notin pass[p].rows
      /\ Away(p, r)' <=> r \notin pass'[p].rows
      /\ ~Holds(p, r) /\ ~Holds(p, r)'
  BY <1>1, <1>2 DEF MayMake, Holds, Away, At
<1>5. CASE r = InHand(p)
  BY <1>1, <1>2, <1>3, <1>4, <1>5, LetsGo DEF Handles
<1>6. CASE r # InHand(p)
  BY <1>1, <1>2, <1>4, <1>6, NothingToDo DEF Handles
<1> QED BY <1>5, <1>6

\* The one entity a pass makes for a row is the one it was to make.
LEMMA ProcessRowOwes ==
  ASSUME IInv, NEW p \in Pass, ProcessRow(p), NEW r \in Row
  PROVE  Handles(p, r)
<1>1. /\ TypeOK /\ pass[p] \in PassState /\ pass[p].pc = "loop" /\ pass[p].rows # {}
      /\ row'[r] = row[r] /\ Spent' = Spent
  BY PassType DEF IInv, ProcessRow, Fresh, others, Spent, At
<1>2. CASE Become(p, Goes(p, "failed")) /\ UNCHANGED made
  <2>1. pass'[p].pc = "failed" /\ pass'[p].rows = pass[p].rows
    BY <1>1, <1>2, Becomes DEF Goes, PassState
  <2> QED BY <1>1, <1>2, <2>1, CarriesOn
<1>3. CASE /\ made' = [made EXCEPT ![InHand(p)] = @ + 1]
           /\ Become(p, Goes(p, "made"))
  <2>1. pass'[p].pc = "made" /\ pass'[p].rows = pass[p].rows
    BY <1>1, <1>3, Becomes DEF Goes, PassState
  <2>2. InHand(p)' = InHand(p)
    BY <2>1 DEF InHand
  <2>3. InHand(p) \in pass[p].rows /\ InHand(p) \in Row
    BY <1>1, InHandIsOne
  <2>4. /\ MayMake(p, r) <=> r \in pass[p].rows
        /\ MayMake(p, r)' <=> r \in pass[p].rows /\ r # InHand(p)
        /\ Away(p, r) <=> r \notin pass[p].rows
        /\ Away(p, r)' <=> r \notin pass[p].rows
        /\ ~Holds(p, r)
        /\ Holds(p, r)' <=> r = InHand(p)
    BY <1>1, <2>1, <2>2 DEF MayMake, Holds, Away, At
  <2>5. made \in [Row -> Nat] /\ Spent \in Nat
    BY <1>1, Types, OwedType
  <2>6. CASE r # InHand(p)
    <3>1. made'[r] = made[r]
      BY <1>3, <2>5, <2>6
    <3> QED BY <1>1, <2>4, <2>6, <3>1, NothingToDo DEF Handles
  <2>7. CASE r = InHand(p)
    <3>1. made'[r] = made[r] + 1 /\ made[r] \in Nat
      BY <1>3, <2>5, <2>7
    <3>2. ToMake(p, r) = 1 /\ ToMake(p, r)' = 0
      BY <2>3, <2>4, <2>7 DEF ToMake
    <3>3. Within(p, r)
      BY <1>1, <2>5, <3>1, <3>2 DEF Within
    <3> QED BY <2>3, <2>4, <2>7, <3>3 DEF Handles, Releases, LeavesMarked
  <2> QED BY <2>6, <2>7
<1> QED BY <1>2, <1>3 DEF ProcessRow

\* A row that is marked is behind the pass; where the mark failed, that is spent.
LEMMA MarksOwe ==
  ASSUME IInv, IInv', NEW p \in Pass, MarkImported(p) \/ MarkError(p) \/ MarkFails(p),
         NEW r \in Row
  PROVE  Handles(p, r)
<1>1. /\ TypeOK /\ (At(p, "made") \/ At(p, "failed")) /\ ~(At(p, "made") /\ At(p, "failed"))
      /\ pass[p].rows # {} /\ made'[r] = made[r]
  BY DEF IInv, InChunk, MarkImported, MarkError, MarkFails, At
<1>2. InHand(p) \in pass[p].rows /\ InHand(p) \in Row
  BY <1>1, InHandIsOne
<1>3. pass'[p].pc = "loop" /\ pass'[p].rows = pass[p].rows \ {InHand(p)}
  <2>1. NextRow(p) \in PassState /\ NextRow(p).pc = "loop"
        /\ NextRow(p).rows = pass[p].rows \ {InHand(p)}
    BY <1>1, NextRowType DEF IInv, InChunk, At
  <2>2. PICK t \in PassState : t = NextRow(p)
    BY <2>1
  <2>3. PICK s : Become(p, s) /\ s.pc = t.pc /\ s.rows = t.rows
    <3>1. CASE MarkImported(p)
      <4> DEFINE e == ErrorsNow(p)
          s == [t EXCEPT !.imported = @ + 1, !.errors = e]
      <4>1. Become(p, s)
        BY <2>2, <3>1 DEF MarkImported
      <4> HIDE DEF e
      <4>2. s.pc = t.pc /\ s.rows = t.rows
        BY DEF PassState
      <4> HIDE DEF s
      <4> QED BY <4>1, <4>2
    <3>2. ASSUME NEW e, Become(p, [t EXCEPT !.errors = e])
          PROVE  \E s : Become(p, s) /\ s.pc = t.pc /\ s.rows = t.rows
      BY <3>2 DEF PassState
    <3>3. CASE MarkError(p)
      BY <2>2, <3>2, <3>3 DEF MarkError
    <3>4. CASE MarkFails(p)
      BY <2>2, <3>2, <3>4 DEF MarkFails
    <3> QED BY <3>1, <3>3, <3>4
  <2> QED BY <1>1, <2>1, <2>2, <2>3, Becomes
<1>4. /\ MayMake(p, r) <=> r \in pass[p].rows /\ ~Holds(p, r)
      /\ MayMake(p, r)' <=> r \in pass'[p].rows
      /\ Away(p, r) <=> r \notin pass[p].rows
      /\ Away(p, r)' <=> r \notin pass'[p].rows
      /\ Holds(p, r) <=> At(p, "made") /\ InHand(p) = r
      /\ ~Holds(p, r)'
  BY <1>1, <1>3 DEF MayMake, Holds, Away, At
<1>5. /\ Spent \in Nat /\ made[r] \in Nat /\ row \in [Row -> RowStatus]
      /\ MarkFails(p) => Spent' = Spent + 1
      /\ ~MarkFails(p) => Spent' = Spent
  <2>0. Spent \in Nat /\ made[r] \in Nat
    BY <1>1, OwedType
  <2>1. Spent \in Nat /\ made[r] \in Nat /\ row \in [Row -> RowStatus]
        /\ {crashes, faults, met} \subseteq Nat
    BY <1>1, <2>0, Types
  <2>2. MarkFails(p) => Spent' = Spent + 1
    BY <2>1 DEF MarkFails, Spent
  <2>3. ~MarkFails(p) => Spent' = Spent
    BY DEF MarkImported, MarkError, others, Spent
  <2> QED BY <2>1, <2>2, <2>3
<1>6. CASE r = InHand(p) /\ (MarkFails(p) \/ ~At(p, "made"))
  <2>1. ~MayMake(p, r)' /\ Away(p, r)' /\ ~Away(p, r)
    BY <1>2, <1>3, <1>4, <1>6
  <2>2. MayMake(p, r) \/ Spent' = Spent + 1
    BY <1>2, <1>4, <1>5, <1>6
  <2> QED BY <1>1, <1>5, <2>1, <2>2, LetsGo DEF Handles
<1>7. CASE r = InHand(p) /\ ~MarkFails(p) /\ At(p, "made")
  <2>1. row'[r] = "IMPORTED"
    BY <1>1, <1>2, <1>5, <1>7 DEF MarkImported, MarkError
  <2>2. ToMake(p, r) = 0 /\ ToMake(p, r)' = 0 /\ ~Away(p, r) /\ Spent' = Spent
    BY <1>2, <1>3, <1>4, <1>5, <1>7 DEF ToMake
  <2> QED BY <1>1, <1>5, <2>1, <2>2 DEF Handles, Within, Releases, LeavesMarked
<1>8. CASE r # InHand(p)
  <2>1. row'[r] = row[r]
    BY <1>5, <1>8 DEF MarkImported, MarkError, MarkFails
  <2>2. /\ MayMake(p, r)' <=> MayMake(p, r)
        /\ Holds(p, r)' <=> Holds(p, r)
        /\ Away(p, r)' <=> Away(p, r)
    BY <1>3, <1>4, <1>8
  <2>3. CASE Spent' = Spent
    BY <1>1, <2>1, <2>2, <2>3, NothingToDo DEF Handles
  <2>4. CASE Spent' = Spent + 1
    <3>1. ToMake(p, r)' = ToMake(p, r) /\ ToMake(p, r) \in {0, 1}
      BY <2>2 DEF ToMake
    <3>2. made'[r] + ToMake(p, r)' + Spent < made[r] + ToMake(p, r) + Spent'
      BY <1>1, <1>5, <2>4, <3>1
    <3>3. Within(p, r)
      BY <1>1, <1>5, <2>4, <3>1 DEF Within
    <3> QED BY <1>1, <1>5, <2>1, <2>2, <2>4, <3>2, <3>3 DEF Handles, Releases, LeavesMarked
  <2> QED BY <1>5, <2>3, <2>4
<1> QED BY <1>6, <1>7, <1>8

\* A pass that leaves makes no more; one that dies is spent.
LEMMA LeavingOwes ==
  ASSUME IInv, NEW p \in Pass, Finalise(p) \/ Crash(p), NEW r \in Row
  PROVE  Handles(p, r)
<1>1. /\ TypeOK /\ made'[r] = made[r] /\ row'[r] = row[r] /\ Become(p, AtRest)
      /\ {crashes, faults, met} \subseteq Nat
  BY Types DEF IInv, Finalise, Crash
<1>2. pass'[p].pc = "idle"
  BY <1>1, RestType, Becomes
<1>3. ~MayMake(p, r)' /\ Away(p, r)' /\ ~Holds(p, r)'
  BY <1>2 DEF MayMake, Away, Holds, At
<1>4. CASE Crash(p)
  <2>1. Spent' = Spent + 1
    BY <1>1, <1>4 DEF Crash, Spent
  <2> QED BY <1>1, <1>3, <2>1, LetsGo DEF Handles
<1>5. CASE Finalise(p)
  <2>1. Spent' = Spent /\ ~Holds(p, r)
    BY <1>5 DEF Finalise, others, Spent, Holds, At
  <2>2. CASE MayMake(p, r)
    BY <1>1, <1>3, <2>1, <2>2, LetsGo DEF Handles
  <2>3. CASE ~MayMake(p, r)
    BY <1>1, <1>3, <2>1, <2>3, NothingToDo DEF Handles
  <2> QED BY <2>2, <2>3
<1> QED BY <1>4, <1>5

\* A pass that begins may make every row: that is due where it begins alone, as
\* nobody else has a row before him, and spent where it does not.
LEMMA ClaimOwes ==
  ASSUME IInv, IInv', NEW p \in Pass, NEW scope \in Scope, Claim(p, scope),
         NEW r \in Row, Owed(r)
  PROVE  Owed(r)'
<1>1. /\ TypeOK /\ TypeOK' /\ At(p, "idle") /\ made'[r] = made[r] /\ row'[r] = row[r]
      /\ {crashes, faults, met} \subseteq Nat
  BY Types DEF IInv, Claim
<1>2. pass'[p].pc = "list" /\ \A q \in Pass : q # p => pass'[q] = pass[q]
  <2> DEFINE s == [AtRest EXCEPT !.pc = "list", !.scope = scope]
  <2>1. Become(p, s) /\ s.pc = "list"
    BY RestType DEF Claim
  <2> HIDE DEF s
  <2> QED BY <1>1, <2>1, Becomes
<1>3. MayMake(p, r)' /\ ~MayMake(p, r) /\ Away(p, r) /\ Away(p, r)' /\ ~Holds(p, r)
  BY <1>1, <1>2 DEF MayMake, Away, Holds, At
<1>4. made[r] \in Nat /\ Spent \in Nat /\ ToMake(p, r) = 0 /\ ToMake(p, r)' = 1
  BY <1>1, <1>3, OwedType DEF ToMake
<1>5. CASE Working # {}
  <2>1. Spent' = Spent + 1
    BY <1>1, <1>5 DEF Claim, Spent, outside
  <2>2. Within(p, r) /\ Releases(p, r) /\ LeavesMarked(p, r)
    BY <1>1, <1>3, <1>4, <2>1 DEF Within, Releases, LeavesMarked
  <2> QED BY <1>1, <1>2, <2>2, OwedKept
<1>6. CASE Working = {}
  <2>1. Spent' = Spent
    BY <1>6 DEF Claim, Spent, outside
  <2>2. \A q \in Pass : ~MayMake(q, r) /\ Away(q, r) /\ ~Holds(q, r)
    BY <1>6 DEF Working, MayMake, Away, Holds, At
  <2>3. Makers(r) = {}
    BY <2>2 DEF Makers
  <2>4. Cardinality(Makers(r)) = 0 /\ Cardinality(Makers(r))' = 1
    <3>1. /\ Cardinality(Makers(r))' \in Nat
          /\ Cardinality(Makers(r))' + ToMake(p, r)
               = Cardinality(Makers(r)) + ToMake(p, r)'
      BY <1>1, <1>2, MakersMove
    <3>2. Cardinality(Makers(r)) = 0
      BY <2>3, FS_EmptySet
    <3> QED BY <1>4, <3>1, <3>2
  <2>5. CASE row[r] = "IMPORTED"
    <3>1. made'[r] <= Spent' + 1
      BY <1>1, <1>4, <2>1, <2>4 DEF Owed
    <3>2. \A q \in Pass : Away(q, r)'
      BY <1>2, <1>3, <2>2 DEF Away
    <3> QED BY <1>1, <2>5, <3>1, <3>2 DEF Owed
  <2>6. CASE row[r] # "IMPORTED"
    <3>1. Free(r)
      BY <2>2, <2>3, <2>6 DEF Free
    <3>2. made[r] <= Spent
      BY <2>6, <3>1 DEF Owed
    <3>3. ~Free(r)'
      BY <1>3 DEF Free, Makers
    <3>4. made'[r] + Cardinality(Makers(r))' <= Spent' + 1
      BY <1>1, <1>4, <2>1, <2>4, <3>2
    <3> QED BY <3>3, <3>4 DEF Owed
  <2> QED BY <2>5, <2>6
<1> QED BY <1>5, <1>6

\* What the sweep, the operators and the clock do changes nothing of a row.
LEMMA OthersOwe ==
  ASSUME UNCHANGED <<row, made, pass, crashes, faults, met>>, NEW r \in Row, Owed(r)
  PROVE  Owed(r)'
<1>1. Spent' = Spent
  BY DEF Spent
<1>2. \A p \in Pass : /\ MayMake(p, r)' <=> MayMake(p, r)
                      /\ Holds(p, r)' <=> Holds(p, r)
                      /\ Away(p, r)' <=> Away(p, r)
  BY DEF MayMake, Holds, Away, At, InHand
<1>3. Makers(r)' = Makers(r)
  BY <1>2 DEF Makers
<1>4. Free(r)' <=> Free(r)
  BY <1>2, <1>3 DEF Free
<1> QED BY <1>1, <1>2, <1>3, <1>4 DEF Owed

\* Nothing is made, and everything is due once.
LEMMA InitOInv == Init => OInv
<1> SUFFICES ASSUME Init, NEW r \in Row PROVE Owed(r)
  BY InitIInv DEF OInv
<1>1. \A p \in Pass : ~MayMake(p, r)
  BY DEF Init, AtRest, MayMake, At
<1>2. Makers(r) = {}
  BY <1>1 DEF Makers
<1>3. Cardinality(Makers(r)) = 0
  BY <1>2, FS_EmptySet
<1>4. made[r] = 0 /\ Spent = 0
  BY DEF Init, Spent
<1> QED BY <1>3, <1>4 DEF Owed

\* Every step keeps every row within its due.
LEMMA NextOInv == OInv /\ [Next]_vars => OInv'
<1> SUFFICES ASSUME OInv, [Next]_vars, NEW r \in Row PROVE Owed(r)'
  BY NextIInv DEF OInv
<1>0. IInv /\ IInv' /\ TypeOK /\ TypeOK' /\ Owed(r)
  BY NextIInv DEF OInv, IInv
<1>1. ASSUME NEW p \in Pass, NEW scope \in Scope, Claim(p, scope) PROVE Owed(r)'
  BY <1>0, <1>1, ClaimOwes
<1>2. ASSUME NEW p \in Pass, Handles(p, r), \A q \in Pass : q # p => pass'[q] = pass[q]
      PROVE  Owed(r)'
  BY <1>0, <1>2, OwedKept DEF Handles
<1>3. ASSUME NEW p \in Pass,
             \/ ListRows(p) \/ ParseRows(p) \/ CountRows(p) \/ Heartbeat(p)
             \/ SkipRow(p) \/ ProcessRow(p)
             \/ MarkImported(p) \/ MarkError(p) \/ MarkFails(p)
             \/ Finalise(p) \/ Crash(p)
      PROVE  Owed(r)'
  <2>1. Handles(p, r)
    BY <1>0, <1>3, ListRowsOwes, ParseRowsOwes, CountRowsOwes, SkipRowOwes,
       ProcessRowOwes, MarksOwe, LeavingOwes
  <2>2. \E s : Become(p, s)
    BY <1>3 DEF ListRows, ParseRows, CountRows, Heartbeat, SkipRow, ProcessRow,
                MarkImported, MarkError, MarkFails, Finalise, Crash
  <2>3. \A q \in Pass : q # p => pass'[q] = pass[q]
    BY <1>0, <2>2, Becomes
  <2> QED BY <1>2, <2>1, <2>3
<1>4. CASE \/ GoQuiet \/ Boot \/ PutBack \/ Reenqueue \/ CancelImport
           \/ \E o \in Operator : ReadForRetry(o) \/ RetryImport(o)
  BY <1>0, <1>4, OthersType, OthersOwe
<1>5. CASE UNCHANGED vars
  BY <1>0, <1>5, OthersOwe DEF vars
<1> QED BY <1>1, <1>3, <1>4, <1>5 DEF Next, Step

\* A row makes one entity, and another at most for each pass that died, each
\* update of a row that failed and each pass that began beside another.
THEOREM ImportedOnce == Spec => []RowImportedOnce
<1>1. OInv => RowImportedOnce
  <2> SUFFICES ASSUME OInv, NEW r \in Row PROVE made[r] <= 1 + crashes + faults + met
    BY DEF RowImportedOnce
  <2>1. TypeOK /\ Owed(r)
    BY DEF OInv, IInv
  <2>2. /\ made[r] \in Nat /\ Cardinality(Makers(r)) \in Nat /\ Spent \in Nat
        /\ {crashes, faults, met} \subseteq Nat
    BY <2>1, OwedType, Types
  <2>3. made[r] <= Spent + 1
    BY <2>1, <2>2 DEF Owed
  <2> QED BY <2>2, <2>3 DEF Spent
<1> QED BY <1>1, InitOInv, NextOInv, PTL DEF Spec
=============================================================================
