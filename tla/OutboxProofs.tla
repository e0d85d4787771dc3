----------------------------- MODULE OutboxProofs -----------------------------
(***************************************************************************)
(* The rows of the outbox and the drains that overlap on them, for any     *)
(* number of rows, callers, drains, attempts and faults.                   *)
(***************************************************************************)
EXTENDS Outbox, SumTheorems, FiniteSetTheorems, TLAPS

Note == [status : InFlight \union Settled, attempts : 0..MaxAttempts]
Todos == UNION {[ids -> 0..MaxAttempts] : ids \in SUBSET Id}
Ticks == [pc : {"idle", "next", "send", "mark", "catch"}, todo : Todos]

\* A drain that is over a row, and the row.
Holding(x) == x.pc \in {"send", "mark", "catch"}
Over(x) == Least(DOMAIN x.todo)

\* What a drain may be: it has rows of the outbox to do, each listed with an
\* attempt left, and it is over one of them.
Fit(x) ==
  /\ DOMAIN x.todo \subseteq DOMAIN note
  /\ \A id \in DOMAIN x.todo : x.todo[id] < MaxAttempts
  /\ Holding(x) => DOMAIN x.todo # {}

AllFit == \A d \in Drain : Fit(tick[d])

\* A row that is not settled has an attempt left.
HasAttempt(n) == n.status \in InFlight => n.attempts < MaxAttempts
Tries == \A id \in DOMAIN note : HasAttempt(note[id])

\* A row that says it was sent was, and so was one about to say so.
Told ==
  /\ \A id \in DOMAIN note : note[id].status = "SENT" => sent[id] > 0
  /\ \A d \in Drain : tick[d].pc = "mark" => sent[Over(tick[d])] > 0

\* Those who may yet send the row or put it back to be sent, and whether
\* somebody may yet take it up.
Handles(x, id) == x.pc \in {"send", "catch"} /\ Over(x) = id
Slot(x, id) == IF Handles(x, id) THEN 1 ELSE 0
Handlers(id) == {d \in Drain : Handles(tick[d], id)}
Turn(id) == IF id \in DOMAIN note /\ note[id].status # "PENDING" THEN 0 ELSE 1

\* Each message the row was told of, each drain that may still send it, and the
\* row's own turn come out of one turn and one for each claim that failed.
Within(id) ==
  sent[id] - unsaid[id] + Cardinality(Handlers(id)) + Turn(id) <= 1 + misclaimed[id]

IInv == TypeOK /\ AllFit /\ Tries /\ Told /\ \A id \in Id : Within(id)

-----------------------------------------------------------------------------
LEMMA LeastIsIn ==
  ASSUME NEW S \in SUBSET Nat, S # {}
  PROVE  Least(S) \in S
BY NatLeast DEF Least

LEMMA Bounds ==
  /\ MaxRows \in Nat /\ MaxAttempts \in Nat /\ MaxAttempts > 0 /\ MaxFaults \in Nat
  /\ Id \subseteq Nat /\ IsFiniteSet(Drain)
BY OutboxAssumption DEF Id

\* The types, by name.
LEMMA Types ==
  ASSUME TypeOK
  PROVE  /\ note \in Seq(Note) /\ Len(note) \in Nat /\ Len(note) <= MaxRows
         /\ DOMAIN note = 1..Len(note) /\ DOMAIN note \subseteq Id
         /\ asking \in [Caller -> {"idle", "clear"}]
         /\ tick \in [Drain -> Ticks] /\ faults \in 0..MaxFaults
         /\ sent \in [Id -> Nat] /\ unsaid \in [Id -> Nat]
         /\ misclaimed \in [Id -> Nat] /\ lost \subseteq Id
<1>1. note \in Seq(Note) /\ Len(note) <= MaxRows
  BY DEF TypeOK, Note
<1>2. tick \in [Drain -> Ticks]
  BY DEF TypeOK, Ticks, Todos
<1>3. Len(note) \in Nat /\ DOMAIN note = 1..Len(note) /\ DOMAIN note \subseteq Id
  BY <1>1, Bounds DEF Id
<1> QED BY <1>1, <1>2, <1>3 DEF TypeOK

\* The row a drain is over is on its list.
LEMMA OverIsListed ==
  ASSUME NEW x \in Ticks, DOMAIN x.todo # {}
  PROVE  Over(x) \in DOMAIN x.todo /\ Over(x) \in Id
<1>1. DOMAIN x.todo \subseteq Id
  BY DEF Ticks, Todos
<1>2. DOMAIN x.todo \in SUBSET Nat
  BY <1>1, Bounds
<1> QED BY <1>1, <1>2, LeastIsIn DEF Over

\* What a drain that is at rest, or goes on to its next row, is.
LEMMA RestIsFit ==
  AtRest \in Ticks /\ Fit(AtRest) /\ ~Holding(AtRest)
<1>1. AtRest.todo \in Todos /\ DOMAIN AtRest.todo = {} /\ AtRest.pc = "idle"
  <2>1. <<>> \in [{} -> 0..MaxAttempts] /\ DOMAIN <<>> = {}
    OBVIOUS
  <2> QED BY <2>1 DEF AtRest, Todos
<1>2. AtRest \in Ticks
  BY <1>1 DEF AtRest, Ticks
<1> QED BY <1>1, <1>2 DEF Fit, Holding

\* The row in hand is left; the others stay as they were listed.
Passed(x) == [pc |-> "next", todo |-> [id \in DOMAIN x.todo \ {Over(x)} |-> x.todo[id]]]

LEMMA PassedIsLess ==
  ASSUME NEW x \in Ticks
  PROVE  /\ Passed(x) \in Ticks /\ ~Holding(Passed(x))
         /\ DOMAIN Passed(x).todo \subseteq DOMAIN x.todo
         /\ \A id \in DOMAIN Passed(x).todo : Passed(x).todo[id] = x.todo[id]
<1> DEFINE rest == DOMAIN x.todo \ {Over(x)}
           todo == [id \in rest |-> x.todo[id]]
<1>1. PICK ids \in SUBSET Id : x.todo \in [ids -> 0..MaxAttempts]
  BY DEF Ticks, Todos
<1>2. rest \in SUBSET Id /\ todo \in [rest -> 0..MaxAttempts]
  BY <1>1
<1>3. todo \in Todos
  BY <1>2 DEF Todos
<1>4. Passed(x).todo = todo /\ Passed(x).pc = "next"
  BY DEF Passed
<1> QED BY <1>3, <1>4 DEF Passed, Ticks, Holding

\* A drain that goes on with the row it is over.
LEMMA GoesOn ==
  ASSUME NEW x \in Ticks, NEW pc \in {"send", "mark", "catch"}
  PROVE  LET y == [x EXCEPT !.pc = pc]
         IN  /\ y \in Ticks /\ y.pc = pc /\ y.todo = x.todo /\ Over(y) = Over(x)
             /\ Holding(y)
BY DEF Ticks, Holding, Over

LEMMA UpdateOfRow ==
  ASSUME TypeOK, NEW i \in DOMAIN note, NEW e \in Note,
         note' = [note EXCEPT ![i] = e]
  PROVE  /\ note' \in Seq(Note) /\ Len(note') = Len(note) /\ DOMAIN note' = DOMAIN note
         /\ note'[i] = e /\ \A j \in DOMAIN note : j # i => note'[j] = note[j]
<1>1. note \in Seq(Note)
  BY DEF TypeOK, Note
<1> QED BY <1>1

\* One drain that moves moves the number of those who handle a row.
LEMMA HandlersMove ==
  ASSUME NEW d \in Drain, NEW id \in Id,
         \A e \in Drain : e # d => tick'[e] = tick[e]
  PROVE  /\ Cardinality(Handlers(id)) \in Nat /\ Cardinality(Handlers(id))' \in Nat
         /\ Cardinality(Handlers(id))' + Slot(tick[d], id)
              = Cardinality(Handlers(id)) + Slot(tick'[d], id)
<1> DEFINE O == {e \in Drain \ {d} : Handles(tick[e], id)}
<1>1. IsFiniteSet(O) /\ d \notin O
  BY Bounds, FS_Subset
<1>2. Handlers(id) = IF Handles(tick[d], id) THEN O \union {d} ELSE O
  BY DEF Handlers
<1>3. Handlers(id)' = IF Handles(tick'[d], id) THEN O \union {d} ELSE O
  BY DEF Handlers, Handles, Over
<1> HIDE DEF O
<1>4. Cardinality(O) \in Nat /\ Cardinality(O \union {d}) = Cardinality(O) + 1
  BY <1>1, FS_CardinalityType, FS_AddElement
<1>5. Cardinality(Handlers(id)) = Cardinality(O) + Slot(tick[d], id)
      /\ Slot(tick[d], id) \in {0, 1}
  BY <1>2, <1>4 DEF Slot
<1>6. Cardinality(Handlers(id))' = Cardinality(O) + Slot(tick'[d], id)
      /\ Slot(tick'[d], id) \in {0, 1}
  BY <1>3, <1>4 DEF Slot
<1> QED BY <1>4, <1>5, <1>6

LEMMA WithinMoves ==
  ASSUME NEW d \in Drain, NEW x, NEW id \in Id, tick'[d] = x,
         \A e \in Drain : e # d => tick'[e] = tick[e],
         sent[id] \in Nat, unsaid[id] \in Nat, misclaimed[id] \in Nat,
         sent'[id] \in Nat, unsaid'[id] \in Nat, misclaimed'[id] \in Nat,
         Within(id),
         sent'[id] - unsaid'[id] + Slot(x, id) + Turn(id)' - misclaimed'[id]
           <= sent[id] - unsaid[id] + Slot(tick[d], id) + Turn(id) - misclaimed[id]
  PROVE  Within(id)'
<1>1. /\ Cardinality(Handlers(id)) \in Nat /\ Cardinality(Handlers(id))' \in Nat
      /\ Cardinality(Handlers(id))' + Slot(tick[d], id)
           = Cardinality(Handlers(id)) + Slot(x, id)
  BY HandlersMove
<1>2. /\ Turn(id) \in {0, 1} /\ Turn(id)' \in {0, 1}
      /\ Slot(x, id) \in {0, 1} /\ Slot(tick[d], id) \in {0, 1}
  BY DEF Turn, Slot
<1>3. sent[id] - unsaid[id] + Cardinality(Handlers(id)) + Turn(id) <= 1 + misclaimed[id]
  BY DEF Within
<1>4. sent'[id] - unsaid'[id] + Cardinality(Handlers(id))' + Turn(id)' <= 1 + misclaimed'[id]
  BY <1>1, <1>2, <1>3
<1> QED BY <1>4 DEF Within

(***************************************************************************)
(* One drain moves.  It keeps the invariant if a row it gives a turn, or   *)
(* is told of, or begins to handle, comes out of what it had, or of a      *)
(* claim that failed.                                                      *)
(***************************************************************************)
LEMMA TickMoves ==
  ASSUME IInv, NEW d \in Drain, NEW x \in Ticks, tick' = [tick EXCEPT ![d] = x],
         Fit(x), asking' = asking, faults' \in 0..MaxFaults, lost' \subseteq Id,
         note' \in Seq(Note), DOMAIN note' = DOMAIN note,
         sent' \in [Id -> Nat], unsaid' \in [Id -> Nat], misclaimed' \in [Id -> Nat],
         \A id \in Id : sent'[id] >= sent[id],
         \A id \in DOMAIN note :
           note'[id] # note[id] => /\ HasAttempt(note'[id])
                                   /\ note'[id].status = "SENT" => sent'[id] > 0,
         x.pc = "mark" => sent'[Over(x)] > 0,
         \A id \in Id :
           sent'[id] - unsaid'[id] + Slot(x, id) + Turn(id)' - misclaimed'[id]
             <= sent[id] - unsaid[id] + Slot(tick[d], id) + Turn(id) - misclaimed[id]
  PROVE  IInv'
<1>t. /\ TypeOK /\ AllFit /\ Tries /\ Told /\ \A id \in Id : Within(id)
  BY DEF IInv
<1>1. /\ \A e \in Drain : tick'[e] = IF e = d THEN x ELSE tick[e]
      /\ tick' \in [Drain -> Ticks]
  BY <1>t, Types
<1>2. Len(note') = Len(note) /\ Len(note) <= MaxRows
  <2>1. /\ Len(note) \in Nat /\ DOMAIN note = 1..Len(note) /\ Len(note) <= MaxRows
    BY <1>t, Types
  <2>2. Len(note') \in Nat /\ DOMAIN note' = 1..Len(note')
    OBVIOUS
  <2> QED BY <2>1, <2>2
<1>3. TypeOK'
  BY <1>t, <1>1, <1>2 DEF TypeOK, Ticks, Todos, Note
<1>4. AllFit'
  BY <1>t, <1>1 DEF AllFit, Fit
<1>5. Tries'
  BY <1>t DEF Tries, HasAttempt
<1>6. Told'
  <2>1. \A id \in DOMAIN note : id \in Id /\ sent[id] \in Nat /\ sent'[id] \in Nat
    BY <1>t, Types
  <2>2. ASSUME NEW id \in DOMAIN note, note'[id].status = "SENT" PROVE sent'[id] > 0
    <3>1. CASE note'[id] # note[id]
      BY <2>2, <3>1
    <3>2. CASE note'[id] = note[id]
      <4>1. sent[id] > 0 /\ sent'[id] >= sent[id]
        BY <1>t, <2>1, <2>2, <3>2 DEF Told
      <4> QED BY <2>1, <4>1
    <3> QED BY <3>1, <3>2
  <2>3. ASSUME NEW e \in Drain, tick'[e].pc = "mark" PROVE sent'[Over(tick'[e])] > 0
    <3>1. CASE e = d
      BY <1>1, <2>3, <3>1
    <3>2. CASE e # d
      <4>1. tick'[e] = tick[e] /\ tick[e].pc = "mark"
        BY <1>1, <2>3, <3>2
      <4>2. Over(tick[e]) \in Id
        <5>1. tick[e] \in Ticks /\ DOMAIN tick[e].todo # {}
          BY <1>t, <4>1, Types DEF AllFit, Fit, Holding
        <5> QED BY <5>1, OverIsListed
      <4>3. sent[Over(tick[e])] > 0
        BY <1>t, <4>1 DEF Told
      <4> QED BY <1>t, <4>1, <4>2, <4>3, Types
    <3> QED BY <3>1, <3>2
  <2> QED BY <2>2, <2>3 DEF Told, Over
<1>7. ASSUME NEW id \in Id PROVE Within(id)'
  <2>1. /\ sent[id] \in Nat /\ unsaid[id] \in Nat /\ misclaimed[id] \in Nat
        /\ sent'[id] \in Nat /\ unsaid'[id] \in Nat /\ misclaimed'[id] \in Nat
        /\ Within(id)
    BY <1>t, Types
  <2>2. /\ tick'[d] = x
        /\ \A e \in Drain : e # d => tick'[e] = tick[e]
    BY <1>1
  <2> QED BY <2>1, <2>2, WithinMoves
<1> QED BY <1>3, <1>4, <1>5, <1>6, <1>7 DEF IInv

\* Where the rows stay as they are.
LEMMA RowsStay ==
  ASSUME IInv, NEW d \in Drain, NEW x \in Ticks, tick' = [tick EXCEPT ![d] = x],
         Fit(x), UNCHANGED <<note, asking>>, faults' \in 0..MaxFaults, lost' \subseteq Id,
         sent' \in [Id -> Nat], unsaid' \in [Id -> Nat], misclaimed' \in [Id -> Nat],
         \A id \in Id : sent'[id] >= sent[id],
         x.pc = "mark" => sent'[Over(x)] > 0,
         \A id \in Id :
           sent'[id] - unsaid'[id] + Slot(x, id) - misclaimed'[id]
             <= sent[id] - unsaid[id] + Slot(tick[d], id) - misclaimed[id]
  PROVE  IInv'
<1>1. note' \in Seq(Note) /\ DOMAIN note' = DOMAIN note
  BY Types DEF IInv
<1>2. ASSUME NEW id \in Id
      PROVE  sent'[id] - unsaid'[id] + Slot(x, id) + Turn(id)' - misclaimed'[id]
               <= sent[id] - unsaid[id] + Slot(tick[d], id) + Turn(id) - misclaimed[id]
  <2>1. /\ sent[id] \in Nat /\ unsaid[id] \in Nat /\ misclaimed[id] \in Nat
        /\ sent'[id] \in Nat /\ unsaid'[id] \in Nat /\ misclaimed'[id] \in Nat
        /\ Turn(id) \in {0, 1} /\ Turn(id)' = Turn(id)
        /\ Slot(x, id) \in {0, 1} /\ Slot(tick[d], id) \in {0, 1}
    BY Types DEF IInv, Turn, Slot
  <2> QED BY <1>2, <2>1
<1> QED BY <1>1, <1>2, TickMoves

-----------------------------------------------------------------------------
(***************************************************************************)
(* The outbox starts empty, each row with one turn to come; callers add    *)
(* rows no drain is over.                                                  *)
(***************************************************************************)
LEMMA InitIInv == Init => IInv
<1> SUFFICES ASSUME Init PROVE IInv
  OBVIOUS
<1>1. /\ note = <<>> /\ DOMAIN note = {} /\ tick = [d \in Drain |-> AtRest]
      /\ sent = [id \in Id |-> 0] /\ unsaid = [id \in Id |-> 0]
      /\ misclaimed = [id \in Id |-> 0]
  BY DEF Init
<1>2. TypeOK
  <2>1. tick \in [Drain -> Ticks]
    BY <1>1, RestIsFit
  <2>2. Len(note) <= MaxRows /\ faults \in 0..MaxFaults
    BY <1>1, Bounds DEF Init
  <2>3. sent \in [Id -> Nat] /\ unsaid \in [Id -> Nat] /\ misclaimed \in [Id -> Nat]
    BY <1>1
  <2> QED BY <1>1, <2>1, <2>2, <2>3 DEF Init, TypeOK, Ticks, Todos
<1>3. AllFit /\ Tries
  BY <1>1, RestIsFit DEF AllFit, Tries
<1>4. \A d \in Drain : ~Holding(tick[d])
  BY <1>1, RestIsFit
<1>5. Told
  BY <1>1, <1>4 DEF Told, Holding
<1>6. ASSUME NEW id \in Id PROVE Within(id)
  <2>1. Handlers(id) = {}
    BY <1>4 DEF Handlers, Handles, Holding
  <2>2. Cardinality(Handlers(id)) = 0
    BY <2>1, FS_EmptySet
  <2>3. Turn(id) = 1 /\ sent[id] = 0 /\ unsaid[id] = 0 /\ misclaimed[id] = 0
    BY <1>1 DEF Turn
  <2> QED BY <2>2, <2>3 DEF Within
<1> QED BY <1>2, <1>3, <1>5, <1>6 DEF IInv

LEMMA QueueKeeps ==
  ASSUME IInv, NEW c \in Caller, Queue(c) PROVE IInv'
<1> DEFINE new == [status |-> "PENDING", attempts |-> 0]
<1>t. /\ TypeOK /\ AllFit /\ Tries /\ Told /\ \A id \in Id : Within(id)
      /\ note \in Seq(Note) /\ Len(note) \in Nat /\ Len(note) <= MaxRows
      /\ DOMAIN note = 1..Len(note)
  BY Types DEF IInv
<1>1. /\ UNCHANGED <<tick, faults, sent, unsaid, misclaimed, lost>>
      /\ asking' \in [Caller -> {"idle", "clear"}]
  BY <1>t, Types DEF Queue, history
<1>2. new \in Note /\ new.status = "PENDING" /\ new.attempts = 0
  BY Bounds DEF Note, InFlight
<1>3. /\ note' \in Seq(Note) /\ Len(note') <= MaxRows
      /\ DOMAIN note \subseteq DOMAIN note'
      /\ \A id \in DOMAIN note : note'[id] = note[id]
      /\ \A id \in DOMAIN note' \ DOMAIN note : note'[id] = new
  <2>1. CASE note' = note
    BY <1>t, <2>1
  <2>2. CASE Len(note) < MaxRows /\ note' = Append(note, new)
    <3> HIDE DEF new
    <3>1. /\ note' \in Seq(Note) /\ Len(note') = Len(note) + 1
          /\ DOMAIN note' = 1..(Len(note) + 1)
          /\ \A id \in 1..Len(note) : note'[id] = note[id]
          /\ note'[Len(note) + 1] = new
      BY <1>t, <1>2, <2>2
    <3> QED BY <1>t, <2>2, <3>1, Bounds
  <2> QED BY <2>1, <2>2 DEF Queue
<1> HIDE DEF new
<1>4. TypeOK'
  BY <1>t, <1>1, <1>3 DEF TypeOK, Note
<1>5. AllFit'
  BY <1>t, <1>1, <1>3 DEF AllFit, Fit
<1>6. Tries'
  BY <1>t, <1>2, <1>3, Bounds DEF Tries, HasAttempt
<1>7. Told'
  BY <1>t, <1>1, <1>2, <1>3 DEF Told, Over
<1>8. ASSUME NEW id \in Id PROVE Within(id)'
  <2>1. Turn(id)' = Turn(id)
    BY <1>2, <1>3 DEF Turn
  <2>2. Handlers(id)' = Handlers(id)
    BY <1>1 DEF Handlers, Handles, Over
  <2> QED BY <1>t, <1>1, <2>1, <2>2 DEF Within
<1> QED BY <1>4, <1>5, <1>6, <1>7, <1>8 DEF IInv

(***************************************************************************)
(* The steps of a drain.                                                   *)
(***************************************************************************)
\* What is known of a drain, and of the row it is over.
LEMMA DrainIs ==
  ASSUME IInv, NEW d \in Drain
  PROVE  /\ TypeOK /\ tick[d] \in Ticks /\ Fit(tick[d])
         /\ faults \in 0..MaxFaults /\ (Fault => faults' \in 0..MaxFaults)
         /\ (Holding(tick[d]) \/ Todo(d) # {}) =>
              /\ InHand(d) = Over(tick[d]) /\ InHand(d) \in DOMAIN tick[d].todo
              /\ InHand(d) \in Id /\ InHand(d) \in DOMAIN note
              /\ Listed(d) \in 0..MaxAttempts /\ Listed(d) < MaxAttempts
              /\ Listed(d) + 1 \in 0..MaxAttempts
<1>1. TypeOK /\ tick[d] \in Ticks /\ Fit(tick[d]) /\ faults \in 0..MaxFaults
  BY Types DEF IInv, AllFit
<1>2. Fault => faults' \in 0..MaxFaults
  BY <1>1, Bounds DEF Fault
<1>3. ASSUME Holding(tick[d]) \/ Todo(d) # {}
      PROVE  /\ InHand(d) = Over(tick[d]) /\ InHand(d) \in DOMAIN tick[d].todo
             /\ InHand(d) \in Id /\ InHand(d) \in DOMAIN note
             /\ Listed(d) \in 0..MaxAttempts /\ Listed(d) < MaxAttempts
             /\ Listed(d) + 1 \in 0..MaxAttempts
  <2>1. DOMAIN tick[d].todo # {}
    BY <1>1, <1>3 DEF Fit, Todo
  <2>2. InHand(d) = Over(tick[d]) /\ InHand(d) \in DOMAIN tick[d].todo /\ InHand(d) \in Id
    BY <1>1, <2>1, OverIsListed DEF InHand, Over, Todo
  <2>3. Listed(d) = tick[d].todo[InHand(d)]
    BY DEF Listed
  <2>4. Listed(d) \in 0..MaxAttempts
    <3>1. PICK ids \in SUBSET Id : tick[d].todo \in [ids -> 0..MaxAttempts]
      BY <1>1 DEF Ticks, Todos
    <3> QED BY <2>2, <2>3, <3>1
  <2>5. Listed(d) < MaxAttempts /\ InHand(d) \in DOMAIN note
    BY <1>1, <2>2, <2>3 DEF Fit
  <2> QED BY <2>2, <2>4, <2>5, Bounds
<1> QED BY <1>1, <1>2, <1>3

\* A drain lists rows that have an attempt left, and is over none.
LEMMA ListKeeps ==
  ASSUME IInv, NEW d \in Drain, List(d) PROVE IInv'
<1> DEFINE todo == [id \in Pending |-> note[id].attempts]
           x == [pc |-> "next", todo |-> todo]
<1>t. TypeOK /\ Tries /\ note \in Seq(Note) /\ DOMAIN note \subseteq Id
  BY Types DEF IInv
<1>1. Pending \in SUBSET Id /\ Pending \subseteq DOMAIN note
  BY <1>t DEF Pending
<1>2. \A id \in Pending : note[id].attempts \in 0..MaxAttempts
                           /\ note[id].attempts < MaxAttempts
  <2>1. \A id \in DOMAIN note : note[id] \in Note
    BY <1>t
  <2>2. \A id \in Pending : note[id].status \in InFlight /\ id \in DOMAIN note
    BY DEF Pending, InFlight
  <2> QED BY <1>t, <2>1, <2>2 DEF Tries, HasAttempt, Note
<1>3. todo \in [Pending -> 0..MaxAttempts]
  BY <1>2
<1>4. todo \in Todos
  BY <1>1, <1>3 DEF Todos
<1>5. x \in Ticks /\ Fit(x) /\ x.pc = "next"
  BY <1>1, <1>2, <1>4 DEF Ticks, Fit, Holding
<1>6. tick' = [tick EXCEPT ![d] = x] /\ tick[d].pc = "idle"
      /\ UNCHANGED <<note, asking, faults, sent, unsaid, misclaimed, lost>>
  BY DEF List, history, At
<1> HIDE DEF x
<1>7. \A id \in Id : Slot(x, id) = 0 /\ Slot(tick[d], id) = 0
  BY <1>5, <1>6 DEF Slot, Handles
<1>8. /\ sent \in [Id -> Nat] /\ unsaid \in [Id -> Nat] /\ misclaimed \in [Id -> Nat]
      /\ faults \in 0..MaxFaults /\ lost \subseteq Id
  BY <1>t, Types
<1>9. \A id \in Id :
        /\ sent'[id] >= sent[id]
        /\ sent'[id] - unsaid'[id] + Slot(x, id) - misclaimed'[id]
             <= sent[id] - unsaid[id] + Slot(tick[d], id) - misclaimed[id]
  BY <1>6, <1>7, <1>8
<1> QED BY <1>5, <1>6, <1>8, <1>9, RowsStay

\* A drain that is done, or dies over a row, is over none.
LEMMA RestsKeeps ==
  ASSUME IInv, NEW d \in Drain, Done(d) \/ Dies(d) PROVE IInv'
<1>t. /\ TypeOK /\ tick[d] \in Ticks /\ faults' \in 0..MaxFaults
      /\ sent \in [Id -> Nat] /\ unsaid \in [Id -> Nat] /\ misclaimed \in [Id -> Nat]
      /\ lost \subseteq Id
  <2>1. TypeOK /\ tick[d] \in Ticks
    BY DrainIs
  <2>2. faults' \in 0..MaxFaults
    BY DrainIs DEF Done, Dies
  <2> QED BY <2>1, <2>2, Types
<1>1. /\ tick' = [tick EXCEPT ![d] = AtRest]
      /\ UNCHANGED <<note, asking, sent, misclaimed>>
  BY DEF Done, Dies, Rests, history
<1>2. lost' \subseteq Id
  <2>1. CASE Holding(tick[d])
    BY <1>t, <2>1, DrainIs DEF Done, Dies, history
  <2>2. CASE ~Holding(tick[d])
    <3>1. tick[d].pc \in {"idle", "next"}
      BY <1>t, <2>2 DEF Ticks, Holding
    <3> QED BY <1>t, <3>1 DEF Done, Dies, history, At
  <2> QED BY <2>1, <2>2
<1>3. /\ unsaid' \in [Id -> Nat]
      /\ \A id \in Id : unsaid'[id] >= unsaid[id]
  <2>1. CASE unsaid' = unsaid
    BY <1>t, <2>1
  <2>2. CASE tick[d].pc = "mark" /\ unsaid' = [unsaid EXCEPT ![InHand(d)] = @ + 1]
    <3>1. InHand(d) \in Id
      BY <2>2, DrainIs DEF Holding
    <3> QED BY <1>t, <2>2, <3>1
  <2> QED BY <2>1, <2>2 DEF Done, Dies, history, At
<1>4. /\ AtRest.pc = "idle" /\ AtRest \in Ticks /\ Fit(AtRest)
  BY RestIsFit DEF AtRest
<1>5. ASSUME NEW id \in Id
      PROVE  sent'[id] - unsaid'[id] + Slot(AtRest, id) - misclaimed'[id]
               <= sent[id] - unsaid[id] + Slot(tick[d], id) - misclaimed[id]
  <2>1. Slot(AtRest, id) = 0 /\ Slot(tick[d], id) \in {0, 1}
    BY <1>4 DEF Slot, Handles
  <2>2. /\ sent[id] \in Nat /\ unsaid[id] \in Nat /\ misclaimed[id] \in Nat
        /\ unsaid'[id] \in Nat /\ unsaid'[id] >= unsaid[id]
    BY <1>t, <1>3
  <2> QED BY <1>1, <2>1, <2>2
<1>6. \A id \in Id : sent'[id] >= sent[id]
  BY <1>t, <1>1
<1> QED BY <1>t, <1>1, <1>2, <1>3, <1>4, <1>5, <1>6, RowsStay

\* A claim takes the row's turn, or finds it taken and passes the row by.
LEMMA ClaimKeeps ==
  ASSUME IInv, NEW d \in Drain, Claim(d) PROVE IInv'
<1>t. /\ TypeOK /\ Tries /\ Told /\ note \in Seq(Note) /\ faults \in 0..MaxFaults
      /\ sent \in [Id -> Nat] /\ unsaid \in [Id -> Nat] /\ misclaimed \in [Id -> Nat]
      /\ lost \subseteq Id /\ DOMAIN note \subseteq Id
  BY Types DEF IInv
<1>1. /\ tick[d].pc = "next" /\ tick[d] \in Ticks /\ Fit(tick[d])
      /\ InHand(d) = Over(tick[d]) /\ InHand(d) \in DOMAIN note /\ InHand(d) \in Id
      /\ UNCHANGED <<asking, faults, sent, unsaid, misclaimed, lost>>
  BY DrainIs DEF Claim, At, history
<1>2. \A id \in Id : Slot(tick[d], id) = 0
  BY <1>1 DEF Slot, Handles
<1>3. CASE ~Claimable(InHand(d))
  <2> DEFINE x == Passed(tick[d])
  <2>1. tick' = [tick EXCEPT ![d] = x] /\ UNCHANGED note
    BY <1>3 DEF Claim, NextRow, Passed, Todo, InHand, Over
  <2>2. x \in Ticks /\ Fit(x) /\ x.pc = "next"
    <3>1. x \in Ticks /\ Fit(x)
      BY <1>1, PassedIsLess DEF Fit
    <3> QED BY <3>1 DEF Passed
  <2> HIDE DEF x
  <2>3. \A id \in Id : Slot(x, id) = 0
    BY <2>2 DEF Slot, Handles
  <2>4. \A id \in Id :
          /\ sent'[id] >= sent[id]
          /\ sent'[id] - unsaid'[id] + Slot(x, id) - misclaimed'[id]
               <= sent[id] - unsaid[id] + Slot(tick[d], id) - misclaimed[id]
    BY <1>t, <1>1, <1>2, <2>3
  <2> QED BY <1>t, <1>1, <2>1, <2>2, <2>4, RowsStay
<1>4. CASE Claimable(InHand(d))
  <2> DEFINE h == InHand(d)
             x == [tick[d] EXCEPT !.pc = "send"]
             e0 == [note[h] EXCEPT !.status = "SENDING"]
  <2>1. /\ note[h].status = "PENDING" /\ note' = [note EXCEPT ![h] = e0]
        /\ tick' = [tick EXCEPT ![d] = x]
    BY <1>4 DEF Claim, Claimable, Goes
  <2>2. e0 \in Note /\ e0.status = "SENDING" /\ e0.attempts = note[h].attempts
    <3>1. note[h] \in Note
      BY <1>t, <1>1
    <3> QED BY <3>1 DEF Note, InFlight
  <2>3. /\ x \in Ticks /\ x.pc = "send" /\ x.todo = tick[d].todo /\ Over(x) = h
    BY <1>1, GoesOn
  <2> HIDE DEF x, e0, h
  <2>4. h \in DOMAIN note /\ h \in Id
    BY <1>1 DEF h
  <2>5. /\ note' \in Seq(Note) /\ DOMAIN note' = DOMAIN note /\ note'[h] = e0
        /\ \A j \in DOMAIN note : j # h => note'[j] = note[j]
    BY <1>t, <2>1, <2>2, <2>4, UpdateOfRow
  <2>6. Fit(x)
    BY <1>1, <2>3, <2>4, DrainIs DEF Fit, Claim, Todo
  <2>7. \A id \in DOMAIN note : note'[id] # note[id] =>
           HasAttempt(note'[id]) /\ note'[id].status # "SENT"
    BY <1>t, <2>1, <2>2, <2>4, <2>5 DEF Tries, HasAttempt, InFlight
  <2>8. ASSUME NEW id \in Id
        PROVE  sent'[id] - unsaid'[id] + Slot(x, id) + Turn(id)' - misclaimed'[id]
                 <= sent[id] - unsaid[id] + Slot(tick[d], id) + Turn(id) - misclaimed[id]
    <3>1. /\ sent[id] \in Nat /\ unsaid[id] \in Nat /\ misclaimed[id] \in Nat
      BY <1>t
    <3>2. CASE id = h
      <4>1. Turn(id) = 1 /\ Turn(id)' = 0 /\ Slot(x, id) = 1
        BY <2>1, <2>2, <2>3, <2>4, <2>5, <3>2 DEF Turn, Slot, Handles
      <4> QED BY <1>1, <1>2, <3>1, <4>1
    <3>3. CASE id # h
      <4>1. Turn(id)' = Turn(id) /\ Turn(id) \in {0, 1} /\ Slot(x, id) = 0
        BY <2>3, <2>5, <3>3 DEF Turn, Slot, Handles
      <4> QED BY <1>1, <1>2, <3>1, <4>1
    <3> QED BY <3>2, <3>3
  <2>9. \A id \in Id : sent'[id] >= sent[id]
    BY <1>t, <1>1
  <2> QED BY <1>t, <1>1, <2>1, <2>3, <2>5, <2>6, <2>7, <2>8, <2>9, TickMoves
<1> QED BY <1>3, <1>4

\* A claim that fails is a turn the row gets on top of its own.
LEMMA ClaimFailsKeeps ==
  ASSUME IInv, NEW d \in Drain, ClaimFails(d) PROVE IInv'
<1> DEFINE h == InHand(d)
           x == [tick[d] EXCEPT !.pc = "catch"]
<1>t. /\ TypeOK /\ Tries /\ Told /\ note \in Seq(Note)
      /\ sent \in [Id -> Nat] /\ unsaid \in [Id -> Nat] /\ misclaimed \in [Id -> Nat]
      /\ lost \subseteq Id /\ DOMAIN note \subseteq Id
  BY Types DEF IInv
<1>1. /\ tick[d].pc = "next" /\ tick[d] \in Ticks /\ Fit(tick[d])
      /\ h = Over(tick[d]) /\ h \in DOMAIN note /\ h \in Id /\ DOMAIN tick[d].todo # {}
      /\ UNCHANGED <<asking, sent, unsaid, lost>> /\ faults' \in 0..MaxFaults
      /\ misclaimed' = [misclaimed EXCEPT ![h] = @ + 1]
      /\ tick' = [tick EXCEPT ![d] = x]
  BY DrainIs DEF ClaimFails, At, Goes, Todo
<1>2. /\ x \in Ticks /\ x.pc = "catch" /\ x.todo = tick[d].todo /\ Over(x) = h
  BY <1>1, GoesOn
<1>3. /\ note' \in Seq(Note) /\ DOMAIN note' = DOMAIN note
      /\ \A id \in DOMAIN note : note'[id] # note[id] =>
           /\ id = h /\ note[id].status = "PENDING" /\ note'[id].status = "SENDING"
           /\ note'[id].attempts = note[id].attempts
  <2>1. CASE note' = note
    BY <1>t, <2>1
  <2>2. CASE Claimable(h) /\ note' = [note EXCEPT ![h].status = "SENDING"]
    <3> DEFINE e0 == [note[h] EXCEPT !.status = "SENDING"]
    <3>1. e0 \in Note /\ e0.status = "SENDING" /\ e0.attempts = note[h].attempts
      <4>1. note[h] \in Note
        BY <1>t, <1>1
      <4> QED BY <4>1 DEF Note, InFlight
    <3>2. note' = [note EXCEPT ![h] = e0] /\ note[h].status = "PENDING"
      BY <2>2 DEF Claimable
    <3> HIDE DEF e0, h
    <3>3. /\ note' \in Seq(Note) /\ DOMAIN note' = DOMAIN note /\ note'[h] = e0
          /\ \A j \in DOMAIN note : j # h => note'[j] = note[j]
      BY <1>t, <1>1, <3>1, <3>2, UpdateOfRow
    <3> QED BY <3>1, <3>2, <3>3
  <2> QED BY <2>1, <2>2 DEF ClaimFails
<1> HIDE DEF x, h
<1>4. Fit(x)
  BY <1>1, <1>2 DEF Fit
<1>5. \A id \in DOMAIN note : note'[id] # note[id] =>
         HasAttempt(note'[id]) /\ note'[id].status # "SENT"
  BY <1>t, <1>3 DEF Tries, HasAttempt, InFlight
<1>6. misclaimed' \in [Id -> Nat]
  BY <1>t, <1>1
<1>7. ASSUME NEW id \in Id
      PROVE  sent'[id] - unsaid'[id] + Slot(x, id) + Turn(id)' - misclaimed'[id]
               <= sent[id] - unsaid[id] + Slot(tick[d], id) + Turn(id) - misclaimed[id]
  <2>1. sent[id] \in Nat /\ unsaid[id] \in Nat /\ misclaimed[id] \in Nat
    BY <1>t
  <2>2. Turn(id)' <= Turn(id) /\ Turn(id) \in {0, 1} /\ Turn(id)' \in {0, 1}
        /\ Slot(tick[d], id) = 0
    BY <1>1, <1>3 DEF Turn, Slot, Handles
  <2>3. /\ Slot(x, id) = IF id = h THEN 1 ELSE 0
        /\ misclaimed'[id] = IF id = h THEN misclaimed[id] + 1 ELSE misclaimed[id]
    BY <1>t, <1>1, <1>2 DEF Slot, Handles
  <2> QED BY <1>1, <2>1, <2>2, <2>3
<1>8. \A id \in Id : sent'[id] >= sent[id]
  BY <1>t, <1>1
<1> QED BY <1>t, <1>1, <1>2, <1>3, <1>4, <1>5, <1>6, <1>7, <1>8, TickMoves

\* The provider's answer: a message the row is to be told of was the drain's to
\* send, one it will not be told of is counted as such.
LEMMA SendingKeeps ==
  ASSUME IInv, NEW d \in Drain, Send(d) \/ SendFails(d) \/ MarkFails(d) PROVE IInv'
<1> DEFINE h == InHand(d)
<1>t. /\ TypeOK /\ lost \subseteq Id
      /\ sent \in [Id -> Nat] /\ unsaid \in [Id -> Nat] /\ misclaimed \in [Id -> Nat]
  BY Types DEF IInv
<1>1. /\ Holding(tick[d]) /\ UNCHANGED <<note, asking, misclaimed, lost>>
  BY DEF Send, SendFails, MarkFails, At, Holding
<1>2. /\ tick[d] \in Ticks /\ Fit(tick[d]) /\ h = Over(tick[d]) /\ h \in Id
      /\ faults' \in 0..MaxFaults
  BY <1>1, DrainIs DEF Send, SendFails, MarkFails
<1>3. ASSUME NEW pc \in {"mark", "catch"}, Goes(d, pc),
             sent' \in [Id -> Nat], unsaid' \in [Id -> Nat],
             \A id \in Id : sent'[id] >= sent[id],
             pc = "mark" => sent'[h] > 0,
             \A id \in Id : id # h => sent'[id] = sent[id] /\ unsaid'[id] = unsaid[id],
             sent'[h] - unsaid'[h] + (IF pc = "catch" THEN 1 ELSE 0) <=
               sent[h] - unsaid[h] + (IF tick[d].pc # "mark" THEN 1 ELSE 0)
      PROVE  IInv'
  <2> DEFINE x == [tick[d] EXCEPT !.pc = pc]
  <2>1. /\ x \in Ticks /\ x.pc = pc /\ x.todo = tick[d].todo /\ Over(x) = h
    <3>1. tick[d] \in Ticks /\ pc \in {"send", "mark", "catch"}
      BY <1>2, <1>3
    <3> QED BY <1>2, <3>1 DEF Ticks, Over
  <2>2. tick' = [tick EXCEPT ![d] = x]
    BY <1>3 DEF Goes
  <2> HIDE DEF x, h
  <2>3. Fit(x)
    BY <1>1, <1>2, <2>1 DEF Fit
  <2>4. ASSUME NEW id \in Id
        PROVE  sent'[id] - unsaid'[id] + Slot(x, id) - misclaimed'[id]
                 <= sent[id] - unsaid[id] + Slot(tick[d], id) - misclaimed[id]
    <3>1. /\ sent[id] \in Nat /\ unsaid[id] \in Nat /\ misclaimed[id] \in Nat
          /\ sent'[id] \in Nat /\ unsaid'[id] \in Nat
      BY <1>t, <1>3
    <3>2. CASE id = h
      <4>1. /\ Slot(x, id) = IF pc = "catch" THEN 1 ELSE 0
            /\ Slot(tick[d], id) = IF tick[d].pc # "mark" THEN 1 ELSE 0
        BY <1>1, <1>2, <1>3, <2>1, <3>2 DEF Slot, Handles, Holding
      <4> QED BY <1>1, <1>3, <3>1, <3>2, <4>1
    <3>3. CASE id # h
      <4>1. Slot(x, id) = 0 /\ Slot(tick[d], id) = 0
        BY <1>2, <2>1, <3>3 DEF Slot, Handles
      <4> QED BY <1>1, <1>3, <3>1, <3>3, <4>1
    <3> QED BY <3>2, <3>3
  <2> QED BY <1>t, <1>1, <1>2, <1>3, <2>1, <2>2, <2>3, <2>4, RowsStay
<1>4. sent[h] \in Nat /\ unsaid[h] \in Nat
  BY <1>t, <1>2
<1>5. CASE Send(d)
  <2>1. /\ tick[d].pc = "send" /\ Goes(d, "mark") /\ UNCHANGED unsaid
        /\ sent' = [sent EXCEPT ![h] = @ + 1]
    BY <1>5 DEF Send, At
  <2> HIDE DEF h
  <2>2. /\ sent' \in [Id -> Nat] /\ sent'[h] = sent[h] + 1
        /\ \A id \in Id : id # h => sent'[id] = sent[id]
        /\ \A id \in Id : sent'[id] >= sent[id]
    BY <1>t, <1>2, <2>1
  <2>3. sent'[h] > 0 /\ sent'[h] - unsaid'[h] <= sent[h] - unsaid[h] + 1
    BY <1>4, <2>1, <2>2
  <2> QED BY <1>t, <1>3, <2>1, <2>2, <2>3
<1>6. CASE SendFails(d) /\ UNCHANGED <<sent, unsaid>>
  <2>1. tick[d].pc = "send" /\ Goes(d, "catch")
    BY <1>6 DEF SendFails, At
  <2> HIDE DEF h
  <2> QED BY <1>t, <1>3, <1>4, <1>6, <2>1
<1>7. CASE SendFails(d) /\ ~UNCHANGED <<sent, unsaid>>
  <2>1. /\ tick[d].pc = "send" /\ Goes(d, "catch")
        /\ sent' = [sent EXCEPT ![h] = @ + 1]
        /\ unsaid' = [unsaid EXCEPT ![h] = @ + 1]
    BY <1>7 DEF SendFails, At
  <2> HIDE DEF h
  <2>2. /\ sent' \in [Id -> Nat] /\ sent'[h] = sent[h] + 1
        /\ \A id \in Id : id # h => sent'[id] = sent[id]
        /\ \A id \in Id : sent'[id] >= sent[id]
    BY <1>t, <1>2, <2>1
  <2>3. /\ unsaid' \in [Id -> Nat] /\ unsaid'[h] = unsaid[h] + 1
        /\ \A id \in Id : id # h => unsaid'[id] = unsaid[id]
    BY <1>t, <1>2, <2>1
  <2>4. sent'[h] - unsaid'[h] <= sent[h] - unsaid[h]
    BY <1>4, <2>2, <2>3
  <2>5. sent'[h] - unsaid'[h] + 1 <= sent[h] - unsaid[h] + 1
    BY <1>4, <2>2, <2>3
  <2> QED BY <1>3, <2>1, <2>2, <2>3, <2>5
<1>8. CASE MarkFails(d)
  <2>1. /\ tick[d].pc = "mark" /\ Goes(d, "catch") /\ UNCHANGED sent
        /\ unsaid' = [unsaid EXCEPT ![h] = @ + 1]
    BY <1>8 DEF MarkFails, At
  <2> HIDE DEF h
  <2>2. /\ unsaid' \in [Id -> Nat] /\ unsaid'[h] = unsaid[h] + 1
        /\ \A id \in Id : id # h => unsaid'[id] = unsaid[id]
    BY <1>t, <1>2, <2>1
  <2>3. sent'[h] - unsaid'[h] + 1 <= sent[h] - unsaid[h] + 0
    BY <1>4, <2>1, <2>2
  <2>4. \A id \in Id : sent'[id] >= sent[id]
    BY <1>t, <2>1
  <2> QED BY <1>t, <1>3, <2>1, <2>2, <2>3, <2>4
<1> QED BY <1>5, <1>6, <1>7, <1>8

\* The row is told, or gets its turn back from the drain that had it.
LEMMA WritesKeeps ==
  ASSUME IInv, NEW d \in Drain, MarkSent(d) \/ PutBack(d) PROVE IInv'
<1> DEFINE h == InHand(d)
           x == Passed(tick[d])
           n == Listed(d) + 1
<1>t. /\ TypeOK /\ Tries /\ Told /\ note \in Seq(Note) /\ DOMAIN note \subseteq Id
      /\ sent \in [Id -> Nat] /\ unsaid \in [Id -> Nat] /\ misclaimed \in [Id -> Nat]
      /\ faults \in 0..MaxFaults /\ lost \subseteq Id
  BY Types DEF IInv
<1>1. /\ tick[d].pc \in {"mark", "catch"} /\ Holding(tick[d])
      /\ tick' = [tick EXCEPT ![d] = x]
      /\ UNCHANGED <<asking, faults, sent, unsaid, misclaimed, lost>>
  BY DEF MarkSent, PutBack, At, Holding, NextRow, Passed, Todo, InHand, Over, history
<1>2. /\ tick[d] \in Ticks /\ Fit(tick[d]) /\ h = Over(tick[d]) /\ h \in Id
      /\ h \in DOMAIN note /\ n \in 0..MaxAttempts
  BY <1>1, DrainIs
<1>3. x \in Ticks /\ Fit(x) /\ x.pc = "next"
  <2>1. x \in Ticks /\ Fit(x)
    BY <1>2, PassedIsLess DEF Fit
  <2> QED BY <2>1 DEF Passed
<1>4. PICK status \in {"SENT", "FAILED", "PENDING"} :
        /\ note' = [note EXCEPT ![h] = [status |-> status, attempts |-> n]]
        /\ status = "SENT" => tick[d].pc = "mark"
        /\ status = "PENDING" => n < MaxAttempts /\ tick[d].pc = "catch"
  <2>1. CASE MarkSent(d)
    BY <2>1 DEF MarkSent, Write, At, AttemptsAfter
  <2>2. CASE PutBack(d)
    <3>1. tick[d].pc = "catch" /\
          note' = [note EXCEPT ![h] =
            [status |-> IF n >= MaxAttempts THEN "FAILED" ELSE "PENDING", attempts |-> n]]
      BY <2>2 DEF PutBack, Write, At, AttemptsAfter
    <3>2. n >= MaxAttempts \/ n < MaxAttempts
      BY <1>2, Bounds
    <3> QED BY <3>1, <3>2
  <2> QED BY <2>1, <2>2
<1> DEFINE e0 == [status |-> status, attempts |-> n]
<1>5. e0 \in Note /\ e0.status = status /\ e0.attempts = n
  BY <1>2 DEF Note, InFlight, Settled
<1> HIDE DEF x, h, n, e0
<1>6. note' = [note EXCEPT ![h] = e0]
  BY <1>4 DEF e0
<1>7. /\ note' \in Seq(Note) /\ DOMAIN note' = DOMAIN note /\ note'[h] = e0
      /\ \A j \in DOMAIN note : j # h => note'[j] = note[j]
  BY <1>t, <1>2, <1>5, <1>6, UpdateOfRow
<1>8. \A id \in DOMAIN note : note'[id] # note[id] =>
         HasAttempt(note'[id]) /\ (note'[id].status = "SENT" => sent'[id] > 0)
  BY <1>t, <1>1, <1>2, <1>4, <1>5, <1>7 DEF HasAttempt, InFlight, Told
<1>9. ASSUME NEW id \in Id
      PROVE  sent'[id] - unsaid'[id] + Slot(x, id) + Turn(id)' - misclaimed'[id]
               <= sent[id] - unsaid[id] + Slot(tick[d], id) + Turn(id) - misclaimed[id]
  <2>1. sent[id] \in Nat /\ unsaid[id] \in Nat /\ misclaimed[id] \in Nat
        /\ Turn(id) \in {0, 1} /\ Turn(id)' \in {0, 1} /\ Slot(x, id) = 0
        /\ Slot(tick[d], id) \in {0, 1}
    BY <1>t, <1>3 DEF Turn, Slot, Handles
  <2>2. CASE id = h
    <3>1. Slot(tick[d], id) = 1 \/ Turn(id)' = 0
      BY <1>1, <1>2, <1>4, <1>5, <1>7, <2>2 DEF Turn, Slot, Handles
    <3> QED BY <1>1, <2>1, <3>1
  <2>3. CASE id # h
    <3>1. Turn(id)' = Turn(id)
      BY <1>7, <2>3 DEF Turn
    <3> QED BY <1>1, <2>1, <3>1
  <2> QED BY <2>2, <2>3
<1>10. \A id \in Id : sent'[id] >= sent[id]
  BY <1>t, <1>1
<1> QED BY <1>t, <1>1, <1>3, <1>7, <1>8, <1>9, <1>10, TickMoves

(***************************************************************************)
(* The theorems.                                                           *)
(***************************************************************************)
\* Every step keeps the invariant.
LEMMA NextIInv == IInv /\ [Next]_vars => IInv'
<1> SUFFICES ASSUME IInv, [Next]_vars PROVE IInv'
  OBVIOUS
<1>1. ASSUME NEW c \in Caller, Deliver(c) PROVE IInv'
  <2>1. CASE Ask(c)
    <3>1. UNCHANGED <<note, tick, faults, sent, unsaid, misclaimed, lost>>
          /\ asking' \in [Caller -> {"idle", "clear"}]
      BY <2>1, Types DEF Ask, history, IInv
    <3> QED BY <3>1 DEF IInv, TypeOK, AllFit, Fit, Tries, Told, Within, Turn, Handlers
  <2> QED BY <1>1, <2>1, QueueKeeps DEF Deliver
<1>2. ASSUME NEW d \in Drain, Work(d) \/ Dies(d) PROVE IInv'
  BY <1>2, ListKeeps, RestsKeeps, ClaimKeeps, ClaimFailsKeeps, SendingKeeps, WritesKeeps
     DEF Work
<1>3. CASE UNCHANGED vars
  BY <1>3 DEF vars, IInv, TypeOK, AllFit, Fit, Tries, Told, Within, Turn, Handlers
<1> QED BY <1>1, <1>2, <1>3 DEF Next

\* The invariant holds in every reachable state, whatever drains overlap and
\* fail: the rows a drain has to do are rows with an attempt left.
THEOREM OutboxInvariance == Spec => []IInv
BY InitIInv, NextIInv, PTL DEF Spec

\* A row is sent once and once more for each claim of it that failed, but for
\* messages it was never told of (trySendOne).
THEOREM SentOnce == Spec => []ResentByFailedClaims
<1>1. IInv => ResentByFailedClaims
  <2> SUFFICES ASSUME IInv, NEW id \in DOMAIN note
               PROVE  /\ sent[id] - unsaid[id] <= 1 + misclaimed[id]
                      /\ note[id].status = "SENT" => sent[id] > 0
    BY DEF ResentByFailedClaims
  <2>1. id \in Id /\ sent[id] \in Nat /\ unsaid[id] \in Nat /\ misclaimed[id] \in Nat
    BY Types DEF IInv
  <2>2. Cardinality(Handlers(id)) \in Nat
    <3>1. IsFiniteSet(Handlers(id))
      BY Bounds, FS_Subset DEF Handlers
    <3> QED BY <3>1, FS_CardinalityType
  <2>3. sent[id] - unsaid[id] + Cardinality(Handlers(id)) + Turn(id) <= 1 + misclaimed[id]
        /\ Turn(id) \in {0, 1}
    BY <2>1 DEF IInv, Within, Turn
  <2>4. note[id].status = "SENT" => sent[id] > 0
    BY DEF IInv, Told
  <2> QED BY <2>1, <2>2, <2>3, <2>4
<1> QED BY <1>1, OutboxInvariance, PTL
=============================================================================
