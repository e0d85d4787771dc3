----------------------------- MODULE DocumentProofs -----------------------------
(***************************************************************************)
(* The row of a bill's document and its audit log, for any number of       *)
(* generations at once, of stores, versions, claims and failures.          *)
(***************************************************************************)
EXTENDS BillDocument, TLAPS

\* An id names one row: there is none without it, and none is given twice.
Identified ==
  /\ row.id <= claims
  /\ row.id = 0 <=> row = NoRow

\* A state of a call that stands: the claim it holds is a row that was there
\* when it was read; one that was read as finished is there, finished, for
\* good; past the claim the call has one, past the rendering it has bytes.
Stands(c) ==
  /\ c.claim.id <= claims
  /\ c.claim.id = 0 <=> c.claim = NoRow
  /\ Finished(c.claim) => row.id = c.claim.id /\ Finished(row)
  /\ c.pc \in {"put", "store", "drop"} => c.claim.id # 0
  /\ c.pc \in {"claim", "adopt", "put", "store"} => c.sha # Unstored

AllStand == \A g \in Generator : Stands(call[g])

IInv == TypeOK /\ Identified /\ AllStand /\ CreatedOnce

\* What a call carries, as TypeOK has it.
Carried ==
  [pc : {"idle", "settings", "render", "claim", "adopt", "put", "drop", "store"},
   force : BOOLEAN, claim : Rows, here : BOOLEAN, at : Store,
   sha : Version \union {Unstored}]

LEMMA NoRowIsRow == NoRow \in Rows /\ NoRow.id = 0 /\ ~Finished(NoRow)
BY DocumentAssumption DEF NoRow, Rows, Unstored, Finished

LEMMA RestIsCarried ==
  AtRest \in Carried /\ AtRest.pc = "idle" /\ AtRest.claim = NoRow
<1>1. PICK s \in Store : s = NoRow.at
  BY DocumentAssumption DEF NoRow
<1>2. AtRest = [pc |-> "idle", force |-> FALSE, claim |-> NoRow, here |-> FALSE,
                at |-> s, sha |-> Unstored]
  BY <1>1 DEF AtRest
<1>3. AtRest \in Carried
  BY <1>2, NoRowIsRow DEF Carried
<1> QED BY <1>2, <1>3

LEMMA RestStands ==
  ASSUME TypeOK PROVE AtRest \in Carried /\ Stands(AtRest)
BY NoRowIsRow, RestIsCarried DEF TypeOK, Stands

LEMMA InitIInv == Init => IInv
<1> SUFFICES ASSUME Init PROVE IInv
  OBVIOUS
<1>1. TypeOK
  <2>1. 1 \in Version /\ 0 \in 0..MaxClaims /\ 0 \in 0..MaxFailures
    BY DocumentAssumption DEF Version
  <2>2. call \in [Generator -> Carried]
    BY RestIsCarried DEF Init
  <2>3. object \in [Store -> Version \union {Unstored}]
    BY DEF Init
  <2> QED BY <2>1, <2>2, <2>3, NoRowIsRow DEF Init, TypeOK, Carried
<1>2. Identified /\ CreatedOnce
  BY NoRowIsRow DEF Init, Identified, CreatedOnce
<1>3. AllStand
  BY <1>1, RestStands DEF Init, AllStand
<1> QED BY <1>1, <1>2, <1>3 DEF IInv

(***************************************************************************)
(* A step that leaves the row alone and gives one call a state that        *)
(* stands.                                                                 *)
(***************************************************************************)
LEMMA MoveKeeps ==
  ASSUME IInv, NEW g \in Generator, NEW c \in Carried, Stands(c),
         call' = [call EXCEPT ![g] = c],
         UNCHANGED <<row, claims, created, world>>,
         object' \in [Store -> Version \union {Unstored}],
         failures' \in 0..MaxFailures, sole' \in SUBSET Generator, torn' \in BOOLEAN
  PROVE  IInv'
<1>1. TypeOK'
  BY DEF IInv, TypeOK, Carried, world
<1>2. Identified' /\ CreatedOnce'
  BY DEF IInv, Identified, CreatedOnce, Finished
<1>3. ASSUME NEW h \in Generator PROVE Stands(call[h])'
  <2>1. call'[h] = IF h = g THEN c ELSE call[h]
    BY DEF IInv, TypeOK
  <2>2. Stands(call[h])
    BY DEF IInv, AllStand
  <2> QED BY <2>1, <2>2 DEF Stands, Finished
<1> QED BY <1>1, <1>2, <1>3 DEF IInv, AllStand

(***************************************************************************)
(* Every step keeps the invariant.                                         *)
(***************************************************************************)
LEMMA NextIInv == IInv /\ [Next]_vars => IInv'
<1> SUFFICES ASSUME IInv, [Next]_vars PROVE IInv'
  OBVIOUS
<1>t. /\ TypeOK /\ Identified /\ CreatedOnce
      /\ \A g \in Generator : call[g] \in Carried /\ Stands(call[g])
  BY DEF IInv, AllStand, TypeOK, Carried
<1>1. ASSUME NEW g \in Generator, NEW force \in BOOLEAN, Begin(g, force) PROVE IInv'
  <2> DEFINE c == [AtRest EXCEPT !.pc = "settings", !.force = force, !.claim = row]
  <2>1. c \in Carried /\ c.pc = "settings" /\ c.claim = row
    BY <1>t, RestIsCarried DEF Carried, TypeOK
  <2>2. Stands(c)
    BY <1>t, <2>1 DEF Stands, Identified
  <2>3. call' = [call EXCEPT ![g] = c]
    BY <1>1 DEF Begin, Become
  <2> HIDE DEF c
  <2> QED BY <1>1, <1>t, <2>1, <2>2, <2>3, MoveKeeps DEF Begin, books, world, TypeOK
<1>2. ASSUME NEW g \in Generator, ReadSettings(g) PROVE IInv'
  <2> DEFINE c == [Goes(g, "render") EXCEPT !.at = storage]
  <2>1. c \in Carried /\ c.pc = "render" /\ c.claim = call[g].claim
    BY <1>t DEF Goes, Carried, TypeOK
  <2>2. Stands(c)
    BY <1>t, <2>1 DEF Stands
  <2>3. call' = [call EXCEPT ![g] = c]
    BY <1>2 DEF ReadSettings, Become
  <2> HIDE DEF c
  <2> QED BY <1>2, <1>t, <2>1, <2>2, <2>3, MoveKeeps
          DEF ReadSettings, books, world, history, TypeOK
<1>3. ASSUME NEW g \in Generator, Render(g) PROVE IInv'
  <2> DEFINE c == [Goes(g, IF Exists(call[g].claim) THEN "put" ELSE "claim")
                   EXCEPT !.sha = content]
  <2>1. /\ c \in Carried /\ c.claim = call[g].claim /\ c.sha = content
        /\ c.pc = IF Exists(call[g].claim) THEN "put" ELSE "claim"
    BY <1>t DEF Goes, Carried, TypeOK
  <2>2. Stands(c)
    <3>1. content # Unstored
      BY <1>t, DocumentAssumption DEF TypeOK, Version, Unstored
    <3>2. Exists(call[g].claim) => call[g].claim.id # 0
      BY <1>t DEF Stands, Exists
    <3> QED BY <1>t, <2>1, <3>1, <3>2 DEF Stands
  <2>3. call' = [call EXCEPT ![g] = c]
    BY <1>3 DEF Render, Become
  <2> HIDE DEF c
  <2> QED BY <1>3, <1>t, <2>1, <2>2, <2>3, MoveKeeps
          DEF Render, books, world, history, TypeOK
<1>4. ASSUME NEW g \in Generator, CannotRender(g) PROVE IInv'
  BY <1>4, <1>t, RestStands, MoveKeeps
  DEF CannotRender, Become, books, world, history, TypeOK
<1>5. ASSUME NEW g \in Generator, ClaimRow(g) PROVE IInv'
  <2>1. CASE Exists(row)
    <3> DEFINE c == Goes(g, "adopt")
    <3>1. /\ c \in Carried /\ c.claim = call[g].claim /\ c.sha = call[g].sha
          /\ c.pc = "adopt"
      BY <1>t DEF Goes, Carried
    <3>2. Stands(c)
      BY <1>5, <1>t, <3>1 DEF ClaimRow, At, Stands
    <3>3. call' = [call EXCEPT ![g] = c] /\ UNCHANGED <<row, claims>>
      BY <1>5, <2>1 DEF ClaimRow, Become
    <3> HIDE DEF c
    <3> QED BY <1>5, <1>t, <3>1, <3>2, <3>3, MoveKeeps
            DEF ClaimRow, world, history, TypeOK
  <2>2. CASE ~Exists(row)
    <3> DEFINE c == [Goes(g, "put") EXCEPT !.claim = row', !.here = TRUE]
    <3>1. /\ claims \in Nat /\ claims' = claims + 1 /\ claims' \in 0..MaxClaims
          /\ row = NoRow /\ row' \in Rows
          /\ row'.id = claims' /\ row'.sha = Unstored
      BY <1>5, <1>t, <2>2, DocumentAssumption
      DEF ClaimRow, Exists, TypeOK, Rows, Carried, Unstored
    <3>2. ~Finished(row) /\ ~Finished(row') /\ row' # NoRow
      BY <3>1, NoRowIsRow DEF Finished
    <3>3. /\ c \in Carried /\ c.claim = row' /\ c.sha = call[g].sha /\ c.pc = "put"
          /\ call' = [call EXCEPT ![g] = c]
      BY <1>5, <1>t, <2>2, <3>1 DEF ClaimRow, Become, Goes, Carried
    <3>4. TypeOK'
      <4>1. call' \in [Generator -> Carried]
        BY <1>t, <3>3 DEF TypeOK, Carried
      <4> QED BY <1>5, <1>t, <3>1, <4>1 DEF ClaimRow, TypeOK, Carried, world, history
    <3>5. Identified' /\ CreatedOnce'
      BY <1>5, <1>t, <3>1, <3>2 DEF ClaimRow, Identified, CreatedOnce
    <3>6. ASSUME NEW h \in Generator PROVE Stands(call[h])'
      <4>1. CASE h = g
        <5>1. call'[h] = c
          BY <4>1, <3>3, <1>t DEF TypeOK
        <5>2. call[g].sha # Unstored
          BY <1>5, <1>t DEF ClaimRow, At, Stands
        <5> HIDE DEF c
        <5> QED BY <3>1, <3>2, <3>3, <5>1, <5>2 DEF Stands
      <4>2. CASE h # g
        <5>1. call'[h] = call[h]
          BY <4>2, <3>3, <1>t DEF TypeOK
        <5>2. call[h].claim.id \in Nat
          BY <1>t DEF Carried, Rows
        <5> QED BY <1>t, <3>1, <3>2, <5>1, <5>2 DEF Stands, Finished
      <4> QED BY <4>1, <4>2
    <3> QED BY <3>4, <3>5, <3>6 DEF IInv, AllStand
  <2> QED BY <2>1, <2>2
<1>6. ASSUME NEW g \in Generator, Adopt(g) PROVE IInv'
  <2> DEFINE c == IF ~Exists(row) \/ (Finished(row) /\ ~call[g].force)
                  THEN AtRest
                  ELSE [Goes(g, "put") EXCEPT !.claim = row]
  <2>1. c \in Carried /\ Stands(c)
    <3>1. CASE ~Exists(row) \/ (Finished(row) /\ ~call[g].force)
      BY <1>t, <3>1, RestStands
    <3>2. CASE ~(~Exists(row) \/ (Finished(row) /\ ~call[g].force))
      <4> DEFINE d == [Goes(g, "put") EXCEPT !.claim = row]
      <4>1. /\ d \in Carried /\ d.claim = row /\ d.sha = call[g].sha
            /\ d.pc = "put"
        BY <1>t DEF Goes, Carried, TypeOK
      <4>2. row.id # 0
        BY <1>t, <3>2 DEF Identified, Exists
      <4>3. Stands(d)
        BY <1>6, <1>t, <4>1, <4>2 DEF Adopt, At, Stands, Identified
      <4> QED BY <3>2, <4>1, <4>3
    <3> QED BY <3>1, <3>2
  <2>2. call' = [call EXCEPT ![g] = c]
    BY <1>6 DEF Adopt, Become
  <2> HIDE DEF c
  <2> QED BY <1>6, <1>t, <2>1, <2>2, MoveKeeps
          DEF Adopt, books, world, history, TypeOK
<1>7. ASSUME NEW g \in Generator, Put(g) PROVE IInv'
  <2> DEFINE c == Goes(g, "store")
  <2>1. /\ c \in Carried /\ c.claim = call[g].claim /\ c.sha = call[g].sha
        /\ c.pc = "store"
    BY <1>t DEF Goes, Carried
  <2>2. Stands(c)
    BY <1>7, <1>t, <2>1 DEF Put, At, Stands
  <2>3. call' = [call EXCEPT ![g] = c]
    BY <1>7 DEF Put, Become
  <2>4. object' \in [Store -> Version \union {Unstored}]
    BY <1>7, <1>t DEF Put, TypeOK, Carried
  <2> HIDE DEF c
  <2> QED BY <1>7, <1>t, <2>1, <2>2, <2>3, <2>4, MoveKeeps
          DEF Put, world, history, TypeOK
<1>8. ASSUME NEW g \in Generator, PutFails(g) PROVE IInv'
  <2> DEFINE c == IF call[g].here THEN Goes(g, "drop") ELSE AtRest
  <2>1. c \in Carried /\ Stands(c)
    <3> DEFINE d == Goes(g, "drop")
    <3>1. d \in Carried /\ d.claim = call[g].claim /\ d.pc = "drop"
      BY <1>t DEF Goes, Carried
    <3>2. Stands(d)
      BY <1>8, <1>t, <3>1 DEF PutFails, At, Stands
    <3> QED BY <1>t, <3>1, <3>2, RestStands
  <2>2. call' = [call EXCEPT ![g] = c]
    BY <1>8 DEF PutFails, Become
  <2>3. /\ object' \in [Store -> Version \union {Unstored}]
        /\ failures' \in 0..MaxFailures /\ torn' \in BOOLEAN
    <3>1. failures' \in 0..MaxFailures
      BY <1>8, <1>t, DocumentAssumption DEF PutFails, TypeOK
    <3>2. CASE UNCHANGED <<object, torn>>
      BY <1>t, <3>1, <3>2 DEF TypeOK
    <3>3. CASE /\ object' = [object EXCEPT ![call[g].at] = call[g].sha]
               /\ torn' = TRUE
      <4>1. call[g].at \in Store /\ call[g].sha \in Version \union {Unstored}
        BY <1>t DEF Carried
      <4>2. object' \in [Store -> Version \union {Unstored}]
        BY <1>t, <3>3, <4>1 DEF TypeOK
      <4> QED BY <3>1, <3>3, <4>2
    <3> QED BY <1>8, <3>2, <3>3 DEF PutFails
  <2> HIDE DEF c
  <2> QED BY <1>8, <1>t, <2>1, <2>2, <2>3, MoveKeeps DEF PutFails, world, TypeOK
<1>9. ASSUME NEW g \in Generator, Drop(g) PROVE IInv'
  <2>1. CASE row' = row
    BY <1>9, <1>t, <2>1, RestStands, MoveKeeps
    DEF Drop, Become, world, history, TypeOK
  <2>2. CASE row' # row
    <3>1. row' = NoRow /\ ~Finished(row)
      BY <1>9, <2>2 DEF Drop, Removable
    <3>2. call' = [call EXCEPT ![g] = AtRest]
      BY <1>9 DEF Drop, Become
    <3>3. TypeOK'
      <4>1. call' \in [Generator -> Carried]
        BY <1>t, <3>2, RestIsCarried DEF TypeOK, Carried
      <4> QED BY <1>9, <1>t, <3>1, <4>1, NoRowIsRow
              DEF Drop, TypeOK, Carried, world, history
    <3>4. Identified' /\ CreatedOnce'
      BY <1>9, <1>t, <3>1, NoRowIsRow DEF Drop, Identified, CreatedOnce, TypeOK
    <3>5. ASSUME NEW h \in Generator PROVE Stands(call[h])'
      <4>1. call'[h] = IF h = g THEN AtRest ELSE call[h]
        BY <1>t, <3>2 DEF TypeOK
      <4>2. Stands(call[h]) /\ Stands(AtRest) /\ claims' = claims
        BY <1>9, <1>t, RestStands DEF Drop
      <4> QED BY <3>1, <4>1, <4>2 DEF Stands, Finished
    <3> QED BY <3>3, <3>4, <3>5 DEF IInv, AllStand
  <2> QED BY <2>1, <2>2
<1>10. ASSUME NEW g \in Generator, StoreRow(g) PROVE IInv'
  <2>1. CASE ~Stores(call[g].claim)
    BY <1>10, <1>t, <2>1, RestStands, MoveKeeps
    DEF StoreRow, Become, world, TypeOK
  <2>2. CASE Stores(call[g].claim)
    <3>1. /\ row' \in Rows /\ row'.id = row.id /\ row'.sha = call[g].sha
          /\ call' = [call EXCEPT ![g] = AtRest]
          /\ UNCHANGED <<object, claims, failures, sole, content, storage>>
      <4>1. call[g].at \in Store /\ call[g].sha \in Version \union {Unstored}
        BY <1>t DEF Carried
      <4>2. row' = [row EXCEPT !.sha = call[g].sha, !.at = call[g].at]
        BY <1>10, <2>2 DEF StoreRow, StoredRow
      <4>3. row' \in Rows /\ row'.id = row.id /\ row'.sha = call[g].sha
        BY <1>t, <4>1, <4>2 DEF TypeOK, Rows
      <4> QED BY <1>10, <4>3 DEF StoreRow, Become, world
    <3>2. Finished(row') /\ row.id # 0 /\ row.id = call[g].claim.id
      BY <1>10, <1>t, <2>2, <3>1 DEF StoreRow, At, Stands, Stores, Finished
    <3>3. /\ created' = created + (IF Finished(call[g].claim) THEN 0 ELSE 1)
          /\ torn' \in BOOLEAN
      BY <1>10, <1>t, <2>2 DEF StoreRow, TypeOK
    <3>4. created' = 1
      <4>1. Finished(call[g].claim) <=> Finished(row)
        BY <1>t, <2>2 DEF Stores, Stands
      <4> QED BY <1>t, <3>3, <4>1 DEF CreatedOnce
    <3>5. TypeOK'
      <4>1. call' \in [Generator -> Carried]
        BY <1>t, <3>1, RestIsCarried DEF TypeOK, Carried
      <4>2. 1 \in 0..MaxClaims
        BY DocumentAssumption
      <4> QED BY <1>t, <3>1, <3>3, <3>4, <4>1, <4>2 DEF TypeOK, Carried
    <3>6. Identified' /\ CreatedOnce'
      BY <1>t, <3>1, <3>2, <3>4, NoRowIsRow DEF Identified, CreatedOnce
    <3>7. ASSUME NEW h \in Generator PROVE Stands(call[h])'
      <4>1. call'[h] = IF h = g THEN AtRest ELSE call[h]
        BY <1>t, <3>1 DEF TypeOK
      <4>2. Stands(call[h]) /\ Stands(AtRest)
        BY <1>t, RestStands
      <4> QED BY <3>1, <3>2, <4>1, <4>2 DEF Stands, Finished
    <3> QED BY <3>5, <3>6, <3>7 DEF IInv, AllStand
  <2> QED BY <2>1, <2>2
<1>11. ASSUME NEW g \in Generator, Dies(g) PROVE IInv'
  <2>1. failures' \in 0..MaxFailures /\ torn' \in BOOLEAN
    BY <1>11, <1>t, DocumentAssumption DEF Dies, At, TypeOK
  <2> QED BY <1>11, <1>t, <2>1, RestStands, MoveKeeps
          DEF Dies, Become, world, books, TypeOK
<1>12. CASE Edit \/ ChooseStore \/ UNCHANGED vars
  <2>1. UNCHANGED <<row, call, created, claims, object, failures, sole>>
    BY <1>12 DEF Edit, ChooseStore, books, vars
  <2>2. TypeOK'
    <3>1. content' \in Version /\ storage' \in Store
      BY <1>12, <1>t, DocumentAssumption DEF Edit, ChooseStore, vars, TypeOK, Version
    <3>2. torn' \in BOOLEAN
      BY <1>12, <1>t DEF Edit, ChooseStore, Changes, vars, TypeOK
    <3> QED BY <1>t, <2>1, <3>1, <3>2 DEF TypeOK
  <2> QED BY <1>t, <2>1, <2>2
          DEF IInv, Identified, AllStand, Stands, CreatedOnce, Finished
<1> QED BY <1>1, <1>2, <1>3, <1>4, <1>5, <1>6, <1>7, <1>8, <1>9, <1>10, <1>11, <1>12
        DEF Next, Generate

(***************************************************************************)
(* The invariant holds of every generation, in every order.                *)
(***************************************************************************)
THEOREM DocumentInvariance == Spec => []IInv
BY InitIInv, NextIInv, PTL DEF Spec

(***************************************************************************)
(* generateBillDocument writes one creation for one document, however many *)
(* calls race for the row.                                                 *)
(***************************************************************************)
THEOREM DocumentCreatedOnce == Spec => []CreatedOnce
<1>1. IInv => CreatedOnce
  BY DEF IInv
<1> QED BY <1>1, DocumentInvariance, PTL

(***************************************************************************)
(* No call takes a finished document away, whichever claim it holds.       *)
(***************************************************************************)
THEOREM DocumentStays == Spec => FinishedStays
<1> DEFINE Step == Finished(row) => Finished(row') /\ row'.id = row.id
<1>1. IInv /\ IInv' /\ [Next]_vars => [Step]_vars
  <2> SUFFICES ASSUME IInv, IInv', [Next]_vars, Finished(row), row' # row
               PROVE  Finished(row') /\ row'.id = row.id
    BY DEF vars
  <2>1. PICK g \in Generator : ClaimRow(g) \/ Drop(g) \/ StoreRow(g)
    BY DEF Next, Generate, Begin, ReadSettings, Render, CannotRender, Adopt, Put,
           PutFails, Dies, Edit, ChooseStore, books, vars
  <2>2. ~ClaimRow(g)
    BY NoRowIsRow DEF ClaimRow, Exists
  <2>3. ~Drop(g)
    BY DEF Drop, Removable
  <2>4. StoreRow(g) /\ call[g].sha # Unstored
    BY <2>1, <2>2, <2>3 DEF StoreRow, At, IInv, AllStand, Stands
  <2>5. row'.id = row.id /\ row'.sha = call[g].sha
    BY <2>4 DEF StoreRow, StoredRow, IInv, TypeOK, Rows
  <2> QED BY <2>4, <2>5 DEF Finished
<1> QED BY <1>1, DocumentInvariance, PTL DEF Spec, FinishedStays
-----------------------------------------------------------------------------
(***************************************************************************)
(* What a finished row names.  A call that uploads over a finished document *)
(* leaves it naming bytes that are gone until its own transaction comes, so *)
(* the invariant says what a call carries while nothing is torn: the data   *)
(* and the store as they are, and, where it took the row for unfinished, a  *)
(* row that can only have been finished like that since.                    *)
(***************************************************************************)
Kept == row.sha = content /\ row.at = storage

Current(c) ==
  c.pc # "idle" =>
    /\ c.pc # "settings" => c.at = storage
    /\ c.pc \in {"claim", "adopt", "put", "store"} => c.sha = content
    /\ c.pc = "store" => object[storage] = content
    /\ ~Finished(c.claim) /\ Finished(row) => Kept

AllCurrent == ~torn => \A g \in Generator : Current(call[g])

\* A call that runs alone stands by its own upload, torn or not.
Alone ==
  \A g \in sole : /\ InFlight \subseteq {g}
                  /\ At(g, "store") => object[call[g].at] = call[g].sha

Backed ==
  ~torn /\ Finished(row) =>
    object[row.at] = row.sha \/ \E g \in Generator : At(g, "store")

RInv == Alone /\ AllCurrent /\ Backed

\* What a call became.
LEMMA BecomeIs ==
  ASSUME TypeOK, NEW g \in Generator, NEW c, call' = [call EXCEPT ![g] = c]
  PROVE  call'[g] = c /\ \A h \in Generator : h # g => call'[h] = call[h]
BY DEF TypeOK

\* A call in flight that moves, with no upload and no end of its own: the
\* others are as current as they were, and so is who runs alone.
LEMMA FlightKeeps ==
  ASSUME TypeOK, RInv, NEW g \in Generator, ~At(g, "idle"),
         ~At(g, "store") \/ torn',
         NEW c, c.pc # "store", call' = [call EXCEPT ![g] = c],
         UNCHANGED <<content, storage, sole>>,
         ~torn' => ~torn /\ object' = object,
         row' = row \/ ~Finished(row'),
         ~torn' => Current(call[g])'
  PROVE  RInv'
<1>1. call'[g] = c /\ \A h \in Generator : h # g => call'[h] = call[h]
  BY BecomeIs
<1>2. Alone'
  <2>1. InFlight' \subseteq InFlight
    BY <1>1 DEF InFlight, At
  <2>2. ASSUME NEW h \in sole PROVE h = g
    BY DEF RInv, Alone, InFlight
  <2> QED BY <1>1, <2>1, <2>2 DEF RInv, Alone, At
<1>3. AllCurrent'
  <2> SUFFICES ASSUME ~torn', NEW h \in Generator PROVE Current(call[h])'
    BY DEF AllCurrent
  <2>1. CASE h = g
    BY <2>1
  <2>2. CASE h # g
    <3>1. call'[h] = call[h] /\ Current(call[h])
      BY <1>1, <2>2 DEF RInv, AllCurrent
    <3> QED BY <3>1 DEF Current, Kept
  <2> QED BY <2>1, <2>2
<1>4. Backed'
  <2> SUFFICES ASSUME ~torn', Finished(row')
               PROVE  object'[row'.at] = row'.sha \/ \E h \in Generator : At(h, "store")'
    BY DEF Backed
  <2>1. row' = row /\ object' = object
    OBVIOUS
  <2>2. ASSUME NEW h \in Generator, At(h, "store") PROVE At(h, "store")'
    BY <1>1, <2>2 DEF At
  <2> QED BY <2>1, <2>2 DEF RInv, Backed
<1> QED BY <1>2, <1>3, <1>4 DEF RInv

LEMMA RestIsCurrent == Current(AtRest) /\ Current(AtRest)'
BY DEF Current, AtRest

\* A call that goes to rest without a word, from anywhere but its upload.
LEMMA RestingKeeps ==
  ASSUME TypeOK, RInv, NEW g \in Generator, ~At(g, "idle"),
         ~At(g, "store") \/ torn',
         call' = [call EXCEPT ![g] = AtRest],
         UNCHANGED <<content, storage, sole>>,
         ~torn' => ~torn /\ object' = object,
         row' = row \/ ~Finished(row')
  PROVE  RInv'
<1>1. AtRest.pc # "store"
  BY DEF AtRest
<1>2. call'[g] = AtRest
  BY BecomeIs
<1>3. Current(call[g])'
  BY <1>1, <1>2 DEF Current, AtRest
<1> QED BY <1>1, <1>3, FlightKeeps

(***************************************************************************)
(* The steps of a generation, and those of the world.                      *)
(***************************************************************************)
LEMMA UploadKeeps ==
  ASSUME IInv, RInv, NEW g \in Generator, Put(g) PROVE RInv'
<1>t. TypeOK /\ call[g] \in Carried
  BY DEF IInv, TypeOK, Carried
<1> DEFINE c == Goes(g, "store")
<1>1. /\ c.pc = "store" /\ c.at = call[g].at /\ c.sha = call[g].sha
      /\ c.claim = call[g].claim /\ call' = [call EXCEPT ![g] = c]
  BY <1>t DEF Put, Become, Goes, Carried
<1>2. /\ At(g, "put") /\ object' = [object EXCEPT ![call[g].at] = call[g].sha]
      /\ UNCHANGED <<content, storage, row, sole, torn>>
  BY DEF Put, world, history
<1> HIDE DEF c
<1>3. call'[g] = c /\ \A h \in Generator : h # g => call'[h] = call[h]
  BY <1>1, <1>t, BecomeIs
<1>4. object'[call[g].at] = call[g].sha
  BY <1>2, <1>t DEF Carried, TypeOK
<1>5. Alone'
  <2>1. ASSUME NEW h \in sole PROVE h = g
    BY <1>2 DEF RInv, Alone, InFlight, At
  <2>2. InFlight' = InFlight
    BY <1>1, <1>2, <1>3 DEF InFlight, At
  <2> QED BY <1>1, <1>2, <1>3, <1>4, <2>1, <2>2 DEF RInv, Alone
<1>6. AllCurrent'
  <2> SUFFICES ASSUME ~torn', NEW h \in Generator PROVE Current(call[h])'
    BY DEF AllCurrent
  <2>1. call[g].at = storage /\ call[g].sha = content
    BY <1>2 DEF RInv, AllCurrent, Current, At
  <2>2. object'[storage'] = content'
    BY <1>2, <1>4, <2>1
  <2>3. Current(call[g]) /\ Current(call[h])
    BY <1>2 DEF RInv, AllCurrent
  <2>4. CASE h = g
    BY <1>1, <1>2, <1>3, <2>1, <2>2, <2>3, <2>4 DEF Current, Kept, At
  <2>5. CASE h # g
    BY <1>2, <1>3, <2>2, <2>3, <2>5 DEF Current, Kept
  <2> QED BY <2>4, <2>5
<1>7. Backed'
  BY <1>1, <1>3 DEF Backed, At
<1> QED BY <1>5, <1>6, <1>7 DEF RInv

\* The transaction puts the row right, or finds it right.
LEMMA StoreKeeps ==
  ASSUME IInv, RInv, NEW g \in Generator, StoreRow(g) PROVE RInv'
<1>t. /\ TypeOK /\ call[g] \in Carried /\ Stands(call[g])
  BY DEF IInv, AllStand, TypeOK, Carried
<1>1. /\ At(g, "store") /\ call' = [call EXCEPT ![g] = AtRest]
      /\ UNCHANGED <<content, storage, object, sole>>
  BY DEF StoreRow, Become, world
<1>2. call'[g] = AtRest /\ \A h \in Generator : h # g => call'[h] = call[h]
  BY <1>1, <1>t, BecomeIs
<1>3. Alone'
  <2>1. InFlight' \subseteq InFlight /\ ~At(g, "store")'
    BY <1>1, <1>2 DEF InFlight, At, AtRest
  <2>2. ASSUME NEW h \in sole PROVE h = g
    BY <1>1 DEF RInv, Alone, InFlight, At
  <2> QED BY <1>1, <2>1, <2>2 DEF RInv, Alone
<1>4. CASE Stores(call[g].claim)
  <2>1. row'.sha = call[g].sha /\ row'.at = call[g].at /\ torn' = (torn /\ g \notin sole)
    BY <1>4, <1>t DEF StoreRow, StoredRow, TypeOK, Rows
  <2>2. CASE ~torn
    <3>1. /\ call[g].at = storage /\ call[g].sha = content
          /\ object[storage] = content
      BY <1>1, <2>2 DEF RInv, AllCurrent, Current, At
    <3>2. Kept' /\ object'[row'.at] = row'.sha
      BY <1>1, <2>1, <3>1 DEF Kept
    <3>3. ASSUME NEW h \in Generator PROVE Current(call[h])'
      <4>1. CASE h = g
        BY <1>2, <4>1 DEF Current, AtRest
      <4>2. CASE h # g
        <5>1. call'[h] = call[h] /\ Current(call[h])
          BY <1>2, <2>2, <4>2 DEF RInv, AllCurrent
        <5> QED BY <1>1, <3>2, <5>1 DEF Current
      <4> QED BY <4>1, <4>2
    <3> QED BY <1>3, <3>2, <3>3 DEF RInv, AllCurrent, Backed
  <2>3. CASE torn /\ g \in sole
    <3>1. object'[row'.at] = row'.sha
      BY <1>1, <2>1, <2>3 DEF RInv, Alone
    <3>2. ASSUME NEW h \in Generator PROVE call'[h].pc = "idle"
      BY <1>2, <2>3 DEF RInv, Alone, InFlight, At, AtRest
    <3> QED BY <1>3, <3>1, <3>2 DEF RInv, AllCurrent, Current, Backed
  <2>4. CASE torn /\ g \notin sole
    BY <1>3, <2>1, <2>4 DEF RInv, AllCurrent, Backed
  <2> QED BY <2>2, <2>3, <2>4
<1>5. CASE ~Stores(call[g].claim)
  <2>1. UNCHANGED <<row, torn>>
    BY <1>5 DEF StoreRow
  <2>2. CASE torn
    BY <1>3, <2>1, <2>2 DEF RInv, AllCurrent, Backed
  <2>3. CASE ~torn
    <3>1. ~Finished(row) \/ ~Finished(call[g].claim)
      BY <1>5, <1>t DEF Stores, Stands
    <3>2. object[storage] = content /\ (Finished(row) => Kept)
      BY <1>1, <2>3, <3>1 DEF RInv, AllCurrent, Current, At
    <3>3. Finished(row') => object'[row'.at] = row'.sha
      BY <1>1, <2>1, <3>2 DEF Kept
    <3>4. ASSUME NEW h \in Generator PROVE Current(call[h])'
      <4>1. CASE h = g
        BY <1>2, <4>1 DEF Current, AtRest
      <4>2. CASE h # g
        <5>1. call'[h] = call[h] /\ Current(call[h])
          BY <1>2, <2>3, <4>2 DEF RInv, AllCurrent
        <5> QED BY <1>1, <2>1, <5>1 DEF Current, Kept
      <4> QED BY <4>1, <4>2
    <3> QED BY <1>3, <3>3, <3>4 DEF RInv, AllCurrent, Backed
  <2> QED BY <2>2, <2>3
<1> QED BY <1>4, <1>5

\* A call begins with the row as it is; alone, if nobody else is at work.
LEMMA BeginKeeps ==
  ASSUME IInv, RInv, NEW g \in Generator, NEW force \in BOOLEAN, Begin(g, force)
  PROVE  RInv'
<1>t. TypeOK
  BY DEF IInv
<1> DEFINE c == [AtRest EXCEPT !.pc = "settings", !.force = force, !.claim = row]
<1>1. c.pc = "settings" /\ c.claim = row /\ call' = [call EXCEPT ![g] = c]
  BY DEF Begin, Become, AtRest
<1>2. /\ At(g, "idle") /\ sole' = (IF InFlight = {} THEN {g} ELSE {})
      /\ UNCHANGED <<content, storage, object, row, torn>>
  BY DEF Begin, world, books
<1> HIDE DEF c
<1>3. call'[g] = c /\ \A h \in Generator : h # g => call'[h] = call[h]
  BY <1>1, <1>t, BecomeIs
<1>4. Alone'
  <2>1. InFlight' = InFlight \union {g} /\ ~At(g, "store")'
    BY <1>1, <1>3 DEF InFlight, At
  <2> QED BY <1>2, <2>1 DEF Alone
<1>5. AllCurrent'
  <2> SUFFICES ASSUME ~torn', NEW h \in Generator PROVE Current(call[h])'
    BY DEF AllCurrent
  <2>1. CASE h = g
    BY <1>1, <1>2, <1>3, <2>1 DEF Current
  <2>2. CASE h # g
    <3>1. call'[h] = call[h] /\ Current(call[h])
      BY <1>2, <1>3, <2>2 DEF RInv, AllCurrent
    <3> QED BY <1>2, <3>1 DEF Current, Kept
  <2> QED BY <2>1, <2>2
<1>6. Backed'
  <2>1. ASSUME NEW h \in Generator, At(h, "store") PROVE At(h, "store")'
    BY <1>2, <1>3, <2>1 DEF At
  <2> QED BY <1>2, <2>1 DEF RInv, Backed
<1> QED BY <1>4, <1>5, <1>6 DEF RInv

\* The data or the settings move: what is in flight is torn by it.
LEMMA ChangesKeep ==
  ASSUME TypeOK, RInv, UNCHANGED <<books, call, sole>>, Changes
  PROVE  RInv'
<1>1. UNCHANGED <<row, object, call, sole>>
  BY DEF books
<1>2. Alone'
  BY <1>1 DEF RInv, Alone, InFlight, At
<1>3. CASE torn'
  BY <1>2, <1>3 DEF RInv, AllCurrent, Backed
<1>4. CASE ~torn'
  <2>1. ~torn /\ InFlight = {}
    BY <1>4 DEF Changes
  <2>2. \A g \in Generator : call'[g].pc = "idle"
    BY <1>1, <2>1 DEF InFlight, At
  <2>3. AllCurrent'
    BY <2>2 DEF AllCurrent, Current
  <2>4. Backed'
    BY <1>1, <2>1 DEF RInv, Backed, At, Finished
  <2> QED BY <1>2, <2>3, <2>4 DEF RInv
<1> QED BY <1>3, <1>4 DEF Changes

LEMMA NextRInv == IInv /\ RInv /\ [Next]_vars => RInv'
<1> SUFFICES ASSUME IInv, RInv, [Next]_vars PROVE RInv'
  OBVIOUS
<1>t. /\ TypeOK /\ torn \in BOOLEAN /\ \A g \in Generator : call[g] \in Carried
  BY DEF IInv, TypeOK, Carried
<1>1. ASSUME NEW g \in Generator, NEW force \in BOOLEAN, Begin(g, force) PROVE RInv'
  BY <1>1, BeginKeeps
<1>2. ASSUME NEW g \in Generator, ReadSettings(g) PROVE RInv'
  <2> DEFINE c == [Goes(g, "render") EXCEPT !.at = storage]
  <2>1. c.pc = "render" /\ c.claim = call[g].claim /\ c.at = storage
    BY <1>t DEF Goes, Carried
  <2>2. call' = [call EXCEPT ![g] = c] /\ At(g, "settings")
        /\ UNCHANGED <<content, storage, sole, torn, object, row>>
    BY <1>2 DEF ReadSettings, Become, books, world, history
  <2> HIDE DEF c
  <2>3. call'[g] = c
    BY <1>2, <1>t, <2>2, BecomeIs
  <2>4. ~torn => Current(call[g])
    BY <1>2 DEF RInv, AllCurrent
  <2>5. ~torn' => Current(call[g])'
    BY <2>1, <2>2, <2>3, <2>4 DEF Current, Kept, At
  <2> QED BY <1>2, <1>t, <2>1, <2>2, <2>5, FlightKeeps DEF At
<1>3. ASSUME NEW g \in Generator, Render(g) PROVE RInv'
  <2> DEFINE c == [Goes(g, IF Exists(call[g].claim) THEN "put" ELSE "claim")
                   EXCEPT !.sha = content]
  <2>1. /\ c.pc \in {"put", "claim"} /\ c.claim = call[g].claim
        /\ c.at = call[g].at /\ c.sha = content
    BY <1>t DEF Goes, Carried
  <2>2. call' = [call EXCEPT ![g] = c] /\ At(g, "render")
        /\ UNCHANGED <<content, storage, sole, torn, object, row>>
    BY <1>3 DEF Render, Become, books, world, history
  <2> HIDE DEF c
  <2>3. call'[g] = c
    BY <1>3, <1>t, <2>2, BecomeIs
  <2>4. ~torn => Current(call[g])
    BY <1>3 DEF RInv, AllCurrent
  <2>5. ~torn' => Current(call[g])'
    BY <2>1, <2>2, <2>3, <2>4 DEF Current, Kept, At
  <2> QED BY <1>3, <1>t, <2>1, <2>2, <2>5, FlightKeeps DEF At
<1>4. ASSUME NEW g \in Generator, CannotRender(g) PROVE RInv'
  BY <1>4, <1>t, RestingKeeps DEF CannotRender, Become, At, books, world, history
<1>5. ASSUME NEW g \in Generator, ClaimRow(g) PROVE RInv'
  <2>1. PICK c \in Carried :
          /\ c.pc \in {"adopt", "put"} /\ c.at = call[g].at /\ c.sha = call[g].sha
          /\ c.claim = call[g].claim \/ c.claim = row'
          /\ call' = [call EXCEPT ![g] = c]
          /\ row' = row \/ (c.claim = row' /\ ~Finished(row'))
    <3>1. CASE Exists(row)
      <4> DEFINE c == Goes(g, "adopt")
      <4>1. c \in Carried /\ c.pc = "adopt" /\ c.at = call[g].at /\ c.sha = call[g].sha
            /\ c.claim = call[g].claim
        BY <1>5, <1>t DEF Goes, Carried
      <4>2. call' = [call EXCEPT ![g] = c] /\ row' = row
        BY <1>5, <3>1 DEF ClaimRow, Become
      <4> QED BY <4>1, <4>2
    <3>2. CASE ~Exists(row)
      <4> DEFINE c == [Goes(g, "put") EXCEPT !.claim = row', !.here = TRUE]
      <4>1. row' \in Rows /\ ~Finished(row')
        <5>1. row'.sha = Unstored
          BY <1>5, <3>2 DEF ClaimRow
        <5>2. row' \in Rows
          BY <1>5, NextIInv DEF IInv, TypeOK
        <5> QED BY <5>1, <5>2 DEF Finished
      <4>2. c \in Carried /\ c.pc = "put" /\ c.at = call[g].at /\ c.sha = call[g].sha
            /\ c.claim = row'
        BY <1>5, <1>t, <4>1 DEF Goes, Carried
      <4>3. call' = [call EXCEPT ![g] = c]
        BY <1>5, <3>2 DEF ClaimRow, Become
      <4> QED BY <4>1, <4>2, <4>3
    <3> QED BY <3>1, <3>2
  <2>2. At(g, "claim") /\ UNCHANGED <<content, storage, sole, torn, object>>
    BY <1>5 DEF ClaimRow, world, history
  <2>3. call'[g] = c
    BY <1>5, <1>t, <2>1, BecomeIs
  <2>4. ~torn => Current(call[g])
    BY <1>5 DEF RInv, AllCurrent
  <2>5. ~torn' => Current(call[g])'
    BY <2>1, <2>2, <2>3, <2>4 DEF Current, Kept, At
  <2> QED BY <1>5, <1>t, <2>1, <2>2, <2>5, FlightKeeps DEF At
<1>6. ASSUME NEW g \in Generator, Adopt(g) PROVE RInv'
  <2>1. At(g, "adopt") /\ UNCHANGED <<content, storage, sole, torn, object, row>>
    BY <1>6 DEF Adopt, books, world, history
  <2>2. CASE ~Exists(row) \/ (Finished(row) /\ ~call[g].force)
    <3>1. call' = [call EXCEPT ![g] = AtRest]
      BY <1>6, <2>2 DEF Adopt, Become
    <3> QED BY <1>6, <1>t, <2>1, <3>1, RestingKeeps DEF At
  <2>3. CASE ~(~Exists(row) \/ (Finished(row) /\ ~call[g].force))
    <3> DEFINE c == [Goes(g, "put") EXCEPT !.claim = row]
    <3>1. c.pc = "put" /\ c.claim = row /\ c.at = call[g].at /\ c.sha = call[g].sha
      BY <1>6, <1>t DEF Goes, Carried
    <3>2. call' = [call EXCEPT ![g] = c]
      BY <1>6, <2>3 DEF Adopt, Become
    <3> HIDE DEF c
    <3>3. call'[g] = c
      BY <1>6, <1>t, <3>2, BecomeIs
    <3>4. ~torn => Current(call[g])
      BY <1>6 DEF RInv, AllCurrent
    <3>5. ~torn' => Current(call[g])'
      BY <2>1, <3>1, <3>3, <3>4 DEF Current, At
    <3> QED BY <1>6, <1>t, <2>1, <3>1, <3>2, <3>5, FlightKeeps DEF At
  <2> QED BY <2>2, <2>3
<1>7. ASSUME NEW g \in Generator, Put(g) PROVE RInv'
  BY <1>7, UploadKeeps
<1>8. ASSUME NEW g \in Generator, PutFails(g) PROVE RInv'
  <2>1. /\ At(g, "put") /\ UNCHANGED <<content, storage, sole, row>>
        /\ ~torn' => ~torn /\ object' = object
    BY <1>8 DEF PutFails, world
  <2>2. CASE ~call[g].here
    <3>1. call' = [call EXCEPT ![g] = AtRest]
      BY <1>8, <2>2 DEF PutFails, Become
    <3> QED BY <1>8, <1>t, <2>1, <3>1, RestingKeeps DEF At
  <2>3. CASE call[g].here
    <3> DEFINE c == Goes(g, "drop")
    <3>1. c.pc = "drop" /\ c.claim = call[g].claim /\ c.at = call[g].at
      BY <1>8, <1>t DEF Goes, Carried
    <3>2. call' = [call EXCEPT ![g] = c]
      BY <1>8, <2>3 DEF PutFails, Become
    <3> HIDE DEF c
    <3>3. call'[g] = c
      BY <1>8, <1>t, <3>2, BecomeIs
    <3>4. ~torn => Current(call[g])
      BY <1>8 DEF RInv, AllCurrent
    <3>5. ~torn' => Current(call[g])'
      BY <2>1, <3>1, <3>3, <3>4 DEF Current, Kept, At
    <3> QED BY <1>8, <1>t, <2>1, <3>1, <3>2, <3>5, FlightKeeps DEF At
  <2> QED BY <2>2, <2>3
<1>9. ASSUME NEW g \in Generator, Drop(g) PROVE RInv'
  <2>1. row' = row \/ ~Finished(row')
    BY <1>9, NoRowIsRow DEF Drop
  <2> QED BY <1>9, <1>t, <2>1, RestingKeeps DEF Drop, Become, At, world, history
<1>10. ASSUME NEW g \in Generator, StoreRow(g) PROVE RInv'
  BY <1>10, StoreKeeps
<1>11. ASSUME NEW g \in Generator, Dies(g) PROVE RInv'
  <2>1. torn' = (torn \/ At(g, "store"))
    BY <1>11 DEF Dies
  <2> QED BY <1>11, <1>t, <2>1, RestingKeeps DEF Dies, Become, books, world
<1>12. CASE Edit \/ ChooseStore
  BY <1>12, <1>t, ChangesKeep DEF Edit, ChooseStore
<1>13. CASE UNCHANGED vars
  <2>1. UNCHANGED <<content, storage, row, object, call, sole, torn>>
    BY <1>13 DEF vars
  <2>2. Alone'
    BY <2>1 DEF RInv, Alone, InFlight, At
  <2>3. AllCurrent'
    BY <2>1 DEF RInv, AllCurrent, Current, Finished, Kept
  <2>4. Backed'
    BY <2>1 DEF RInv, Backed, At, Finished
  <2> QED BY <2>2, <2>3, <2>4 DEF RInv
<1> QED BY <1>1, <1>2, <1>3, <1>4, <1>5, <1>6, <1>7, <1>8, <1>9, <1>10, <1>11, <1>12,
           <1>13 DEF Next, Generate

(***************************************************************************)
(* Whichever generations ran at once, a finished row names bytes that are  *)
(* there: what readBillDocument checks of every download.                  *)
(***************************************************************************)
THEOREM DocumentReadable == Spec => []DocumentIsReadable
<1>1. Init => RInv
  <2> SUFFICES ASSUME Init PROVE RInv
    OBVIOUS
  <2>1. \A g \in Generator : Current(call[g])
    BY RestIsCurrent DEF Init
  <2>2. ~Finished(row)
    BY NoRowIsRow DEF Init
  <2> QED BY <2>1, <2>2 DEF Init, RInv, Alone, AllCurrent, Backed
<1>2. RInv => DocumentIsReadable
  BY DEF RInv, Backed, InFlight, At, DocumentIsReadable
<1> QED BY <1>1, <1>2, NextRInv, DocumentInvariance, PTL DEF Spec
=============================================================================
