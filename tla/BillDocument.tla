------------------------------ MODULE BillDocument ------------------------------
(***************************************************************************)
(* The stored PDF of one posted bill (services/bill-document.service.ts):  *)
(* a row of bill_document and an object in the tenant's store.  Several    *)
(* generations may run at once, forced or not; each reads the row and the  *)
(* settings, renders, claims the row, uploads and stores, and nothing but  *)
(* the unique key and the condition of the first store orders them.        *)
(*                                                                         *)
(* A rendering is the version of the bill's data it was made from: the     *)
(* same data gives the same bytes, and so the same sha256.                 *)
(***************************************************************************)
EXTENDS Integers, FiniteSets

CONSTANTS
  Generator,    \* the calls of generateBillDocument that may be at work
  Store,        \* the storage integrations a tenant may choose
  MaxVersion,   \* bound: versions of the data a bill is rendered from
  MaxClaims,    \* bound: rows created
  MaxFailures   \* bound: uploads and transactions that fail, calls that die

ASSUME DocumentAssumption ==
  /\ Store # {} /\ {MaxVersion, MaxClaims} \subseteq Nat \ {0}
  /\ MaxFailures \in Nat

Version == 1..MaxVersion
Unstored == 0                      \* sha256 IS NULL
NoRow == [id |-> 0, sha |-> Unstored, at |-> CHOOSE s \in Store : TRUE]
Rows == [id : 0..MaxClaims, sha : Version \union {Unstored}, at : Store]

VARIABLES
  content,   \* the data the bill is presented from
  storage,   \* the storage integration of the tenant's settings
  row,       \* the bill's row of bill_document, or NoRow
  object,    \* what each store holds under the bill's key, 0 for nothing
  call,      \* each generation: where it stands and what it carries
  created,   \* audit rows bill_document.created
  claims,    \* rows created so far: the last id given
  failures,  \* how much of the bound is spent
  sole,      \* history: the call that has run alone since it began, if any
  torn       \* history: something the code does not order has happened

vars == <<content, storage, row, object, call, created, claims, failures, sole,
          torn>>

AtRest == [pc |-> "idle", force |-> FALSE, claim |-> NoRow, here |-> FALSE,
           at |-> NoRow.at, sha |-> Unstored]

TypeOK ==
  /\ content \in Version /\ storage \in Store /\ row \in Rows
  /\ object \in [Store -> Version \union {Unstored}]
  /\ call \in [Generator ->
       [pc : {"idle", "settings", "render", "claim", "adopt", "put", "drop",
              "store"},
        force : BOOLEAN, claim : Rows, here : BOOLEAN, at : Store,
        sha : Version \union {Unstored}]]
  /\ created \in 0..MaxClaims /\ claims \in 0..MaxClaims
  /\ failures \in 0..MaxFailures
  /\ sole \in SUBSET Generator /\ torn \in BOOLEAN
-----------------------------------------------------------------------------
At(g, pc) == call[g].pc = pc
Become(g, state) == call' = [call EXCEPT ![g] = state]
Goes(g, pc) == [call[g] EXCEPT !.pc = pc]
InFlight == {g \in Generator : ~At(g, "idle")}
Exists(r) == r # NoRow
Finished(r) == r.sha # Unstored

world == <<content, storage>>
books == <<row, object, created, claims>>
history == <<sole, torn>>
-----------------------------------------------------------------------------
(***************************************************************************)
(* A generation (generateBillDocument).                                    *)
(***************************************************************************)
\* The row is read first; a finished one is the answer unless forced.
Begin(g, force) ==
  /\ At(g, "idle")
  /\ force \/ ~Finished(row)
  /\ Become(g, [AtRest EXCEPT !.pc = "settings", !.force = force, !.claim = row])
  /\ sole' = IF InFlight = {} THEN {g} ELSE {}
  /\ UNCHANGED <<world, books, failures, torn>>

ReadSettings(g) ==
  /\ At(g, "settings")
  /\ Become(g, [Goes(g, "render") EXCEPT !.at = storage])
  /\ UNCHANGED <<world, books, failures, history>>

\* Rendered before anything is claimed, so that a bill that cannot be
\* rendered, or is too large, leaves no row behind.
Render(g) ==
  /\ At(g, "render")
  /\ Become(g, [Goes(g, IF Exists(call[g].claim) THEN "put" ELSE "claim")
                EXCEPT !.sha = content])
  /\ UNCHANGED <<world, books, failures, history>>

CannotRender(g) ==
  /\ At(g, "render")
  /\ Become(g, AtRest)
  /\ UNCHANGED <<world, books, failures, history>>

\* The unique key decides whose row it is.
ClaimRow(g) ==
  /\ At(g, "claim")
  /\ IF Exists(row)
     THEN /\ Become(g, Goes(g, "adopt"))
          /\ UNCHANGED <<row, claims>>
     ELSE /\ claims < MaxClaims
          /\ claims' = claims + 1
          /\ row' = [id |-> claims', sha |-> Unstored, at |-> call[g].at]
          /\ Become(g, [Goes(g, "put") EXCEPT !.claim = row', !.here = TRUE])
  /\ UNCHANGED <<world, object, created, failures, history>>

\* The call that lost reads the winner's row.  One already finished is the
\* answer, one that is gone again is an error.
Adopt(g) ==
  /\ At(g, "adopt")
  /\ Become(g, IF ~Exists(row) \/ (Finished(row) /\ ~call[g].force)
               THEN AtRest
               ELSE [Goes(g, "put") EXCEPT !.claim = row])
  /\ UNCHANGED <<world, books, failures, history>>

\* The upload goes to the store of the settings as this call read them.
Put(g) ==
  /\ At(g, "put")
  /\ object' = [object EXCEPT ![call[g].at] = call[g].sha]
  /\ Become(g, Goes(g, "store"))
  /\ UNCHANGED <<world, row, created, claims, failures, history>>

\* An upload that fails may have stored the bytes all the same.
PutFails(g) ==
  /\ At(g, "put") /\ failures < MaxFailures
  /\ failures' = failures + 1
  /\ \/ UNCHANGED <<object, torn>>
     \/ /\ object' = [object EXCEPT ![call[g].at] = call[g].sha]
        /\ torn' = TRUE
  /\ Become(g, IF call[g].here THEN Goes(g, "drop") ELSE AtRest)
  /\ UNCHANGED <<world, row, created, claims, sole>>

\* Mutant: a call takes back its claim, whatever is stored against it by now.
RemovableIfMine(c) == row.id = c.id

Removable(c) == row.id = c.id /\ ~Finished(row)

\* The claim is taken back by the call that made it, if nothing is stored
\* against it.  The delete may fail, and says nothing when it does.
Drop(g) ==
  /\ At(g, "drop")
  /\ \/ row' = IF Removable(call[g].claim) THEN NoRow ELSE row
     \/ row' = row
  /\ Become(g, AtRest)
  /\ UNCHANGED <<world, object, created, claims, failures, history>>

\* Mutant: the row goes on naming the store it was first kept in.
StoredAs(g) == [row EXCEPT !.sha = call[g].sha]

\* Mutant: the first store is not conditional.
StoresAnyway(c) == row.id = c.id

StoredRow(g) == [row EXCEPT !.sha = call[g].sha, !.at = call[g].at]
Stores(c) == row.id = c.id /\ (Finished(c) \/ ~Finished(row))

\* One transaction.  Over a document that was stored when the claim was
\* read it is an update by id, a revision; else a conditional update that
\* one call can make, the creation.  Who loses writes nothing.
StoreRow(g) ==
  /\ At(g, "store")
  /\ IF Stores(call[g].claim)
     THEN /\ row' = StoredRow(g)
          /\ created' = created + (IF Finished(call[g].claim) THEN 0 ELSE 1)
          /\ torn' = (torn /\ g \notin sole)
     ELSE UNCHANGED <<row, created, torn>>
  /\ Become(g, AtRest)
  /\ UNCHANGED <<world, object, claims, failures, sole>>

\* The transaction fails, or the process dies, at any point.
Dies(g) ==
  /\ ~At(g, "idle") /\ failures < MaxFailures
  /\ failures' = failures + 1
  /\ Become(g, AtRest)
  /\ torn' = (torn \/ At(g, "store"))
  /\ UNCHANGED <<world, books, sole>>
-----------------------------------------------------------------------------
\* What the bill is presented from changes (an address, a name), or the
\* tenant chooses another store.
Changes == torn' = (torn \/ InFlight # {})

Edit ==
  /\ content < MaxVersion /\ content' = content + 1 /\ Changes
  /\ UNCHANGED <<storage, books, call, failures, sole>>

ChooseStore ==
  /\ storage' \in Store \ {storage} /\ Changes
  /\ UNCHANGED <<content, books, call, failures, sole>>
-----------------------------------------------------------------------------
Init ==
  /\ content = 1 /\ storage \in Store /\ row = NoRow
  /\ object = [s \in Store |-> Unstored]
  /\ call = [g \in Generator |-> AtRest]
  /\ created = 0 /\ claims = 0 /\ failures = 0 /\ sole = {} /\ torn = FALSE

Generate(g) ==
  \/ \E force \in BOOLEAN : Begin(g, force)
  \/ ReadSettings(g) \/ Render(g) \/ CannotRender(g)
  \/ ClaimRow(g) \/ Adopt(g)
  \/ Put(g) \/ PutFails(g) \/ Drop(g)
  \/ StoreRow(g) \/ Dies(g)

Next == (\E g \in Generator : Generate(g)) \/ Edit \/ ChooseStore

Spec == Init /\ [][Next]_vars
-----------------------------------------------------------------------------
(***************************************************************************)
(* A finished row names the place its bytes are in, and those bytes: what  *)
(* readBillDocument checks on every download.  It holds when no call is    *)
(* at work, however many ran at once, unless a call died after its upload, *)
(* or the data or the settings moved under a call; and a generation that   *)
(* then runs alone to its end puts it right.                               *)
(***************************************************************************)
DocumentIsReadable ==
  ~torn /\ InFlight = {} /\ Finished(row) => object[row.at] = row.sha

(***************************************************************************)
(* A finished document is never taken away, and never becomes unfinished:  *)
(* not by a call that made the claim and failed after another completed    *)
(* it, nor by one that read it before.                                     *)
(***************************************************************************)
FinishedStays == [][Finished(row) => Finished(row') /\ row'.id = row.id]_vars

(***************************************************************************)
(* One document, one creation in the audit log, whichever calls raced for  *)
(* it and whatever claims were dropped before: '"One" is enforced rather   *)
(* than assumed' (bill-document.service.ts:293).                           *)
(***************************************************************************)
CreatedOnce == created = (IF Finished(row) THEN 1 ELSE 0)
=============================================================================
