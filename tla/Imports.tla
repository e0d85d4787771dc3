-------------------------------- MODULE Imports --------------------------------
(***************************************************************************)
(* One import batch (services/imports.service.ts, services/imports/*.ts,   *)
(* workers/import-worker.ts): the passes over its rows, an operator who    *)
(* cancels and retries, a process that dies, and the sweep at boot.        *)
(*                                                                         *)
(* A pass holds nothing: it marks the batch, lists the rows its scope      *)
(* asks for, fails those that do not parse, counts what is there, and then *)
(* imports row by row, in two steps: the transaction that makes the        *)
(* entity, and the update of the row.  The counts of the batch are kept in *)
(* the pass and written now and then.                                      *)
(*                                                                         *)
(* Whoever puts the batch back to PENDING enqueues its job in a statement  *)
(* of its own, and enqueueSafely swallows a queue it cannot reach: the job *)
(* may be lost, there or with the process that was about to enqueue it.    *)
(***************************************************************************)
EXTENDS Integers, FiniteSets

CONSTANTS
  Rows,          \* the rows are 1..Rows
  Unparsable,    \* those whose text no pass can parse
  Chunk,         \* PROGRESS_INTERVAL
  Pass,          \* the jobs that may be at work at once
  Operator,      \* those who retry, each with one retry in hand
  MaxRetries,    \* bound: retries
  MaxCrashes,    \* bound: passes that die
  MaxFaults,     \* bound: updates of a row that fail
  MaxLost,       \* bound: jobs that are lost
  MaxMeetings    \* bound: passes that begin while another is at work

Row == 1..Rows
ASSUME ImportAssumption ==
  /\ {Rows, Chunk} \subseteq Nat \ {0} /\ Unparsable \subseteq Row
  /\ {MaxRetries, MaxCrashes, MaxFaults, MaxLost, MaxMeetings} \subseteq Nat
  /\ IsFiniteSet(Pass)

Scope == {"pending", "errors-only", "pending-and-errors"}
TerminalStatus == {"COMPLETE", "PARTIAL", "FAILED", "CANCELLED"}
Retryable == TerminalStatus \ {"COMPLETE"}

VARIABLES
  batch,    \* import_batch: status, cancel_requested and the two counts
  quiet,    \* last_progress_at is older than five minutes
  row,      \* import_row.status
  made,     \* the entities each row has made
  pass,     \* each pass, where it stands and what it carries
  queue,    \* the waiting jobs, by scope
  booting,  \* the boot sweep: it has "listed" the batch, or put it back
  retrying, \* each retry: the scope that was read, and what is still to do
  crashes, retries, faults,  \* how much of the bounds is spent
  lost,     \* the jobs that never reached the queue
  met       \* the passes that began while another was at work

vars == <<batch, quiet, row, made, pass, queue, booting, retrying, crashes,
          retries, faults, lost, met>>

AtRest == [pc |-> "idle", scope |-> "pending", rows |-> {}, since |-> 0,
           imported |-> 0, errors |-> 0]
NoRetry == [at |-> "no", scope |-> "pending"]

TypeOK ==
  /\ batch \in [status : {"PENDING", "PROCESSING"} \union TerminalStatus,
                cancel : BOOLEAN, imported : Nat, errors : Nat]
  /\ quiet \in BOOLEAN
  /\ row \in [Row -> {"PENDING", "ERROR", "IMPORTED"}]
  /\ made \in [Row -> Nat]
  /\ pass \in [Pass ->
       [pc : {"idle", "list", "parse", "count", "loop", "made", "failed",
              "cancelled"},
        scope : Scope, rows : SUBSET Row, since : 0..Chunk,
        imported : Nat, errors : Nat]]
  /\ queue \in [Scope -> Nat]
  /\ booting \in {"no", "listed", "put back"}
  /\ retrying \in [Operator -> [at : {"no", "read", "put back"}, scope : Scope]]
  /\ crashes \in 0..MaxCrashes /\ retries \in 0..MaxRetries
  /\ faults \in 0..MaxFaults /\ lost \in 0..MaxLost /\ met \in 0..MaxMeetings
-----------------------------------------------------------------------------
At(p, pc) == pass[p].pc = pc
Become(p, state) == pass' = [pass EXCEPT ![p] = state]
Goes(p, pc) == [pass[p] EXCEPT !.pc = pc]
Working == {p \in Pass : ~At(p, "idle")}
Least(S) == CHOOSE r \in S : \A s \in S : r <= s
Count(status) == Cardinality({r \in Row : row[r] = status})

outside == <<booting, retrying, retries, lost>>
others == <<outside, crashes, faults, met>>
-----------------------------------------------------------------------------
(***************************************************************************)
(* A pass (processBatch).                                                  *)
(***************************************************************************)
\* A worker takes a job and marks the batch, whatever its status and whoever
\* else is at work on it.
Claim(p, scope) ==
  /\ At(p, "idle") /\ queue[scope] > 0
  /\ queue' = [queue EXCEPT ![scope] = @ - 1]
  /\ batch' = [batch EXCEPT !.status = "PROCESSING"]
  /\ quiet' = FALSE
  /\ Become(p, [AtRest EXCEPT !.pc = "list", !.scope = scope])
  /\ IF Working = {} THEN UNCHANGED met
     ELSE met < MaxMeetings /\ met' = met + 1
  /\ UNCHANGED <<row, made, outside, crashes, faults>>

\* Mutant: a retry begins again with the first row.
AllRows(scope) == IF scope = "pending" THEN {"PENDING"}
                  ELSE {"PENDING", "ERROR", "IMPORTED"}

\* statusFilter
StatusFilter(scope) ==
  CASE scope = "errors-only" -> {"ERROR"}
    [] scope = "pending-and-errors" -> {"PENDING", "ERROR"}
    [] scope = "pending" -> {"PENDING"}

ListRows(p) ==
  /\ At(p, "list")
  /\ Become(p, [Goes(p, "parse") EXCEPT
       !.rows = {r \in Row : row[r] \in StatusFilter(pass[p].scope)}])
  /\ UNCHANGED <<batch, quiet, row, made, queue, others>>

\* Mutant: the rows are counted before those that do not parse have failed.
CountThenParse(p) ==
  /\ At(p, "parse")
  /\ row' = [r \in Row |-> IF r \in pass[p].rows \intersect Unparsable
                           THEN "ERROR" ELSE row[r]]
  /\ Become(p, [Goes(p, "loop") EXCEPT !.imported = Count("IMPORTED"),
                                       !.errors = Count("ERROR")])
  /\ UNCHANGED <<batch, quiet, made, queue, others>>

\* Phase A: the rows that do not parse are errors before anything is counted.
ParseRows(p) ==
  /\ At(p, "parse")
  /\ row' = [r \in Row |-> IF r \in pass[p].rows \intersect Unparsable
                           THEN "ERROR" ELSE row[r]]
  /\ Become(p, Goes(p, "count"))
  /\ UNCHANGED <<batch, quiet, made, queue, others>>

\* the baseline: a retry leaves the rows already imported alone
CountRows(p) ==
  /\ At(p, "count")
  /\ Become(p, [Goes(p, "loop") EXCEPT !.imported = Count("IMPORTED"),
                                       !.errors = Count("ERROR")])
  /\ UNCHANGED <<batch, quiet, row, made, queue, others>>

InHand(p) == Least(pass[p].rows)
Fresh(p) == At(p, "loop") /\ pass[p].rows # {} /\ pass[p].since < Chunk
NextRow(p) == [pass[p] EXCEPT !.pc = "loop", !.rows = @ \ {InHand(p)},
                              !.since = @ + 1]

\* Between chunks: stop if that was asked, or say how far the pass has come.
Heartbeat(p) ==
  /\ At(p, "loop") /\ pass[p].rows # {} /\ pass[p].since >= Chunk
  /\ IF batch.cancel
     THEN Become(p, Goes(p, "cancelled")) /\ UNCHANGED <<batch, quiet>>
     ELSE /\ batch' = [batch EXCEPT !.imported = pass[p].imported,
                                    !.errors = pass[p].errors]
          /\ quiet' = FALSE
          /\ Become(p, [pass[p] EXCEPT !.since = 0])
  /\ UNCHANGED <<row, made, queue, others>>

\* A row that did not parse is passed over.
SkipRow(p) ==
  /\ Fresh(p) /\ InHand(p) \in Unparsable
  /\ Become(p, NextRow(p))
  /\ UNCHANGED <<batch, quiet, row, made, queue, others>>

\* The row's transaction: the entity is made, or refused and rolled back.
ProcessRow(p) ==
  /\ Fresh(p) /\ InHand(p) \notin Unparsable
  /\ \/ /\ made' = [made EXCEPT ![InHand(p)] = @ + 1]
        /\ Become(p, Goes(p, "made"))
     \/ Become(p, Goes(p, "failed")) /\ UNCHANGED made
  /\ UNCHANGED <<batch, quiet, row, queue, others>>

\* The error count once the row's former status has been read: a row that was
\* an error and is imported no longer counts, one that fails begins to.
ErrorsNow(p) ==
  LET wasError == row[InHand(p)] = "ERROR"
  IN IF At(p, "made")
     THEN IF wasError /\ pass[p].errors > 0 THEN pass[p].errors - 1 ELSE pass[p].errors
     ELSE IF wasError THEN pass[p].errors ELSE pass[p].errors + 1

\* The row says so.
MarkImported(p) ==
  /\ At(p, "made")
  /\ row' = [row EXCEPT ![InHand(p)] = "IMPORTED"]
  /\ Become(p, [NextRow(p) EXCEPT !.imported = @ + 1, !.errors = ErrorsNow(p)])
  /\ UNCHANGED <<batch, quiet, made, queue, others>>

MarkError(p) ==
  /\ At(p, "failed")
  /\ row' = [row EXCEPT ![InHand(p)] = "ERROR"]
  /\ Become(p, [NextRow(p) EXCEPT !.errors = ErrorsNow(p)])
  /\ UNCHANGED <<batch, quiet, made, queue, others>>

\* The former status cannot be read, or the row cannot be updated: the catch
\* makes the row an error, whatever became of its entity, and counts it on top
\* of what was counted before.  Where the catch fails too the pass is over, as
\* in Crash.
MarkFails(p) ==
  /\ At(p, "made") \/ At(p, "failed")
  /\ faults < MaxFaults /\ faults' = faults + 1
  /\ row' = [row EXCEPT ![InHand(p)] = "ERROR"]
  /\ \E n \in {pass[p].errors, ErrorsNow(p)} :
       Become(p, [NextRow(p) EXCEPT
         !.errors = IF row[InHand(p)] = "ERROR" THEN n ELSE n + 1])
  /\ UNCHANGED <<batch, quiet, made, queue, outside, crashes, met>>

FinalStatus(p) ==
  CASE At(p, "cancelled") -> "CANCELLED"
    [] OTHER -> IF pass[p].imported = 0 THEN "FAILED"
                ELSE IF pass[p].errors = 0 /\ pass[p].imported = Rows
                     THEN "COMPLETE" ELSE "PARTIAL"

Finalise(p) ==
  /\ At(p, "cancelled") \/ (At(p, "loop") /\ pass[p].rows = {})
  /\ batch' = [batch EXCEPT !.status = FinalStatus(p),
                            !.imported = pass[p].imported,
                            !.errors = pass[p].errors]
  /\ quiet' = FALSE
  /\ Become(p, AtRest)
  /\ UNCHANGED <<row, made, queue, others>>

Step(p) ==
  \/ \E scope \in Scope : Claim(p, scope)
  \/ ListRows(p) \/ ParseRows(p) \/ CountRows(p) \/ Heartbeat(p)
  \/ SkipRow(p) \/ ProcessRow(p)
  \/ MarkImported(p) \/ MarkError(p) \/ MarkFails(p)
  \/ Finalise(p)

\* The process dies, or throws.  Its job is spent, or the queue finds it
\* stalled and hands it on.
Crash(p) ==
  /\ p \in Working /\ crashes < MaxCrashes
  /\ crashes' = crashes + 1
  /\ Become(p, AtRest)
  /\ queue' \in {queue, [queue EXCEPT ![pass[p].scope] = @ + 1]}
  /\ UNCHANGED <<batch, quiet, row, made, outside, faults, met>>

\* Five minutes without a heartbeat: nobody is at work, or who is has yet to
\* come to the rows, and says nothing until then.
GoQuiet ==
  /\ batch.status = "PROCESSING" /\ ~quiet
  /\ \A p \in Working : pass[p].pc \in {"list", "parse", "count"}
  /\ quiet' = TRUE
  /\ UNCHANGED <<batch, row, made, pass, queue, others>>
-----------------------------------------------------------------------------
(***************************************************************************)
(* The boot of a worker (reclaimAndEnqueueZombies).                        *)
(***************************************************************************)
Boot ==
  /\ booting = "no" /\ batch.status = "PROCESSING" /\ quiet
  /\ booting' = "listed"
  /\ UNCHANGED <<batch, quiet, row, made, pass, queue, retrying, retries, lost,
                 crashes, faults, met>>

\* PENDING by id ...
PutBack ==
  /\ booting = "listed"
  /\ batch' = [batch EXCEPT !.status = "PENDING"]
  /\ booting' = "put back"
  /\ UNCHANGED <<quiet, row, made, pass, queue, retrying, retries, lost, crashes,
                 faults, met>>

\* A job is enqueued, or it is lost: the queue is not reached, which is logged
\* and no more, or the process dies before it asks.
Enqueue(scope) ==
  \/ queue' = [queue EXCEPT ![scope] = @ + 1] /\ UNCHANGED lost
  \/ lost < MaxLost /\ lost' = lost + 1 /\ UNCHANGED queue

\* Mutant: the batch is put back, and nothing takes it up.
ReenqueueNothing ==
  /\ booting = "put back"
  /\ booting' = "no"
  /\ UNCHANGED <<batch, quiet, row, made, pass, queue, retrying, retries, lost,
                 crashes, faults, met>>

\* ... and a job for what is still pending.
Reenqueue ==
  /\ booting = "put back"
  /\ Enqueue("pending")
  /\ booting' = "no"
  /\ UNCHANGED <<batch, quiet, row, made, pass, retrying, retries, crashes, faults, met>>
-----------------------------------------------------------------------------
(***************************************************************************)
(* The operator.                                                           *)
(***************************************************************************)
\* cancelImport sets the flag on what it read as not terminal; by the time it
\* is written the batch may be anything.
CancelImport ==
  /\ batch.cancel = FALSE
  /\ batch' = [batch EXCEPT !.cancel = TRUE]
  /\ UNCHANGED <<quiet, row, made, pass, queue, others>>

\* retryImport reads a status that may be retried ...
ReadForRetry(o) ==
  /\ retrying[o] = NoRetry /\ retries < MaxRetries /\ batch.status \in Retryable
  /\ retries' = retries + 1
  /\ retrying' = [retrying EXCEPT ![o] =
       [at |-> "read", scope |-> IF batch.status = "CANCELLED"
                                 THEN "pending-and-errors" ELSE "errors-only"]]
  /\ UNCHANGED <<batch, quiet, row, made, pass, queue, booting, lost, crashes,
                 faults, met>>

\* ... then writes PENDING, whatever the batch has become ...
WriteRetry(o) ==
  /\ retrying[o].at = "read"
  /\ batch' = [batch EXCEPT !.status = "PENDING", !.cancel = FALSE]
  /\ retrying' = [retrying EXCEPT ![o].at = "put back"]
  /\ UNCHANGED <<quiet, row, made, pass, queue, booting, retries, lost, crashes,
                 faults, met>>

\* ... and enqueues.
EnqueueRetry(o) ==
  /\ retrying[o].at = "put back"
  /\ Enqueue(retrying[o].scope)
  /\ retrying' = [retrying EXCEPT ![o] = NoRetry]
  /\ UNCHANGED <<batch, quiet, row, made, pass, booting, retries, crashes, faults, met>>

RetryImport(o) == WriteRetry(o) \/ EnqueueRetry(o)

\* createImport: the batch with its rows, and a job (or the request itself)
\* that has yet to begin, unless the job is lost
Init ==
  /\ batch = [status |-> "PENDING", cancel |-> FALSE, imported |-> 0, errors |-> 0]
  /\ quiet = FALSE
  /\ row = [r \in Row |-> "PENDING"] /\ made = [r \in Row |-> 0]
  /\ pass = [p \in Pass |-> AtRest]
  /\ lost \in {0, 1} \intersect 0..MaxLost
  /\ queue = [s \in Scope |-> IF s = "pending" THEN 1 - lost ELSE 0]
  /\ booting = "no" /\ retrying = [o \in Operator |-> NoRetry]
  /\ crashes = 0 /\ retries = 0 /\ faults = 0 /\ met = 0

Next ==
  \/ \E p \in Pass : Step(p) \/ Crash(p)
  \/ GoQuiet \/ Boot \/ PutBack \/ Reenqueue
  \/ CancelImport
  \/ \E o \in Operator : ReadForRetry(o) \/ RetryImport(o)

Spec == Init /\ [][Next]_vars

\* A worker with a job works it, a retry that has begun is carried through, time
\* passes, and a process that has died is started again, some day after the batch
\* has fallen silent.
LiveSpec ==
  /\ Spec
  /\ \A p \in Pass : WF_vars(Step(p))
  /\ \A o \in Operator : WF_vars(RetryImport(o))
  /\ WF_vars(GoQuiet) /\ WF_vars(Boot) /\ WF_vars(PutBack) /\ WF_vars(Reenqueue)
-----------------------------------------------------------------------------
(***************************************************************************)
(* Properties.                                                             *)
(***************************************************************************)

\* What a batch ends with is what its rows say, through cancels, retries that
\* turn errors into imports, and passes that died half way: the count of the
\* imports and the status exactly, the count of the errors but for the rows
\* whose update failed, which it counts twice or not at all (the arithmetic of
\* processBatch, kept apart from the rows).  Passes at work at once keep each
\* their own counts, and are excepted.
SummaryTellsRows ==
  (batch.status \in TerminalStatus /\ Working = {} /\ met = 0) =>
    /\ batch.imported = Count("IMPORTED")
    /\ batch.errors <= Count("ERROR") + faults /\ Count("ERROR") <= batch.errors + faults
    /\ batch.status = "COMPLETE" <=> Count("IMPORTED") = Rows
    /\ batch.status = "FAILED" => Count("IMPORTED") = 0

\* A row makes its entity once, however often its batch is cancelled and
\* retried; and once more at most for each pass that died between the entity
\* and the mark, for each update of a row that failed after the entity, and for
\* each pass that began beside another (Phase C of processBatch).
RowImportedOnce == \A r \in Row : made[r] <= 1 + crashes + faults + met

\* A batch that is waiting or being worked comes to an end, although the
\* process that had it may die, unless a job of it was lost.
BatchEnds == [](lost = 0) => []<>(batch.status \in TerminalStatus)
=============================================================================
