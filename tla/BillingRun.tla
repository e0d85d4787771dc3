----------------------------- MODULE BillingRun -----------------------------
(***************************************************************************)
(* ONE billing run (packages/api/src/services/billing-run, and the worker  *)
(* and routes that drive it): its row, its items, the bills it makes, the  *)
(* jobs queued for it, and the passes that work it.                        *)
(*                                                                         *)
(* A pass is one job in the hands of one worker process.  It holds no lock *)
(* on the run: each database statement or transaction commits on its own,  *)
(* and is one action here, so passes, operators, crashes and boots         *)
(* interleave between any two of them.  Reads that follow a claim in the   *)
(* same pass and touch rows the claim does not are merged into it.         *)
(*                                                                         *)
(* Time is one bit: `quiet' says that last_progress_at is older than the   *)
(* five-minute cutoff, or null.  A generating pass speaks after every      *)
(* account, so it is taken to be heard of in time; a posting pass says     *)
(* nothing of the bills it passes over, so it can fall silent at work.     *)
(***************************************************************************)
EXTENDS Integers, FiniteSets

CONSTANTS
  Account,        \* the accounts the run covers, one item each
  Pass,           \* jobs the workers may have in hand at once
  NoAccount,      \* not an account
  MaxResumes,     \* bound: resume requests that pass their check
  ResumesAtOnce,  \* bound: resume requests between their check and commit
  MaxPosts,       \* bound: post requests
  MaxCrashes,     \* bound: passes that die, or throw outside their try
  QueueMayFail    \* whether an enqueue may be lost (Redis unreachable)

ASSUME NoAccountAssumption == NoAccount \notin Account
ASSUME BoundsAssumption ==
  /\ MaxResumes \in Nat /\ ResumesAtOnce \in Nat
  /\ MaxPosts \in Nat /\ MaxCrashes \in Nat
ASSUME QueueAssumption == QueueMayFail \in BOOLEAN

Terminal  == {"COMPLETE", "PARTIAL", "FAILED", "CANCELLED"}
RunStatus == Terminal \union {"PENDING", "RUNNING"}
Resumable == {"FAILED", "PARTIAL", "CANCELLED"}
ItemStatus == {"PENDING", "BILLED", "SKIPPED", "FAILED"}
Kind == {"GENERATE", "POST"}

\* Where a pass stands.  GENERATE: at the top of the loop, rating the account
\* it is on, aggregating it, recording its item, counting and finalising.
\* POST: about to claim, and going through the run's bills.
GeneratingAt == {"NEXT", "RATE", "SEGMENT", "AGGREGATE", "RECORD",
                 "COUNT", "FINALISE"}
PostingAt == {"CLAIM", "POST"}
PassState == [at      : {"IDLE"} \union GeneratingAt \union PostingAt,
              todo    : SUBSET Account,
              on      : Account \union {NoAccount},
              outcome : {"NONE"} \union ItemStatus \union RunStatus]
Idle == [at |-> "IDLE", todo |-> {}, on |-> NoAccount, outcome |-> "NONE"]

VARIABLES
  run,     \* the billing_run row
  item,    \* the status of each billing_run_item
  read,    \* the meter reads of each account: NONE yet, UNBILLED, BILLED
  loose,   \* bill segments of each account that are on no bill
  bill,    \* each account's bill for the period: NONE, DRAFT or POSTED
  queue,   \* jobs waiting, by kind
  swept,   \* reclaim job ids already used this hour, by kind
  pass,    \* the passes
  tally    \* resumes checked and not committed, and what the bounds have left

vars == <<run, item, read, loose, bill, queue, swept, pass, tally>>

TypeOK ==
  /\ run \in [status : RunStatus, cancelRequested : BOOLEAN,
              postingStarted : BOOLEAN, posted : BOOLEAN, quiet : BOOLEAN]
  /\ item \in [Account -> ItemStatus]
  /\ read \in [Account -> {"NONE", "UNBILLED", "BILLED"}]
  /\ loose \in [Account -> Nat]
  /\ bill \in [Account -> {"NONE", "DRAFT", "POSTED"}]
  /\ queue \in [Kind -> Nat]
  /\ swept \subseteq Kind
  /\ pass \in [Pass -> PassState]
  /\ tally \in [resuming : Nat, resumes : Nat, posts : Nat, crashes : Nat,
                boots : Nat]
-----------------------------------------------------------------------------
Generating(p) == pass[p].at \in GeneratingAt
Posting(p)    == pass[p].at = "POST"

\* enqueueSafely: a failure to reach Redis is logged and swallowed.
Enqueue(kind) ==
  \/ queue' = [queue EXCEPT ![kind] = @ + 1]
  \/ QueueMayFail /\ UNCHANGED queue

\* An idle worker slot takes a waiting job.  attempts: 1, so the job is spent
\* whatever becomes of it.
Take(p, kind) ==
  /\ pass[p] = Idle
  /\ queue[kind] > 0
  /\ queue' = [queue EXCEPT ![kind] = @ - 1]

\* Mutant: a claim that looks out for postings only.
UnheldByPosting == ~run.postingStarted \/ run.posted \/ run.quiet

\* No live pass of either kind holds the run: the WHERE of both claims.
Unheld ==
  /\ run.status # "RUNNING" \/ run.quiet
  /\ ~run.postingStarted \/ run.posted \/ run.quiet

\* A pass has begun and not finished, and was heard of lately.
PostingIsLive == run.postingStarted /\ ~run.posted /\ ~run.quiet
Postable == run.status \notin {"PENDING", "RUNNING"} /\ ~PostingIsLive

Items(status) == {a \in Account : item[a] = status}
-----------------------------------------------------------------------------
(***************************************************************************)
(* A generation pass.                                                      *)
(***************************************************************************)
\* Claim the run and list its PENDING items, or leave it to whoever has it.
StartGeneration(p) ==
  /\ Take(p, "GENERATE")
  /\ \/ /\ Unheld
        /\ run' = [run EXCEPT !.status = "RUNNING", !.quiet = FALSE]
        /\ pass' = [pass EXCEPT ![p].at = "NEXT", ![p].todo = Items("PENDING")]
     \/ ~Unheld /\ UNCHANGED <<run, pass>>
  /\ UNCHANGED <<item, read, loose, bill, swept, tally>>

\* The top of the loop: stop if asked to, or take the next account.  One with
\* no unbilled read is skipped, or fails when its intervals give none.
NextItem(p) ==
  /\ pass[p].at = "NEXT"
  /\ \/ /\ pass[p].todo = {}
        /\ pass' = [pass EXCEPT ![p].at = "COUNT"]
     \/ /\ pass[p].todo # {} /\ run.cancelRequested
        /\ pass' = [pass EXCEPT ![p].at = "COUNT", ![p].outcome = "CANCELLED"]
     \/ /\ ~run.cancelRequested
        /\ \E a \in pass[p].todo :
             \E outcome \in IF read[a] = "UNBILLED" THEN {"NONE"}
                            ELSE {"SKIPPED", "FAILED"} :
               pass' = [pass EXCEPT
                 ![p].todo    = @ \ {a},
                 ![p].on      = a,
                 ![p].at      = IF outcome = "NONE" THEN "RATE" ELSE "RECORD",
                 ![p].outcome = outcome]
  /\ UNCHANGED <<run, item, read, loose, bill, queue, swept, tally>>

\* Rating resolves the period again.  A period somebody else has rated since
\* is passed over; one that cannot be rated fails the account, or skips it
\* when nothing says how to rate it (NO_ACTIVE_ASSIGNMENTS).
Rate(p) ==
  /\ pass[p].at = "RATE"
  /\ \/ /\ read[pass[p].on] = "UNBILLED"
        /\ pass' = [pass EXCEPT ![p].at = "SEGMENT"]
     \/ /\ read[pass[p].on] # "UNBILLED"
        /\ pass' = [pass EXCEPT ![p].at = "AGGREGATE"]
     \/ \E outcome \in {"FAILED", "SKIPPED"} :
          pass' = [pass EXCEPT ![p].at = "RECORD", ![p].outcome = outcome]
  /\ UNCHANGED <<run, item, read, loose, bill, queue, swept, tally>>

\* Mutant: the reads are left unbilled.
CreateSegmentUnmarked(p) ==
  /\ pass[p].at = "SEGMENT"
  /\ loose' = [loose EXCEPT ![pass[p].on] = @ + 1]
  /\ pass' = [pass EXCEPT ![p].at = "AGGREGATE"]
  /\ UNCHANGED <<run, item, read, bill, queue, swept, tally>>

\* One transaction: the segment, its lines, and the reads marked billed.
CreateSegment(p) ==
  /\ pass[p].at = "SEGMENT"
  /\ read' = [read EXCEPT ![pass[p].on] = "BILLED"]
  /\ loose' = [loose EXCEPT ![pass[p].on] = @ + 1]
  /\ pass' = [pass EXCEPT ![p].at = "AGGREGATE"]
  /\ UNCHANGED <<run, item, bill, queue, swept, tally>>

\* Another transaction: the bill, from the segments that are on none.  It
\* fails of itself too: a bill number taken by another run, a lost connection.
Aggregate(p) ==
  LET a == pass[p].on
      recorded(outcome) ==
        pass' = [pass EXCEPT ![p].at = "RECORD", ![p].outcome = outcome]
  IN  /\ pass[p].at = "AGGREGATE"
      /\ \/ /\ bill[a] # "NONE" \/ loose[a] = 0
            /\ recorded("SKIPPED")
            /\ UNCHANGED <<bill, loose>>
         \/ /\ bill[a] = "NONE" /\ loose[a] > 0
            /\ recorded("BILLED")
            /\ bill' = [bill EXCEPT ![a] = "DRAFT"]
            /\ loose' = [loose EXCEPT ![a] = 0]
         \/ /\ bill[a] = "NONE"
            /\ recorded("FAILED")
            /\ UNCHANGED <<bill, loose>>
      /\ UNCHANGED <<run, item, read, queue, swept, tally>>

\* Mutant: the catch is lost, and every account comes out billed.
RecordItemBilled(p) ==
  /\ pass[p].at = "RECORD"
  /\ item' = [item EXCEPT ![pass[p].on] = "BILLED"]
  /\ run' = [run EXCEPT !.quiet = FALSE]
  /\ pass' = [pass EXCEPT ![p].at = "NEXT", ![p].on = NoAccount,
                          ![p].outcome = "NONE"]
  /\ UNCHANGED <<read, loose, bill, queue, swept, tally>>

\* Write the item, whatever it says by now, and report progress.  Writing
\* BILLED is inside the try: when that fails, the catch writes FAILED.
RecordItem(p) ==
  /\ pass[p].at = "RECORD"
  /\ \E outcome \in {pass[p].outcome}
                     \union IF pass[p].outcome = "BILLED" THEN {"FAILED"} ELSE {} :
       item' = [item EXCEPT ![pass[p].on] = outcome]
  /\ run' = [run EXCEPT !.quiet = FALSE]
  /\ pass' = [pass EXCEPT ![p].at = "NEXT", ![p].on = NoAccount,
                          ![p].outcome = "NONE"]
  /\ UNCHANGED <<read, loose, bill, queue, swept, tally>>

\* Mutant: something billed is taken for everything billed.
FinalStatusOfBilled ==
  IF Items("BILLED") # {} THEN "COMPLETE"
  ELSE IF Items("PENDING") = {} THEN "FAILED"
  ELSE "PARTIAL"

\* What the items add up to.
FinalStatus ==
  IF Items("FAILED") \union Items("PENDING") = {} THEN "COMPLETE"
  ELSE IF Items("BILLED") \union Items("PENDING") = {} THEN "FAILED"
  ELSE "PARTIAL"

\* finalise counts the items, and then writes the status.
Count(p) ==
  /\ pass[p].at = "COUNT"
  /\ pass' = [pass EXCEPT
       ![p].at      = "FINALISE",
       ![p].todo    = {},
       ![p].outcome = IF @ = "CANCELLED" THEN "CANCELLED" ELSE FinalStatus]
  /\ UNCHANGED <<run, item, read, loose, bill, queue, swept, tally>>

Finalise(p) ==
  /\ pass[p].at = "FINALISE"
  /\ run' = [run EXCEPT !.status = pass[p].outcome, !.quiet = FALSE]
  /\ pass' = [pass EXCEPT ![p] = Idle]
  /\ UNCHANGED <<item, read, loose, bill, queue, swept, tally>>
-----------------------------------------------------------------------------
(***************************************************************************)
(* A posting pass.                                                         *)
(***************************************************************************)
\* The job asks again what the route asked, and ends if the answer changed.
StartPosting(p) ==
  /\ Take(p, "POST")
  /\ \/ Postable /\ pass' = [pass EXCEPT ![p].at = "CLAIM"]
     \/ ~Postable /\ UNCHANGED pass
  /\ UNCHANGED <<run, item, read, loose, bill, swept, tally>>

\* Claim the run and list its BILLED items, or end.  The claim marks that a
\* pass began; that an earlier one finished stays marked.
ClaimPosting(p) ==
  /\ pass[p].at = "CLAIM"
  /\ \/ /\ Unheld
        /\ run' = [run EXCEPT !.postingStarted = TRUE, !.quiet = FALSE]
        /\ pass' = [pass EXCEPT ![p].at = "POST", ![p].todo = Items("BILLED")]
     \/ /\ ~Unheld
        /\ pass' = [pass EXCEPT ![p] = Idle]
        /\ UNCHANGED run
  /\ UNCHANGED <<item, read, loose, bill, queue, swept, tally>>

\* Post one bill, once, and report progress; a bill that is held, or that
\* cannot be posted, is passed over in silence.
PostOne(p) ==
  /\ Posting(p)
  /\ \E a \in pass[p].todo :
       /\ pass' = [pass EXCEPT ![p].todo = @ \ {a}]
       /\ \/ /\ bill' = [bill EXCEPT ![a] = "POSTED"]
             /\ run' = [run EXCEPT !.quiet = FALSE]
          \/ bill[a] = "DRAFT" /\ UNCHANGED <<bill, run>>
  /\ UNCHANGED <<item, read, loose, queue, swept, tally>>

\* Mutant: the end of the pass is not stamped.
FinishPostingUnmarked(p) ==
  /\ Posting(p) /\ pass[p].todo = {}
  /\ pass' = [pass EXCEPT ![p] = Idle]
  /\ UNCHANGED <<run, item, read, loose, bill, queue, swept, tally>>

FinishPosting(p) ==
  /\ Posting(p) /\ pass[p].todo = {}
  /\ run' = [run EXCEPT !.posted = TRUE]
  /\ pass' = [pass EXCEPT ![p] = Idle]
  /\ UNCHANGED <<item, read, loose, bill, queue, swept, tally>>
-----------------------------------------------------------------------------
(***************************************************************************)
(* The operators' requests.                                                *)
(***************************************************************************)
Cancel ==
  /\ run' = [run EXCEPT !.cancelRequested = TRUE]
  /\ UNCHANGED <<item, read, loose, bill, queue, swept, pass, tally>>

\* A resume reads the status outside the transaction that acts on it ...
CheckResume ==
  /\ run.status \in Resumable
  /\ tally.resuming < ResumesAtOnce /\ tally.resumes > 0
  /\ tally' = [tally EXCEPT !.resuming = @ + 1, !.resumes = @ - 1]
  /\ UNCHANGED <<run, item, read, loose, bill, queue, swept, pass>>

\* ... and that transaction puts every unbilled account back, after which the
\* job is enqueued.
CommitResume ==
  /\ tally.resuming > 0
  /\ tally' = [tally EXCEPT !.resuming = @ - 1]
  /\ item' = [a \in Account |-> IF item[a] \in {"FAILED", "SKIPPED"}
                                THEN "PENDING" ELSE item[a]]
  /\ run' = [run EXCEPT !.status = "PENDING", !.cancelRequested = FALSE,
                        !.quiet = FALSE]
  /\ Enqueue("GENERATE")
  /\ UNCHANGED <<read, loose, bill, swept, pass>>

RequestPost ==
  /\ Postable
  /\ tally.posts > 0
  /\ tally' = [tally EXCEPT !.posts = @ - 1]
  /\ Enqueue("POST")
  /\ UNCHANGED <<run, item, read, loose, bill, swept, pass>>
-----------------------------------------------------------------------------
(***************************************************************************)
(* Crashes, boots, the clock, and the meter readers.                       *)
(***************************************************************************)
\* A pass ends before its time.  Its process dies: the queue may deliver the
\* job again (a stalled job), and the process will boot.  Or a statement
\* outside the try throws: the job has failed, and nothing boots.
Crash(p) ==
  /\ pass[p] # Idle
  /\ tally.crashes > 0
  /\ pass' = [pass EXCEPT ![p] = Idle]
  /\ \/ /\ tally' = [tally EXCEPT !.crashes = @ - 1, !.boots = @ + 1]
        /\ \/ UNCHANGED queue
           \/ queue' = [queue EXCEPT
                          ![IF Generating(p) THEN "GENERATE" ELSE "POST"] = @ + 1]
     \/ tally' = [tally EXCEPT !.crashes = @ - 1] /\ UNCHANGED queue
  /\ UNCHANGED <<run, item, read, loose, bill, swept>>

\* Mutant: the cutoff the wrong way round.
ZombieAlive ==
  {kind \in Kind :
     /\ ~run.quiet
     /\ kind = "GENERATE" => run.status = "RUNNING"
     /\ kind = "POST"     => run.postingStarted /\ ~run.posted}

\* What the boot sweep takes for a corpse, by the job it needs.
Zombie ==
  {kind \in Kind :
     /\ run.quiet
     /\ kind = "GENERATE" => run.status = "RUNNING"
     /\ kind = "POST"     => run.postingStarted /\ ~run.posted}

\* A worker boots and sweeps, once.  The job ids carry the hour, and the queue
\* refuses an id it has already seen.
Boot ==
  /\ tally.boots > 0
  /\ tally' = [tally EXCEPT !.boots = @ - 1]
  /\ \E enqueued \in SUBSET (Zombie \ swept) :
       /\ QueueMayFail \/ enqueued = Zombie \ swept
       /\ queue' = [k \in Kind |-> queue[k] + IF k \in enqueued THEN 1 ELSE 0]
       /\ swept' = swept \union enqueued
  /\ UNCHANGED <<run, item, read, loose, bill, pass>>

NextHour ==
  /\ swept' = {}
  /\ UNCHANGED <<run, item, read, loose, bill, queue, pass, tally>>

\* Five minutes pass without a word from the run: nobody has it, or a posting
\* pass is among bills that are held or fail.  No generating pass takes that
\* long over one account, nor a posting job from its check to its claim.
GoQuiet ==
  /\ \A p \in Pass : pass[p] = Idle \/ (Posting(p) /\ pass[p].todo # {})
  /\ run' = [run EXCEPT !.quiet = TRUE]
  /\ UNCHANGED <<item, read, loose, bill, queue, swept, pass, tally>>

\* A reader submits the read an account was waiting for.
ReadArrives(a) ==
  /\ read[a] = "NONE"
  /\ read' = [read EXCEPT ![a] = "UNBILLED"]
  /\ UNCHANGED <<run, item, loose, bill, queue, swept, pass, tally>>
-----------------------------------------------------------------------------
\* The run and its items have been committed, and its job enqueued.
Init ==
  /\ run = [status |-> "PENDING", cancelRequested |-> FALSE,
            postingStarted |-> FALSE, posted |-> FALSE, quiet |-> TRUE]
  /\ item = [a \in Account |-> "PENDING"]
  /\ read \in [Account -> {"NONE", "UNBILLED"}]
  /\ loose = [a \in Account |-> 0]
  /\ bill = [a \in Account |-> "NONE"]
  /\ queue \in {[k \in Kind |-> IF k = "GENERATE" THEN n ELSE 0] :
                  n \in IF QueueMayFail THEN {0, 1} ELSE {1}}
  /\ swept = {}
  /\ pass = [p \in Pass |-> Idle]
  /\ tally = [resuming |-> 0, resumes |-> MaxResumes, posts |-> MaxPosts,
              crashes |-> MaxCrashes, boots |-> 0]

PassStep(p) ==
  \/ StartGeneration(p) \/ NextItem(p) \/ Rate(p) \/ CreateSegment(p)
  \/ Aggregate(p) \/ RecordItem(p) \/ Count(p) \/ Finalise(p)
  \/ StartPosting(p) \/ ClaimPosting(p) \/ PostOne(p) \/ FinishPosting(p)

Next ==
  \/ \E p \in Pass : PassStep(p) \/ Crash(p)
  \/ Cancel \/ CheckResume \/ CommitResume \/ RequestPost
  \/ Boot \/ NextHour \/ GoQuiet
  \/ \E a \in Account : ReadArrives(a)

Spec == Init /\ [][Next]_vars

\* The workers work, a crashed process boots, and the clock runs.
LiveSpec ==
  /\ Spec
  /\ \A p \in Pass : WF_vars(PassStep(p))
  /\ WF_vars(CommitResume) /\ WF_vars(Boot)
  /\ WF_vars(NextHour) /\ WF_vars(GoQuiet)
-----------------------------------------------------------------------------
(***************************************************************************)
(* Safety.                                                                 *)
(***************************************************************************)
\* Two passes never generate one run, across crashes, redelivered jobs and
\* boot sweeps: they would bill each other's accounts.
OneGenerationPass ==
  \A p, q \in Pass : Generating(p) /\ Generating(q) => p = q

\* A period is rated once for each account, however often the run is resumed
\* or reclaimed: a second segment would charge it twice.
RatedOnce ==
  \A a \in Account :
    /\ loose[a] <= 1
    /\ loose[a] > 0 => bill[a] = "NONE" /\ read[a] = "BILLED"

\* What a finished run says of itself is what its items say: a COMPLETE run
\* cannot be resumed, so nothing in it may be left to do.
StatusTellsItems ==
  /\ run.status = "COMPLETE" => Items("FAILED") \union Items("PENDING") = {}
  /\ run.status = "FAILED" => Items("BILLED") \union Items("PENDING") = {}
  /\ run.status = "PARTIAL" => Items("FAILED") \union Items("PENDING") # {}

\* An item says BILLED only of an account that has a bill, and only such a
\* bill is posted by the run.
BilledItemHasBill ==
  \A a \in Account : /\ item[a] = "BILLED" => bill[a] # "NONE"
                     /\ bill[a] = "POSTED" => item[a] = "BILLED"

(***************************************************************************)
(* Liveness.                                                               *)
(***************************************************************************)
\* The posting of a run comes to an end, with bills held and bills that fail.
PostingFinishes == run.postingStarted ~> run.posted

\* A run whose pass died is picked up by the next boot that comes five minutes
\* later, in an hour that has not tried it yet -- unless a posting pass that had
\* fallen silent is still at work on it: let it speak, and the dead pass looks
\* alive to the boot.
ZombieIsReclaimed ==
  /\ run.status = "RUNNING" /\ run.quiet /\ \A p \in Pass : ~Posting(p)
  /\ tally.boots > 0 /\ "GENERATE" \notin swept /\ tally.crashes = 0
  ~> run.status \in Terminal
=============================================================================
