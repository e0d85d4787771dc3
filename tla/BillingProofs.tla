----------------------------- MODULE BillingProofs -----------------------------
(***************************************************************************)
(* What a billing run promises of itself, for every number of accounts,    *)
(* passes, resumes, crashes and boots; and, in the second half, what the   *)
(* dispatcher that starts the runs promises of windows.                    *)
(*                                                                         *)
(* The one thing the run cannot survive is a resume that acts on a status  *)
(* which has changed since it was read, outside the transaction that acts  *)
(* on it; BillingRunStale shows it.  The invariant is proved of behaviours *)
(* in which no resume does, and that none does is proved of every run      *)
(* whose passes live and whose resumes come one by one, and of every run   *)
(* that nobody resumes, crash as it may.                                   *)
(***************************************************************************)
EXTENDS BillingRun, BillingDispatch, SumTheorems, FiniteSetTheorems

\* A resume commits while the run still is what its check found.
ResumeIsFresh == CommitResume => run.status \in Resumable

\* A status that says what the items say.
Tells(status) ==
  /\ status = "COMPLETE" => Items("FAILED") \union Items("PENDING") = {}
  /\ status = "FAILED" => Items("BILLED") \union Items("PENDING") = {}
  /\ status = "PARTIAL" => Items("FAILED") \union Items("PENDING") # {}

\* A generating pass shows in the run, and was heard of lately.
Shows(p) == Generating(p) => run.status = "RUNNING" /\ ~run.quiet

\* A generating pass has accounts in hand that are still to do, and one of
\* them, never two times, on its way through rating, segment and bill.
OnAccount == {"RATE", "SEGMENT", "AGGREGATE", "RECORD"}
Works(p) ==
  /\ \A a \in pass[p].todo : item[a] = "PENDING"
  /\ pass[p].at \in OnAccount =>
       pass[p].on \in Account \ pass[p].todo /\ item[pass[p].on] = "PENDING"
  /\ pass[p].at = "NEXT" => pass[p].outcome = "NONE"
  /\ pass[p].at = "SEGMENT" => read[pass[p].on] = "UNBILLED"
  /\ pass[p].at = "RECORD" =>
       /\ pass[p].outcome \in ItemStatus
       /\ pass[p].outcome = "BILLED" => bill[pass[p].on] # "NONE"
  /\ pass[p].at = "COUNT" => pass[p].outcome \in {"NONE", "CANCELLED"}
  /\ pass[p].at = "FINALISE" =>
       pass[p].outcome \in Terminal /\ Tells(pass[p].outcome)

\* A pass is true to the run and to its accounts.
Fit(p) ==
  /\ Shows(p)
  /\ Generating(p) => Works(p)
  /\ Posting(p) => \A a \in pass[p].todo : item[a] = "BILLED"

\* A period that is rated is read no more, and its segment is on one bill.
Rated ==
  \A a \in Account :
    /\ loose[a] <= 1
    /\ loose[a] > 0 => bill[a] = "NONE" /\ read[a] = "BILLED"
    /\ bill[a] # "NONE" => read[a] = "BILLED"

\* The inductive invariant.
IInv ==
  /\ TypeOK
  /\ OneGenerationPass
  /\ \A p \in Pass : Fit(p)
  /\ Rated
  /\ BilledItemHasBill
  /\ Tells(run.status)

USE NoAccountAssumption, BoundsAssumption, QueueAssumption

-----------------------------------------------------------------------------
\* A pass that stops, or goes on with what it was doing, leaves the others
\* alone.
LEMMA StillAlone ==
  ASSUME OneGenerationPass, NEW p \in Pass,
         \A q \in Pass : q # p => pass'[q] = pass[q],
         Generating(p)' => Generating(p)
  PROVE  OneGenerationPass'
BY DEF OneGenerationPass, Generating

\* A pass that is left alone stays fit, if the run and its accounts do.
LEMMA StaysFit ==
  ASSUME NEW q \in Pass, Fit(q), pass'[q] = pass[q],
         Generating(q) => /\ run'.status = run.status /\ ~run'.quiet
                          /\ UNCHANGED <<item, read, bill>>,
         Posting(q) => \A a \in pass[q].todo :
                         item[a] = "BILLED" => item'[a] = "BILLED"
  PROVE  Fit(q)'
BY DEF Fit, Shows, Works, Generating, Posting, Tells, Items

\* Nobody has begun.
LEMMA InitIInv == Init => IInv
<1> SUFFICES ASSUME Init PROVE IInv
  OBVIOUS
<1>1. TypeOK
  BY DEF Init, TypeOK, RunStatus, ItemStatus, Kind, PassState, Idle, Terminal
<1>2. \A p \in Pass : ~Generating(p) /\ ~Posting(p)
  BY DEF Init, Generating, Posting, Idle, GeneratingAt
<1>3. OneGenerationPass /\ \A p \in Pass : Fit(p)
  BY <1>2 DEF OneGenerationPass, Fit, Shows
<1>4. Rated /\ BilledItemHasBill /\ Tells(run.status)
  BY DEF Init, Rated, BilledItemHasBill, Tells
<1> QED BY <1>1, <1>3, <1>4 DEF IInv

\* The pass is where its row says, and the others are where they were.
LEMMA Passes ==
  ASSUME TypeOK
  PROVE  /\ \A p \in Pass : /\ pass[p] \in PassState
                            /\ pass[p].at \in {"IDLE"} \union GeneratingAt
                                                \union PostingAt
         /\ DOMAIN pass = Pass
BY DEF TypeOK, PassState

-----------------------------------------------------------------------------
(***************************************************************************)
(* The steps of a generating pass.                                         *)
(***************************************************************************)
\* A step of a generating pass that moves only the pass.
LEMMA MoveKeeps ==
  ASSUME IInv, NEW p \in Pass, NEW s \in PassState,
         Generating(p), s.at \in GeneratingAt,
         pass' = [pass EXCEPT ![p] = s],
         UNCHANGED <<run, item, read, loose, bill, queue, swept, tally>>,
         Works(p)'
  PROVE  IInv'
<1>1. pass'[p] = s /\ \A q \in Pass : q # p => pass'[q] = pass[q]
  BY Passes DEF IInv
<1>2. TypeOK'
  BY DEF IInv, TypeOK
<1>3. Generating(p)' /\ ~Posting(p)'
  BY <1>1 DEF Generating, Posting, GeneratingAt
<1>4. OneGenerationPass'
  BY <1>1, <1>3, StillAlone DEF IInv
<1>5. \A q \in Pass : Fit(q)'
  <2>1. Fit(p)'
    BY <1>3 DEF IInv, Fit, Shows
  <2>2. ASSUME NEW q \in Pass, q # p PROVE Fit(q)'
    BY <1>1, <2>2, StaysFit DEF IInv, Fit, Shows
  <2> QED BY <2>1, <2>2
<1>6. Rated' /\ BilledItemHasBill' /\ Tells(run.status)'
  BY DEF IInv, Rated, BilledItemHasBill, Tells, Items
<1> QED BY <1>2, <1>4, <1>5, <1>6 DEF IInv

\* The top of the loop.
LEMMA NextItemKeeps ==
  ASSUME IInv, NEW p \in Pass, NextItem(p)
  PROVE  IInv'
<1>1. Generating(p) /\ Works(p) /\ pass[p].at = "NEXT" /\ pass[p].outcome = "NONE"
      /\ pass[p] \in PassState /\ DOMAIN pass = Pass
  BY Passes DEF IInv, Fit, Works, NextItem, Generating, GeneratingAt
<1>2. CASE pass' = [pass EXCEPT ![p].at = "COUNT"]
  <2> DEFINE s == [pass[p] EXCEPT !.at = "COUNT"]
  <2>1. pass' = [pass EXCEPT ![p] = s] /\ s \in PassState /\ s.at = "COUNT"
        /\ s.outcome = "NONE" /\ s.todo = pass[p].todo
    BY <1>1, <1>2 DEF PassState, GeneratingAt
  <2> HIDE DEF s
  <2>2. pass'[p] = s /\ item' = item /\ s.at \in GeneratingAt
    BY <1>1, <2>1 DEF NextItem, GeneratingAt
  <2>3. Works(p)'
    BY <1>1, <2>1, <2>2 DEF Works, OnAccount
  <2> QED BY <1>1, <2>1, <2>2, <2>3, MoveKeeps DEF NextItem
<1>3. CASE pass' = [pass EXCEPT ![p].at = "COUNT", ![p].outcome = "CANCELLED"]
  <2> DEFINE s == [pass[p] EXCEPT !.at = "COUNT", !.outcome = "CANCELLED"]
  <2>1. pass' = [pass EXCEPT ![p] = s] /\ s \in PassState /\ s.at = "COUNT"
        /\ s.outcome = "CANCELLED" /\ s.todo = pass[p].todo
    BY <1>1, <1>3 DEF PassState, GeneratingAt, RunStatus, Terminal
  <2> HIDE DEF s
  <2>2. pass'[p] = s /\ item' = item /\ s.at \in GeneratingAt
    BY <1>1, <2>1 DEF NextItem, GeneratingAt
  <2>3. Works(p)'
    BY <1>1, <2>1, <2>2 DEF Works, OnAccount
  <2> QED BY <1>1, <2>1, <2>2, <2>3, MoveKeeps DEF NextItem
<1>4. ASSUME NEW a \in pass[p].todo, NEW at \in {"RATE", "RECORD"},
             NEW outcome \in {"NONE", "SKIPPED", "FAILED"},
             at = "RECORD" => outcome \in {"SKIPPED", "FAILED"},
             pass' = [pass EXCEPT ![p].todo = @ \ {a}, ![p].on = a,
                                  ![p].at = at, ![p].outcome = outcome]
      PROVE  IInv'
  <2> DEFINE s == [pass[p] EXCEPT !.todo = @ \ {a}, !.on = a, !.at = at,
                                  !.outcome = outcome]
  <2>1. pass' = [pass EXCEPT ![p] = s] /\ s \in PassState /\ s.at = at
        /\ s.outcome = outcome /\ s.todo = pass[p].todo \ {a} /\ s.on = a
        /\ a \in Account
    BY <1>1, <1>4 DEF PassState, GeneratingAt, ItemStatus
  <2> HIDE DEF s
  <2>2. pass'[p] = s /\ item' = item /\ s.at \in GeneratingAt
    BY <1>1, <2>1 DEF NextItem, GeneratingAt
  <2>3. Works(p)'
    BY <1>1, <1>4, <2>1, <2>2 DEF Works, OnAccount, ItemStatus
  <2> QED BY <1>1, <2>1, <2>2, <2>3, MoveKeeps DEF NextItem
<1> QED BY <1>2, <1>3, <1>4 DEF NextItem

\* Rating finds the period unbilled, or not, or fails.
LEMMA RateKeeps ==
  ASSUME IInv, NEW p \in Pass, Rate(p)
  PROVE  IInv'
<1>1. Generating(p) /\ Works(p) /\ pass[p].at = "RATE"
      /\ pass[p] \in PassState /\ DOMAIN pass = Pass
  BY Passes DEF IInv, Fit, Rate, Generating, GeneratingAt
<1>2. ASSUME NEW at \in {"SEGMENT", "AGGREGATE"},
             at = "SEGMENT" => read[pass[p].on] = "UNBILLED",
             pass' = [pass EXCEPT ![p].at = at]
      PROVE  IInv'
  <2> DEFINE s == [pass[p] EXCEPT !.at = at]
  <2>1. pass' = [pass EXCEPT ![p] = s] /\ s \in PassState /\ s.at = at
        /\ s.todo = pass[p].todo /\ s.on = pass[p].on
    BY <1>1, <1>2 DEF PassState, GeneratingAt
  <2> HIDE DEF s
  <2>2. pass'[p] = s /\ item' = item /\ read' = read /\ s.at \in GeneratingAt
    BY <1>1, <2>1 DEF Rate, GeneratingAt
  <2>3. Works(p)'
    BY <1>1, <1>2, <2>1, <2>2 DEF Works, OnAccount
  <2> QED BY <1>1, <2>1, <2>2, <2>3, MoveKeeps DEF Rate
<1>3. ASSUME NEW outcome \in {"FAILED", "SKIPPED"},
             pass' = [pass EXCEPT ![p].at = "RECORD", ![p].outcome = outcome]
      PROVE  IInv'
  <2> DEFINE s == [pass[p] EXCEPT !.at = "RECORD", !.outcome = outcome]
  <2>1. pass' = [pass EXCEPT ![p] = s] /\ s \in PassState /\ s.at = "RECORD"
        /\ s.todo = pass[p].todo /\ s.on = pass[p].on /\ s.outcome = outcome
    BY <1>1, <1>3 DEF PassState, GeneratingAt, ItemStatus
  <2> HIDE DEF s
  <2>2. pass'[p] = s /\ item' = item /\ s.at \in GeneratingAt
    BY <1>1, <2>1 DEF Rate, GeneratingAt
  <2>3. Works(p)'
    BY <1>1, <1>3, <2>1, <2>2 DEF Works, OnAccount, ItemStatus
  <2> QED BY <1>1, <2>1, <2>2, <2>3, MoveKeeps DEF Rate
<1> QED BY <1>2, <1>3 DEF Rate

\* finalise counts the items.
LEMMA CountKeeps ==
  ASSUME IInv, NEW p \in Pass, Count(p)
  PROVE  IInv'
<1>1. Generating(p) /\ Works(p) /\ pass[p].at = "COUNT"
      /\ pass[p].outcome \in {"NONE", "CANCELLED"}
      /\ pass[p] \in PassState /\ DOMAIN pass = Pass
  BY Passes DEF IInv, Fit, Works, Count, Generating, GeneratingAt
<1>2. PICK final \in Terminal :
        /\ Tells(final)
        /\ final = IF pass[p].outcome = "CANCELLED" THEN "CANCELLED" ELSE FinalStatus
  BY DEF FinalStatus, Terminal, Tells
<1> DEFINE s == [pass[p] EXCEPT !.at = "FINALISE", !.todo = {}, !.outcome = final]
<1>3. pass' = [pass EXCEPT ![p] = s]
  BY <1>1, <1>2 DEF Count
<1>4. s \in PassState /\ s.at = "FINALISE" /\ s.todo = {} /\ s.outcome = final
  BY <1>1, <1>2 DEF PassState, GeneratingAt, RunStatus
<1> HIDE DEF s
<1>5. pass'[p] = s /\ item' = item /\ s.at \in GeneratingAt
  BY <1>1, <1>3, <1>4 DEF Count, GeneratingAt
<1>6. Tells(final)'
  BY <1>2, <1>5 DEF Tells, Items
<1>7. Works(p)'
  BY <1>2, <1>4, <1>5, <1>6 DEF Works, OnAccount, Terminal
<1> QED BY <1>1, <1>3, <1>4, <1>5, <1>7, MoveKeeps DEF Count

\* A segment is made for a period nobody has rated.
LEMMA CreateSegmentKeeps ==
  ASSUME IInv, NEW p \in Pass, CreateSegment(p)
  PROVE  IInv'
<1>1. Generating(p) /\ Works(p) /\ pass[p].at = "SEGMENT"
      /\ pass[p] \in PassState /\ DOMAIN pass = Pass
  BY Passes DEF IInv, Fit, CreateSegment, Generating, GeneratingAt
<1> DEFINE a == pass[p].on
<1>2. /\ a \in Account /\ a \notin pass[p].todo /\ item[a] = "PENDING"
      /\ read[a] = "UNBILLED" /\ loose[a] = 0 /\ bill[a] = "NONE"
  <2>1. a \in Account /\ a \notin pass[p].todo /\ item[a] = "PENDING"
        /\ read[a] = "UNBILLED"
    BY <1>1 DEF Works, OnAccount
  <2>2. loose[a] \in Nat /\ ~(loose[a] > 0) /\ bill[a] = "NONE"
    BY <2>1 DEF IInv, TypeOK, Rated
  <2> QED BY <2>1, <2>2
<1>3. /\ pass'[p].at = "AGGREGATE" /\ pass'[p].on = a
      /\ pass'[p].todo = pass[p].todo
      /\ \A q \in Pass : q # p => pass'[q] = pass[q]
      /\ pass' \in [Pass -> PassState]
  BY <1>1 DEF CreateSegment, IInv, TypeOK, PassState, GeneratingAt
<1>4. /\ \A b \in Account : b # a => read'[b] = read[b] /\ loose'[b] = loose[b]
      /\ read'[a] = "BILLED" /\ loose'[a] = 1
      /\ UNCHANGED <<run, item, bill>>
  BY <1>2 DEF CreateSegment, IInv, TypeOK
<1>5. TypeOK'
  <2>1. read' \in [Account -> {"NONE", "UNBILLED", "BILLED"}]
    BY <1>2 DEF CreateSegment, IInv, TypeOK
  <2>2. loose' \in [Account -> Nat]
    BY <1>2 DEF CreateSegment, IInv, TypeOK
  <2> QED BY <1>3, <2>1, <2>2 DEF CreateSegment, IInv, TypeOK
<1>6. Generating(p)' /\ ~Posting(p)'
  BY <1>3 DEF Generating, Posting, GeneratingAt
<1>7. OneGenerationPass'
  BY <1>1, <1>3, <1>4, <1>6, StillAlone DEF IInv
<1>8. \A q \in Pass : Fit(q)'
  <2>1. Fit(p)'
    BY <1>1, <1>2, <1>3, <1>4, <1>6 DEF IInv, Fit, Shows, Works, OnAccount
  <2>2. ASSUME NEW q \in Pass, q # p PROVE Fit(q)'
    <3>1. ~Generating(q)
      BY <1>1, <2>2 DEF IInv, OneGenerationPass
    <3> QED BY <1>3, <1>4, <2>2, <3>1, StaysFit DEF IInv, Fit, Shows
  <2> QED BY <2>1, <2>2
<1>9. Rated' /\ BilledItemHasBill' /\ Tells(run.status)'
  BY <1>2, <1>4 DEF IInv, Rated, BilledItemHasBill, Tells, Items
<1> QED BY <1>5, <1>7, <1>8, <1>9 DEF IInv

\* The segments on no bill go on the account's one bill of the period.
LEMMA AggregateKeeps ==
  ASSUME IInv, NEW p \in Pass, Aggregate(p)
  PROVE  IInv'
<1>1. Generating(p) /\ Works(p) /\ pass[p].at = "AGGREGATE"
      /\ pass[p] \in PassState /\ DOMAIN pass = Pass
  BY Passes DEF IInv, Fit, Aggregate, Generating, GeneratingAt
<1> DEFINE a == pass[p].on
<1>2. a \in Account /\ a \notin pass[p].todo /\ item[a] = "PENDING"
  BY <1>1 DEF Works, OnAccount
<1>3. PICK outcome \in {"SKIPPED", "BILLED", "FAILED"} :
        /\ pass' = [pass EXCEPT ![p].at = "RECORD", ![p].outcome = outcome]
        /\ IF outcome = "BILLED"
           THEN /\ bill[a] = "NONE" /\ loose[a] > 0
                /\ bill' = [bill EXCEPT ![a] = "DRAFT"]
                /\ loose' = [loose EXCEPT ![a] = 0]
           ELSE UNCHANGED <<bill, loose>>
  BY DEF Aggregate
<1>4. /\ pass'[p].at = "RECORD" /\ pass'[p].on = a /\ pass'[p].outcome = outcome
      /\ pass'[p].todo = pass[p].todo
      /\ \A q \in Pass : q # p => pass'[q] = pass[q]
      /\ pass' \in [Pass -> PassState]
  BY <1>1, <1>3 DEF IInv, TypeOK, PassState, GeneratingAt, ItemStatus
<1>5. /\ \A b \in Account : b # a => bill'[b] = bill[b] /\ loose'[b] = loose[b]
      /\ outcome = "BILLED" => bill'[a] = "DRAFT" /\ loose'[a] = 0
                               /\ bill[a] = "NONE" /\ loose[a] > 0
      /\ outcome # "BILLED" => bill'[a] = bill[a] /\ loose'[a] = loose[a]
      /\ UNCHANGED <<run, item, read, queue, swept, tally>>
  BY <1>2, <1>3 DEF Aggregate, IInv, TypeOK
<1>6. TypeOK'
  <2>1. bill' \in [Account -> {"NONE", "DRAFT", "POSTED"}]
    BY <1>2, <1>3 DEF IInv, TypeOK
  <2>2. loose' \in [Account -> Nat]
    BY <1>2, <1>3 DEF IInv, TypeOK
  <2> QED BY <1>4, <1>5, <2>1, <2>2 DEF IInv, TypeOK
<1>7. Generating(p)' /\ ~Posting(p)'
  BY <1>4 DEF Generating, Posting, GeneratingAt
<1>8. OneGenerationPass'
  BY <1>1, <1>4, <1>5, <1>7, StillAlone DEF IInv
<1>9. \A q \in Pass : Fit(q)'
  <2>1. Fit(p)'
    <3>1. Works(p)'
      BY <1>1, <1>2, <1>4, <1>5 DEF Works, OnAccount, ItemStatus
    <3> QED BY <1>1, <1>5, <1>7, <3>1 DEF IInv, Fit, Shows
  <2>2. ASSUME NEW q \in Pass, q # p PROVE Fit(q)'
    <3>1. ~Generating(q)
      BY <1>1, <2>2 DEF IInv, OneGenerationPass
    <3> QED BY <1>4, <1>5, <2>2, <3>1, StaysFit DEF IInv, Fit, Shows
  <2> QED BY <2>1, <2>2
<1>10. Rated'
  BY <1>2, <1>5 DEF IInv, Rated
<1>11. BilledItemHasBill' /\ Tells(run.status)'
  BY <1>2, <1>5 DEF IInv, BilledItemHasBill, Tells, Items
<1> QED BY <1>6, <1>8, <1>9, <1>10, <1>11 DEF IInv

\* The item is written, and with it what became of the account.
LEMMA RecordItemKeeps ==
  ASSUME IInv, NEW p \in Pass, RecordItem(p)
  PROVE  IInv'
<1>1. Generating(p) /\ Works(p) /\ pass[p].at = "RECORD" /\ run.status = "RUNNING"
      /\ pass[p] \in PassState /\ DOMAIN pass = Pass
  BY Passes DEF IInv, Fit, Shows, RecordItem, Generating, GeneratingAt
<1> DEFINE a == pass[p].on
<1>2. /\ a \in Account /\ a \notin pass[p].todo /\ item[a] = "PENDING"
      /\ pass[p].outcome \in ItemStatus
      /\ pass[p].outcome = "BILLED" => bill[a] # "NONE"
      /\ bill[a] # "POSTED"
  BY <1>1 DEF Works, OnAccount, IInv, BilledItemHasBill
<1>3. /\ pass'[p].at = "NEXT" /\ pass'[p].outcome = "NONE"
      /\ pass'[p].todo = pass[p].todo
      /\ \A q \in Pass : q # p => pass'[q] = pass[q]
      /\ pass' \in [Pass -> PassState]
  BY <1>1 DEF RecordItem, IInv, TypeOK, PassState, GeneratingAt
<1>4. /\ \A b \in Account : b # a => item'[b] = item[b]
      /\ item'[a] \in {pass[p].outcome, "FAILED"} /\ item' \in [Account -> ItemStatus]
      /\ UNCHANGED <<read, loose, bill, queue, swept, tally>>
  <2>1. PICK outcome \in {pass[p].outcome, "FAILED"} :
          item' = [item EXCEPT ![a] = outcome]
    BY DEF RecordItem
  <2> QED BY <1>2, <2>1 DEF RecordItem, IInv, TypeOK, ItemStatus
<1>5. /\ run'.status = "RUNNING" /\ ~run'.quiet
      /\ run'.postingStarted = run.postingStarted /\ run'.posted = run.posted
      /\ run' \in [status : RunStatus, cancelRequested : BOOLEAN,
                   postingStarted : BOOLEAN, posted : BOOLEAN, quiet : BOOLEAN]
  BY <1>1 DEF RecordItem, IInv, TypeOK
<1>6. TypeOK'
  BY <1>3, <1>4, <1>5 DEF IInv, TypeOK
<1>7. Generating(p)' /\ ~Posting(p)'
  BY <1>3 DEF Generating, Posting, GeneratingAt
<1>8. OneGenerationPass'
  BY <1>1, <1>3, <1>5, <1>7, StillAlone DEF IInv
<1>9. \A q \in Pass : Fit(q)'
  <2>1. Fit(p)'
    <3>1. Works(p)'
      BY <1>1, <1>2, <1>3, <1>4 DEF Works, OnAccount, PassState
    <3> QED BY <1>5, <1>7, <3>1 DEF Fit, Shows
  <2>2. ASSUME NEW q \in Pass, q # p PROVE Fit(q)'
    <3>1. ~Generating(q)
      BY <1>1, <2>2 DEF IInv, OneGenerationPass
    <3>2. \A b \in pass[q].todo : item[b] = "BILLED" => item'[b] = "BILLED"
      <4>1. pass[q].todo \subseteq Account
        BY Passes DEF IInv, PassState
      <4> QED BY <1>2, <1>4, <4>1
    <3> QED BY <1>3, <1>5, <2>2, <3>1, <3>2, StaysFit DEF IInv
  <2> QED BY <2>1, <2>2
<1>10. Rated' /\ Tells(run.status)'
  BY <1>4, <1>5 DEF IInv, Rated, Tells
<1>11. BilledItemHasBill'
  BY <1>2, <1>4 DEF IInv, BilledItemHasBill
<1> QED BY <1>6, <1>8, <1>9, <1>10, <1>11 DEF IInv

\* The status is written as counted.
LEMMA FinaliseKeeps ==
  ASSUME IInv, NEW p \in Pass, Finalise(p)
  PROVE  IInv'
<1>1. Generating(p) /\ pass[p].outcome \in Terminal /\ Tells(pass[p].outcome)
      /\ DOMAIN pass = Pass
  BY Passes DEF IInv, Fit, Works, Finalise, Generating, GeneratingAt
<1>2. /\ pass'[p] = Idle
      /\ \A q \in Pass : q # p => pass'[q] = pass[q]
      /\ pass' \in [Pass -> PassState]
  BY <1>1 DEF Finalise, IInv, TypeOK, PassState, Idle
<1>3. /\ run'.status = pass[p].outcome /\ ~run'.quiet
      /\ run'.postingStarted = run.postingStarted /\ run'.posted = run.posted
      /\ run' \in [status : RunStatus, cancelRequested : BOOLEAN,
                   postingStarted : BOOLEAN, posted : BOOLEAN, quiet : BOOLEAN]
      /\ UNCHANGED <<item, read, loose, bill, queue, swept, tally>>
  BY <1>1 DEF Finalise, IInv, TypeOK, RunStatus
<1>4. TypeOK'
  BY <1>2, <1>3 DEF IInv, TypeOK
<1>5. ~Generating(p)' /\ ~Posting(p)'
  BY <1>2 DEF Generating, Posting, GeneratingAt, Idle
<1>6. OneGenerationPass'
  BY <1>2, <1>3, <1>5, StillAlone DEF IInv
<1>7. \A q \in Pass : Fit(q)'
  <2>1. Fit(p)'
    BY <1>5 DEF Fit, Shows
  <2>2. ASSUME NEW q \in Pass, q # p PROVE Fit(q)'
    <3>1. ~Generating(q)
      BY <1>1, <2>2 DEF IInv, OneGenerationPass
    <3> QED BY <1>2, <1>3, <2>2, <3>1, StaysFit DEF IInv
  <2> QED BY <2>1, <2>2
<1>8. Rated' /\ BilledItemHasBill'
  BY <1>3 DEF IInv, Rated, BilledItemHasBill
<1>9. Tells(run.status)'
  BY <1>1, <1>3 DEF Tells, Items
<1> QED BY <1>4, <1>6, <1>7, <1>8, <1>9 DEF IInv

-----------------------------------------------------------------------------
(***************************************************************************)
(* The claims, and the steps of a posting pass.                            *)
(***************************************************************************)
\* A step that leaves the run, its accounts and its passes as they are.
LEMMA NothingMovesKeeps ==
  ASSUME IInv, TypeOK', UNCHANGED <<run, item, read, loose, bill, pass>>
  PROVE  IInv'
<1>1. OneGenerationPass'
  BY DEF IInv, OneGenerationPass, Generating
<1>2. ASSUME NEW p \in Pass PROVE Fit(p)'
  BY DEF IInv, Fit, Shows, Works, Generating, Posting, Tells, Items
<1>3. Rated' /\ BilledItemHasBill' /\ Tells(run.status)'
  BY DEF IInv, Rated, BilledItemHasBill, Tells, Items
<1> QED BY <1>1, <1>2, <1>3 DEF IInv

\* What Unheld rules out.
LEMMA UnheldMeans ==
  ASSUME IInv, Unheld
  PROVE  \A p \in Pass : ~Generating(p)
BY DEF IInv, Fit, Shows, Unheld

\* Taking a job leaves one less.
LEMMA TakeType ==
  ASSUME TypeOK, NEW p \in Pass, NEW kind \in Kind, Take(p, kind)
  PROVE  queue' \in [Kind -> Nat]
<1>1. queue[kind] \in Nat /\ queue[kind] - 1 \in Nat
  BY DEF TypeOK, Take
<1> QED BY <1>1 DEF TypeOK, Take

\* A generation begins where nothing holds the run.
LEMMA StartGenerationKeeps ==
  ASSUME IInv, NEW p \in Pass, StartGeneration(p)
  PROVE  IInv'
<1>1. pass[p] = Idle /\ queue' \in [Kind -> Nat] /\ TypeOK /\ DOMAIN pass = Pass
  BY TakeType, Passes DEF StartGeneration, Take, IInv, Kind
<1>2. CASE ~Unheld /\ UNCHANGED <<run, pass>>
  <2>1. TypeOK'
    BY <1>1, <1>2 DEF StartGeneration, TypeOK
  <2> QED BY <1>2, <2>1, NothingMovesKeeps DEF StartGeneration
<1>3. CASE /\ Unheld
           /\ run' = [run EXCEPT !.status = "RUNNING", !.quiet = FALSE]
           /\ pass' = [pass EXCEPT ![p].at = "NEXT", ![p].todo = Items("PENDING")]
  <2>1. \A q \in Pass : ~Generating(q)
    BY <1>3, UnheldMeans
  <2>2. /\ pass'[p].at = "NEXT" /\ pass'[p].outcome = "NONE"
        /\ pass'[p].todo = Items("PENDING")
        /\ \A q \in Pass : q # p => pass'[q] = pass[q]
        /\ pass' \in [Pass -> PassState]
    <3>1. Items("PENDING") \in SUBSET Account
      BY DEF Items
    <3> DEFINE s == [Idle EXCEPT !.at = "NEXT", !.todo = Items("PENDING")]
    <3>2. pass' = [pass EXCEPT ![p] = s]
      BY <1>1, <1>3
    <3>3. s \in PassState /\ s.at = "NEXT" /\ s.outcome = "NONE"
          /\ s.todo = Items("PENDING")
      BY <3>1 DEF PassState, Idle, GeneratingAt
    <3> HIDE DEF s
    <3> QED BY <1>1, <3>2, <3>3 DEF TypeOK
  <2>3. /\ run'.status = "RUNNING" /\ ~run'.quiet
        /\ run'.postingStarted = run.postingStarted /\ run'.posted = run.posted
        /\ run' \in [status : RunStatus, cancelRequested : BOOLEAN,
                     postingStarted : BOOLEAN, posted : BOOLEAN, quiet : BOOLEAN]
        /\ UNCHANGED <<item, read, loose, bill, swept, tally>>
    BY <1>1, <1>3 DEF StartGeneration, TypeOK, RunStatus
  <2>4. TypeOK'
    BY <1>1, <2>2, <2>3 DEF TypeOK
  <2>5. /\ ~Posting(p)' /\ Generating(p)'
        /\ \A q \in Pass : q # p => ~Generating(q)' /\ Posting(q)' = Posting(q)
    BY <2>1, <2>2 DEF Generating, Posting, GeneratingAt
  <2>6. OneGenerationPass'
    BY <2>1, <2>3, <2>5 DEF OneGenerationPass
  <2>7. \A q \in Pass : Fit(q)'
    <3>1. Fit(p)'
      BY <2>2, <2>3, <2>5 DEF Fit, Shows, Works, OnAccount, Items
    <3>2. ASSUME NEW q \in Pass, q # p PROVE Fit(q)'
      BY <2>1, <2>2, <2>3, <3>2, StaysFit DEF IInv
    <3> QED BY <3>1, <3>2
  <2>8. Rated' /\ BilledItemHasBill' /\ Tells(run.status)'
    BY <2>3 DEF IInv, Rated, BilledItemHasBill, Tells
  <2> QED BY <2>4, <2>6, <2>7, <2>8 DEF IInv
<1> QED BY <1>2, <1>3 DEF StartGeneration

\* The job asks whether the run may be posted, and ends or goes on to claim it.
LEMMA StartPostingKeeps ==
  ASSUME IInv, NEW p \in Pass, StartPosting(p)
  PROVE  IInv'
<1>1. pass[p] = Idle /\ queue' \in [Kind -> Nat] /\ TypeOK /\ DOMAIN pass = Pass
  BY TakeType, Passes DEF StartPosting, Take, IInv, Kind
<1>2. CASE UNCHANGED pass
  <2>1. TypeOK'
    BY <1>1, <1>2 DEF StartPosting, TypeOK
  <2> QED BY <1>2, <2>1, NothingMovesKeeps DEF StartPosting
<1>3. CASE pass' = [pass EXCEPT ![p].at = "CLAIM"]
  <2> DEFINE s == [Idle EXCEPT !.at = "CLAIM"]
  <2>1. pass' = [pass EXCEPT ![p] = s]
    BY <1>1, <1>3
  <2>2. s \in PassState /\ s.at = "CLAIM"
    BY DEF PassState, Idle, PostingAt
  <2> HIDE DEF s
  <2>3. /\ pass'[p] = s /\ \A q \in Pass : q # p => pass'[q] = pass[q]
        /\ pass' \in [Pass -> PassState]
    BY <1>1, <2>1, <2>2 DEF TypeOK
  <2>4. TypeOK'
    BY <1>1, <2>3 DEF StartPosting, TypeOK
  <2>5. ~Generating(p)' /\ ~Posting(p)'
    BY <2>2, <2>3 DEF Generating, Posting, GeneratingAt
  <2>6. OneGenerationPass'
    BY <2>3, <2>5, StillAlone DEF IInv, StartPosting
  <2>7. \A q \in Pass : Fit(q)'
    <3>1. Fit(p)'
      BY <2>5 DEF Fit, Shows
    <3>2. ASSUME NEW q \in Pass, q # p PROVE Fit(q)'
      BY <2>3, <3>2, StaysFit DEF IInv, Fit, Shows, StartPosting
    <3> QED BY <3>1, <3>2
  <2>8. Rated' /\ BilledItemHasBill' /\ Tells(run.status)'
    BY DEF StartPosting, IInv, Rated, BilledItemHasBill, Tells, Items
  <2> QED BY <2>4, <2>6, <2>7, <2>8 DEF IInv
<1> QED BY <1>2, <1>3 DEF StartPosting

\* The claim of a posting finds no generation.
LEMMA ClaimPostingKeeps ==
  ASSUME IInv, NEW p \in Pass, ClaimPosting(p)
  PROVE  IInv'
<1>1. pass[p].at = "CLAIM" /\ TypeOK /\ DOMAIN pass = Pass /\ pass[p] \in PassState
  BY Passes DEF ClaimPosting, IInv
<1>2. CASE /\ ~Unheld
           /\ pass' = [pass EXCEPT ![p] = Idle]
           /\ UNCHANGED run
  <2>1. /\ pass'[p] = Idle /\ \A q \in Pass : q # p => pass'[q] = pass[q]
        /\ pass' \in [Pass -> PassState]
    BY <1>1, <1>2 DEF TypeOK, PassState, Idle
  <2>2. TypeOK'
    BY <1>1, <1>2, <2>1 DEF ClaimPosting, TypeOK
  <2>3. ~Generating(p)' /\ ~Posting(p)'
    BY <2>1 DEF Generating, Posting, GeneratingAt, Idle
  <2>4. OneGenerationPass'
    BY <1>2, <2>1, <2>3, StillAlone DEF IInv
  <2>5. \A q \in Pass : Fit(q)'
    <3>1. Fit(p)'
      BY <2>3 DEF Fit, Shows
    <3>2. ASSUME NEW q \in Pass, q # p PROVE Fit(q)'
      BY <1>2, <2>1, <3>2, StaysFit DEF IInv, Fit, Shows, ClaimPosting
    <3> QED BY <3>1, <3>2
  <2>6. Rated' /\ BilledItemHasBill' /\ Tells(run.status)'
    BY <1>2 DEF ClaimPosting, IInv, Rated, BilledItemHasBill, Tells, Items
  <2> QED BY <2>2, <2>4, <2>5, <2>6 DEF IInv
<1>3. CASE /\ Unheld
           /\ run' = [run EXCEPT !.postingStarted = TRUE, !.quiet = FALSE]
           /\ pass' = [pass EXCEPT ![p].at = "POST", ![p].todo = Items("BILLED")]
  <2>1. \A q \in Pass : ~Generating(q)
    BY <1>3, UnheldMeans
  <2>2. /\ pass'[p].at = "POST" /\ pass'[p].todo = Items("BILLED")
        /\ \A q \in Pass : q # p => pass'[q] = pass[q]
        /\ pass' \in [Pass -> PassState]
    <3> DEFINE s == [pass[p] EXCEPT !.at = "POST", !.todo = Items("BILLED")]
    <3>1. pass' = [pass EXCEPT ![p] = s]
      BY <1>1, <1>3
    <3>2. Items("BILLED") \in SUBSET Account
      BY DEF Items
    <3>3. s \in PassState /\ s.at = "POST" /\ s.todo = Items("BILLED")
      BY <1>1, <3>2 DEF PassState, PostingAt
    <3> HIDE DEF s
    <3> QED BY <1>1, <3>1, <3>3 DEF TypeOK
  <2>3. /\ run'.status = run.status /\ ~run'.quiet
        /\ run'.postingStarted /\ run'.posted = run.posted
        /\ run' \in [status : RunStatus, cancelRequested : BOOLEAN,
                     postingStarted : BOOLEAN, posted : BOOLEAN, quiet : BOOLEAN]
        /\ UNCHANGED <<item, read, loose, bill, queue, swept, tally>>
    BY <1>1, <1>3 DEF ClaimPosting, TypeOK
  <2>4. TypeOK'
    BY <1>1, <2>2, <2>3 DEF TypeOK
  <2>5. /\ Posting(p)' /\ ~Generating(p)'
        /\ \A q \in Pass : q # p => ~Generating(q)' /\ Posting(q)' = Posting(q)
    BY <2>1, <2>2 DEF Generating, Posting, GeneratingAt
  <2>6. OneGenerationPass'
    BY <2>1, <2>3, <2>5 DEF OneGenerationPass
  <2>7. \A q \in Pass : Fit(q)'
    <3>1. Fit(p)'
      BY <2>2, <2>3, <2>5 DEF Fit, Shows, Items
    <3>2. ASSUME NEW q \in Pass, q # p PROVE Fit(q)'
      BY <2>1, <2>2, <2>3, <2>5, <3>2, StaysFit DEF IInv
    <3> QED BY <3>1, <3>2
  <2>8. Rated' /\ BilledItemHasBill' /\ Tells(run.status)'
    BY <2>3 DEF IInv, Rated, BilledItemHasBill, Tells, Items
  <2> QED BY <2>4, <2>6, <2>7, <2>8 DEF IInv
<1> QED BY <1>2, <1>3 DEF ClaimPosting

\* A bill is posted, or passed over.
LEMMA PostOneKeeps ==
  ASSUME IInv, NEW p \in Pass, PostOne(p)
  PROVE  IInv'
<1>1. /\ Posting(p) /\ ~Generating(p) /\ TypeOK /\ DOMAIN pass = Pass
      /\ pass[p] \in PassState /\ pass[p].at = "POST"
      /\ \A a \in pass[p].todo : item[a] = "BILLED"
  BY Passes DEF PostOne, IInv, Fit, Shows, Posting, Generating, GeneratingAt
<1>2. PICK a \in pass[p].todo :
        /\ pass' = [pass EXCEPT ![p].todo = @ \ {a}]
        /\ \/ /\ bill' = [bill EXCEPT ![a] = "POSTED"]
              /\ run' = [run EXCEPT !.quiet = FALSE]
           \/ UNCHANGED <<bill, run>>
  BY DEF PostOne
<1>3. a \in Account /\ item[a] = "BILLED" /\ bill[a] # "NONE"
  BY <1>1 DEF PassState, IInv, BilledItemHasBill
<1>4. /\ pass'[p].at = "POST" /\ pass'[p].todo = pass[p].todo \ {a}
      /\ \A q \in Pass : q # p => pass'[q] = pass[q]
      /\ pass' \in [Pass -> PassState]
  <2> DEFINE s == [pass[p] EXCEPT !.todo = @ \ {a}]
  <2>1. pass' = [pass EXCEPT ![p] = s]
    BY <1>1, <1>2
  <2>2. s \in PassState /\ s.at = "POST" /\ s.todo = pass[p].todo \ {a}
    BY <1>1 DEF PassState
  <2> HIDE DEF s
  <2> QED BY <1>1, <2>1, <2>2 DEF TypeOK
<1>5. /\ UNCHANGED <<item, read, loose, queue, swept, tally>>
      /\ run'.status = run.status /\ (run'.quiet => run.quiet)
      /\ run' \in [status : RunStatus, cancelRequested : BOOLEAN,
                   postingStarted : BOOLEAN, posted : BOOLEAN, quiet : BOOLEAN]
      /\ \A b \in Account : b # a => bill'[b] = bill[b]
      /\ bill'[a] \in {bill[a], "POSTED"}
      /\ bill' \in [Account -> {"NONE", "DRAFT", "POSTED"}]
  <2>1. /\ run'.status = run.status /\ (run'.quiet => run.quiet)
        /\ run' \in [status : RunStatus, cancelRequested : BOOLEAN,
                     postingStarted : BOOLEAN, posted : BOOLEAN, quiet : BOOLEAN]
    <3>1. CASE run' = [run EXCEPT !.quiet = FALSE]
      BY <1>1, <3>1 DEF TypeOK
    <3>2. CASE run' = run
      BY <1>1, <3>2 DEF TypeOK
    <3> QED BY <1>2, <3>1, <3>2
  <2>2. \/ bill' = [bill EXCEPT ![a] = "POSTED"]
        \/ bill' = bill
    BY <1>2
  <2>3. /\ \A b \in Account : b # a => bill'[b] = bill[b]
        /\ bill'[a] \in {bill[a], "POSTED"}
        /\ bill' \in [Account -> {"NONE", "DRAFT", "POSTED"}]
    BY <1>1, <1>3, <2>2 DEF TypeOK
  <2> QED BY <2>1, <2>3 DEF PostOne
<1>6. TypeOK'
  BY <1>1, <1>4, <1>5 DEF TypeOK
<1>7. Posting(p)' /\ ~Generating(p)'
  BY <1>4 DEF Posting, Generating, GeneratingAt
<1>8. OneGenerationPass'
  BY <1>1, <1>4, <1>5, <1>7, StillAlone DEF IInv
<1>9. \A q \in Pass : Fit(q)'
  <2>1. Fit(p)'
    BY <1>1, <1>4, <1>5, <1>7 DEF Fit, Shows
  <2>2. ASSUME NEW q \in Pass, q # p, Generating(q) PROVE Fit(q)'
    <3>1. Works(q)'
      <4>1. Works(q) /\ pass'[q] = pass[q]
        BY <1>4, <2>2 DEF IInv, Fit
      <4>2. \A b \in Account : bill[b] # "NONE" => bill'[b] # "NONE"
        BY <1>3, <1>5
      <4>3. pass[q].at = "FINALISE" => Tells(pass[q].outcome)'
        BY <1>5, <4>1 DEF Works, Tells, Items
      <4> QED BY <1>5, <4>1, <4>2, <4>3 DEF Works, OnAccount, Tells
    <3>2. Generating(q)' /\ ~Posting(q)' /\ Shows(q)'
      BY <1>4, <1>5, <2>2 DEF IInv, Fit, Shows, Generating, Posting, GeneratingAt
    <3> QED BY <3>1, <3>2 DEF Fit
  <2>3. ASSUME NEW q \in Pass, q # p, ~Generating(q) PROVE Fit(q)'
    BY <1>4, <1>5, <2>3, StaysFit DEF IInv, Fit, Shows
  <2> QED BY <2>1, <2>2, <2>3
<1>10. Rated'
  BY <1>3, <1>5 DEF IInv, Rated
<1>11. BilledItemHasBill' /\ Tells(run.status)'
  BY <1>3, <1>5 DEF IInv, BilledItemHasBill, Tells, Items
<1> QED BY <1>6, <1>8, <1>9, <1>10, <1>11 DEF IInv

\* The pass ends, and the run is marked posted for good.
LEMMA FinishPostingKeeps ==
  ASSUME IInv, NEW p \in Pass, FinishPosting(p)
  PROVE  IInv'
<1>1. Posting(p) /\ TypeOK /\ DOMAIN pass = Pass
  BY Passes DEF FinishPosting, IInv
<1>2. /\ pass'[p] = Idle /\ \A q \in Pass : q # p => pass'[q] = pass[q]
      /\ pass' \in [Pass -> PassState]
  BY <1>1 DEF FinishPosting, TypeOK, PassState, Idle
<1>3. /\ run'.status = run.status /\ run'.quiet = run.quiet
      /\ run'.postingStarted = run.postingStarted /\ run'.posted
      /\ run' \in [status : RunStatus, cancelRequested : BOOLEAN,
                   postingStarted : BOOLEAN, posted : BOOLEAN, quiet : BOOLEAN]
      /\ UNCHANGED <<item, read, loose, bill, queue, swept, tally>>
  BY <1>1 DEF FinishPosting, TypeOK
<1>4. TypeOK'
  BY <1>1, <1>2, <1>3 DEF TypeOK
<1>5. ~Generating(p)' /\ ~Posting(p)'
  BY <1>2 DEF Generating, Posting, GeneratingAt, Idle
<1>6. OneGenerationPass'
  BY <1>2, <1>3, <1>5, StillAlone DEF IInv
<1>7. \A q \in Pass : Fit(q)'
  <2>1. Fit(p)'
    BY <1>5 DEF Fit, Shows
  <2>2. ASSUME NEW q \in Pass, q # p PROVE Fit(q)'
    BY <1>2, <1>3, <2>2, StaysFit DEF IInv, Fit, Shows
  <2> QED BY <2>1, <2>2
<1>8. Rated' /\ BilledItemHasBill' /\ Tells(run.status)'
  BY <1>3 DEF IInv, Rated, BilledItemHasBill, Tells, Items
<1> QED BY <1>4, <1>6, <1>7, <1>8 DEF IInv

-----------------------------------------------------------------------------
(***************************************************************************)
(* The operators, the crashes, the clock and the readers.                  *)
(***************************************************************************)
\* A step that writes the run and leaves its passes and accounts alone.
LEMMA RunMovesKeeps ==
  ASSUME IInv, UNCHANGED <<item, read, loose, bill, queue, swept, pass, tally>>,
         run' \in [status : RunStatus, cancelRequested : BOOLEAN,
                   postingStarted : BOOLEAN, posted : BOOLEAN, quiet : BOOLEAN],
         run'.status = run.status,
         run'.quiet => run.quiet \/ \A p \in Pass : ~Generating(p)
  PROVE  IInv'
<1>1. TypeOK'
  BY DEF IInv, TypeOK
<1>2. OneGenerationPass'
  BY DEF IInv, OneGenerationPass, Generating
<1>3. ASSUME NEW p \in Pass PROVE Fit(p)'
  BY StaysFit DEF IInv, Fit, Shows
<1>4. Rated' /\ BilledItemHasBill' /\ Tells(run.status)'
  BY DEF IInv, Rated, BilledItemHasBill, Tells, Items
<1> QED BY <1>1, <1>2, <1>3, <1>4 DEF IInv

\* A resume that finds the run as its check did finds no generation under way.
LEMMA CommitResumeKeeps ==
  ASSUME IInv, CommitResume, run.status \in Resumable
  PROVE  IInv'
<1>1. \A p \in Pass : ~Generating(p)
  BY DEF IInv, Fit, Shows, Resumable
<1>2. /\ run'.status = "PENDING" /\ ~run'.quiet
      /\ run'.postingStarted = run.postingStarted /\ run'.posted = run.posted
      /\ run' \in [status : RunStatus, cancelRequested : BOOLEAN,
                   postingStarted : BOOLEAN, posted : BOOLEAN, quiet : BOOLEAN]
      /\ UNCHANGED <<read, loose, bill, swept, pass>>
  BY DEF CommitResume, IInv, TypeOK, RunStatus
<1>3. /\ item' \in [Account -> ItemStatus]
      /\ \A a \in Account : item'[a] = "BILLED" <=> item[a] = "BILLED"
  BY DEF CommitResume, IInv, TypeOK, ItemStatus
<1>4. TypeOK'
  <2>1. queue' \in [Kind -> Nat]
    <3>1. \A k \in Kind : queue[k] \in Nat /\ queue[k] + 1 \in Nat
      BY DEF IInv, TypeOK
    <3>2. "GENERATE" \in Kind
      BY DEF Kind
    <3> QED BY <3>1, <3>2 DEF CommitResume, Enqueue, IInv, TypeOK
  <2>2. tally' \in [resuming : Nat, resumes : Nat, posts : Nat, crashes : Nat,
                    boots : Nat]
    <3>1. tally.resuming - 1 \in Nat
      BY DEF CommitResume, IInv, TypeOK
    <3> QED BY <3>1 DEF CommitResume, IInv, TypeOK
  <2> QED BY <1>2, <1>3, <2>1, <2>2 DEF IInv, TypeOK
<1>5. OneGenerationPass'
  BY <1>2 DEF IInv, OneGenerationPass, Generating
<1>6. ASSUME NEW p \in Pass PROVE Fit(p)'
  <2>1. pass[p].todo \in SUBSET Account
    BY Passes DEF IInv, PassState
  <2>2. \A a \in pass[p].todo : item[a] = "BILLED" => item'[a] = "BILLED"
    BY <1>3, <2>1
  <2> QED BY <1>1, <1>2, <2>2, StaysFit DEF IInv
<1>7. Rated' /\ BilledItemHasBill' /\ Tells(run.status)'
  BY <1>2, <1>3 DEF IInv, Rated, BilledItemHasBill, Tells
<1> QED BY <1>4, <1>5, <1>6, <1>7 DEF IInv

\* A pass that dies is no pass.
LEMMA CrashKeeps ==
  ASSUME IInv, NEW p \in Pass, Crash(p)
  PROVE  IInv'
<1>1. TypeOK /\ DOMAIN pass = Pass
  BY Passes DEF IInv
<1>2. /\ pass'[p] = Idle /\ \A q \in Pass : q # p => pass'[q] = pass[q]
      /\ pass' \in [Pass -> PassState]
      /\ UNCHANGED <<run, item, read, loose, bill, swept>>
  BY <1>1 DEF Crash, TypeOK, PassState, Idle
<1>3. TypeOK'
  <2>1. queue' \in [Kind -> Nat]
    <3>1. \A k \in Kind : queue[k] \in Nat /\ queue[k] + 1 \in Nat
      BY <1>1 DEF TypeOK
    <3>2. PICK k \in Kind : queue' \in {queue, [queue EXCEPT ![k] = @ + 1]}
      BY DEF Crash, Kind
    <3> QED BY <1>1, <3>1, <3>2 DEF TypeOK
  <2>2. tally' \in [resuming : Nat, resumes : Nat, posts : Nat, crashes : Nat,
                    boots : Nat]
    <3>1. tally.crashes - 1 \in Nat /\ tally.boots + 1 \in Nat
      BY <1>1 DEF Crash, TypeOK
    <3> QED BY <1>1, <3>1 DEF Crash, TypeOK
  <2> QED BY <1>1, <1>2, <2>1, <2>2 DEF TypeOK
<1>4. ~Generating(p)' /\ ~Posting(p)'
  BY <1>2 DEF Generating, Posting, GeneratingAt, Idle
<1>5. OneGenerationPass'
  BY <1>2, <1>4, StillAlone DEF IInv
<1>6. \A q \in Pass : Fit(q)'
  <2>1. Fit(p)'
    BY <1>4 DEF Fit, Shows
  <2>2. ASSUME NEW q \in Pass, q # p PROVE Fit(q)'
    BY <1>2, <2>2, StaysFit DEF IInv, Fit, Shows
  <2> QED BY <2>1, <2>2
<1>7. Rated' /\ BilledItemHasBill' /\ Tells(run.status)'
  BY <1>2 DEF IInv, Rated, BilledItemHasBill, Tells, Items
<1> QED BY <1>3, <1>5, <1>6, <1>7 DEF IInv

\* A read that arrives is of a period nobody has rated.
LEMMA ReadArrivesKeeps ==
  ASSUME IInv, NEW a \in Account, ReadArrives(a)
  PROVE  IInv'
<1>1. /\ UNCHANGED <<run, item, loose, bill, queue, swept, pass, tally>>
      /\ read[a] = "NONE" /\ read'[a] = "UNBILLED"
      /\ \A b \in Account : b # a => read'[b] = read[b]
      /\ read' \in [Account -> {"NONE", "UNBILLED", "BILLED"}]
  BY DEF ReadArrives, IInv, TypeOK
<1>2. TypeOK'
  BY <1>1 DEF IInv, TypeOK
<1>3. OneGenerationPass'
  BY <1>1 DEF IInv, OneGenerationPass, Generating
<1>4. ASSUME NEW p \in Pass PROVE Fit(p)'
  BY <1>1 DEF IInv, Fit, Shows, Works, Generating, Posting, Tells, Items, OnAccount
<1>5. Rated' /\ BilledItemHasBill' /\ Tells(run.status)'
  BY <1>1 DEF IInv, Rated, BilledItemHasBill, Tells, Items
<1> QED BY <1>2, <1>3, <1>4, <1>5 DEF IInv

\* A step that only moves jobs, requests and the sweep's memory.
LEMMA RequestsKeep ==
  ASSUME IInv, CheckResume \/ RequestPost \/ Boot \/ NextHour
  PROVE  IInv'
<1>1. UNCHANGED <<run, item, read, loose, bill, pass>>
  BY DEF CheckResume, RequestPost, Boot, NextHour
<1>2. TypeOK
  BY DEF IInv
<1>3. \A k \in Kind : queue[k] \in Nat /\ queue[k] + 1 \in Nat
  BY <1>2 DEF TypeOK
<1>4. CASE CheckResume
  <2>1. tally.resuming + 1 \in Nat /\ tally.resumes - 1 \in Nat
    BY <1>2, <1>4 DEF CheckResume, TypeOK
  <2> QED BY <1>2, <1>4, <2>1, <1>1, NothingMovesKeeps DEF CheckResume, TypeOK
<1>5. CASE RequestPost
  <2>1. tally.posts - 1 \in Nat /\ "POST" \in Kind
    BY <1>2, <1>5 DEF RequestPost, TypeOK, Kind
  <2>2. queue' \in [Kind -> Nat]
    BY <1>2, <1>3, <1>5, <2>1 DEF RequestPost, Enqueue, TypeOK
  <2>3. tally' \in [resuming : Nat, resumes : Nat, posts : Nat, crashes : Nat,
                    boots : Nat]
    BY <1>2, <1>5, <2>1 DEF RequestPost, TypeOK
  <2>4. TypeOK'
    BY <1>1, <1>2, <1>5, <2>2, <2>3 DEF RequestPost, TypeOK
  <2> QED BY <1>1, <2>4, NothingMovesKeeps
<1>6. CASE Boot
  <2>1. queue' \in [Kind -> Nat] /\ swept' \subseteq Kind
    BY <1>2, <1>3, <1>6 DEF Boot, Zombie, TypeOK
  <2>2. tally' \in [resuming : Nat, resumes : Nat, posts : Nat, crashes : Nat,
                    boots : Nat]
    <3>1. tally.boots - 1 \in Nat
      BY <1>2, <1>6 DEF Boot, TypeOK
    <3> QED BY <1>2, <1>6, <3>1 DEF Boot, TypeOK
  <2>3. TypeOK'
    BY <1>1, <1>2, <2>1, <2>2 DEF TypeOK
  <2> QED BY <1>1, <2>3, NothingMovesKeeps
<1>7. CASE NextHour
  BY <1>1, <1>2, <1>7, NothingMovesKeeps DEF NextHour, TypeOK
<1> QED BY <1>4, <1>5, <1>6, <1>7

\* Nobody speaks for five minutes only when nobody is generating.
LEMMA ClockKeeps ==
  ASSUME IInv, Cancel \/ GoQuiet
  PROVE  IInv'
<1>1. CASE Cancel
  BY <1>1, RunMovesKeeps DEF Cancel, IInv, TypeOK
<1>2. CASE GoQuiet
  <2>1. \A p \in Pass : ~Generating(p)
    BY <1>2 DEF GoQuiet, Generating, Posting, GeneratingAt, Idle
  <2> QED BY <1>2, <2>1, RunMovesKeeps DEF GoQuiet, IInv, TypeOK
<1> QED BY <1>1, <1>2

\* Every step keeps the invariant, but a resume that is not fresh.
LEMMA NextIInv == IInv /\ [Next]_vars /\ [ResumeIsFresh]_vars => IInv'
<1> SUFFICES ASSUME IInv, [Next]_vars, [ResumeIsFresh]_vars PROVE IInv'
  OBVIOUS
<1>1. CASE UNCHANGED vars
  BY <1>1, NothingMovesKeeps DEF vars, IInv, TypeOK
<1>2. ASSUME NEW p \in Pass, PassStep(p) PROVE IInv'
  BY <1>2, StartGenerationKeeps, NextItemKeeps, RateKeeps, CreateSegmentKeeps,
     AggregateKeeps, RecordItemKeeps, CountKeeps, FinaliseKeeps,
     StartPostingKeeps, ClaimPostingKeeps, PostOneKeeps, FinishPostingKeeps
     DEF PassStep
<1>3. CASE CommitResume
  <2>1. CASE run.status \in Resumable
    BY <1>3, <2>1, CommitResumeKeeps
  <2>2. CASE run.status \notin Resumable
    BY <1>1, <1>3, <2>2 DEF ResumeIsFresh
  <2> QED BY <2>1, <2>2
<1>4. ASSUME NEW p \in Pass, Crash(p) PROVE IInv'
  BY <1>4, CrashKeeps
<1>5. ASSUME NEW a \in Account, ReadArrives(a) PROVE IInv'
  BY <1>5, ReadArrivesKeeps
<1>6. CASE CheckResume \/ RequestPost \/ Boot \/ NextHour
  BY <1>6, RequestsKeep
<1>7. CASE Cancel \/ GoQuiet
  BY <1>7, ClockKeeps
<1> QED BY <1>1, <1>2, <1>3, <1>4, <1>5, <1>6, <1>7 DEF Next

-----------------------------------------------------------------------------
\* The runs in which every resume commits on the status its check read, and
\* the invariant of them, whatever crashes, boots and is redelivered.
FreshSpec == Spec /\ [][ResumeIsFresh]_vars

LEMMA FreshInvariance == FreshSpec => []IInv
BY InitIInv, NextIInv, PTL DEF FreshSpec, Spec

(***************************************************************************)
(* Where every resume is fresh of itself.                                  *)
(***************************************************************************)
\* No run is resumed, or no pass dies and requests to resume come one by one.
NothingDies == MaxCrashes = 0 /\ ResumesAtOnce <= 1
NothingResumes == MaxResumes = 0

\* Nothing to resume, ever.
NoResume == tally.resumes = 0 /\ tally.resuming = 0

\* One job generates the run: it waits while the run is PENDING, a pass has it
\* while the run is RUNNING, and a resume that will make the next one has
\* found the run at rest.
OneJob ==
  /\ tally.crashes = 0 /\ tally.boots = 0
  /\ tally.resuming <= 1
  /\ tally.resuming > 0 => run.status \in Resumable
  /\ queue["GENERATE"] <= 1
  /\ queue["GENERATE"] > 0 => run.status = "PENDING"

\* Requests run out and none is made.
LEMMA NoResumeStays ==
  /\ NothingResumes /\ Init => NoResume
  /\ TypeOK /\ NoResume /\ [Next]_vars => NoResume'
  /\ TypeOK /\ NoResume => ResumeIsFresh
<1>1. NothingResumes /\ Init => NoResume
  BY DEF NothingResumes, Init, NoResume
<1>2. TypeOK /\ NoResume => ~CommitResume /\ ~CheckResume
  BY DEF NoResume, CommitResume, CheckResume
<1>3. ASSUME TypeOK, NoResume, [Next]_vars PROVE NoResume'
  <2>1. ASSUME NEW p \in Pass, PassStep(p) PROVE tally' = tally
    BY <2>1 DEF PassStep, StartGeneration, NextItem, Rate, CreateSegment, Aggregate,
                RecordItem, Count, Finalise, StartPosting, ClaimPosting, PostOne,
                FinishPosting
  <2>2. ASSUME (\E p \in Pass : Crash(p)) \/ RequestPost \/ Boot PROVE NoResume'
    BY <1>3, <2>2 DEF Crash, RequestPost, Boot, NoResume, TypeOK
  <2>3. ASSUME Cancel \/ NextHour \/ GoQuiet \/ UNCHANGED vars
               \/ \E a \in Account : ReadArrives(a)
        PROVE  tally' = tally
    BY <2>3 DEF Cancel, NextHour, GoQuiet, vars, ReadArrives
  <2>4. tally' = tally => NoResume'
    BY <1>3 DEF NoResume
  <2> QED BY <1>2, <1>3, <2>1, <2>2, <2>3, <2>4 DEF Next
<1> QED BY <1>1, <1>2, <1>3 DEF ResumeIsFresh

\* Where nothing dies a run that has been runs has one job, or one pass.
LEMMA OneJobStays ==
  ASSUME NothingDies
  PROVE  /\ Init => OneJob
         /\ IInv /\ OneJob /\ [Next]_vars => OneJob'
         /\ OneJob => ResumeIsFresh
<1>1. Init => OneJob
  <2> SUFFICES ASSUME Init PROVE OneJob
    OBVIOUS
  <2>1. queue["GENERATE"] \in {0, 1}
    BY DEF Init, Kind
  <2> QED BY <2>1 DEF NothingDies, Init, OneJob
<1>2. ASSUME IInv, OneJob, [Next]_vars PROVE OneJob'
  <2>0. /\ TypeOK /\ "GENERATE" \in Kind /\ "POST" \in Kind
        /\ queue["GENERATE"] \in Nat /\ tally.resuming \in Nat
        /\ tally.resumes \in Nat
    BY <1>2 DEF IInv, TypeOK, Kind
  <2>1. ASSUME NEW p \in Pass, Generating(p)
        PROVE  queue["GENERATE"] = 0 /\ tally.resuming = 0
    BY <1>2, <2>0, <2>1 DEF IInv, Fit, Shows, OneJob, Resumable
  <2>2. ASSUME queue' = queue, tally' = tally, run'.status = run.status PROVE OneJob'
    BY <1>2, <2>2 DEF OneJob
  <2>3. ASSUME NEW p \in Pass,
               NextItem(p) \/ Rate(p) \/ CreateSegment(p) \/ Aggregate(p) \/ Count(p)
        PROVE  OneJob'
    BY <2>2, <2>3 DEF NextItem, Rate, CreateSegment, Aggregate, Count
  <2>4. ASSUME NEW p \in Pass,
               RecordItem(p) \/ ClaimPosting(p) \/ PostOne(p) \/ FinishPosting(p)
        PROVE  OneJob'
    <3>1. queue' = queue /\ tally' = tally
      BY <2>4 DEF RecordItem, ClaimPosting, PostOne, FinishPosting
    <3>2. run'.status = run.status
      BY <2>0, <2>4 DEF RecordItem, ClaimPosting, PostOne, FinishPosting, TypeOK
    <3> QED BY <2>2, <3>1, <3>2
  <2>5. ASSUME NEW p \in Pass, Finalise(p) PROVE OneJob'
    <3>1. queue' = queue /\ tally' = tally
      BY <2>5 DEF Finalise
    <3>2. queue["GENERATE"] = 0 /\ tally.resuming = 0
      BY <2>1, <2>5 DEF Finalise, Generating, GeneratingAt
    <3> QED BY <1>2, <3>1, <3>2 DEF OneJob
  <2>6. ASSUME NEW p \in Pass, StartGeneration(p) PROVE OneJob'
    <3>1. queue["GENERATE"] = 1 /\ queue'["GENERATE"] = 0 /\ tally' = tally
      BY <1>2, <2>0, <2>6 DEF StartGeneration, Take, OneJob, TypeOK
    <3>2. tally.resuming = 0
      BY <1>2, <2>0, <3>1 DEF OneJob, Resumable
    <3> QED BY <1>2, <3>1, <3>2 DEF OneJob
  <2>7. ASSUME NEW p \in Pass, StartPosting(p) PROVE OneJob'
    <3>1. queue'["GENERATE"] = queue["GENERATE"] /\ tally' = tally /\ run' = run
      BY <2>0, <2>7 DEF StartPosting, Take, TypeOK
    <3> QED BY <1>2, <3>1 DEF OneJob
  <2>8. ASSUME CheckResume PROVE OneJob'
    <3>1. /\ run.status \in Resumable /\ run' = run /\ queue' = queue
          /\ tally.resuming = 0 /\ tally'.resuming = 1
          /\ tally'.crashes = tally.crashes /\ tally'.boots = tally.boots
      BY <2>0, <2>8 DEF CheckResume, NothingDies, TypeOK
    <3> QED BY <1>2, <3>1 DEF OneJob
  <2>9. ASSUME CommitResume PROVE OneJob'
    <3>1. /\ tally.resuming = 1 /\ tally'.resuming = 0
          /\ tally'.crashes = tally.crashes /\ tally'.boots = tally.boots
          /\ run.status \in Resumable /\ run'.status = "PENDING"
      BY <1>2, <2>0, <2>9 DEF CommitResume, OneJob, TypeOK
    <3>2. queue["GENERATE"] = 0
      BY <1>2, <2>0, <3>1 DEF OneJob, Resumable
    <3>3. queue'["GENERATE"] \in {0, 1}
      BY <2>0, <2>9, <3>2 DEF CommitResume, Enqueue, TypeOK
    <3> QED BY <1>2, <3>1, <3>3 DEF OneJob
  <2>10. ASSUME RequestPost PROVE OneJob'
    <3>1. queue'["GENERATE"] = queue["GENERATE"] /\ run' = run
      BY <2>0, <2>10 DEF RequestPost, Enqueue, TypeOK
    <3>2. /\ tally'.resuming = tally.resuming /\ tally'.crashes = tally.crashes
          /\ tally'.boots = tally.boots
      BY <2>0, <2>10 DEF RequestPost, TypeOK
    <3> QED BY <1>2, <3>1, <3>2 DEF OneJob
  <2>11. ~Boot /\ \A p \in Pass : ~Crash(p)
    BY <1>2 DEF Boot, Crash, OneJob
  <2>12. ASSUME Cancel \/ NextHour \/ GoQuiet \/ UNCHANGED vars
                \/ \E a \in Account : ReadArrives(a)
         PROVE  OneJob'
    <3>1. queue' = queue /\ tally' = tally
      BY <2>12 DEF Cancel, NextHour, GoQuiet, vars, ReadArrives
    <3>2. run'.status = run.status
      BY <2>0, <2>12 DEF Cancel, NextHour, GoQuiet, vars, ReadArrives, TypeOK
    <3> QED BY <2>2, <3>1, <3>2
  <2> QED BY <1>2, <2>3, <2>4, <2>5, <2>6, <2>7, <2>8, <2>9, <2>10, <2>11, <2>12
          DEF Next, PassStep
<1>3. OneJob => ResumeIsFresh
  BY DEF OneJob, ResumeIsFresh, CommitResume
<1> QED BY <1>1, <1>2, <1>3

\* Where nothing is resumed no resume can come late.
LEMMA FreshWithoutResumes == NothingResumes => (Spec => FreshSpec)
<1> SUFFICES ASSUME NothingResumes PROVE Spec => FreshSpec
  OBVIOUS
<1>1. Init => NoResume
  BY NoResumeStays
<1>2. IInv /\ NoResume /\ [Next]_vars => NoResume' /\ IInv' /\ [ResumeIsFresh]_vars
  BY NoResumeStays, NextIInv DEF IInv
<1> QED BY <1>1, <1>2, InitIInv, PTL DEF Spec, FreshSpec

\* Nor where nothing dies and resumes come one by one.
LEMMA FreshWithoutCrashes == NothingDies => (Spec => FreshSpec)
<1> SUFFICES ASSUME NothingDies PROVE Spec => FreshSpec
  OBVIOUS
<1>1. Init => OneJob
  BY OneJobStays
<1>2. IInv /\ OneJob /\ [Next]_vars => OneJob' /\ IInv' /\ [ResumeIsFresh]_vars
  <2>1. IInv /\ OneJob /\ [Next]_vars => OneJob' /\ [ResumeIsFresh]_vars
    BY OneJobStays
  <2> QED BY <2>1, NextIInv
<1> QED BY <1>1, <1>2, InitIInv, PTL DEF Spec, FreshSpec

\* The runs the promises are made of: one that is never resumed, however its
\* passes die and its jobs come again; and one whose passes live, resumed as
\* often as anyone likes, if the requests come one by one.
Calm == NothingDies \/ NothingResumes

\* The invariant holds of calm runs.
THEOREM RunInvariance == Calm => (Spec => []IInv)
<1>1. Calm => (Spec => FreshSpec)
  BY FreshWithoutResumes, FreshWithoutCrashes DEF Calm
<1> QED BY <1>1, FreshInvariance

\* Two passes never generate a calm run at once (claimForGeneration): none
\* bills another's accounts.
THEOREM GenerationIsAlone == Calm => (Spec => []OneGenerationPass)
<1>1. IInv => OneGenerationPass
  BY DEF IInv
<1>2. SUFFICES ASSUME Calm PROVE Spec => []OneGenerationPass
  OBVIOUS
<1>3. Spec => []IInv
  BY <1>2, RunInvariance
<1> QED BY <1>1, <1>3, PTL

\* A calm run rates a period once for an account, through resumes or dying
\* passes (createBillSegmentForServiceAgreement).
THEOREM PeriodsRatedOnce == Calm => (Spec => []RatedOnce)
<1>1. IInv => RatedOnce
  BY DEF IInv, Rated, RatedOnce
<1>2. SUFFICES ASSUME Calm PROVE Spec => []RatedOnce
  OBVIOUS
<1>3. Spec => []IInv
  BY <1>2, RunInvariance
<1> QED BY <1>1, <1>3, PTL

\* The status finalise writes on a calm run is what its items add up to,
\* although the items are counted in an earlier statement.
THEOREM StatusIsTrue == Calm => (Spec => []StatusTellsItems)
<1>1. IInv => StatusTellsItems
  BY DEF IInv, Tells, StatusTellsItems
<1>2. SUFFICES ASSUME Calm PROVE Spec => []StatusTellsItems
  OBVIOUS
<1>3. Spec => []IInv
  BY <1>2, RunInvariance
<1> QED BY <1>1, <1>3, PTL

\* In a calm run an item is BILLED only with a bill, and only such bills are
\* posted.
THEOREM BilledHaveBills == Calm => (Spec => []BilledItemHasBill)
<1>1. IInv => BilledItemHasBill
  BY DEF IInv
<1>2. SUFFICES ASSUME Calm PROVE Spec => []BilledItemHasBill
  OBVIOUS
<1>3. Spec => []IInv
  BY <1>2, RunInvariance
<1> QED BY <1>1, <1>3, PTL

-----------------------------------------------------------------------------
(***************************************************************************)
(* What holds of every run, stale resumes and all.                         *)
(***************************************************************************)
\* What a pass has in hand exists, and what it will post has a bill.
Holds(p) ==
  /\ pass[p].at \in OnAccount => pass[p].on \in Account
  /\ pass[p].at = "RECORD" => /\ pass[p].outcome \in ItemStatus
                              /\ pass[p].outcome = "BILLED" => bill[pass[p].on] # "NONE"
  /\ pass[p].at = "FINALISE" => pass[p].outcome \in RunStatus
  /\ Posting(p) => \A a \in pass[p].todo : bill[a] # "NONE"

\* An item says BILLED only of an account with a bill.
BilledIsBilled == \A a \in Account : item[a] = "BILLED" => bill[a] # "NONE"

HInv == TypeOK /\ BilledIsBilled /\ \A p \in Pass : Holds(p)

\* Bills are kept.
BillsStay == \A a \in Account : bill[a] # "NONE" => bill'[a] # "NONE"

\* A step of one pass, or of none, where bills are kept.
LEMMA OthersHold ==
  ASSUME HInv, BillsStay, NEW q \in Pass, pass'[q] = pass[q]
  PROVE  Holds(q)'
<1>1. pass[q].todo \in SUBSET Account /\ Holds(q)
  BY Passes DEF HInv, PassState
<1> QED BY <1>1 DEF Holds, BillsStay, Posting, OnAccount

\* A step that moves a generating pass and touches nothing else.
LEMMA MoveHolds ==
  ASSUME HInv, NEW p \in Pass, NEW s \in PassState, pass' = [pass EXCEPT ![p] = s],
         UNCHANGED <<run, item, read, loose, bill, queue, swept, tally>>, Holds(p)'
  PROVE  HInv'
<1>1. TypeOK' /\ BilledIsBilled' /\ BillsStay
  BY DEF HInv, TypeOK, BilledIsBilled, BillsStay
<1>2. \A q \in Pass : q # p => pass'[q] = pass[q]
  BY Passes DEF HInv
<1> QED BY <1>1, <1>2, OthersHold DEF HInv

\* A pass moves on.
LEMMA WalksHold ==
  ASSUME HInv, NEW p \in Pass, NextItem(p) \/ Rate(p) \/ Count(p)
  PROVE  HInv'
<1>1. pass[p] \in PassState /\ DOMAIN pass = Pass /\ pass[p].at \in GeneratingAt
  BY Passes DEF HInv, NextItem, Rate, Count, GeneratingAt
<1>2. ASSUME NEW s \in PassState, pass' = [pass EXCEPT ![p] = s],
             UNCHANGED <<run, item, read, loose, bill, queue, swept, tally>>,
             s.at \in GeneratingAt, s.at \in OnAccount => s.on \in Account,
             s.at = "RECORD" => s.outcome \in {"SKIPPED", "FAILED"},
             s.at = "FINALISE" => s.outcome \in RunStatus
      PROVE  HInv'
  <2>1. pass'[p] = s
    BY <1>1, <1>2
  <2>2. Holds(p)'
    BY <1>2, <2>1 DEF Holds, Posting, GeneratingAt, ItemStatus
  <2> QED BY <1>2, <2>2, MoveHolds
<1>3. CASE NextItem(p)
  <2>1. CASE pass' = [pass EXCEPT ![p].at = "COUNT"]
    <3> DEFINE s == [pass[p] EXCEPT !.at = "COUNT"]
    <3>1. pass' = [pass EXCEPT ![p] = s] /\ s \in PassState /\ s.at = "COUNT"
      BY <1>1, <2>1 DEF PassState, GeneratingAt
    <3> HIDE DEF s
    <3> QED BY <1>2, <1>3, <3>1 DEF NextItem, GeneratingAt, OnAccount
  <2>2. CASE pass' = [pass EXCEPT ![p].at = "COUNT", ![p].outcome = "CANCELLED"]
    <3> DEFINE s == [pass[p] EXCEPT !.at = "COUNT", !.outcome = "CANCELLED"]
    <3>1. pass' = [pass EXCEPT ![p] = s] /\ s \in PassState /\ s.at = "COUNT"
      BY <1>1, <2>2 DEF PassState, GeneratingAt, RunStatus, Terminal
    <3> HIDE DEF s
    <3> QED BY <1>2, <1>3, <3>1 DEF NextItem, GeneratingAt, OnAccount
  <2>3. ASSUME NEW a \in pass[p].todo, NEW at \in {"RATE", "RECORD"},
               NEW outcome \in {"NONE", "SKIPPED", "FAILED"},
               at = "RECORD" => outcome \in {"SKIPPED", "FAILED"},
               pass' = [pass EXCEPT ![p].todo = @ \ {a}, ![p].on = a,
                                    ![p].at = at, ![p].outcome = outcome]
        PROVE  HInv'
    <3> DEFINE s == [pass[p] EXCEPT !.todo = @ \ {a}, !.on = a, !.at = at,
                                    !.outcome = outcome]
    <3>1. pass' = [pass EXCEPT ![p] = s] /\ s \in PassState /\ s.at = at
          /\ s.outcome = outcome /\ s.on = a /\ a \in Account
      BY <1>1, <2>3 DEF PassState, GeneratingAt, ItemStatus
    <3> HIDE DEF s
    <3> QED BY <1>2, <1>3, <2>3, <3>1 DEF NextItem, GeneratingAt
  <2> QED BY <1>3, <2>1, <2>2, <2>3 DEF NextItem
<1>4. CASE Rate(p)
  <2>0. pass[p].on \in Account
    BY <1>4 DEF Rate, HInv, Holds, OnAccount
  <2>1. ASSUME NEW at \in {"SEGMENT", "AGGREGATE"}, pass' = [pass EXCEPT ![p].at = at]
        PROVE  HInv'
    <3> DEFINE s == [pass[p] EXCEPT !.at = at]
    <3>1. pass' = [pass EXCEPT ![p] = s] /\ s \in PassState /\ s.at = at
          /\ s.on = pass[p].on
      BY <1>1, <2>1 DEF PassState, GeneratingAt
    <3> HIDE DEF s
    <3> QED BY <1>2, <1>4, <2>0, <3>1 DEF Rate, GeneratingAt
  <2>2. ASSUME NEW outcome \in {"FAILED", "SKIPPED"},
               pass' = [pass EXCEPT ![p].at = "RECORD", ![p].outcome = outcome]
        PROVE  HInv'
    <3> DEFINE s == [pass[p] EXCEPT !.at = "RECORD", !.outcome = outcome]
    <3>1. pass' = [pass EXCEPT ![p] = s] /\ s \in PassState /\ s.at = "RECORD"
          /\ s.on = pass[p].on /\ s.outcome = outcome
      BY <1>1, <2>2 DEF PassState, GeneratingAt, ItemStatus
    <3> HIDE DEF s
    <3> QED BY <1>2, <1>4, <2>0, <3>1 DEF Rate, GeneratingAt
  <2> QED BY <1>4, <2>1, <2>2 DEF Rate
<1>5. CASE Count(p)
  <2>1. PICK final \in RunStatus :
          pass' = [pass EXCEPT ![p].at = "FINALISE", ![p].todo = {},
                               ![p].outcome = final]
    <3>1. FinalStatus \in RunStatus /\ "CANCELLED" \in RunStatus
      BY DEF FinalStatus, RunStatus, Terminal
    <3>2. pass' = [pass EXCEPT ![p].at = "FINALISE", ![p].todo = {},
                     ![p].outcome = IF pass[p].outcome = "CANCELLED" THEN "CANCELLED"
                                    ELSE FinalStatus]
      BY <1>1, <1>5 DEF Count
    <3> QED BY <3>1, <3>2
  <2> DEFINE s == [pass[p] EXCEPT !.at = "FINALISE", !.todo = {}, !.outcome = final]
  <2>2. pass' = [pass EXCEPT ![p] = s] /\ s \in PassState /\ s.at = "FINALISE"
        /\ s.outcome = final
    BY <1>1, <2>1 DEF PassState, GeneratingAt
  <2> HIDE DEF s
  <2> QED BY <1>2, <1>5, <2>1, <2>2 DEF Count, GeneratingAt, OnAccount
<1> QED BY <1>3, <1>4, <1>5

\* A pass writes: a segment, a bill, an item, or the status.
LEMMA WritesHold ==
  ASSUME HInv, NEW p \in Pass,
         CreateSegment(p) \/ Aggregate(p) \/ RecordItem(p) \/ Finalise(p)
  PROVE  HInv'
<1>1. pass[p] \in PassState /\ DOMAIN pass = Pass /\ TypeOK
  BY Passes DEF HInv
<1>2. \A q \in Pass : q # p => pass'[q] = pass[q]
  BY <1>1 DEF CreateSegment, Aggregate, RecordItem, Finalise
<1>3. ASSUME TypeOK', BilledIsBilled', BillsStay, Holds(p)' PROVE HInv'
  BY <1>2, <1>3, OthersHold DEF HInv
<1>4. CASE CreateSegment(p)
  <2>1. pass[p].on \in Account
    BY <1>4 DEF CreateSegment, HInv, Holds, OnAccount
  <2>2. pass' \in [Pass -> PassState] /\ pass'[p].at = "AGGREGATE"
        /\ pass'[p].on = pass[p].on
    BY <1>1, <1>4 DEF CreateSegment, TypeOK, PassState, GeneratingAt
  <2>3. read' \in [Account -> {"NONE", "UNBILLED", "BILLED"}]
        /\ loose' \in [Account -> Nat]
    BY <1>1, <1>4, <2>1 DEF CreateSegment, TypeOK
  <2>4. TypeOK'
    BY <1>1, <1>4, <2>2, <2>3 DEF CreateSegment, TypeOK
  <2>5. BilledIsBilled' /\ BillsStay
    BY <1>4 DEF CreateSegment, HInv, BilledIsBilled, BillsStay
  <2> QED BY <1>3, <2>1, <2>2, <2>4, <2>5 DEF Holds, OnAccount, Posting
<1>5. CASE Aggregate(p)
  <2>1. pass[p].on \in Account
    BY <1>5 DEF Aggregate, HInv, Holds, OnAccount
  <2>2. PICK outcome \in {"SKIPPED", "BILLED", "FAILED"} :
          /\ pass' = [pass EXCEPT ![p].at = "RECORD", ![p].outcome = outcome]
          /\ bill' \in {bill, [bill EXCEPT ![pass[p].on] = "DRAFT"]}
          /\ loose' \in {loose, [loose EXCEPT ![pass[p].on] = 0]}
          /\ outcome = "BILLED" => bill' = [bill EXCEPT ![pass[p].on] = "DRAFT"]
    BY <1>5 DEF Aggregate
  <2> DEFINE s == [pass[p] EXCEPT !.at = "RECORD", !.outcome = outcome]
  <2>3. pass' = [pass EXCEPT ![p] = s]
    BY <1>1, <2>2
  <2>4. s \in PassState /\ s.at = "RECORD" /\ s.outcome = outcome /\ s.on = pass[p].on
    BY <1>1 DEF PassState, GeneratingAt, ItemStatus
  <2> HIDE DEF s
  <2>5. pass' \in [Pass -> PassState] /\ pass'[p] = s
    BY <1>1, <2>3, <2>4 DEF TypeOK
  <2>6. bill' \in [Account -> {"NONE", "DRAFT", "POSTED"}] /\ loose' \in [Account -> Nat]
    BY <1>1, <2>1, <2>2 DEF TypeOK
  <2>7. BillsStay
    BY <1>1, <2>2 DEF BillsStay, TypeOK
  <2>8. TypeOK'
    BY <1>1, <1>5, <2>5, <2>6 DEF Aggregate, TypeOK
  <2>9. BilledIsBilled'
    BY <1>5, <2>7 DEF Aggregate, HInv, BilledIsBilled, BillsStay
  <2>10. Holds(p)'
    <3>1. outcome = "BILLED" => bill'[pass[p].on] # "NONE"
      BY <1>1, <2>1, <2>2 DEF TypeOK
    <3> QED BY <2>1, <2>2, <2>4, <2>5, <3>1 DEF Holds, OnAccount, Posting, ItemStatus
  <2> QED BY <1>3, <2>7, <2>8, <2>9, <2>10
<1>6. CASE RecordItem(p)
  <2>1. pass[p].on \in Account /\ pass[p].outcome \in ItemStatus
        /\ (pass[p].outcome = "BILLED" => bill[pass[p].on] # "NONE")
    BY <1>6 DEF RecordItem, HInv, Holds, OnAccount
  <2>2. PICK outcome \in {pass[p].outcome, "FAILED"} :
          item' = [item EXCEPT ![pass[p].on] = outcome]
    BY <1>6 DEF RecordItem
  <2>3. item' \in [Account -> ItemStatus] /\ BilledIsBilled'
    BY <1>1, <1>6, <2>1, <2>2 DEF RecordItem, HInv, BilledIsBilled, TypeOK, ItemStatus
  <2>4. pass' \in [Pass -> PassState] /\ pass'[p].at = "NEXT"
    BY <1>1, <1>6 DEF RecordItem, TypeOK, PassState, GeneratingAt
  <2>5. run' \in [status : RunStatus, cancelRequested : BOOLEAN,
                  postingStarted : BOOLEAN, posted : BOOLEAN, quiet : BOOLEAN]
    BY <1>1, <1>6 DEF RecordItem, TypeOK
  <2>6. TypeOK'
    BY <1>1, <1>6, <2>3, <2>4, <2>5 DEF RecordItem, TypeOK
  <2>7. BillsStay
    BY <1>6 DEF RecordItem, BillsStay
  <2> QED BY <1>3, <2>3, <2>4, <2>6, <2>7 DEF Holds, OnAccount, Posting
<1>7. CASE Finalise(p)
  <2>1. pass[p].outcome \in RunStatus
    BY <1>7 DEF Finalise, HInv, Holds
  <2>2. pass' \in [Pass -> PassState] /\ pass'[p] = Idle
    BY <1>1, <1>7 DEF Finalise, TypeOK, PassState, Idle
  <2>3. run' \in [status : RunStatus, cancelRequested : BOOLEAN,
                  postingStarted : BOOLEAN, posted : BOOLEAN, quiet : BOOLEAN]
    BY <1>1, <1>7, <2>1 DEF Finalise, TypeOK
  <2>4. TypeOK'
    BY <1>1, <1>7, <2>2, <2>3 DEF Finalise, TypeOK
  <2>5. BilledIsBilled' /\ BillsStay
    BY <1>7 DEF Finalise, HInv, BilledIsBilled, BillsStay
  <2> QED BY <1>3, <2>2, <2>4, <2>5 DEF Holds, OnAccount, Posting, Idle
<1> QED BY <1>4, <1>5, <1>6, <1>7

\* A job is taken, and the run claimed or left.
LEMMA JobsHold ==
  ASSUME HInv, NEW p \in Pass,
         StartGeneration(p) \/ StartPosting(p) \/ ClaimPosting(p)
  PROVE  HInv'
<1>1. pass[p] \in PassState /\ DOMAIN pass = Pass /\ TypeOK
  BY Passes DEF HInv
<1>2. BilledIsBilled' /\ BillsStay
  BY DEF StartGeneration, StartPosting, ClaimPosting, HInv, BilledIsBilled, BillsStay
<1>3. queue' \in [Kind -> Nat]
  BY <1>1, TakeType DEF StartGeneration, StartPosting, ClaimPosting, TypeOK, Kind
<1>4. run' \in [status : RunStatus, cancelRequested : BOOLEAN,
                postingStarted : BOOLEAN, posted : BOOLEAN, quiet : BOOLEAN]
  BY <1>1 DEF StartGeneration, StartPosting, ClaimPosting, TypeOK, RunStatus
<1>5. PICK s \in PassState :
        /\ pass' = [pass EXCEPT ![p] = s]
        /\ \/ s = pass[p]
           \/ s.at \in {"NEXT", "CLAIM", "IDLE"}
           \/ s.at = "POST" /\ s.todo = Items("BILLED")
  <2>1. CASE UNCHANGED pass
    <3>1. pass' = [pass EXCEPT ![p] = pass[p]]
      BY <1>1, <2>1 DEF TypeOK
    <3> QED BY <1>1, <3>1
  <2>2. CASE pass' = [pass EXCEPT ![p] = Idle]
    <3>1. Idle \in PassState /\ Idle.at = "IDLE"
      BY DEF Idle, PassState
    <3> QED BY <2>2, <3>1
  <2>3. CASE pass' = [pass EXCEPT ![p].at = "CLAIM"]
    <3> DEFINE s == [pass[p] EXCEPT !.at = "CLAIM"]
    <3>1. pass' = [pass EXCEPT ![p] = s]
      BY <1>1, <2>3
    <3>2. s \in PassState /\ s.at = "CLAIM"
      BY <1>1 DEF PassState, PostingAt
    <3> HIDE DEF s
    <3> QED BY <3>1, <3>2
  <2>4. ASSUME NEW at \in {"NEXT", "POST"}, NEW status \in ItemStatus,
               at = "POST" => status = "BILLED",
               pass' = [pass EXCEPT ![p].at = at, ![p].todo = Items(status)]
        PROVE  \E s \in PassState :
                 /\ pass' = [pass EXCEPT ![p] = s]
                 /\ \/ s.at \in {"NEXT", "CLAIM", "IDLE"}
                    \/ s.at = "POST" /\ s.todo = Items("BILLED")
    <3> DEFINE s == [pass[p] EXCEPT !.at = at, !.todo = Items(status)]
    <3>1. pass' = [pass EXCEPT ![p] = s]
      BY <1>1, <2>4
    <3>2. Items(status) \in SUBSET Account
      BY DEF Items
    <3>3. s \in PassState /\ s.at = at /\ s.todo = Items(status)
      BY <1>1, <3>2 DEF PassState, PostingAt, GeneratingAt
    <3> HIDE DEF s
    <3> QED BY <2>4, <3>1, <3>3
  <2> QED BY <2>1, <2>2, <2>3, <2>4
          DEF StartGeneration, StartPosting, ClaimPosting, ItemStatus
<1>6. pass'[p] = s /\ pass' \in [Pass -> PassState]
      /\ \A q \in Pass : q # p => pass'[q] = pass[q]
  BY <1>1, <1>5 DEF TypeOK
<1>7. TypeOK'
  BY <1>1, <1>3, <1>4, <1>6 DEF StartGeneration, StartPosting, ClaimPosting, TypeOK
<1>8. Holds(p)'
  <2>1. CASE s = pass[p]
    BY <1>2, <1>6, <2>1, OthersHold
  <2>2. CASE s.at \in {"NEXT", "CLAIM", "IDLE"}
    BY <1>6, <2>2 DEF Holds, OnAccount, Posting
  <2>3. CASE s.at = "POST" /\ s.todo = Items("BILLED")
    <3>1. \A a \in Items("BILLED") : bill'[a] # "NONE"
      BY <1>2 DEF HInv, BilledIsBilled, Items, BillsStay
    <3> QED BY <1>6, <2>3, <3>1 DEF Holds, OnAccount, Posting
  <2> QED BY <1>5, <2>1, <2>2, <2>3
<1> QED BY <1>2, <1>6, <1>7, <1>8, OthersHold DEF HInv

\* A posting pass posts what has a bill, and ends.
LEMMA PostsHold ==
  ASSUME HInv, NEW p \in Pass, PostOne(p) \/ FinishPosting(p)
  PROVE  HInv'
<1>1. /\ pass[p] \in PassState /\ DOMAIN pass = Pass /\ TypeOK
      /\ pass[p].at = "POST" /\ pass[p].todo \in SUBSET Account
      /\ \A a \in pass[p].todo : bill[a] # "NONE"
  BY Passes DEF HInv, PostOne, FinishPosting, Posting, Holds, PassState
<1>2. /\ \A q \in Pass : q # p => pass'[q] = pass[q]
      /\ run' \in [status : RunStatus, cancelRequested : BOOLEAN,
                   postingStarted : BOOLEAN, posted : BOOLEAN, quiet : BOOLEAN]
      /\ UNCHANGED <<item, read, loose, queue, swept, tally>>
  <2>1. CASE PostOne(p)
    <3>1. run' = run \/ run' = [run EXCEPT !.quiet = FALSE]
      BY <2>1 DEF PostOne
    <3> QED BY <1>1, <2>1, <3>1 DEF PostOne, TypeOK
  <2>2. CASE FinishPosting(p)
    BY <1>1, <2>2 DEF FinishPosting, TypeOK
  <2> QED BY <2>1, <2>2
<1>3. /\ BillsStay /\ bill' \in [Account -> {"NONE", "DRAFT", "POSTED"}]
      /\ pass' \in [Pass -> PassState]
      /\ \/ pass'[p].at = "IDLE"
         \/ pass'[p].at = "POST" /\ pass'[p].todo \subseteq pass[p].todo
  <2>1. CASE PostOne(p)
    <3>1. PICK a \in pass[p].todo :
            /\ pass' = [pass EXCEPT ![p].todo = @ \ {a}]
            /\ bill' = bill \/ bill' = [bill EXCEPT ![a] = "POSTED"]
      BY <2>1 DEF PostOne
    <3>2. a \in Account
      BY <1>1
    <3>3. BillsStay /\ bill' \in [Account -> {"NONE", "DRAFT", "POSTED"}]
      BY <1>1, <3>1, <3>2 DEF BillsStay, TypeOK
    <3> DEFINE s == [pass[p] EXCEPT !.todo = @ \ {a}]
    <3>4. pass' = [pass EXCEPT ![p] = s]
      BY <1>1, <3>1
    <3>5. s \in PassState /\ s.at = "POST" /\ s.todo \subseteq pass[p].todo
      BY <1>1 DEF PassState
    <3> HIDE DEF s
    <3> QED BY <1>1, <3>3, <3>4, <3>5 DEF TypeOK
  <2>2. CASE FinishPosting(p)
    BY <1>1, <2>2 DEF FinishPosting, TypeOK, PassState, Idle, BillsStay
  <2> QED BY <2>1, <2>2
<1>4. TypeOK'
  BY <1>1, <1>2, <1>3 DEF TypeOK
<1>5. BilledIsBilled'
  BY <1>2, <1>3 DEF HInv, BilledIsBilled, BillsStay
<1>6. Holds(p)'
  <2>1. \A a \in pass[p].todo : bill'[a] # "NONE"
    BY <1>1, <1>3 DEF BillsStay
  <2> QED BY <1>3, <2>1 DEF Holds, OnAccount, Posting
<1> QED BY <1>2, <1>3, <1>4, <1>5, <1>6, OthersHold DEF HInv

\* Everybody else: they write the run, its items, its jobs and its reads.
LEMMA RestHolds ==
  ASSUME HInv, UNCHANGED bill, TypeOK',
         \A a \in Account : item'[a] = "BILLED" => item[a] = "BILLED",
         \A p \in Pass : pass'[p] \in {pass[p], Idle}
  PROVE  HInv'
<1>1. BilledIsBilled' /\ BillsStay
  BY DEF HInv, BilledIsBilled, BillsStay
<1>2. ASSUME NEW p \in Pass PROVE Holds(p)'
  <2>1. CASE pass'[p] = pass[p]
    BY <1>1, <2>1, OthersHold
  <2>2. CASE pass'[p] = Idle
    BY <2>2 DEF Holds, OnAccount, Posting, Idle
  <2> QED BY <2>1, <2>2
<1> QED BY <1>1, <1>2 DEF HInv

LEMMA NextHolds == HInv /\ [Next]_vars => HInv'
<1> SUFFICES ASSUME HInv, [Next]_vars PROVE HInv'
  OBVIOUS
<1>0. /\ TypeOK
      /\ \A k \in Kind : queue[k] \in Nat /\ queue[k] + 1 \in Nat
      /\ "GENERATE" \in Kind /\ "POST" \in Kind
  BY DEF HInv, TypeOK, Kind
<1>1. ASSUME NEW p \in Pass, PassStep(p) PROVE HInv'
  BY <1>1, WalksHold, WritesHold, JobsHold, PostsHold DEF PassStep
<1>2. ASSUME NEW p \in Pass, Crash(p) PROVE HInv'
  <2>1. /\ \A q \in Pass : pass'[q] \in {pass[q], Idle}
        /\ pass' \in [Pass -> PassState]
    BY <1>0, <1>2, Passes DEF Crash, TypeOK, PassState, Idle
  <2>2. queue' \in [Kind -> Nat]
    <3>1. PICK k \in Kind : queue' \in {queue, [queue EXCEPT ![k] = @ + 1]}
      BY <1>2 DEF Crash, Kind
    <3> QED BY <1>0, <3>1 DEF TypeOK
  <2>3. tally' \in [resuming : Nat, resumes : Nat, posts : Nat, crashes : Nat,
                    boots : Nat]
    <3>1. tally.crashes - 1 \in Nat /\ tally.boots + 1 \in Nat
      BY <1>0, <1>2 DEF Crash, TypeOK
    <3> QED BY <1>0, <1>2, <3>1 DEF Crash, TypeOK
  <2>4. TypeOK'
    BY <1>0, <1>2, <2>1, <2>2, <2>3 DEF Crash, TypeOK
  <2> QED BY <1>2, <2>1, <2>4, RestHolds DEF Crash
<1>3. CASE CommitResume
  <2>1. item' \in [Account -> ItemStatus]
        /\ \A a \in Account : item'[a] = "BILLED" => item[a] = "BILLED"
    BY <1>0, <1>3 DEF CommitResume, TypeOK, ItemStatus
  <2>2. queue' \in [Kind -> Nat]
    BY <1>0, <1>3 DEF CommitResume, Enqueue, TypeOK
  <2>3. tally' \in [resuming : Nat, resumes : Nat, posts : Nat, crashes : Nat,
                    boots : Nat]
    <3>1. tally.resuming - 1 \in Nat
      BY <1>0, <1>3 DEF CommitResume, TypeOK
    <3> QED BY <1>0, <1>3, <3>1 DEF CommitResume, TypeOK
  <2>4. run' \in [status : RunStatus, cancelRequested : BOOLEAN,
                  postingStarted : BOOLEAN, posted : BOOLEAN, quiet : BOOLEAN]
    BY <1>0, <1>3 DEF CommitResume, TypeOK, RunStatus
  <2>5. TypeOK'
    BY <1>0, <1>3, <2>1, <2>2, <2>3, <2>4 DEF CommitResume, TypeOK
  <2> QED BY <1>3, <2>1, <2>5, RestHolds DEF CommitResume
<1>4. CASE CheckResume \/ RequestPost
  <2>1. queue' \in [Kind -> Nat]
    BY <1>0, <1>4 DEF CheckResume, RequestPost, Enqueue, TypeOK
  <2>2. tally' \in [resuming : Nat, resumes : Nat, posts : Nat, crashes : Nat,
                    boots : Nat]
    <3>1. CASE CheckResume
      <4>1. tally.resuming + 1 \in Nat /\ tally.resumes - 1 \in Nat
        BY <1>0, <3>1 DEF CheckResume, TypeOK
      <4> QED BY <1>0, <3>1, <4>1 DEF CheckResume, TypeOK
    <3>2. CASE RequestPost
      <4>1. tally.posts - 1 \in Nat
        BY <1>0, <3>2 DEF RequestPost, TypeOK
      <4> QED BY <1>0, <3>2, <4>1 DEF RequestPost, TypeOK
    <3> QED BY <1>4, <3>1, <3>2
  <2>3. TypeOK'
    BY <1>0, <1>4, <2>1, <2>2 DEF CheckResume, RequestPost, TypeOK
  <2> QED BY <1>4, <2>3, RestHolds DEF CheckResume, RequestPost
<1>5. CASE Boot
  <2>1. queue' \in [Kind -> Nat] /\ swept' \subseteq Kind
    BY <1>0, <1>5 DEF Boot, Zombie, TypeOK
  <2>2. tally' \in [resuming : Nat, resumes : Nat, posts : Nat, crashes : Nat,
                    boots : Nat]
    <3>1. tally.boots - 1 \in Nat
      BY <1>0, <1>5 DEF Boot, TypeOK
    <3> QED BY <1>0, <1>5, <3>1 DEF Boot, TypeOK
  <2>3. TypeOK'
    BY <1>0, <1>5, <2>1, <2>2 DEF Boot, TypeOK
  <2> QED BY <1>5, <2>3, RestHolds DEF Boot
<1>6. CASE Cancel \/ GoQuiet
  <2>1. TypeOK'
    BY <1>0, <1>6 DEF Cancel, GoQuiet, TypeOK
  <2> QED BY <1>6, <2>1, RestHolds DEF Cancel, GoQuiet
<1>7. CASE NextHour \/ (\E a \in Account : ReadArrives(a)) \/ UNCHANGED vars
  <2>1. TypeOK'
    BY <1>0, <1>7 DEF NextHour, ReadArrives, vars, TypeOK
  <2> QED BY <1>7, <2>1, RestHolds DEF NextHour, ReadArrives, vars
<1> QED BY <1>1, <1>2, <1>3, <1>4, <1>5, <1>6, <1>7 DEF Next

\* Whatever is resumed, crashes or overlaps, no item says BILLED of an account
\* that has no bill: processBillingRun writes it only after aggregation.
THEOREM EveryBilledItemHasBill == Spec => [](TypeOK /\ BilledIsBilled)
<1>1. Init => HInv
  <2> SUFFICES ASSUME Init PROVE HInv
    OBVIOUS
  <2>1. TypeOK
    BY InitIInv DEF IInv
  <2> QED BY <2>1 DEF HInv, Init, BilledIsBilled, Holds, Idle, OnAccount, Posting
<1>2. HInv => TypeOK /\ BilledIsBilled
  BY DEF HInv
<1> QED BY <1>1, <1>2, NextHolds, PTL DEF Spec

-----------------------------------------------------------------------------
(***************************************************************************)
(* The dispatcher that starts the runs, for every calendar, bill day, run  *)
(* hour, zone and number of faults.  First what its calendar needs of      *)
(* division.                                                               *)
(***************************************************************************)
\* Quotient and rest, as the provers have to be told of them.
LEMMA DivIs ==
  ASSUME NEW x \in Int, NEW d \in Nat \ {0}
  PROVE  /\ x \div d \in Int /\ x % d \in 0..(d - 1)
         /\ x = d * (x \div d) + (x % d)
OBVIOUS

LEMMA TimesMono ==
  ASSUME NEW a \in Int, NEW b \in Int, NEW c \in Nat, a <= b
  PROVE  a * c <= b * c
<1>1. PICK k \in Nat : b = a + k
  <2>1. b - a \in Nat /\ b = a + (b - a)
    OBVIOUS
  <2> QED BY <2>1
<1>2. k * c \in Nat /\ b * c = a * c + k * c
  BY <1>1
<1> QED BY <1>2

\* A quotient reaches k when the number reaches k times the divisor.
LEMMA DivGe ==
  ASSUME NEW x \in Int, NEW d \in Nat \ {0}, NEW k \in Int
  PROVE  x \div d >= k <=> x >= k * d
<1>1. PICK q \in Int, r \in 0..(d - 1) : q = x \div d /\ x = q * d + r
  BY DivIs
<1>2. CASE q >= k
  <2>1. k * d <= q * d
    BY <1>2, TimesMono
  <2> QED BY <1>1, <1>2, <2>1
<1>3. CASE q < k
  <2>1. (q + 1) * d <= k * d
    BY <1>3, TimesMono
  <2>2. (q + 1) * d = q * d + d
    OBVIOUS
  <2> QED BY <1>1, <1>3, <2>1, <2>2
<1> QED BY <1>2, <1>3

LEMMA ModIs ==
  ASSUME NEW q \in Int, NEW d \in Nat \ {0}, NEW r \in 0..(d - 1)
  PROVE  (q * d + r) % d = r
<1>1. PICK x \in Int : x = q * d + r
  OBVIOUS
<1>2. PICK p \in Int, s \in 0..(d - 1) : p = x \div d /\ s = x % d /\ x = p * d + s
  BY DivIs
<1>3. p = q
  <2>1. ~(p < q)
    <3>1. SUFFICES ASSUME p < q PROVE FALSE
      OBVIOUS
    <3>2. (p + 1) * d <= q * d /\ (p + 1) * d = p * d + d
      BY <3>1, TimesMono
    <3> QED BY <1>1, <1>2, <3>2
  <2>2. ~(q < p)
    <3>1. SUFFICES ASSUME q < p PROVE FALSE
      OBVIOUS
    <3>2. (q + 1) * d <= p * d /\ (q + 1) * d = q * d + d
      BY <3>1, TimesMono
    <3> QED BY <1>1, <1>2, <3>2
  <2> QED BY <2>1, <2>2
<1> QED BY <1>1, <1>2, <1>3

(***************************************************************************)
(* The calendar.  Month m begins when the days before it have passed.      *)
(***************************************************************************)
Months == Len(MonthDays)
Starts(m) == MonthStart(m)

LEMMA CalendarIs ==
  ASSUME CalendarTypes
  PROVE  /\ Months \in Nat \ {0} /\ Month = 1..Months
         /\ Window = 0..Months
         /\ DayHours \in Nat \ {0} /\ Retention \in Nat /\ BillDay \in Nat /\ BillDay >= 2
         /\ RunHour \in 0..(DayHours - 1) /\ MaxFaults \in Nat
         /\ \A m \in 1..Months : MonthDays[m] \in Nat /\ MonthDays[m] >= 2
<1>1. MonthDays \in Seq(Nat \ {0, 1}) /\ MonthDays # <<>>
  BY DEF CalendarTypes
<1>2. Months \in Nat \ {0} /\ \A m \in 1..Months : MonthDays[m] \in Nat \ {0, 1}
  BY <1>1 DEF Months
<1>3. \A m \in 1..Months : MonthDays[m] \in Nat /\ MonthDays[m] >= 2
  BY <1>2
<1>4. Month = 1..Months /\ Window = 0..Months
  BY DEF Month, Window, Months
<1> QED BY <1>2, <1>3, <1>4 DEF CalendarTypes

\* The recursive definition of the days before a month has a solution.
LEMMA DaysBeforeIs ==
  ASSUME CalendarTypes
  PROVE  /\ DaysBefore[1] = 0
         /\ \A m \in 1..Months : m + 1 \in 1..Months =>
              DaysBefore[m + 1] = DaysBefore[m] + MonthDays[m]
<1> DEFINE Solves(f) == f = [m \in Month |->
                               IF m = 1 THEN 0 ELSE f[m - 1] + MonthDays[m - 1]]
           g == [m \in Month |-> SumTo(MonthDays, m - 1)]
<1>1. /\ Month = 1..Months /\ Months \in Nat \ {0}
  BY CalendarIs
<1>2. Solves(g)
  <2>1. ASSUME NEW m \in 1..Months
        PROVE  g[m] = IF m = 1 THEN 0 ELSE g[m - 1] + MonthDays[m - 1]
    <3>1. CASE m = 1
      <4>1. m - 1 = 0
        BY <3>1
      <4> QED BY <1>1, <3>1, <4>1, SumToZero
    <3>2. CASE m # 1
      <4>1. m - 2 \in Nat /\ (m - 2) + 1 = m - 1 /\ (m - 1) - 1 = m - 2
            /\ m - 1 \in 1..Months
        BY <1>1, <3>2
      <4>2. SumTo(MonthDays, (m - 2) + 1) = SumTo(MonthDays, m - 2) + MonthDays[(m - 2) + 1]
        BY <4>1, SumToStep
      <4> QED BY <1>1, <3>2, <4>1, <4>2
    <3> QED BY <3>1, <3>2
  <2> QED BY <1>1, <2>1
<1>3. DaysBefore = CHOOSE f : Solves(f)
  BY DEF DaysBefore
<1>4. Solves(DaysBefore)
  <2> HIDE DEF Solves, g
  <2> QED BY <1>2, <1>3
<1> QED BY <1>1, <1>4

\* The hours of month m.
Lasts(m) == MonthDays[m] * DayHours

LEMMA StartsIs ==
  ASSUME CalendarTypes
  PROVE  /\ Starts(1) = 0
         /\ \A m \in 1..Months : Starts(m) \in Nat /\ Lasts(m) \in Nat
                                 /\ Lasts(m) >= 2 * DayHours
         /\ \A m \in 1..Months : m + 1 \in 1..Months => Starts(m + 1) = Starts(m) + Lasts(m)
         /\ \A m \in 1..Months : DaysBefore[m] \in Nat
<1>1. /\ DayHours \in Nat \ {0} /\ Months \in Nat \ {0}
      /\ \A m \in 1..Months : MonthDays[m] \in Nat /\ MonthDays[m] >= 2
  BY CalendarIs
<1>2. \A m \in 1..Months : DaysBefore[m] \in Nat
  <2> DEFINE S == {k \in Nat : k + 1 \in 1..Months => DaysBefore[k + 1] \in Nat}
  <2>1. 0 \in S
    BY DaysBeforeIs
  <2>2. ASSUME NEW k \in Nat, k \in S PROVE k + 1 \in S
    <3>1. SUFFICES ASSUME (k + 1) + 1 \in 1..Months
                   PROVE  DaysBefore[(k + 1) + 1] \in Nat
      OBVIOUS
    <3>2. k + 1 \in 1..Months
      BY <1>1, <3>1
    <3> QED BY <1>1, <2>2, <3>1, <3>2, DaysBeforeIs
  <2>3. \A k \in Nat : k \in S
    <3> HIDE DEF S
    <3> QED BY <2>1, <2>2, NatSetInduction
  <2>4. ASSUME NEW m \in 1..Months PROVE DaysBefore[m] \in Nat
    <3>1. m - 1 \in Nat /\ (m - 1) + 1 = m
      OBVIOUS
    <3>2. m - 1 \in S
      BY <2>3, <3>1
    <3> QED BY <3>1, <3>2
  <2> QED BY <2>4
<1>3. Starts(1) = 0
  BY <1>1, DaysBeforeIs DEF Starts, MonthStart
<1>4. ASSUME NEW m \in 1..Months
      PROVE  Starts(m) \in Nat /\ Lasts(m) \in Nat /\ Lasts(m) >= 2 * DayHours
  <2>1. Starts(m) \in Nat /\ Lasts(m) \in Nat
    BY <1>1, <1>2 DEF Starts, Lasts, MonthStart
  <2>2. 2 * DayHours <= MonthDays[m] * DayHours
    BY <1>1, TimesMono
  <2> QED BY <2>1, <2>2 DEF Lasts
<1>5. ASSUME NEW m \in 1..Months, m + 1 \in 1..Months
      PROVE  Starts(m + 1) = Starts(m) + Lasts(m)
  <2>1. PICK a \in Nat, b \in Nat : /\ a = DaysBefore[m] /\ b = MonthDays[m]
                                    /\ DaysBefore[m + 1] = a + b
    BY <1>1, <1>2, <1>5, DaysBeforeIs
  <2>2. (a + b) * DayHours = a * DayHours + b * DayHours
    BY <1>1
  <2> QED BY <2>1, <2>2 DEF Starts, Lasts, MonthStart
<1> QED BY <1>2, <1>3, <1>4, <1>5

LEMMA StartsGrow ==
  ASSUME CalendarTypes, NEW m \in 1..Months, NEW n \in 1..Months, m < n
  PROVE  Starts(m) + Lasts(m) <= Starts(n)
<1>1. Months \in Nat
  BY CalendarIs
<1> DEFINE S == {k \in Nat : m + 1 + k \in 1..Months
                               => Starts(m) + Lasts(m) <= Starts(m + 1 + k)}
<1>2. 0 \in S
  <2>1. m + 1 + 0 = m + 1 /\ m + 1 \in 1..Months
    BY <1>1
  <2>2. Starts(m + 1) = Starts(m) + Lasts(m) /\ Starts(m + 1) \in Nat
    BY <2>1, StartsIs
  <2> QED BY <2>1, <2>2
<1>3. ASSUME NEW k \in Nat, k \in S PROVE k + 1 \in S
  <2>1. SUFFICES ASSUME m + 1 + (k + 1) \in 1..Months
                 PROVE  Starts(m) + Lasts(m) <= Starts(m + 1 + (k + 1))
    OBVIOUS
  <2>2. PICK j : j = m + 1 + k /\ j \in 1..Months /\ j + 1 \in 1..Months
                 /\ m + 1 + (k + 1) = j + 1
    BY <1>1, <2>1
  <2>3. /\ Starts(m) + Lasts(m) <= Starts(j) /\ Starts(j + 1) = Starts(j) + Lasts(j)
        /\ Starts(j) \in Nat /\ Lasts(j) \in Nat /\ Starts(m) \in Nat /\ Lasts(m) \in Nat
    BY <1>3, <2>2, StartsIs
  <2> QED BY <2>2, <2>3
<1>4. \A k \in Nat : k \in S
  <2> HIDE DEF S
  <2> QED BY <1>2, <1>3, NatSetInduction
<1>5. n - m - 1 \in Nat /\ m + 1 + (n - m - 1) = n
  OBVIOUS
<1>6. n - m - 1 \in S
  BY <1>4, <1>5
<1> QED BY <1>5, <1>6

\* The month of an hour is the last one that has begun.
LEMMA MonthOfIs ==
  ASSUME CalendarTypes, NEW t \in Nat
  PROVE  /\ MonthOf(t) \in 1..Months /\ Starts(MonthOf(t)) <= t
         /\ \A n \in 1..Months : Starts(n) <= t => n <= MonthOf(t)
<1>1. Months \in Nat \ {0} /\ Month = 1..Months
  BY CalendarIs
<1> DEFINE T == {m \in 1..Months : Starts(m) <= t}
           R == {Months - m : m \in T}
<1>2. R \in SUBSET Nat
  BY <1>1
<1>3. 1 \in T
  BY <1>1, StartsIs
<1>4. R # {}
  BY <1>3
<1>5. PICK x \in R : \A y \in R : x <= y
  <2> HIDE DEF R
  <2> QED BY <1>2, <1>4, NatLeast
<1>6. PICK m \in T : x = Months - m
  BY <1>5
<1>7. ASSUME NEW n \in T PROVE n <= m
  <2>1. x <= Months - n
    BY <1>5
  <2> QED BY <1>1, <1>6, <2>1
<1>8. \E k \in 1..Months : /\ Starts(k) <= t
                           /\ \A n \in 1..Months : Starts(n) <= t => n <= k
  BY <1>6, <1>7
<1> QED BY <1>1, <1>8 DEF MonthOf, Starts

LEMMA MonthIs ==
  ASSUME CalendarTypes, NEW t \in Nat, NEW m \in 1..Months,
         Starts(m) <= t, t < Starts(m) + Lasts(m)
  PROVE  MonthOf(t) = m
<1>1. PICK k \in 1..Months : k = MonthOf(t) /\ Starts(k) <= t /\ m <= k
  BY MonthOfIs
<1>2. ~(m < k)
  <2>1. Starts(m) \in Nat /\ Lasts(m) \in Nat /\ Starts(k) \in Nat
    BY StartsIs
  <2> QED BY <1>1, <2>1, StartsGrow
<1>3. k \in Int /\ m \in Int
  OBVIOUS
<1> QED BY <1>1, <1>2, <1>3

\* Later hours are in no earlier month.
LEMMA MonthsGoOn ==
  ASSUME CalendarTypes, NEW s \in Nat, NEW t \in Nat, s <= t
  PROVE  MonthOf(s) <= MonthOf(t)
<1>1. PICK k \in 1..Months : k = MonthOf(s) /\ Starts(k) <= s
  BY MonthOfIs
<1>2. Starts(k) <= t
  BY <1>1, StartsIs
<1> QED BY <1>1, <1>2, MonthOfIs

(***************************************************************************)
(* Days and bill days.                                                     *)
(***************************************************************************)
LEMMA BillDayIs ==
  ASSUME CalendarTypes, NEW m \in 1..Months
  PROVE  /\ BillDayIn(m) \in Nat /\ BillDayIn(m) >= 2
         /\ BillDayIn(m) <= MonthDays[m]
BY CalendarIs DEF BillDayIn

\* The hour at which the bill day of month m begins.
Bills(m) == Starts(m) + (BillDayIn(m) - 1) * DayHours

LEMMA BillsIs ==
  ASSUME CalendarTypes, NEW m \in 1..Months
  PROVE  /\ Bills(m) \in Nat /\ Bills(m) >= Starts(m) + DayHours
         /\ Bills(m) + DayHours <= Starts(m) + Lasts(m)
<1>1. PICK b \in Nat, n \in Nat : /\ b = BillDayIn(m) /\ n = MonthDays[m]
                                 /\ b >= 2 /\ b <= n
  BY BillDayIs, CalendarIs
<1>2. PICK d \in Nat : d = DayHours
  BY CalendarIs
<1>3. PICK c \in Nat : c = b - 1 /\ c >= 1 /\ c + 1 <= n
  <2>1. b - 1 \in Nat /\ b - 1 >= 1 /\ (b - 1) + 1 <= n
    BY <1>1
  <2> QED BY <2>1
<1>4. 1 * d <= c * d /\ (c + 1) * d <= n * d /\ (c + 1) * d = c * d + d
      /\ c * d \in Nat
  BY <1>3, TimesMono
<1>5. Bills(m) = Starts(m) + c * d /\ Lasts(m) = n * d /\ Starts(m) \in Nat
      /\ Lasts(m) \in Nat
  BY <1>1, <1>2, <1>3, StartsIs DEF Bills, Lasts
<1> QED BY <1>2, <1>4, <1>5

LEMMA DayReaches ==
  ASSUME CalendarTypes, NEW t \in Nat, NEW j \in Int
  PROVE  DayOf(t) >= j
           <=> t >= Starts(MonthOf(t)) + (j - 1) * DayHours
<1>1. PICK m \in 1..Months : m = MonthOf(t)
  BY MonthOfIs
<1>2. PICK s \in Nat : s = Starts(m)
  BY StartsIs
<1>3. DayHours \in Nat \ {0}
  BY CalendarIs
<1>4. PICK q \in Int : q = (t - s) \div DayHours
  <2>1. t - s \in Int
    OBVIOUS
  <2>2. (t - s) \div DayHours \in Int
    BY <1>3, <2>1, DivIs
  <2> QED BY <2>2
<1>5. DayOf(t) = q + 1
  BY <1>1, <1>2, <1>4 DEF DayOf, Starts
<1>6. q >= j - 1 <=> t - s >= (j - 1) * DayHours
  BY <1>3, <1>4, DivGe
<1>7. PICK p \in Int : p = (j - 1) * DayHours
  BY <1>3
<1> QED BY <1>1, <1>2, <1>5, <1>6, <1>7

\* The window ends on the last bill day that has begun.
LEMMA WindowIs ==
  ASSUME CalendarTypes, NEW t \in Nat
  PROVE  LET m == MonthOf(t)
         IN  /\ m \in 1..Months
             /\ WindowAt(t) = IF t >= Bills(m) THEN m ELSE m - 1
             /\ WindowAt(t) \in 0..Months
             /\ BillDayOf(t) = Bills(m)
<1>1. PICK m \in 1..Months : m = MonthOf(t)
  BY MonthOfIs
<1>2. BillDayIn(m) \in Int
  BY BillDayIs
<1>3. DayOf(t) >= BillDayIn(m) <=> t >= Bills(m)
  BY <1>1, <1>2, DayReaches DEF Bills
<1>4. WindowAt(t) = IF t >= Bills(m) THEN m ELSE m - 1
  BY <1>1, <1>3 DEF WindowAt
<1>5. BillDayOf(t) = Bills(m)
  BY <1>1 DEF BillDayOf, Bills, Starts
<1>6. Months \in Nat
  BY CalendarIs
<1>7. m \in 0..Months /\ m - 1 \in 0..Months
  BY <1>6
<1> QED BY <1>1, <1>4, <1>5, <1>7

\* The window planned as of the day before the bill day is the month before's.
LEMMA ClosedIs ==
  ASSUME CalendarTypes, NEW t \in Nat, ClosedAsOf(t) < t
  PROVE  WindowAt(ClosedAsOf(t)) = MonthOf(t) - 1
<1>1. PICK m \in 1..Months : m = MonthOf(t)
  BY MonthOfIs
<1>2. PICK s : s = ClosedAsOf(t)
  OBVIOUS
<1>3. s = Bills(m) - DayHours
  BY <1>1, <1>2, WindowIs DEF ClosedAsOf
<1>4. /\ Bills(m) \in Nat /\ DayHours \in Nat \ {0} /\ Starts(m) \in Nat
      /\ Bills(m) >= Starts(m) + DayHours /\ Bills(m) + DayHours <= Starts(m) + Lasts(m)
      /\ Lasts(m) \in Nat
  BY BillsIs, StartsIs, CalendarIs
<1>5. s \in Nat /\ Starts(m) <= s /\ s < Starts(m) + Lasts(m) /\ ~(s >= Bills(m))
  BY <1>3, <1>4
<1>6. MonthOf(s) = m
  BY <1>5, MonthIs
<1>7. WindowAt(s) = m - 1
  BY <1>5, <1>6, WindowIs
<1> QED BY <1>1, <1>2, <1>7

(***************************************************************************)
(* A window can be noticed in its own month and in the next.               *)
(***************************************************************************)
Noticeable(w, t) == MonthOf(t) \in {w, w + 1}

LEMMA PlannedIsNoticeable ==
  ASSUME CalendarTypes, NEW t \in Nat
  PROVE  Noticeable(WindowAt(t), t)
<1>1. PICK m \in 1..Months : m = MonthOf(t)
  BY MonthOfIs
<1>2. WindowAt(t) = m \/ WindowAt(t) = m - 1
  BY <1>1, WindowIs
<1>3. (m - 1) + 1 = m
  OBVIOUS
<1> QED BY <1>1, <1>2, <1>3 DEF Noticeable

\* When a notice has been dropped, its window is past noticing.
LEMMA DroppedIsPast ==
  ASSUME CalendarTypes, NEW w \in 0..Months, NEW s \in Nat, NEW t \in Nat,
         Noticeable(w, s), s + Retention < t, t <= End
  PROVE  MonthOf(t) > w + 1
<1>t. Months \in Nat \ {0} /\ Retention \in Nat /\ Month = 1..Months
  BY CalendarIs
<1>1. \A m \in 1..Months : Lasts(m) <= Retention
  BY <1>t DEF CalendarTypes, Lasts
<1>2. \A m \in 1..Months : m + 1 \in 1..Months => Lasts(m) + Lasts(m + 1) <= Retention
  <2>1. ASSUME NEW m \in 1..Months, m + 1 \in 1..Months
        PROVE  Lasts(m) + Lasts(m + 1) <= Retention
    <3>1. m # Len(MonthDays)
      BY <1>t, <2>1 DEF Months
    <3>2. (MonthDays[m] + MonthDays[m + 1]) * DayHours <= Retention
      BY <1>t, <2>1, <3>1 DEF CalendarTypes
    <3>3. PICK a \in Nat, b \in Nat, d \in Nat :
            a = MonthDays[m] /\ b = MonthDays[m + 1] /\ d = DayHours
      BY <2>1, CalendarIs
    <3>4. (a + b) * d = a * d + b * d
      OBVIOUS
    <3> QED BY <3>2, <3>3, <3>4 DEF Lasts
  <2> QED BY <2>1
<1>3. t <= Starts(Months) + Lasts(Months) /\ Months \in 1..Months
  BY <1>t DEF End, Starts, Lasts, Months
<1>4. PICK k \in 1..Months : k = MonthOf(s) /\ k \in {w, w + 1} /\ Starts(k) <= s
  BY MonthOfIs DEF Noticeable
<1>5. \A m \in 1..Months : Starts(m) \in Nat /\ Lasts(m) \in Nat
  BY StartsIs
<1>6. w + 2 \in 1..Months
  <2>1. SUFFICES ASSUME w + 2 \notin 1..Months PROVE FALSE
    OBVIOUS
  <2>2. CASE w = 0
    <3>1. Months = 1
      BY <1>t, <2>1, <2>2
    <3>2. Starts(Months) = 0 /\ Lasts(Months) <= Retention
      BY <1>1, <1>3, <3>1, StartsIs
    <3> QED BY <1>3, <1>5, <1>t, <3>2
  <2>3. CASE w \in 1..Months /\ w = Months
    <3>1. Starts(Months) <= s /\ Lasts(Months) <= Retention
      BY <1>1, <1>3, <1>4, <2>3
    <3> QED BY <1>3, <1>5, <1>t, <3>1
  <2>4. CASE w \in 1..Months /\ w + 1 = Months
    <3>1. Starts(Months) = Starts(w) + Lasts(w) /\ Lasts(w) + Lasts(Months) <= Retention
      BY <1>2, <1>3, <2>4, StartsIs
    <3>2. Starts(w) <= s
      BY <1>3, <1>4, <1>5, <2>4, <3>1
    <3> QED BY <1>3, <1>5, <1>t, <2>4, <3>1, <3>2
  <2> QED BY <1>t, <2>1, <2>2, <2>3, <2>4
<1>7. Starts(w + 2) <= t
  <2>1. CASE w = 0
    <3>1. Starts(2) = 0 + Lasts(1) /\ Lasts(1) <= Retention
      <4>1. 1 \in 1..Months /\ 1 + 1 \in 1..Months /\ 1 + 1 = 2
        BY <1>6, <1>t, <2>1
      <4> QED BY <1>1, <4>1, StartsIs
    <3>2. w + 2 = 2
      BY <2>1
    <3>3. 1 \in 1..Months
      BY <1>t
    <3> QED BY <1>5, <1>t, <3>1, <3>2, <3>3
  <2>2. CASE w \in 1..Months
    <3>1. w + 1 \in 1..Months /\ (w + 1) + 1 \in 1..Months /\ (w + 1) + 1 = w + 2
      BY <1>6, <1>t, <2>2
    <3>2. /\ Starts(w + 1) = Starts(w) + Lasts(w)
          /\ Starts(w + 2) = Starts(w + 1) + Lasts(w + 1)
          /\ Lasts(w) + Lasts(w + 1) <= Retention
      BY <1>2, <2>2, <3>1, StartsIs
    <3>3. /\ Starts(w) \in Nat /\ Lasts(w) \in Nat
          /\ Starts(w + 1) \in Nat /\ Lasts(w + 1) \in Nat
      BY <1>5, <2>2, <3>1
    <3>4. Starts(w) <= s
      BY <1>4, <3>2, <3>3
    <3>5. Starts(w + 2) = (Starts(w) + Lasts(w)) + Lasts(w + 1)
      BY <3>2
    <3>6. PICK u \in Nat, p \in Nat, q \in Nat :
            /\ u = Starts(w) /\ p = Lasts(w) /\ q = Lasts(w + 1)
            /\ u <= s /\ p + q <= Retention /\ Starts(w + 2) = (u + p) + q
      BY <3>2, <3>3, <3>4, <3>5
    <3>7. (u + p) + q <= t
      <4>1. u <= s /\ p + q <= Retention /\ Retention \in Nat
        BY <1>t, <3>6
      <4> QED BY <4>1
    <3> QED BY <3>6, <3>7
  <2> QED BY <1>t, <2>1, <2>2
<1>8. w + 2 <= MonthOf(t)
  BY <1>6, <1>7, MonthOfIs
<1> QED BY <1>8, MonthOfIs

(***************************************************************************)
(* The tenant's clock.  Where it does not jump from the run hour of a day, *)
(* or an earlier one, to the next day, every month has an hour that is due *)
(* and that plans the month's window.                                      *)
(***************************************************************************)
\* The hour on the clock when it jumps is the first that does not occur.
RunHourIsKept ==
  \A z \in Zones :
    LET hour == HourOf(z.jumpAt + z.ahead)
    IN  /\ z.jump < DayHours
        /\ hour + z.jump >= DayHours => RunHour < hour

LEMMA ZoneIs ==
  ASSUME CalendarTypes, zone \in Zones
  PROVE  /\ zone.ahead \in Int /\ -DayHours <= zone.ahead
         /\ zone.jumpAt \in Nat /\ zone.jump \in Nat
         /\ zone.ahead + zone.jump < DayHours
         /\ \A t \in Int : Local(t) =
              IF t >= zone.jumpAt THEN t + zone.ahead + zone.jump ELSE t + zone.ahead
<1>1. /\ zone.ahead \in -DayHours..DayHours
      /\ zone.jumpAt \in Nat /\ zone.jump \in Nat
      /\ zone.ahead + zone.jump < DayHours
  BY DEF CalendarTypes
<1>2. DayHours \in Nat
  BY CalendarIs
<1>3. zone.ahead \in Int /\ -DayHours <= zone.ahead
  BY <1>1, <1>2
<1>4. ASSUME NEW t \in Int
      PROVE  Local(t) =
               IF t >= zone.jumpAt THEN t + zone.ahead + zone.jump ELSE t + zone.ahead
  BY <1>1, <1>3 DEF Local
<1> QED BY <1>1, <1>3, <1>4

\* The last hours of the tenant's month are due.
LEMMA LastHoursAreDue ==
  ASSUME CalendarTypes, NEW m \in 1..Months,
         NEW t \in Nat, NEW x \in Nat, RunHour + x < DayHours,
         Local(t) = Starts(m) + Lasts(m) - 1 - x
  PROVE  DueAt(t)
<1>1. PICK L : L = Local(t)
  OBVIOUS
<1>2. PICK d \in Nat, y \in Nat : d = DayHours /\ y = RunHour /\ d # 0
                                  /\ x \in Nat /\ y + x < d
  <2>1. DayHours \in Nat /\ DayHours # 0 /\ RunHour \in Nat
    BY CalendarIs
  <2> QED BY <2>1
<1>3. PICK b \in Nat, n \in Nat : b = DaysBefore[m] /\ n = MonthDays[m] /\ n >= 2
  BY StartsIs, CalendarIs
<1>4. /\ Starts(m) = b * d /\ Lasts(m) = n * d
      /\ Starts(m) \in Nat /\ Lasts(m) \in Nat /\ Lasts(m) >= 2 * d
  BY <1>2, <1>3, StartsIs DEF Starts, Lasts, MonthStart
<1>5. L \in Nat /\ Starts(m) <= L /\ L < Starts(m) + Lasts(m) /\ L >= Starts(m) + Lasts(m) - d
  BY <1>1, <1>2, <1>4
<1>6. MonthOf(L) = m
  BY <1>5, MonthIs
<1>7. DayOf(L) >= n
  <2>1. (n - 1) * d = n * d - d
    OBVIOUS
  <2>2. L >= Starts(m) + (n - 1) * d
    BY <1>4, <1>5, <2>1
  <2>3. n \in Int
    OBVIOUS
  <2> QED BY <1>2, <1>5, <1>6, <2>2, <2>3, DayReaches
<1>8. HourOf(L) >= y
  <2>1. PICK q \in Int : q = b + n - 1
    OBVIOUS
  <2>2. q * d = b * d + n * d - d
    BY <2>1
  <2>3. PICK r \in 0..(d - 1) : r = d - 1 - x
    BY <1>2
  <2>4. L = q * d + r
    BY <1>1, <1>2, <1>4, <2>2, <2>3
  <2>5. L % d = r
    BY <1>2, <2>4, ModIs
  <2> QED BY <1>2, <2>3, <2>5 DEF HourOf
<1>9. PICK e \in Nat : e = BillDayIn(m) /\ e <= n
  BY <1>3, BillDayIs
<1>10. DayOf(L) > e \/ (DayOf(L) = e)
  <2>1. PICK s \in Nat : s = L - Starts(m)
    BY <1>4, <1>5
  <2>2. s \div d \in Int
    BY <1>2, DivIs
  <2>3. DayOf(L) = (s \div d) + 1
    BY <1>2, <1>6, <2>1 DEF DayOf, Starts
  <2>4. PICK j \in Int : j = DayOf(L)
    BY <2>2, <2>3
  <2> QED BY <1>7, <1>9, <2>4
<1>11. \/ DayOf(L) > BillDayIn(MonthOf(L))
       \/ /\ DayOf(L) = BillDayIn(MonthOf(L))
          /\ HourOf(L) >= RunHour
  BY <1>2, <1>6, <1>8, <1>9, <1>10
<1> QED BY <1>1, <1>11 DEF DueAt

\* The hours about the end of a month plan its window.
LEMMA LateHoursPlan ==
  ASSUME CalendarTypes, NEW m \in 1..Months, m + 1 \in 1..Months, NEW t \in Nat,
         Starts(m) + Lasts(m) <= t + DayHours, t < Starts(m) + Lasts(m) + DayHours
  PROVE  WindowAt(t) = m
<1>1. /\ Starts(m) \in Nat /\ Lasts(m) \in Nat /\ Lasts(m) >= 2 * DayHours
      /\ DayHours \in Nat \ {0} /\ Starts(m + 1) = Starts(m) + Lasts(m)
      /\ Lasts(m + 1) \in Nat /\ Lasts(m + 1) >= 2 * DayHours
  BY StartsIs, CalendarIs
<1>2. Bills(m) \in Nat /\ Bills(m) + DayHours <= Starts(m) + Lasts(m)
  BY BillsIs
<1>3. Bills(m + 1) \in Nat /\ Bills(m + 1) >= Starts(m + 1) + DayHours
  BY BillsIs
<1>4. CASE t < Starts(m) + Lasts(m)
  <2>1. Starts(m) <= t /\ t >= Bills(m)
    BY <1>1, <1>2
  <2>2. MonthOf(t) = m
    BY <1>4, <2>1, MonthIs
  <2> QED BY <2>1, <2>2, WindowIs
<1>5. CASE ~(t < Starts(m) + Lasts(m))
  <2>1. Starts(m + 1) <= t /\ t < Starts(m + 1) + Lasts(m + 1) /\ ~(t >= Bills(m + 1))
    BY <1>1, <1>3, <1>5
  <2>2. MonthOf(t) = m + 1
    BY <2>1, MonthIs
  <2>3. WindowAt(t) = (m + 1) - 1
    BY <2>1, <2>2, WindowIs
  <2> QED BY <2>3
<1> QED BY <1>4, <1>5

\* A month ends with a day.
LEMMA EndsOnADay ==
  ASSUME CalendarTypes, NEW m \in 1..Months
  PROVE  \E k \in Int : Starts(m) + Lasts(m) = k * DayHours
<1>1. PICK b \in Nat, n \in Nat, d \in Nat :
        b = DaysBefore[m] /\ n = MonthDays[m] /\ d = DayHours
  BY StartsIs, CalendarIs
<1>2. (b + n) * d = b * d + n * d /\ b + n \in Int
  OBVIOUS
<1> QED BY <1>1, <1>2 DEF Starts, Lasts, MonthStart

\* Before the tenant's clock leaves a month there was an hour that is due and
\* plans the window of that month.
LEMMA DueHour ==
  ASSUME CalendarTypes, RunHourIsKept, zone \in Zones,
         NEW m \in 1..Months, NEW n \in Nat, n >= DayHours,
         MonthOf(Local(n)) > m
  PROVE  \E t \in DayHours..n : /\ t < n /\ DueAt(t)
                                /\ WindowAt(t) = m
<1> DEFINE E == Starts(m) + Lasts(m)
<1>1. PICK a \in Int, j \in Nat, J \in Nat, d \in Nat :
        /\ a = zone.ahead /\ j = zone.jumpAt /\ J = zone.jump /\ d = DayHours
        /\ -d <= a /\ a + J < d /\ J < d /\ d # 0
        /\ \A t \in Int : Local(t) = IF t >= j THEN t + a + J ELSE t + a
  BY ZoneIs, CalendarIs DEF RunHourIsKept
<1>2. E \in Nat /\ E >= 2 * d
  BY <1>1, StartsIs
<1>15. E = Starts(m) + Lasts(m) /\ Starts(m) \in Int /\ Lasts(m) \in Int
  BY StartsIs
<1> HIDE DEF E
<1>3. RunHour \in Nat /\ RunHour < d
  BY <1>1, CalendarIs
<1>4. Local(n) \in Nat
  BY <1>1
<1>5. PICK k \in 1..Months : /\ k = MonthOf(Local(n)) /\ m < k
                             /\ Starts(k) <= Local(n)
  BY <1>4, MonthOfIs
<1>6. E <= Local(n)
  <2>1. E <= Starts(k) /\ Starts(k) \in Nat
    BY <1>5, StartsGrow, StartsIs DEF E
  <2> QED BY <1>2, <1>4, <1>5, <2>1
<1>7. m + 1 \in 1..Months
  BY <1>5, CalendarIs
<1>8. \E t \in Int : \E x \in Nat :
        /\ RunHour + x < d
        /\ Local(t) = E - 1 - x /\ E <= t + d /\ t < E + d
  <2>1. CASE E - 1 - a < j
    <3>1. /\ E - 1 - a \in Int /\ Local(E - 1 - a) = E - 1 - 0
          /\ E <= (E - 1 - a) + d /\ E - 1 - a < E + d
      BY <1>1, <1>2, <2>1
    <3>2. RunHour + 0 < d /\ 0 \in Nat
      BY <1>3
    <3> QED BY <3>1, <3>2
  <2>2. CASE E - 1 - a - J >= j
    <3>1. /\ E - 1 - a - J \in Int /\ Local(E - 1 - a - J) = E - 1 - 0
          /\ E <= (E - 1 - a - J) + d /\ E - 1 - a - J < E + d
      BY <1>1, <1>2, <2>2
    <3>2. RunHour + 0 < d /\ 0 \in Nat
      BY <1>3
    <3> QED BY <3>1, <3>2
  <2>3. CASE E - 1 - a >= j /\ E - 1 - a - J < j
    <3>1. PICK i \in Int : i = j - 1 /\ ~(i >= j)
      OBVIOUS
    <3>2. PICK x \in Nat : x = E - j - a /\ x >= 1 /\ x <= J
      BY <1>1, <1>2, <2>3
    <3>3. Local(i) = i + a
      BY <1>1, <3>1
    <3>4. Local(i) = E - 1 - x
      BY <1>2, <3>1, <3>2, <3>3
    <3>5. E <= i + d /\ i < E + d
      BY <1>1, <1>2, <2>3, <3>1, <3>2
    <3>6. HourOf(zone.jumpAt + zone.ahead) = d - x
      <4>1. PICK c \in Int : E = c * d
        BY <1>1, <1>7, EndsOnADay DEF E
      <4>2. PICK q \in Int, h \in 0..(d - 1) : q = c - 1 /\ h = d - x
        BY <1>1, <3>2
      <4>3. q * d = c * d - d
        BY <4>2
      <4>4. j + a = q * d + h
        BY <1>1, <1>2, <3>2, <4>1, <4>2, <4>3
      <4>5. (j + a) % d = h
        BY <1>1, <4>2, <4>4, ModIs
      <4> QED BY <1>1, <4>2, <4>5 DEF HourOf
    <3>7. RunHour + x < d
      <4>1. (d - x) + J >= d
        BY <1>1, <3>2
      <4>2. RunHour < d - x
        BY <1>1, <3>6, <4>1 DEF RunHourIsKept
      <4> QED BY <1>1, <1>3, <3>2, <4>2
    <3> QED BY <3>4, <3>5, <3>7
  <2> QED BY <1>1, <1>2, <2>1, <2>2, <2>3
<1>9. PICK t \in Int, x \in Nat :
        RunHour + x < d /\ Local(t) = E - 1 - x /\ E <= t + d /\ t < E + d
  BY <1>8
<1>10. t \in Nat /\ d <= t
  BY <1>1, <1>2, <1>9
<1>11. t < n
  <2>1. Local(t) < E
    BY <1>1, <1>2, <1>9
  <2>2. Local(t) = IF t >= j THEN t + a + J ELSE t + a
    BY <1>1
  <2>3. Local(n) = IF n >= j THEN n + a + J ELSE n + a
    BY <1>1
  <2> QED BY <1>1, <1>2, <1>6, <2>1, <2>2, <2>3
<1>12. DueAt(t)
  <2>1. x \in Nat /\ RunHour + x < DayHours
    BY <1>1, <1>9
  <2>2. Local(t) = Starts(m) + Lasts(m) - 1 - x
    BY <1>1, <1>9, <1>15
  <2> QED BY <1>10, <2>1, <2>2, LastHoursAreDue
<1>13. WindowAt(t) = m
  BY <1>1, <1>7, <1>9, <1>10, LateHoursPlan DEF E
<1>14. t \in DayHours..n
  BY <1>1, <1>10, <1>11
<1> QED BY <1>11, <1>12, <1>13, <1>14

LEMMA EndIs ==
  ASSUME CalendarTypes
  PROVE  End \in Nat /\ DayHours <= End
<1>1. Months \in 1..Months /\ End = Starts(Months) + Lasts(Months)
  BY CalendarIs DEF End, Starts, Lasts, Months
<1>2. /\ Starts(Months) \in Nat /\ Lasts(Months) \in Nat
      /\ Lasts(Months) >= 2 * DayHours /\ DayHours \in Nat
  BY <1>1, StartsIs, CalendarIs
<1> QED BY <1>1, <1>2

\* No hour before the bill day plans the window that ends on it.
LEMMA WindowEnds ==
  ASSUME CalendarTypes, NEW t \in Nat, NEW w \in 1..Months,
         WindowAt(t) = w
  PROVE  Bills(w) <= t
<1>1. PICK m \in 1..Months : m = MonthOf(t) /\ Starts(m) <= t
  BY MonthOfIs
<1>2. w = IF t >= Bills(m) THEN m ELSE m - 1
  BY <1>1, WindowIs
<1>3. Bills(w) \in Nat /\ Bills(w) + DayHours <= Starts(w) + Lasts(w)
      /\ DayHours \in Nat /\ Bills(m) \in Nat
  BY BillsIs, CalendarIs
<1>4. CASE w = m
  BY <1>2, <1>3, <1>4
<1>5. CASE w = m - 1
  <2>1. Starts(w) + Lasts(w) <= Starts(m) /\ Starts(m) \in Nat
    BY <1>5, StartsGrow, StartsIs
  <2>2. Starts(w) \in Nat /\ Lasts(w) \in Nat
    BY StartsIs
  <2> QED BY <1>1, <1>3, <2>1, <2>2
<1> QED BY <1>2, <1>4, <1>5

(***************************************************************************)
(* The invariant of the dispatcher.                                        *)
(***************************************************************************)
\* A sweep's instant has come; without faults it is the hour's, whose job
\* has been taken.
SweepInTime ==
  /\ DayHours <= now
  /\ sweep.pc # "idle" => DayHours <= sweep.at /\ sweep.at <= now
  /\ faults = 0 /\ sweep.pc # "idle" => sweep.at = now /\ ~ticking

\* A run is handed to the queue in the step that follows its creation.
RunBeforeQueue ==
  /\ sweep.pc = "enqueue" => WindowAt(sweep.at) \in runs
  /\ faults = 0 =>
       runs \subseteq queued \union
         (IF sweep.pc = "enqueue" THEN {WindowAt(sweep.at)} ELSE {})

\* The ledger a sweep carries is the ledger, and holds told windows alone.
LedgerIsCarried ==
  /\ sweep.pc \in {"send", "write"} =>
       /\ sweep.ledger = ledger
       /\ sweep.fresh = Untold(sweep.notices, ledger)
  /\ \A w \in 0..Months : ledger[w] # -1 => told[w] > 0
  /\ sweep.pc = "write" => \A w \in sweep.fresh : told[w] > 0

\* Once it has looked, a sweep after the bill day knows the window it closed.
ClosedIsKnown ==
  /\ \A w \in looked : w \in runs \/ told[w] > 0
  /\ sweep.pc \in {"ledger", "send", "write"}
       /\ sweep.at >= BillDayOf(sweep.at)
     => MonthOf(sweep.at) - 1 \in runs \union sweep.notices

\* Windows are noticed in their month and in the next.
NoticedInTime ==
  /\ \A w \in 0..Months : ledger[w] # -1 => Noticeable(w, ledger[w])
  /\ \A w \in sweep.notices : Noticeable(w, sweep.at)

\* A window that was told, and that the ledger does not hold, is past noticing.
Judged == IF sweep.pc = "idle" THEN now ELSE sweep.at
ToldIsKept ==
  /\ \A w \in 0..Months : told[w] <= 1 + faults
  /\ \A w \in 0..Months :
       /\ ledger[w] = -1 /\ told[w] > faults
       /\ ~(sweep.pc = "write" /\ w \in sweep.fresh)
       => MonthOf(Judged) > w + 1

\* Of each hour whose sweep has planned: the window it was due to bill, if
\* its reads had landed, has a run.
HasPlanned ==
  ~ticking /\ sweep.pc \in {"idle", "enqueue", "closed", "ledger", "send", "write"}
DueHoursPlanned ==
  /\ landed \subseteq reads /\ landed \subseteq 1..Months
  /\ faults = 0 =>
       \A t \in DayHours..now :
         /\ t < now \/ HasPlanned
         /\ DueAt(t) /\ WindowAt(t) \in landed
         => WindowAt(t) \in runs

DispatchInv ==
  /\ DispatchTypeOK
  /\ SweepInTime /\ RunBeforeQueue /\ LedgerIsCarried /\ ClosedIsKnown
  /\ NoticedInTime /\ ToldIsKept /\ DueHoursPlanned

LEMMA DispatchStarts ==
  ASSUME CalendarTypes, DispatchInit
  PROVE  DispatchInv
<1>1. /\ zone \in Zones /\ now = DayHours /\ ticking = TRUE
      /\ reads \in {{}, {0}} /\ runs \in {{}, {0}} /\ queued = runs
      /\ ledger = [w \in 0..Months |-> -1] /\ told = [w \in 0..Months |-> 0]
      /\ looked = {} /\ landed = {} /\ faults = 0
      /\ sweep = [pc |-> "idle", at |-> 0, notices |-> {}, fresh |-> {},
                  ledger |-> [w \in 0..Months |-> -1]]
  BY CalendarIs DEF DispatchInit, AtRest, Never
<1>2. /\ Window = 0..Months /\ Months \in Nat /\ MaxFaults \in Nat
      /\ DayHours \in Nat /\ End \in Nat /\ DayHours <= End
  BY CalendarIs, EndIs
<1>3. DispatchTypeOK
  <2>1. now \in 0..End /\ faults \in 0..MaxFaults
    BY <1>1, <1>2
  <2>2. {reads, runs, queued, looked, landed} \subseteq SUBSET (0..Months)
    BY <1>1, <1>2
  <2>3. ledger \in [0..Months -> -1..End] /\ told \in [0..Months -> Nat]
    BY <1>1, <1>2
  <2>4. sweep \in [pc : {"idle", "plan", "reads", "create", "enqueue", "closed",
                         "ledger", "send", "write"},
                   at : 0..End, notices : SUBSET (0..Months),
                   fresh : SUBSET (0..Months),
                   ledger : [0..Months -> -1..End]]
    BY <1>1, <1>2
  <2> QED BY <1>1, <1>2, <2>1, <2>2, <2>3, <2>4 DEF DispatchTypeOK
<1>4. sweep.pc = "idle" /\ sweep.notices = {}
  BY <1>1
<1>5. SweepInTime
  BY <1>1, <1>2, <1>4 DEF SweepInTime
<1>6. RunBeforeQueue
  BY <1>1, <1>4 DEF RunBeforeQueue
<1>7. LedgerIsCarried /\ ClosedIsKnown
  BY <1>1, <1>4 DEF LedgerIsCarried, ClosedIsKnown
<1>8. NoticedInTime /\ ToldIsKept
  BY <1>1, <1>4 DEF NoticedInTime, ToldIsKept
<1>9. DueHoursPlanned
  BY <1>1 DEF DueHoursPlanned
<1> QED BY <1>3, <1>5, <1>6, <1>7, <1>8, <1>9 DEF DispatchInv

(***************************************************************************)
(* What the steps do to the fields of the sweep, and types.                *)
(***************************************************************************)
Places == {"idle", "plan", "reads", "create", "enqueue", "closed", "ledger",
           "send", "write"}
Sweeps == [pc : Places, at : 0..End, notices : SUBSET (0..Months),
           fresh : SUBSET (0..Months), ledger : [0..Months -> -1..End]]

LEMMA TypesAre ==
  ASSUME CalendarTypes
  PROVE  DispatchTypeOK <=>
           /\ zone \in Zones /\ now \in 0..End /\ ticking \in BOOLEAN
           /\ reads \subseteq 0..Months /\ runs \subseteq 0..Months
           /\ queued \subseteq runs /\ queued \subseteq 0..Months
           /\ looked \subseteq 0..Months /\ landed \subseteq 0..Months
           /\ ledger \in [0..Months -> -1..End] /\ sweep \in Sweeps
           /\ told \in [0..Months -> Nat] /\ faults \in 0..MaxFaults
BY CalendarIs DEF DispatchTypeOK, Sweeps, Places

LEMMA TypesNext ==
  ASSUME CalendarTypes,
         zone' \in Zones, now' \in 0..End, ticking' \in BOOLEAN,
         reads' \subseteq 0..Months, runs' \subseteq 0..Months,
         queued' \subseteq runs', looked' \subseteq 0..Months,
         landed' \subseteq 0..Months, ledger' \in [0..Months -> -1..End],
         sweep' \in Sweeps, told' \in [0..Months -> Nat], faults' \in 0..MaxFaults
  PROVE  DispatchTypeOK'
BY CalendarIs DEF DispatchTypeOK, Sweeps, Places

LEMMA SweepIs ==
  ASSUME sweep \in Sweeps
  PROVE  /\ sweep.pc \in Places /\ sweep.at \in 0..End
         /\ sweep.notices \subseteq 0..Months /\ sweep.fresh \subseteq 0..Months
         /\ sweep.ledger \in [0..Months -> -1..End]
BY DEF Sweeps

LEMMA GoesIs ==
  ASSUME sweep \in Sweeps, NEW p \in Places, Goes(p)
  PROVE  /\ sweep' \in Sweeps
         /\ sweep'.pc = p /\ sweep'.at = sweep.at /\ sweep'.notices = sweep.notices
         /\ sweep'.fresh = sweep.fresh /\ sweep'.ledger = sweep.ledger
BY DEF Sweeps, Goes

LEMMA AtRestIs ==
  ASSUME CalendarTypes
  PROVE  /\ AtRest \in Sweeps
         /\ AtRest.pc = "idle" /\ AtRest.at = 0
         /\ AtRest.notices = {} /\ AtRest.fresh = {}
<1>1. AtRest = [pc |-> "idle", at |-> 0, notices |-> {}, fresh |-> {},
                         ledger |-> [w \in 0..Months |-> -1]]
  BY CalendarIs DEF AtRest, Never
<1>2. End \in Nat
  BY EndIs
<1>3. 0 \in 0..End /\ [w \in 0..Months |-> -1] \in [0..Months -> -1..End]
  BY <1>2
<1>4. AtRest \in Sweeps
  BY <1>1, <1>3 DEF Sweeps, Places
<1> QED BY <1>1, <1>4

\* The hours of the state are hours of the calendar, and their windows windows.
LEMMA HoursAre ==
  ASSUME CalendarTypes, DispatchTypeOK
  PROVE  /\ now \in Nat /\ now <= End /\ End \in Nat
         /\ sweep.at \in Nat /\ sweep.at <= End
         /\ WindowAt(now) \in 0..Months
         /\ WindowAt(sweep.at) \in 0..Months
         /\ faults \in Nat /\ Months \in Nat /\ MaxFaults \in Nat
<1>1. now \in 0..End /\ sweep \in Sweeps /\ faults \in 0..MaxFaults
  BY TypesAre
<1>2. sweep.at \in 0..End
  BY <1>1, SweepIs
<1>3. End \in Nat /\ Months \in Nat /\ MaxFaults \in Nat
  BY EndIs, CalendarIs
<1>4. now \in Nat /\ sweep.at \in Nat
  BY <1>1, <1>2, <1>3
<1>5. WindowAt(now) \in 0..Months /\ WindowAt(sweep.at) \in 0..Months
  BY <1>4, WindowIs
<1> QED BY <1>1, <1>2, <1>3, <1>4, <1>5

\* The tenant's clock and what is due by it do not change.
LEMMA SameZone ==
  ASSUME zone' = zone, NEW t
  PROVE  (DueAt(t) <=> DueAt(t)')
<1>1. Local(t)' = Local(t)
  BY DEF Local
<1> QED BY <1>1 DEF DueAt

(***************************************************************************)
(* Frames: what leaves a part of the invariant as it is.                   *)
(***************************************************************************)
LEMMA ToldOn ==
  ASSUME CalendarTypes, DispatchTypeOK, ToldIsKept,
         ledger' = ledger, told' = told, faults' \in Nat, faults <= faults',
         sweep.pc # "write" \/ faults' = faults + 1,
         Judged \in Nat, Judged' \in Nat, Judged <= Judged'
  PROVE  ToldIsKept'
<1>1. told \in [0..Months -> Nat] /\ faults \in Nat
  BY TypesAre, HoursAre
<1>2. ASSUME NEW w \in 0..Months PROVE told'[w] <= 1 + faults'
  BY <1>1 DEF ToldIsKept
<1>3. ASSUME NEW w \in 0..Months, ledger'[w] = -1, told'[w] > faults',
             ~(sweep'.pc = "write" /\ w \in sweep'.fresh)
      PROVE  MonthOf(Judged)' > w + 1
  <2>1. told[w] \in Nat /\ told[w] <= 1 + faults /\ told[w] > faults'
    BY <1>1, <1>3 DEF ToldIsKept
  <2>2. sweep.pc # "write" /\ told[w] > faults
    BY <1>1, <2>1
  <2>3. MonthOf(Judged) > w + 1
    BY <1>3, <2>2 DEF ToldIsKept
  <2>4. PICK j \in Nat, k \in Nat : j = Judged /\ k = Judged' /\ j <= k
    OBVIOUS
  <2>5. MonthOf(j) <= MonthOf(k)
    BY <2>4, MonthsGoOn
  <2>6. MonthOf(j) \in 1..Months /\ MonthOf(k) \in 1..Months
    BY <2>4, MonthOfIs
  <2>7. MonthOf(k) > w + 1
    BY <2>3, <2>4, <2>5, <2>6
  <2> QED BY <2>4, <2>7
<1> QED BY <1>2, <1>3 DEF ToldIsKept

LEMMA PlannedOn ==
  ASSUME CalendarTypes, DueHoursPlanned,
         zone' = zone, now' = now, faults' = 0 => faults = 0,
         reads \subseteq reads', landed' = landed, runs \subseteq runs',
         now \in Nat,
         \/ ~HasPlanned' \/ HasPlanned \/ faults' # 0 \/ ~DueAt(now)
         \/ WindowAt(now) \notin landed
         \/ WindowAt(now) \in runs'
  PROVE  DueHoursPlanned'
<1>1. landed' \subseteq reads' /\ landed' \subseteq 1..Months
  BY DEF DueHoursPlanned
<1>2. ASSUME faults' = 0, NEW t \in DayHours..now, t < now \/ HasPlanned',
             DueAt(t)', WindowAt(t) \in landed'
      PROVE  WindowAt(t) \in runs'
  <2>1. DueAt(t) /\ faults = 0 /\ WindowAt(t) \in landed
    BY <1>2, SameZone
  <2>2. CASE t < now \/ HasPlanned
    BY <2>1, <2>2 DEF DueHoursPlanned
  <2>3. CASE ~(t < now) /\ ~HasPlanned
    <3>1. t = now
      BY <2>3, CalendarIs
    <3> QED BY <1>2, <2>1, <2>3, <3>1
  <2> QED BY <2>2, <2>3
<1> QED BY <1>1, <1>2 DEF DueHoursPlanned

LEMMA JudgedIs ==
  ASSUME CalendarTypes, DispatchTypeOK
  PROVE  Judged \in Nat
BY HoursAre DEF Judged

\* What is read off the invariant by every step.
LEMMA InvIs ==
  ASSUME CalendarTypes, DispatchInv
  PROVE  /\ zone \in Zones /\ now \in 0..End /\ ticking \in BOOLEAN
         /\ reads \subseteq 0..Months /\ runs \subseteq 0..Months
         /\ queued \subseteq runs /\ queued \subseteq 0..Months
         /\ looked \subseteq 0..Months /\ landed \subseteq 0..Months
         /\ ledger \in [0..Months -> -1..End] /\ sweep \in Sweeps
         /\ told \in [0..Months -> Nat] /\ faults \in 0..MaxFaults
BY TypesAre DEF DispatchInv

(***************************************************************************)
(* The steps.                                                              *)
(***************************************************************************)
LEMMA StartKeeps ==
  ASSUME CalendarTypes, DispatchInv, Start
  PROVE  DispatchInv'
<1>i. /\ DispatchTypeOK /\ SweepInTime /\ RunBeforeQueue /\ LedgerIsCarried
      /\ ClosedIsKnown /\ NoticedInTime /\ ToldIsKept /\ DueHoursPlanned
  BY DEF DispatchInv
<1>h. now \in Nat /\ now <= End /\ DayHours \in Nat /\ faults \in Nat
  BY <1>i, HoursAre, CalendarIs
<1>1. /\ sweep.pc = "idle" /\ ticking /\ ticking' = FALSE
      /\ zone' = zone /\ now' = now /\ reads' = reads /\ runs' = runs
      /\ queued' = queued /\ ledger' = ledger /\ told' = told
      /\ looked' = looked /\ landed' = landed /\ faults' = faults
  BY DEF Start, At, billing, history
<1>2. /\ sweep' \in Sweeps /\ sweep'.at = now /\ sweep'.notices = {}
      /\ sweep'.pc = IF DueAt(now) THEN "plan" ELSE "closed"
  <2>1. sweep' = [AtRest EXCEPT
                    !.pc = IF DueAt(now) THEN "plan" ELSE "closed",
                    !.at = now]
    BY DEF Start
  <2>2. now \in 0..End
    BY InvIs
  <2> QED BY <2>1, <2>2, AtRestIs DEF Sweeps, Places
<1>3. DispatchTypeOK'
  BY <1>1, <1>2, InvIs, TypesNext
<1>4. SweepInTime'
  BY <1>h, <1>i, <1>1, <1>2 DEF SweepInTime
<1>5. RunBeforeQueue'
  BY <1>i, <1>1, <1>2 DEF RunBeforeQueue
<1>6. LedgerIsCarried'
  BY <1>i, <1>1, <1>2 DEF LedgerIsCarried
<1>7. ClosedIsKnown'
  BY <1>i, <1>1, <1>2 DEF ClosedIsKnown
<1>8. NoticedInTime'
  BY <1>i, <1>1, <1>2 DEF NoticedInTime
<1>9. ToldIsKept'
  <2>1. Judged = now /\ Judged' = now
    BY <1>1, <1>2 DEF Judged
  <2> QED BY <1>h, <1>i, <1>1, <2>1, ToldOn
<1>10. DueHoursPlanned'
  <2>1. ~HasPlanned' \/ ~DueAt(now)
    BY <1>2 DEF HasPlanned
  <2> QED BY <1>h, <1>i, <1>1, <2>1, PlannedOn
<1> QED BY <1>3, <1>4, <1>5, <1>6, <1>7, <1>8, <1>9, <1>10 DEF DispatchInv

LEMMA PlanKeeps ==
  ASSUME CalendarTypes, DispatchInv, Plan
  PROVE  DispatchInv'
<1>i. /\ DispatchTypeOK /\ SweepInTime /\ RunBeforeQueue /\ LedgerIsCarried
      /\ ClosedIsKnown /\ NoticedInTime /\ ToldIsKept /\ DueHoursPlanned
  BY DEF DispatchInv
<1>h. now \in Nat /\ faults \in Nat
  BY <1>i, HoursAre
<1>1. /\ sweep.pc = "plan" /\ zone' = zone /\ now' = now /\ ticking' = ticking
      /\ reads' = reads /\ runs' = runs
      /\ queued' = queued /\ ledger' = ledger /\ told' = told
      /\ looked' = looked /\ landed' = landed /\ faults' = faults
  BY DEF Plan, At, clock, billing, history
<1>p. PICK p \in {"closed", "reads"} :
        /\ p = "closed" => WindowAt(sweep.at) \in runs
        /\ Goes(p)
  BY DEF Plan, Planned
<1>2. /\ sweep' \in Sweeps /\ sweep'.at = sweep.at /\ sweep'.notices = sweep.notices
      /\ sweep'.pc = p
  BY <1>p, InvIs, GoesIs DEF Places
<1>3. DispatchTypeOK'
  BY <1>1, <1>2, InvIs, TypesNext
<1>4. SweepInTime'
  BY <1>i, <1>p, <1>1, <1>2 DEF SweepInTime
<1>5. RunBeforeQueue'
  BY <1>i, <1>p, <1>1, <1>2 DEF RunBeforeQueue
<1>6. LedgerIsCarried'
  BY <1>i, <1>p, <1>1, <1>2 DEF LedgerIsCarried
<1>7. ClosedIsKnown'
  BY <1>i, <1>p, <1>1, <1>2 DEF ClosedIsKnown
<1>8. NoticedInTime'
  BY <1>i, <1>1, <1>2 DEF NoticedInTime
<1>9. ToldIsKept'
  <2>1. Judged' = Judged /\ Judged \in Nat
    BY <1>i, <1>p, <1>1, <1>2, JudgedIs DEF Judged
  <2> QED BY <1>h, <1>i, <1>1, <2>1, ToldOn
<1>10. DueHoursPlanned'
  <2>1. \/ ~HasPlanned' \/ faults' # 0 \/ WindowAt(now) \in runs'
    BY <1>i, <1>p, <1>1, <1>2 DEF HasPlanned, SweepInTime
  <2> QED BY <1>h, <1>i, <1>1, <2>1, PlannedOn
<1> QED BY <1>3, <1>4, <1>5, <1>6, <1>7, <1>8, <1>9, <1>10 DEF DispatchInv

LEMMA CheckReadsKeeps ==
  ASSUME CalendarTypes, DispatchInv, CheckReads
  PROVE  DispatchInv'
<1>i. /\ DispatchTypeOK /\ SweepInTime /\ RunBeforeQueue /\ LedgerIsCarried
      /\ ClosedIsKnown /\ NoticedInTime /\ ToldIsKept /\ DueHoursPlanned
  BY DEF DispatchInv
<1>h. now \in Nat /\ sweep.at \in Nat /\ faults \in Nat /\ DayHours \in Nat \ {0}
      /\ WindowAt(sweep.at) \in 0..Months
      /\ WindowAt(now) \in 0..Months
  BY <1>i, HoursAre, CalendarIs
<1>1. /\ sweep.pc = "reads" /\ zone' = zone /\ now' = now /\ ticking' = ticking
      /\ reads' = reads /\ runs' = runs
      /\ queued' = queued /\ ledger' = ledger /\ told' = told
      /\ looked' = looked /\ landed' = landed /\ faults' = faults
  BY DEF CheckReads, At, clock, billing, history
<1>2. /\ sweep' \in Sweeps /\ sweep'.at = sweep.at
      /\ sweep'.pc \in {"create", "closed"}
      /\ sweep'.pc = "closed" => WindowAt(sweep.at) \notin reads
      /\ sweep'.notices \subseteq sweep.notices \union {WindowAt(sweep.at)}
  <2>1. CASE WindowAt(sweep.at) \in reads
    <3>1. sweep' = [sweep EXCEPT !.pc = "create"]
      BY <2>1 DEF CheckReads, Planned
    <3> QED BY <2>1, <3>1, InvIs DEF Sweeps, Places
  <2>2. CASE WindowAt(sweep.at) \notin reads
    <3>1. sweep' = [sweep EXCEPT !.pc = "closed",
                                 !.notices = {WindowAt(sweep.at)}]
      BY <2>2 DEF CheckReads, Planned
    <3> QED BY <1>h, <2>2, <3>1, InvIs DEF Sweeps, Places
  <2> QED BY <2>1, <2>2
<1>3. DispatchTypeOK'
  BY <1>1, <1>2, InvIs, TypesNext
<1>4. SweepInTime'
  BY <1>i, <1>1, <1>2 DEF SweepInTime
<1>5. RunBeforeQueue'
  BY <1>i, <1>1, <1>2 DEF RunBeforeQueue
<1>6. LedgerIsCarried'
  BY <1>i, <1>1, <1>2 DEF LedgerIsCarried
<1>7. ClosedIsKnown'
  BY <1>i, <1>1, <1>2 DEF ClosedIsKnown
<1>8. NoticedInTime'
  <2>1. Noticeable(WindowAt(sweep.at), sweep.at)
    BY <1>h, PlannedIsNoticeable
  <2> QED BY <1>i, <1>1, <1>2, <2>1 DEF NoticedInTime
<1>9. ToldIsKept'
  <2>1. Judged' = Judged /\ Judged \in Nat
    BY <1>i, <1>1, <1>2, JudgedIs DEF Judged
  <2> QED BY <1>h, <1>i, <1>1, <2>1, ToldOn
<1>10. DueHoursPlanned'
  <2>1. \/ ~HasPlanned' \/ faults' # 0 \/ WindowAt(now) \notin landed
    BY <1>i, <1>1, <1>2 DEF HasPlanned, SweepInTime, DueHoursPlanned
  <2> QED BY <1>h, <1>i, <1>1, <2>1, PlannedOn
<1> QED BY <1>3, <1>4, <1>5, <1>6, <1>7, <1>8, <1>9, <1>10 DEF DispatchInv

LEMMA CreateKeeps ==
  ASSUME CalendarTypes, DispatchInv, Create
  PROVE  DispatchInv'
<1>i. /\ DispatchTypeOK /\ SweepInTime /\ RunBeforeQueue /\ LedgerIsCarried
      /\ ClosedIsKnown /\ NoticedInTime /\ ToldIsKept /\ DueHoursPlanned
  BY DEF DispatchInv
<1>h. now \in Nat /\ sweep.at \in Nat /\ faults \in Nat /\ DayHours \in Nat \ {0}
      /\ WindowAt(sweep.at) \in 0..Months
      /\ WindowAt(now) \in 0..Months
  BY <1>i, HoursAre, CalendarIs
<1>1. /\ sweep.pc = "create" /\ zone' = zone /\ now' = now /\ ticking' = ticking
      /\ reads' = reads
      /\ runs' = runs \union {WindowAt(sweep.at)}
      /\ queued' = queued /\ ledger' = ledger /\ told' = told
      /\ looked' = looked /\ landed' = landed /\ faults' = faults
  BY DEF Create, At, clock, history, Planned
<1>p. PICK p \in {"closed", "enqueue"} :
        /\ p = "closed" => WindowAt(sweep.at) \in runs
        /\ Goes(p)
  BY DEF Create, Planned
<1>2. /\ sweep' \in Sweeps /\ sweep'.at = sweep.at /\ sweep'.notices = sweep.notices
      /\ sweep'.pc = p
  BY <1>p, InvIs, GoesIs DEF Places
<1>3. DispatchTypeOK'
  <2>1. runs' \subseteq 0..Months /\ queued' \subseteq runs'
    BY <1>h, <1>1, InvIs
  <2> QED BY <1>1, <1>2, <2>1, InvIs, TypesNext
<1>4. SweepInTime'
  BY <1>i, <1>p, <1>1, <1>2 DEF SweepInTime
<1>5. RunBeforeQueue'
  BY <1>i, <1>p, <1>1, <1>2 DEF RunBeforeQueue
<1>6. LedgerIsCarried'
  BY <1>i, <1>p, <1>1, <1>2 DEF LedgerIsCarried
<1>7. ClosedIsKnown'
  BY <1>i, <1>p, <1>1, <1>2 DEF ClosedIsKnown
<1>8. NoticedInTime'
  BY <1>i, <1>1, <1>2 DEF NoticedInTime
<1>9. ToldIsKept'
  <2>1. Judged' = Judged /\ Judged \in Nat
    BY <1>i, <1>p, <1>1, <1>2, JudgedIs DEF Judged
  <2> QED BY <1>h, <1>i, <1>1, <2>1, ToldOn
<1>10. DueHoursPlanned'
  <2>1. \/ faults' # 0 \/ WindowAt(now) \in runs'
    BY <1>i, <1>1, <1>2 DEF SweepInTime
  <2>2. runs \subseteq runs'
    BY <1>1
  <2> QED BY <1>h, <1>i, <1>1, <2>1, <2>2, PlannedOn
<1> QED BY <1>3, <1>4, <1>5, <1>6, <1>7, <1>8, <1>9, <1>10 DEF DispatchInv

LEMMA EnqueueKeeps ==
  ASSUME CalendarTypes, DispatchInv, EnqueueRun
  PROVE  DispatchInv'
<1>i. /\ DispatchTypeOK /\ SweepInTime /\ RunBeforeQueue /\ LedgerIsCarried
      /\ ClosedIsKnown /\ NoticedInTime /\ ToldIsKept /\ DueHoursPlanned
  BY DEF DispatchInv
<1>h. now \in Nat /\ sweep.at \in Nat /\ faults \in Nat /\ DayHours \in Nat \ {0}
      /\ WindowAt(sweep.at) \in 0..Months
      /\ WindowAt(now) \in 0..Months
  BY <1>i, HoursAre, CalendarIs
<1>1. /\ sweep.pc = "enqueue" /\ zone' = zone /\ now' = now /\ ticking' = ticking
      /\ reads' = reads /\ runs' = runs
      /\ ledger' = ledger /\ told' = told /\ looked' = looked /\ landed' = landed
      /\ \/ queued' = queued \union {WindowAt(sweep.at)} /\ faults' = faults
         \/ queued' = queued /\ faults < MaxFaults /\ faults' = faults + 1
  BY DEF EnqueueRun, At, clock, history,
         Planned, Fault
<1>2. /\ sweep' \in Sweeps /\ sweep'.at = sweep.at /\ sweep'.notices = sweep.notices
      /\ sweep'.pc = "closed"
  BY InvIs, GoesIs DEF Places, EnqueueRun
<1>f. faults' \in 0..MaxFaults /\ faults <= faults'
  <2>1. MaxFaults \in Nat /\ faults \in 0..MaxFaults
    BY CalendarIs, InvIs
  <2> QED BY <1>1, <2>1
<1>3. DispatchTypeOK'
  <2>1. queued' \subseteq runs'
    BY <1>i, <1>1, InvIs DEF RunBeforeQueue
  <2> QED BY <1>f, <1>1, <1>2, <2>1, InvIs, TypesNext
<1>4. SweepInTime'
  BY <1>i, <1>h, <1>1, <1>2 DEF SweepInTime
<1>5. RunBeforeQueue'
  BY <1>i, <1>h, <1>1, <1>2 DEF RunBeforeQueue
<1>6. LedgerIsCarried'
  BY <1>i, <1>1, <1>2 DEF LedgerIsCarried
<1>7. ClosedIsKnown'
  BY <1>i, <1>1, <1>2 DEF ClosedIsKnown
<1>8. NoticedInTime'
  BY <1>i, <1>1, <1>2 DEF NoticedInTime
<1>9. ToldIsKept'
  <2>1. Judged' = Judged /\ Judged \in Nat
    BY <1>i, <1>1, <1>2, JudgedIs DEF Judged
  <2>2. faults' \in Nat
    BY <1>h, <1>1
  <2> QED BY <1>h, <1>f, <1>i, <1>1, <2>1, <2>2, ToldOn
<1>10. DueHoursPlanned'
  <2>1. HasPlanned' => HasPlanned
    BY <1>1 DEF HasPlanned
  <2>2. faults' = 0 => faults = 0
    BY <1>h, <1>1
  <2> QED BY <1>h, <1>i, <1>1, <2>1, <2>2, PlannedOn
<1> QED BY <1>3, <1>4, <1>5, <1>6, <1>7, <1>8, <1>9, <1>10 DEF DispatchInv

LEMMA FindClosedKeeps ==
  ASSUME CalendarTypes, DispatchInv, FindClosed
  PROVE  DispatchInv'
<1>i. /\ DispatchTypeOK /\ SweepInTime /\ RunBeforeQueue /\ LedgerIsCarried
      /\ ClosedIsKnown /\ NoticedInTime /\ ToldIsKept /\ DueHoursPlanned
  BY DEF DispatchInv
<1>h. now \in Nat /\ sweep.at \in Nat /\ faults \in Nat /\ DayHours \in Nat \ {0}
      /\ WindowAt(sweep.at) \in 0..Months
      /\ WindowAt(now) \in 0..Months
  BY <1>i, HoursAre, CalendarIs
<1> DEFINE asOf == ClosedAsOf(sweep.at)
           shut == IF asOf < sweep.at THEN {WindowAt(asOf)} \ runs ELSE {}
<1>1. /\ sweep.pc = "closed" /\ zone' = zone /\ now' = now /\ ticking' = ticking
      /\ reads' = reads /\ runs' = runs
      /\ queued' = queued /\ ledger' = ledger /\ told' = told
      /\ looked' = looked /\ landed' = landed /\ faults' = faults
  BY DEF FindClosed, At, clock, billing, history
<1>w. PICK m \in 1..Months : /\ m = MonthOf(sweep.at)
                             /\ BillDayOf(sweep.at) = Bills(m)
                             /\ Bills(m) \in Nat
  BY <1>h, WindowIs, BillsIs
<1>c. /\ shut \subseteq {m - 1} /\ m - 1 \in 0..Months
      /\ sweep.at >= Bills(m) => m - 1 \in runs \union shut
  <2>1. asOf = Bills(m) - DayHours
    BY <1>w DEF ClosedAsOf
  <2>2. m - 1 \in 0..Months
    BY CalendarIs
  <2>3. asOf < sweep.at => WindowAt(asOf) = m - 1
    BY <1>h, <1>w, ClosedIs
  <2>4. sweep.at >= Bills(m) => asOf < sweep.at
    BY <1>h, <1>w, <2>1
  <2> HIDE DEF asOf
  <2> QED BY <2>2, <2>3, <2>4
<1>2. /\ sweep' \in Sweeps /\ sweep'.at = sweep.at /\ sweep'.pc = "ledger"
      /\ sweep'.notices = sweep.notices \union shut
  <2>1. sweep' = [sweep EXCEPT !.pc = "ledger", !.notices = @ \union shut]
    BY DEF FindClosed
  <2> HIDE DEF shut
  <2>2. shut \subseteq 0..Months
    BY <1>c
  <2> QED BY <2>1, <2>2, InvIs DEF Sweeps, Places
<1> HIDE DEF shut
<1>3. DispatchTypeOK'
  BY <1>1, <1>2, InvIs, TypesNext
<1>4. SweepInTime'
  BY <1>i, <1>1, <1>2 DEF SweepInTime
<1>5. RunBeforeQueue'
  BY <1>i, <1>1, <1>2 DEF RunBeforeQueue
<1>6. LedgerIsCarried'
  BY <1>i, <1>1, <1>2 DEF LedgerIsCarried
<1>7. ClosedIsKnown'
  BY <1>c, <1>i, <1>w, <1>1, <1>2 DEF ClosedIsKnown
<1>8. NoticedInTime'
  <2>1. Noticeable(m - 1, sweep.at)
    BY <1>w DEF Noticeable
  <2>2. \A w \in sweep'.notices : Noticeable(w, sweep'.at)
    BY <1>c, <1>i, <1>2, <2>1 DEF NoticedInTime
  <2> QED BY <1>i, <1>1, <2>2 DEF NoticedInTime
<1>9. ToldIsKept'
  <2>1. Judged' = Judged /\ Judged \in Nat
    BY <1>i, <1>1, <1>2, JudgedIs DEF Judged
  <2> QED BY <1>h, <1>i, <1>1, <2>1, ToldOn
<1>10. DueHoursPlanned'
  <2>1. HasPlanned' => HasPlanned
    BY <1>1 DEF HasPlanned
  <2> QED BY <1>h, <1>i, <1>1, <2>1, PlannedOn
<1> QED BY <1>3, <1>4, <1>5, <1>6, <1>7, <1>8, <1>9, <1>10 DEF DispatchInv

\* A whole sweep has looked at the month's closed window.
LEMMA EndsIs ==
  ASSUME CalendarTypes, DispatchTypeOK, Ends
  PROVE  /\ sweep' \in Sweeps /\ sweep'.pc = "idle" /\ sweep'.notices = {}
         /\ landed' = landed /\ looked' \subseteq 0..Months
         /\ \A w \in looked' :
              \/ w \in looked
              \/ /\ sweep.at >= BillDayOf(sweep.at)
                 /\ w = MonthOf(sweep.at) - 1
<1>1. sweep' = AtRest
  BY DEF Ends, Rests
<1>2. sweep.at \in Nat /\ Months \in Nat
  BY HoursAre
<1>3. MonthOf(sweep.at) - 1 \in 0..Months
  <2>1. PICK m \in 1..Months : m = MonthOf(sweep.at)
    BY <1>2, MonthOfIs
  <2> QED BY <1>2, <2>1
<1>4. looked' = looked \union
        (IF sweep.at >= BillDayOf(sweep.at)
         THEN {MonthOf(sweep.at) - 1} ELSE {})
  BY DEF Ends
<1>5. looked \subseteq 0..Months
  BY TypesAre
<1> QED BY <1>1, <1>3, <1>4, <1>5, AtRestIs DEF Ends

\* The hour a sweep judges by does not go back when it comes to rest.
LEMMA RestsLater ==
  ASSUME CalendarTypes, DispatchTypeOK, SweepInTime, sweep.pc # "idle",
         sweep'.pc = "idle", now' = now
  PROVE  Judged \in Nat /\ Judged' \in Nat /\ Judged <= Judged'
BY HoursAre DEF Judged, SweepInTime

LEMMA ReadLedgerKeeps ==
  ASSUME CalendarTypes, DispatchInv, ReadLedger
  PROVE  DispatchInv'
<1>i. /\ DispatchTypeOK /\ SweepInTime /\ RunBeforeQueue /\ LedgerIsCarried
      /\ ClosedIsKnown /\ NoticedInTime /\ ToldIsKept /\ DueHoursPlanned
  BY DEF DispatchInv
<1>h. now \in Nat /\ sweep.at \in Nat /\ faults \in Nat /\ DayHours \in Nat \ {0}
      /\ WindowAt(sweep.at) \in 0..Months
      /\ WindowAt(now) \in 0..Months
  BY <1>i, HoursAre, CalendarIs
<1>1. /\ sweep.pc = "ledger" /\ zone' = zone /\ now' = now /\ ticking' = ticking
      /\ reads' = reads /\ runs' = runs
      /\ queued' = queued /\ ledger' = ledger /\ told' = told /\ faults' = faults
  BY DEF ReadLedger, At, clock, billing
<1>2. \/ /\ Untold(sweep.notices, ledger) = {} /\ Ends
      \/ /\ sweep' = [sweep EXCEPT !.pc = "send",
                        !.fresh = Untold(sweep.notices, ledger),
                        !.ledger = ledger]
         /\ looked' = looked /\ landed' = landed
  BY DEF ReadLedger, history
<1>a. CASE Untold(sweep.notices, ledger) = {} /\ Ends
  <2>1. /\ sweep' \in Sweeps /\ sweep'.pc = "idle" /\ sweep'.notices = {}
        /\ landed' = landed /\ looked' \subseteq 0..Months
        /\ \A w \in looked' :
             \/ w \in looked
             \/ /\ sweep.at >= BillDayOf(sweep.at)
                /\ w = MonthOf(sweep.at) - 1
    BY <1>a, <1>i, EndsIs
  <2>3. DispatchTypeOK'
    BY <1>1, <2>1, InvIs, TypesNext
  <2>4. SweepInTime'
    BY <1>i, <1>1, <2>1 DEF SweepInTime
  <2>5. RunBeforeQueue'
    BY <1>i, <1>1, <2>1 DEF RunBeforeQueue
  <2>6. LedgerIsCarried'
    BY <1>i, <1>1, <2>1 DEF LedgerIsCarried
  <2>7. ClosedIsKnown'
    <3>1. ASSUME NEW w \in looked' PROVE w \in runs' \/ told'[w] > 0
      <4>1. CASE w \in looked
        BY <1>i, <1>1, <4>1 DEF ClosedIsKnown
      <4>2. CASE /\ sweep.at >= BillDayOf(sweep.at)
                 /\ w = MonthOf(sweep.at) - 1
        <5>1. w \in runs \/ w \in sweep.notices
          BY <1>i, <1>1, <4>2 DEF ClosedIsKnown
        <5>2. w \in sweep.notices => ledger[w] # -1
          BY <1>a DEF Untold, Never
        <5>3. w \in 0..Months
          BY <2>1, <3>1
        <5> QED BY <1>i, <1>1, <5>1, <5>2, <5>3 DEF LedgerIsCarried
      <4> QED BY <2>1, <3>1, <4>1, <4>2
    <3> QED BY <2>1, <3>1 DEF ClosedIsKnown
  <2>8. NoticedInTime'
    BY <1>i, <1>1, <2>1 DEF NoticedInTime
  <2>9. ToldIsKept'
    <3>1. Judged \in Nat /\ Judged' \in Nat /\ Judged <= Judged'
      BY <1>i, <1>1, <2>1, RestsLater
    <3> QED BY <1>h, <1>i, <1>1, <3>1, ToldOn
  <2>10. DueHoursPlanned'
    <3>1. HasPlanned' => HasPlanned
      BY <1>1 DEF HasPlanned
    <3> QED BY <1>h, <1>i, <1>1, <2>1, <3>1, PlannedOn
  <2> QED BY <2>3, <2>4, <2>5, <2>6, <2>7, <2>8, <2>9, <2>10 DEF DispatchInv
<1>b. CASE /\ sweep' = [sweep EXCEPT !.pc = "send",
                        !.fresh = Untold(sweep.notices, ledger),
                        !.ledger = ledger]
           /\ looked' = looked /\ landed' = landed
  <2>0. Untold(sweep.notices, ledger) \subseteq 0..Months
    BY InvIs, SweepIs DEF Untold
  <2>1. /\ sweep' \in Sweeps /\ sweep'.pc = "send" /\ sweep'.at = sweep.at
        /\ sweep'.notices = sweep.notices /\ sweep'.ledger = ledger
        /\ sweep'.fresh = Untold(sweep.notices, ledger)
    <3>1. PICK F \in SUBSET (0..Months) : F = Untold(sweep.notices, ledger)
      BY <2>0
    <3>2. sweep' = [sweep EXCEPT !.pc = "send", !.fresh = F, !.ledger = ledger]
      BY <1>b, <3>1
    <3> QED BY <3>1, <3>2, InvIs DEF Sweeps, Places
  <2>3. DispatchTypeOK'
    BY <1>b, <1>1, <2>1, InvIs, TypesNext
  <2>4. SweepInTime'
    BY <1>i, <1>1, <2>1 DEF SweepInTime
  <2>5. RunBeforeQueue'
    BY <1>i, <1>1, <2>1 DEF RunBeforeQueue
  <2>6. LedgerIsCarried'
    BY <1>i, <1>1, <2>1 DEF LedgerIsCarried, Untold
  <2>7. ClosedIsKnown'
    BY <1>b, <1>i, <1>1, <2>1 DEF ClosedIsKnown
  <2>8. NoticedInTime'
    BY <1>i, <1>1, <2>1 DEF NoticedInTime
  <2>9. ToldIsKept'
    <3>1. Judged' = Judged /\ Judged \in Nat
      BY <1>i, <1>1, <2>1, JudgedIs DEF Judged
    <3> QED BY <1>h, <1>i, <1>1, <3>1, ToldOn
  <2>10. DueHoursPlanned'
    <3>1. HasPlanned' => HasPlanned
      BY <1>1 DEF HasPlanned
    <3> QED BY <1>b, <1>h, <1>i, <1>1, <3>1, PlannedOn
  <2> QED BY <2>3, <2>4, <2>5, <2>6, <2>7, <2>8, <2>9, <2>10 DEF DispatchInv
<1> QED BY <1>2, <1>a, <1>b

LEMMA SendKeeps ==
  ASSUME CalendarTypes, DispatchInv, Send
  PROVE  DispatchInv'
<1>i. /\ DispatchTypeOK /\ SweepInTime /\ RunBeforeQueue /\ LedgerIsCarried
      /\ ClosedIsKnown /\ NoticedInTime /\ ToldIsKept /\ DueHoursPlanned
  BY DEF DispatchInv
<1>h. now \in Nat /\ sweep.at \in Nat /\ faults \in Nat /\ DayHours \in Nat \ {0}
      /\ WindowAt(sweep.at) \in 0..Months
      /\ WindowAt(now) \in 0..Months
  BY <1>i, HoursAre, CalendarIs
<1>1. /\ sweep.pc = "send" /\ zone' = zone /\ now' = now /\ ticking' = ticking
      /\ reads' = reads /\ runs' = runs
      /\ queued' = queued /\ ledger' = ledger
      /\ looked' = looked /\ landed' = landed /\ faults' = faults
  BY DEF Send, At, clock, billing, history
<1>2. /\ sweep' \in Sweeps /\ sweep'.at = sweep.at /\ sweep'.notices = sweep.notices
      /\ sweep'.pc = "write" /\ sweep'.fresh = sweep.fresh /\ sweep'.ledger = sweep.ledger
  BY InvIs, GoesIs DEF Places, Send
<1>t. /\ told' \in [0..Months -> Nat]
      /\ \A w \in 0..Months : /\ w \in sweep.fresh => told'[w] = told[w] + 1
                              /\ w \notin sweep.fresh => told'[w] = told[w]
  <2>1. told' = [w \in 0..Months |-> told[w] + (IF w \in sweep.fresh THEN 1 ELSE 0)]
    BY CalendarIs DEF Send
  <2>2. told \in [0..Months -> Nat]
    BY InvIs
  <2>3. ASSUME NEW w \in 0..Months
        PROVE  told[w] + (IF w \in sweep.fresh THEN 1 ELSE 0) \in Nat
    BY <2>2
  <2> QED BY <2>1, <2>2, <2>3
<1>u. told \in [0..Months -> Nat] /\ sweep.fresh \subseteq 0..Months
  BY InvIs, SweepIs
<1>g. \A w \in 0..Months : told'[w] >= told[w]
  BY <1>t, <1>u
<1>3. DispatchTypeOK'
  BY <1>t, <1>1, <1>2, InvIs, TypesNext
<1>4. SweepInTime'
  BY <1>i, <1>1, <1>2 DEF SweepInTime
<1>5. RunBeforeQueue'
  BY <1>i, <1>1, <1>2 DEF RunBeforeQueue
<1>6. LedgerIsCarried'
  <2>1. \A w \in 0..Months : ledger'[w] # -1 => told'[w] > 0
    BY <1>g, <1>i, <1>t, <1>u, <1>1 DEF LedgerIsCarried
  <2>2. \A w \in sweep'.fresh : told'[w] > 0
    BY <1>t, <1>u, <1>2
  <2>3. sweep'.ledger = ledger' /\ sweep'.fresh = Untold(sweep'.notices, ledger')
    BY <1>i, <1>1, <1>2 DEF LedgerIsCarried
  <2> QED BY <2>1, <2>2, <2>3 DEF LedgerIsCarried, Untold
<1>7. ClosedIsKnown'
  <2>1. ASSUME NEW w \in looked' PROVE w \in runs' \/ told'[w] > 0
    <3>1. w \in 0..Months /\ (w \in runs \/ told[w] > 0)
      BY <1>i, <1>1, <2>1, InvIs DEF ClosedIsKnown
    <3> QED BY <1>g, <1>t, <1>u, <1>1, <3>1
  <2> QED BY <1>i, <1>1, <1>2, <2>1 DEF ClosedIsKnown
<1>8. NoticedInTime'
  BY <1>i, <1>1, <1>2 DEF NoticedInTime
<1>9. ToldIsKept'
  <2>1. ASSUME NEW w \in 0..Months PROVE told'[w] <= 1 + faults'
    <3>1. CASE w \notin sweep.fresh
      BY <1>i, <1>t, <1>1, <3>1 DEF ToldIsKept
    <3>2. CASE w \in sweep.fresh
      <4>1. w \in sweep.notices /\ ledger[w] = -1
        BY <1>i, <1>1, <3>2 DEF LedgerIsCarried, Untold, Never
      <4>2. Noticeable(w, sweep.at)
        BY <1>i, <4>1 DEF NoticedInTime
      <4>3. ~(MonthOf(sweep.at) > w + 1)
        BY <4>2 DEF Noticeable
      <4>4. ~(told[w] > faults)
        BY <1>i, <1>1, <4>1, <4>3 DEF ToldIsKept, Judged
      <4>5. told[w] \in Nat /\ told'[w] = told[w] + 1
        BY <1>t, <1>u, <3>2
      <4> QED BY <1>h, <1>1, <4>4, <4>5
    <3> QED BY <3>1, <3>2
  <2>2. ASSUME NEW w \in 0..Months, ledger'[w] = -1, told'[w] > faults',
               ~(sweep'.pc = "write" /\ w \in sweep'.fresh)
        PROVE  MonthOf(Judged)' > w + 1
    <3>1. w \notin sweep.fresh /\ told'[w] = told[w]
      BY <1>t, <1>2, <2>2
    <3>2. Judged' = Judged
      BY <1>1, <1>2 DEF Judged
    <3>3. MonthOf(Judged) > w + 1
      BY <1>i, <1>1, <2>2, <3>1 DEF ToldIsKept
    <3> QED BY <3>2, <3>3
  <2> QED BY <2>1, <2>2 DEF ToldIsKept
<1>10. DueHoursPlanned'
  <2>1. HasPlanned' => HasPlanned
    BY <1>1 DEF HasPlanned
  <2> QED BY <1>h, <1>i, <1>1, <2>1, PlannedOn
<1> QED BY <1>3, <1>4, <1>5, <1>6, <1>7, <1>8, <1>9, <1>10 DEF DispatchInv

LEMMA WriteLedgerKeeps ==
  ASSUME CalendarTypes, DispatchInv, WriteLedger
  PROVE  DispatchInv'
<1>i. /\ DispatchTypeOK /\ SweepInTime /\ RunBeforeQueue /\ LedgerIsCarried
      /\ ClosedIsKnown /\ NoticedInTime /\ ToldIsKept /\ DueHoursPlanned
  BY DEF DispatchInv
<1>h. now \in Nat /\ sweep.at \in Nat /\ faults \in Nat /\ DayHours \in Nat \ {0}
      /\ WindowAt(sweep.at) \in 0..Months
      /\ WindowAt(now) \in 0..Months
  BY <1>i, HoursAre, CalendarIs
<1>1. /\ sweep.pc = "write" /\ zone' = zone /\ now' = now /\ ticking' = ticking
      /\ reads' = reads /\ runs' = runs
      /\ queued' = queued /\ told' = told /\ faults' = faults /\ Ends
  BY DEF WriteLedger, At, clock, billing
<1>2. /\ sweep' \in Sweeps /\ sweep'.pc = "idle" /\ sweep'.notices = {}
      /\ landed' = landed /\ looked' \subseteq 0..Months
      /\ \A w \in looked' :
           \/ w \in looked
           \/ /\ sweep.at >= BillDayOf(sweep.at)
              /\ w = MonthOf(sweep.at) - 1
  BY <1>i, <1>1, EndsIs
<1>e. /\ sweep.at <= End /\ End \in Nat /\ Retention \in Nat
      /\ ledger \in [0..Months -> -1..End]
      /\ told \in [0..Months -> Nat] /\ sweep.fresh \subseteq 0..Months
  BY <1>i, HoursAre, CalendarIs, InvIs, SweepIs
\* Each window's entry: just said, kept as it was, or past its retention.
<1>s. /\ ledger' \in [0..Months -> -1..End]
      /\ \A w \in 0..Months :
           \/ w \in sweep.fresh /\ ledger'[w] = sweep.at
           \/ w \notin sweep.fresh /\ ledger'[w] = ledger[w]
           \/ /\ w \notin sweep.fresh /\ ledger[w] < sweep.at - Retention
              /\ ledger'[w] = -1
  <2>1. ledger' = [w \in 0..Months |-> Stamped(w)]
    BY CalendarIs DEF WriteLedger
  <2>2. sweep.ledger = ledger
    BY <1>i, <1>1 DEF LedgerIsCarried
  <2>3. ASSUME NEW w \in 0..Months
        PROVE  /\ Stamped(w) \in -1..End
               /\ \/ w \in sweep.fresh /\ Stamped(w) = sweep.at
                  \/ w \notin sweep.fresh /\ Stamped(w) = ledger[w]
                  \/ /\ w \notin sweep.fresh /\ ledger[w] < sweep.at - Retention
                     /\ Stamped(w) = -1
    <3>1. Stamped(w) =
            IF w \in sweep.fresh THEN sweep.at
            ELSE IF ledger[w] < sweep.at - Retention THEN -1 ELSE ledger[w]
      BY <2>2 DEF Stamped, Never
    <3>2. ledger[w] \in -1..End /\ sweep.at \in -1..End
          /\ -1 \in -1..End
      BY <1>e, <1>h
    <3> QED BY <3>1, <3>2
  <2> QED BY <2>1, <2>3
<1>3. DispatchTypeOK'
  BY <1>s, <1>1, <1>2, InvIs, TypesNext
<1>4. SweepInTime'
  BY <1>i, <1>1, <1>2 DEF SweepInTime
<1>5. RunBeforeQueue'
  BY <1>i, <1>1, <1>2 DEF RunBeforeQueue
<1>6. LedgerIsCarried'
  <2>1. ASSUME NEW w \in 0..Months, ledger'[w] # -1 PROVE told'[w] > 0
    <3>1. CASE w \in sweep.fresh
      BY <1>i, <1>1, <3>1 DEF LedgerIsCarried
    <3>2. CASE w \notin sweep.fresh
      <4>1. ledger[w] # -1
        BY <1>s, <2>1, <3>2
      <4> QED BY <1>i, <1>1, <4>1 DEF LedgerIsCarried
    <3> QED BY <3>1, <3>2
  <2> QED BY <1>2, <2>1 DEF LedgerIsCarried
<1>7. ClosedIsKnown'
  <2>1. ASSUME NEW w \in looked' PROVE w \in runs' \/ told'[w] > 0
    <3>1. CASE w \in looked
      BY <1>i, <1>1, <3>1 DEF ClosedIsKnown
    <3>2. CASE /\ sweep.at >= BillDayOf(sweep.at)
               /\ w = MonthOf(sweep.at) - 1
      <4>1. w \in runs \/ w \in sweep.notices
        BY <1>i, <1>1, <3>2 DEF ClosedIsKnown
      <4>2. w \in sweep.notices => w \in sweep.fresh \/ ledger[w] # -1
        BY <1>i, <1>1 DEF LedgerIsCarried, Untold, Never
      <4>3. w \in 0..Months
        BY <1>2, <2>1
      <4> QED BY <1>i, <1>1, <4>1, <4>2, <4>3 DEF LedgerIsCarried
    <3> QED BY <1>2, <2>1, <3>1, <3>2
  <2> QED BY <1>2, <2>1 DEF ClosedIsKnown
<1>8. NoticedInTime'
  <2>1. ASSUME NEW w \in 0..Months, ledger'[w] # -1 PROVE Noticeable(w, ledger'[w])
    <3>1. CASE w \in sweep.fresh
      <4>1. w \in sweep.notices
        BY <1>i, <1>1, <3>1 DEF LedgerIsCarried, Untold
      <4>2. ledger'[w] = sweep.at
        BY <1>s, <3>1
      <4> QED BY <1>i, <4>1, <4>2 DEF NoticedInTime
    <3>2. CASE w \notin sweep.fresh
      <4>1. ledger'[w] = ledger[w]
        BY <1>s, <2>1, <3>2
      <4> QED BY <1>i, <2>1, <4>1 DEF NoticedInTime
    <3> QED BY <3>1, <3>2
  <2> QED BY <1>2, <2>1 DEF NoticedInTime
<1>9. ToldIsKept'
  <2>1. PICK j \in Nat, k \in Nat : j = sweep.at /\ k = Judged' /\ j <= k
    BY <1>h, <1>i, <1>1, <1>2 DEF Judged, SweepInTime
  <2>2. ASSUME NEW w \in 0..Months, ledger'[w] = -1, told'[w] > faults'
        PROVE  MonthOf(Judged)' > w + 1
    <3>1. MonthOf(j) > w + 1
      <4>1. w \notin sweep.fresh
        BY <1>h, <1>s, <2>2
      <4>2. CASE ledger[w] = -1
        BY <1>i, <1>1, <2>1, <2>2, <4>1, <4>2 DEF ToldIsKept, Judged
      <4>3. CASE ledger[w] # -1
        <5>1. PICK s \in Nat : s = ledger[w] /\ s < sweep.at - Retention
          BY <1>e, <1>s, <2>2, <4>1, <4>3
        <5>2. Noticeable(w, s)
          BY <1>i, <4>3, <5>1 DEF NoticedInTime
        <5>3. s + Retention < j /\ j <= End
          BY <1>e, <2>1, <5>1
        <5> QED BY <5>2, <5>3, DroppedIsPast
      <4> QED BY <4>2, <4>3
    <3>2. MonthOf(j) <= MonthOf(k)
      BY <2>1, MonthsGoOn
    <3>3. MonthOf(j) \in 1..Months /\ MonthOf(k) \in 1..Months
      BY <2>1, MonthOfIs
    <3>4. MonthOf(k) > w + 1
      BY <3>1, <3>2, <3>3
    <3> QED BY <2>1, <3>4
  <2>3. ASSUME NEW w \in 0..Months PROVE told'[w] <= 1 + faults'
    BY <1>i, <1>1 DEF ToldIsKept
  <2> QED BY <2>2, <2>3 DEF ToldIsKept
<1>10. DueHoursPlanned'
  <2>1. HasPlanned' => HasPlanned
    BY <1>1 DEF HasPlanned
  <2> QED BY <1>h, <1>i, <1>1, <1>2, <2>1, PlannedOn
<1> QED BY <1>3, <1>4, <1>5, <1>6, <1>7, <1>8, <1>9, <1>10 DEF DispatchInv

LEMMA DiesKeeps ==
  ASSUME CalendarTypes, DispatchInv, Dies
  PROVE  DispatchInv'
<1>i. /\ DispatchTypeOK /\ SweepInTime /\ RunBeforeQueue /\ LedgerIsCarried
      /\ ClosedIsKnown /\ NoticedInTime /\ ToldIsKept /\ DueHoursPlanned
  BY DEF DispatchInv
<1>h. now \in Nat /\ sweep.at \in Nat /\ faults \in Nat /\ DayHours \in Nat \ {0}
      /\ WindowAt(sweep.at) \in 0..Months
      /\ WindowAt(now) \in 0..Months
  BY <1>i, HoursAre, CalendarIs
<1>1. /\ sweep.pc # "idle" /\ zone' = zone /\ now' = now /\ ticking' = ticking
      /\ reads' = reads /\ runs' = runs
      /\ queued' = queued /\ ledger' = ledger /\ told' = told
      /\ looked' = looked /\ landed' = landed
      /\ faults < MaxFaults /\ faults' = faults + 1
  BY DEF Dies, At, clock, billing, history,
         Fault
<1>2. sweep' \in Sweeps /\ sweep'.pc = "idle" /\ sweep'.notices = {}
  BY AtRestIs DEF Dies, Rests
<1>f. faults' \in 0..MaxFaults /\ faults' # 0
  BY <1>h, <1>1, CalendarIs
<1>3. DispatchTypeOK'
  BY <1>f, <1>1, <1>2, InvIs, TypesNext
<1>4. SweepInTime'
  BY <1>i, <1>1, <1>2 DEF SweepInTime
<1>5. RunBeforeQueue'
  BY <1>f, <1>2 DEF RunBeforeQueue
<1>6. LedgerIsCarried'
  BY <1>i, <1>1, <1>2 DEF LedgerIsCarried
<1>7. ClosedIsKnown'
  BY <1>i, <1>1, <1>2 DEF ClosedIsKnown
<1>8. NoticedInTime'
  BY <1>i, <1>1, <1>2 DEF NoticedInTime
<1>9. ToldIsKept'
  <2>1. Judged \in Nat /\ Judged' \in Nat /\ Judged <= Judged'
    BY <1>i, <1>1, <1>2, RestsLater
  <2>2. faults' \in Nat /\ faults <= faults'
    BY <1>h, <1>1
  <2> QED BY <1>i, <1>1, <2>1, <2>2, ToldOn
<1>10. DueHoursPlanned'
  BY <1>f, <1>h, <1>i, <1>1, PlannedOn
<1> QED BY <1>3, <1>4, <1>5, <1>6, <1>7, <1>8, <1>9, <1>10 DEF DispatchInv

LEMMA HourKeeps ==
  ASSUME CalendarTypes, DispatchInv, Hour
  PROVE  DispatchInv'
<1>i. /\ DispatchTypeOK /\ SweepInTime /\ RunBeforeQueue /\ LedgerIsCarried
      /\ ClosedIsKnown /\ NoticedInTime /\ ToldIsKept /\ DueHoursPlanned
  BY DEF DispatchInv
<1>h. now \in Nat /\ sweep.at \in Nat /\ faults \in Nat /\ DayHours \in Nat \ {0}
      /\ WindowAt(sweep.at) \in 0..Months
      /\ WindowAt(now) \in 0..Months
  BY <1>i, HoursAre, CalendarIs
<1>1. /\ zone' = zone /\ now' = now + 1 /\ ticking' = TRUE
      /\ reads' = reads /\ runs' = runs /\ sweep' = sweep
      /\ queued' = queued /\ ledger' = ledger /\ told' = told
      /\ looked' = looked /\ landed' = landed
      /\ now < End
      /\ \/ ~ticking /\ sweep.pc = "idle" /\ faults' = faults
         \/ faults < MaxFaults /\ faults' = faults + 1
  BY DEF Hour, At, billing, history, Fault
<1>f. faults' \in 0..MaxFaults /\ faults' \in Nat /\ faults <= faults'
  <2>1. faults \in 0..MaxFaults /\ MaxFaults \in Nat
    BY InvIs, CalendarIs
  <2> QED BY <1>h, <1>1, <2>1
<1>3. DispatchTypeOK'
  <2>1. now' \in 0..End /\ ticking' \in BOOLEAN
    BY <1>h, <1>1, EndIs
  <2> QED BY <1>f, <1>1, <2>1, InvIs, TypesNext
<1>4. SweepInTime'
  BY <1>h, <1>i, <1>1 DEF SweepInTime
<1>5. RunBeforeQueue'
  BY <1>h, <1>i, <1>1 DEF RunBeforeQueue
<1>6. LedgerIsCarried'
  BY <1>i, <1>1 DEF LedgerIsCarried, Untold
<1>7. ClosedIsKnown'
  BY <1>i, <1>1 DEF ClosedIsKnown
<1>8. NoticedInTime'
  BY <1>i, <1>1 DEF NoticedInTime
<1>9. ToldIsKept'
  <2>1. Judged \in Nat /\ Judged' \in Nat /\ Judged <= Judged'
    BY <1>h, <1>1 DEF Judged
  <2>2. sweep.pc # "write" \/ faults' = faults + 1
    BY <1>1
  <2> QED BY <1>f, <1>i, <1>1, <2>1, <2>2, ToldOn
<1>10. DueHoursPlanned'
  <2>1. landed' \subseteq reads' /\ landed' \subseteq 1..Months
    BY <1>i, <1>1 DEF DueHoursPlanned
  <2>2. ASSUME faults' = 0, NEW t \in DayHours..now', t < now' \/ HasPlanned',
               DueAt(t)', WindowAt(t) \in landed'
        PROVE  WindowAt(t) \in runs'
    <3>1. faults = 0 /\ HasPlanned
      BY <1>h, <1>1, <2>2 DEF HasPlanned
    <3>2. DueAt(t) /\ WindowAt(t) \in landed
      BY <1>1, <2>2, SameZone
    <3>3. ~HasPlanned'
      BY <1>1 DEF HasPlanned
    <3>4. t \in DayHours..now
      BY <1>h, <1>1, <2>2, <3>3
    <3> QED BY <1>i, <1>1, <3>1, <3>2, <3>4 DEF DueHoursPlanned
  <2> QED BY <2>1, <2>2 DEF DueHoursPlanned
<1> QED BY <1>3, <1>4, <1>5, <1>6, <1>7, <1>8, <1>9, <1>10 DEF DispatchInv

LEMMA RunByHandKeeps ==
  ASSUME CalendarTypes, DispatchInv, RunByHand
  PROVE  DispatchInv'
<1>i. /\ DispatchTypeOK /\ SweepInTime /\ RunBeforeQueue /\ LedgerIsCarried
      /\ ClosedIsKnown /\ NoticedInTime /\ ToldIsKept /\ DueHoursPlanned
  BY DEF DispatchInv
<1>h. now \in Nat /\ sweep.at \in Nat /\ faults \in Nat /\ DayHours \in Nat \ {0}
      /\ WindowAt(sweep.at) \in 0..Months
      /\ WindowAt(now) \in 0..Months
  BY <1>i, HoursAre, CalendarIs
<1>1. /\ zone' = zone /\ now' = now /\ ticking' = ticking
      /\ reads' = reads /\ runs' = runs \union {WindowAt(now)}
      /\ queued' = queued \union {WindowAt(now)}
      /\ sweep' = sweep /\ ledger' = ledger /\ told' = told
      /\ looked' = looked /\ landed' = landed /\ faults' = faults
  BY DEF RunByHand, clock, history
<1>3. DispatchTypeOK'
  <2>1. runs' \subseteq 0..Months /\ queued' \subseteq runs'
        /\ queued' \subseteq 0..Months
    BY <1>h, <1>1, InvIs
  <2> QED BY <1>1, <2>1, InvIs, TypesNext
<1>4. SweepInTime'
  BY <1>i, <1>1 DEF SweepInTime
<1>5. RunBeforeQueue'
  BY <1>i, <1>1 DEF RunBeforeQueue
<1>6. LedgerIsCarried'
  BY <1>i, <1>1 DEF LedgerIsCarried, Untold
<1>7. ClosedIsKnown'
  BY <1>i, <1>1 DEF ClosedIsKnown
<1>8. NoticedInTime'
  BY <1>i, <1>1 DEF NoticedInTime
<1>9. ToldIsKept'
  BY <1>i, <1>1 DEF ToldIsKept, Judged
<1>10. DueHoursPlanned'
  <2>1. HasPlanned' = HasPlanned
    BY <1>1 DEF HasPlanned
  <2>2. runs \subseteq runs'
    BY <1>1
  <2> QED BY <1>h, <1>i, <1>1, <2>1, <2>2, PlannedOn
<1> QED BY <1>3, <1>4, <1>5, <1>6, <1>7, <1>8, <1>9, <1>10 DEF DispatchInv

LEMMA ReadsLandKeeps ==
  ASSUME CalendarTypes, DispatchInv, NEW v \in 0..Months, ReadsLand(v)
  PROVE  DispatchInv'
<1>i. /\ DispatchTypeOK /\ SweepInTime /\ RunBeforeQueue /\ LedgerIsCarried
      /\ ClosedIsKnown /\ NoticedInTime /\ ToldIsKept /\ DueHoursPlanned
  BY DEF DispatchInv
<1>h. now \in Nat /\ sweep.at \in Nat /\ faults \in Nat /\ DayHours \in Nat \ {0}
      /\ WindowAt(sweep.at) \in 0..Months
      /\ WindowAt(now) \in 0..Months
  BY <1>i, HoursAre, CalendarIs
<1>1. /\ zone' = zone /\ now' = now /\ ticking' = ticking
      /\ reads' = reads \union {v} /\ runs' = runs /\ queued' = queued
      /\ sweep' = sweep /\ ledger' = ledger /\ told' = told
      /\ looked' = looked /\ faults' = faults
  BY DEF ReadsLand, clock
<1>2. /\ landed \subseteq landed' /\ landed' \subseteq landed \union {v}
      /\ v \in landed' \ landed => v \in 1..Months /\ now < Bills(v)
  <2>1. landed' = IF v \in 1..Months /\ now < Bills(v) THEN landed \union {v} ELSE landed
    BY CalendarIs DEF ReadsLand, Bills, Starts
  <2> QED BY <2>1
<1>3. DispatchTypeOK'
  <2>1. reads' \subseteq 0..Months /\ landed' \subseteq 0..Months
    BY <1>1, <1>2, InvIs
  <2> QED BY <1>1, <2>1, InvIs, TypesNext
<1>4. SweepInTime'
  BY <1>i, <1>1 DEF SweepInTime
<1>5. RunBeforeQueue'
  BY <1>i, <1>1 DEF RunBeforeQueue
<1>6. LedgerIsCarried'
  BY <1>i, <1>1 DEF LedgerIsCarried, Untold
<1>7. ClosedIsKnown'
  BY <1>i, <1>1 DEF ClosedIsKnown
<1>8. NoticedInTime'
  BY <1>i, <1>1 DEF NoticedInTime
<1>9. ToldIsKept'
  BY <1>i, <1>1 DEF ToldIsKept, Judged
<1>10. DueHoursPlanned'
  <2>1. landed' \subseteq reads' /\ landed' \subseteq 1..Months
    BY <1>i, <1>1, <1>2 DEF DueHoursPlanned
  <2>2. ASSUME faults' = 0, NEW t \in DayHours..now', t < now' \/ HasPlanned',
               DueAt(t)', WindowAt(t) \in landed'
        PROVE  WindowAt(t) \in runs'
    <3>1. HasPlanned' = HasPlanned
      BY <1>1 DEF HasPlanned
    <3>2. DueAt(t)
      BY <1>1, <2>2, SameZone
    <3>3. WindowAt(t) \in landed
      <4>1. SUFFICES ASSUME WindowAt(t) \notin landed PROVE FALSE
        OBVIOUS
      <4>2. WindowAt(t) = v /\ v \in 1..Months /\ now < Bills(v)
        BY <1>2, <2>2, <4>1
      <4>3. t \in Nat /\ t <= now
        BY <1>h, <1>1, <2>2
      <4>4. Bills(v) <= t /\ Bills(v) \in Nat
        BY <4>2, <4>3, WindowEnds, BillsIs
      <4> QED BY <1>h, <4>2, <4>3, <4>4
    <3> QED BY <1>i, <1>1, <2>2, <3>1, <3>2, <3>3 DEF DueHoursPlanned
  <2> QED BY <2>1, <2>2 DEF DueHoursPlanned
<1> QED BY <1>3, <1>4, <1>5, <1>6, <1>7, <1>8, <1>9, <1>10 DEF DispatchInv

LEMMA StutterKeeps ==
  ASSUME DispatchInv, UNCHANGED dispatchVars
  PROVE  DispatchInv'
<1>1. /\ zone' = zone /\ now' = now /\ ticking' = ticking
      /\ reads' = reads /\ runs' = runs /\ queued' = queued
      /\ sweep' = sweep /\ ledger' = ledger /\ told' = told
      /\ looked' = looked /\ landed' = landed /\ faults' = faults
  BY DEF dispatchVars
<1>2. DispatchTypeOK'
  BY <1>1 DEF DispatchInv, DispatchTypeOK
<1>3. SweepInTime' /\ RunBeforeQueue'
  BY <1>1 DEF DispatchInv, SweepInTime, RunBeforeQueue
<1>4. LedgerIsCarried' /\ ClosedIsKnown' /\ NoticedInTime'
  BY <1>1 DEF DispatchInv, LedgerIsCarried, ClosedIsKnown, NoticedInTime,
              Untold
<1>5. ToldIsKept'
  BY <1>1 DEF DispatchInv, ToldIsKept, Judged
<1>6. DueHoursPlanned'
  <2>1. \A t : DueAt(t) <=> DueAt(t)'
    BY <1>1, SameZone
  <2>2. HasPlanned' = HasPlanned
    BY <1>1 DEF HasPlanned
  <2> QED BY <1>1, <2>1, <2>2 DEF DispatchInv, DueHoursPlanned
<1> QED BY <1>2, <1>3, <1>4, <1>5, <1>6 DEF DispatchInv

THEOREM DispatchInvariance == DispatchSpec => []DispatchInv
<1>1. CalendarTypes
  BY CalendarAssumption
<1>2. DispatchInit => DispatchInv
  BY <1>1, DispatchStarts
<1>3. DispatchInv /\ [DispatchNext]_dispatchVars => DispatchInv'
  <2> SUFFICES ASSUME DispatchInv, [DispatchNext]_dispatchVars PROVE DispatchInv'
    OBVIOUS
  <2>1. CASE Sweep
    BY <1>1, <2>1, StartKeeps, PlanKeeps, CheckReadsKeeps, CreateKeeps, EnqueueKeeps,
       FindClosedKeeps, ReadLedgerKeeps, SendKeeps, WriteLedgerKeeps DEF Sweep
  <2>2. CASE Dies \/ Hour \/ RunByHand
    BY <1>1, <2>2, DiesKeeps, HourKeeps, RunByHandKeeps
  <2>3. CASE \E w \in Window : ReadsLand(w)
    BY <1>1, <2>3, ReadsLandKeeps, CalendarIs
  <2>4. CASE UNCHANGED dispatchVars
    BY <2>4, StutterKeeps
  <2> QED BY <2>1, <2>2, <2>3, <2>4 DEF DispatchNext
<1> QED BY <1>2, <1>3, PTL DEF DispatchSpec

(***************************************************************************)
(* reportBillingNotices tells the tenant of every window that a whole      *)
(* sweep found closed without a run, and tells it once, but for one more   *)
(* time with each sweep that died or hour that was missed: the ledger      *)
(* forgets a window only when no sweep can notice it any more.             *)
(***************************************************************************)
THEOREM ToldOnce == DispatchSpec => []UnbilledIsToldOnce
<1>1. CalendarTypes
  BY CalendarAssumption
<1>2. DispatchInv => UnbilledIsToldOnce
  BY <1>1, CalendarIs
  DEF DispatchInv, ClosedIsKnown, ToldIsKept, UnbilledIsToldOnce
<1>3. DispatchSpec => []DispatchInv
  BY <1>1, DispatchInvariance
<1> QED BY <1>2, <1>3, PTL

(***************************************************************************)
(* On any calendar and in any zone whose clock does not jump from the run  *)
(* hour, or one before it, to the next day, dispatchBilling bills each     *)
(* window whose reads were in before its bill day by the end of the        *)
(* tenant's month, as long as no hour's sweep is missed and no job lost.   *)
(***************************************************************************)
THEOREM BilledInTime == RunHourIsKept => (DispatchSpec => []BilledByMonthEnd)
<1>0. SUFFICES ASSUME RunHourIsKept PROVE DispatchSpec => []BilledByMonthEnd
  OBVIOUS
<1>1. CalendarTypes /\ RunHourIsKept
  BY <1>0, CalendarAssumption
<1>2. DispatchInv => BilledByMonthEnd
  <2> SUFFICES ASSUME DispatchInv, NEW m \in Month, m \in landed, faults = 0,
                      At("idle"), ~ticking,
                      MonthOf(Local(now)) > m
               PROVE  m \in queued
    BY DEF BilledByMonthEnd
  <2>1. m \in 1..Months /\ now \in Nat /\ now >= DayHours /\ zone \in Zones
        /\ DayHours \in Nat
    BY <1>1, CalendarIs, InvIs, HoursAre DEF DispatchInv, SweepInTime
  <2>2. PICK t \in DayHours..now : /\ t < now /\ DueAt(t)
                                   /\ WindowAt(t) = m
    BY <1>1, <2>1, DueHour
  <2>3. m \in runs
    BY <2>2 DEF DispatchInv, DueHoursPlanned
  <2> QED BY <2>3 DEF DispatchInv, RunBeforeQueue, At
<1>3. DispatchSpec => []DispatchInv
  BY <1>1, DispatchInvariance
<1> QED BY <1>2, <1>3, PTL
=============================================================================
