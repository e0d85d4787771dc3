--------------------------------- MODULE Outbox ---------------------------------
(***************************************************************************)
(* The notification outbox, for the bill it is most worth sending once:    *)
(* deliverBill (services/bill-delivery.service.ts) queues a row, one per   *)
(* attempt an operator asks for, and the drains of the notification queue  *)
(* (services/notification.service.ts) send what is PENDING.  A drain works *)
(* on a list it read at its start, and two of them overlap when the queue  *)
(* loses a lock and hands the tick on.                                     *)
(***************************************************************************)
EXTENDS Integers, Sequences, FiniteSets

CONSTANTS
  Caller,       \* those who ask for a delivery: the bill's page, a run's
  Drain,        \* the ticks of the queue that may be at work at once
  MaxRows,      \* bound: rows of the outbox
  MaxAttempts,  \* MAX_ATTEMPTS
  MaxFaults     \* bound: updates that fail and drains that die

ASSUME OutboxAssumption ==
  /\ {MaxRows, MaxAttempts} \subseteq Nat \ {0} /\ MaxFaults \in Nat
  /\ IsFiniteSet(Drain)

Id == 1..MaxRows
Settled == {"SENT", "FAILED"}
InFlight == {"PENDING", "SENDING"}

VARIABLES
  note,    \* the rows, oldest first: status and attempts
  asking,  \* each caller: "idle", or "clear" once it found nothing in flight
  tick,    \* each drain: where it stands, and the rows it still has to do, each
           \* with the attempts it had when it was listed
  faults,  \* how much of the bound is spent
  sent,    \* history: messages the provider took, by row
  unsaid,  \* history: of those, the ones the row was never told of
  misclaimed, \* history: claims of the row that failed
  lost     \* history: rows whose drain died, or could not write, over them

vars == <<note, asking, tick, faults, sent, unsaid, misclaimed, lost>>

AtRest == [pc |-> "idle", todo |-> <<>>]   \* the empty list

TypeOK ==
  /\ note \in Seq([status : InFlight \union Settled, attempts : 0..MaxAttempts])
  /\ Len(note) <= MaxRows
  /\ asking \in [Caller -> {"idle", "clear"}]
  /\ tick \in [Drain ->
       [pc : {"idle", "next", "send", "mark", "catch"},
        todo : UNION {[ids -> 0..MaxAttempts] : ids \in SUBSET Id}]]
  /\ faults \in 0..MaxFaults
  /\ {sent, unsaid, misclaimed} \subseteq [Id -> Nat] /\ lost \subseteq Id
-----------------------------------------------------------------------------
At(d, pc) == tick[d].pc = pc
Goes(d, pc) == tick' = [tick EXCEPT ![d].pc = pc]
Rests(d) == tick' = [tick EXCEPT ![d] = AtRest]
Todo(d) == DOMAIN tick[d].todo
Least(S) == CHOOSE i \in S : \A j \in S : i <= j
InHand(d) == Least(Todo(d))            \* oldest first
Listed(d) == tick[d].todo[InHand(d)]   \* its attempts, as they were listed
NextRow(d) ==
  tick' = [tick EXCEPT ![d] =
    [pc |-> "next", todo |-> [id \in Todo(d) \ {InHand(d)} |-> tick[d].todo[id]]]]
Write(id, status, attempts) ==
  note' = [note EXCEPT ![id] = [status |-> status, attempts |-> attempts]]
Fault == faults < MaxFaults /\ faults' = faults + 1
history == <<sent, unsaid, misclaimed, lost>>
-----------------------------------------------------------------------------
(***************************************************************************)
(* Asking for a delivery (deliverBill, then sendNotification).             *)
(***************************************************************************)
IsInFlight(n) == n.status \in InFlight

\* Refused while a row of the bill is in flight.
Ask(c) ==
  /\ asking[c] = "idle"
  /\ \A id \in DOMAIN note : ~IsInFlight(note[id])
  /\ asking' = [asking EXCEPT ![c] = "clear"]
  /\ UNCHANGED <<note, tick, faults, history>>

\* The row is inserted, or there is no template or address and nothing is.
Queue(c) ==
  /\ asking[c] = "clear"
  /\ \/ /\ Len(note) < MaxRows
        /\ note' = Append(note, [status |-> "PENDING", attempts |-> 0])
     \/ note' = note
  /\ asking' = [asking EXCEPT ![c] = "idle"]
  /\ UNCHANGED <<tick, faults, history>>
-----------------------------------------------------------------------------
(***************************************************************************)
(* A drain (processPendingNotificationsWithQuietHours, trySendOne).        *)
(***************************************************************************)
Pending == {id \in DOMAIN note : note[id].status = "PENDING"}

\* What is pending, with its attempts as of now.
List(d) ==
  /\ At(d, "idle") /\ Pending # {}
  /\ tick' = [tick EXCEPT ![d] =
       [pc |-> "next", todo |-> [id \in Pending |-> note[id].attempts]]]
  /\ UNCHANGED <<note, asking, faults, history>>

\* Mutant: the claim is an update by id.
AnyRow(id) == TRUE

Claimable(id) == note[id].status = "PENDING"

\* The claim is one conditional update; a row it does not find PENDING is
\* another drain's.
Claim(d) ==
  /\ At(d, "next") /\ Todo(d) # {}
  /\ IF Claimable(InHand(d))
     THEN /\ note' = [note EXCEPT ![InHand(d)].status = "SENDING"]
          /\ Goes(d, "send")
     ELSE NextRow(d) /\ UNCHANGED note
  /\ UNCHANGED <<asking, faults, history>>

\* The claim throws, before it is made or after.  It is inside the try, so the
\* row is put back, by its id, whoever's it is.
ClaimFails(d) ==
  /\ At(d, "next") /\ Todo(d) # {} /\ Fault
  /\ \/ note' = note
     \/ /\ Claimable(InHand(d))
        /\ note' = [note EXCEPT ![InHand(d)].status = "SENDING"]
  /\ misclaimed' = [misclaimed EXCEPT ![InHand(d)] = @ + 1]
  /\ Goes(d, "catch")
  /\ UNCHANGED <<asking, sent, unsaid, lost>>

Done(d) ==
  /\ At(d, "next") /\ Todo(d) = {}
  /\ Rests(d)
  /\ UNCHANGED <<note, asking, faults, history>>

\* The provider takes the message, and the answer arrives.
Send(d) ==
  /\ At(d, "send")
  /\ sent' = [sent EXCEPT ![InHand(d)] = @ + 1]
  /\ Goes(d, "mark")
  /\ UNCHANGED <<note, asking, faults, unsaid, misclaimed, lost>>

\* It does not, or took it and the answer is lost.
SendFails(d) ==
  /\ At(d, "send")
  /\ \/ UNCHANGED <<faults, sent, unsaid>>
     \/ /\ Fault
        /\ sent' = [sent EXCEPT ![InHand(d)] = @ + 1]
        /\ unsaid' = [unsaid EXCEPT ![InHand(d)] = @ + 1]
  /\ Goes(d, "catch")
  /\ UNCHANGED <<note, asking, misclaimed, lost>>

\* Mutant: an attempt that failed is not counted.
Unraised(listed) == listed

AttemptsAfter(listed) == listed + 1

MarkSent(d) ==
  /\ At(d, "mark")
  /\ Write(InHand(d), "SENT", AttemptsAfter(Listed(d)))
  /\ NextRow(d)
  /\ UNCHANGED <<asking, faults, history>>

\* The same try covers the update: a message that went out and could not
\* be recorded is caught as one that did not.
MarkFails(d) ==
  /\ At(d, "mark") /\ Fault
  /\ unsaid' = [unsaid EXCEPT ![InHand(d)] = @ + 1]
  /\ Goes(d, "catch")
  /\ UNCHANGED <<note, asking, sent, misclaimed, lost>>

\* Back to the queue, or given up, by the attempts the list carried: an update
\* by id, whatever the row has become.
PutBack(d) ==
  /\ At(d, "catch")
  /\ LET attempts == AttemptsAfter(Listed(d))
     IN  Write(InHand(d), IF attempts >= MaxAttempts THEN "FAILED" ELSE "PENDING",
               attempts)
  /\ NextRow(d)
  /\ UNCHANGED <<asking, faults, history>>

\* The tick ends there, thrown out of or with its process: a row it had
\* claimed stays SENDING, and nothing looks for such a row.
Dies(d) ==
  /\ ~At(d, "idle") /\ Fault
  /\ IF At(d, "next")
     THEN UNCHANGED <<unsaid, lost>>
     ELSE /\ lost' = IF note[InHand(d)].status = "SENDING"
                     THEN lost \union {InHand(d)} ELSE lost
          /\ unsaid' = IF At(d, "mark")
                       THEN [unsaid EXCEPT ![InHand(d)] = @ + 1] ELSE unsaid
  /\ Rests(d)
  /\ UNCHANGED <<note, asking, sent, misclaimed>>
-----------------------------------------------------------------------------
Init ==
  /\ note = <<>> /\ asking = [c \in Caller |-> "idle"]
  /\ tick = [d \in Drain |-> AtRest] /\ faults = 0
  /\ sent = [id \in Id |-> 0] /\ unsaid = sent /\ misclaimed = sent
  /\ lost = {}

Deliver(c) == Ask(c) \/ Queue(c)
Work(d) ==
  \/ List(d) \/ Claim(d) \/ ClaimFails(d) \/ Done(d)
  \/ Send(d) \/ SendFails(d)
  \/ MarkSent(d) \/ MarkFails(d) \/ PutBack(d)
Next == (\E c \in Caller : Deliver(c)) \/ (\E d \in Drain : Work(d) \/ Dies(d))

Spec == Init /\ [][Next]_vars

\* Ticks keep coming, and a tick does what it has begun.
LiveSpec == Spec /\ \A d \in Drain : WF_vars(Work(d))
-----------------------------------------------------------------------------
(***************************************************************************)
(* A row is sent once, however often it was put back, and once more at     *)
(* most for each claim of it that failed; except for messages the provider *)
(* took without the row being told.  A row marked SENT was sent.           *)
(***************************************************************************)
ResentByFailedClaims ==
  \A id \in DOMAIN note :
    /\ sent[id] - unsaid[id] <= 1 + misclaimed[id]
    /\ note[id].status = "SENT" => sent[id] > 0

(***************************************************************************)
(* Every row comes to SENT or FAILED, two drains putting each other's      *)
(* attempts back included, unless a drain died over it.                    *)
(***************************************************************************)
EveryRowSettles ==
  \A id \in Id :
    id \in DOMAIN note ~>
      id \in lost \/ (id \in DOMAIN note /\ note[id].status \in Settled)
=============================================================================
