------------------------------- MODULE WorkOrders -------------------------------
(***************************************************************************)
(* From a delinquency action to field work and back, for ONE account       *)
(* (services/delinquency-work-order.service.ts): the two sweeps that end   *)
(* the nightly job, beside a crew, a clerk, the ladder that files actions  *)
(* and a balance that is cleared and run up again.                         *)
(*                                                                         *)
(* Both sweeps list their actions in one query and then work the list, a   *)
(* statement at a time.  Creating a request may fail (its type has been    *)
(* switched off, the database refuses): the sweep logs it and goes on.     *)
(* Two jobs of the tenant may be at it at once: the queue runs five, and   *)
(* the id that would keep a second one out changes with the hour.          *)
(***************************************************************************)
EXTENDS Integers, Sequences, ServiceRequest

CONSTANTS
  Sweeper,      \* the jobs of the tenant that can be at work at once
  Clerk,        \* those who move requests, each with one move in hand
  Tier,         \* the tiers of the ladder
  ShutOffs,     \* those that name a type of work order
  Reconnects,   \* those that name the type that undoes it
  MaxActions,   \* bound: actions ever filed
  MaxLeaves,    \* bound: actions that end in another way than by the sweep
  MaxFailures   \* bound: requests that cannot be created, and crashes

ASSUME TiersAssumption == Reconnects \subseteq ShutOffs /\ ShutOffs \subseteq Tier
ASSUME WorkBoundsAssumption == {MaxActions, MaxLeaves, MaxFailures} \subseteq Nat

VARIABLES
  owing,     \* account.balance > 0
  actions,   \* delinquency_action: its tier, and whether it is live
  requests,  \* service_request: the action, shut off or reconnect, the status
  sweep,     \* each job: where it stands and what its query returned
  clerk,     \* the move each clerk has checked and not yet written
  leaves, failures   \* how much of the bounds is spent

vars == <<owing, actions, requests, sweep, clerk, leaves, failures>>

ActionId == 1..MaxActions
Kind == {"shut off", "reconnect"}
Nothing == [request |-> 0, to |-> "NEW"]
AtRest == [pc |-> "idle", todo |-> {}, cut |-> {}, ask |-> {}]

TypeOK ==
  /\ owing \in BOOLEAN
  /\ actions \in Seq([tier : Tier, live : BOOLEAN]) /\ Len(actions) <= MaxActions
  /\ requests \in Seq([action : ActionId, kind : Kind, status : RequestStatus])
  /\ sweep \in [Sweeper -> [pc : {"idle", "close", "orders", "raise"},
                             todo : SUBSET ActionId, cut : SUBSET ActionId,
                             ask : SUBSET ActionId]]
  /\ clerk \in [Clerk -> [request : 0..Len(requests), to : RequestStatus]]
-----------------------------------------------------------------------------
(***************************************************************************)
(* What the queries return.                                                *)
(***************************************************************************)
Requests(a, kind) ==
  {r \in DOMAIN requests : requests[r].action = a /\ requests[r].kind = kind}
Asked(a, kind) == Requests(a, kind) # {}
CarriedOut(a) ==
  \E r \in Requests(a, "shut off") : requests[r].status = "COMPLETED"

Live == {a \in DOMAIN actions : actions[a].live}

\* Mutant: only the tiers that name a reconnection are looked at.
ClearedShutOffs ==
  {a \in Live : ~owing /\ actions[a].tier \in Reconnects}

\* every live action of an account that owes nothing
Cleared == {a \in Live : ~owing}

\* wasDisconnected: there is service to turn back on
WasDisconnected(a) == actions[a].tier \in Reconnects /\ CarriedOut(a)

\* the live actions of an account in debt that never had a request
Due == {a \in Live : /\ owing /\ actions[a].tier \in ShutOffs
                     /\ \A kind \in Kind : ~Asked(a, kind)}
-----------------------------------------------------------------------------
(***************************************************************************)
(* The sweeps: reconnections first, then work orders.                      *)
(***************************************************************************)
\* createServiceRequest
Create(a, kind) ==
  requests' = Append(requests, [action |-> a, kind |-> kind, status |-> "NEW"])

Fails == failures < MaxFailures /\ failures' = failures + 1

\* Where job j stands next.
Stand(j, s) == sweep' = [sweep EXCEPT ![j] = s]

\* sweepReconnections: the cleared actions with their requests
FindCleared(j) ==
  /\ sweep[j].pc = "idle"
  /\ LET cut == {a \in Cleared : WasDisconnected(a)}
     IN Stand(j, IF Cleared = {} THEN [AtRest EXCEPT !.pc = "orders"]
                  ELSE [pc |-> "close", todo |-> Cleared, cut |-> cut,
                        ask |-> {a \in cut : ~Asked(a, "reconnect")}])
  /\ UNCHANGED <<owing, actions, requests, clerk, leaves, failures>>

\* One action of the list is dealt with.
After(j, a) ==
  LET rest == sweep[j].todo \ {a}
  IN IF rest = {} THEN [AtRest EXCEPT !.pc = "orders"]
     ELSE [sweep[j] EXCEPT !.todo = rest, !.ask = @ \ {a}]

\* The reconnection of an action whose disconnection was carried out.
Reconnect(j, a) ==
  /\ sweep[j].pc = "close" /\ a \in sweep[j].ask
  /\ Create(a, "reconnect")
  /\ Stand(j, [sweep[j] EXCEPT !.ask = @ \ {a}])
  /\ UNCHANGED <<owing, actions, clerk, leaves, failures>>

\* Mutant: an action is resolved although its reconnection could not be raised.
ReconnectGivesUp(j, a) ==
  /\ sweep[j].pc = "close" /\ a \in sweep[j].ask
  /\ Fails
  /\ Stand(j, [sweep[j] EXCEPT !.ask = @ \ {a}])
  /\ UNCHANGED <<owing, actions, requests, clerk, leaves>>

\* It could not be raised: the action stays live, for the next night.
ReconnectFails(j, a) ==
  /\ sweep[j].pc = "close" /\ a \in sweep[j].ask
  /\ Fails
  /\ Stand(j, After(j, a))
  /\ UNCHANGED <<owing, actions, requests, clerk, leaves>>

\* The action is resolved, by id, whatever has become of it.
Resolve(j, a) ==
  /\ sweep[j].pc = "close" /\ a \in sweep[j].todo \ sweep[j].ask
  /\ actions' = [actions EXCEPT ![a].live = FALSE]
  /\ Stand(j, After(j, a))
  /\ UNCHANGED <<owing, requests, clerk, leaves, failures>>

\* sweepDelinquencyWorkOrders
FindDue(j) ==
  /\ sweep[j].pc = "orders"
  /\ Stand(j, IF Due = {} THEN AtRest
               ELSE [AtRest EXCEPT !.pc = "raise", !.todo = Due])
  /\ UNCHANGED <<owing, actions, requests, clerk, leaves, failures>>

Raised(j, a) ==
  LET rest == sweep[j].todo \ {a}
  IN IF rest = {} THEN AtRest ELSE [sweep[j] EXCEPT !.todo = rest]

RaiseOrder(j, a) ==
  /\ sweep[j].pc = "raise" /\ a \in sweep[j].todo
  /\ \/ Create(a, "shut off") /\ UNCHANGED failures
     \/ Fails /\ UNCHANGED requests
  /\ Stand(j, Raised(j, a))
  /\ UNCHANGED <<owing, actions, clerk, leaves>>

GoesOn(j) ==
  \/ FindDue(j)
  \/ \E a \in ActionId : \/ Reconnect(j, a) \/ ReconnectFails(j, a)
                         \/ Resolve(j, a) \/ RaiseOrder(j, a)

Sweep(j) == FindCleared(j) \/ GoesOn(j)

\* The job dies between two statements; the next one begins again.
Crash(j) ==
  /\ sweep[j].pc # "idle"
  /\ Fails
  /\ Stand(j, AtRest)
  /\ UNCHANGED <<owing, actions, requests, clerk, leaves>>
-----------------------------------------------------------------------------
(***************************************************************************)
(* Everybody else.                                                         *)
(***************************************************************************)
\* A request is read and the move is found valid ...
CheckMove(c, r, to) ==
  /\ clerk[c] = Nothing
  /\ to \in MayBecome(requests[r].status)
  /\ clerk' = [clerk EXCEPT ![c] = [request |-> r, to |-> to]]
  /\ UNCHANGED <<owing, actions, requests, sweep, leaves, failures>>

\* ... and written, whatever the status has become.
Move(c) ==
  /\ clerk[c] # Nothing
  /\ requests' = [requests EXCEPT ![clerk[c].request].status = clerk[c].to]
  /\ clerk' = [clerk EXCEPT ![c] = Nothing]
  /\ UNCHANGED <<owing, actions, sweep, leaves, failures>>

\* The ladder files one live action per tier, by a balance it read earlier.
File(t) ==
  /\ Len(actions) < MaxActions
  /\ \A a \in Live : actions[a].tier # t
  /\ actions' = Append(actions, [tier |-> t, live |-> TRUE])
  /\ UNCHANGED <<owing, requests, sweep, clerk, leaves, failures>>

\* A clerk cancels or resolves the action, or a payment plan does.
Leave(a) ==
  /\ actions[a].live /\ leaves < MaxLeaves
  /\ leaves' = leaves + 1
  /\ actions' = [actions EXCEPT ![a].live = FALSE]
  /\ UNCHANGED <<owing, requests, sweep, clerk, failures>>

\* Payments and charges.
BalanceMoves ==
  /\ owing' = ~owing
  /\ UNCHANGED <<actions, requests, sweep, clerk, leaves, failures>>

Init ==
  /\ owing = TRUE
  /\ actions = <<>> /\ requests = <<>>
  /\ sweep = [j \in Sweeper |-> AtRest]
  /\ clerk = [c \in Clerk |-> Nothing]
  /\ leaves = 0 /\ failures = 0

Next ==
  \/ \E j \in Sweeper : Sweep(j) \/ Crash(j)
  \/ \E c \in Clerk : \/ Move(c)
                      \/ \E r \in DOMAIN requests, to \in RequestStatus :
                           CheckMove(c, r, to)
  \/ \E t \in Tier : File(t)
  \/ \E a \in DOMAIN actions : Leave(a)
  \/ BalanceMoves

Spec == Init /\ [][Next]_vars

\* A job is dispatched every night, and one at work goes on until it ends.
LiveSpec == /\ Spec
            /\ WF_vars(\E j \in Sweeper : FindCleared(j))
            /\ \A j \in Sweeper : WF_vars(GoesOn(j))
-----------------------------------------------------------------------------
(***************************************************************************)
(* Properties.                                                             *)
(***************************************************************************)

\* A job closes an action that it found disconnected only with its
\* reconnection in hand: not when raising it failed, this night or before a
\* crash, and whatever another job does with the action (sweepReconnections).
ClosedWithReconnection ==
  [][\A j \in Sweeper : \A a \in sweep[j].cut \intersect sweep[j].todo :
       (actions[a].live /\ ~actions'[a].live /\ a \notin sweep'[j].todo)
         => Asked(a, "reconnect")]_vars

\* An account that stays clear is taken off the ladder, every tier of it, the
\* notice tiers as well, so that it can be chased again when it next falls
\* behind (sweepReconnections).
EpisodeCloses == <>[](~owing) => <>[](Live = {})
=============================================================================
