--------------------------- MODULE CollectionsProofs ---------------------------
(***************************************************************************)
(* Two halves of collections.  First the field work of an account's        *)
(* delinquency actions (WorkOrders), for any number of tiers, actions,     *)
(* clerks, failures and crashes; then its fees (Delinquency), for any      *)
(* ladder and any number of evaluations, jobs, bills and actions.          *)
(***************************************************************************)
EXTENDS WorkOrders, Delinquency, SumTheorems, FiniteSetTheorems

Counted == leaves \in Nat /\ failures \in Nat

\* What a job still has on its list was filed, and stays filed.
Listed == \A j \in Sweeper : sweep[j].todo \subseteq DOMAIN actions

\* What a job found disconnected and no longer has to ask for is asked for.
InHand ==
  \A j \in Sweeper : sweep[j].pc = "close" =>
    \A a \in (sweep[j].cut \intersect sweep[j].todo) \ sweep[j].ask :
      Asked(a, "reconnect")

IInv == TypeOK /\ Counted /\ Listed /\ InHand

Sweeps == [pc : {"idle", "close", "orders", "raise"}, todo : SUBSET ActionId,
           cut : SUBSET ActionId, ask : SUBSET ActionId]
Actions == [tier : Tier, live : BOOLEAN]
Rows == [action : ActionId, kind : Kind, status : RequestStatus]

LEMMA RestIsASweep ==
  /\ AtRest \in Sweeps /\ AtRest.todo = {} /\ AtRest.pc = "idle"
  /\ [AtRest EXCEPT !.pc = "orders"] \in Sweeps
  /\ [AtRest EXCEPT !.pc = "orders"].todo = {}
  /\ [AtRest EXCEPT !.pc = "orders"].pc = "orders"
BY DEF AtRest, Sweeps

(***************************************************************************)
(* The facts every step starts from.                                       *)
(***************************************************************************)
LEMMA Typed ==
  ASSUME IInv
  PROVE  /\ sweep \in [Sweeper -> Sweeps] /\ actions \in Seq(Actions)
         /\ requests \in Seq(Rows) /\ owing \in BOOLEAN
         /\ clerk \in [Clerk -> [request : 0..Len(requests), to : RequestStatus]]
         /\ MaxActions \in Nat /\ DOMAIN actions = 1..Len(actions)
         /\ Len(actions) <= MaxActions /\ DOMAIN actions \subseteq ActionId
         /\ leaves \in Nat /\ failures \in Nat
<1>1. /\ sweep \in [Sweeper -> Sweeps] /\ actions \in Seq(Actions)
      /\ requests \in Seq(Rows) /\ Len(actions) <= MaxActions
      /\ MaxActions \in Nat /\ leaves \in Nat /\ failures \in Nat
      /\ owing \in BOOLEAN
      /\ clerk \in [Clerk -> [request : 0..Len(requests), to : RequestStatus]]
  BY WorkBoundsAssumption DEF IInv, TypeOK, Counted, Sweeps, Actions, Rows
<1>2. DOMAIN actions = 1..Len(actions)
  BY <1>1
<1>3. 1..Len(actions) \subseteq ActionId
  BY <1>1 DEF ActionId
<1> QED BY <1>1, <1>2, <1>3

(***************************************************************************)
(* What an update by id makes of a table.                                  *)
(***************************************************************************)
LEMMA UpdateOfTable ==
  ASSUME NEW S, NEW s \in Seq(S), NEW i \in DOMAIN s, NEW e \in S
  PROVE  LET t == [s EXCEPT ![i] = e]
         IN  /\ t \in Seq(S) /\ Len(t) = Len(s) /\ DOMAIN t = DOMAIN s
             /\ t[i] = e /\ \A j \in DOMAIN s : j # i => t[j] = s[j]
OBVIOUS

LEMMA EndedIsAnAction ==
  ASSUME NEW x \in Actions PROVE [x EXCEPT !.live = FALSE] \in Actions
BY DEF Actions

(***************************************************************************)
(* Appending a request: nothing that was asked for is lost.                *)
(***************************************************************************)
LEMMA CreateAppends ==
  ASSUME IInv, NEW a \in ActionId, NEW kind \in Kind, Create(a, kind)
  PROVE  /\ requests' \in Seq(Rows) /\ Len(requests') = Len(requests) + 1
         /\ \A b, k : Asked(b, k)' <=> Asked(b, k) \/ (b = a /\ k = kind)
<1> DEFINE new == [action |-> a, kind |-> kind, status |-> "NEW"]
<1>1. new \in Rows
  BY DEF Rows, RequestStatus
<1>2. requests \in Seq(Rows) /\ requests' = Append(requests, new)
  BY Typed DEF Create
<1>3. new.action = a /\ new.kind = kind
  OBVIOUS
<1> HIDE DEF new
<1>4. /\ requests' \in Seq(Rows) /\ Len(requests') = Len(requests) + 1
      /\ DOMAIN requests = 1..Len(requests) /\ DOMAIN requests' = 1..(Len(requests) + 1)
      /\ \A r \in 1..Len(requests) : requests'[r] = requests[r]
      /\ requests'[Len(requests) + 1] = new /\ Len(requests) \in Nat
  BY <1>1, <1>2
<1>5. ASSUME NEW b, NEW k
      PROVE  Asked(b, k)' <=> Asked(b, k) \/ (b = a /\ k = kind)
  <2>1. Asked(b, k)' <=>
          \E r \in DOMAIN requests' : requests'[r].action = b /\ requests'[r].kind = k
    BY DEF Asked, Requests
  <2>2. Asked(b, k) <=>
          \E r \in DOMAIN requests : requests[r].action = b /\ requests[r].kind = k
    BY DEF Asked, Requests
  <2>3. DOMAIN requests' = DOMAIN requests \union {Len(requests) + 1}
    BY <1>4
  <2> QED BY <1>3, <1>4, <2>1, <2>2, <2>3
<1> QED BY <1>4, <1>5

(***************************************************************************)
(* Requests that stay, or only change their status.                        *)
(***************************************************************************)
LEMMA SameRequests ==
  ASSUME DOMAIN requests' = DOMAIN requests,
         \A r \in DOMAIN requests : /\ requests'[r].action = requests[r].action
                                   /\ requests'[r].kind = requests[r].kind
  PROVE  \A b, k : Asked(b, k)' <=> Asked(b, k)
BY DEF Asked, Requests

(***************************************************************************)
(* A step of job j: its own list is in order, and nothing that was asked   *)
(* for is lost, so the other jobs' lists stay in order.                    *)
(***************************************************************************)
LEMMA JobStep ==
  ASSUME IInv, NEW j \in Sweeper, NEW s \in Sweeps, Stand(j, s),
         UNCHANGED <<owing, clerk, leaves>>, failures' \in Nat,
         actions' \in Seq(Actions), Len(actions') = Len(actions),
         requests' \in Seq(Rows), Len(requests') >= Len(requests),
         \A b, k : Asked(b, k) => Asked(b, k)',
         s.todo \subseteq DOMAIN actions,
         s.pc = "close" => \A a \in (s.cut \intersect s.todo) \ s.ask :
                             Asked(a, "reconnect")'
  PROVE  IInv'
<1>1. /\ sweep' = [sweep EXCEPT ![j] = s] /\ sweep' \in [Sweeper -> Sweeps]
      /\ sweep'[j] = s /\ \A k \in Sweeper : k # j => sweep'[k] = sweep[k]
  BY Typed DEF Stand
<1>2. DOMAIN actions' = DOMAIN actions
  BY Typed
<1>3. clerk' \in [Clerk -> [request : 0..Len(requests'), to : RequestStatus]]
  <2>1. 0..Len(requests) \subseteq 0..Len(requests')
    BY Typed
  <2> QED BY <2>1, Typed
<1>4. TypeOK' /\ Counted'
  BY <1>1, <1>3, Typed DEF TypeOK, Counted, Sweeps, Actions, Rows
<1>5. Listed'
  BY <1>1, <1>2 DEF IInv, Listed
<1>6. InHand'
  BY <1>1 DEF IInv, InHand
<1> QED BY <1>4, <1>5, <1>6 DEF IInv

(***************************************************************************)
(* The initial state, and the steps of the sweep.                          *)
(***************************************************************************)
LEMMA InitIInv == Init => IInv
<1> SUFFICES ASSUME Init PROVE IInv
  OBVIOUS
<1>1. /\ actions = <<>> /\ requests = <<>> /\ sweep = [j \in Sweeper |-> AtRest]
  BY DEF Init
<1>2. TypeOK
  <2>1. Nothing \in [request : 0..Len(requests), to : RequestStatus]
    BY <1>1 DEF Nothing, RequestStatus
  <2>2. Len(actions) <= MaxActions
    BY <1>1, WorkBoundsAssumption
  <2> QED BY <1>1, <2>1, <2>2, RestIsASweep DEF Init, TypeOK, Sweeps
<1>3. Counted /\ Listed /\ InHand
  BY <1>1, RestIsASweep DEF Init, Counted, Listed, InHand
<1> QED BY <1>2, <1>3 DEF IInv

LEMMA SweepKeeps ==
  ASSUME IInv, NEW j \in Sweeper, Sweep(j)
  PROVE  IInv'
<1>t. /\ sweep[j] \in Sweeps /\ sweep[j].todo \subseteq DOMAIN actions
      /\ sweep[j].pc = "close" =>
           \A a \in (sweep[j].cut \intersect sweep[j].todo) \ sweep[j].ask :
             Asked(a, "reconnect")
  BY Typed DEF IInv, Listed, InHand
\* A step that leaves every table alone.
<1>s. ASSUME NEW s \in Sweeps, Stand(j, s), s.todo \subseteq DOMAIN actions,
             s.pc = "close" => \A a \in (s.cut \intersect s.todo) \ s.ask :
                                 Asked(a, "reconnect"),
             UNCHANGED <<actions, requests, owing, clerk, leaves>>, failures' \in Nat
      PROVE  IInv'
  <2>1. \A b, k : Asked(b, k)' <=> Asked(b, k)
    BY <1>s, SameRequests
  <2>2. /\ actions' \in Seq(Actions) /\ Len(actions') = Len(actions)
        /\ requests' \in Seq(Rows) /\ Len(requests') >= Len(requests)
    BY <1>s, Typed
  <2> QED BY <1>s, <2>1, <2>2, JobStep
<1>1. CASE FindCleared(j)
  <2>1. CASE Cleared = {}
    <3>1. Stand(j, [AtRest EXCEPT !.pc = "orders"])
      BY <1>1, <2>1 DEF FindCleared
    <3> QED BY <1>1, <3>1, <1>s, RestIsASweep, Typed DEF FindCleared
  <2>2. CASE Cleared # {}
    <3> DEFINE cut == {a \in Cleared : WasDisconnected(a)}
               ask == {a \in cut : ~Asked(a, "reconnect")}
               s == [pc |-> "close", todo |-> Cleared, cut |-> cut, ask |-> ask]
    <3>1. Cleared \subseteq DOMAIN actions
      BY DEF Cleared, Live
    <3>2. cut \subseteq Cleared /\ ask \subseteq cut
      OBVIOUS
    <3>3. s \in Sweeps
      BY <3>1, <3>2, Typed DEF Sweeps
    <3>4. Stand(j, s)
      BY <1>1, <2>2 DEF FindCleared
    <3>5. \A a \in cut : a \notin ask => Asked(a, "reconnect")
      OBVIOUS
    <3>6. s.pc = "close" /\ s.todo = Cleared /\ s.cut = cut /\ s.ask = ask
      OBVIOUS
    <3> HIDE DEF s, cut, ask
    <3> QED BY <1>1, <3>1, <3>3, <3>4, <3>5, <3>6, <1>s, Typed DEF FindCleared
  <2> QED BY <2>1, <2>2
<1>2. CASE FindDue(j)
  <2>1. Due \subseteq DOMAIN actions
    BY DEF Due, Live
  <2>2. CASE Due = {}
    <3>1. Stand(j, AtRest)
      BY <1>2, <2>2 DEF FindDue
    <3> QED BY <1>2, <3>1, <1>s, RestIsASweep, Typed DEF FindDue
  <2>3. CASE Due # {}
    <3> DEFINE s == [AtRest EXCEPT !.pc = "raise", !.todo = Due]
    <3>1. s \in Sweeps /\ s.pc = "raise" /\ s.todo = Due
      BY <2>1, Typed DEF AtRest, Sweeps
    <3>2. Stand(j, s)
      BY <1>2, <2>3 DEF FindDue
    <3> HIDE DEF s
    <3> QED BY <1>2, <2>1, <3>1, <3>2, <1>s, Typed DEF FindDue
  <2> QED BY <2>2, <2>3
<1>3. ASSUME NEW a \in ActionId, Reconnect(j, a) PROVE IInv'
  <2> DEFINE s == [sweep[j] EXCEPT !.ask = @ \ {a}]
  <2>1. /\ s \in Sweeps /\ s.pc = sweep[j].pc /\ s.todo = sweep[j].todo
        /\ s.cut = sweep[j].cut /\ s.ask = sweep[j].ask \ {a}
    BY <1>t DEF Sweeps
  <2>2. /\ Stand(j, s) /\ Create(a, "reconnect") /\ "reconnect" \in Kind
        /\ sweep[j].pc = "close"
        /\ UNCHANGED <<owing, actions, clerk, leaves, failures>>
    BY <1>3 DEF Reconnect, Kind
  <2> HIDE DEF s
  <2>3. /\ requests' \in Seq(Rows) /\ Len(requests') >= Len(requests)
        /\ \A b, k : Asked(b, k)' <=> Asked(b, k) \/ (b = a /\ k = "reconnect")
    BY <2>2, CreateAppends, Typed
  <2>4. actions' \in Seq(Actions) /\ Len(actions') = Len(actions) /\ failures' \in Nat
    BY <2>2, Typed
  <2>5. \A b \in (s.cut \intersect s.todo) \ s.ask : Asked(b, "reconnect")'
    BY <1>t, <2>1, <2>2, <2>3
  <2> QED BY <1>t, <2>1, <2>2, <2>3, <2>4, <2>5, JobStep
<1>4. ASSUME NEW a \in ActionId, ReconnectFails(j, a) \/ Resolve(j, a) PROVE IInv'
  <2> DEFINE s == After(j, a)
  <2>1. /\ sweep[j].pc = "close" /\ Stand(j, s)
        /\ UNCHANGED <<owing, requests, clerk, leaves>>
    BY <1>4 DEF ReconnectFails, Resolve
  <2>2. /\ s \in Sweeps /\ s.todo \subseteq sweep[j].todo
        /\ s.pc = "close" => /\ s.todo = sweep[j].todo \ {a} /\ s.cut = sweep[j].cut
                             /\ s.ask = sweep[j].ask \ {a}
    <3>1. CASE sweep[j].todo \ {a} = {}
      BY <3>1, RestIsASweep DEF After
    <3>2. CASE sweep[j].todo \ {a} # {}
      BY <1>t, <2>1, <3>2 DEF After, Sweeps
    <3> QED BY <3>1, <3>2
  <2> HIDE DEF s
  <2>3. actions' \in Seq(Actions) /\ Len(actions') = Len(actions) /\ failures' \in Nat
    <3>1. CASE ReconnectFails(j, a)
      BY <3>1, Typed DEF ReconnectFails, Fails
    <3>2. CASE Resolve(j, a)
      <4>1. a \in DOMAIN actions /\ actions[a] \in Actions
        BY <1>t, <3>2, Typed DEF Resolve
      <4>2. actions' = [actions EXCEPT ![a] = [actions[a] EXCEPT !.live = FALSE]]
        BY <3>2 DEF Resolve
      <4>3. failures' = failures
        BY <3>2 DEF Resolve
      <4> QED BY <4>1, <4>2, <4>3, EndedIsAnAction, UpdateOfTable, Typed
    <3> QED BY <1>4, <3>1, <3>2
  <2>4. \A b, k : Asked(b, k)' <=> Asked(b, k)
    BY <2>1, SameRequests
  <2>5. requests' \in Seq(Rows) /\ Len(requests') >= Len(requests)
    BY <2>1, Typed
  <2>6. s.pc = "close" => \A b \in (s.cut \intersect s.todo) \ s.ask :
                            Asked(b, "reconnect")'
    BY <1>t, <2>1, <2>2, <2>4
  <2> QED BY <1>t, <2>1, <2>2, <2>3, <2>4, <2>5, <2>6, JobStep
<1>5. ASSUME NEW a \in ActionId, RaiseOrder(j, a) PROVE IInv'
  <2> DEFINE s == Raised(j, a)
  <2>1. /\ sweep[j].pc = "raise" /\ Stand(j, s)
        /\ UNCHANGED <<owing, actions, clerk, leaves>>
    BY <1>5 DEF RaiseOrder
  <2>2. s \in Sweeps /\ s.todo \subseteq sweep[j].todo /\ s.pc # "close"
    <3>1. CASE sweep[j].todo \ {a} = {}
      BY <3>1, RestIsASweep DEF Raised
    <3>2. CASE sweep[j].todo \ {a} # {}
      BY <1>t, <2>1, <3>2 DEF Raised, Sweeps
    <3> QED BY <3>1, <3>2
  <2> HIDE DEF s
  <2>3. actions' \in Seq(Actions) /\ Len(actions') = Len(actions)
    BY <2>1, Typed
  <2>4. CASE Create(a, "shut off") /\ UNCHANGED failures
    <3>1. "shut off" \in Kind
      BY DEF Kind
    <3>2. /\ requests' \in Seq(Rows)
          /\ \A b, k : Asked(b, k)' <=> Asked(b, k) \/ (b = a /\ k = "shut off")
      BY <2>4, <3>1, CreateAppends
    <3>3. Len(requests') = Len(requests) + 1
      BY <2>4, <3>1, CreateAppends
    <3>4. Len(requests') >= Len(requests)
      <4>1. Len(requests) \in Nat
        BY Typed
      <4> QED BY <3>3, <4>1
    <3>5. failures' \in Nat
      BY <2>4, Typed
    <3> QED BY <1>t, <2>1, <2>2, <2>3, <3>2, <3>4, <3>5, JobStep
  <2>5. CASE Fails /\ UNCHANGED requests
    <3>1. failures' \in Nat
      BY <2>5, Typed DEF Fails
    <3> QED BY <1>t, <2>1, <2>2, <2>5, <3>1, <1>s
  <2> QED BY <1>5, <2>4, <2>5 DEF RaiseOrder
<1> QED BY <1>1, <1>2, <1>3, <1>4, <1>5 DEF Sweep, GoesOn

(***************************************************************************)
(* A step that is no job's and creates no request.                         *)
(***************************************************************************)
LEMMA Aside ==
  ASSUME IInv, TypeOK', UNCHANGED sweep, \A b, k : Asked(b, k)' <=> Asked(b, k),
         leaves' \in Nat, failures' \in Nat, DOMAIN actions \subseteq DOMAIN actions'
  PROVE  IInv'
<1>1. Listed' /\ InHand' /\ Counted'
  BY DEF IInv, Listed, InHand, Counted
<1> QED BY <1>1 DEF IInv

(***************************************************************************)
(* Every step keeps the invariant.                                         *)
(***************************************************************************)
LEMMA NextIInv == IInv /\ [Next]_vars => IInv'
<1> SUFFICES ASSUME IInv, [Next]_vars PROVE IInv'
  OBVIOUS
<1>1. ASSUME NEW j \in Sweeper, Crash(j) PROVE IInv'
  <2>1. /\ Stand(j, AtRest) /\ failures' \in Nat
        /\ UNCHANGED <<owing, actions, requests, clerk, leaves>>
    BY <1>1, Typed DEF Crash, Fails
  <2>2. \A b, k : Asked(b, k)' <=> Asked(b, k)
    BY <2>1, SameRequests
  <2>3. /\ actions' \in Seq(Actions) /\ Len(actions') = Len(actions)
        /\ requests' \in Seq(Rows) /\ Len(requests') >= Len(requests)
    BY <2>1, Typed
  <2> QED BY <2>1, <2>2, <2>3, RestIsASweep, JobStep
<1>2. ASSUME NEW c \in Clerk, NEW r \in DOMAIN requests, NEW to \in RequestStatus,
             CheckMove(c, r, to)
      PROVE  IInv'
  <2>1. [request |-> r, to |-> to] \in [request : 0..Len(requests), to : RequestStatus]
    BY Typed
  <2>2. /\ UNCHANGED <<owing, actions, requests, sweep, leaves, failures>>
        /\ clerk' = [clerk EXCEPT ![c] = [request |-> r, to |-> to]]
    BY <1>2 DEF CheckMove
  <2>3. TypeOK'
    BY <2>1, <2>2, Typed DEF IInv, TypeOK
  <2>4. \A b, k : Asked(b, k)' <=> Asked(b, k)
    BY <2>2, SameRequests
  <2> QED BY <2>2, <2>3, <2>4, Aside, Typed
<1>3. ASSUME NEW c \in Clerk, Move(c) PROVE IInv'
  <2> DEFINE q == clerk[c].request
  <2>0. /\ clerk[c].to \in RequestStatus /\ requests \in Seq(Rows)
        /\ requests' = [requests EXCEPT
                          ![q] = [requests[q] EXCEPT !.status = clerk[c].to]]
        /\ clerk' = [clerk EXCEPT ![c] = Nothing]
        /\ UNCHANGED <<owing, actions, sweep, leaves, failures>>
    BY <1>3, Typed DEF Move
  <2>1. /\ requests' \in Seq(Rows) /\ Len(requests') = Len(requests)
        /\ DOMAIN requests' = DOMAIN requests
        /\ \A r \in DOMAIN requests :
             requests'[r].action = requests[r].action
               /\ requests'[r].kind = requests[r].kind
    <3>1. CASE q \in DOMAIN requests
      <4>1. requests[q] \in Rows
        BY <2>0, <3>1
      <4>2. /\ [requests[q] EXCEPT !.status = clerk[c].to] \in Rows
            /\ [requests[q] EXCEPT !.status = clerk[c].to].action = requests[q].action
            /\ [requests[q] EXCEPT !.status = clerk[c].to].kind = requests[q].kind
        BY <2>0, <4>1 DEF Rows
      <4> QED BY <2>0, <3>1, <4>2, UpdateOfTable
    <3>2. CASE q \notin DOMAIN requests
      <4>1. requests = [r \in DOMAIN requests |-> requests[r]]
        BY <2>0
      <4>2. requests' = requests
        BY <2>0, <3>2, <4>1
      <4> QED BY <2>0, <4>2
    <3> QED BY <3>1, <3>2
  <2>2. TypeOK'
    <3>1. Nothing \in [request : 0..Len(requests'), to : RequestStatus]
      BY <2>1, Typed DEF Nothing, RequestStatus
    <3>2. clerk' \in [Clerk -> [request : 0..Len(requests'), to : RequestStatus]]
      BY <2>0, <2>1, <3>1, Typed
    <3> QED BY <2>0, <2>1, <3>2, Typed DEF IInv, TypeOK, Rows
  <2>3. \A b, k : Asked(b, k)' <=> Asked(b, k)
    BY <2>1, SameRequests
  <2> QED BY <2>0, <2>2, <2>3, Aside, Typed
<1>4. ASSUME NEW t \in Tier, File(t) PROVE IInv'
  <2>1. [tier |-> t, live |-> TRUE] \in Actions
    BY DEF Actions
  <2>2. /\ actions' \in Seq(Actions) /\ Len(actions') = Len(actions) + 1
        /\ DOMAIN actions' = 1..(Len(actions) + 1) /\ Len(actions) < MaxActions
        /\ UNCHANGED <<owing, requests, sweep, clerk, leaves, failures>>
    BY <1>4, <2>1, Typed DEF File
  <2>3. Len(actions') <= MaxActions /\ DOMAIN actions \subseteq DOMAIN actions'
    BY <2>2, Typed
  <2>4. TypeOK'
    BY <2>2, <2>3, Typed DEF IInv, TypeOK, Actions
  <2>5. \A b, k : Asked(b, k)' <=> Asked(b, k)
    BY <2>2, SameRequests
  <2> QED BY <2>2, <2>3, <2>4, <2>5, Aside, Typed
<1>5. ASSUME NEW a \in DOMAIN actions, Leave(a) PROVE IInv'
  <2>1. /\ actions' \in Seq(Actions) /\ Len(actions') = Len(actions)
        /\ DOMAIN actions' = DOMAIN actions /\ leaves' \in Nat
        /\ UNCHANGED <<owing, requests, sweep, clerk, failures>>
    <3>1. [actions[a] EXCEPT !.live = FALSE] \in Actions
      BY Typed, EndedIsAnAction
    <3>2. actions' = [actions EXCEPT ![a] = [actions[a] EXCEPT !.live = FALSE]]
      BY <1>5 DEF Leave
    <3> QED BY <1>5, <3>1, <3>2, UpdateOfTable, Typed DEF Leave
  <2>2. TypeOK'
    BY <2>1, Typed DEF IInv, TypeOK, Actions
  <2>3. \A b, k : Asked(b, k)' <=> Asked(b, k)
    BY <2>1, SameRequests
  <2> QED BY <2>1, <2>2, <2>3, Aside, Typed
<1>6. CASE BalanceMoves \/ UNCHANGED vars
  <2>1. UNCHANGED <<actions, requests, sweep, clerk, leaves, failures>>
        /\ owing' \in BOOLEAN
    BY <1>6, Typed DEF BalanceMoves, vars
  <2>2. TypeOK'
    BY <2>1 DEF IInv, TypeOK
  <2>3. \A b, k : Asked(b, k)' <=> Asked(b, k)
    BY <2>1, SameRequests
  <2> QED BY <2>1, <2>2, <2>3, Aside, Typed
<1> QED BY SweepKeeps, <1>1, <1>2, <1>3, <1>4, <1>5, <1>6 DEF Next

(***************************************************************************)
(* However many jobs are at work, what a job found disconnected and will   *)
(* not ask for again is asked for, while clerks, the ladder, the balance   *)
(* and the other jobs move under it.                                       *)
(***************************************************************************)
THEOREM WorkOrderInvariance == Spec => []IInv
BY InitIInv, NextIInv, PTL DEF Spec

(***************************************************************************)
(* sweepReconnections resolves no disconnection whose reconnection could   *)
(* not be raised, however many jobs work the same list.                    *)
(***************************************************************************)
THEOREM NoneClosedInTheDark == Spec => ClosedWithReconnection
<1> DEFINE Step == \A j \in Sweeper : \A a \in sweep[j].cut \intersect sweep[j].todo :
                     (actions[a].live /\ ~actions'[a].live /\ a \notin sweep'[j].todo)
                       => Asked(a, "reconnect")
<1>1. IInv /\ [Next]_vars => [Step]_vars
  <2> SUFFICES ASSUME IInv, [Next]_vars, NEW j \in Sweeper,
                      NEW a \in sweep[j].cut \intersect sweep[j].todo,
                      actions[a].live, ~actions'[a].live, a \notin sweep'[j].todo
               PROVE  Asked(a, "reconnect")
    OBVIOUS
  <2>1. sweep' # sweep /\ actions' # actions /\ a \in DOMAIN actions
    BY DEF IInv, Listed
  <2>2. PICK k \in Sweeper, b \in ActionId : Resolve(k, b)
    BY <2>1 DEF Next, vars, Sweep, GoesOn, FindCleared, FindDue, Reconnect,
                ReconnectFails, RaiseOrder, Crash, CheckMove, Move, File, Leave,
                BalanceMoves
  <2>3. b = a
    <3>1. actions' = [actions EXCEPT ![b].live = FALSE]
      BY <2>2 DEF Resolve
    <3> QED BY <2>1, <3>1, Typed
  <2>4. k = j
    <3>1. k # j => sweep'[j] = sweep[j]
      BY <2>2, Typed DEF Resolve, Stand
    <3> QED BY <3>1
  <2>5. sweep[j].pc = "close" /\ a \in sweep[j].todo \ sweep[j].ask
    BY <2>2, <2>3, <2>4 DEF Resolve
  <2> QED BY <2>5 DEF IInv, InHand
<1> QED BY <1>1, WorkOrderInvariance, PTL DEF Spec, ClosedWithReconnection

-----------------------------------------------------------------------------
(***************************************************************************)
(* The ladder and its fees.                                                *)
(***************************************************************************)
Row == [tier : Tiers, status : Status]
Fee(ids) == [action : ids, bill : Bill, reversed : BOOLEAN]
Places == {"idle", "actions", "clock", "file", "notice", "close"}
Evaluation(ids) ==
  [pc : Places, asOf : 0..MaxDay, live : [Tiers -> {0} \union ids],
   todo : SUBSET Tiers, closing : SUBSET ids]

\* The actions an evaluation holds are of the tiers it holds them for.
OfTheirTiers(live, acts) ==
  \A t \in Tiers : live[t] # 0 => acts[live[t]].tier = t
Recognised == \A e \in Evaluator : OfTheirTiers(eval[e].live, filed)

Escalates == desk.op = "escalate" => desk.on \in Tiers

LInv == LadderTypeOK /\ Recognised /\ Escalates /\ FeeOncePerTier

(***************************************************************************)
(* What may become of the actions: more are filed, and none changes its    *)
(* tier.                                                                   *)
(***************************************************************************)
KeepsTiers(old, new) ==
  /\ new \in Seq(Row)
  /\ DOMAIN old \subseteq DOMAIN new
  /\ \A a \in DOMAIN old : new[a].tier = old[a].tier

LEMMA LadderTyped ==
  ASSUME LadderTypeOK
  PROVE  /\ filed \in Seq(Row) /\ fees \in Seq(Fee(DOMAIN filed))
         /\ eval \in [Evaluator -> Evaluation(DOMAIN filed)]
BY DEF LadderTypeOK, Row, Fee, Evaluation, Places, None

LEMMA StatusKeepsTiers ==
  ASSUME NEW acts \in Seq(Row), NEW a, NEW s \in Status
  PROVE  KeepsTiers(acts, [acts EXCEPT ![a].status = s])
<1> DEFINE new == [acts EXCEPT ![a].status = s]
<1>1. CASE a \in DOMAIN acts
  <2> DEFINE row == [acts[a] EXCEPT !.status = s]
  <2>1. row \in Row /\ row.tier = acts[a].tier
    <3>1. acts[a] \in Row
      BY <1>1
    <3> QED BY <3>1 DEF Row
  <2>2. new = [acts EXCEPT ![a] = row]
    OBVIOUS
  <2> HIDE DEF row, new
  <2>3. new \in Seq(Row) /\ DOMAIN new = DOMAIN acts /\ new[a] = row
        /\ \A b \in DOMAIN acts : b # a => new[b] = acts[b]
    BY <1>1, <2>1, <2>2
  <2>4. KeepsTiers(acts, new)
    BY <2>1, <2>3 DEF KeepsTiers
  <2> QED BY <2>4 DEF new
<1>2. CASE a \notin DOMAIN acts
  <2>1. new = acts
    BY <1>2
  <2> QED BY <2>1 DEF KeepsTiers
<1> QED BY <1>1, <1>2

LEMMA KeepsTiersTwice ==
  ASSUME NEW f, NEW g, NEW h, KeepsTiers(f, g), KeepsTiers(g, h)
  PROVE  KeepsTiers(f, h)
BY DEF KeepsTiers

LEMMA PendingKeepsTiers ==
  ASSUME NEW acts \in Seq(Row) PROVE KeepsTiers(acts, CancelPending(acts))
<1> DEFINE new == CancelPending(acts)
<1>1. ASSUME NEW a \in DOMAIN acts
      PROVE  new[a] \in Row /\ new[a].tier = acts[a].tier
  <2>1. acts[a] \in Row /\ "CANCELLED" \in Status
    BY DEF Status
  <2>2. LET row == [acts[a] EXCEPT !.status = "CANCELLED"]
        IN  row \in Row /\ row.tier = acts[a].tier
    BY <2>1 DEF Row
  <2> QED BY <2>1, <2>2 DEF CancelPending
<1>2. DOMAIN new = 1..Len(acts) /\ DOMAIN acts = 1..Len(acts) /\ Len(acts) \in Nat
      /\ new = [a \in DOMAIN new |-> new[a]]
  BY DEF CancelPending
<1> HIDE DEF new
<1>3. new \in Seq(Row)
  BY <1>1, <1>2
<1>4. KeepsTiers(acts, new)
  BY <1>1, <1>2, <1>3 DEF KeepsTiers
<1> QED BY <1>4 DEF new

LEMMA HighestKeepsTiers ==
  ASSUME NEW acts \in Seq(Row) PROVE KeepsTiers(acts, ResolveHighest(acts))
<1>1. KeepsTiers(acts, acts)
  BY DEF KeepsTiers
<1>2. "RESOLVED" \in Status
  BY DEF Status
<1>3. \A a : KeepsTiers(acts, [acts EXCEPT ![a].status = "RESOLVED"])
  BY <1>2, StatusKeepsTiers
<1> QED BY <1>1, <1>3 DEF ResolveHighest

LEMMA FilingKeepsTiers ==
  ASSUME NEW acts \in Seq(Row), NEW t \in Tiers, NEW s \in Status
  PROVE  LET new == Append(acts, [tier |-> t, status |-> s])
         IN  /\ KeepsTiers(acts, new)
             /\ Len(acts) + 1 \in DOMAIN new /\ new[Len(acts) + 1].tier = t
<1> DEFINE row == [tier |-> t, status |-> s]
           new == Append(acts, row)
<1>1. row \in Row /\ row.tier = t
  BY DEF Row
<1> HIDE DEF row
<1>2. new \in Seq(Row) /\ Len(new) = Len(acts) + 1 /\ Len(acts) \in Nat
      /\ DOMAIN new = 1..Len(acts) + 1 /\ DOMAIN acts = 1..Len(acts)
      /\ new[Len(acts) + 1] = row /\ \A a \in 1..Len(acts) : new[a] = acts[a]
  BY <1>1
<1> HIDE DEF new
<1>3. KeepsTiers(acts, new) /\ Len(acts) + 1 \in DOMAIN new
      /\ new[Len(acts) + 1].tier = t
  BY <1>1, <1>2 DEF KeepsTiers
<1> QED BY <1>3 DEF new, row

(***************************************************************************)
(* What that leaves of the fees and of the evaluations.                    *)
(***************************************************************************)
LEMMA FeesStay ==
  ASSUME LInv, KeepsTiers(filed, filed'), UNCHANGED fees
  PROVE  fees' \in Seq(Fee(DOMAIN filed')) /\ FeeOncePerTier'
<1>1. filed \in Seq(Row) /\ fees \in Seq(Fee(DOMAIN filed)) /\ FeeOncePerTier
  BY LadderTyped DEF LInv
<1>2. ASSUME NEW i \in DOMAIN fees
      PROVE  /\ fees[i] \in Fee(DOMAIN filed')
             /\ filed'[fees[i].action].tier = filed[fees[i].action].tier
  <2>1. fees[i] \in Fee(DOMAIN filed)
    BY <1>1
  <2>2. fees[i].action \in DOMAIN filed
    BY <2>1 DEF Fee
  <2> QED BY <2>1, <2>2 DEF KeepsTiers, Fee
<1>3. fees' \in Seq(Fee(DOMAIN filed'))
  BY <1>1, <1>2
<1> QED BY <1>1, <1>2, <1>3 DEF FeeOncePerTier

LEMMA EvaluationsGrow ==
  ASSUME NEW x \in Evaluation(DOMAIN filed), OfTheirTiers(x.live, filed),
         KeepsTiers(filed, filed')
  PROVE  x \in Evaluation(DOMAIN filed') /\ OfTheirTiers(x.live, filed')
<1>1. x \in Evaluation(DOMAIN filed')
  BY DEF Evaluation, KeepsTiers
<1>2. \A t \in Tiers : x.live[t] \in {0} \union DOMAIN filed
  BY DEF Evaluation
<1> QED BY <1>1, <1>2 DEF OfTheirTiers, KeepsTiers

LEMMA Becomes ==
  ASSUME LInv, KeepsTiers(filed, filed'), NEW e \in Evaluator,
         NEW x \in Evaluation(DOMAIN filed'), OfTheirTiers(x.live, filed'),
         Become(e, x)
  PROVE  eval' \in [Evaluator -> Evaluation(DOMAIN filed')] /\ Recognised'
<1>1. eval \in [Evaluator -> Evaluation(DOMAIN filed)] /\ Recognised
  BY LadderTyped DEF LInv
<1>2. \A c \in Evaluator : eval[c] \in Evaluation(DOMAIN filed')
                           /\ OfTheirTiers(eval[c].live, filed')
  BY <1>1, EvaluationsGrow DEF Recognised
<1>3. eval' = [eval EXCEPT ![e] = x]
  BY DEF Become
<1>4. eval' \in [Evaluator -> Evaluation(DOMAIN filed')]
  BY <1>1, <1>2, <1>3
<1>5. \A c \in Evaluator : eval'[c] = IF c = e THEN x ELSE eval[c]
  BY <1>1, <1>3
<1> QED BY <1>2, <1>4, <1>5 DEF Recognised

LEMMA EvaluationsStay ==
  ASSUME LInv, KeepsTiers(filed, filed'), UNCHANGED eval
  PROVE  eval' \in [Evaluator -> Evaluation(DOMAIN filed')] /\ Recognised'
<1>1. eval \in [Evaluator -> Evaluation(DOMAIN filed)] /\ Recognised
  BY LadderTyped DEF LInv
<1>2. \A c \in Evaluator : eval[c] \in Evaluation(DOMAIN filed')
                           /\ OfTheirTiers(eval[c].live, filed')
  BY <1>1, EvaluationsGrow DEF Recognised
<1> QED BY <1>1, <1>2 DEF Recognised

(***************************************************************************)
(* Which states a step may leave an evaluation in.                         *)
(***************************************************************************)
LEMMA PlaceOf ==
  ASSUME NEW ids, NEW x \in Evaluation(ids), NEW p \in Places
  PROVE  LET y == [x EXCEPT !.pc = p] IN y \in Evaluation(ids) /\ y.live = x.live
BY DEF Evaluation

LEMMA DayOf ==
  ASSUME NEW ids, NEW x \in Evaluation(ids), NEW d \in 0..MaxDay
  PROVE  LET y == [x EXCEPT !.asOf = d] IN y \in Evaluation(ids) /\ y.live = x.live
BY DEF Evaluation

LEMMA LiveOf ==
  ASSUME NEW ids, NEW x \in Evaluation(ids), NEW s \in [Tiers -> {0} \union ids]
  PROVE  LET y == [x EXCEPT !.live = s] IN y \in Evaluation(ids) /\ y.live = s
BY DEF Evaluation

LEMMA TodoOf ==
  ASSUME NEW ids, NEW x \in Evaluation(ids), NEW s, s \subseteq Tiers
  PROVE  LET y == [x EXCEPT !.todo = s] IN y \in Evaluation(ids) /\ y.live = x.live
BY DEF Evaluation

LEMMA ClosingOf ==
  ASSUME NEW ids, NEW x \in Evaluation(ids), NEW s, s \subseteq ids
  PROVE  LET y == [x EXCEPT !.closing = s] IN y \in Evaluation(ids) /\ y.live = x.live
BY DEF Evaluation

LEMMA RestIsFit ==
  ASSUME LadderTypes, NEW e, NEW acts, NEW ids
  PROVE  /\ Unstarted \in Evaluation(ids)
         /\ OfTheirTiers(Unstarted.live, acts)
         /\ Done(e) \in Evaluation(ids)
         /\ OfTheirTiers(Done(e).live, acts)
<1>1. 0 \in 0..MaxDay
  BY DEF LadderTypes
<1>2. Unstarted \in Evaluation(ids) /\ OfTheirTiers(Unstarted.live, acts)
  BY <1>1 DEF Unstarted, None, Evaluation, Places, OfTheirTiers
<1>3. Done(e) \in Evaluation(ids) /\ Done(e).live = Unstarted.live
  <2>1. "close" \in Places
    BY DEF Places
  <2> QED BY <1>2, <2>1, PlaceOf DEF Done
<1> QED BY <1>2, <1>3

\* A live action of a tier is of that tier.
LEMMA LiveActionIsOfTier ==
  ASSUME NEW t \in Tiers
  PROVE  /\ LiveAction(t) \in {0} \union DOMAIN filed
         /\ LiveAction(t) # 0 => filed[LiveAction(t)].tier = t
<1>1. CASE t \in LiveTiers
  <2>1. \E a \in LiveActions : filed[a].tier = t
    BY <1>1 DEF LiveTiers
  <2>2. LiveAction(t) \in LiveActions
        /\ filed[LiveAction(t)].tier = t
    BY <1>1, <2>1 DEF LiveAction
  <2> QED BY <2>2 DEF LiveActions
<1>2. CASE t \notin LiveTiers
  BY <1>2 DEF LiveAction, None
<1> QED BY <1>1, <1>2

(***************************************************************************)
(* Two kinds of step: those in which only one evaluation and the actions   *)
(* move, and those in which no evaluation and no fee does.                 *)
(***************************************************************************)
LEMMA EvaluationMoves ==
  ASSUME LInv, KeepsTiers(filed, filed'), NEW e \in Evaluator,
         UNCHANGED <<day, open, owed, plan, fees, desk>>,
         NEW x \in Evaluation(DOMAIN filed'), OfTheirTiers(x.live, filed'),
         Become(e, x)
  PROVE  LInv'
<1>1. filed' \in Seq(Row) /\ fees' \in Seq(Fee(DOMAIN filed'))
      /\ FeeOncePerTier'
  BY FeesStay DEF KeepsTiers
<1>2. eval' \in [Evaluator -> Evaluation(DOMAIN filed')] /\ Recognised'
  BY Becomes
<1>3. LadderTypeOK'
  BY <1>1, <1>2 DEF LInv, LadderTypeOK, Row, Fee, Evaluation, Places, None
<1>4. Escalates'
  BY DEF LInv, Escalates
<1> QED BY <1>1, <1>2, <1>3, <1>4 DEF LInv

LEMMA OthersMove ==
  ASSUME LInv, KeepsTiers(filed, filed'), UNCHANGED <<fees, eval>>,
         day' \in 0..MaxDay, open' \subseteq Bill, owed' \in BOOLEAN,
         plan' \in [covers : SUBSET Bill, active : BOOLEAN],
         desk' \in [op : {"none", "cancel", "resolve", "escalate"}, on : Nat],
         Escalates'
  PROVE  LInv'
<1>1. filed' \in Seq(Row) /\ fees' \in Seq(Fee(DOMAIN filed'))
      /\ FeeOncePerTier'
  BY FeesStay DEF KeepsTiers
<1>2. eval' \in [Evaluator -> Evaluation(DOMAIN filed')] /\ Recognised'
  BY EvaluationsStay
<1>3. LadderTypeOK'
  BY <1>1, <1>2 DEF LInv, LadderTypeOK, Row, Fee, Evaluation, Places, None
<1> QED BY <1>1, <1>2, <1>3 DEF LInv

(***************************************************************************)
(* The steps of an evaluation before it charges.                           *)
(***************************************************************************)
LEMMA SameTiers == ASSUME LInv, UNCHANGED filed PROVE KeepsTiers(filed, filed')
BY LadderTyped DEF LInv, KeepsTiers

LEMMA EvaluationIsFit ==
  ASSUME LInv, NEW e \in Evaluator
  PROVE  eval[e] \in Evaluation(DOMAIN filed) /\ OfTheirTiers(eval[e].live, filed)
BY LadderTyped DEF LInv, Recognised

LEMMA GoesIsFit ==
  ASSUME LInv, NEW e \in Evaluator, NEW p \in Places
  PROVE  /\ Goes(e, p) \in Evaluation(DOMAIN filed)
         /\ Goes(e, p).live = eval[e].live
         /\ OfTheirTiers(Goes(e, p).live, filed)
<1>1. eval[e] \in Evaluation(DOMAIN filed) /\ OfTheirTiers(eval[e].live, filed)
  BY EvaluationIsFit
<1>2. /\ Goes(e, p) \in Evaluation(DOMAIN filed)
      /\ Goes(e, p).live = eval[e].live
  BY <1>1, PlaceOf DEF Goes
<1> QED BY <1>1, <1>2

\* The tier in hand is one of the ladder's.
LEMMA HandIsATier ==
  ASSUME LadderTypes, LInv, NEW e \in Evaluator, eval[e].todo # {}
  PROVE  Hand(e) \in Tiers
<1>1. eval[e].todo \subseteq Tiers /\ Tiers \subseteq Nat
  BY EvaluationIsFit DEF Evaluation, Tiers, LadderTypes
<1>2. \E x \in eval[e].todo : \A y \in eval[e].todo : x <= y
  BY <1>1, NatLeast
<1>3. Hand(e) \in eval[e].todo
  BY <1>2 DEF Hand, Least
<1> QED BY <1>1, <1>3

LEMMA ReadAccountKeeps ==
  ASSUME LadderTypes, LInv, NEW e \in Evaluator, ReadAccount(e)
  PROVE  LInv'
<1>1. PICK x : /\ x \in {Goes(e, "actions"), Done(e)}
               /\ Become(e, x)
  BY DEF ReadAccount
<1>2. x \in Evaluation(DOMAIN filed) /\ OfTheirTiers(x.live, filed)
  <2>1. "actions" \in Places
    BY DEF Places
  <2>2. CASE x = Goes(e, "actions")
    BY <2>1, <2>2, GoesIsFit
  <2>3. CASE x = Done(e)
    BY <2>3, RestIsFit
  <2> QED BY <1>1, <2>2, <2>3
<1>3. UNCHANGED <<day, open, owed, plan, filed, fees, desk>>
  BY DEF ReadAccount
<1> QED BY <1>1, <1>2, <1>3, SameTiers, EvaluationMoves

LEMMA ReadActionsKeeps ==
  ASSUME LadderTypes, LInv, NEW e \in Evaluator, ReadActions(e)
  PROVE  LInv'
<1> DEFINE live == [t \in Tiers |-> LiveAction(t)]
           c == Goes(e, "clock")
           x == [c EXCEPT !.live = live]
<1>1. live \in [Tiers -> {0} \union DOMAIN filed] /\ OfTheirTiers(live, filed)
  BY LiveActionIsOfTier DEF OfTheirTiers
<1>2. c \in Evaluation(DOMAIN filed)
  <2>1. "clock" \in Places
    BY DEF Places
  <2> QED BY <2>1, GoesIsFit
<1>3. UNCHANGED <<day, open, owed, plan, filed, fees, desk>> /\ Become(e, x)
  BY DEF ReadActions, world
<1>4. x \in Evaluation(DOMAIN filed) /\ x.live = live
  <2>1. live \in [Tiers -> {0} \union DOMAIN filed]
    BY <1>1
  <2> HIDE DEF live, c
  <2> QED BY <1>2, <2>1, LiveOf
<1>5. PICK y : /\ y \in Evaluation(DOMAIN filed) /\ OfTheirTiers(y.live, filed)
               /\ Become(e, y)
  BY <1>1, <1>3, <1>4
<1> QED BY <1>3, <1>5, SameTiers, EvaluationMoves

LEMMA ReadClockKeeps ==
  ASSUME LadderTypes, LInv, NEW e \in Evaluator, ReadClock(e)
  PROVE  LInv'
<1>1. UNCHANGED <<day, open, owed, plan, filed, fees, desk>>
  BY DEF ReadClock, world
<1>2. ASSUME NEW reached,
             NEW live, live = [t \in Tiers |-> IF t \in reached THEN eval[e].live[t]
                                                                ELSE 0],
             NEW todo \in SUBSET Tiers,
             NEW x, x = [Goes(e, "file")
                           EXCEPT !.asOf = day, !.live = live, !.todo = todo]
      PROVE  x \in Evaluation(DOMAIN filed) /\ OfTheirTiers(x.live, filed)
  <2> DEFINE c == Goes(e, "file")
             d == [c EXCEPT !.asOf = day]
             f == [d EXCEPT !.live = live]
  <2>1. eval[e].live \in [Tiers -> {0} \union DOMAIN filed]
        /\ OfTheirTiers(eval[e].live, filed)
    BY EvaluationIsFit DEF Evaluation
  <2>2. live \in [Tiers -> {0} \union DOMAIN filed] /\ OfTheirTiers(live, filed)
    BY <1>2, <2>1 DEF OfTheirTiers
  <2>3. c \in Evaluation(DOMAIN filed)
    <3>1. "file" \in Places
      BY DEF Places
    <3> QED BY <3>1, GoesIsFit
  <2>4. x = [f EXCEPT !.todo = todo] /\ todo \subseteq Tiers
    BY <1>2
  <2>5. day \in 0..MaxDay
    BY DEF LInv, LadderTypeOK
  <2> HIDE DEF c
  <2>6. d \in Evaluation(DOMAIN filed)
    BY <2>3, <2>5, DayOf
  <2> HIDE DEF d
  <2>7. f \in Evaluation(DOMAIN filed) /\ f.live = live
    BY <2>2, <2>6, LiveOf
  <2> HIDE DEF f
  <2>8. x \in Evaluation(DOMAIN filed) /\ x.live = live
    BY <2>4, <2>7, TodoOf
  <2> QED BY <2>2, <2>8
<1>3. PICK x : /\ Become(e, x)
               /\ x \in Evaluation(DOMAIN filed) /\ OfTheirTiers(x.live, filed)
  <2>1. PICK feeDates \in FeeDates :
          LET uncovered == (open \ Covered) \union feeDates
              reached == {t \in Tiers : t * TierDays <= day - Least(uncovered)}
              live == [t \in Tiers |-> IF t \in reached THEN eval[e].live[t] ELSE 0]
              x == [Goes(e, "file") EXCEPT
                      !.asOf = day, !.live = live, !.todo = {t \in reached : live[t] = 0}]
          IN  Become(e, Done(e)) \/ Become(e, x)
    BY DEF ReadClock, None
  <2>2. PICK reached : /\ reached \subseteq Tiers
           /\ LET live == [t \in Tiers |-> IF t \in reached THEN eval[e].live[t] ELSE 0]
              IN  \/ Become(e, Done(e))
                  \/ Become(e, [Goes(e, "file") EXCEPT
                       !.asOf = day, !.live = live, !.todo = {t \in reached : live[t] = 0}])
    <3> DEFINE r == {t \in Tiers : t * TierDays <=
                        day - Least((open \ Covered) \union feeDates)}
    <3>1. r \subseteq Tiers
      OBVIOUS
    <3> QED BY <2>1, <3>1
  <2>3. CASE Become(e, Done(e))
    BY <2>3, RestIsFit
  <2>4. CASE ~Become(e, Done(e))
    <3> DEFINE live == [t \in Tiers |-> IF t \in reached THEN eval[e].live[t] ELSE 0]
               todo == {t \in reached : live[t] = 0}
               x == [Goes(e, "file") EXCEPT !.asOf = day, !.live = live, !.todo = todo]
    <3>1. Become(e, x) /\ todo \in SUBSET Tiers
      BY <2>2, <2>4
    <3>a. /\ live = [t \in Tiers |-> IF t \in reached THEN eval[e].live[t] ELSE 0]
          /\ x = [Goes(e, "file") EXCEPT !.asOf = day, !.live = live, !.todo = todo]
      OBVIOUS
    <3> HIDE DEF live, todo, x
    <3>2. x \in Evaluation(DOMAIN filed) /\ OfTheirTiers(x.live, filed)
      BY <1>2, <3>1, <3>a
    <3> QED BY <3>1, <3>2
  <2> QED BY <2>3, <2>4
<1> QED BY <1>1, <1>3, SameTiers, EvaluationMoves

\* An evaluation that is through with the tier in hand.
LEMMA NextTierIsFit ==
  ASSUME LInv, NEW e \in Evaluator
  PROVE  /\ NextTier(e) \in Evaluation(DOMAIN filed)
         /\ NextTier(e).live = eval[e].live
<1> DEFINE rest == eval[e].todo \ {Hand(e)}
           c == Goes(e, "file")
<1>1. c \in Evaluation(DOMAIN filed) /\ c.live = eval[e].live
  BY GoesIsFit DEF Places
<1>2. NextTier(e) = [c EXCEPT !.todo = rest]
  BY DEF NextTier, Goes
<1>3. rest \subseteq Tiers
  BY EvaluationIsFit DEF Evaluation
<1> HIDE DEF rest, c
<1> QED BY <1>1, <1>2, <1>3, TodoOf

LEMMA NotifyKeeps ==
  ASSUME LadderTypes, LInv, NEW e \in Evaluator, Notify(e)
  PROVE  LInv'
<1>1. UNCHANGED <<day, open, owed, plan, fees, desk>>
      /\ Become(e, NextTier(e))
  BY DEF Notify, world
<1>2. KeepsTiers(filed, filed')
  <2>1. filed \in Seq(Row) /\ "COMPLETED" \in Status
    BY LadderTyped DEF LInv, Status, LiveStatus
  <2>2. CASE filed' = [filed EXCEPT ![eval[e].live[Hand(e)]].status = "COMPLETED"]
    BY <2>1, <2>2, StatusKeepsTiers
  <2>3. CASE UNCHANGED filed
    BY <2>3, SameTiers
  <2> QED BY <2>2, <2>3 DEF Notify
<1>3. PICK x : x = NextTier(e)
  OBVIOUS
<1>4. x \in Evaluation(DOMAIN filed) /\ OfTheirTiers(x.live, filed)
  BY <1>3, NextTierIsFit, EvaluationIsFit
<1>5. x \in Evaluation(DOMAIN filed') /\ OfTheirTiers(x.live, filed')
  BY <1>2, <1>4, EvaluationsGrow
<1> QED BY <1>1, <1>2, <1>3, <1>5, EvaluationMoves

LEMMA FileKeeps ==
  ASSUME LadderTypes, LInv, NEW e \in Evaluator, FileAction(e)
  PROVE  LInv'
<1>1. UNCHANGED <<day, open, owed, plan, fees, desk>> /\ eval[e].todo # {}
  BY DEF FileAction, world
<1>2. CASE UNCHANGED filed /\ Become(e, NextTier(e))
  BY <1>1, <1>2, SameTiers, NextTierIsFit, EvaluationIsFit, EvaluationMoves
<1>3. CASE ~(UNCHANGED filed /\ Become(e, NextTier(e)))
  <2>1. PICK t : t = Hand(e) /\ t \in Tiers
    BY <1>1, HandIsATier
  <2>2. PICK c : c = IF t \in Notices THEN Goes(e, "notice") ELSE NextTier(e)
    OBVIOUS
  <2>3. /\ filed' = Append(filed, [tier |-> t, status |-> "PENDING"])
        /\ Become(e, [c EXCEPT !.live[t] = Len(filed) + 1])
    BY <1>3, <2>1, <2>2 DEF FileAction
  <2>4. /\ KeepsTiers(filed, filed')
        /\ Len(filed) + 1 \in DOMAIN filed' /\ filed'[Len(filed) + 1].tier = t
    <3>1. filed \in Seq(Row) /\ "PENDING" \in Status
      BY LadderTyped DEF LInv, Status, LiveStatus
    <3>2. PICK s : s = "PENDING"
      OBVIOUS
    <3> QED BY <2>1, <2>3, <3>1, <3>2, FilingKeepsTiers
  <2>5. c \in Evaluation(DOMAIN filed) /\ OfTheirTiers(c.live, filed)
    <3>1. "notice" \in Places
      BY DEF Places
    <3> QED BY <2>2, <3>1, GoesIsFit, NextTierIsFit, EvaluationIsFit
  <2>6. c \in Evaluation(DOMAIN filed') /\ OfTheirTiers(c.live, filed')
    BY <2>4, <2>5, EvaluationsGrow
  <2> DEFINE live == [c.live EXCEPT ![t] = Len(filed) + 1]
  <2>7. /\ live \in [Tiers -> {0} \union DOMAIN filed']
        /\ OfTheirTiers(live, filed')
    <3>1. c.live \in [Tiers -> {0} \union DOMAIN filed']
      BY <2>6 DEF Evaluation
    <3> QED BY <2>4, <2>6, <3>1 DEF OfTheirTiers
  <2>8. [c EXCEPT !.live[t] = Len(filed) + 1] = [c EXCEPT !.live = live]
    OBVIOUS
  <2>9. PICK x : x = [c EXCEPT !.live = live] /\ Become(e, x)
    BY <2>3, <2>8
  <2>10. x \in Evaluation(DOMAIN filed') /\ OfTheirTiers(x.live, filed')
    <3> HIDE DEF live
    <3>1. x \in Evaluation(DOMAIN filed') /\ x.live = live
      BY <2>6, <2>7, <2>9, LiveOf
    <3> QED BY <2>7, <3>1
  <2> QED BY <1>1, <2>4, <2>9, <2>10, EvaluationMoves
<1> QED BY <1>2, <1>3

(***************************************************************************)
(* The closing of a clear account's actions, and a process that dies.      *)
(***************************************************************************)
LEMMA FindClearedKeeps ==
  ASSUME LadderTypes, LInv, Job \in Evaluator, FindPaidUp
  PROVE  LInv'
<1>1. UNCHANGED <<day, open, owed, plan, filed, fees, desk>>
  BY DEF FindPaidUp, world
<1>2. PICK x : /\ x \in {[eval[Job] EXCEPT !.closing = LiveActions], Unstarted}
               /\ Become(Job, x)
  BY DEF FindPaidUp
<1>3. LiveActions \subseteq DOMAIN filed
  BY DEF LiveActions
<1>4. x \in Evaluation(DOMAIN filed) /\ OfTheirTiers(x.live, filed)
  <2>1. CASE x = [eval[Job] EXCEPT !.closing = LiveActions]
    <3>1. eval[Job] \in Evaluation(DOMAIN filed) /\ OfTheirTiers(eval[Job].live, filed)
      BY EvaluationIsFit
    <3> QED BY <1>3, <2>1, <3>1, ClosingOf
  <2>2. CASE x = Unstarted
    BY <2>2, RestIsFit
  <2> QED BY <1>2, <2>1, <2>2
<1> QED BY <1>1, <1>2, <1>4, SameTiers, EvaluationMoves

LEMMA CloseKeeps ==
  ASSUME LadderTypes, LInv, Job \in Evaluator, Close
  PROVE  LInv'
<1>1. UNCHANGED <<day, open, owed, plan, fees, desk>>
  BY DEF Close, world
<1>2. KeepsTiers(filed, filed')
  <2>1. filed \in Seq(Row) /\ "RESOLVED" \in Status
    BY LadderTyped DEF LInv, Status
  <2> QED BY <2>1, StatusKeepsTiers DEF Close
<1>3. PICK x, a :
        /\ x \in {[eval[Job] EXCEPT !.closing = eval[Job].closing \ {a}], Unstarted}
        /\ Become(Job, x)
  BY DEF Close
<1>4. x \in Evaluation(DOMAIN filed) /\ OfTheirTiers(x.live, filed)
  <2>1. CASE x = [eval[Job] EXCEPT !.closing = eval[Job].closing \ {a}]
    <3>1. eval[Job] \in Evaluation(DOMAIN filed) /\ OfTheirTiers(eval[Job].live, filed)
      BY EvaluationIsFit
    <3>2. eval[Job].closing \ {a} \subseteq DOMAIN filed
      BY <3>1 DEF Evaluation
    <3> QED BY <2>1, <3>1, <3>2, ClosingOf
  <2>2. CASE x = Unstarted
    BY <2>2, RestIsFit
  <2> QED BY <1>3, <2>1, <2>2
<1>5. x \in Evaluation(DOMAIN filed') /\ OfTheirTiers(x.live, filed')
  BY <1>2, <1>4, EvaluationsGrow
<1> QED BY <1>1, <1>2, <1>3, <1>5, EvaluationMoves

LEMMA LadderCrashKeeps ==
  ASSUME LadderTypes, LInv, NEW e \in Evaluator, EvaluationDies(e)
  PROVE  LInv'
<1>1. UNCHANGED <<day, open, owed, plan, filed, fees, desk>>
      /\ Become(e, Unstarted)
  BY DEF EvaluationDies
<1> QED BY <1>1, SameTiers, RestIsFit, EvaluationMoves

(***************************************************************************)
(* The charge.  The fees it raises are of pairs of tier and bill that no   *)
(* fee has yet been raised for, in an order that repeats none.             *)
(***************************************************************************)
LEMMA FeesDueAre ==
  ASSUME LadderTypes, LInv, NEW e \in Evaluator
  PROVE  /\ IsFiniteSet(FeesDue(e))
         /\ \A f \in FeesDue(e) :
              /\ f = <<f[1], f[2]>>
              /\ f[1] \in Tiers /\ f[1] \in Int
              /\ f[2] \in Bill /\ f[2] \in Int
              /\ f[2] \in open \ Covered
              /\ eval[e].live[f[1]] \in DOMAIN filed
              /\ filed[eval[e].live[f[1]]].tier = f[1]
              /\ \A i \in DOMAIN fees :
                   ~(fees[i].bill = f[2] /\ filed[fees[i].action].tier = f[1])
<1> DEFINE R == FeesDue(e)
<1>1. /\ Charging \subseteq 1..MaxTier /\ MaxTier \in Nat /\ MaxDay \in Nat
      /\ Bill \subseteq Nat
  BY DEF LadderTypes
<1>2. /\ eval[e].live \in [Tiers -> {0} \union DOMAIN filed]
      /\ eval[e].asOf \in 0..MaxDay /\ OfTheirTiers(eval[e].live, filed)
  BY EvaluationIsFit DEF Evaluation
<1>3. open \subseteq Bill
  BY DEF LInv, LadderTypeOK
<1>4. ASSUME NEW f \in R
      PROVE  /\ f \in Charging \X (open \ Covered)
             /\ eval[e].live[f[1]] # 0 /\ f[2] < eval[e].asOf
             /\ ~AlreadyCharged(f[1], f[2])
  BY DEF FeesDue, ChargingTiers, Chargeable, None
<1>5. IsFiniteSet(R)
  <2>1. IsFiniteSet((1..MaxTier) \X (0..MaxDay))
    <3>1. 1 \in Int /\ MaxTier \in Int /\ 0 \in Int /\ MaxDay \in Int
      BY <1>1
    <3>2. IsFiniteSet(1..MaxTier) /\ IsFiniteSet(0..MaxDay)
      BY <3>1, FS_Interval
    <3> QED BY <3>2, FS_Product
  <2>2. R \subseteq (1..MaxTier) \X (0..MaxDay)
    <3>1. ASSUME NEW f \in R PROVE f \in (1..MaxTier) \X (0..MaxDay)
      <4>1. f = <<f[1], f[2]>> /\ f[1] \in 1..MaxTier /\ f[2] \in Nat
        BY <1>1, <1>3, <1>4
      <4>2. f[2] \in 0..MaxDay
        BY <1>1, <1>2, <1>4, <4>1
      <4> QED BY <4>1, <4>2
    <3> QED BY <3>1
  <2> HIDE DEF R
  <2> QED BY <2>1, <2>2, FS_Subset
<1>6. ASSUME NEW f \in R
      PROVE  /\ f = <<f[1], f[2]>>
             /\ f[1] \in Tiers /\ f[1] \in Int
             /\ f[2] \in Bill /\ f[2] \in Int
             /\ f[2] \in open \ Covered
             /\ eval[e].live[f[1]] \in DOMAIN filed
             /\ filed[eval[e].live[f[1]]].tier = f[1]
             /\ \A i \in DOMAIN fees :
                  ~(fees[i].bill = f[2] /\ filed[fees[i].action].tier = f[1])
  <2>1. /\ f = <<f[1], f[2]>> /\ f[1] \in Tiers /\ f[1] \in Int
        /\ f[2] \in Bill /\ f[2] \in Int /\ f[2] \in open \ Covered
    BY <1>1, <1>3, <1>4 DEF Tiers
  <2>2. eval[e].live[f[1]] \in DOMAIN filed /\ filed[eval[e].live[f[1]]].tier = f[1]
    BY <1>2, <1>4, <2>1 DEF OfTheirTiers
  <2>3. \A i \in DOMAIN fees :
          ~(fees[i].bill = f[2] /\ filed[fees[i].action].tier = f[1])
    BY <1>4 DEF AlreadyCharged
  <2> QED BY <2>1, <2>2, <2>3
<1> QED BY <1>5, <1>6

LEMMA ChargeRaises ==
  ASSUME LadderTypes, LInv, NEW e \in Evaluator, Charge(e)
  PROVE  \E n \in Nat : \E order \in [1..n -> FeesDue(e)] :
           /\ \A i, j \in 1..n : i < j => ChargedFirst(order[i], order[j])
           /\ fees' \in Seq(Fee(DOMAIN filed)) /\ Len(fees) \in Nat
           /\ DOMAIN fees = 1..Len(fees) /\ DOMAIN fees' = 1..(Len(fees) + n)
           /\ \A i \in 1..Len(fees) : /\ fees'[i].bill = fees[i].bill
                                      /\ fees'[i].action = fees[i].action
           /\ \A i \in 1..n :
                /\ fees'[Len(fees) + i].bill = order[i][2]
                /\ fees'[Len(fees) + i].action = eval[e].live[order[i][1]]
<1> DEFINE R == FeesDue(e)
           n == Cardinality(R)
           Entry(f) == [action |-> eval[e].live[f[1]], bill |-> f[2], reversed |-> FALSE]
           All(order) == fees \o [i \in DOMAIN order |-> Entry(order[i])]
           Marked(s) == [i \in DOMAIN s |->
                          [s[i] EXCEPT !.reversed = @ \/ Displaced(s[i], R)]]
<1>1. \E order \in [1..n -> R] :
        /\ \A i, j \in DOMAIN order : i < j => ChargedFirst(order[i], order[j])
        /\ fees' = Marked(All(order))
  BY DEF Charge
<1>2. n \in Nat
  BY FeesDueAre, FS_CardinalityType
<1> HIDE DEF n, Marked, Entry
<1>3. PICK order :
        /\ order \in [1..n -> R] /\ DOMAIN order = 1..n
        /\ \A i, j \in 1..n : i < j => ChargedFirst(order[i], order[j])
        /\ fees' = Marked(All(order))
  BY <1>1
<1>4. PICK new : new = [i \in 1..n |-> Entry(order[i])]
  OBVIOUS
<1>5. ASSUME NEW i \in 1..n
      PROVE  /\ new[i] \in Fee(DOMAIN filed)
             /\ new[i].bill = order[i][2] /\ new[i].action = eval[e].live[order[i][1]]
  <2>1. order[i] \in R
    BY <1>3
  <2>2. order[i][2] \in Bill /\ eval[e].live[order[i][1]] \in DOMAIN filed
    BY <2>1, FeesDueAre
  <2>3. new[i] = Entry(order[i])
    BY <1>4
  <2> QED BY <2>2, <2>3 DEF Entry, Fee
<1> HIDE DEF R
<1>6. fees \in Seq(Fee(DOMAIN filed)) /\ new \in Seq(Fee(DOMAIN filed)) /\ Len(new) = n
  <2>1. fees \in Seq(Fee(DOMAIN filed))
    BY LadderTyped DEF LInv
  <2>2. new \in [1..n -> Fee(DOMAIN filed)]
    BY <1>4, <1>5
  <2>3. new \in Seq(Fee(DOMAIN filed)) /\ Len(new) = n
    BY <1>2, <2>2
  <2> QED BY <2>1, <2>3
<1>7. PICK all : all = fees \o new
  OBVIOUS
<1>8. /\ all \in Seq(Fee(DOMAIN filed)) /\ Len(all) = Len(fees) + n
      /\ Len(fees) \in Nat /\ DOMAIN fees = 1..Len(fees)
      /\ DOMAIN all = 1..(Len(fees) + n)
      /\ \A i \in 1..Len(fees) : all[i] = fees[i]
      /\ \A i \in 1..n : all[Len(fees) + i] = new[i]
  <2>1. /\ all \in Seq(Fee(DOMAIN filed)) /\ Len(all) = Len(fees) + n
        /\ Len(fees) \in Nat /\ DOMAIN fees = 1..Len(fees)
        /\ \A i \in 1..Len(fees) : all[i] = fees[i]
    <3>1. fees \in Seq(Fee(DOMAIN filed)) /\ new \in Seq(Fee(DOMAIN filed))
      BY <1>6
    <3>2. all \in Seq(Fee(DOMAIN filed)) /\ Len(all) = Len(fees) + Len(new)
      BY <1>7, <3>1
    <3>3. \A i \in 1..Len(fees) : all[i] = fees[i]
      BY <1>7, <3>1
    <3> QED BY <1>6, <3>1, <3>2, <3>3
  <2>2. DOMAIN all = 1..(Len(fees) + n)
    BY <2>1
  <2>3. \A i \in 1..n : all[Len(fees) + i] = new[i]
    BY <1>2, <1>6, <1>7, <2>1
  <2> QED BY <2>1, <2>2, <2>3
<1>9. fees' = [i \in DOMAIN all |->
                 [all[i] EXCEPT !.reversed = @ \/ Displaced(all[i], R)]]
  BY <1>3, <1>4, <1>7 DEF Marked
<1>10. ASSUME NEW i \in DOMAIN all
       PROVE  /\ fees'[i] \in Fee(DOMAIN filed)
              /\ fees'[i].bill = all[i].bill /\ fees'[i].action = all[i].action
  <2>1. all[i] \in Fee(DOMAIN filed)
    BY <1>8, <1>10
  <2>2. PICK b \in BOOLEAN : b = (all[i].reversed \/ Displaced(all[i], R))
    OBVIOUS
  <2>3. fees'[i] = [all[i] EXCEPT !.reversed = b]
    BY <1>9, <2>2
  <2> QED BY <2>1, <2>3 DEF Fee
<1>11. fees' \in Seq(Fee(DOMAIN filed)) /\ DOMAIN fees' = 1..(Len(fees) + n)
  <2>1. DOMAIN fees' = DOMAIN all /\ fees' = [i \in DOMAIN fees' |-> fees'[i]]
    BY <1>9
  <2> QED BY <1>2, <1>8, <1>10, <2>1
<1>12. \A i \in 1..Len(fees) : fees'[i].bill = fees[i].bill
                               /\ fees'[i].action = fees[i].action
  BY <1>2, <1>8, <1>10
<1>13. \A i \in 1..n : /\ fees'[Len(fees) + i].bill = order[i][2]
                       /\ fees'[Len(fees) + i].action = eval[e].live[order[i][1]]
  <2>1. ASSUME NEW i \in 1..n PROVE Len(fees) + i \in DOMAIN all
    BY <1>2, <1>8
  <2>2. ASSUME NEW i \in 1..n
        PROVE  /\ fees'[Len(fees) + i].bill = new[i].bill
               /\ fees'[Len(fees) + i].action = new[i].action
    BY <1>8, <1>10, <2>1
  <2> QED BY <1>5, <2>2
<1>14. order \in [1..n -> FeesDue(e)]
  BY <1>3 DEF R
<1>15. Len(fees) \in Nat /\ DOMAIN fees = 1..Len(fees)
  BY <1>8
<1> QED BY <1>2, <1>3, <1>11, <1>12, <1>13, <1>14, <1>15

LEMMA ChargeKeepsOnce ==
  ASSUME LadderTypes, LInv, NEW e \in Evaluator, Charge(e)
  PROVE  FeeOncePerTier'
<1>0. PICK n \in Nat : \E order \in [1..n -> FeesDue(e)] :
        /\ \A i, j \in 1..n : i < j => ChargedFirst(order[i], order[j])
        /\ fees' \in Seq(Fee(DOMAIN filed)) /\ Len(fees) \in Nat
        /\ DOMAIN fees = 1..Len(fees) /\ DOMAIN fees' = 1..(Len(fees) + n)
        /\ \A i \in 1..Len(fees) : /\ fees'[i].bill = fees[i].bill
                                   /\ fees'[i].action = fees[i].action
        /\ \A i \in 1..n :
             /\ fees'[Len(fees) + i].bill = order[i][2]
             /\ fees'[Len(fees) + i].action = eval[e].live[order[i][1]]
  BY ChargeRaises
<1>1. PICK order \in [1..n -> FeesDue(e)] :
        /\ \A i, j \in 1..n : i < j => ChargedFirst(order[i], order[j])
        /\ fees' \in Seq(Fee(DOMAIN filed)) /\ Len(fees) \in Nat
        /\ DOMAIN fees = 1..Len(fees) /\ DOMAIN fees' = 1..(Len(fees) + n)
        /\ \A i \in 1..Len(fees) : /\ fees'[i].bill = fees[i].bill
                                   /\ fees'[i].action = fees[i].action
        /\ \A i \in 1..n :
             /\ fees'[Len(fees) + i].bill = order[i][2]
             /\ fees'[Len(fees) + i].action = eval[e].live[order[i][1]]
  BY <1>0
<1>2. ASSUME NEW i \in 1..n
      PROVE  /\ order[i] = <<order[i][1], order[i][2]>>
             /\ order[i][1] \in Int /\ order[i][2] \in Int
             /\ fees'[Len(fees) + i].bill = order[i][2]
             /\ filed[fees'[Len(fees) + i].action].tier = order[i][1]
             /\ \A k \in DOMAIN fees :
                  ~(fees[k].bill = order[i][2] /\ filed[fees[k].action].tier = order[i][1])
  <2>1. order[i] \in FeesDue(e)
    BY <1>1
  <2>2. PICK d \in FeesDue(e) : d = order[i]
    BY <2>1
  <2>3. /\ d = <<d[1], d[2]>> /\ d[1] \in Int /\ d[2] \in Int
        /\ filed[eval[e].live[d[1]]].tier = d[1]
        /\ \A k \in DOMAIN fees :
             ~(fees[k].bill = d[2] /\ filed[fees[k].action].tier = d[1])
    BY FeesDueAre
  <2>4. /\ fees'[Len(fees) + i].bill = d[2]
        /\ fees'[Len(fees) + i].action = eval[e].live[d[1]]
    BY <1>1, <2>2
  <2> QED BY <2>2, <2>3, <2>4
<1>3. UNCHANGED filed
  BY DEF Charge
<1>4. ASSUME NEW i \in DOMAIN fees', i \notin DOMAIN fees
      PROVE  \E k \in 1..n : i = Len(fees) + k
  <2>1. i \in 1..(Len(fees) + n) /\ i \notin 1..Len(fees)
    BY <1>1, <1>4
  <2>2. i - Len(fees) \in 1..n /\ i = Len(fees) + (i - Len(fees))
    BY <1>1, <2>1
  <2> QED BY <2>2
<1>5. ASSUME NEW i \in DOMAIN fees, NEW k \in 1..n
      PROVE  ~(/\ fees'[i].bill = fees'[Len(fees) + k].bill
               /\ filed[fees'[i].action].tier = filed[fees'[Len(fees) + k].action].tier)
  <2>1. fees'[i].bill = fees[i].bill /\ fees'[i].action = fees[i].action
    BY <1>1, <1>5
  <2>2. /\ fees'[Len(fees) + k].bill = order[k][2]
        /\ filed[fees'[Len(fees) + k].action].tier = order[k][1]
        /\ ~(fees[i].bill = order[k][2] /\ filed[fees[i].action].tier = order[k][1])
    BY <1>2, <1>5
  <2> QED BY <2>1, <2>2
<1>6. ASSUME NEW j \in 1..n, NEW k \in 1..n,
             fees'[Len(fees) + j].bill = fees'[Len(fees) + k].bill,
             filed[fees'[Len(fees) + j].action].tier = filed[fees'[Len(fees) + k].action].tier
      PROVE  j = k
  <2>1. order[j][1] = order[k][1] /\ order[j][2] = order[k][2]
        /\ order[j][1] \in Int /\ order[j][2] \in Int
    BY <1>2, <1>6
  <2>2. ~ChargedFirst(order[j], order[k]) /\ ~ChargedFirst(order[k], order[j])
    BY <2>1 DEF ChargedFirst
  <2> QED BY <1>1, <2>2
<1>7. SUFFICES ASSUME NEW i \in DOMAIN fees', NEW j \in DOMAIN fees',
                      fees'[i].bill = fees'[j].bill,
                      filed[fees'[i].action].tier = filed[fees'[j].action].tier
               PROVE  i = j
  BY <1>3 DEF FeeOncePerTier
<1>8. CASE i \in DOMAIN fees /\ j \in DOMAIN fees
  <2>1. FeeOncePerTier
    BY DEF LInv
  <2> QED BY <1>1, <1>7, <1>8, <2>1 DEF FeeOncePerTier
<1>9. CASE i \in DOMAIN fees /\ j \notin DOMAIN fees
  BY <1>4, <1>5, <1>7, <1>9
<1>10. CASE i \notin DOMAIN fees /\ j \in DOMAIN fees
  BY <1>4, <1>5, <1>7, <1>10
<1>11. CASE i \notin DOMAIN fees /\ j \notin DOMAIN fees
  BY <1>4, <1>6, <1>7, <1>11
<1> QED BY <1>8, <1>9, <1>10, <1>11

LEMMA ChargeKeeps ==
  ASSUME LadderTypes, LInv, NEW e \in Evaluator, Charge(e)
  PROVE  LInv'
<1>1. UNCHANGED <<day, open, plan, filed, desk>> /\ owed' \in BOOLEAN
      /\ Become(e, Done(e))
  BY DEF Charge
<1>2. fees' \in Seq(Fee(DOMAIN filed))
  BY ChargeRaises
<1>3. eval' \in [Evaluator -> Evaluation(DOMAIN filed')] /\ Recognised'
  BY <1>1, SameTiers, RestIsFit, Becomes
<1>4. LadderTypeOK'
  BY <1>1, <1>2, <1>3, LadderTyped
  DEF LInv, LadderTypeOK, Row, Fee, Evaluation, Places, None
<1>5. Escalates'
  BY <1>1 DEF LInv, Escalates
<1> QED BY <1>3, <1>4, <1>5, ChargeKeepsOnce DEF LInv

(***************************************************************************)
(* Every step of an evaluation.                                            *)
(***************************************************************************)
LEMMA EvaluationKeeps ==
  ASSUME LadderTypes, LInv, NEW e \in Evaluator,
         Evaluate(e) \/ EvaluationDies(e)
  PROVE  LInv'
<1>1. Job \in Evaluator
  BY DEF LadderTypes
<1>2. CASE ReadAccount(e)
  BY <1>2, ReadAccountKeeps
<1>3. CASE ReadActions(e)
  BY <1>3, ReadActionsKeeps
<1>4. CASE ReadClock(e)
  BY <1>4, ReadClockKeeps
<1>5. CASE FileAction(e)
  BY <1>5, FileKeeps
<1>6. CASE Notify(e)
  BY <1>6, NotifyKeeps
<1>7. CASE Charge(e)
  BY <1>7, ChargeKeeps
<1>8. CASE FindPaidUp
  BY <1>1, <1>8, FindClearedKeeps
<1>9. CASE Close
  BY <1>1, <1>9, CloseKeeps
<1>10. CASE EvaluationDies(e)
  BY <1>10, LadderCrashKeeps
<1> QED BY <1>2, <1>3, <1>4, <1>5, <1>6, <1>7, <1>8, <1>9, <1>10 DEF Evaluate

(***************************************************************************)
(* The clerk's steps and the account's.                                    *)
(***************************************************************************)
Desks == [op : {"none", "cancel", "resolve", "escalate"}, on : Nat]

LEMMA WorldTyped ==
  ASSUME LInv
  PROVE  /\ day \in 0..MaxDay /\ open \subseteq Bill /\ owed \in BOOLEAN
         /\ plan \in [covers : SUBSET Bill, active : BOOLEAN]
         /\ desk \in Desks /\ Escalates /\ filed \in Seq(Row)
BY LadderTyped DEF LInv, LadderTypeOK, Desks

LEMMA IdleDesk == Idle \in Desks /\ Idle.op = "none"
BY DEF Idle, Desks

LEMMA BeginKeeps ==
  ASSUME LInv, KeepsTiers(filed, filed'), NEW op, NEW on,
         [op |-> op, on |-> on] \in Desks, Begin(op, on),
         op = "escalate" => on \in Tiers
  PROVE  LInv'
<1>1. /\ UNCHANGED <<day, open, owed, plan, fees, eval>>
      /\ desk' = [op |-> op, on |-> on]
  BY DEF Begin
<1>2. desk' \in Desks /\ Escalates'
  BY <1>1 DEF Escalates, Tiers
<1> QED BY <1>1, <1>2, WorldTyped, OthersMove DEF Desks

LEMMA ClerkKeeps ==
  ASSUME LadderTypes, LInv,
         \/ \E a \in DOMAIN filed : ReadForCancel(a)
         \/ CancelAction \/ BeginResolve \/ FinishResolve
         \/ ReadForEscalate \/ Escalate
  PROVE  LInv'
<1>t. /\ filed \in Seq(Row) /\ DOMAIN filed \subseteq Nat
      /\ Tiers \subseteq Nat
  BY WorldTyped DEF Tiers, LadderTypes
<1>r. ASSUME KeepsTiers(filed, filed'), desk' = Idle,
             UNCHANGED <<day, open, owed, plan, fees, eval>>
      PROVE  LInv'
  <2>1. desk' \in Desks /\ Escalates'
    BY <1>r, IdleDesk DEF Escalates
  <2> QED BY <1>r, <2>1, WorldTyped, OthersMove DEF Desks
<1>1. ASSUME NEW a \in DOMAIN filed, ReadForCancel(a) PROVE LInv'
  <2>1. UNCHANGED filed /\ Begin("cancel", a)
    BY <1>1 DEF ReadForCancel
  <2>2. [op |-> "cancel", on |-> a] \in Desks
    BY <1>t DEF Desks
  <2> QED BY <2>1, <2>2, SameTiers, BeginKeeps
<1>2. CASE CancelAction
  <2>1. "CANCELLED" \in Status
    BY DEF Status
  <2>2. KeepsTiers(filed, filed')
    BY <1>2, <1>t, <2>1, StatusKeepsTiers DEF CancelAction
  <2> QED BY <1>2, <1>r, <2>2 DEF CancelAction, world
<1>3. CASE BeginResolve
  <2>1. KeepsTiers(filed, filed') /\ Begin("resolve", 0)
    BY <1>3, <1>t, PendingKeepsTiers DEF BeginResolve
  <2>2. [op |-> "resolve", on |-> 0] \in Desks
    BY DEF Desks
  <2> QED BY <2>1, <2>2, BeginKeeps
<1>4. CASE FinishResolve
  <2>1. KeepsTiers(filed, filed')
    BY <1>4, <1>t, HighestKeepsTiers DEF FinishResolve
  <2> QED BY <1>4, <1>r, <2>1 DEF FinishResolve, world
<1>5. CASE ReadForEscalate
  <2>1. PICK next \in Tiers : Begin("escalate", next) /\ UNCHANGED filed
    BY <1>5 DEF ReadForEscalate
  <2>2. [op |-> "escalate", on |-> next] \in Desks
    BY <1>t, <2>1 DEF Desks
  <2> QED BY <2>1, <2>2, SameTiers, BeginKeeps
<1>6. CASE Escalate
  <2>1. /\ UNCHANGED <<day, open, owed, plan, fees, eval>> /\ desk' = Idle
        /\ desk.on \in Tiers
    BY <1>6, WorldTyped DEF Escalate, world, Escalates
  <2>2. KeepsTiers(filed, filed')
    <3>1. CASE UNCHANGED filed
      BY <3>1, SameTiers
    <3>2. CASE ~UNCHANGED filed
      <4>1. PICK s \in LiveStatus \union {"PENDING"} :
              filed' = Append(filed, [tier |-> desk.on, status |-> s])
        BY <1>6, <3>2 DEF Escalate
      <4>2. s \in Status
        BY <4>1 DEF Status, LiveStatus
      <4> QED BY <1>t, <2>1, <4>1, <4>2, FilingKeepsTiers
    <3> QED BY <3>1, <3>2
  <2> QED BY <1>r, <2>1, <2>2
<1> QED BY <1>1, <1>2, <1>3, <1>4, <1>5, <1>6

LEMMA AccountKeeps ==
  ASSUME LadderTypes, LInv,
         \/ AgreePlan \/ EndPlan \/ LedgerMoves \/ NextDay
         \/ UNCHANGED ladderVars
  PROVE  LInv'
<1>t. /\ day \in 0..MaxDay /\ open \subseteq Bill /\ owed \in BOOLEAN
      /\ plan \in [covers : SUBSET Bill, active : BOOLEAN]
      /\ desk \in Desks /\ Escalates /\ filed \in Seq(Row)
      /\ MaxDay \in Nat /\ Plannable \subseteq Bill
  BY WorldTyped DEF LadderTypes
<1>r. ASSUME KeepsTiers(filed, filed'), UNCHANGED <<fees, eval, desk>>,
             day' \in 0..MaxDay, open' \subseteq Bill, owed' \in BOOLEAN,
             plan' \in [covers : SUBSET Bill, active : BOOLEAN]
      PROVE  LInv'
  <2>1. desk' \in Desks /\ Escalates'
    BY <1>r, <1>t DEF Escalates
  <2> QED BY <1>r, <2>1, OthersMove DEF Desks
<1>1. CASE AgreePlan
  <2>1. filed' = ResolveHighest(CancelPending(filed))
        /\ UNCHANGED <<day, open, owed, fees, eval, desk>>
    BY <1>1 DEF AgreePlan
  <2>2. KeepsTiers(filed, filed')
    <3>1. PICK g : g = CancelPending(filed)
      OBVIOUS
    <3>2. KeepsTiers(filed, g) /\ g \in Seq(Row)
      BY <1>t, <3>1, PendingKeepsTiers DEF KeepsTiers
    <3>3. KeepsTiers(g, filed')
      BY <2>1, <3>1, <3>2, HighestKeepsTiers
    <3> QED BY <3>2, <3>3, KeepsTiersTwice
  <2>3. plan' \in [covers : SUBSET Bill, active : BOOLEAN]
    <3>1. PICK covers \in SUBSET (open \intersect Plannable) :
            plan' = [covers |-> covers, active |-> TRUE]
      BY <1>1 DEF AgreePlan
    <3> QED BY <1>t, <3>1
  <2> QED BY <1>r, <1>t, <2>1, <2>2, <2>3
<1>2. CASE EndPlan
  <2>1. UNCHANGED <<day, open, owed, filed, fees, eval, desk>>
        /\ plan' = [plan EXCEPT !.active = FALSE]
    BY <1>2 DEF EndPlan
  <2>2. plan' \in [covers : SUBSET Bill, active : BOOLEAN]
    BY <1>t, <2>1
  <2> QED BY <1>r, <1>t, <2>1, <2>2, SameTiers
<1>3. CASE LedgerMoves
  <2>1. UNCHANGED <<day, plan, filed, fees, eval, desk>>
        /\ open' \subseteq Bill /\ owed' \in BOOLEAN
    BY <1>3 DEF LedgerMoves
  <2> QED BY <1>r, <1>t, <2>1, SameTiers
<1>4. CASE NextDay
  <2>1. UNCHANGED <<open, owed, plan, filed, fees, eval, desk>>
        /\ day' \in 0..MaxDay
    BY <1>4, <1>t DEF NextDay
  <2> QED BY <1>r, <1>t, <2>1, SameTiers
<1>5. CASE UNCHANGED ladderVars
  <2>1. UNCHANGED <<day, open, owed, plan, filed, fees, eval, desk>>
    BY <1>5 DEF ladderVars
  <2> QED BY <1>r, <1>t, <2>1, SameTiers
<1> QED BY <1>1, <1>2, <1>3, <1>4, <1>5

LEMMA LadderGoesOn ==
  ASSUME LadderTypes, LInv, [LadderNext]_ladderVars
  PROVE  LInv'
BY EvaluationKeeps, ClerkKeeps, AccountKeeps DEF LadderNext

LEMMA LadderStarts ==
  ASSUME LadderTypes, LadderInit
  PROVE  LInv
<1>1. /\ filed = <<>> /\ fees = <<>> /\ DOMAIN filed = {} /\ DOMAIN fees = {}
      /\ day = 0 /\ open = Bill /\ owed = FALSE
      /\ plan = [covers |-> {}, active |-> FALSE]
      /\ eval = [e \in Evaluator |-> Unstarted] /\ desk = Idle
  BY DEF LadderInit
<1>2. Unstarted \in Evaluation(DOMAIN filed)
      /\ OfTheirTiers(Unstarted.live, filed)
  BY RestIsFit
<1>3. eval \in [Evaluator -> Evaluation(DOMAIN filed)] /\ Recognised
  BY <1>1, <1>2 DEF Recognised
<1>4. 0 \in 0..MaxDay
  BY DEF LadderTypes
<1>5. filed \in Seq(Row) /\ fees \in Seq(Fee(DOMAIN filed))
  BY <1>1
<1>6. desk \in Desks /\ Escalates
  BY <1>1, IdleDesk DEF Escalates
<1>7. LadderTypeOK
  BY <1>1, <1>3, <1>4, <1>5, <1>6
  DEF LadderTypeOK, Row, Fee, Evaluation, Places, None, Desks
<1> QED BY <1>1, <1>3, <1>6, <1>7 DEF LInv, FeeOncePerTier

(***************************************************************************)
(* Whatever an evaluation has in hand names actions of the tiers it has    *)
(* them for, and no tier has charged a bill twice.                         *)
(***************************************************************************)
THEOREM LadderInvariance == LadderSpec => []LInv
<1>1. LadderTypes
  BY LadderAssumption
<1>2. LadderInit => LInv
  BY <1>1, LadderStarts
<1>3. LInv /\ [LadderNext]_ladderVars => LInv'
  BY <1>1, LadderGoesOn
<1> QED BY <1>2, <1>3, PTL DEF LadderSpec

(***************************************************************************)
(* A tier charges a bill once: alreadyChargedBill, under the lock that     *)
(* chargeableDebits takes, for any number of evaluations at once, of       *)
(* crashes, and of cancelled, resolved and refiled actions.                *)
(***************************************************************************)
THEOREM ChargedOnce == LadderSpec => []FeeOncePerTier
<1>1. LInv => FeeOncePerTier
  BY DEF LInv
<1> QED BY <1>1, LadderInvariance, PTL
=============================================================================
