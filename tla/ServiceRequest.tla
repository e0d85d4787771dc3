----------------------------- MODULE ServiceRequest -----------------------------
(***************************************************************************)
(* The life of a service request (services/service-request.service.ts):    *)
(* its statuses and the moves a clerk or a crew may ask for.  Each request *)
(* to move one is checked against the status that was read, and written by *)
(* id: what is checked here is `before`, and a user of this module decides *)
(* what the row has become by then.                                        *)
(***************************************************************************)
RequestStatus == {"NEW", "ASSIGNED", "IN_PROGRESS", "PENDING_FIELD",
                  "COMPLETED", "CANCELLED", "FAILED"}

ValidTransitions ==
  [NEW           |-> {"ASSIGNED", "CANCELLED"},
   ASSIGNED      |-> {"IN_PROGRESS", "CANCELLED"},
   IN_PROGRESS   |-> {"PENDING_FIELD", "COMPLETED", "FAILED", "CANCELLED"},
   PENDING_FIELD |-> {"IN_PROGRESS", "COMPLETED", "FAILED"},
   COMPLETED     |-> {},
   CANCELLED     |-> {},
   FAILED        |-> {}]

\* What transition, complete, cancel and assign may each ask of a request that
\* was read as `before`.  Assigning moves a NEW one, and no other.
MayBecome(before) == ValidTransitions[before]
=============================================================================
