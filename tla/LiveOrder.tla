----------------------------- MODULE LiveOrder -----------------------------
(***************************************************************************)
(* The live order lifecycle (execution/live_order_lifecycle.py): the       *)
(* record one order has, the state machine that reduces its events, and    *)
(* the chain of events that one placement writes.                          *)
(*                                                                         *)
(* A timestamp or identity the record carries matters only by being there: *)
(* evidence is the set of those present.  Average prices, symbols and hash  *)
(* texts are left out; an event says whether its identity, sequence,       *)
(* symbol and preview hash continue the order (genuine).  Quantities are    *)
(* whole lots, 0 standing for "not given".                                 *)
(***************************************************************************)
EXTENDS Integers, Sequences

CONSTANTS
    Authorizations,   \* authorization identities
    NoAuthorization,  \* the record carries none
    MaxQuantity       \* the largest quantity offered

ASSUME LiveOrderAssumption ==
    /\ NoAuthorization \notin Authorizations
    /\ MaxQuantity \in Nat \ {0}

VARIABLE order        \* the reduced record, NoOrder before the first event

\* DRAFT, which no event leads to, is left out.
Stages == {"PREVIEWED", "PROMOTION_REQUIRED", "HUMAN_APPROVAL_REQUIRED",
           "READY_FOR_SUBMISSION", "SUBMISSION_ATTEMPT_FAILED_REVIEW_REQUIRED",
           "SUBMITTED", "ACCEPTED",
           "PARTIALLY_FILLED", "FILLED", "CANCEL_REQUESTED", "CANCELLED",
           "REJECTED", "EXPIRED"}

EventTypes == {"PREVIEWED", "PROMOTION_REQUESTED", "HUMAN_APPROVAL_REQUESTED",
               "HUMAN_APPROVED", "SUBMISSION_ATTEMPT_FAILED", "SUBMITTED",
               "ACCEPTED", "PARTIALLY_FILLED", "FILLED", "CANCEL_REQUESTED",
               "CANCELLED", "REJECTED", "EXPIRED"}

Evidence == {"promoted_at", "human_approval_requested_at", "human_approved_at",
             "submission_attempted_at", "submitted_at", "accepted_at"}

LifecycleEvent == [type : EventTypes, quantity : 0..MaxQuantity,
                   authorization : Authorizations \cup {NoAuthorization},
                   genuine : BOOLEAN]

LifecycleRecord == [stage : Stages, requested : Nat, filled : Nat,
                    evidence : SUBSET Evidence,
                    authorization : Authorizations \cup {NoAuthorization}]

NoOrder == [stage |-> "NONE", requested |-> 0, filled |-> 0, evidence |-> {},
            authorization |-> NoAuthorization]

-----------------------------------------------------------------------------
(* What a record of a stage must carry (_validate_stage_evidence).         *)

Approved == {"READY_FOR_SUBMISSION", "SUBMISSION_ATTEMPT_FAILED_REVIEW_REQUIRED",
             "SUBMITTED", "ACCEPTED",
             "PARTIALLY_FILLED", "FILLED", "CANCEL_REQUESTED", "CANCELLED"}

Acknowledged == {"ACCEPTED", "PARTIALLY_FILLED", "FILLED", "CANCEL_REQUESTED",
                 "CANCELLED"}

Filling == {"PARTIALLY_FILLED", "FILLED", "CANCEL_REQUESTED", "CANCELLED"}

RequiredEvidence(stage) ==
    (IF stage \in {"REJECTED", "EXPIRED"} THEN {} ELSE {"promoted_at"})
    \cup (IF stage \in Approved \cup {"HUMAN_APPROVAL_REQUIRED"}
          THEN {"human_approval_requested_at"} ELSE {})
    \cup (IF stage \in Approved THEN {"human_approved_at"} ELSE {})
    \cup (IF stage = "SUBMISSION_ATTEMPT_FAILED_REVIEW_REQUIRED"
          THEN {"submission_attempted_at"} ELSE {})
    \cup (IF stage \in Acknowledged \cup {"SUBMITTED"} THEN {"submitted_at"} ELSE {})
    \cup (IF stage \in Acknowledged THEN {"accepted_at"} ELSE {})

\* Mutant: fill evidence is accepted in any stage.
ValidRecordAnyFill(o) ==
    /\ RequiredEvidence(o.stage) \subseteq o.evidence
    /\ o.stage \in Approved => o.authorization # NoAuthorization
    /\ o.stage \in Filling => o.requested > 0
    /\ o.stage = "FILLED" => o.filled = o.requested

\* The checks __post_init__ makes on every record that is built.
ValidRecord(o) ==
    /\ RequiredEvidence(o.stage) \subseteq o.evidence
    /\ o.stage \in Approved => o.authorization # NoAuthorization
    /\ o.stage \in Filling => o.requested > 0
    /\ o.stage \in {"PARTIALLY_FILLED", "FILLED"} => o.filled <= o.requested
    /\ o.stage = "FILLED" => o.filled = o.requested
    /\ o.filled > 0 => o.stage \in Filling

-----------------------------------------------------------------------------
(* apply.                                                                  *)

\* _require_stage: where each event is legal.  A promotion request is legal
\* in every stage.
LegalStages(type) ==
    CASE type = "PROMOTION_REQUESTED"        -> Stages
      [] type = "HUMAN_APPROVAL_REQUESTED"   -> {"PROMOTION_REQUIRED"}
      [] type = "HUMAN_APPROVED"             -> {"HUMAN_APPROVAL_REQUIRED"}
      [] type \in {"SUBMITTED", "SUBMISSION_ATTEMPT_FAILED"} -> {"READY_FOR_SUBMISSION"}
      [] type = "ACCEPTED"                   -> {"SUBMITTED"}
      [] type \in {"PARTIALLY_FILLED", "FILLED"} -> {"ACCEPTED", "PARTIALLY_FILLED"}
      [] type = "CANCEL_REQUESTED"           -> {"SUBMITTED", "ACCEPTED", "PARTIALLY_FILLED"}
      [] type = "CANCELLED"                  -> {"SUBMITTED", "ACCEPTED", "PARTIALLY_FILLED",
                                                 "CANCEL_REQUESTED"}
      [] type \in {"REJECTED", "EXPIRED"}    -> {"READY_FOR_SUBMISSION", "SUBMITTED",
                                                 "ACCEPTED", "PARTIALLY_FILLED"}
      [] type = "PREVIEWED"                  -> {}

NextStage(type) ==
    CASE type = "PROMOTION_REQUESTED"       -> "PROMOTION_REQUIRED"
      [] type = "HUMAN_APPROVAL_REQUESTED"  -> "HUMAN_APPROVAL_REQUIRED"
      [] type = "HUMAN_APPROVED"            -> "READY_FOR_SUBMISSION"
      [] type = "SUBMISSION_ATTEMPT_FAILED" -> "SUBMISSION_ATTEMPT_FAILED_REVIEW_REQUIRED"
      [] OTHER                              -> type

NewEvidence(type) ==
    CASE type \in {"PREVIEWED", "PROMOTION_REQUESTED"} -> {"promoted_at"}
      [] type = "HUMAN_APPROVAL_REQUESTED"  -> {"human_approval_requested_at"}
      [] type = "HUMAN_APPROVED"            -> {"human_approved_at"}
      [] type = "SUBMITTED"                 -> {"submission_attempted_at", "submitted_at"}
      [] type = "SUBMISSION_ATTEMPT_FAILED" -> {"submission_attempted_at"}
      [] type = "ACCEPTED"                  -> {"accepted_at"}
      [] OTHER                              -> {}

\* _validate_identity_and_sequence, _validate_symbol_and_preview_hash.
Continues(o, e) ==
    /\ e.genuine
    /\ NoAuthorization \in {o.authorization, e.authorization}
          \/ o.authorization = e.authorization

\* _apply_fill: a fill is positive, and completes the order exactly when it
\* says so.  (A record without requested quantity fails ValidRecord.)
FillFits(o, e) ==
    /\ e.quantity > 0
    /\ o.filled + e.quantity <= o.requested
    /\ e.type = "FILLED" <=> o.filled + e.quantity = o.requested

\* Mutant: a new promotion round forgets the authorization.
AfterForgetting(o, e) ==
    [o EXCEPT
       !.stage = NextStage(e.type),
       !.evidence = @ \cup NewEvidence(e.type),
       !.authorization = IF e.type = "HUMAN_APPROVED" THEN e.authorization
                         ELSE IF e.type = "PROMOTION_REQUESTED" THEN NoAuthorization ELSE @,
       !.requested = IF e.type = "PREVIEWED" THEN e.quantity ELSE @,
       !.filled = IF e.type \in {"PARTIALLY_FILLED", "FILLED"} THEN @ + e.quantity ELSE @]

After(o, e) ==
    [o EXCEPT
       !.stage = NextStage(e.type),
       !.evidence = @ \cup NewEvidence(e.type),
       !.authorization = IF e.type = "HUMAN_APPROVED" THEN e.authorization ELSE @,
       !.requested = IF e.type = "PREVIEWED" THEN e.quantity ELSE @,
       !.filled = IF e.type \in {"PARTIALLY_FILLED", "FILLED"} THEN @ + e.quantity ELSE @]

\* apply does not raise on event e.
Legal(o, e) ==
    /\ IF o = NoOrder THEN e.type = "PREVIEWED"
       ELSE Continues(o, e) /\ o.stage \in LegalStages(e.type)
    /\ e.type = "HUMAN_APPROVED" => e.authorization # NoAuthorization
    /\ e.type \in {"PARTIALLY_FILLED", "FILLED"} => FillFits(o, e)
    /\ ValidRecord(After(o, e))

\* replay: the record after each event, NoOrder in place of a raised error.
Replay(events) ==
    LET after[n \in 0..Len(events)] ==
          IF n = 0 THEN NoOrder
          ELSE IF (n = 1 \/ after[n - 1] # NoOrder) /\ Legal(after[n - 1], events[n])
               THEN After(after[n - 1], events[n])
               ELSE NoOrder
    IN  after[Len(events)]

-----------------------------------------------------------------------------
(* build_place_events: the chain of one consumed place attempt, from the   *)
(* command's quantity and authorization, the verdict of the executor and   *)
(* the order snapshot it read back.                                        *)

Snapshots == {"NONE", "NEW", "PARTIALLY_FILLED", "FILLED", "CANCELED", "EXPIRED",
              "REJECTED"}

Mark(type, quantity, a) ==
    [type |-> type, quantity |-> quantity, authorization |-> a, genuine |-> TRUE]

ApprovedChain(quantity, a) ==
    << Mark("PREVIEWED", quantity, NoAuthorization),
       Mark("PROMOTION_REQUESTED", quantity, NoAuthorization),
       Mark("HUMAN_APPROVAL_REQUESTED", quantity, NoAuthorization),
       Mark("HUMAN_APPROVED", 0, a) >>

VenueChain(snapshot, executed) ==
    CASE snapshot = "NEW" -> << Mark("ACCEPTED", 0, NoAuthorization) >>
      [] snapshot \in {"PARTIALLY_FILLED", "FILLED"} ->
           << Mark("ACCEPTED", 0, NoAuthorization),
              Mark(snapshot, executed, NoAuthorization) >>
      [] snapshot = "CANCELED" -> << Mark("CANCELLED", 0, NoAuthorization) >>
      [] snapshot \in {"EXPIRED", "REJECTED"} -> << Mark(snapshot, 0, NoAuthorization) >>
      [] snapshot = "NONE" -> << >>

PlaceChain(quantity, a, failed, snapshot, executed) ==
    ApprovedChain(quantity, a)
    \o IF failed THEN << Mark("SUBMISSION_ATTEMPT_FAILED", 0, a) >>
       ELSE << Mark("SUBMITTED", 0, a) >> \o VenueChain(snapshot, executed)

-----------------------------------------------------------------------------
(* The state machine: any event is offered, the illegal ones raise.        *)

LifecycleInit == order = NoOrder

Apply(e) ==
    /\ Legal(order, e)
    /\ order' = After(order, e)

LifecycleNext == \E e \in LifecycleEvent : Apply(e)

LifecycleSpec == LifecycleInit /\ [][LifecycleNext]_order

-----------------------------------------------------------------------------
(* Properties.                                                             *)

\* The reduced record is one the constructor can build, or there is none yet.
LifecycleTypeOK == order \in LifecycleRecord \cup {NoOrder}

\* An order that is, or was, at the venue has been approved by a human under
\* one authorization, whatever way the events took it there and back.
ApprovedBeforeSubmission ==
    "submission_attempted_at" \in order.evidence =>
       /\ {"human_approval_requested_at", "human_approved_at"} \subseteq order.evidence
       /\ order.authorization # NoAuthorization

\* The authorization an order was approved under is never exchanged, not even
\* by a second round of promotion and approval.
AuthorizationFixed ==
    [][order.authorization # NoAuthorization =>
         order'.authorization = order.authorization]_order

\* Fills never exceed the requested quantity, are never taken back, and an
\* order that has some can only go on filling or be cancelled.
FillsKept ==
    [][/\ order.filled <= order'.filled
       /\ order'.filled <= order'.requested
       /\ order.filled > 0 => order'.stage \in Filling]_order

\* What makes these inductive: every record was built by the constructor.
LifecycleInv ==
    /\ LifecycleTypeOK
    /\ ApprovedBeforeSubmission
    /\ order # NoOrder => ValidRecord(order)
    /\ order.filled <= order.requested
=============================================================================
