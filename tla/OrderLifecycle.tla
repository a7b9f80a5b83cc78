--------------------------- MODULE OrderLifecycle ---------------------------
(***************************************************************************)
(* The order lifecycle of execution/state_machine.py: the edges, what      *)
(* transition_order lets through, and what the persisted transitions of    *)
(* one order show.  Events whose id was seen, a stale expectation, an      *)
(* illegal target and a failure of the store change nothing.               *)
(***************************************************************************)
States ==
    {"SIGNAL_CREATED", "RISK_REJECTED", "PROPOSAL_CREATED", "APPROVAL_PENDING", "APPROVAL_REJECTED",
     "APPROVAL_EXPIRED", "APPROVED", "PRE_TRADE_REJECTED", "SUBMITTING", "SUBMITTED",
     "SUBMIT_UNKNOWN", "PARTIALLY_FILLED", "FILLED", "CANCELLED", "REJECTED", "RECONCILING",
     "MANUAL_REVIEW"}

\* ORDER_EDGES
Edges ==
    {<<"SIGNAL_CREATED", "RISK_REJECTED">>, <<"SIGNAL_CREATED", "PROPOSAL_CREATED">>,
     <<"PROPOSAL_CREATED", "APPROVAL_PENDING">>, <<"APPROVAL_PENDING", "APPROVAL_REJECTED">>,
     <<"APPROVAL_PENDING", "APPROVAL_EXPIRED">>, <<"APPROVAL_PENDING", "APPROVED">>,
     <<"APPROVED", "PRE_TRADE_REJECTED">>, <<"APPROVED", "SUBMITTING">>,
     <<"SUBMITTING", "SUBMITTED">>, <<"SUBMITTING", "SUBMIT_UNKNOWN">>,
     <<"SUBMITTED", "PARTIALLY_FILLED">>, <<"SUBMITTED", "FILLED">>, <<"SUBMITTED", "CANCELLED">>,
     <<"SUBMITTED", "REJECTED">>, <<"PARTIALLY_FILLED", "FILLED">>,
     <<"PARTIALLY_FILLED", "CANCELLED">>, <<"SUBMIT_UNKNOWN", "RECONCILING">>,
     <<"RECONCILING", "SUBMITTED">>, <<"RECONCILING", "MANUAL_REVIEW">>}

\* ORDER_TERMINAL
Terminal ==
    {"RISK_REJECTED", "APPROVAL_REJECTED", "APPROVAL_EXPIRED", "PRE_TRADE_REJECTED", "FILLED",
     "CANCELLED", "REJECTED", "MANUAL_REVIEW"}

\* is_order_transition_allowed, with ORDER_RECOVERY_ONLY for SUBMIT_UNKNOWN.
Allowed(current, target) ==
    /\ current \notin Terminal
    /\ current = "SUBMIT_UNKNOWN" => target = "RECONCILING"
    /\ <<current, target>> \in Edges

VARIABLES
    order,     \* the lifecycle state
    visited    \* the states that persisted transitions have reached

lifecycle == <<order, visited>>

LifecycleInit ==
    /\ order = "SIGNAL_CREATED"
    /\ visited = {}

\* transition_order persists the move, or the event of a move that is already made.
Enter(target) ==
    /\ Allowed(order, target) \/ target = order
    /\ order' = target
    /\ visited' = visited \cup {target}

LifecycleNext == \E target \in States : Enter(target)

LifecycleSpec == LifecycleInit /\ [][LifecycleNext]_lifecycle

-----------------------------------------------------------------------------
(* Properties, of any callers that go through transition_order.            *)

\* The states of an order that was, or is being, handed to the broker.
WithBroker ==
    {"SUBMITTING", "SUBMITTED", "SUBMIT_UNKNOWN", "PARTIALLY_FILLED", "FILLED", "CANCELLED",
     "REJECTED", "RECONCILING", "MANUAL_REVIEW"}

\* Whatever transitions are asked for, in whatever order, an order that has come to
\* the broker went through a proposal, an approval and SUBMITTING, and its
\* approval neither expired nor was refused.
ApprovedFirst ==
    order \in WithBroker =>
      /\ {"PROPOSAL_CREATED", "APPROVAL_PENDING", "APPROVED", "SUBMITTING"} \subseteq visited
      /\ visited \cap {"RISK_REJECTED", "APPROVAL_REJECTED", "APPROVAL_EXPIRED", "PRE_TRADE_REJECTED"} = {}

\* No order is submitted twice: SUBMITTING is entered from APPROVED and never again,
\* not even after a submit whose outcome was unknown.
SubmittedOnce == [][order # "SUBMITTING" /\ order' = "SUBMITTING" => "SUBMITTING" \notin visited]_lifecycle
=============================================================================
