-------------------------- MODULE SignalAggregation --------------------------
(***************************************************************************)
(* At most one signal per symbol (portfolio/signal_aggregation.py): the    *)
(* live trading signals of a symbol either agree in everything that        *)
(* matters and collapse to one, or none is selected.  Signals are records; *)
(* their ids are ordered as strings are.                                   *)
(***************************************************************************)
EXTENDS Integers, SequencesExt

CONSTANTS
    Symbols,    \* the symbols, in their sorted order
    None

Live(s, now) == s.generated <= now /\ now < s.expires

Actionable(S, now) == {s \in S : Live(s, now) /\ s.intent # "HOLD"}

Agree(A, Of(_)) == \A a, b \in A : Of(a) = Of(b)

\* _conflict_reason: the first disagreement in the order of ADR-020.
Conflict(A) ==
    IF ~Agree(A, LAMBDA s : s.intent) THEN "INTENT_CONFLICT"
    ELSE IF ~Agree(A, LAMBDA s : s.generated) THEN "AS_OF_MISMATCH"
    ELSE IF ~Agree(A, LAMBDA s : s.expires) THEN "EXPIRY_MISMATCH"
    ELSE IF ~Agree(A, LAMBDA s : s.version) THEN "STRATEGY_VERSION_MISMATCH"
    ELSE IF ~Agree(A, LAMBDA s : s.strategy) THEN "MULTI_STRATEGY_CONFLICT"
    ELSE IF ~Agree(A, LAMBDA s : s.weight) THEN "TARGET_WEIGHT_CONFLICT"
    ELSE IF ~Agree(A, LAMBDA s : s.strength) THEN "STRENGTH_DISAGREEMENT"
    ELSE None

\* _no_trade_reason
NoTradeReason(S, now) ==
    LET held == {s \in S : Live(s, now)}
    IN  IF held = S /\ S # {} THEN "ALL_HOLD"
        ELSE IF held = {} /\ S # {} THEN "ALL_EXPIRED_OR_INACTIVE"
        ELSE "NO_ACTIONABLE_SIGNALS"

\* _aggregate_symbol: the outcome, its reason and the selected signal, the one with
\* the least id.
Aggregated(S, now) ==
    LET A == Actionable(S, now)
    IN  IF A = {}
          THEN [outcome |-> "NO_TRADE", reason |-> NoTradeReason(S, now), selected |-> None]
        ELSE IF Conflict(A) # None
          THEN [outcome |-> "NEEDS_REVIEW", reason |-> Conflict(A), selected |-> None]
        ELSE [outcome |-> "SELECTED",
              reason |-> IF \A s, t \in A : s = t THEN "SINGLE_SIGNAL" ELSE "DUPLICATE_SIGNALS_COLLAPSED",
              selected |-> CHOOSE s \in A : \A t \in A : s.id <= t.id]

\* aggregate_signals: one result per symbol, in the order of the symbols.
Results(S, now) ==
    LET signalled == SelectSeq(Symbols, LAMBDA x : \E s \in S : s.symbol = x)
    IN  [k \in DOMAIN signalled |-> Aggregated({s \in S : s.symbol = signalled[k]}, now)]

\* selected_signals
Chosen(S, now) ==
    LET selecting == SelectSeq(Results(S, now), LAMBDA r : r.selected # None)
    IN  [k \in DOMAIN selecting |-> selecting[k].selected]
=============================================================================
