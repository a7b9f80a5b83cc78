---------------------------- MODULE TradePlanning ----------------------------
(***************************************************************************)
(* From signals to orders over time: signals of several strategies come    *)
(* in and expire, the aggregator selects, the sizer turns a selected       *)
(* signal into an order, and the account carries the open order until the  *)
(* broker fills or cancels it.  Nothing keeps a caller from sizing the     *)
(* same signal again while its order is open.                              *)
(***************************************************************************)
EXTENDS PositionSizer

CONSTANTS
    Symbols,        \* in their sorted order
    Emitted,        \* the signals that strategies may produce
    Quotes,         \* the quote of each symbol
    Scopes,         \* account scopes
    OpeningCash, OpeningHeld,
    MaxTime,
    MaxOrders       \* bound on open orders

VARIABLES
    now,
    signals,              \* produced so far
    scope,                \* the account's scope
    cash, held, orders    \* the account at the broker

vars == <<now, signals, scope, cash, held, orders>>

Aggregation == INSTANCE SignalAggregation

QuoteOf(i) == CHOOSE q \in {Quotes[x] : x \in DOMAIN Quotes} : q.instrument = i

\* The snapshot: a paper broker's buying power is net of open buys (and of their fees,
\* which are zero here), another's is gross.
Portfolio ==
    LET account == [cash |-> cash, held |-> held, orders |-> orders]
    IN  [scope |-> scope, currency |-> "USD", cash |-> cash, held |-> held, orders |-> orders,
         value |-> [i \in Instruments |-> held[i] * QuoteOf(i).last],
         power |-> IF scope = "PAPER" THEN BaselineCash(account) ELSE cash]

Init ==
    /\ now = 0
    /\ signals = {}
    /\ scope \in Scopes
    /\ cash = OpeningCash
    /\ held = OpeningHeld
    /\ orders = <<>>

Emit(s) ==
    /\ s \notin signals
    /\ signals' = signals \cup {s}
    /\ UNCHANGED <<now, scope, cash, held, orders>>

\* size_position for a selected signal; its candidate becomes an open order.
Plan ==
    /\ Len(orders) < MaxOrders
    /\ \E s \in Range(Aggregation!Chosen(signals, now)) :
         /\ SizeReason(s, Quotes[s.symbol], Portfolio, now) = "SIZED_TO_TARGET_WEIGHT"
         /\ LET c == Candidate(s, Quotes[s.symbol], Portfolio)
            IN  orders' = Append(orders, [instrument |-> c.instrument, side |-> c.side, qty |-> c.qty,
                                          limit |-> c.limit])
    /\ UNCHANGED <<now, signals, scope, cash, held>>

\* The broker fills an open order at its limit, or cancels it.
Fill(k) ==
    LET o == orders[k]
    IN  /\ held' = [held EXCEPT ![o.instrument] = IF o.side = "BUY" THEN @ + o.qty ELSE @ - o.qty]
        /\ cash' = IF o.side = "BUY" THEN cash - o.qty * o.limit ELSE cash + o.qty * o.limit
        /\ orders' = RemoveAt(orders, k)
        /\ UNCHANGED <<now, signals, scope>>

Cancel(k) ==
    /\ orders' = RemoveAt(orders, k)
    /\ UNCHANGED <<now, signals, scope, cash, held>>

Tick ==
    /\ now < MaxTime
    /\ now' = now + 1
    /\ UNCHANGED <<signals, scope, cash, held, orders>>

Next ==
    \/ \E s \in Emitted : Emit(s)
    \/ Plan
    \/ \E k \in DOMAIN orders : Fill(k) \/ Cancel(k)
    \/ Tick

Spec == Init /\ [][Next]_vars

-----------------------------------------------------------------------------
(* Properties.                                                             *)

\* "Never sell shares already committed on open sell orders": however often a sell
\* is sized before the first is done, the open sells together are covered.
NeverOversold == \A i \in Instruments : OpenQty(Portfolio, i, "SELL") <= held[i]

\* However many buys of however many symbols are open, the cash for all of them is
\* there, and where buying power is gross the cash reserve is left after them
\* (_spendable_buying_power on either kind of snapshot).
FundsKept == BaselineCash(Portfolio) >= IF scope = "PAPER" THEN 0 ELSE Sizing.reserve

\* The account can settle every order that planning left open: the shares of the
\* sells and the cash of the buys are there (size_position).
OrdersCovered == NeverOversold /\ FundsKept

TopWeight(i) ==
    LET weights == {s.weight : s \in {e \in signals : e.symbol = QuoteOf(i).symbol /\ e.intent = "BUY"}}
    IN  IF weights = {} THEN 0 ELSE CHOOSE w \in weights : \A v \in weights : v <= w

\* Sizing a signal again while its order is open, or after it filled, never carries
\* the position beyond the greatest weight that was asked for, where a buy pays the
\* price that positions are marked at.
NoOvershoot ==
    \A i \in Instruments :
      QuoteOf(i).last = LimitPrice(QuoteOf(i), "BUY") /\ EffectiveQty(Portfolio, i) > OpeningHeld[i]
        => EffectiveQty(Portfolio, i) * QuoteOf(i).last * WeightUnit <= TopWeight(i) * Equity(Portfolio)
=============================================================================
