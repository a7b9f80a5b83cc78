----------------------------- MODULE PaperCosts -----------------------------
(***************************************************************************)
(* What the paper broker charges: fees, adverse fill prices and the cash   *)
(* that an order needs (execution/paper/broker.py).  Money is in           *)
(* millionths of a dollar, the quantum every amount is rounded to;         *)
(* quantities are whole shares.                                            *)
(***************************************************************************)
EXTENDS Integers

CONSTANTS
    FeeBps,        \* PaperCostModel.fee_bps
    AdverseBps     \* half_spread_bps + slippage_bps

\* _money(a / b): half-even rounding to the quantum.
Money(a, b) ==
    LET q == a \div b
        r == a % b
    IN  IF 2 * r > b \/ (2 * r = b /\ q % 2 = 1) THEN q + 1 ELSE q

\* _fee_for
Fee(notional) == Money(notional * FeeBps, 10000)

\* _adverse_fill_price: the mid plus or minus the adverse part, never worse than the limit.
FillPrice(r, e) ==
    LET mid == Money(e.bid + e.ask, 2)
        buy == Money(mid * (10000 + AdverseBps), 10000)
        sell == Money(mid * (10000 - AdverseBps), 10000)
    IN  IF r.side = "BUY" THEN (IF buy < r.limit THEN buy ELSE r.limit)
                          ELSE (IF sell > r.limit THEN sell ELSE r.limit)

\* _is_marketable
Marketable(r, e) == IF r.side = "BUY" THEN e.ask <= r.limit ELSE e.bid >= r.limit

\* The cash a buy reserves: its notional at the limit and the fee on it.
Need(r) == r.qty * r.limit + Fee(r.qty * r.limit)

\* What a buy of q shares takes from cash, and what a sell brings.
Debit(q, price) == q * price + Fee(q * price)
Proceeds(q, price) == q * price - Fee(q * price)
=============================================================================
