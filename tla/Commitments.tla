---------------------------- MODULE Commitments ----------------------------
(***************************************************************************)
(* What the open orders of an account commit: schemas/commitments.py, the  *)
(* arithmetic that the position sizer and the exposure rules share.  An    *)
(* account is a portfolio snapshot: cash, shares and market value per      *)
(* instrument, and the open orders in the broker's order.  Money is in     *)
(* whole units, quantities are whole shares.                               *)
(***************************************************************************)
EXTENDS Integers, SequencesExt

CONSTANTS
    Instruments,
    WeightUnit,   \* one, in the quantum that weights are rounded to
    None

\* What an InstrumentIdentity holds; the venue stands for exchange and currency.
Identity(x) == [instrument |-> x.instrument, symbol |-> x.symbol, venue |-> x.venue, asset |-> x.asset]

\* Sums, recursive because the rules evaluate them many times in every state.
RECURSIVE SumOver(_, _)
SumOver(f, S) ==
    IF S = {} THEN 0 ELSE LET x == CHOOSE x \in S : TRUE IN f[x] + SumOver(f, S \ {x})

Total(seq, Of(_)) == SumOver([k \in DOMAIN seq |-> Of(seq[k])], DOMAIN seq)

OpenOf(account, i, side) ==
    SelectSeq(account.orders, LAMBDA o : o.instrument = i /\ o.side = side)
OpenBuys(account) == SelectSeq(account.orders, LAMBDA o : o.side = "BUY")

\* open_order_side_quantities
OpenQty(account, i, side) == Total(OpenOf(account, i, side), LAMBDA o : o.qty)

\* _require_positive_buy_limit, for every open buy; without it OpenBuyLimitError.
UsableLimits(account) ==
    \A k \in DOMAIN account.orders :
      account.orders[k].side = "BUY" => account.orders[k].limit # None /\ account.orders[k].limit > 0

\* open_buy_reserved_notional
ReservedNotional(account) == Total(OpenBuys(account), LAMBDA o : o.qty * o.limit)

\* Mutant: an open buy reserves nothing until it fills.
BaselineCashUnreserved(account) == account.cash

\* baseline_after_open_orders: a buy reserves cash at its limit, a sell credits
\* nothing until it fills.
BaselineCash(account) == account.cash - ReservedNotional(account)

EffectiveQty(account, i) ==
    account.held[i] + OpenQty(account, i, "BUY") - OpenQty(account, i, "SELL")

Least(x, y) == IF x < y THEN x ELSE y

\* What the first n shares of these buys cost.
RECURSIVE AtLimits(_, _)
AtLimits(buys, n) ==
    IF n <= 0 \/ buys = <<>> THEN 0
    ELSE Least(n, Head(buys).qty) * Head(buys).limit + AtLimits(Tail(buys), n - Head(buys).qty)

\* open_buy_extra_market_value: shares beyond those held, at the limits of the
\* open buys, first come first served.
ExtraValue(account, i, extra) == IF extra > 0 THEN AtLimits(OpenOf(account, i, "BUY"), extra) ELSE 0

\* The equity a PortfolioSnapshot must have: cash and gross market value.
Equity(account) == account.cash + SumOver(account.value, Instruments)
=============================================================================
