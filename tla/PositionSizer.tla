---------------------------- MODULE PositionSizer ----------------------------
(***************************************************************************)
(* From a signal's target weight to a limit order for whole lots           *)
(* (portfolio/sizer.py): a chain of refusals in the order of the code, and *)
(* the least of three quantities.  Values compared with weights are scaled *)
(* by WeightUnit, so that no division comes before the last.               *)
(***************************************************************************)
EXTENDS Commitments

CONSTANTS
    Sizing,       \* SizingConfig: lot, tick, min, max, reserve
    Listing,      \* the identity of each instrument, as positions carry it
    CurrencyOf    \* the currency of each venue

ASSUME SizingConsistent ==
    Sizing.lot > 0 /\ Sizing.tick > 0 /\ 0 < Sizing.max /\ Sizing.min <= Sizing.max

\* floor_to_increment, ceil_to_increment
FloorTo(x, inc) == IF x <= 0 THEN 0 ELSE (x \div inc) * inc
CeilTo(x, inc) ==
    IF x <= 0 THEN inc ELSE IF x % inc = 0 THEN x ELSE FloorTo(x, inc) + inc

NotBelowZero(x) == IF x < 0 THEN 0 ELSE x

\* _early_reject, for a configuration whose increments are positive.
EarlyReject(s, q, p, now) ==
    IF s.intent = "HOLD" THEN "HOLD_SIGNAL"
    ELSE IF now < s.generated THEN "SIGNAL_NOT_ACTIVE"
    ELSE IF now >= s.expires THEN "SIGNAL_EXPIRED"
    ELSE IF s.weight = None THEN "MISSING_TARGET_WEIGHT"
    ELSE IF q.last <= 0 THEN "MISSING_PRICE"
    ELSE IF q.symbol # s.symbol THEN "SYMBOL_MISMATCH"
    ELSE IF CurrencyOf[q.venue] # p.currency THEN "CURRENCY_MISMATCH"
    ELSE IF \E i \in Instruments :
              p.held[i] > 0 /\ Listing[i].symbol = s.symbol /\ Listing[i] # Identity(q)
           THEN "INSTRUMENT_MISMATCH"
    ELSE None

\* Mutant: open orders do not count until they fill.
CurrentValueHeld(q, p) == p.value[q.instrument]

\* Open orders are marked at the last price; without any, the snapshot's market
\* value counts.
CurrentValue(q, p) ==
    IF OpenOf(p, q.instrument, "BUY") = <<>> /\ OpenOf(p, q.instrument, "SELL") = <<>>
      THEN p.value[q.instrument]
      ELSE EffectiveQty(p, q.instrument) * q.last

\* delta_value, scaled.
Delta(s, q, p) == Equity(p) * s.weight - CurrentValue(q, p) * WeightUnit

SideOf(delta) == IF delta > 0 THEN "BUY" ELSE "SELL"

\* _reference_price: the touch where there is one, else the last price.
Reference(q, side) ==
    IF side = "BUY" /\ q.ask # None THEN q.ask
    ELSE IF side = "SELL" /\ q.bid # None THEN q.bid
    ELSE q.last

\* normalize_limit_price: a buy never pays more, a sell never asks less.
LimitPrice(q, side) ==
    IF side = "BUY" THEN FloorTo(Reference(q, side), Sizing.tick)
                    ELSE CeilTo(Reference(q, side), Sizing.tick)

\* Mutant: a paper snapshot's cash is taken for its buying power.
SpendablePaperCash(p) ==
    LET after == NotBelowZero(p.cash - Sizing.reserve)
    IN  NotBelowZero(IF p.scope = "PAPER" THEN after ELSE Least(p.power, after) - ReservedNotional(p))

\* _spendable_buying_power: a paper snapshot's buying power is already net of open buys.
Spendable(p) ==
    LET available == Least(p.power, NotBelowZero(p.cash - Sizing.reserve))
    IN  NotBelowZero(IF p.scope = "PAPER" THEN available ELSE available - ReservedNotional(p))

\* Mutant: shares that open sells have claimed are sold again.
SellableHeld(q, p) == FloorTo(p.held[q.instrument], Sizing.lot)

Sellable(q, p) ==
    FloorTo(p.held[q.instrument] - OpenQty(p, q.instrument, "SELL"), Sizing.lot)

ByTarget(delta, limit) ==
    FloorTo((IF delta > 0 THEN delta ELSE -delta) \div (WeightUnit * limit), Sizing.lot)
ByCash(p, limit) == FloorTo(Spendable(p) \div limit, Sizing.lot)
ByNotional(limit) == FloorTo(Sizing.max \div limit, Sizing.lot)

\* The least of what the target, the account and the configuration allow.
Quantity(s, q, p) ==
    LET delta == Delta(s, q, p)
        limit == LimitPrice(q, SideOf(delta))
        account == IF delta > 0 THEN ByCash(p, limit) ELSE Sellable(q, p)
    IN  Least(Least(ByTarget(delta, limit), account), ByNotional(limit))

\* The refusals of the sell branch and of the buy branch.
SellReject(q, p) == IF Sellable(q, p) <= 0 THEN "INSUFFICIENT_POSITION" ELSE None
BuyReject(p, limit) ==
    IF ~UsableLimits(p) THEN "OPEN_BUY_MISSING_LIMIT"
    ELSE IF Spendable(p) <= 0
      THEN IF ReservedNotional(p) > 0 THEN "OPEN_BUY_BLOCKS" ELSE "CASH_RESERVE_BLOCKS_BUY"
    ELSE IF ByCash(p, limit) <= 0 THEN "CASH_RESERVE_BLOCKS_BUY"
    ELSE None

\* The refusals once the side and the limit are known.
LateReject(s, q, p, delta, limit) ==
    LET account == IF delta > 0 THEN BuyReject(p, limit) ELSE SellReject(q, p)
    IN  IF Reference(q, SideOf(delta)) <= 0 \/ limit <= 0 THEN "MISSING_PRICE"
        ELSE IF ByTarget(delta, limit) <= 0 THEN "ZERO_SHARE_DELTA"
        ELSE IF account # None THEN account
        ELSE IF ByNotional(limit) <= 0 THEN "MAX_NOTIONAL_BLOCKS"
        ELSE IF Quantity(s, q, p) * limit < Sizing.min THEN "BELOW_MIN_NOTIONAL"
        ELSE "SIZED_TO_TARGET_WEIGHT"

\* size_position: the reason code of its result.
SizeReason(s, q, p, now) ==
    IF EarlyReject(s, q, p, now) # None THEN EarlyReject(s, q, p, now)
    ELSE IF EffectiveQty(p, q.instrument) < 0 THEN "INSUFFICIENT_POSITION"
    ELSE LET delta == Delta(s, q, p)
         IN  IF delta = 0 THEN "ZERO_SHARE_DELTA"
             ELSE IF s.intent # SideOf(delta) THEN "INTENT_DELTA_MISMATCH"
             ELSE IF delta > 0 /\ p.power <= 0 THEN "NON_POSITIVE_BUYING_POWER"
             ELSE LateReject(s, q, p, delta, LimitPrice(q, SideOf(delta)))

\* The candidate of a SIZED_TO_TARGET_WEIGHT result.
Candidate(s, q, p) ==
    LET side == SideOf(Delta(s, q, p))
    IN  [instrument |-> q.instrument, symbol |-> q.symbol, venue |-> q.venue, asset |-> q.asset,
         increments |-> [lot |-> Sizing.lot, tick |-> Sizing.tick], side |-> side,
         qty |-> Quantity(s, q, p), limit |-> LimitPrice(q, side), scope |-> p.scope]
=============================================================================
