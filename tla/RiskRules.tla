------------------------------ MODULE RiskRules ------------------------------
(***************************************************************************)
(* The risk engine as a function of its context: twenty rules, each of     *)
(* which approves or rejects, and the aggregation of their results         *)
(* (risk/engine.py, risk/rules/).  A context is the RiskContext record;    *)
(* an optional input that was not supplied is None.  The venue of an       *)
(* instrument stands for its exchange and currency, its increments for the *)
(* price and quantity increments.  An exception in a rule is a reject, so  *)
(* a rule's predicate holds where the rule raises.                         *)
(***************************************************************************)
EXTENDS Commitments

CONSTANTS
    Limits,       \* RiskRuleConfig: every threshold, and the allowlist
    Bps           \* one, in basis points

ASSUME UnitsPositive == WeightUnit \in Nat \ {0} /\ Bps \in Nat \ {0}

\* quantize: half-even rounding of a / b.
Rounded(a, b) ==
    LET q == a \div b
        r == a % b
    IN  IF 2 * r > b \/ (2 * r = b /\ q % 2 = 1) THEN q + 1 ELSE q

Weight(value, equity) == Rounded(value * WeightUnit, equity)

Distance(x, y) == IF x < y THEN y - x ELSE x - y

-----------------------------------------------------------------------------
(* Eligibility (rules/eligibility.py).                                      *)

AssetClassRejects(c) == c.meta.option \/ c.cand.asset \notin {"EQUITY", "ETF"} \/ c.meta.crypto

AllowlistRejects(c) == Identity(c.cand) \notin Limits.allowlist

IdentityRejects(c) ==
    \/ ~c.meta.tradable
    \/ Identity(c.meta) # Identity(c.cand)
    \/ c.quote.instrument # c.cand.instrument
    \/ c.quote.symbol # c.cand.symbol
    \/ c.meta.increments # c.cand.increments


\* Long only: a sell needs shares that no open sell has already claimed.
SideRejects(c) ==
    \/ c.meta.margin
    \/ c.meta.leveraged
    \/ /\ c.cand.side = "SELL"
       /\ \/ c.portfolio = None
          \/ c.portfolio.held[c.cand.instrument]
               - OpenQty(c.portfolio, c.cand.instrument, "SELL") < c.cand.qty

SessionRejects(c) == c.session # "OPEN"

-----------------------------------------------------------------------------
(* Market quality (rules/market_quality.py), with thresholds per phase.     *)

Phase(c) == Limits.quality[c.phase]

Crossed(q) == q.bid = None \/ q.ask = None \/ q.bid <= 0 \/ q.ask <= 0 \/ q.bid > q.ask

QuoteRejects(c) ==
    \/ c.quote.received < c.quote.observed
    \/ Distance(c.quote.received, c.now) > Limits.skew
    \/ c.now < c.quote.observed
    \/ c.now - c.quote.observed > Phase(c).age
    \/ c.quote.delayed
    \/ c.quote.stale
    \/ Crossed(c.quote)
    \/ c.quote.last <= 0

\* (ask - bid) / mid in basis points, where mid is (bid + ask) / 2.
SpreadRejects(c) ==
    \/ Crossed(c.quote)
    \/ 2 * Bps * (c.quote.ask - c.quote.bid) > Phase(c).spread * (c.quote.bid + c.quote.ask)

VolatilityRejects(c) == c.volatility = None \/ c.volatility > Phase(c).volatility

DeviationRejects(c) ==
    \/ Crossed(c.quote)
    \/ c.cand.limit <= 0
    \/ Bps * Distance(2 * c.cand.limit, c.quote.bid + c.quote.ask)
         > Phase(c).deviation * (c.quote.bid + c.quote.ask)

-----------------------------------------------------------------------------
(* Exposure (rules/exposure.py), on the projected account.                  *)

Notional(c) == c.cand.qty * c.cand.limit

NotionalRejects(c) == Notional(c) > Limits.notional

\* _require_portfolio and the OpenBuyLimitError of the projection.
NoProjection(c) ==
    c.portfolio = None \/ Equity(c.portfolio) <= 0 \/ ~UsableLimits(c.portfolio)

\* The other instruments that count: those left after the open orders.
Others(c) == {i \in Instruments \ {c.cand.instrument} : EffectiveQty(c.portfolio, i) > 0}

\* Market value of what is held, and open buys beyond it at their limits.
CommittedValue(account, i) ==
    account.value[i] + ExtraValue(account, i, EffectiveQty(account, i) - account.held[i])

ProjectedQty(c) ==
    EffectiveQty(c.portfolio, c.cand.instrument)
      + IF c.cand.side = "BUY" THEN c.cand.qty ELSE -c.cand.qty

\* _projected_state
ProjectedCash(c) ==
    BaselineCash(c.portfolio) + IF c.cand.side = "BUY" THEN -Notional(c) ELSE Notional(c)
ProjectedValue(c) == ProjectedQty(c) * c.quote.last
ProjectedEquity(c) ==
    ProjectedCash(c) + ProjectedValue(c)
      + SumOver([i \in Instruments |-> CommittedValue(c.portfolio, i)], Others(c))

SymbolRejects(c) ==
    \/ NoProjection(c)
    \/ ProjectedEquity(c) <= 0
    \/ Weight(ProjectedValue(c), ProjectedEquity(c)) > Limits.symbol

\* A missing sector rejects, for the candidate and for any other holding.
SectorRejects(c) ==
    \/ NoProjection(c)
    \/ c.exposure = None
    \/ c.exposure.sectors[c.cand.instrument] = None
    \/ ProjectedEquity(c) <= 0
    \/ \E i \in Others(c) : c.exposure.sectors[i] = None
    \/ LET same == {i \in Others(c) : c.exposure.sectors[i] = c.exposure.sectors[c.cand.instrument]}
           value == SumOver([i \in Instruments |-> CommittedValue(c.portfolio, i)], same)
       IN  Weight(value + ProjectedValue(c), ProjectedEquity(c)) > Limits.sector

TurnoverRejects(c) == c.exposure = None \/ c.exposure.turnover + Notional(c) > Limits.turnover

CashRejects(c) ==
    \/ NoProjection(c)
    \/ ProjectedEquity(c) <= 0
    \/ ProjectedCash(c) < 0
    \/ Weight(ProjectedCash(c), ProjectedEquity(c)) < Limits.reserve

LossRejects(c) ==
    \/ c.exposure = None
    \/ c.exposure.unrealized = None
    \/ c.exposure.realized + c.exposure.unrealized < -Limits.loss

-----------------------------------------------------------------------------
(* Orders (rules/orders.py).  What a proposal may lack, a pre-trade         *)
(* evaluation must have.                                                    *)

\* Mutant: the phases are mistaken for each other.
AbsentAtProposal(c, x) == x = None /\ c.phase = "PROPOSAL"

Absent(c, x) == x = None /\ c.phase = "PRETRADE"

\* The snapshot of the switch is the set of its active sources.
SwitchRejects(c) ==
    Absent(c, c.switch) \/ (c.switch # None /\ c.switch # {})

HashRejects(c) ==
    \/ Absent(c, c.recent)
    \/ c.recent # None /\ (Absent(c, c.hash) \/ (c.hash # None /\ \E r \in c.recent : r.hash = c.hash))

ClientRejects(c) ==
    \/ Absent(c, c.recent)
    \/ c.recent # None /\ (Absent(c, c.client) \/ (c.client # None /\ \E r \in c.recent : r.client = c.client))

\* Mutant: the window is compared the wrong way round.
WindowRejectsOld(c) ==
    \/ Absent(c, c.recent)
    \/ c.recent # None /\ \E r \in c.recent :
         /\ r.at < c.now - Limits.window
         /\ r.instrument = c.cand.instrument
         /\ r.side = c.cand.side

WindowRejects(c) ==
    \/ Absent(c, c.recent)
    \/ c.recent # None /\ \E r \in c.recent :
         /\ r.at >= c.now - Limits.window
         /\ r.instrument = c.cand.instrument
         /\ r.side = c.cand.side

\* Any open order of the instrument is in the way, of either side.
ConflictRejects(c) ==
    \/ Absent(c, c.portfolio)
    \/ c.portfolio # None /\ \E k \in DOMAIN c.portfolio.orders :
         c.portfolio.orders[k].instrument = c.cand.instrument

-----------------------------------------------------------------------------
(* The engine.                                                             *)

ScreeningCodes ==
    {"ASSET_CLASS", "ALLOWLIST", "IDENTITY", "SIDE_AND_PRODUCT", "SESSION", "QUOTE", "SPREAD",
     "VOLATILITY", "LIMIT_DEVIATION"}
ExposureCodes ==
    {"ORDER_NOTIONAL", "SYMBOL_WEIGHT", "SECTOR_WEIGHT", "DAILY_TURNOVER", "CASH_RESERVE",
     "DAILY_LOSS"}
OrderCodes == {"KILL_SWITCH", "PROPOSAL_HASH", "CLIENT_ORDER_ID", "SIDE_WINDOW", "OPEN_ORDER"}
DefaultCodes == ScreeningCodes \cup ExposureCodes
PretradeCodes == DefaultCodes \cup OrderCodes

Rejects(code, c) ==
    CASE code = "ASSET_CLASS" -> AssetClassRejects(c)
      [] code = "ALLOWLIST" -> AllowlistRejects(c)
      [] code = "IDENTITY" -> IdentityRejects(c)
      [] code = "SIDE_AND_PRODUCT" -> SideRejects(c)
      [] code = "SESSION" -> SessionRejects(c)
      [] code = "QUOTE" -> QuoteRejects(c)
      [] code = "SPREAD" -> SpreadRejects(c)
      [] code = "VOLATILITY" -> VolatilityRejects(c)
      [] code = "LIMIT_DEVIATION" -> DeviationRejects(c)
      [] code = "ORDER_NOTIONAL" -> NotionalRejects(c)
      [] code = "SYMBOL_WEIGHT" -> SymbolRejects(c)
      [] code = "SECTOR_WEIGHT" -> SectorRejects(c)
      [] code = "DAILY_TURNOVER" -> TurnoverRejects(c)
      [] code = "CASH_RESERVE" -> CashRejects(c)
      [] code = "DAILY_LOSS" -> LossRejects(c)
      [] code = "KILL_SWITCH" -> SwitchRejects(c)
      [] code = "PROPOSAL_HASH" -> HashRejects(c)
      [] code = "CLIENT_ORDER_ID" -> ClientRejects(c)
      [] code = "SIDE_WINDOW" -> WindowRejects(c)
      [] code = "OPEN_ORDER" -> ConflictRejects(c)

\* evaluate_rules and aggregate_rule_results: one hard reject is enough, and no
\* rule of the standard set asks for a review.
Approved(c, codes) == \A code \in codes : ~Rejects(code, c)
=============================================================================
