------------------------------ MODULE Backtest ------------------------------
(***************************************************************************)
(* run_replay (backtest/runner.py): historical cutoffs are replayed one    *)
(* after the other; at each, the strategy sees the quotes and bars known   *)
(* by then and the state it left at an earlier cutoff.  Together with the  *)
(* input models (backtest/models.py) and the temporal validator            *)
(* (backtest/validation.py) that a reviewer runs over the same evidence.   *)
(*                                                                         *)
(* Times are small integers.  A quote is [obs, rec, ok]: observed at,      *)
(* received at, and two-sided, neither delayed nor flagged; a bar is       *)
(* [start, close, obs, rec, ok].  A dataset also has the time its          *)
(* instrument's identity is from and whether all of it is of one           *)
(* instrument, interval and provider.  A point of the schedule is [as_of,  *)
(* available, portfolio, activity, grid]: `activity` is the latest time    *)
(* among its submissions, open orders, kill switch and identities.         *)
(* Digests are the values they digest.  Sizing and the risk rules, which a *)
(* step runs on the strategy's signal, are in PositionSizer and RiskRules; *)
(* here only whether they gave a candidate is seen.                        *)
(***************************************************************************)
EXTENDS Integers, Sequences, FiniteSets, SequencesExt, FiniteSetsExt

CONSTANTS
  Callers, Datasets, Schedules, Configs, Times, None,
  MaxAge,  \* max_age_seconds
  Warmup   \* the bars an indicator needs before it is complete (50)

VARIABLES
  lock,   \* _REPLAY_LOCK: the caller inside run_replay, or None
  rdata,  \* the market data of the run
  points, \* its schedule
  config, \* its worker limits and first state
  state,  \* the strategy state: None, or the time it says it was updated
  steps,  \* the retained ReplaySteps
  status  \* "idle" | "running" | "complete" | an error code

replayvars == <<lock, rdata, points, config, state, steps, status>>

Ordered(seq) == \A i \in 1..Len(seq) - 1 : seq[i] < seq[i + 1]

(* Provenance, ClosedHistoricalBar and ReplayMarketData: nothing is        *)
(* received before it is observed, a bar is captured after it closed, bars *)
(* are in order of start, quotes in order of knowledge.                    *)
Captured(b) == b.close > b.start /\ b.obs >= b.close /\ b.rec >= b.close
Before(p, q) == p.obs < q.obs \/ (p.obs = q.obs /\ p.rec < q.rec)

DataValid(d) ==
  /\ d.bars # <<>> /\ d.quotes # <<>> /\ d.uniform
  /\ \A i \in 1..Len(d.bars) : Captured(d.bars[i]) /\ d.bars[i].rec >= d.bars[i].obs
  /\ \A i \in 1..Len(d.quotes) : d.quotes[i].rec >= d.quotes[i].obs
  /\ \A i \in 1..Len(d.bars) - 1 : d.bars[i].start < d.bars[i + 1].start
  /\ \A i \in 1..Len(d.quotes) - 1 : Before(d.quotes[i], d.quotes[i + 1])

(* A plausible slip: a portfolio need only be dated by the cutoff.         *)
PointValidDated(p) ==
  /\ p.available <= p.as_of /\ p.portfolio.as_of <= p.as_of /\ p.portfolio.paper
  /\ p.activity <= p.as_of
  /\ p.grid # <<>> /\ Ordered(p.grid) /\ Last(p.grid) <= p.as_of

(* ReplayPoint: all that the caller supplies was known at the cutoff.      *)
PointValid(p) ==
  /\ p.available <= p.as_of /\ p.portfolio.as_of <= p.as_of /\ p.portfolio.paper
  /\ p.portfolio.obs <= p.as_of /\ p.portfolio.rec <= p.as_of /\ p.activity <= p.as_of
  /\ p.grid # <<>> /\ Ordered(p.grid) /\ Last(p.grid) <= p.as_of

(* ReplayConfig: bounded, isolated workers.                                *)
Isolated(limits) ==
  /\ limits.block_network /\ limits.read_only_workdir
  /\ limits.cpu # None /\ limits.memory # None
  /\ limits.wall <= 10 /\ limits.memory <= 512

(* A first state is of this strategy and not from after the first cutoff.  *)
InputValid(d, s, c) ==
  /\ DataValid(d) /\ Isolated(c.limits)
  /\ Len(s) \in 1..64 /\ \A i \in 1..Len(s) : PointValid(s[i])
  /\ Ordered([i \in 1..Len(s) |-> s[i].as_of])
  /\ c.own /\ (c.first # None => c.first <= s[1].as_of)

-----------------------------------------------------------------------------
(* A plausible slip: a bar counts as known once it has closed.             *)
KnownBarsClosed(d, cutoff) == SelectSeq(d.bars, LAMBDA b : b.close <= cutoff)

(* _visible_context: what was closed, observed and received by the cutoff. *)
KnownBars(d, cutoff) ==
  SelectSeq(d.bars, LAMBDA b : b.close <= cutoff /\ b.obs <= cutoff /\ b.rec <= cutoff)
KnownQuotes(d, cutoff) ==
  SelectSeq(d.quotes, LAMBDA q : q.obs <= cutoff /\ q.rec <= cutoff)

(* assess_bars and the warm-up of compute_indicators: the bars fill the    *)
(* expected grid, the last is fresh and there are enough of them.          *)
BarsSound(bars, grid, cutoff) ==
  /\ [i \in 1..Len(bars) |-> bars[i].start] = grid
  /\ \A i \in 1..Len(bars) : bars[i].ok
  /\ cutoff - Last(bars).obs <= MaxAge
  /\ Len(bars) >= Warmup

ContextError(d, p) ==
  LET cutoff == p.as_of
      quotes == KnownQuotes(d, cutoff)
      bars == KnownBars(d, cutoff)
  IN  CASE d.identity > cutoff -> "FUTURE_IDENTITY"
        [] ~p.portfolio.ok \/ cutoff - p.portfolio.obs > MaxAge -> "PORTFOLIO_QUALITY"
        [] quotes = <<>> -> "QUOTE_UNAVAILABLE"
        [] ~Last(quotes).ok \/ cutoff - Last(quotes).obs > MaxAge -> "QUOTE_QUALITY"
        [] bars = <<>> -> "BARS_UNAVAILABLE"
        [] ~BarsSound(bars, p.grid, cutoff) -> "BAR_QUALITY"
        [] OTHER -> "NONE"

Context(d, p, st) ==
  [as_of |-> p.as_of, quote |-> Last(KnownQuotes(d, p.as_of)), bars |-> KnownBars(d, p.as_of),
   portfolio |-> p.portfolio, state |-> st]

-----------------------------------------------------------------------------
ReplayInit ==
  /\ lock = None /\ rdata = None /\ points = <<>> /\ config = None /\ state = None
  /\ steps = <<>> /\ status = "idle"

(* run_replay takes the lock without waiting, then checks its input.       *)
Run(c, d, s, cfg) ==
  /\ lock = None /\ status = "idle"
  /\ lock' = c /\ rdata' = d /\ points' = s /\ config' = cfg /\ state' = cfg.first
  /\ steps' = <<>>
  /\ status' = IF InputValid(d, s, cfg) THEN "running" ELSE "INPUT_INVALID"

Finish(code) == status' = code /\ UNCHANGED <<lock, rdata, points, config, state, steps>>
Point == points[Len(steps) + 1]
Pending == status = "running" /\ Len(steps) < Len(points)

(* The deadline has passed, the visible data will not do, or the indicator *)
(* library, the signal, sizing or risk raised.                             *)
StepRefused ==
  /\ Pending
  /\ \/ Finish("TIMEOUT")
     \/ ContextError(rdata, Point) # "NONE" /\ Finish(ContextError(rdata, Point))
     \/ ContextError(rdata, Point) = "NONE" /\ Finish("STEP_INVALID")

(* What a worker may answer: whether it succeeded, for this input and      *)
(* strategy, with how many signals, whether the signal is the strategy's   *)
(* own, and a next state or none.                                          *)
Answers ==
  [ok : BOOLEAN, bound : BOOLEAN, signals : 0..2, own : BOOLEAN, next : Times \cup {None}]

(* A plausible slip: a strategy may date its state as it likes.            *)
AnswerErrorUndated(w) ==
  CASE ~w.ok -> "WORKER_FAILED"
    [] ~w.bound -> "WORKER_BINDING"
    [] w.signals > 1 -> "MULTIPLE_SIGNALS"
    [] w.signals = 1 /\ ~w.own -> "SIGNAL_INVALID"
    [] OTHER -> "NONE"

AnswerError(w) ==
  CASE ~w.ok -> "WORKER_FAILED"
    [] ~w.bound -> "WORKER_BINDING"
    [] w.signals > 1 -> "MULTIPLE_SIGNALS"
    [] w.next # None /\ w.next > Point.as_of -> "STATE_INVALID"
    [] w.signals = 1 /\ ~w.own -> "SIGNAL_INVALID"
    [] OTHER -> "NONE"

StepAnswerRefused(w) ==
  /\ Pending /\ ContextError(rdata, Point) = "NONE" /\ AnswerError(w) # "NONE"
  /\ Finish(AnswerError(w))

(* Sizing runs on a signal; what it makes a candidate carries a risk       *)
(* result.  The step is kept unless the retained bytes run out.            *)
StepDone(w, candidate) ==
  /\ Pending /\ ContextError(rdata, Point) = "NONE" /\ AnswerError(w) = "NONE"
  /\ candidate => w.signals = 1
  /\ \/ Finish("RESULT_LIMIT")
     \/ /\ steps' = Append(steps, [context |-> Context(rdata, Point, state),
                                   sized |-> w.signals = 1, candidate |-> candidate])
        /\ state' = IF w.next = None THEN state ELSE w.next
        /\ UNCHANGED <<lock, rdata, points, config, status>>

Complete == status = "running" /\ Len(steps) = Len(points) /\ Finish("complete")

(* The finally clause: the result is returned and the lock is free.        *)
Release ==
  /\ lock # None /\ status \notin {"idle", "running"}
  /\ lock' = None /\ status' = "idle"
  /\ UNCHANGED <<rdata, points, config, state, steps>>

ReplayNext ==
  \/ \E c \in Callers, d \in Datasets, s \in Schedules, cfg \in Configs : Run(c, d, s, cfg)
  \/ StepRefused
  \/ \E w \in Answers :
       StepAnswerRefused(w) \/ \E candidate \in BOOLEAN : StepDone(w, candidate)
  \/ Complete \/ Release

-----------------------------------------------------------------------------
(***************************************************************************)
(* validate_temporal.  A use is [id, kind, instrument, event, available,   *)
(* used, published, closed, deadline], a universe record [instrument,      *)
(* known, from, through], a suffix probe [data, visible, decision], each a *)
(* pair of what the baseline and the perturbed run retained.  Issues are   *)
(* <<code, id>>.                                                           *)
(***************************************************************************)
UseIssues(u) ==
  {code \in {"DATA_TIME_INCONSISTENT", "LOOKAHEAD_DATA", "BAR_NOT_CLOSED", "BAR_TIME_INCONSISTENT",
             "FILING_PUBLICATION_UNVERIFIED", "FILING_PUBLICATION_LEAK",
             "NEWS_PUBLICATION_UNVERIFIED", "PARAMETER_SELECTION_LEAK"} :
     CASE code = "DATA_TIME_INCONSISTENT" -> u.available < u.event
       [] code = "LOOKAHEAD_DATA" -> Max({u.event, u.available}) > u.used
       [] code = "BAR_NOT_CLOSED" -> u.kind = "bar" /\ (u.closed = None \/ u.closed > u.used)
       [] code = "BAR_TIME_INCONSISTENT" ->
            u.kind = "bar" /\ u.closed # None /\ (u.closed <= u.event \/ u.available < u.closed)
       [] code = "FILING_PUBLICATION_UNVERIFIED" -> u.kind = "filing" /\ u.published = None
       [] code = "FILING_PUBLICATION_LEAK" ->
            u.kind = "filing" /\ u.published # None /\ u.published > Min({u.used, u.available})
       [] code = "NEWS_PUBLICATION_UNVERIFIED" ->
            u.kind = "news" /\ (u.published = None \/ u.published > Min({u.used, u.available}))
       [] code = "PARAMETER_SELECTION_LEAK" ->
            u.kind = "parameter" /\ \/ u.deadline = None
                                    \/ u.available > u.deadline \/ u.deadline > u.used}

(* A plausible slip: membership is read from records known later.          *)
MembershipIssuesLate(u, universe) ==
  LET records == {r \in universe : r.instrument = u.instrument}
  IN  IF u.kind = "parameter" THEN {}
      ELSE IF u.instrument = None \/ records = {} THEN {"SURVIVORSHIP_UNVERIFIED"}
      ELSE IF \E r \in records : r.from <= u.used /\ u.used < r.through THEN {}
      ELSE {"UNIVERSE_MEMBERSHIP_INVALID"}

(* A removed instrument counts where it was a member, by what was known.   *)
MembershipIssues(u, universe) ==
  LET records == {r \in universe : r.instrument = u.instrument /\ r.known <= u.used}
  IN  IF u.kind = "parameter" THEN {}
      ELSE IF u.instrument = None \/ records = {} THEN {"SURVIVORSHIP_UNVERIFIED"}
      ELSE IF \E r \in records : r.from <= u.used /\ u.used < r.through THEN {}
      ELSE {"UNIVERSE_MEMBERSHIP_INVALID"}

ProbeIssues(p) ==
  (IF p.data[1] = p.data[2] THEN {"FUTURE_SUFFIX_PROBE_INEFFECTIVE"} ELSE {})
  \cup (IF p.visible[1] # p.visible[2] THEN {"FUTURE_SUFFIX_VISIBLE_CHANGE"} ELSE {})
  \cup (IF p.decision[1] # p.decision[2] THEN {"FUTURE_SUFFIX_DEPENDENCE"} ELSE {})

TemporalIssues(req) ==
  (IF req.coverage # "complete_point_in_time" THEN {<<"SURVIVORSHIP_UNVERIFIED", "universe">>} ELSE {})
  \cup UNION {(UseIssues(u) \cup MembershipIssues(u, req.universe)) \X {u.id} : u \in req.uses}
  \cup (UNION {ProbeIssues(p) : p \in req.probes}) \X {"probe"}

(* No look-ahead: the temporal validator finds nothing in the evidence of  *)
(* any retained step.  Its probe compares the step with what the replay    *)
(* would have seen and answered had the data received after the cutoff     *)
(* never existed.  The strategy's state and the portfolio are from no      *)
(* later than the cutoff, and the worker could reach nothing else.         *)
Prefix(d, cutoff) ==
  [d EXCEPT !.bars = SelectSeq(@, LAMBDA b : b.obs <= cutoff /\ b.rec <= cutoff),
            !.quotes = SelectSeq(@, LAMBDA q : q.obs <= cutoff /\ q.rec <= cutoff)]

Use(b, cutoff) ==
  [id |-> b.start, kind |-> "bar", instrument |-> "X", event |-> b.start, available |-> b.rec,
   used |-> cutoff, published |-> None, closed |-> b.close, deadline |-> None]

Evidence(s, p) ==
  LET prefix == Prefix(rdata, s.as_of)
  IN  [coverage |-> "complete_point_in_time",
       uses |-> {Use(s.bars[j], s.as_of) : j \in 1..Len(s.bars)},
       universe |-> {[instrument |-> "X", known |-> 0, from |-> 0, through |-> s.as_of + 1]},
       probes |-> {[data |-> <<rdata, prefix>>, visible |-> <<s, Context(prefix, p, s.state)>>,
                    decision |-> <<ContextError(rdata, p), ContextError(prefix, p)>>]}]

NoLookahead ==
  \A i \in 1..Len(steps) : LET s == steps[i].context IN
    /\ TemporalIssues(Evidence(s, points[i])) \subseteq
         {<<"FUTURE_SUFFIX_PROBE_INEFFECTIVE", "probe">>}
    /\ s.state # None => s.state <= s.as_of
    /\ s.portfolio.rec <= s.as_of
    /\ config.limits.block_network /\ config.limits.read_only_workdir

(* The validator does not look ahead either: what it says of a use depends *)
(* on no universe record learnt later, and a use that passes would pass at *)
(* any later time at which the instrument is still known a member.         *)
ValidatorBlind(u, universe, later) ==
  /\ MembershipIssues(u, universe) = MembershipIssues(u, {r \in universe : r.known <= u.used})
  /\ later >= u.used /\ UseIssues(u) \cup MembershipIssues(u, universe) = {} =>
       LET v == [u EXCEPT !.used = later]
       IN  UseIssues(v) = {} /\ MembershipIssues(v, universe) \subseteq {"UNIVERSE_MEMBERSHIP_INVALID"}
-----------------------------------------------------------------------------
(***************************************************************************)
(* simulate_costs (backtest/costs.py): hypothetical orders are filled at   *)
(* the open of the bars that follow them, share the volume of a bar in     *)
(* order of age, and are charged commission, spread and slippage with      *)
(* roundings that may never flatter the result.  And walk_forward          *)
(* (backtest/validation.py) with the sections of a report                  *)
(* (backtest/reporting.py) that the folds cut out of a NAV curve.          *)
(*                                                                         *)
(* A quantity times a price has more decimals than money is kept with: it  *)
(* is in grains, of which Grain make one unit of money.  Volumes times the *)
(* participation are in hundredths of a quantity, rates in basis points.   *)
(***************************************************************************)
CONSTANTS
  CostInputs,  \* [orders, bars, rates, raw, identity], orders sorted by (created_at, id)
  Grain,       \* grains in one unit of money
  MaxFills     \* the fills a result may hold (4096)

VARIABLES cost         \* the simulation: where it is and what it has charged

CeilDiv(a, b) == -((-a) \div b)

(* CostConfig: some rate is not zero outside of unit tests.                *)
RatesValid(r) == r.test \/ r.flat + r.commission + r.spread + r.slip > 0

(* CostRequest: raw bars in order, sound and not overlapping; orders that  *)
(* differ, of the Paper account, on the bars' instrument as known by then. *)
CostInputValid(in) ==
  /\ in.raw /\ RatesValid(in.rates)
  /\ \A i, j \in 1..Len(in.orders) : i # j => in.orders[i].id # in.orders[j].id
  /\ \A i \in 1..Len(in.bars) : in.bars[i].start < in.bars[i].close /\ in.bars[i].ok
  /\ \A i \in 1..Len(in.bars) - 1 : in.bars[i].close <= in.bars[i + 1].start
  /\ \A i \in 1..Len(in.orders) : in.orders[i].paper /\ in.identity <= in.orders[i].created

Liquidity(in, b) == in.bars[b].volume * in.rates.participation

CostInit ==
  \E in \in CostInputs :
    /\ CostInputValid(in)
    /\ cost = [in |-> in, bar |-> 1, ord |-> 1, liquidity |-> Liquidity(in, 1),
               left |-> [o \in 1..Len(in.orders) |-> in.orders[o].quantity],
               charged |-> {}, fills |-> <<>>, total |-> 0, failed |-> FALSE]

Order == cost.in.orders[cost.ord]
Bar == cost.in.bars[cost.bar]
Rates == cost.in.rates
Running == cost.bar <= Len(cost.in.bars) /\ ~cost.failed

(* The order's turn in this bar is over.                                   *)
Moved(c) ==
  IF c.ord < Len(c.in.orders) THEN [c EXCEPT !.ord = @ + 1]
  ELSE [c EXCEPT !.ord = 1, !.bar = @ + 1,
                 !.liquidity = IF c.bar < Len(c.in.bars) THEN Liquidity(c.in, c.bar + 1) ELSE 0]

(* Delay and expiry: the whole bar lies within the order's life.           *)
InTime == /\ Bar.start >= Order.created + Rates.delay
          /\ Bar.close <= Order.expires

(* The open, moved against the order and rounded against it to the tick.   *)
Direction(o) == IF o.side = "buy" THEN 1 ELSE -1

FillPrice(o, b, r) ==
  LET scaled == b.open * (10000 + Direction(o) * (r.spread + r.slip))
      unit == 10000 * o.tick
  IN  o.tick * (IF o.side = "buy" THEN CeilDiv(scaled, unit) ELSE scaled \div unit)

Acceptable(o, price) ==
  price > 0 /\ (IF o.side = "buy" THEN price <= o.limit ELSE price >= o.limit)

(* What is left of the order or of the bar, in whole increments.           *)
FillQuantity == Order.lot * (Min({100 * cost.left[cost.ord], cost.liquidity}) \div (100 * Order.lot))

(* A plausible slip: fractions of a fee are dropped.                       *)
CommissionFloor(r, quantity, price, first) ==
  (quantity * price * r.commission + (IF first THEN r.flat * Grain * 10000 ELSE 0))
    \div (Grain * 10000)

(* Commission rounds up, one flat fee per order included.                  *)
Commission(r, quantity, price, first) ==
  CeilDiv(quantity * price * r.commission + (IF first THEN r.flat * Grain * 10000 ELSE 0),
          Grain * 10000)

(* What the fill costs against the open, in grains.                        *)
Impact(quantity, price, open) == quantity * (IF price > open THEN price - open ELSE open - price)

(* A plausible slip: the two parts of the impact are both rounded down.    *)
SlippageFloor(impact, spread) == (impact - spread * Grain) \div Grain

(* What the spread leaves of the impact, rounded up.                       *)
Slippage(impact, spread) == CeilDiv(impact - spread * Grain, Grain)

(* The spread itself and the cash round down.                              *)
Fill(o, b, r, quantity, first) ==
  LET price == FillPrice(o, b, r)
      spread == (quantity * b.open * r.spread) \div (Grain * 10000)
      commission == Commission(r, quantity, price, first)
  IN  [order |-> o.id, bar |-> b.start, quantity |-> quantity, price |-> price,
       commission |-> commission, spread |-> spread,
       slippage |-> Slippage(Impact(quantity, price, b.open), spread),
       first |-> first, open |-> b.open,
       cash |-> (-Direction(o) * quantity * price - commission * Grain) \div Grain]

CostSkip ==
  /\ Running
  /\ \/ cost.left[cost.ord] = 0 \/ ~InTime
     \/ ~Acceptable(Order, FillPrice(Order, Bar, Rates)) \/ FillQuantity <= 0
  /\ cost' = Moved(cost)

(* A plausible slip: every order sees the whole volume of the bar.         *)
FilledUnshared(c, fill) ==
  [c EXCEPT !.left[c.ord] = @ - fill.quantity, !.charged = @ \cup {c.ord},
            !.fills = Append(@, fill), !.total = @ + fill.commission + fill.spread + fill.slippage]

Filled(c, fill) ==
  [c EXCEPT !.left[c.ord] = @ - fill.quantity, !.liquidity = @ - 100 * fill.quantity,
            !.charged = @ \cup {c.ord}, !.fills = Append(@, fill),
            !.total = @ + fill.commission + fill.spread + fill.slippage]

Fills ==
  /\ Running /\ cost.left[cost.ord] # 0 /\ InTime
  /\ Acceptable(Order, FillPrice(Order, Bar, Rates)) /\ FillQuantity > 0

CostFill ==
  /\ Fills /\ Len(cost.fills) < MaxFills
  /\ cost' = Moved(Filled(cost, Fill(Order, Bar, Rates, FillQuantity,
                                     cost.ord \notin cost.charged)))

(* COST_RESULT_LIMIT: nothing is returned.                                 *)
CostLimit ==
  /\ Fills /\ Len(cost.fills) >= MaxFills
  /\ cost' = [cost EXCEPT !.failed = TRUE]

CostNext == CostSkip \/ CostFill \/ CostLimit

-----------------------------------------------------------------------------
(***************************************************************************)
(* adjust_holdings: splits and dividend credits applied to one lot.        *)
(* Amounts given, split ratios included, have eight decimals: they are     *)
(* whole numbers of which One make one.  A displayed basis has twelve: its *)
(* unit is 1/Fine of theirs, so a basis that can be given is a multiple of *)
(* Fine.  A credit multiplies two amounts, so cash is in 1/One of theirs,  *)
(* and cash that can be given is a multiple of One.                        *)
(***************************************************************************)
CONSTANTS
  One,       \* the amount one
  Fine,      \* units of a basis in one unit of an amount
  MaxAmount  \* _adjustment_bound: the largest amount

RoundHalfEven(a, b) ==
  LET q == a \div b
      r == 2 * (a % b)
  IN  IF r > b \/ (r = b /\ q % 2 = 1) THEN q + 1 ELSE q

IdsOf(events) == [i \in 1..Len(events) |-> events[i].id]
EventBefore(e, f) == e.effective < f.effective \/ (e.effective = f.effective /\ e.id < f.id)

(* AdjustmentEvent: a split has a ratio, a credit an amount and the shares *)
(* entitled to it, none of them out of bounds.                             *)
EventValid(e) ==
  /\ \A amount \in {e.ratio, e.per_share, e.entitled} \ {None} : amount <= MaxAmount
  /\ IF e.kind = "split" THEN e.ratio # None /\ e.per_share = None /\ e.entitled = None
     ELSE e.ratio = None /\ e.per_share # None /\ e.entitled # None

(* _adjustment_bound of what the request holds.                            *)
AmountsValid(req) ==
  /\ req.basis % Fine = 0 /\ req.cash % One = 0
  /\ Max({req.quantity, req.basis \div Fine, req.cash \div One}) <= MaxAmount

(* A plausible slip: only the actions of this request are compared.        *)
AdjustmentValidForgetful(req) ==
  /\ AmountsValid(req)
  /\ IsInjective(IdsOf(req.events))
  /\ \A i \in 1..Len(req.events) - 1 : EventBefore(req.events[i], req.events[i + 1])
  /\ req.events # <<>> => req.raw
  /\ \A e \in ToSet(req.events) : EventValid(e) /\ Max({e.effective, e.available}) <= req.as_of

(* AdjustmentRequest: no action twice, in order, none from the future, and *)
(* none at all on a series that is adjusted already.                       *)
AdjustmentValid(req) ==
  /\ AmountsValid(req)
  /\ IsInjective(IdsOf(req.events)) /\ IsInjective(req.applied)
  /\ ToSet(IdsOf(req.events)) \cap ToSet(req.applied) = {}
  /\ \A i \in 1..Len(req.events) - 1 : EventBefore(req.events[i], req.events[i + 1])
  /\ req.events # <<>> => req.raw
  /\ \A e \in ToSet(req.events) : EventValid(e) /\ Max({e.effective, e.available}) <= req.as_of

(* One event; None once an amount is too large, or the quantity needs a    *)
(* ninth decimal.                                                          *)
Adjusted(lot, e) ==
  LET scaled == lot.quantity * (IF e.kind = "split" THEN e.ratio ELSE One)
      cash == IF e.kind = "split" THEN lot.cash ELSE lot.cash + e.per_share * e.entitled
  IN  IF lot = None THEN None
      ELSE IF scaled % One # 0 \/ scaled \div One > MaxAmount \/ cash > MaxAmount * One THEN None
      ELSE [quantity |-> scaled \div One, cash |-> cash]

AdjustHoldings(req) ==
  LET lot == FoldLeft(Adjusted, [quantity |-> req.quantity, cash |-> req.cash], req.events)
      total == req.quantity * req.basis
      basis == IF lot.quantity = 0 THEN req.basis ELSE RoundHalfEven(total, lot.quantity)
  IN  IF ~AdjustmentValid(req) THEN [error |-> "ADJUSTMENT_INPUT_INVALID"]
      ELSE IF lot = None THEN [error |-> "ADJUSTMENT_ECONOMIC_LIMIT"]
      ELSE IF basis > MaxAmount * Fine THEN [error |-> "ADJUSTMENT_ECONOMIC_LIMIT"]
      ELSE [error |-> "NONE", quantity |-> lot.quantity, cash |-> lot.cash, total |-> total,
            basis |-> basis, applied |-> req.applied \o IdsOf(req.events)]

-----------------------------------------------------------------------------
(* WalkForwardConfig and walk_forward: rolling folds on half-open windows, *)
(* as many as fit; none or more than 64 are an error.                      *)
WalkValid(w) == w.end > w.start /\ w.step >= w.test

FoldOf(w, k) ==
  LET from == w.start + k * w.step
      out == from + w.train + w.embargo
  IN  [train |-> <<from, from + w.train>>, test |-> <<out, out + w.test>>,
       deadline |-> from + w.train]

(* The separations that WalkForwardFold and WalkForwardResult insist on.   *)
FoldsSeparate(folds) ==
  /\ \A i \in 1..Len(folds) : LET f == folds[i] IN
       /\ f.train[1] < f.train[2] /\ f.train[2] <= f.test[1] /\ f.test[1] < f.test[2]
       /\ f.deadline = f.train[2]
  /\ \A i \in 1..Len(folds) - 1 : folds[i].test[2] <= folds[i + 1].test[1]

Folds(w) ==
  LET fitting == {k \in 0..64 : FoldOf(w, k).test[2] <= w.end}
      folds == [i \in 1..Cardinality(fitting) |-> FoldOf(w, i - 1)]
  IN  IF WalkValid(w) /\ Len(folds) \in 1..64 /\ FoldsSeparate(folds) THEN folds ELSE <<>>

-----------------------------------------------------------------------------
(***************************************************************************)
(* generate_report.  A NAV point is [at, gross, net, flow, cost, traded];  *)
(* while it is computed a ratio is <<numerator, denominator>>, exact where *)
(* the code keeps fifty digits, and a reported one is rounded half-even to *)
(* 1/Metric (twelve decimals).  Of the volatilities only whether they are  *)
(* stated is modelled, and the limits of 1e24 are out of reach.            *)
(***************************************************************************)
CONSTANT Metric  \* units of a reported ratio in one

(* A plausible slip: the last decimal is cut off.                          *)
QuantizedDown(x) == (x[1] * Metric) \div x[2]

(* _quantize                                                               *)
Quantized(x) == RoundHalfEven(x[1] * Metric, x[2])
Growth(x) == Quantized(<<x[1] - x[2], x[2]>>)

Times2(x, y) == <<x[1] * y[1], x[2] * y[2]>>
Less(x, y) == x[1] * y[2] < y[1] * x[2]
Larger(x, y) == IF Less(x, y) THEN y ELSE x

(* _curve: a period from point i - 1 to i.                                 *)
Period(curve, values, flows, i) ==
  LET adjusted == values[i] - flows[i]
      index == Times2(curve.index, <<adjusted, values[i - 1]>>)
      peak == Larger(curve.peak, index)
      held == <<index[1] * peak[2], index[2] * peak[1]>>
  IN  IF curve.error # "NONE" THEN curve
      ELSE IF values[i - 1] <= 0 THEN [curve EXCEPT !.error = "REPORT_ZERO_BASE"]
      ELSE IF adjusted < 0 THEN [curve EXCEPT !.error = "REPORT_CASH_FLOW_INVALID"]
      ELSE [error |-> "NONE", index |-> index, peak |-> peak,
            drawdown |-> Larger(curve.drawdown, <<held[2] - held[1], held[2]>>)]

Curve(values, flows) ==
  FoldLeft(LAMBDA curve, i : Period(curve, values, flows, i),
           [error |-> "NONE", index |-> <<1, 1>>, peak |-> <<1, 1>>, drawdown |-> <<0, 1>>],
           [i \in 1..Len(values) - 1 |-> i + 1])

Column(pts, name) == [i \in 1..Len(pts) |-> pts[i][name]]
Total(seq) == FoldLeft(LAMBDA sum, x : sum + x, 0, seq)

(* A plausible slip: the opening valuation's costs are counted.            *)
SpentOpening(pts, name) == Total(Column(pts, name))

(* The opening valuation belongs to the section before.                    *)
Spent(pts, name) == Total(Tail(Column(pts, name)))

Within(pts, window) == SelectSeq(pts, LAMBDA p : window[1] <= p.at /\ p.at <= window[2])

(* Why a section is not compared with the benchmark, if it is not.         *)
Compared(req, pts, window) ==
  LET b == req.benchmark
      levels == Within(b.points, window)
  IN  CASE b = None -> "BENCHMARK_UNAVAILABLE"
        [] ~b.same -> "BENCHMARK_CURRENCY_MISMATCH"
        [] b.basis # "total_return" -> "BENCHMARK_PRICE_RETURN_ONLY"
        [] Column(levels, "at") # Column(pts, "at") -> "BENCHMARK_UNALIGNED"
        [] OTHER -> "NONE"

(* Measured from the first level of the section to its last.               *)
BenchmarkReturn(req, window) ==
  LET levels == Within(req.benchmark.points, window)
  IN  Growth(<<Last(levels).level, Head(levels).level>>)

Annualized(req, pts) ==
  CASE req.cadence = None -> "ANNUALIZATION_UNSPECIFIED"
    [] \E i \in 2..Len(pts) : pts[i].at - pts[i - 1].at # req.cadence -> "ANNUALIZATION_CADENCE_MISMATCH"
    [] OTHER -> "NONE"

(* _section: complete only with a point at both ends of the window.        *)
Section(req, window) ==
  LET pts == IF window = None THEN <<>> ELSE Within(req.points, window)
      flows == Column(pts, "flow")
      gross == Curve(Column(pts, "gross"), flows)
      net == Curve(Column(pts, "net"), flows)
      error == IF gross.error # "NONE" THEN gross.error ELSE net.error
      navs == Total(Column(pts, "net"))
      compared == Compared(req, pts, window)
      benchmark == IF compared = "NONE" THEN BenchmarkReturn(req, window) ELSE None
      over(x) == IF benchmark = None THEN None ELSE x - benchmark
  IN  IF Len(pts) < 2 \/ Head(pts).at # window[1] \/ Last(pts).at # window[2]
      THEN [status |-> "unavailable", error |-> "NONE"]
      ELSE IF error # "NONE" THEN [status |-> "error", error |-> error]
      ELSE [status |-> "complete", error |-> "NONE", window |-> window,
            gross |-> Growth(gross.index), net |-> Growth(net.index),
            drawdown |-> Quantized(net.drawdown),
            cost |-> Spent(pts, "cost"), traded |-> Spent(pts, "traded"),
            turnover |-> IF navs > 0 THEN Quantized(<<Spent(pts, "traded") * Len(pts), navs>>) ELSE None,
            volatile |-> Len(pts) >= 3, annualized |-> Annualized(req, pts),
            compared |-> compared, benchmark |-> benchmark,
            gross_over |-> over(Growth(gross.index)), net_over |-> over(Growth(net.index))]

(* ReportRequest: ordered clocks, an opening point without flows or costs, *)
(* and an interval of positive length.                                     *)
ReportInputValid(req) ==
  /\ Len(req.points) >= 2 /\ Ordered(Column(req.points, "at"))
  /\ LET first == Head(req.points) IN first.flow = 0 /\ first.cost = 0 /\ first.traded = 0
  /\ req.interval # None => req.interval[1] < req.interval[2]
  /\ req.benchmark # None => Ordered(Column(req.benchmark.points, "at"))

Report(req) ==
  LET folds == IF req.walk = None THEN <<>> ELSE Folds(req.walk)
      windows == <<req.interval>> \o FlattenSeq([i \in 1..Len(folds) |-> <<folds[i].train, folds[i].test>>])
      sections == [i \in 1..Len(windows) |-> Section(req, windows[i])]
      failed == SelectSeq(sections, LAMBDA s : s.error # "NONE")
  IN  IF ~ReportInputValid(req) THEN [error |-> "REPORT_INPUT_INVALID"]
      ELSE IF folds # <<>> /\ ~req.bound THEN [error |-> "REPORT_PARAMETER_BINDING"]
      ELSE IF failed # <<>> THEN [error |-> Head(failed).error]
      ELSE [error |-> "NONE", overall |-> Head(sections),
            in |-> [i \in 1..Len(folds) |-> sections[2 * i]],
            out |-> [i \in 1..Len(folds) |-> sections[2 * i + 1]]]

-----------------------------------------------------------------------------
Sum(seq, Op(_)) == FoldLeft(LAMBDA acc, x : acc + Op(x), 0, seq)
FillsOf(P(_)) == SelectSeq(cost.fills, P)

(* The fills of a bar never exceed the share of its volume that the        *)
(* simulation grants, nor those of an order its quantity, and what is      *)
(* reported unfilled is exactly the rest.                                  *)
FillsFit ==
  /\ \A b \in 1..Len(cost.in.bars) :
       100 * Sum(FillsOf(LAMBDA f : f.bar = cost.in.bars[b].start), LAMBDA f : f.quantity)
         <= Liquidity(cost.in, b)
  /\ \A o \in 1..Len(cost.in.orders) :
       Sum(FillsOf(LAMBDA f : f.order = cost.in.orders[o].id), LAMBDA f : f.quantity)
         + cost.left[o] = cost.in.orders[o].quantity

(* "Money costs round upwards; never improve results via fractional fee    *)
(* loss": the total charged is at least the exact commissions, one flat    *)
(* fee per filled order and the exact distance from the opens.             *)
TotalCostCovers ==
  cost.total * Grain * 10000 >=
    Sum(cost.fills, LAMBDA f :
      f.quantity * f.price * Rates.commission + (IF f.first THEN Rates.flat * Grain * 10000 ELSE 0)
      + 10000 * Impact(f.quantity, f.price, f.open))

(* A fill's cash never exceeds its proceeds less its commission, and       *)
(* measured from the open the charges explain it: three roundings that may *)
(* differ in direction leave less than one unit between the two.           *)
CashExplained ==
  \A i \in 1..Len(cost.fills) : LET f == cost.fills[i] IN
    \E o \in ToSet(cost.in.orders) :
      LET gap == f.cash * Grain - (-Direction(o) * f.quantity * f.open
                                     - (f.commission + f.spread + f.slippage) * Grain)
      IN  /\ o.id = f.order
          /\ f.cash * Grain <= -Direction(o) * f.quantity * f.price - f.commission * Grain
          /\ -Grain < gap /\ gap < Grain

(* Two parts of a window, joined, give the whole as closely as the three   *)
(* roundings allow: each growth is off by at most half a unit.             *)
Joins(whole, left, right) ==
  LET gap == (Metric + whole) * Metric - (Metric + left) * (Metric + right)
  IN  4 * (IF gap < 0 THEN -gap ELSE gap) <= 2 * (Metric + 2 * Metric + left + right) + 1

(* Sections can be joined: over a window cut in two at a point, returns    *)
(* multiply, costs and traded amounts add up with none counted twice, and  *)
(* the drawdown is no smaller than in either part.                         *)
SectionsJoin(req) ==
  LET at == ToSet(Column(req.points, "at")) IN
  \A a, b, c \in at :
    a < b /\ b < c /\ Section(req, <<a, c>>).error = "NONE" =>
      LET left == Section(req, <<a, b>>)
          right == Section(req, <<b, c>>)
          whole == Section(req, <<a, c>>)
      IN  /\ left.status = "complete" /\ right.status = "complete"
          /\ Joins(whole.net, left.net, right.net)
          /\ Joins(whole.gross, left.gross, right.gross)
          /\ whole.benchmark # None => Joins(whole.benchmark, left.benchmark, right.benchmark)
          /\ whole.cost = left.cost + right.cost /\ whole.traded = left.traded + right.traded
          /\ whole.drawdown >= left.drawdown /\ whole.drawdown >= right.drawdown

(* The out-of-sample sections of a report together are charged no more     *)
(* than the whole curve was, and the temporal validator accepts parameters *)
(* selected by a fold's deadline when its test begins.                     *)
OutOfSampleOnce(req) ==
  LET report == Report(req)
      kept == SelectSeq(report.out, LAMBDA s : s.status = "complete")
  IN  report.error = "NONE" /\ req.walk # None =>
        /\ Total(Column(kept, "cost")) <= Total(Column(req.points, "cost"))
        /\ \A i \in 1..Len(Folds(req.walk)) : LET f == Folds(req.walk)[i] IN
             UseIssues([kind |-> "parameter", event |-> f.train[1], available |-> f.deadline,
                        used |-> f.test[1], published |-> None, closed |-> None,
                        deadline |-> f.deadline]) = {}

(* Corporate actions apply once: events given in two requests leave what   *)
(* they leave in one, the second refuses what the first applied, and the   *)
(* total basis it starts from is off by at most half a unit of the         *)
(* displayed basis per share.                                              *)
AppliedOnce(req, cut) ==
  LET whole == AdjustHoldings(req)
      first == AdjustHoldings([req EXCEPT !.events = SubSeq(@, 1, cut)])
      then == [req EXCEPT !.quantity = first.quantity, !.cash = first.cash, !.basis = first.basis,
                          !.applied = first.applied, !.events = SubSeq(@, cut + 1, Len(@))]
      second == AdjustHoldings(then)
  IN  whole.error = "NONE" /\ first.error = "NONE" =>
        /\ second.error = "NONE" =>
             /\ second.quantity = whole.quantity /\ second.cash = whole.cash
             /\ second.applied = whole.applied
             /\ LET drift == second.total - whole.total IN
                  2 * (IF drift < 0 THEN -drift ELSE drift) <= first.quantity
        /\ second.error # "NONE" => first.basis % Fine # 0 \/ first.cash % One # 0
        /\ cut > 0 => AdjustHoldings([then EXCEPT !.events = req.events]).error # "NONE"
=============================================================================
