--------------------------- MODULE MCTradePlanning ---------------------------
(***************************************************************************)
(* From strategies to orders on small instances.  A behaviour is one of    *)
(* planning, of the worker processes that evaluate strategies, of a        *)
(* replay, of the cost simulation of a backtest, or an input to look at: a *)
(* set of plugins, a data use, a report, a lot with corporate actions.     *)
(*                                                                         *)
(* Planning has two symbols: X is quoted with a touch at its last price, Y *)
(* without a touch and off the tick.  Signals that agree, that differ in   *)
(* weight and in intent, that come later, and one to hold.  Weights are in *)
(* tenths.                                                                 *)
(***************************************************************************)
EXTENDS TradePlanning, TLC

CONSTANT caller

VARIABLES
  part,
  at, parent, child, timed, workdir, records,
  lock, rdata, points, config, state, steps, status,
  cost,
  probe

workervars == <<at, parent, child, timed, workdir, records>>
replayvars == <<lock, rdata, points, config, state, steps, status>>

MCInstruments == {"X", "Y"}
MCListing ==
    [i \in MCInstruments |-> [instrument |-> i, symbol |-> i, venue |-> "XNAS", asset |-> "EQUITY"]]
MCCurrencyOf == [v \in {"XNAS"} |-> "USD"]
MCSizing == [lot |-> 1, tick |-> 2, min |-> 4, max |-> 40, reserve |-> 10]
MCSymbols == <<"X", "Y">>

Quote(i, bid, ask, last) ==
    [instrument |-> i, symbol |-> i, venue |-> "XNAS", asset |-> "EQUITY", bid |-> bid, ask |-> ask,
     last |-> last]
MCQuotes == [i \in MCInstruments |-> IF i = "X" THEN Quote("X", 10, 10, 10) ELSE Quote("Y", None, None, 5)]

Signal(n, symbol, intent, weight, strategy, from, to) ==
    [id |-> n, symbol |-> symbol, intent |-> intent, weight |-> weight, strength |-> 1,
     strategy |-> strategy, version |-> 1, generated |-> from, expires |-> to]
MCEmitted ==
    {Signal(1, "X", "BUY", 4, "A", 0, 2), Signal(2, "X", "BUY", 6, "A", 0, 2),
     Signal(3, "X", "BUY", 6, "A", 0, 2), Signal(4, "X", "SELL", 1, "B", 1, 3),
     Signal(5, "Y", "BUY", 6, "A", 0, 3), Signal(6, "X", "HOLD", None, "B", 0, 3)}

MCHeld == [i \in MCInstruments |-> IF i = "X" THEN 2 ELSE 0]
-----------------------------------------------------------------------------
(* A batch of three runs: one whose parameters do not serialise comes last. *)
Strategy == INSTANCE Strategies WITH
  Runs <- <<[params |-> TRUE, mem |-> TRUE], [params |-> TRUE, mem |-> FALSE],
            [params |-> FALSE, mem |-> TRUE]>>
-----------------------------------------------------------------------------
(* Bars and quotes that are received late, out of order and never; points  *)
(* whose grid has, or lacks, the second bar, and one whose portfolio was   *)
(* received after the cutoff.                                              *)
Bar(start, end, observed, received) ==
  [start |-> start, close |-> end, obs |-> observed, rec |-> received, ok |-> TRUE]
Known(observed, received) == [obs |-> observed, rec |-> received, ok |-> TRUE]
Dataset(bars, quotes) == [bars |-> bars, quotes |-> quotes, uniform |-> TRUE, identity |-> 0]
Snapshot(t, received) ==
  [as_of |-> t, paper |-> TRUE, obs |-> t, rec |-> received, ok |-> TRUE]
Moment(t, grid) ==
  [as_of |-> t, available |-> t, portfolio |-> Snapshot(t, t), activity |-> t, grid |-> grid]
MCDatasets ==
  {Dataset(<<Bar(0, 1, 1, 1), Bar(1, 2, o, r)>>, <<Known(1, 1), Known(2, q)>>) :
     o \in 2..3, r \in 2..4, q \in 2..3}
  \cup {[Dataset(<<Bar(0, 1, 1, 1)>>, <<Known(1, 1)>>) EXCEPT !.identity = 2],
        [Dataset(<<Bar(0, 1, 1, 1)>>, <<Known(1, 1)>>) EXCEPT !.uniform = FALSE],
        Dataset(<<Bar(0, 1, 3, 3)>>, <<Known(1, 1), [Known(2, 2) EXCEPT !.ok = FALSE]>>),
        Dataset(<<Bar(0, 1, 2, 2)>>, <<Known(3, 3)>>)}
MCSchedules ==
  {<<Moment(1, <<0>>), Moment(2, g), Moment(3, <<0, 1>>)>> : g \in {<<0>>, <<0, 1>>}}
  \cup {<<Moment(2, <<0, 1>>), Moment(4, <<0, 1>>)>>, <<Moment(2, <<0>>), Moment(1, <<0>>)>>,
        <<Moment(1, <<0>>), [Moment(2, <<0>>) EXCEPT !.portfolio = Snapshot(2, 3)]>>,
        <<[Moment(2, <<0>>) EXCEPT !.portfolio.ok = FALSE]>>}
MCConfigs ==
  {[limits |-> [block_network |-> n, read_only_workdir |-> TRUE, cpu |-> 2, memory |-> 256, wall |-> 5],
    own |-> TRUE, first |-> f] : n \in BOOLEAN, f \in {None, 0, 2}}
-----------------------------------------------------------------------------
(* Two orders of other increments that compete for two or three bars.      *)
(* Prices are in cents, rates in hundredths of a percent.                  *)
BacktestOrder(n, side, expires, quantity, limit) ==
  [id |-> n, side |-> side, created |-> 0, expires |-> expires, quantity |-> quantity,
   lot |-> n, limit |-> limit, tick |-> 5, paper |-> TRUE]
Pairs ==
  {<<BacktestOrder(1, s1, e, 3, l1), BacktestOrder(2, s2, 4, q, 110)>> :
     s1 \in {"buy", "sell"}, s2 \in {"buy", "sell"}, e \in {2, 3}, q \in {2, 4}, l1 \in {95, 110}}
Markets ==
  {<<[start |-> 1, close |-> 2, open |-> o, volume |-> v, ok |-> TRUE],
     [start |-> 2, close |-> 3, open |-> 103, volume |-> 6, ok |-> TRUE]>> : o \in {97, 103}, v \in {3, 8}}
  \cup {<<[start |-> 1, close |-> 2, open |-> 97, volume |-> 2, ok |-> TRUE],
          [start |-> 2, close |-> 3, open |-> 97, volume |-> 8, ok |-> TRUE],
          [start |-> 3, close |-> 4, open |-> 97, volume |-> 8, ok |-> TRUE]>>}
Charges ==
  {[flat |-> f, commission |-> c, spread |-> s, slip |-> 40, participation |-> 50, delay |-> 1,
    test |-> FALSE] : f \in {0, 3}, c \in {0, 35}, s \in {0, 30}}
Test == INSTANCE Backtest WITH
  Callers <- {caller}, Times <- {0, 2, 3}, MaxAge <- 1, Warmup <- 1, MaxFills <- 3,
  Grain <- 4, One <- 10, Fine <- 10, MaxAmount <- 40, Metric <- 100,
  Datasets <- MCDatasets, Schedules <- MCSchedules, Configs <- MCConfigs,
  CostInputs <- {[orders |-> o, bars |-> b, rates |-> r, raw |-> TRUE, identity |-> 0] :
                   o \in Pairs, b \in Markets, r \in Charges}
-----------------------------------------------------------------------------
(* One use of each kind against a membership that ends and one learnt late.*)
Uses ==
  [kind : {"evidence"}, later : {3},
   use : [id : {1}, kind : {"bar", "filing", "news", "parameter"}, instrument : {None, "X"},
          event : {0, 1}, available : 0..2, used : {1, 2}, published : {None, 1, 2},
          closed : {None, 1, 2}, deadline : {None, 1}],
   universe : {{}, {[instrument |-> "X", known |-> 0, from |-> 0, through |-> 2]},
               {[instrument |-> "X", known |-> 2, from |-> 0, through |-> 3]}}]

(* Four NAV points, the later ones with gains, losses, ruin, a deposit and *)
(* costs; walk-forward plans with none, one and several folds.             *)
Nav(t, net, flow, spent) ==
  [at |-> t, gross |-> net + spent, net |-> net, flow |-> flow, cost |-> spent, traded |-> 2 * spent]
Curves ==
  {<<Nav(0, 2, 0, 0), Nav(2, x, f, 1), Nav(4, y, 0, s), Nav(8, z, 0, 1)>> :
     x \in 0..3, f \in {0, 2}, y \in {1, 3}, s \in 0..1, z \in 1..2}
Levels ==
  <<[at |-> 0, level |-> 11], [at |-> 2, level |-> 43], [at |-> 4, level |-> 168], [at |-> 8, level |-> 4]>>
Reports ==
  [kind : {"report"}, points : Curves, interval : {None, <<0, 8>>}, cadence : {None, 2}, bound : {TRUE},
   benchmark : {None, [same |-> TRUE, basis |-> "total_return", points |-> Levels]},
   walk : {None} \cup [start : {0}, end : {8}, train : {2}, test : {2, 4}, step : {2, 4}, embargo : {0}]]

(* Up to three corporate actions on a lot, cut in two requests anywhere.   *)
Split(n, t, ratio) ==
  [id |-> n, kind |-> "split", effective |-> t, available |-> t, ratio |-> ratio,
   per_share |-> None, entitled |-> None]
Credit(n, t, shares) ==
  [id |-> n, kind |-> "dividend_credit", effective |-> t, available |-> t, ratio |-> None,
   per_share |-> 5, entitled |-> shares]
Actions ==
  {<<Split(1, 1, r), e, Split(3, 2, q)>> :
     r \in {21, 5, 30}, q \in {20, 3}, e \in {Credit(2, 1, 3), Credit(2, 1, 4), Credit(2, 3, 4)}}
Lots ==
  [kind : {"lot"}, cut : 0..3, raw : BOOLEAN, as_of : {2, 3}, quantity : {0, 6, 10, 12},
   basis : {10, 20}, cash : {0, 380, 390}, events : Actions, applied : {<<>>, <<2>>}]
-----------------------------------------------------------------------------
(* Two plugins with the same or other ids, entry points, API ranges and    *)
(* definitions, under every kind of configuration; and two strategies of   *)
(* one plugin, bound by documents of one or two instances.                 *)
Clause(op, a, b, c) == [op |-> op, bound |-> <<a, b, c>>]
Wide == <<Clause(">=", 1, 0, 0), Clause("<", 2, 0, 0)>>
Meta(id, version) == [id |-> id, version |-> version, api |-> Wide, formed |-> TRUE]
Definition(name, m, ttl) == [name |-> name, m |-> m, ttl |-> ttl]
Plugin(point, m, defs) ==
  [ep |-> point, meta |-> "given", m |-> m, hook |-> TRUE, defs |-> defs]
Simple(point, m) == Plugin(point, m, <<Definition("a", m, "duration")>>)
Q == Meta("q", "1")
Installable ==
  {Simple(e, Meta(i, v)) : e \in {"", "p", "q"}, i \in {"p", "q"}, v \in {"1", "2"}}
  \cup {Plugin("q", Q, <<Definition("a", Q, "duration"), Definition("b", Q, "none")>>),
        Plugin("q", Q, <<Definition("b", Meta("p", "1"), "none")>>),
        Plugin("q", Q, <<Definition("b", Meta("p", "2"), "none")>>),
        Plugin("", Q, <<Definition("b", [Q EXCEPT !.api = <<Clause(">", 1, 0, 0)>>], "none")>>),
        [Simple("p", Meta("p", "1")) EXCEPT !.hook = FALSE],
        [Simple("p", Meta("p", "1")) EXCEPT !.meta = "missing"],
        [Simple("q", Meta("p", "1")) EXCEPT !.meta = "malformed"]}
  \cup {Simple("p", [Meta("p", "1") EXCEPT !.api = a]) :
          a \in {<<>>, <<Clause("==", 1, 0, 0)>>, <<Clause("<=", 0, 9, 9)>>}}
  \cup {Simple("q", [Q EXCEPT !.formed = FALSE]), Plugin("q", Meta("p", "2"), <<>>)}

Config(live, listed, disabled, allow) ==
  [live |-> live, listed |-> listed, disabled |-> disabled, allow |-> allow]
Configs ==
  {Config(l, TRUE, d, a) : l \in BOOLEAN, d \in {{}, {"q"}},
     a \in {{}, {<<"p", "1">>}, {<<"p", "1">>, <<"q", "1">>}, {<<"p", "">>}, {<<"", "1">>}}}
  \cup {Config(l, FALSE, d, {}) : l \in BOOLEAN, d \in {{}, {"q"}}}

Instance(id, plugin, strategy, pin, ttl, own) ==
  [id |-> id, plugin |-> plugin, strategy |-> strategy, pin |-> pin, ttl |-> ttl, own |-> own]
Pinned == {<<Instance("i", i, "", "1", <<30, "m">>, None)>> : i \in {"p", "q"}}
Two ==
  Plugin("q", Q, <<Definition("a", Q, "duration"), Definition("b", Q, "none"), Definition("d", Q, "other")>>)
Instances ==
  {Instance("i", i, n, v, t, o) : i \in {"p", "q"}, n \in {"", "a", "b", "c", "d"}, v \in {"", "1", "2"},
     t \in {<<1, "d">>, <<36, "h">>, <<90, "m">>, <<61, "s">>},
     o \in {None, <<24, "h">>, <<90, "m">>}}
Installations ==
  [kind : {"plugins"}, found : {<<x, y>> : x, y \in Installable}, cfg : Configs, doc : Pinned]
  \cup [kind : {"plugins"}, found : {<<Two>>},
        cfg : {Config(TRUE, TRUE, {}, {<<"q", "1">>}), Config(FALSE, FALSE, {}, {})},
        doc : {<<x>> : x \in Instances}
              \cup {<<x, Instance(n, "q", "a", "1", <<30, "m">>, None)>> : x \in Instances, n \in {"i", "j"}}]
-----------------------------------------------------------------------------
MCInit ==
  /\ part \in {"planning", "worker", "replay", "costs", "probe"}
  /\ \/ part = "planning" /\ Init
     \/ /\ part # "planning" /\ now = 0 /\ signals = {} /\ scope = "PAPER"
        /\ cash = OpeningCash /\ held = OpeningHeld /\ orders = <<>>
  /\ Strategy!WorkerInit /\ Test!ReplayInit
  /\ \/ part = "costs" /\ Test!CostInit
     \/ part # "costs" /\ cost = None
  /\ \/ part = "probe" /\ probe \in Installations \cup Uses \cup Reports \cup Lots
     \/ part # "probe" /\ probe = None

MCNext ==
  /\ UNCHANGED <<part, probe>>
  /\ \/ part = "planning" /\ Next /\ UNCHANGED <<workervars, replayvars, cost>>
     \/ part = "worker" /\ Strategy!WorkerNext /\ UNCHANGED <<vars, replayvars, cost>>
     \/ part = "replay" /\ Test!ReplayNext /\ UNCHANGED <<vars, workervars, cost>>
     \/ part = "costs" /\ Test!CostNext /\ UNCHANGED <<vars, workervars, replayvars>>

MCSpec == MCInit /\ [][MCNext]_<<part, vars, workervars, replayvars, cost, probe>>
-----------------------------------------------------------------------------
(* SuccessIsEarned of Strategies: a SUCCESS record is the answer of        *)
(* this run's own confined child, in time and with a scrubbed environment  *)
(* (run_worker).                                                           *)
SuccessIsEarned == Strategy!SuccessIsEarned

(* NoLookahead of Backtest: every step is the one the replay would have    *)
(* taken had later data never existed (run_replay).                        *)
NoLookahead == Test!NoLookahead

(* A backtest does not flatter: its fills take no more than the market and *)
(* the orders allow, its charges explain its cash and are not below the    *)
(* exact cost, the sections of a report can be joined with no cost counted *)
(* twice, corporate actions apply once, and the temporal validator reads   *)
(* nothing learnt later (simulate_costs, generate_report, walk_forward,    *)
(* adjust_holdings, validate_temporal).                                    *)
BacktestHonest ==
  /\ part = "costs" => Test!FillsFit /\ Test!TotalCostCovers /\ Test!CashExplained
  /\ part = "probe" =>
       CASE probe.kind = "report" -> Test!SectionsJoin(probe) /\ Test!OutOfSampleOnce(probe)
         [] probe.kind = "lot" -> Test!AppliedOnce(probe, probe.cut)
         [] probe.kind = "evidence" -> Test!ValidatorBlind(probe.use, probe.universe, probe.later)
         [] OTHER -> TRUE

(* What the registry loads does not depend on the order in which           *)
(* plugins are discovered, an instance that binds in live mode runs the    *)
(* version its pin and the allowlist name, and the lifetime of its signals *)
(* is the one of its constraints (load, bind_strategy_instances).          *)
LoadedAsPinned ==
  part = "probe" /\ probe.kind = "plugins" =>
    /\ Strategy!LoadOrderFree(probe.cfg, probe.found)
    /\ Strategy!LivePinned(probe.cfg, probe.found, probe.doc)
    /\ Strategy!TtlAligned(probe.cfg, probe.found, probe.doc)
=============================================================================
