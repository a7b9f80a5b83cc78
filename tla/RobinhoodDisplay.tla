-------------------------- MODULE RobinhoodDisplay --------------------------
(***************************************************************************)
(* What a display query shows of a gateway read: the mappers that turn the *)
(* provider's rows into the read models, the coherence those models        *)
(* demand, and the checks of the display service that bind the rows to the *)
(* question.  Everything here is pure.                                     *)
(*                                                                         *)
(* A row carries the fields that a check relates to another field or row;  *)
(* what the conversions of its other fields raise is its fault, None if    *)
(* they all parse.  A mapping is refused as soon as one check fails; the   *)
(* model keeps the set of the codes of all the checks that fail, of which  *)
(* the code reports the first.                                             *)
(***************************************************************************)
EXTENDS Integers, FiniteSets, Sequences, FiniteSetsExt, SequencesExt

CONSTANT None

DistinctIn(s) == Cardinality(ToSet(s)) = Len(s)

Column(rows, field(_)) == [i \in DOMAIN rows |-> field(rows[i])]

\* The codes of those pairs <<condition, code>> whose condition holds.
CodesOf(checks) == {c[2] : c \in {d \in checks : d[1]}}

RowCodes(rows) == {r.fault : r \in ToSet(rows)} \ {None}

DataCodes(read, capability) ==
    CodesOf({<<read.capability # capability, "wrong_capability">>,
             <<~read.wrapped, "invalid_shape">>})

ExpectedSymbolsCodes(symbols) ==
    CodesOf({<<symbols = <<>>, "invalid_value">>,
             <<~DistinctIn(symbols), "inconsistent_data">>})

\* As a bug: no row for a symbol nobody asked for, and that is all.
PartitionSubset(actual, expected) == ToSet(actual) \subseteq ToSet(expected)

RequireExpectedSymbolPartition(actual, expected) ==
    DistinctIn(actual) /\ ToSet(actual) = ToSet(expected)

PartitionCodes(actual, expected) ==
    CodesOf({<<~RequireExpectedSymbolPartition(actual, expected), "inconsistent_data">>})

Symbols(rows) == Column(rows, LAMBDA r : r.symbol)

(***************************************************************************)
(* Accounts, portfolio and positions.                                      *)
(***************************************************************************)
Tradable(row) ==
    row.agentic /\ row.state = "active" /\ ~row.deactivated /\ ~row.permanent

Several(places) == Cardinality(places) > 1

MapAccounts(read) ==
    DataCodes(read, "get_accounts") \cup RowCodes(read.rows)
        \cup CodesOf({<<Several({i \in DOMAIN read.rows : read.rows[i].default}), "invalid_value">>,
                      <<Several({i \in DOMAIN read.rows : Tradable(read.rows[i])}), "invalid_value">>})

MapPortfolio(read) ==
    LET totals == read.rows[1]
    IN  DataCodes(read, "get_portfolio") \cup RowCodes(read.rows)
            \cup CodesOf({<<totals.power_currency # totals.currency, "invalid_value">>,
                          <<totals.total # FoldSeq(+, 0, totals.parts), "invalid_value">>})

MapEquityPositions(read) ==
    DataCodes(read, "get_equity_positions") \cup RowCodes(read.rows)
        \cup UNION {CodesOf({<<r.type # "long", "unsupported_position">>,
                             <<r.quantity <= 0 \/ r.sellable > r.quantity, "invalid_value">>}) :
                    r \in ToSet(read.rows)}
        \cup CodesOf({<<~DistinctIn(Symbols(read.rows)), "invalid_value">>})

(***************************************************************************)
(* Quotes: shown with every reason why they may not be traded on.          *)
(***************************************************************************)
Times(q) == {q.last_at, q.bid_at, q.ask_at} \ {None}

Ineligibility(q, received, age) ==
    CodesOf({<<TRUE, "session_unverified">>,
             <<~q.traded, "no_trades">>,
             <<q.state # "active", "inactive_instrument">>,
             <<q.bid = 0, "missing_bid">>,
             <<q.ask = 0, "missing_ask">>,
             <<q.bid_at = None, "missing_bid_time">>,
             <<q.ask_at = None, "missing_ask_time">>,
             <<q.bid # 0 /\ q.ask # 0 /\ q.bid > q.ask, "crossed_market">>,
             <<\E t \in Times(q) : t > received, "future_timestamp">>,
             <<\E t \in Times(q) : received - t > age, "stale">>})

LiveEligible(q, received, age) == Ineligibility(q, received, age) = {}

MapEquityQuotes(read, age) ==
    CodesOf({<<age \notin 1..86400, "invalid_value">>})
        \cup DataCodes(read, "get_equity_quotes") \cup RowCodes(read.rows)
        \cup CodesOf({<<\E q \in ToSet(read.rows) : q.close \notin {None, q.symbol},
                        "inconsistent_data">>,
                      <<~DistinctIn(Symbols(read.rows)), "invalid_value">>})

RequireExactSymbols(actual, expected) ==
    CodesOf({<<~DistinctIn(expected), "invalid_value">>,
             <<Len(actual) # Len(expected) \/ ToSet(actual) # ToSet(expected),
               "inconsistent_data">>})

(***************************************************************************)
(* Orders.                                                                 *)
(***************************************************************************)
OpenOrderStates ==
    {"new", "queued", "confirmed", "unconfirmed", "partially_filled", "pending_cancelled",
     "locating"}

CommonOrderFieldsCoherent(o) ==
    /\ o.quantity = None => o.dollars # None
    /\ o.quantity # None => o.filled <= o.quantity
    /\ o.last # None => o.last >= o.created
    /\ o.type \in {"limit", "stop_limit"} => o.limit # None
    /\ o.type \in {"stop_market", "stop_limit"} => o.stop # None

ClosedLifecycleCoherent(o) ==
    /\ \A e \in ToSet(o.executions) :
        e.at >= o.created /\ (o.last # None => e.at <= o.last)
    /\ FoldSeq(LAMBDA e, sum : sum + e.quantity, 0, o.executions) = o.filled
    /\ o.state = "filled" /\ o.quantity # None => o.filled = o.quantity
    /\ DistinctIn(Column(o.executions, LAMBDA e : e.id))

OrdersIn(rows, open) == SelectSeq(rows, LAMBDA o : (o.state \in OpenOrderStates) = open)

Ids(orders) == Column(orders, LAMBDA o : o.id)

ForeignSymbol(rows, symbol) == symbol # None /\ \E o \in ToSet(rows) : o.symbol # symbol

MapOpenEquityOrders(read, symbol) ==
    LET open == OrdersIn(read.rows, TRUE)
    IN  DataCodes(read, "get_equity_orders") \cup RowCodes(open)
            \cup CodesOf({<<ForeignSymbol(read.rows, symbol), "inconsistent_data">>,
                          <<\E o \in ToSet(open) : ~CommonOrderFieldsCoherent(o), "invalid_value">>,
                          <<~DistinctIn(Ids(open)), "invalid_value">>})

ConsistentIdentityPairs(rows) ==
    \A o, p \in ToSet(rows) : (o.instrument = p.instrument) <=> (o.symbol = p.symbol)

MapClosedEquityOrders(read, symbol, id) ==
    LET closed == OrdersIn(read.rows, FALSE)
        executed == FlattenSeq(Column(closed, LAMBDA o : Column(o.executions, LAMBDA e : e.id)))
    IN  DataCodes(read, "get_equity_orders") \cup RowCodes(closed)
            \cup CodesOf({
                <<ForeignSymbol(read.rows, symbol), "inconsistent_data">>,
                <<id # None /\ \E o \in ToSet(read.rows) : o.id # id, "inconsistent_data">>,
                <<~ConsistentIdentityPairs(read.rows), "inconsistent_data">>,
                <<\E o \in ToSet(closed) :
                    ~(CommonOrderFieldsCoherent(o) /\ ClosedLifecycleCoherent(o)), "invalid_value">>,
                <<~DistinctIn(Ids(closed)) \/ ~DistinctIn(executed), "invalid_value">>})

\* filters is a function from the names of the filters that are set; None is
\* a time that does not parse.
OrderFilters == {"symbol", "order_id", "state", "created_at_gte", "placed_agent"}

Binds(filters, name, value) == name \in DOMAIN filters => filters[name] = value

FilterTimeParses(filters) == "created_at_gte" \in DOMAIN filters => filters["created_at_gte"] # None

\* As a bug: the agent is left to the provider.
FiltersMatchAnyAgent(o, filters) ==
    /\ Binds(filters, "symbol", o.symbol)
    /\ Binds(filters, "order_id", o.id)
    /\ Binds(filters, "state", o.state)
    /\ "created_at_gte" \in DOMAIN filters => o.created >= filters["created_at_gte"]

FiltersMatch(o, filters) ==
    /\ Binds(filters, "symbol", o.symbol)
    /\ Binds(filters, "order_id", o.id)
    /\ Binds(filters, "state", o.state)
    /\ Binds(filters, "placed_agent", o.agent)
    /\ "created_at_gte" \in DOMAIN filters => o.created >= filters["created_at_gte"]

RequireOrderFilters(orders, filters) ==
    CodesOf({<<~(DOMAIN filters \subseteq OrderFilters), "invalid_value">>,
             <<~FilterTimeParses(filters), "invalid_value">>,
             <<FilterTimeParses(filters) /\ \E o \in ToSet(orders) : ~FiltersMatch(o, filters),
               "inconsistent_data">>})

(***************************************************************************)
(* Price books, tradability, historicals, fundamentals and financials: one *)
(* row, or one entry in absent, for every symbol asked for.                *)
(***************************************************************************)
Descending(s) == \A i \in 1..(Len(s) - 1) : s[i] >= s[i + 1]

Ascending(s) == Descending(Reverse(s))

BookOrdered(b) ==
    /\ Descending(b.bids) /\ Ascending(b.asks)
    /\ DistinctIn(b.bids) /\ DistinctIn(b.asks)
    /\ b.bids # <<>> /\ b.asks # <<>> => b.bids[1] <= b.asks[1]

Keyed(read, symbols, capability, coherent(_)) ==
    ExpectedSymbolsCodes(symbols) \cup DataCodes(read, capability) \cup RowCodes(read.rows)
        \cup PartitionCodes(Symbols(read.rows) \o read.absent, symbols)
        \cup CodesOf({<<\E r \in ToSet(read.rows) : ~coherent(r), "invalid_value">>})

MapEquityPriceBooks(read, symbols) ==
    Keyed(read, symbols, "get_equity_price_book",
          LAMBDA b : BookOrdered(b) /\ b.updated <= read.observed)

HaltAndAccountRowsCoherent(t) ==
    /\ (t.halt_start = None) <=> (t.halt_end = None)
    /\ t.halt_start # None => t.halt_start <= t.halt_end
    /\ DistinctIn(t.account_types) /\ DistinctIn(t.halt_sessions)

MapEquityTradability(read, symbols) ==
    Keyed(read, symbols, "get_equity_tradability", HaltAndAccountRowsCoherent)

OhlcCoherent(b) ==
    /\ {b.open, b.close} \subseteq b.low..b.high
    /\ b.interpolated = TRUE => b.volume = 0

BarsStrictlyOrdered(bars) ==
    LET starts == Column(bars, LAMBDA b : b.at)
    IN  Ascending(starts) /\ DistinctIn(starts)

MapEquityHistoricals(read, symbols, interval, bounds) ==
    Keyed(read, symbols, "get_equity_historicals",
          LAMBDA h : /\ BarsStrictlyOrdered(h.bars)
                     /\ \A b \in ToSet(h.bars) : OhlcCoherent(b) /\ b.at <= read.observed)
        \cup CodesOf({<<\E h \in ToSet(read.rows) :
                          \/ interval # None /\ h.interval # interval
                          \/ bounds # None /\ h.bounds # bounds, "inconsistent_data">>})

UnspecifiedUnits == {"open", "high", "low", "high_52_weeks", "low_52_weeks", "dividend_per_share"}

\* What a fundamentals row shows: its facts, and those of no known currency.
FundamentalFacts(f) ==
    [facts |-> f.facts, quality |-> IF f.facts = {} THEN {"missing_fields", "partial"} ELSE {},
     non_comparable |-> f.facts \cap UnspecifiedUnits]

MapEquityFundamentals(read, symbols) ==
    Keyed(read, symbols, "get_equity_fundamentals",
          LAMBDA f : f.market_date # None => f.market_date <= read.observed)

PeriodsCoherent(f) ==
    LET ends == Column(f.periods, LAMBDA p : p.end)
    IN  /\ Descending(ends) /\ DistinctIn(ends)
        /\ DistinctIn(Column(f.periods, LAMBDA p : <<p.year, p.quarter>>))
        /\ \A p \in ToSet(f.periods) :
            /\ (f.period = "quarterly") <=> (p.quarter # None)
            /\ p.end_year - p.year \in -1..1

\* Positional: the answer for a symbol is at its place, None if there is none.
MapFinancials(read, symbols, period) ==
    LET rows == read.rows
        found == {i \in DOMAIN rows : rows[i] # None}
    IN  ExpectedSymbolsCodes(symbols) \cup DataCodes(read, "get_financials")
            \cup ({rows[i].fault : i \in found} \ {None})
            \cup CodesOf({<<Len(rows) # Len(symbols), "inconsistent_data">>,
                          <<\E i \in found : i \in DOMAIN symbols /\ rows[i].symbol # symbols[i],
                            "inconsistent_data">>,
                          <<\E i \in found : period # None /\ rows[i].period # period,
                            "inconsistent_data">>,
                          <<\E i \in found :
                              ~(/\ PeriodsCoherent(rows[i])
                                /\ \A p \in ToSet(rows[i].periods) : p.end <= read.observed),
                            "invalid_value">>})

(***************************************************************************)
(* The display service: what a query q shows of a read.                    *)
(***************************************************************************)
QuoteMaxAge == 15

FinancialsCodes(q, read) ==
    CodesOf({<<q.limit \notin 1..40, "invalid_value">>,
             <<\E i \in DOMAIN read.rows :
                 read.rows[i] # None /\ Len(read.rows[i].periods) > q.limit, "inconsistent_data">>})

FundamentalsCodes(q, read) ==
    CodesOf({<<q.bounds # None /\ \E f \in ToSet(read.rows) : f.bounds # q.bounds,
               "inconsistent_data">>})

FilterOf(filters, name) == IF name \in DOMAIN filters THEN filters[name] ELSE None

OrdersCodes(q, read) ==
    RequireOrderFilters(OrdersIn(read.rows, q.view = "open"), q.filters)
        \cup IF q.view = "open"
             THEN MapOpenEquityOrders(read, FilterOf(q.filters, "symbol"))
             ELSE MapClosedEquityOrders(read, FilterOf(q.filters, "symbol"),
                                        FilterOf(q.filters, "order_id"))

DisplayCodes(q, read) ==
    CASE q.command = "status" -> {}
      [] q.command = "accounts" -> MapAccounts(read)
      [] q.command = "portfolio" -> MapPortfolio(read)
      [] q.command = "positions" -> MapEquityPositions(read)
      [] q.command = "orders" -> OrdersCodes(q, read)
      [] q.command = "quotes" ->
            MapEquityQuotes(read, QuoteMaxAge) \cup RequireExactSymbols(Symbols(read.rows), q.symbols)
      [] q.command = "price-book" -> MapEquityPriceBooks(read, q.symbols)
      [] q.command = "tradability" -> MapEquityTradability(read, q.symbols)
      [] q.command = "historicals" ->
            MapEquityHistoricals(read, q.symbols, q.interval, q.bounds)
      [] q.command = "fundamentals" ->
            MapEquityFundamentals(read, q.symbols) \cup FundamentalsCodes(q, read)
      [] q.command = "financials" ->
            MapFinancials(read, q.symbols, q.period) \cup FinancialsCodes(q, read)

Shown(q, read) == DisplayCodes(q, read) = {}

\* What each filter asks of an order.
Matches(o, name, value) ==
    CASE name = "symbol" -> o.symbol = value
      [] name = "order_id" -> o.id = value
      [] name = "state" -> o.state = value
      [] name = "placed_agent" -> o.agent = value
      [] name = "created_at_gte" -> value # None /\ o.created >= value
      [] OTHER -> FALSE

(***************************************************************************)
(* An answer that is shown answers the question that was asked: a query by *)
(* symbols shows, for every symbol asked for, exactly one row or exactly   *)
(* one statement that there is none, and nothing about another symbol; a   *)
(* list of orders shows every order once, only orders of the view asked    *)
(* for, only orders that match every filter (symbol, order, state, time    *)
(* and agent), none where a filter is unknown, and only closed orders      *)
(* whose executions add up to what the order filled.  Rows carry no        *)
(* account, so nothing binds them to the one asked for: the code says so   *)
(* beside them (account_binding unverified) (RobinhoodDisplayService).     *)
(***************************************************************************)
AnswersTheQuestion(q, read) ==
    Shown(q, read) =>
        CASE q.command \in {"quotes", "price-book", "tradability", "historicals", "fundamentals"} ->
                LET told == Symbols(read.rows) \o read.absent
                IN  \A s \in ToSet(told) \cup ToSet(q.symbols) :
                        /\ s \in ToSet(q.symbols)
                        /\ Cardinality({i \in DOMAIN told : told[i] = s}) = 1
          [] q.command = "financials" ->
                /\ DOMAIN read.rows = DOMAIN q.symbols
                /\ \A i \in DOMAIN read.rows : read.rows[i] # None =>
                        read.rows[i].symbol = q.symbols[i]
          [] q.command = "orders" ->
                LET orders == OrdersIn(read.rows, q.view = "open")
                IN  /\ \A i, j \in DOMAIN orders : orders[i].id = orders[j].id => i = j
                    /\ \A o \in ToSet(orders) :
                        /\ \A name \in DOMAIN q.filters : Matches(o, name, q.filters[name])
                        /\ q.view = "closed" =>
                               o.filled = FoldSeq(LAMBDA e, n : n + e.quantity, 0, o.executions)
          [] OTHER -> TRUE
=============================================================================
