----------------------------- MODULE PretradeGate -----------------------------
(***************************************************************************)
(* The last check before an order leaves: evaluate_pretrade over a         *)
(* re-fetched portfolio and quote, the kill switch and a history of        *)
(* submissions (risk/pretrade.py, risk/kill_switch.py, risk/rules/).       *)
(*                                                                         *)
(* A request carries its own clock and the history its caller loaded; the  *)
(* portfolio and the quote are fetched later, and the snapshot that        *)
(* fetch_portfolio returns was taken at some other moment.  Between any    *)
(* two steps the account moves by itself and operators turn the switch.    *)
(* The gate submits nothing and records no history: both are its caller's. *)
(***************************************************************************)
EXTENDS RiskRules, FiniteSets

CONSTANTS
    Candidates,    \* orders that may be evaluated, and that may stand at the broker
    Metadata,      \* InstrumentMetadata of each instrument
    Feeds,         \* quotes of each instrument, with ages instead of times
    Volatilities, Exposures, Sessions,   \* the other inputs of a request
    Marks,         \* the price each holding is valued at
    OpeningCash, OpeningHeld,
    MaxTime, MaxOrders, MaxAlerts   \* bounds: on the clock, on orders ever placed, on queued alerts

Sources == {"CONFIGURED", "OPERATIONAL"}

VARIABLES
    now,
    cash, held, orders,   \* the account at the broker
    submitted,            \* every order it was ever sent: RecentOrderSubmission
    snap,                 \* the snapshot fetch_portfolio returns, and its as_of
    request,              \* the PretradeRequest under evaluation, or None
    verdict,              \* what evaluate_pretrade returned in the last step, or None
    active,               \* the sources of the kill switch that are on
    alerts,               \* _alerts
    told                  \* the sources on, by the alerts drained so far

account == <<cash, held, orders, submitted>>
switch == <<active, alerts, told>>
vars == <<now, account, snap, request, verdict, switch>>

Value(h) == [i \in Instruments |-> h[i] * Marks[i]]

Snapshot == [at |-> now, cash |-> cash, held |-> held, value |-> Value(held), orders |-> orders]

\* KillSwitch(configured_active): nothing is announced, the configuration is known.
Init ==
    /\ now = 0
    /\ cash = OpeningCash
    /\ held = OpeningHeld
    /\ orders = <<>>
    /\ submitted = {}
    /\ snap = Snapshot
    /\ request = None
    /\ verdict = None
    /\ active \in SUBSET {"CONFIGURED"}
    /\ alerts = <<>>
    /\ told = active

-----------------------------------------------------------------------------
(* The kill switch.                                                        *)

\* Mutant: what stays on after the change is named, not what changed.
ChangeAlertRemaining(s, on) ==
    [kind |-> IF on THEN "ACTIVATED" ELSE "DEACTIVATED",
     sources |-> IF on THEN active \cup {s} ELSE active \ {s}]

\* An alert names the source that changed.
ChangeAlert(s, on) ==
    [kind |-> IF on THEN "ACTIVATED" ELSE "DEACTIVATED", sources |-> {s}]

Announce(alert) == Len(alerts) < MaxAlerts /\ alerts' = Append(alerts, alert)

\* set_configured, activate_operational, deactivate_operational: a call that
\* changes nothing says nothing.
SetSource(s, on) ==
    /\ (s \in active) # on
    /\ active' = IF on THEN active \cup {s} ELSE active \ {s}
    /\ Announce(ChangeAlert(s, on))
    /\ verdict' = None
    /\ UNCHANGED <<now, account, snap, request, told>>

\* What a reader of alerts, in their order, takes for on; and whether each fits
\* what came before it: a change is one, a block names what is on.
Heard(seq, before) ==
    FoldLeft(LAMBDA h, a :
               CASE a.kind = "ACTIVATED" ->
                      [on |-> h.on \cup a.sources, fits |-> h.fits /\ a.sources \cap h.on = {}]
                 [] a.kind = "DEACTIVATED" ->
                      [on |-> h.on \ a.sources, fits |-> h.fits /\ a.sources \subseteq h.on]
                 [] OTHER ->
                      [on |-> h.on, fits |-> h.fits /\ a.sources # {} /\ a.sources = h.on],
             [on |-> before, fits |-> TRUE], seq)

DrainAlerts ==
    /\ alerts # <<>>
    /\ told' = Heard(alerts, told).on
    /\ alerts' = <<>>
    /\ verdict' = None
    /\ UNCHANGED <<now, account, snap, request, active>>

-----------------------------------------------------------------------------
(* evaluate_pretrade.                                                      *)

\* The caller's request.  It loads a history, the whole one or an empty one as
\* the Paper loop does, or has none; it passes the switch (shown is None), a snapshot
\* of it, or a blank one as the Paper loop does.
Request(cand, recent, shown) ==
    /\ request = None
    /\ request' = [cand |-> cand, at |-> now, recent |-> recent, shown |-> shown]
    /\ verdict' = None
    /\ UNCHANGED <<now, account, snap, switch>>

\* Mutant: the age of the portfolio is not looked at.
SnapshotUsableAnyAge(at) == at <= request.at

\* _reject_stale_snapshot: it raises on a snapshot of the future or too old.
SnapshotUsable(at) == at <= request.at /\ request.at - at <= Limits.skew

QuoteAt(feed) ==
    [instrument |-> feed.instrument, symbol |-> feed.symbol, observed |-> now - feed.age,
     received |-> now - feed.lag, delayed |-> feed.delayed, stale |-> feed.stale,
     bid |-> feed.bid, ask |-> feed.ask, last |-> feed.last]

Fetched(cand) == {f \in Feeds : f.instrument = cand.instrument}

Shown == IF request.shown = None THEN active ELSE request.shown

Context(feed, vol, exposure, session) ==
    [phase |-> "PRETRADE", now |-> request.at, cand |-> request.cand,
     meta |-> Metadata[request.cand.instrument], quote |-> QuoteAt(feed), session |-> session,
     portfolio |-> snap, volatility |-> vol, exposure |-> exposure, switch |-> Shown,
     recent |-> request.recent, client |-> request.cand.client, hash |-> request.cand.hash]

\* A stale fetch raises, before the switch is looked at.
EvaluateRaises ==
    /\ request # None
    /\ \E feed \in Fetched(request.cand) : ~(SnapshotUsable(now - feed.lag) /\ SnapshotUsable(snap.at))
    /\ request' = None
    /\ verdict' = None
    /\ UNCHANGED <<now, account, snap, switch>>

\* With the switch on, the block is recorded before the rules run and reject.
Evaluate(feed, vol, exposure, session) ==
    /\ request # None
    /\ feed \in Fetched(request.cand)
    /\ SnapshotUsable(now - feed.lag)
    /\ SnapshotUsable(snap.at)
    /\ IF request.shown = None /\ active # {}
         THEN Announce([kind |-> "BLOCKED_NEW_ORDER", sources |-> active])
         ELSE UNCHANGED alerts
    /\ verdict' = [request |-> request, portfolio |-> snap,
                   approved |-> Approved(Context(feed, vol, exposure, session), PretradeCodes)]
    /\ request' = None
    /\ UNCHANGED <<now, account, snap, active, told>>

-----------------------------------------------------------------------------
(* The account at the broker, and time.                                    *)

OrderOf(cand) ==
    [client |-> cand.client, instrument |-> cand.instrument, side |-> cand.side,
     qty |-> cand.qty, limit |-> cand.limit]

Live == [cash |-> cash, held |-> held, orders |-> orders]

\* What an account can bear on top of its open orders.
Bears(acct, o) ==
    IF o.side = "SELL" THEN OpenQty(acct, o.instrument, "SELL") + o.qty <= acct.held[o.instrument]
                       ELSE ReservedNotional(acct) + o.qty * o.limit <= acct.cash

\* Someone sends the broker an order, which it takes if the account bears it.
Place(cand) ==
    /\ Cardinality(submitted) < MaxOrders
    /\ \A r \in submitted : r.client # cand.client
    /\ Bears(Live, OrderOf(cand))
    /\ orders' = Append(orders, OrderOf(cand))
    /\ submitted' = submitted \cup
         {[client |-> cand.client, hash |-> cand.hash, instrument |-> cand.instrument,
           side |-> cand.side, at |-> now]}
    /\ verdict' = None
    /\ UNCHANGED <<now, cash, held, snap, request, switch>>

Fill(k) ==
    LET o == orders[k]
    IN  /\ held' = [held EXCEPT ![o.instrument] = IF o.side = "BUY" THEN @ + o.qty ELSE @ - o.qty]
        /\ cash' = IF o.side = "BUY" THEN cash - o.qty * o.limit ELSE cash + o.qty * o.limit
        /\ orders' = RemoveAt(orders, k)
        /\ verdict' = None
        /\ UNCHANGED <<now, submitted, snap, request, switch>>

Cancel(k) ==
    /\ orders' = RemoveAt(orders, k)
    /\ verdict' = None
    /\ UNCHANGED <<now, cash, held, submitted, snap, request, switch>>

TakeSnapshot ==
    /\ snap # Snapshot
    /\ snap' = Snapshot
    /\ verdict' = None
    /\ UNCHANGED <<now, account, request, switch>>

Tick ==
    /\ now < MaxTime
    /\ now' = now + 1
    /\ verdict' = None
    /\ UNCHANGED <<account, snap, request, switch>>

Operate ==
    \/ \E s \in Sources, on \in BOOLEAN : SetSource(s, on)
    \/ DrainAlerts

Pretrade ==
    \/ \E cand \in Candidates, recent \in {None, {}, submitted}, shown \in {None, {}, active} :
         Request(cand, recent, shown)
    \/ EvaluateRaises
    \/ \E feed \in Feeds, vol \in Volatilities, e \in Exposures, s \in Sessions : Evaluate(feed, vol, e, s)

Trade ==
    \/ \E cand \in Candidates : Place(cand)
    \/ \E k \in DOMAIN orders : Fill(k) \/ Cancel(k)

Next == Operate \/ Pretrade \/ Trade \/ TakeSnapshot \/ Tick

Spec == Init /\ [][Next]_vars

-----------------------------------------------------------------------------
(* Properties.                                                             *)

\* An account after some of these orders were filled at their limits.
Filled(acct, all, some) ==
    LET of(side) == SelectSeq([k \in DOMAIN all |-> [all[k] EXCEPT !.qty = IF k \in some THEN @ ELSE 0]],
                              LAMBDA o : o.side = side)
        shares(i, side) == Total(SelectSeq(of(side), LAMBDA o : o.instrument = i), LAMBDA o : o.qty)
        money(side) == Total(of(side), LAMBDA o : o.qty * o.limit)
    IN  [cash |-> acct.cash + money("SELL") - money("BUY"),
         held |-> [i \in Instruments |-> acct.held[i] + shares(i, "BUY") - shares(i, "SELL")]]

\* An approved order fits the account of the snapshot whichever of its open orders
\* are filled, the new one included: no share and no dollar is promised twice.
SafeToFill(v) ==
    LET all == Append(v.portfolio.orders, OrderOf(v.request.cand))
    IN  \A some \in SUBSET DOMAIN all :
          LET after == Filled(v.portfolio, all, some)
          IN  after.cash >= 0 /\ \A i \in Instruments : after.held[i] >= 0

\* The snapshot may be older than the last sell.  If the history the caller loaded
\* is the whole one, and the window is not shorter than the age a snapshot may have,
\* an approved sell is covered by the live account all the same.
CoveredLive(v) ==
    v.request.cand.side = "SELL" /\ v.request.recent = submitted /\ Limits.window >= Limits.skew
      => Bears(Live, OrderOf(v.request.cand))

\* What the gate approves is covered, on the snapshot it fetched and, for sells, on
\* the account that had moved on since (evaluate_pretrade, SideAndProductRule,
\* DuplicateSymbolSideWindowRule, OpenOrderConflictRule, MinCashReserveRule).
ApprovedIsCovered ==
    verdict # None /\ verdict.approved => SafeToFill(verdict) /\ CoveredLive(verdict)

\* Whoever drains the alerts and knew the configuration knows the switch: drained
\* and queued alerts, read in order, each fit what came before, a block names the
\* sources that were on, and together they give the sources that are on now
\* (kill_switch.py).
AlertsTruthful ==
    LET h == Heard(alerts, told)
    IN  h.fits /\ h.on = active

Dropped(c) ==
    {[c EXCEPT !.portfolio = None], [c EXCEPT !.volatility = None], [c EXCEPT !.exposure = None],
     [c EXCEPT !.switch = None], [c EXCEPT !.recent = None], [c EXCEPT !.client = None],
     [c EXCEPT !.hash = None]}

\* Before the trade no input is optional: whatever the rules approve, they
\* reject when any one input is missing.
FailsClosed ==
    request # None =>
      \A vol \in Volatilities, e \in Exposures, s \in Sessions, feed \in Fetched(request.cand) :
        LET c == Context(feed, vol, e, s)
        IN  Approved(c, PretradeCodes) => \A d \in Dropped(c) : ~Approved(d, PretradeCodes)
=============================================================================
