------------------------------ MODULE PaperFlow ------------------------------
(***************************************************************************)
(* One run of the paper loop (orchestrator/paper_loop.py): strategy,       *)
(* aggregation, sizing, proposal-time risk, approval, pre-trade risk,      *)
(* submit through the dispatcher, a market event, reconciliation and the   *)
(* ledger.  The run is sequential; what varies is its configuration, which *)
(* is chosen at the start.  Each numbered step of the code is an action,   *)
(* with the transitions it makes.                                          *)
(*                                                                         *)
(* A configuration holds the research and the state the strategy sees (or  *)
(* None where the worker fails), the quote, the portfolio, volatility,     *)
(* exposure, session, the choices of the approver, the market's liquidity, *)
(* the opening cash and the write port: "LOCAL" for the paper broker, else *)
(* what another port answers.                                              *)
(***************************************************************************)
EXTENDS RiskRules, PositionSizer, PaperCosts, OrderLifecycle

CONSTANTS
    Configs,
    Metadata,        \* InstrumentMetadata by instrument
    Symbols,         \* in their sorted order
    TargetWeight, SignalTtl, ApprovalTtl,
    Now              \* as_of of the run

Aggregation == INSTANCE SignalAggregation
Match == INSTANCE OrderMatching WITH Fills <- {}, OrderId <- [n \in {1} |-> "broker order"]

ASSUME ApprovalTtlPositive == ApprovalTtl > 0

VARIABLES
    cfg,        \* PaperFlowConfig
    pc,         \* the next step, or "done" or "raised"
    signal,     \* the selected signal
    cand,       \* the sized candidate, later the proposal
    answer,     \* the outcome of the ExecuteOrder command, None before
    noted,      \* the broker order id the command's event carries
    broker,     \* the local paper broker, None before it is made
    report,     \* the last reconciliation outcome
    book,       \* the ledger after the final reconciliation
    terminal    \* PaperFlowTerminal

vars == <<cfg, pc, signal, cand, answer, noted, broker, report, book, terminal, order, visited>>

Init ==
    /\ cfg \in Configs
    /\ pc = "evaluate"
    /\ signal = None
    /\ cand = None
    /\ answer = None
    /\ noted = None
    /\ broker = None
    /\ report = None
    /\ book = None
    /\ terminal = None
    /\ LifecycleInit

Goto(step) == pc' = step /\ terminal' = terminal
Finish(t) == pc' = "done" /\ terminal' = t
Raise == pc' = "raised" /\ terminal' = terminal

\* _transition: a move that the lifecycle does not allow would stop the run here.
Move(target) == Enter(target)

-----------------------------------------------------------------------------
(* Steps 1 to 5: from the strategy to the risk decision.                   *)

\* The reference strategy (strategies/reference/moving_average): one signal from
\* the fast and the slow average and the relation remembered from the last
\* evaluation.  A sell carries no target weight.
\* evaluate's intent: a crossing since the last evaluation, else HOLD.
Intent(r) ==
    IF r.fast = None \/ r.slow = None \/ r.before = None THEN "HOLD"
    ELSE IF r.fast > r.slow /\ r.before = "BELOW" THEN "BUY"
    ELSE IF r.fast <= r.slow /\ r.before = "ABOVE" THEN "SELL"
    ELSE "HOLD"

\* _signal
Signal(r) ==
    [id |-> 1, symbol |-> r.symbol, intent |-> Intent(r),
     weight |-> IF Intent(r) = "BUY" THEN TargetWeight ELSE None,
     strength |-> CASE Intent(r) = "BUY" -> 1 [] Intent(r) = "SELL" -> -1 [] OTHER -> 0,
     strategy |-> "moving_average", version |-> 1,
     generated |-> r.at, expires |-> r.at + SignalTtl]

Signals == {Signal(cfg.research)}

EvaluateStrategy ==
    /\ pc = "evaluate"
    /\ IF cfg.research = None THEN Finish("FAILED") ELSE Goto("aggregate")
    /\ UNCHANGED <<cfg, signal, cand, answer, noted, broker, report, book, lifecycle>>

AggregateSignals ==
    /\ pc = "aggregate"
    /\ \E chosen \in {Aggregation!Chosen(Signals, Now)} :
         IF chosen = <<>> THEN Finish("FAILED") /\ signal' = signal
                          ELSE Goto("size") /\ signal' = Head(chosen)
    /\ UNCHANGED <<cfg, cand, answer, noted, broker, report, book, lifecycle>>

\* CandidateOrder takes equities and ETFs only and raises on another asset.
SizePosition ==
    /\ pc = "size"
    /\ IF SizeReason(signal, cfg.quote, cfg.portfolio, Now) # "SIZED_TO_TARGET_WEIGHT"
         THEN Finish("FAILED") /\ cand' = cand
       ELSE IF cfg.quote.asset \notin {"EQUITY", "ETF"}
         THEN Raise /\ cand' = cand
       ELSE Goto("risk") /\ cand' = Candidate(signal, cfg.quote, cfg.portfolio)
    /\ UNCHANGED <<cfg, signal, answer, noted, broker, report, book, lifecycle>>

\* Without exposure inputs the run's instrument has a sector and the others none.
Exposure ==
    IF cfg.exposure # None THEN cfg.exposure
    ELSE [sectors |-> [i \in Instruments |-> IF i = cfg.meta THEN "TECH" ELSE None], turnover |-> 0,
          realized |-> 0, unrealized |-> 0]

\* The same quote and the same portfolio in both phases, and the switch is off.
Context(phase) ==
    [phase |-> phase, now |-> Now, cand |-> cand, meta |-> Metadata[cfg.meta],
     quote |-> cfg.quote, session |-> cfg.session, portfolio |-> cfg.portfolio,
     volatility |-> cfg.volatility, exposure |-> Exposure, switch |-> {},
     recent |-> IF phase = "PRETRADE" THEN {} ELSE None,
     client |-> IF phase = "PRETRADE" THEN "client" ELSE None,
     hash |-> IF phase = "PRETRADE" THEN "hash" ELSE None]

Cleared(phase, codes) == \E c \in {Context(phase)} : Approved(c, codes)

EvaluateRisk ==
    /\ pc = "risk"
    /\ \/ Cleared("PROPOSAL", DefaultCodes) /\ Goto("propose") /\ UNCHANGED lifecycle
       \/ ~Cleared("PROPOSAL", DefaultCodes) /\ Move("RISK_REJECTED") /\ Finish("RISK_REJECTED")
    /\ UNCHANGED <<cfg, signal, cand, answer, noted, broker, report, book>>

-----------------------------------------------------------------------------
(* Steps 6 to 8: proposal, approval, pre-trade.                            *)

CreateProposal ==
    /\ pc = "propose"
    /\ Move("PROPOSAL_CREATED")
    /\ Goto("challenge")
    /\ UNCHANGED <<cfg, signal, cand, answer, noted, broker, report, book>>

\* Without an injected approval the run ends with the challenge pending.
CreateChallenge ==
    /\ pc = "challenge"
    /\ Move("APPROVAL_PENDING")
    /\ IF cfg.approve THEN Goto("consume") ELSE Finish("APPROVAL_PENDING")
    /\ UNCHANGED <<cfg, signal, cand, answer, noted, broker, report, book>>

ConsumedAt == IF cfg.expire THEN Now + ApprovalTtl + 1 ELSE Now
ApprovalExpired == ConsumedAt >= Now + ApprovalTtl

\* consume_challenge with approved = TRUE: an expired challenge never becomes APPROVED.
ConsumeOutcome == IF ApprovalExpired THEN "EXPIRED" ELSE "APPROVED"

\* Mutant: the challenge is consumed whenever the approver answers.
ConsumeChallengeAnyTime ==
    /\ pc = "consume"
    /\ Move("APPROVED")
    /\ Goto("pretrade")
    /\ UNCHANGED <<cfg, signal, cand, answer, noted, broker, report, book>>

ConsumeChallenge ==
    /\ pc = "consume"
    /\ \/ ConsumeOutcome = "EXPIRED" /\ Move("APPROVAL_EXPIRED") /\ Finish("APPROVAL_EXPIRED")
       \/ ConsumeOutcome = "APPROVED" /\ Move("APPROVED") /\ Goto("pretrade")
    /\ UNCHANGED <<cfg, signal, cand, answer, noted, broker, report, book>>

\* _reject_stale_snapshot, of the quote and of the portfolio.
Fresh(at) == at <= Now /\ Now - at <= Limits.skew

EvaluatePretrade ==
    /\ pc = "pretrade"
    /\ \/ /\ ~(Fresh(cfg.quote.received) /\ Fresh(cfg.portfolio.at))
          /\ Raise /\ UNCHANGED lifecycle
       \/ /\ Fresh(cfg.quote.received) /\ Fresh(cfg.portfolio.at)
          /\ IF Cleared("PRETRADE", PretradeCodes)
               THEN Goto("submit") /\ UNCHANGED lifecycle
               ELSE Move("PRE_TRADE_REJECTED") /\ Finish("PRE_TRADE_REJECTED")
    /\ UNCHANGED <<cfg, signal, cand, answer, noted, broker, report, book>>

-----------------------------------------------------------------------------
(* Step 9: submit.                                                         *)

\* A paper broker with the portfolio's cash, no positions and no orders.
OpenedBroker(cash) == [cash |-> cash, held |-> 0, status |-> None, filled |-> 0, price |-> 0]

Submitting ==
    /\ pc = "submit"
    /\ IF cfg.portfolio.cash # cfg.opening
         THEN Finish("FAILED") /\ UNCHANGED <<broker, lifecycle>>
         ELSE Move("SUBMITTING") /\ Goto("execute") /\ broker' = OpenedBroker(cfg.opening)
    /\ UNCHANGED <<cfg, signal, cand, answer, noted, report, book>>

\* Mutant: cash that is just enough is refused.
LocalAcceptsStrict ==
    IF cand.side = "BUY" THEN Need(cand) < broker.cash ELSE cand.qty <= broker.held

\* PaperBroker.submit for its first order.
LocalAccepts ==
    IF cand.side = "BUY" THEN Need(cand) <= broker.cash ELSE cand.qty <= broker.held

PortAnswer == IF cfg.port # "LOCAL" THEN cfg.port ELSE IF LocalAccepts THEN "ACCEPTED" ELSE "REJECTED"

\* Mutant: an outcome that is not known counts as a refusal.
OutcomeUnknownRefused(a) ==
    CASE a = "ACCEPTED" -> "SUCCEEDED"
      [] OTHER -> "REJECTED"

\* _handle_execute: BrokerUnknownOutcomeError and UNKNOWN, with or without an order
\* that was seen, are one outcome.
Outcome(a) ==
    CASE a = "ACCEPTED" -> "SUCCEEDED"
      [] a = "REJECTED" -> "REJECTED"
      [] a \in {"UNKNOWN", "UNKNOWN_WITH_ORDER", "RAISES_UNKNOWN"} -> "SUBMIT_UNKNOWN"

\* BrokerSubmitRequest binds a paper approval to a paper account, and raises
\* otherwise; so does a port that fails in another way.
ExecuteOrder ==
    /\ pc = "execute"
    /\ \/ /\ cfg.portfolio.scope # "PAPER" \/ PortAnswer = "RAISES"
          /\ Raise
          /\ UNCHANGED <<answer, noted, broker>>
       \/ /\ cfg.portfolio.scope = "PAPER" /\ PortAnswer # "RAISES"
          /\ Goto("answered")
          /\ answer' = Outcome(PortAnswer)
          /\ noted' = IF PortAnswer \in {"ACCEPTED", "UNKNOWN_WITH_ORDER"} THEN "broker order" ELSE None
          /\ broker' = IF cfg.port = "LOCAL" /\ LocalAccepts THEN [broker EXCEPT !.status = "ACCEPTED"] ELSE broker
    /\ UNCHANGED <<cfg, signal, cand, report, book, lifecycle>>

SubmitUnknown ==
    /\ pc = "answered" /\ answer = "SUBMIT_UNKNOWN"
    /\ Move("SUBMIT_UNKNOWN")
    /\ Goto("reconcile unknown")
    /\ UNCHANGED <<cfg, signal, cand, answer, noted, broker, report, book>>

Reconciling ==
    /\ pc = "reconcile unknown"
    /\ Move("RECONCILING")
    /\ Goto("compare unknown")
    /\ UNCHANGED <<cfg, signal, cand, answer, noted, broker, report, book>>

\* The broker's orders, as get_orders lists them.
BrokerOrders ==
    IF broker.status = None THEN {}
    ELSE {[id |-> "broker order", client |-> "client", side |-> cand.side, status |-> broker.status]}

Expectation ==
    [client |-> "client", side |-> cand.side, qty |-> cand.qty, limit |-> cand.limit,
     lifecycle |-> order, id |-> noted, known |-> {}, filled |-> 0]

\* _handle_reconcile compares with the orders of the local broker, to which an
\* order whose outcome is unknown was never sent.
CompareUnknown ==
    /\ pc = "compare unknown"
    /\ LET review == \/ Match!Missing(Expectation, BrokerOrders)
                     \/ Match!Codes(Expectation, Match!BrokerOrder(Expectation, BrokerOrders),
                                    BrokerOrders, <<>>) # {}
       IN  /\ report' = IF review THEN "MANUAL_REVIEW" ELSE "MATCHED"
           /\ Move(IF review THEN "MANUAL_REVIEW" ELSE "SUBMITTED")
    /\ Finish("SUBMIT_UNKNOWN")
    /\ UNCHANGED <<cfg, signal, cand, answer, noted, broker, book>>

\* A refusal is recorded as SUBMITTED and then REJECTED.
SubmitRejected ==
    /\ pc = "answered" /\ answer = "REJECTED"
    /\ Move("SUBMITTED")
    /\ Goto("rejected")
    /\ UNCHANGED <<cfg, signal, cand, answer, noted, broker, report, book>>

RecordRejected ==
    /\ pc = "rejected"
    /\ Move("REJECTED")
    /\ Finish("FAILED")
    /\ UNCHANGED <<cfg, signal, cand, answer, noted, broker, report, book>>

\* Fills come from the local broker only.
SubmitAccepted ==
    /\ pc = "answered" /\ answer = "SUCCEEDED"
    /\ \/ cfg.port # "LOCAL" /\ Finish("FAILED") /\ UNCHANGED lifecycle
       \/ cfg.port = "LOCAL" /\ Move("SUBMITTED") /\ Goto("market")
    /\ UNCHANGED <<cfg, signal, cand, answer, noted, broker, report, book>>

-----------------------------------------------------------------------------
(* Steps 10 and 11: the market event, reconciliation, the ledger.          *)

Or(x, y) == IF x # None THEN x ELSE y
MarketEvent ==
    [bid |-> Or(cfg.quote.bid, cfg.quote.last), ask |-> Or(cfg.quote.ask, cfg.quote.last),
     liquidity |-> cfg.liquidity]

FillQty == IF Marketable(cand, MarketEvent) THEN Least(cand.qty, cfg.liquidity) ELSE 0

\* inject_market_event on the one working order.
Traded ==
    LET price == FillPrice(cand, MarketEvent)
    IN  [cash |-> IF cand.side = "BUY" THEN broker.cash - Debit(FillQty, price)
                                       ELSE broker.cash + Proceeds(FillQty, price),
         held |-> IF cand.side = "BUY" THEN broker.held + FillQty ELSE broker.held - FillQty,
         status |-> IF FillQty = cand.qty THEN "FILLED" ELSE "PARTIALLY_FILLED",
         filled |-> FillQty, price |-> price]

InjectMarketEvent ==
    /\ pc = "market"
    /\ Goto("reconcile")
    /\ IF FillQty = 0
         THEN UNCHANGED <<broker, lifecycle>>
         ELSE broker' = Traded /\ Move(Traded.status)
    /\ UNCHANGED <<cfg, signal, cand, answer, noted, report, book>>

\* Mutant: the fee is taken on the order instead of on its fill.
FeeForOrder == Fee(cand.qty * cand.limit)

\* _fee_for_fill
FeeForFill == Money(broker.filled * broker.price * FeeBps, 10000)

BrokerFills ==
    IF broker.filled = 0 THEN <<>>
    ELSE <<[id |-> 1, side |-> cand.side, instrument |-> cand.instrument, qty |-> broker.filled,
            price |-> broker.price, fee |-> FeeForFill, at |-> Now + 1, foreign |-> FALSE]>>

\* Mutant: any fill counts as the whole.
FillTerminalAny ==
    CASE broker.status \in {"FILLED", "PARTIALLY_FILLED"} -> "FILLED"
      [] OTHER -> "FAILED"

\* The terminal that the broker order's status gives.
FillTerminal ==
    CASE broker.status = "FILLED" -> "FILLED"
      [] broker.status = "PARTIALLY_FILLED" -> "PARTIALLY_FILLED"
      [] OTHER -> "FAILED"

\* reconcile with a ledger: new fills are posted if nothing contradicts.
Reconcile ==
    /\ pc = "reconcile"
    /\ LET opened == Match!Opened(cfg.opening)
           o == Match!BrokerOrder(Expectation, BrokerOrders)
           clean == Match!Codes(Expectation, o, BrokerOrders, BrokerFills) = {}
           posted == Match!PostAll(opened, Match!NewFills(Expectation, o, BrokerFills))
       IN  /\ report' = IF clean /\ posted.ok THEN "MATCHED" ELSE "MANUAL_REVIEW"
           /\ book' = IF clean /\ posted.ok THEN posted.book ELSE opened
    /\ Finish(FillTerminal)
    /\ UNCHANGED <<cfg, signal, cand, answer, noted, broker, lifecycle>>

-----------------------------------------------------------------------------

Next ==
    \/ EvaluateStrategy
    \/ AggregateSignals
    \/ SizePosition
    \/ EvaluateRisk
    \/ CreateProposal
    \/ CreateChallenge
    \/ ConsumeChallenge
    \/ EvaluatePretrade
    \/ Submitting
    \/ ExecuteOrder
    \/ SubmitUnknown
    \/ Reconciling
    \/ CompareUnknown
    \/ SubmitRejected
    \/ RecordRejected
    \/ SubmitAccepted
    \/ InjectMarketEvent
    \/ Reconcile

Spec == Init /\ [][Next]_vars

-----------------------------------------------------------------------------
(* Properties.                                                             *)

Ended == pc \in {"done", "raised"}

\* What was submitted was approved in time, on an open market, on a quote and a
\* portfolio that were fresh, with no open order of its instrument: whatever the
\* configuration, no path of the loop leads around a gate.
SubmittedWasCleared ==
    "SUBMITTING" \in visited =>
      /\ cfg.approve /\ ~cfg.expire
      /\ cfg.session = "OPEN"
      /\ Now - cfg.portfolio.at \in 0..Limits.skew
      /\ Now - cfg.quote.observed \in 0..Limits.quality["PRETRADE"].age
      /\ cfg.volatility <= Limits.quality["PRETRADE"].volatility
      /\ \A k \in DOMAIN cfg.portfolio.orders :
           cfg.portfolio.orders[k].instrument # cand.instrument

\* An order that sizing and both risk evaluations let through is refused by the
\* paper broker only because they leave its fee out of account.
RefusedForFeeOnly ==
    answer = "REJECTED" /\ cfg.port = "LOCAL" =>
      cand.qty * cand.limit <= cfg.opening /\ cfg.opening < Need(cand)

\* A submit whose outcome is unknown, and only such a submit, ends with a person:
\* never as a refusal and never as a fill.
UnknownIsReviewed ==
    pc = "done" /\ "SUBMITTING" \in visited =>
      ((cfg.port \in {"UNKNOWN", "UNKNOWN_WITH_ORDER", "RAISES_UNKNOWN"})
         <=> (terminal = "SUBMIT_UNKNOWN" /\ order = "MANUAL_REVIEW"))

\* The result, the lifecycle and the broker tell the same story, and a run that
\* failed has bought nothing.
ResultTruthful ==
    pc = "done" /\ broker # None =>
      /\ (terminal = "FILLED") <=> (order = "FILLED" /\ broker.filled = cand.qty)
      /\ (terminal = "PARTIALLY_FILLED") <=>
           (order = "PARTIALLY_FILLED" /\ broker.filled \in 1..(cand.qty - 1))
      /\ terminal \notin {"FILLED", "PARTIALLY_FILLED"} => broker.filled = 0

\* The ledger, posted from the broker's fills with fees computed anew, ends with the
\* broker's cash and shares and is conserved.
LedgerAgrees ==
    book # None =>
      /\ report = "MATCHED"
      /\ book.cash = broker.cash
      /\ book.qty[cand.instrument] = broker.held
      /\ Match!Drift(book, cfg.opening) = 0

\* The result, the lifecycle, the broker and the ledger of a finished run tell one
\* story, for a submit that fails, is refused or stays unknown too (run_paper_flow).
StoriesAgree == RefusedForFeeOnly /\ UnknownIsReviewed /\ ResultTruthful /\ LedgerAgrees
=============================================================================
