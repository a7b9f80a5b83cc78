--------------------------- MODULE MCPaperBroker ---------------------------
(***************************************************************************)
(* The brokers on small instances.  A behaviour is one of the paper        *)
(* broker, of the port of live writes, of the commands that bind a         *)
(* Robinhood account, of those that provision a Telegram Bot, of the       *)
(* Robinhood read client, or a question and an answer of the display       *)
(* commands.                                                               *)
(*                                                                         *)
(* The paper broker has two buys and two sells, and one id with a second   *)
(* request that is too dear.  The buys reserve all the cash; the fees of   *)
(* the buy of six, filled in two parts, exceed what it reserved, and then  *)
(* the other buy is short of cash.                                         *)
(***************************************************************************)
EXTENDS PaperBroker, LiveWrites, AccountBinding, TelegramProvisioning, TLC,
        Sequences

CONSTANTS r1, r2, c1, c2, c3, c4

VARIABLES
  part,
  gateway, replaced, opening, startup, reading,
  probe

readvars == <<gateway, replaced, opening, startup, reading>>

Buy(c, q, l, x) == [client |-> c, side |-> "BUY", instrument |-> "X", qty |-> q, limit |-> l, expires |-> x]
Sell(c, q, l, x) == [client |-> c, side |-> "SELL", instrument |-> "X", qty |-> q, limit |-> l, expires |-> x]
Quote(b, a, l) == [instrument |-> "X", bid |-> b, ask |-> a, liquidity |-> l]

ExactClients == 1..4
ExactRequests == {Buy(1, 4, 300, 2), Buy(1, 6, 150, 2), Buy(2, 1, 200, 2), Sell(3, 1, 100, 2),
                  Sell(4, 2, 200, 1)}
ExactQuotes == {Quote(100, 300, 2), Quote(400, 400, 2), Quote(200, 200, 1), Quote(100, 100, 5)}
-----------------------------------------------------------------------------
(* Provisions of both environments, a disable and a validation, with an    *)
(* answer of the gateway that binds and one that is refused.  Any two run  *)
(* beside each other, of the second provision and the validation just one. *)
Account(a, allowed, active) ==
  [account |-> a, allowed |-> allowed, active |-> active, wellformed |-> TRUE]

MCKindOf == c1 :> "provision" @@ c2 :> "provision" @@ c3 :> "disable" @@ c4 :> "validate"
MCEnvironmentOf == c1 :> "staging" @@ c2 :> "production" @@ c3 :> "staging" @@ c4 :> "staging"
MCAnswers == {<<Account("a", TRUE, TRUE), Account("b", FALSE, TRUE)>>, <<Account("a", TRUE, FALSE)>>}

AtMostTwoRun ==
  /\ Cardinality({c \in Commands : cmd[c].pc \notin {"start", "done", "failed", "killed"}}) <= 2
  /\ \E c \in {c2, c4} : cmd[c].pc \in {"start", "failed"}
-----------------------------------------------------------------------------
(* Each Bot has heard from one user privately; the other user, or a group, *)
(* is known to it only from updates that do not count.                     *)
Hello(u, c) ==
  [carries |-> "message", type |-> "private", text |-> TRUE, service |-> FALSE, user |-> u, chat |-> c]

MCAsks ==
  c1 :> ({"add", "rotate", "disable"} \X {"staging"} \cup {<<"add", "production">>})
  @@ c4 :> {<<"validate", "staging">>}
MCBotOf == [t1 |-> "b1", t2 |-> "b1", t3 |-> "b2"]
MCInbox ==
  [b1 |-> {Hello(1, 1), [Hello(2, 2) EXCEPT !.service = TRUE], [Hello(1, -3) EXCEPT !.type = "group"]},
   b2 |-> {Hello(2, 2), [Hello(1, 1) EXCEPT !.carries = "edited_message"]}]
-----------------------------------------------------------------------------
(* The gateway of the reviewed release, one that withdrew a capability,    *)
(* one that is not ready and one whose digest is not the one expected.     *)
MCPins ==
  [package |-> "v", wheel |-> "w", projection |-> <<"get_a", "get_b">>, entries |-> 6,
   reads |-> {"get_a", "get_b", "get_x"}, mutations |-> {"watch"}, trading |-> {"place"},
   alerts |-> {}, sec |-> {"sec"}, quiet |-> {}, versions |-> {"1"}, manifest |-> "m",
   envelope |-> "e"]

Entry(n, allowed, mutates) ==
  [name |-> n, allowed |-> allowed, mutates |-> mutates, wellformed |-> TRUE]

Listing ==
  <<Entry("get_a", TRUE, FALSE), Entry("get_b", TRUE, FALSE), Entry("get_x", TRUE, FALSE),
    Entry("watch", TRUE, TRUE), Entry("place", FALSE, TRUE), Entry("sec", FALSE, FALSE)>>

Ready == [shape |-> "document", version |-> "1", digest |-> "m", expected |-> "m", ready |-> TRUE]

MCGateways ==
  {[listing |-> Listing, readiness |-> Ready],
   [listing |-> [Listing EXCEPT ![1].mutates = TRUE],
    readiness |-> [Ready EXCEPT !.digest = "n", !.expected = "n"]],
   [listing |-> Listing, readiness |-> [Ready EXCEPT !.ready = FALSE]],
   [listing |-> Listing, readiness |-> [Ready EXCEPT !.digest = "n"]]}

Install == [present |-> TRUE, version |-> "v", url |-> "archive",
            archive |-> [hashes |-> "w", legacy |-> None]]

MCInstalls ==
  {Install, [Install EXCEPT !.present = FALSE], [Install EXCEPT !.version = "u"],
   [Install EXCEPT !.url = None], [Install EXCEPT !.url = "vcs"],
   [Install EXCEPT !.archive.hashes = None], [Install EXCEPT !.archive.hashes = "x"],
   [Install EXCEPT !.archive = [hashes |-> None, legacy |-> "w"]]}

Envelope(c) ==
  [shape |-> "document", version |-> "e", manifest |-> "1", capability |-> c, digests |-> TRUE,
   observed |-> TRUE, warnings |-> "bounded",
   data |-> [object |-> TRUE, walk |-> "fits", paths |-> {<<"data", "a">>, <<"data", "guide", "b">>}]]

MCEnvelopes ==
  {Envelope("get_a"), Envelope("get_b"), [Envelope("get_a") EXCEPT !.data.walk = "payload_too_deep"],
   [Envelope("get_a") EXCEPT !.warnings = "many"], [Envelope("get_a") EXCEPT !.shape = "no_document"]}

Reads == INSTANCE RobinhoodReads WITH
  Readers <- {r1, r2}, Installs <- MCInstalls,
  Options <- {"allow_mutations", "expected_manifest_digest", "mode"}, Gateways <- MCGateways,
  Envelopes <- MCEnvelopes, GatewayErrors <- {"timeout", "odd"}, Pins <- MCPins, MaxReplaced <- 2
-----------------------------------------------------------------------------
(* Questions of the display commands with up to two rows of each kind in   *)
(* the answer, about the symbols asked for and about others.               *)
Display == INSTANCE RobinhoodDisplay

Capability ==
  "quotes" :> "get_equity_quotes" @@ "price-book" :> "get_equity_price_book"
  @@ "tradability" :> "get_equity_tradability" @@ "historicals" :> "get_equity_historicals"
  @@ "fundamentals" :> "get_equity_fundamentals" @@ "financials" :> "get_financials"
  @@ "orders" :> "get_equity_orders"

UpTo(n, S) == UNION {[1..k -> S] : k \in 0..n}
Read(c, rows, absent) ==
  [capability |-> Capability[c], wrapped |-> TRUE, observed |-> 5, rows |-> rows, absent |-> absent]

AboutSymbols(c, Rows) ==
  {[q |-> [command |-> c, symbols |-> s, interval |-> "day", bounds |-> "regular", limit |-> 1,
           period |-> "annual"],
    read |-> Read(c, rows, absent)] :
     s \in {<<"A">>, <<"A", "B">>, <<"A", "A">>}, rows \in UpTo(2, Rows),
     absent \in IF c = "quotes" THEN {<<>>} ELSE {<<>>, <<"B">>, <<"B", "A">>}}

QuoteRows ==
  {[symbol |-> s, close |-> c, fault |-> None, bid |-> 1, ask |-> 1, bid_at |-> 3, ask_at |-> 3,
    last_at |-> 3, traded |-> TRUE, state |-> "active"] : s \in {"A", "B"}, c \in {"A", None}}
BookRows ==
  {[symbol |-> s, fault |-> None, bids |-> b, asks |-> <<2, 3>>, updated |-> 5] :
     s \in {"A", "B", "C"}, b \in {<<2, 1>>, <<1, 2>>}}
TradabilityRows ==
  {[symbol |-> s, fault |-> None, halt_start |-> 1, halt_end |-> 2, account_types |-> <<>>,
    halt_sessions |-> <<>>] : s \in {"A", "B"}}
HistoryRows ==
  {[symbol |-> s, fault |-> None, interval |-> i, bounds |-> "regular",
    bars |-> <<[at |-> 1, open |-> 1, high |-> 2, low |-> 1, close |-> 2, volume |-> 1,
                interpolated |-> FALSE]>>] : s \in {"A", "B"}, i \in {"day", "week"}}
FundamentalRows ==
  {[symbol |-> s, fault |-> None, bounds |-> "regular", market_date |-> 4, facts |-> {"open"}] :
     s \in {"A", "B"}}
FinancialRows ==
  {[symbol |-> s, fault |-> None, period |-> "annual",
    periods |-> <<[end |-> 4, end_year |-> 1, year |-> y, quarter |-> None]>>] :
     s \in {"A", "B"}, y \in {2, 3}}
Execution(n) == [id |-> n, quantity |-> 1, at |-> n]
OrderRow(id, state, filled, executions) ==
  [id |-> id, instrument |-> "nA", symbol |-> "A", state |-> state, quantity |-> 2, dollars |-> None,
   filled |-> filled, created |-> 1, last |-> 4, type |-> "limit", limit |-> 1, stop |-> None,
   agent |-> "x", executions |-> executions, fault |-> None]
OrderRows ==
  {OrderRow(i, st, f, e) : i \in {"o1", "o2"}, st \in {"filled", "new"}, f \in {1, 2},
     e \in {<<Execution(2)>>, <<Execution(2), Execution(3)>>}}
  \cup {[OrderRow(i, st, n, IF n = 0 THEN <<>> ELSE <<Execution(2), Execution(3)>>) EXCEPT
            !.symbol = s, !.created = c, !.agent = a] :
           i \in {"o1", "o2"}, st \in {"filled", "cancelled", "new"}, n \in {0, 2}, s \in {"A", "B"},
           c \in {1, 2}, a \in {"x", "y"}}
OrderQuestions ==
  {[symbol |-> "A"], [order_id |-> "o1"], [state |-> "filled"], [state |-> "new"],
   [placed_agent |-> "x"], [created_at_gte |-> 2], [created_at_gte |-> None], [side |-> "buy"],
   [symbol |-> "A", placed_agent |-> "y"]}

Questions ==
  AboutSymbols("quotes", QuoteRows) \cup AboutSymbols("price-book", BookRows)
  \cup AboutSymbols("tradability", TradabilityRows) \cup AboutSymbols("historicals", HistoryRows)
  \cup AboutSymbols("fundamentals", FundamentalRows) \cup AboutSymbols("financials", FinancialRows)
  \cup {[q |-> [command |-> "orders", view |-> v, filters |-> f], read |-> Read("orders", rows, <<>>)] :
          v \in {"open", "closed"}, f \in OrderQuestions,
          rows \in UpTo(2, OrderRows)}
-----------------------------------------------------------------------------
MCInit ==
  /\ part \in {"paper", "live", "binding", "bots", "reads", "display"}
  /\ Init /\ LiveInit /\ BindInit /\ ProvInit
  /\ \/ part = "reads" /\ Reads!ReadInit
     \/ /\ part # "reads" /\ gateway = None /\ replaced = None /\ opening = None
        /\ startup = None /\ reading = None
  /\ \/ part = "display" /\ probe \in Questions
     \/ part # "display" /\ probe = None

MCNext ==
  /\ UNCHANGED <<part, probe>>
  /\ \/ part = "paper" /\ Next
     \/ part # "paper" /\ UNCHANGED vars
  /\ \/ part = "live" /\ LiveNext
     \/ part # "live" /\ UNCHANGED livevars
  /\ \/ part = "binding" /\ BindNext /\ AtMostTwoRun'
     \/ part # "binding" /\ UNCHANGED bindvars
  /\ \/ part = "bots" /\ ProvNext
     \/ part # "bots" /\ UNCHANGED provvars
  /\ \/ part = "reads" /\ Reads!ReadNext
     \/ part # "reads" /\ UNCHANGED readvars

MCSpec == MCInit /\ [][MCNext]_<<part, vars, livevars, bindvars, provvars, readvars, probe>>
-----------------------------------------------------------------------------
(* ReadsPinned of RobinhoodReads: what a read returns came from a gateway  *)
(* that ran the pinned manifest, answers the capability asked for and      *)
(* carries no provider prose (RobinhoodReadClient._read).                  *)
ReadsPinned == part = "reads" => Reads!ReadsPinned

(* AnswersTheQuestion of RobinhoodDisplay: what is shown is about the      *)
(* symbols, view and filters asked for, each once (RobinhoodDisplayService). *)
AnswersTheQuestion == part = "display" => Display!AnswersTheQuestion(probe.q, probe.read)
=============================================================================
