----------------------------- MODULE MCPaperFlow -----------------------------
(***************************************************************************)
(* A finite instance of the paper loop, and of what is around it: the      *)
(* durable transitions of a cancel command, start-up, secrets and the      *)
(* Telegram queries.  They share no state; a behaviour takes the steps of  *)
(* one.                                                                    *)
(***************************************************************************)
EXTENDS PaperFlow, DurableTransitions, TLC

VARIABLES
  part,
  boot,
  provider, store, asking, told, handed,
  runner, clock, window, inflight, task, replies, replays, retries

secretvars == <<provider, store, asking, told, handed>>
queryvars == <<runner, clock, window, inflight, task, replies, replays, retries>>
-----------------------------------------------------------------------------
(* One share class to trade and another that may be held.  A base          *)
(* configuration that goes through, and variations of each of its inputs:  *)
(* of what the strategy sees alone, of market, account and limits          *)
(* together, and of the approval, the port and the market with the best of *)
(* the rest.                                                               *)

MCInstruments == {"X", "Y"}
Company(i) == [instrument |-> i, symbol |-> i, venue |-> "XNAS", asset |-> "EQUITY"]
MCListing == [i \in MCInstruments |-> Company(i)]
MCCurrencyOf == [v \in {"XNAS"} |-> "USD"]
MCSizing == [lot |-> 1, tick |-> 2, min |-> 5, max |-> 50, reserve |-> 1]
MCSymbols == <<"X", "Y">>
MCLimits ==
    [allowlist |-> {Company("X")},
     quality |-> [p \in {"PROPOSAL", "PRETRADE"} |->
                    [age |-> 2, spread |-> 3000, deviation |-> 2000,
                     volatility |-> IF p = "PROPOSAL" THEN 50 ELSE 20]],
     skew |-> 1, window |-> 1, notional |-> 60, symbol |-> 1000, sector |-> 1000, turnover |-> 100,
     reserve |-> 0, loss |-> 10]
MCMetadata ==
    [i \in MCInstruments |->
       [instrument |-> i, symbol |-> i, venue |-> "XNAS", asset |-> "EQUITY",
        increments |-> [lot |-> 1, tick |-> 2], tradable |-> TRUE, option |-> FALSE, crypto |-> FALSE,
        margin |-> FALSE, leveraged |-> FALSE]]

MCNow == 5

Seen(fast, slow, before, at) == [symbol |-> "X", fast |-> fast, slow |-> slow, before |-> before, at |-> at]
Crossing == Seen(2, 1, "BELOW", MCNow)
Research ==
    {None, Seen(None, 1, "BELOW", MCNow), Seen(2, 1, None, MCNow), Seen(2, 1, "ABOVE", MCNow),
     Seen(1, 2, "ABOVE", MCNow), Seen(2, 1, "BELOW", MCNow - 4)}

Quote(bid, ask, observed, received) ==
    [instrument |-> "X", symbol |-> "X", venue |-> "XNAS", asset |-> "EQUITY", bid |-> bid, ask |-> ask,
     last |-> 10, observed |-> observed, received |-> received, delayed |-> FALSE, stale |-> FALSE]
Market == Quote(9, 10, MCNow, MCNow)
Quotes ==
    {Market, Quote(10, 10, MCNow, MCNow), Quote(None, None, MCNow, MCNow), Quote(5, 10, MCNow, MCNow),
     Quote(8, 10, MCNow, MCNow), Quote(10, 11, MCNow, MCNow),
     Quote(9, 10, MCNow - 3, MCNow), Quote(9, 10, MCNow - 2, MCNow - 2), Quote(9, 10, MCNow, MCNow + 1),
     [Market EXCEPT !.asset = "CRYPTO"]}

Account(cash, power, x, y, orders, scope, at) ==
    [scope |-> scope, currency |-> "USD", cash |-> cash, power |-> power, orders |-> orders, at |-> at,
     held |-> [i \in MCInstruments |-> IF i = "X" THEN x ELSE y],
     value |-> [i \in MCInstruments |-> IF i = "X" THEN x * 10 ELSE y * 5]]
OpenBuy(i) == <<[instrument |-> i, side |-> "BUY", qty |-> 1, limit |-> 10]>>
Opening == 43
Base == Account(Opening, Opening, 0, 0, <<>>, "PAPER", MCNow)
Accounts ==
    {Base, Account(Opening, Opening, 1, 0, <<>>, "PAPER", MCNow),
     Account(Opening, Opening, 0, 1, <<>>, "PAPER", MCNow),
     Account(Opening, Opening - 10, 0, 0, OpenBuy("X"), "PAPER", MCNow),
     Account(Opening, Opening - 10, 0, 0, OpenBuy("Y"), "PAPER", MCNow),
     Account(Opening, Opening, 0, 0, <<>>, "PAPER", MCNow - 2),
     Account(Opening, Opening, 0, 0, <<>>, "AGENTIC", MCNow), Account(42, 42, 0, 0, <<>>, "PAPER", MCNow),
     Account(41, 41, 0, 0, <<>>, "PAPER", MCNow), Account(20, 40, 2, 0, <<>>, "PAPER", MCNow)}

Known == [sectors |-> [i \in MCInstruments |-> "TECH"], turnover |-> 0, realized |-> 0, unrealized |-> 0]

Configuration(research, quote, portfolio, exposure, volatility, session, approval, port, liquidity, opening) ==
    [research |-> research, quote |-> quote, portfolio |-> portfolio, meta |-> "X", exposure |-> exposure,
     volatility |-> volatility, session |-> session, approve |-> approval # "NONE",
     expire |-> approval = "LATE", port |-> port, liquidity |-> liquidity, opening |-> opening]

Ports == {"LOCAL", "ACCEPTED", "REJECTED", "UNKNOWN", "UNKNOWN_WITH_ORDER", "RAISES_UNKNOWN", "RAISES"}

BaseConfig == Configuration(Crossing, Market, Base, None, 10, "OPEN", "GIVEN", "LOCAL", 10, Opening)

MCConfigs ==
    {Configuration(r, Market, Base, None, 10, "OPEN", "GIVEN", "LOCAL", 10, Opening) : r \in Research}
    \cup
    {Configuration(Crossing, q, a, e, v, s, "GIVEN", "LOCAL", l, a.cash) :
       q \in Quotes, a \in Accounts, e \in {None, Known, [Known EXCEPT !.turnover = 90]},
       v \in {10, 30, 60}, s \in {"OPEN", "CLOSED"}, l \in {1, 10}}
    \cup
    {Configuration(Crossing, q, a, None, v, "OPEN", g, p, l, o) :
       q \in {Market, Quote(10, 10, MCNow, MCNow)}, a \in Accounts, v \in {10, 30},
       g \in {"NONE", "GIVEN", "LATE"}, p \in Ports, l \in {1, 10}, o \in {Opening, 20}}
-----------------------------------------------------------------------------
(* Settings come from the constructor, the process, .env, secret files and *)
(* YAML; each layer is empty, incomplete or complete for Live.             *)
Passkey == "origin" :> "h" @@ "rp" :> "h" @@ "credentials" :> <<"a", "b">>
Live == "mode" :> "live" @@ "enabled" :> TRUE
Blank == [x \in {} |-> 0]
Bots == "staging_enabled" :> TRUE @@ "staging_id" :> 1 @@ "staging_recipients" :> <<1>>

MCLayers ==
  [explicit : {Blank, "approval" :> FALSE, "env" :> "production"},
   env : {Blank, Live, "mode" :> "research"},
   dotenv : {Blank, Live @@ Passkey, "account" :> 1, Bots, "credentials" :> <<"a">>},
   tokens : {Blank, "staging_token" :> TRUE},
   files : {Blank, "enabled" :> FALSE, Passkey},
   yaml : {Blank},
   readable : BOOLEAN]

(* Everything read only and Paper may be given; everything Live may be     *)
(* given; and mixtures of the two.                                         *)
MCSupplied ==
  [read : {"none", "ok", "other", "writes_too"}, paper : {"none", "paper", "other"},
   guard : {"none"}, factory : {"none"}]
  \cup [read : {"ok"}, paper : {"none"}, guard : {"none", "other", "refuses", "raises", "agrees"},
        factory : {"none", "raises", "ok", "other", "replaces_too", "reads_too"}]
  \cup [read : {"none", "ok", "other", "writes_too"}, paper : {"none", "paper"},
        guard : {"none", "agrees"}, factory : {"none", "ok"}]

(* Two roles that may ask for their own, for another's, for an unserved    *)
(* and for an unknown secret; material that may be empty.                  *)
Process == INSTANCE Runtime WITH
  Boots <- [layers : MCLayers, supplied : MCSupplied], Unset <- None,
  Roles <- {"read_broker", "research"},
  Registry <- "robinhood_read_credential" :> "r1" @@ "robinhood_write_credential" :> "r2"
              @@ "openai_api_key" :> "r3",
  Servable <- {"r1", "r2"}, Bindings <- "r1" :> "K1" @@ "r2" :> "K2", Material <- {"", "a"},
  Ids <- {"robinhood_read_credential", "robinhood_write_credential", "openai_api_key",
          "data_provider_credential", "nonsense"}
-----------------------------------------------------------------------------
(* Two queries by one sender, and a callback.                              *)
Asked(c, args) == [clean |-> TRUE, command |-> c, args |-> args]
Configured ==
  [loads |-> TRUE, mode |-> "paper", live |-> FALSE, enabled |-> TRUE, token |-> TRUE, bot |-> TRUE,
   recipients |-> TRUE, database |-> "regular", tables |-> TRUE, head |-> TRUE]

Queries == INSTANCE TelegramQueries WITH
  Updates <- 1..3, Sender <- [u \in 1..3 |-> "s1"],
  Text <- <<Asked("orders", <<"open", "A">>), Asked("history", <<"A", "1d">>), None>>,
  Tickers <- {"A", "B"},
  Texts <- [clean : BOOLEAN,
            command : {"help", "portfolio", "orders", "quotes", "pricebook", "tradability", "history",
                       "fundamentals", "financials", "buy"},
            args : SeqOf({"A", "B", "open", "1d", "regular", "annual", "2"}, 3)],
  Starts <- {Configured, [Configured EXCEPT !.head = FALSE]},
  RateLimit <- 1, RateWindow <- 2, MaxTime <- 2, MaxRetries <- 2,
  now <- clock, sends <- replies
-----------------------------------------------------------------------------
MCInit ==
  /\ part \in {"flow", "transitions", "startup", "secrets", "queries"}
  /\ Init /\ TransInit
  /\ part # "flow" => cfg = BaseConfig
  /\ \/ part = "secrets" /\ Process!SecretInit
     \/ /\ part # "secrets" /\ provider = None /\ store = None /\ asking = None
        /\ told = None /\ handed = None
  /\ \/ part = "startup" /\ Process!BootInit
     \/ part # "startup" /\ boot = None
  /\ \/ part = "queries" /\ Queries!QueryInit
     \/ /\ part # "queries" /\ runner = None /\ clock = None /\ window = None
        /\ inflight = None /\ task = None /\ replies = None /\ replays = None
        /\ retries = None

allvars == <<part, vars, transvars, boot, secretvars, queryvars>>

(* A behaviour stops only where its part is over: the loop with a result   *)
(* or an exception.                                                        *)
Over == part # "flow" \/ Ended

MCNext ==
  \/ /\ UNCHANGED part
     /\ \/ part = "flow" /\ Next
        \/ part # "flow" /\ UNCHANGED vars
     /\ \/ part = "transitions" /\ TransNext
        \/ part # "transitions" /\ UNCHANGED transvars
     /\ \/ part = "startup" /\ Process!BootNext
        \/ part # "startup" /\ UNCHANGED boot
     /\ \/ part = "secrets" /\ Process!SecretNext
        \/ part # "secrets" /\ UNCHANGED secretvars
     /\ \/ part = "queries" /\ Queries!QueryNext
        \/ part # "queries" /\ UNCHANGED queryvars
  \/ Over /\ UNCHANGED allvars

MCSpec == MCInit /\ [][MCNext]_allvars
-----------------------------------------------------------------------------
(* LiveIsDeliberate of Runtime: the factory of a live write port is        *)
(* called only for a complete Live configuration whose guard has agreed,   *)
(* and its port is only reached through the guard (start_runtime).         *)
LiveIsDeliberate == part = "startup" => Process!LiveIsDeliberate

(* SecretsScoped of Runtime: a secret is handed only to the one role       *)
(* it is granted to, and never empty (SecretAccessService).                *)
SecretsScoped == part = "secrets" => Process!SecretsScoped

(* RepliesBounded of TelegramQueries: a reply is repeated only when the    *)
(* process died or the lease was lost after a call that may have sent one, *)
(* and the gate lets no more through than it should                        *)
(* (TelegramQueryHandler, _RateGate, parse_telegram_query).                *)
RepliesBounded == part = "queries" => Queries!RepliesBounded
=============================================================================
