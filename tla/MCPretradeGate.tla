--------------------------- MODULE MCPretradeGate ---------------------------
(* An account with two instruments, four orders that wait for execution, and *)
(* a feed with usable and unusable quotes.  Weights are in thousandths.      *)
EXTENDS PretradeGate

MCInstruments == {"X", "Y"}

Listing(i) == [instrument |-> i, symbol |-> i, venue |-> "US", asset |-> "EQUITY"]

MCLimits ==
    [allowlist |-> {Listing("X"), Listing("Y")},
     quality |-> [p \in {"PROPOSAL", "PRETRADE"} |->
                    [age |-> 1, spread |-> 3000, deviation |-> 2000, volatility |-> 50]],
     skew |-> 1, window |-> 1, notional |-> 20, symbol |-> 900, sector |-> 950, turnover |-> 100,
     reserve |-> 50, loss |-> 10]

Order(n, i, side, qty, limit) ==
    [hash |-> n, client |-> n, side |-> side, qty |-> qty, limit |-> limit, increments |-> 1,
     instrument |-> i, symbol |-> i, venue |-> "US", asset |-> "EQUITY"]

MCCandidates ==
    {Order(1, "X", "BUY", 1, 10), Order(2, "X", "SELL", 2, 10), Order(3, "X", "SELL", 1, 10),
     Order(4, "Y", "BUY", 2, 5)}

MCMetadata ==
    [i \in MCInstruments |->
       [instrument |-> i, symbol |-> i, venue |-> "US", asset |-> "EQUITY", increments |-> 1,
        tradable |-> TRUE, option |-> FALSE, crypto |-> FALSE, margin |-> FALSE, leveraged |-> FALSE]]

MCMarks == [i \in MCInstruments |-> IF i = "X" THEN 10 ELSE 5]

Feed(i, age, delayed, ask) ==
    [instrument |-> i, symbol |-> i, age |-> age, lag |-> 0, delayed |-> delayed, stale |-> FALSE,
     bid |-> MCMarks[i] - 1, ask |-> ask, last |-> MCMarks[i]]

MCFeeds ==
    {Feed(i, 0, FALSE, MCMarks[i]) : i \in MCInstruments}
      \cup {Feed("X", 0, FALSE, None), [Feed("X", 1, FALSE, 10) EXCEPT !.lag = 1]}

MCExposures ==
    {[sectors |-> [i \in MCInstruments |-> IF i = "X" THEN "TECH" ELSE "BANK"], turnover |-> 0,
      realized |-> 0, unrealized |-> 0]}

VARIABLE part

\* One of the two at a time: an account that moves under a gate given a blank
\* snapshot of the switch, or a switch that is turned under a quiet account.
MCInit == Init /\ part \in {"account", "switch"} /\ (part = "account" => active = {})

MCNext ==
    /\ \/ part = "account" /\ (Trade \/ TakeSnapshot)
       \/ part = "switch" /\ Operate
       \/ Pretrade
       \/ Tick
    /\ part = "account" /\ request' # None => request'.shown = {}
    /\ UNCHANGED part

MCSpec == MCInit /\ [][MCNext]_<<vars, part>>

MCHeld == [i \in MCInstruments |-> IF i = "X" THEN 2 ELSE 1]
=============================================================================
