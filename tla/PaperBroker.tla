---------------------------- MODULE PaperBroker ----------------------------
(***************************************************************************)
(* The in-memory paper broker: idempotent submit and cancel, cash and      *)
(* share reserves of working orders, and fills driven by injected market   *)
(* events.  Money is in millionths of a dollar, the quantum every amount   *)
(* is rounded to; quantities are whole shares.                             *)
(*                                                                         *)
(* A market event visits the working orders one by one and may raise in    *)
(* the middle.  The visits are steps of the model; no other call runs      *)
(* between them.                                                           *)
(***************************************************************************)
EXTENDS PaperCosts, FiniteSets, Functions

CONSTANTS
    Clients,       \* client order ids, ordered as strings are
    Instruments,
    Requests,      \* submit requests: one id may come with different fields
    CancelKeys,    \* idempotency keys of cancel commands
    Quotes,        \* market events: instrument, bid, ask, liquidity
    InitialCash,
    Random,        \* TRUE if fills take a random part of what is possible
    MaxTime,       \* bound on the ledger clock
    MaxEvents,     \* bound on market events
    None

ASSUME ClientsAreOrdered == Clients \subseteq Nat /\ IsFiniteSet(Clients)
ASSUME RequestsWellFormed ==
    Requests \subseteq [client : Clients, side : {"BUY", "SELL"}, instrument : Instruments,
                        qty : Nat \ {0}, limit : Nat \ {0}, expires : Nat]
ASSUME QuotesWellFormed ==
    /\ Quotes \subseteq [instrument : Instruments, bid : Nat \ {0}, ask : Nat \ {0}, liquidity : Nat \ {0}]
    /\ \A e \in Quotes : e.bid <= e.ask
ASSUME AmountsAreNatural ==
    /\ InitialCash \in Nat /\ FeeBps \in Nat /\ AdverseBps \in Nat
    /\ MaxTime \in Nat /\ MaxEvents \in Nat

Working == {"ACCEPTED", "PARTIALLY_FILLED"}

\* A working order, a remembered answer to a submit, a market event in progress.
Orders ==
    [req : Requests, status : Working \cup {"FILLED", "CANCELLED"}, remaining : Nat, filled : Nat,
     at : Nat, cash : Nat, shares : Nat]
Results ==
    [req : Requests, outcome : {"ACCEPTED", "REJECTED"}, status : Working \cup {"FILLED", None}]
Events == [quote : Quotes, left : Nat, queue : SUBSET Clients]

ASSUME NoneIsNoValue ==
    /\ None \notin Orders
    /\ None \notin Results
    /\ None \notin Events
    /\ None \notin Working \cup {"FILLED", "CANCELLED", "REJECTED"}
    /\ None \notin {"ORDER_EXPIRED", "INSUFFICIENT_CASH", "INSUFFICIENT_POSITION"}

VARIABLES
    asOf,      \* _ledger_as_of
    cash,      \* _cash
    held,      \* _positions: shares of each instrument
    order,     \* _orders by client order id
    result,    \* _submit_results and _submit_fingerprints
    cancels,   \* _cancel_results
    event,     \* the market event being applied, or None
    fills,     \* _all_fills
    raised,    \* reasons for which a market event raised
    events     \* market events so far

vars == <<asOf, cash, held, order, result, cancels, event, fills, raised, events>>

Init ==
    /\ asOf = 0
    /\ cash = InitialCash
    /\ held = [i \in Instruments |-> 0]
    /\ order = [c \in Clients |-> None]
    /\ result = [c \in Clients |-> None]
    /\ cancels = [k \in CancelKeys |-> None]
    /\ event = None
    /\ fills = {}
    /\ raised = {}
    /\ events = 0

-----------------------------------------------------------------------------
(* Reserves.                                                               *)

IsWorking(c) == order[c] # None /\ order[c].status \in Working

Total(f, S) == SumFunctionOnSet(f, S)

\* _open_working_orders, _available_cash
Reserved == [c \in Clients |-> IF IsWorking(c) THEN order[c].cash ELSE 0]

Available == cash - Total(Reserved, Clients)

\* Mutant: shares reserved for other sells are free to sell again.
ReservedSellNothing(i) == 0

\* _reserved_sell_qty
ReservedSell(i) ==
    Total([c \in Clients |-> IF IsWorking(c) /\ order[c].req.instrument = i THEN order[c].shares ELSE 0],
          Clients)

\* The checks of submit in their order.
Refusal(r) ==
    IF asOf >= r.expires THEN "ORDER_EXPIRED"
    ELSE IF r.side = "BUY" /\ Need(r) > Available THEN "INSUFFICIENT_CASH"
    ELSE IF r.side = "SELL" /\ r.qty > held[r.instrument] - ReservedSell(r.instrument)
           THEN "INSUFFICIENT_POSITION"
    ELSE None

-----------------------------------------------------------------------------
(* The write port.  A replay of a known id returns the remembered result,  *)
(* other fields under a known id raise, another account scope is refused   *)
(* without a trace: none of these changes the broker.                      *)

Unknown(c) == result[c] = None

Reject(r) ==
    /\ event = None
    /\ Unknown(r.client)
    /\ Refusal(r) # None
    /\ result' = [result EXCEPT ![r.client] = [req |-> r, outcome |-> "REJECTED", status |-> None]]
    /\ UNCHANGED <<asOf, cash, held, order, cancels, event, fills, raised, events>>

Accept(r) ==
    /\ event = None
    /\ Unknown(r.client)
    /\ Refusal(r) = None
    /\ order' = [order EXCEPT ![r.client] =
         [req |-> r, status |-> "ACCEPTED", remaining |-> r.qty, filled |-> 0, at |-> asOf,
          cash |-> IF r.side = "BUY" THEN Need(r) ELSE 0,
          shares |-> IF r.side = "SELL" THEN r.qty ELSE 0]]
    /\ result' = [result EXCEPT ![r.client] = [req |-> r, outcome |-> "ACCEPTED", status |-> "ACCEPTED"]]
    /\ UNCHANGED <<asOf, cash, held, cancels, event, fills, raised, events>>

\* An order can be cancelled while it works.
Cancelable(c) == IsWorking(c)

\* cancel under a new key; matching says that hash and proposal are the order's.
CancelConfirmed(k, c) ==
    /\ event = None
    /\ cancels[k] = None
    /\ Cancelable(c)
    /\ order' = [order EXCEPT ![c] = [req |-> @.req, status |-> "CANCELLED", remaining |-> 0,
                                      filled |-> @.filled, at |-> @.at, cash |-> 0, shares |-> 0]]
    /\ cancels' = [cancels EXCEPT ![k] = [client |-> c, status |-> "CONFIRMED"]]
    /\ UNCHANGED <<asOf, cash, held, result, event, fills, raised, events>>

\* An unknown or closed order, another scope, or fields that do not match.
CancelRejected(k, c) ==
    /\ event = None
    /\ cancels[k] = None
    /\ cancels' = [cancels EXCEPT ![k] = [client |-> c, status |-> "REJECTED"]]
    /\ UNCHANGED <<asOf, cash, held, order, result, event, fills, raised, events>>

-----------------------------------------------------------------------------
(* Market events.                                                          *)

\* The candidates, fixed when the event begins.
Candidates(e) ==
    {c \in Clients : IsWorking(c) /\ order[c].remaining > 0 /\ order[c].req.instrument = e.instrument}

InjectMarketEvent(e) ==
    /\ event = None
    /\ events < MaxEvents
    /\ event' = [quote |-> e, left |-> e.liquidity, queue |-> Candidates(e)]
    /\ events' = events + 1
    /\ UNCHANGED <<asOf, cash, held, order, result, cancels, fills, raised>>

\* First in submission time, then in broker order id.
Before(c, d) == order[c].at < order[d].at \/ (order[c].at = order[d].at /\ c < d)

Turn(c) ==
    /\ event # None
    /\ event.left > 0
    /\ c \in event.queue
    /\ \A d \in event.queue \ {c} : Before(c, d)

Pass(c) ==
    /\ Turn(c)
    /\ ~Marketable(order[c].req, event.quote)
    /\ event' = [event EXCEPT !.queue = @ \ {c}]
    /\ UNCHANGED <<asOf, cash, held, order, result, cancels, fills, raised, events>>

Smaller(a, b) == IF a < b THEN a ELSE b

\* _choose_fill_qty
FillQuantities(c) ==
    LET cap == Smaller(order[c].remaining, event.left)
    IN  IF Random THEN 1..cap ELSE {cap}

\* The checks of _apply_fill in their order.
Failure(r, q, price) ==
    IF r.side = "BUY"
      THEN IF Debit(q, price) > cash THEN "INSUFFICIENT_CASH" ELSE None
      ELSE IF Proceeds(q, price) < 0 THEN "INSUFFICIENT_CASH"
           ELSE IF q > held[r.instrument] THEN "INSUFFICIENT_POSITION" ELSE None

\* The event raises: what it did before stays done, the rest is dropped.
FillRaises(c) ==
    /\ Turn(c)
    /\ Marketable(order[c].req, event.quote)
    /\ \E q \in FillQuantities(c) :
         LET why == Failure(order[c].req, q, FillPrice(order[c].req, event.quote))
         IN  /\ why # None
             /\ raised' = raised \cup {why}
    /\ event' = None
    /\ UNCHANGED <<asOf, cash, held, order, result, cancels, fills, events>>

Less(a, b) == IF a > b THEN a - b ELSE 0

\* The order after a fill of q shares at the price; a full fill frees its reserves.
Filled(o, q, price) ==
    IF o.remaining = q
      THEN [req |-> o.req, status |-> "FILLED", remaining |-> 0, filled |-> o.filled + q,
            at |-> o.at, cash |-> 0, shares |-> 0]
      ELSE [req |-> o.req, status |-> "PARTIALLY_FILLED", remaining |-> o.remaining - q,
            filled |-> o.filled + q, at |-> o.at,
            cash |-> IF o.req.side = "BUY" THEN Less(o.cash, Debit(q, price)) ELSE o.cash,
            shares |-> IF o.req.side = "SELL" THEN Less(o.shares, q) ELSE o.shares]

\* Mutant: a sale's fee is not charged.
CashAfterFreeSale(r, q, price) ==
    IF r.side = "BUY" THEN cash - Debit(q, price) ELSE cash + q * price

CashAfter(r, q, price) ==
    IF r.side = "BUY" THEN cash - Debit(q, price) ELSE cash + Proceeds(q, price)

Fill(c) ==
    /\ Turn(c)
    /\ Marketable(order[c].req, event.quote)
    /\ \E q \in FillQuantities(c) :
         LET r == order[c].req
             price == FillPrice(r, event.quote)
         IN  /\ Failure(r, q, price) = None
             /\ cash' = CashAfter(r, q, price)
             /\ held' = [held EXCEPT ![r.instrument] = IF r.side = "BUY" THEN @ + q ELSE @ - q]
             /\ order' = [order EXCEPT ![c] = Filled(@, q, price)]
             /\ fills' = fills \cup {[client |-> c, nth |-> Cardinality({f \in fills : f.client = c}) + 1,
                                      side |-> r.side, instrument |-> r.instrument,
                                      qty |-> q, price |-> price]}
             /\ result' = [result EXCEPT ![c] = [req |-> @.req, outcome |-> @.outcome,
                                                 status |-> Filled(order[c], q, price).status]]
             /\ event' = [quote |-> event.quote, left |-> event.left - q, queue |-> event.queue \ {c}]
    /\ UNCHANGED <<asOf, cancels, raised, events>>

EndEvent ==
    /\ event # None
    /\ event.left = 0 \/ event.queue = {}
    /\ event' = None
    /\ UNCHANGED <<asOf, cash, held, order, result, cancels, fills, raised, events>>

\* The injected clock, or the time of a market event, moves the ledger time.
Advance ==
    /\ event = None
    /\ asOf < MaxTime
    /\ asOf' = asOf + 1
    /\ UNCHANGED <<cash, held, order, result, cancels, event, fills, raised, events>>

Next ==
    \/ \E r \in Requests : Reject(r) \/ Accept(r)
    \/ \E k \in CancelKeys, c \in Clients : CancelConfirmed(k, c) \/ CancelRejected(k, c)
    \/ \E e \in Quotes : InjectMarketEvent(e)
    \/ \E c \in Clients : Pass(c) \/ Fill(c) \/ FillRaises(c)
    \/ EndEvent
    \/ Advance

Spec == Init /\ [][Next]_vars

-----------------------------------------------------------------------------
(* Properties.                                                             *)

\* The ledger, the working orders and the remembered answers have their types.
TypeOK ==
    /\ asOf \in Nat
    /\ cash \in Int
    /\ held \in [Instruments -> Int]
    /\ order \in [Clients -> Orders \cup {None}]
    /\ result \in [Clients -> Results \cup {None}]
    /\ cancels \in [CancelKeys -> [client : Clients, status : {"CONFIRMED", "REJECTED"}] \cup {None}]
    /\ event \in Events \cup {None}
    /\ raised \subseteq {"INSUFFICIENT_CASH", "INSUFFICIENT_POSITION"}
    /\ events \in 0..MaxEvents

FillsOf(c) == {f \in fills : f.client = c}

\* Half quanta by which rounding may take a buy beyond its reserve: one for the
\* reserve itself and one for each fill.
Rounding ==
    [c \in Clients |-> IF order[c] # None /\ order[c].req.side = "BUY" /\ FillsOf(c) # {}
                      THEN 1 + Cardinality(FillsOf(c)) ELSE 0]

\* What the working orders promise is there, in the middle of an event too: the
\* cash they reserve never exceeds the cash by more than the rounding of fees that
\* are charged fill by fill, the shares that working sells reserve are held, and no
\* sell fill ever raises INSUFFICIENT_POSITION, whatever fills or is cancelled first
\* (submit, _apply_fill).
PromisesCovered ==
    /\ 2 * (Total(Reserved, Clients) - cash) <= Total(Rounding, Clients)
    /\ \A i \in Instruments : ReservedSell(i) <= held[i]
    /\ "INSUFFICIENT_POSITION" \notin raised

Shares(S) == Total([f \in S |-> f.qty], S)
Buys(i) == {f \in fills : f.instrument = i /\ f.side = "BUY"}
Sells(i) == {f \in fills : f.instrument = i /\ f.side = "SELL"}

\* Cash, positions and orders are exactly what the fill log explains: opening cash,
\* less every buy's cost and fee, plus every sale's proceeds after its fee; each
\* order's own fills add up to what it says is filled.
LedgerExplained ==
    /\ cash = InitialCash + Total([f \in fills |-> IF f.side = "BUY" THEN -Debit(f.qty, f.price)
                                                                ELSE Proceeds(f.qty, f.price)], fills)
    /\ \A i \in Instruments : held[i] = Shares(Buys(i)) - Shares(Sells(i))
    /\ \A c \in Clients : order[c] # None => order[c].filled = Shares(FillsOf(c))

Balanced(c) ==
    /\ order[c].status # "CANCELLED" => order[c].filled + order[c].remaining = order[c].req.qty
    /\ order[c].filled <= order[c].req.qty
    /\ IsWorking(c) <=> order[c].remaining > 0
    /\ ~IsWorking(c) => order[c].cash = 0
    /\ order[c].shares = IF order[c].req.side = "SELL" THEN order[c].remaining ELSE 0
    /\ \A f \in FillsOf(c) : IF order[c].req.side = "BUY" THEN f.price <= order[c].req.limit
                                                         ELSE f.price >= order[c].req.limit

\* An order never fills beyond its quantity or its limit, what is neither filled
\* nor cancelled still works, and only a working order holds a reserve: for a sell
\* exactly its unfilled shares.
OrdersBalanced == \A c \in Clients : order[c] # None => Balanced(c)

\* An order that is filled or cancelled never changes again, and a client order
\* id keeps the request and the outcome it was first answered with.
AnswersFinal ==
    [][\A c \in Clients :
         /\ order[c] # None /\ ~IsWorking(c) => order'[c] = order[c]
         /\ result[c] # None => /\ result'[c].req = result[c].req
                                /\ result'[c].outcome = result[c].outcome]_vars

=============================================================================
