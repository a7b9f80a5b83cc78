--------------------------- MODULE Reconciliation ---------------------------
(***************************************************************************)
(* Reconciling one local order with what the broker reports, and posting   *)
(* the fills of a clean match to the portfolio ledger.  The broker and the *)
(* caller that keeps the local expectation are outside the reconciler: the *)
(* broker's orders and fills are read in two calls, fills arrive late or   *)
(* twice, and a report may get lost before the caller has saved it.        *)
(***************************************************************************)
EXTENDS OrderMatching

CONSTANTS
    Client,        \* the order's client_order_id
    Side,
    Quantity,      \* expected_quantity
    Limit,         \* expected_limit_price
    Listings,      \* what the broker may list: sets of orders
    LocalIds,      \* broker order ids that the caller may have noted, and None
    Lifecycles,    \* local lifecycle states that the caller may be in
    OpeningCash,
    MaxReconciles  \* bound on calls of reconcile

ASSUME OrderWellFormed ==
    Side \in {"BUY", "SELL"} /\ Quantity \in Nat /\ Limit \in Nat /\ OpeningCash \in Nat

VARIABLES
    executed,   \* the broker's fills so far
    orders,     \* the orders as read, or None
    fills,      \* the fills as read, or None
    local,      \* LocalOrderExpectation: lifecycle, broker order id, known fills
    book,       \* the portfolio ledger
    report,     \* the last report, or None once the caller is done with it
    alerts,     \* critical alerts emitted
    calls

vars == <<executed, orders, fills, local, book, report, alerts, calls>>

FillOf(n) == CHOOSE f \in Fills : f.id = n
FilledBy(ids) == SumOf([n \in ids |-> FillOf(n).qty], ids)

Init ==
    /\ executed = <<>>
    /\ orders = None
    /\ fills = None
    /\ local \in [lifecycle : Lifecycles, id : LocalIds, known : {{}}]
    /\ book = Opened(OpeningCash)
    /\ report = None
    /\ alerts = 0
    /\ calls = 0

-----------------------------------------------------------------------------
(* The broker and its read port.                                           *)

\* Fills are executed in the order of their times.
Execute(f) ==
    /\ \A i \in DOMAIN executed : executed[i].at < f.at
    /\ executed' = Append(executed, f)
    /\ UNCHANGED <<orders, fills, local, book, report, alerts, calls>>

ReadOrders ==
    /\ report = None
    /\ orders' \in Listings
    /\ UNCHANGED <<executed, fills, local, book, report, alerts, calls>>

\* The fills so far; a row may come twice, as where pages overlap.
ReadFills ==
    /\ report = None
    /\ \/ fills' = executed
       \/ \E i \in DOMAIN executed : fills' = Append(executed, executed[i])
    /\ UNCHANGED <<executed, orders, local, book, report, alerts, calls>>

-----------------------------------------------------------------------------
(* The comparison.                                                         *)

\* The LocalOrderExpectation the caller passes.
Expected ==
    [client |-> Client, side |-> Side, qty |-> Quantity, limit |-> Limit,
     lifecycle |-> local.lifecycle, id |-> local.id, known |-> local.known,
     filled |-> FilledBy(local.known)]

\* Mutant: the fills before the refused one stay.
RestoredNot(posted) == posted.book

\* The book after a batch with a refused fill.
Restored(posted) == book

-----------------------------------------------------------------------------
(* reconcile and its caller.                                               *)

Ready == orders # None /\ fills # None /\ report = None /\ calls < MaxReconciles

Reported(outcome, codes, new) ==
    /\ report' = [outcome |-> outcome, codes |-> codes, new |-> new]
    /\ calls' = calls + 1
    /\ UNCHANGED <<executed, orders, fills, local>>

\* _manual
Review(codes) ==
    /\ alerts' = alerts + 1
    /\ Reported("MANUAL_REVIEW", codes, {})

NoSingleOrder ==
    /\ Ready
    /\ book' = book
    /\ \/ Ambiguous(Expected, orders) /\ Review({"MULTIPLE_BROKER_MATCHES"})
       \/ /\ Missing(Expected, orders) /\ local.lifecycle \in WorkingOrUncertain
          /\ Review({"MISSING_BROKER_ORDER"})
       \/ /\ Missing(Expected, orders) /\ local.lifecycle \notin WorkingOrUncertain
          /\ Reported("UNKNOWN", {"MISSING_BROKER_ORDER"}, {})
          /\ UNCHANGED alerts

Compare ==
    /\ Ready
    /\ ~Ambiguous(Expected, orders) /\ ~Missing(Expected, orders)
    /\ LET o == BrokerOrder(Expected, orders)
           codes == Codes(Expected, o, orders, fills)
           new == NewFills(Expected, o, fills)
           posted == PostAll(book, new)
       IN  \/ o.status = "UNKNOWN" /\ Review({"BROKER_ORDER_UNKNOWN_STATUS"}) /\ book' = book
           \/ o.status # "UNKNOWN" /\ codes # {} /\ Review(codes) /\ book' = book
           \/ /\ o.status # "UNKNOWN" /\ codes = {} /\ ~posted.ok
              /\ Review({"LEDGER_REJECTED"}) /\ book' = Restored(posted)
           \/ /\ o.status # "UNKNOWN" /\ codes = {} /\ posted.ok
              /\ book' = posted.book
              /\ alerts' = alerts
              /\ Reported("MATCHED", {}, Seen(posted.book) \ Seen(book))

\* find_unknown_broker_orders: one alert for every order that is not ours.
UnknownOrders(os) == {o \in os : o.client # Client /\ (local.id = None \/ o.id # local.id)}

FindUnknownBrokerOrders ==
    /\ orders # None /\ report = None /\ calls < MaxReconciles
    /\ alerts' = alerts + Cardinality(UnknownOrders(orders))
    /\ calls' = calls + 1
    /\ UNCHANGED <<executed, orders, fills, local, book, report>>

\* The caller saves the report, and the lifecycle it concludes from it, or loses it.
SaveReport ==
    /\ report # None
    /\ \E l \in Lifecycles : local' = [local EXCEPT !.lifecycle = l, !.known = @ \cup report.new]
    /\ report' = None
    /\ orders' = None
    /\ fills' = None
    /\ UNCHANGED <<executed, book, alerts, calls>>

LoseReport ==
    /\ report # None
    /\ report' = None
    /\ orders' = None
    /\ fills' = None
    /\ UNCHANGED <<executed, local, book, alerts, calls>>

Next ==
    \/ \E f \in Fills : Execute(f)
    \/ ReadOrders
    \/ ReadFills
    \/ NoSingleOrder
    \/ Compare
    \/ FindUnknownBrokerOrders
    \/ SaveReport
    \/ LoseReport

Spec == Init /\ [][Next]_vars

-----------------------------------------------------------------------------
(* Properties.                                                             *)

Posts == {f \in Fills : f.id \in Seen(book)}

\* The ledger never takes more for the order than was ordered, nor at a worse price
\* than its limit, nor another order's fills: not when the broker overfills, when
\* rows repeat, or when the caller lost a report and asks again from an old state.
NeverOverApplied ==
    /\ FilledBy(Seen(book)) <= Quantity
    /\ \A f \in Posts : ~Worse(Expected, f.price)
    /\ \A f, g \in Posts : OrderId[f.id] = OrderId[g.id]

\* "Divergent cases alert and return MANUAL_REVIEW with the ledger left unchanged":
\* money moves only in a step that reports a match, and a report is alerted, once,
\* exactly if it asks for a review.
ReviewLeavesMoney ==
    [][/\ book' # book => report = None /\ report'.outcome = "MATCHED"
       /\ report = None /\ report' # None =>
            alerts' = IF report'.outcome = "MANUAL_REVIEW" THEN alerts + 1 ELSE alerts]_vars

\* After a match the ledger holds every fill of the order that was read.
MatchedPostsAll ==
    report # None /\ report.outcome = "MATCHED" =>
      \A i \in DOMAIN fills : OrderId[fills[i].id] = BrokerOrder(Expected, orders).id => fills[i].id \in Seen(book)

\* A match posts the order's fills as they were read, all of them and no more than
\* was ordered (reconcile).
PostsExactly == NeverOverApplied /\ MatchedPostsAll

-----------------------------------------------------------------------------
(* An instance: a buy of three shares, two partial fills that fill it, one *)
(* that would overfill it, one at a price beyond the limit, one of another *)
(* order and one of an order that is never listed; listings from clean to  *)
(* contradictory.                                                          *)

MCFill(n, q, p) ==
    [id |-> n, side |-> "BUY", instrument |-> "X", qty |-> q, price |-> p, fee |-> 1, at |-> n,
     foreign |-> FALSE]

MCFills == {MCFill(1, 1, 8), MCFill(2, 2, 10), MCFill(3, 2, 3), MCFill(4, 1, 11), MCFill(5, 1, 10), MCFill(6, 1, 10)}
MCOrderId == [n \in 1..6 |-> CASE n = 5 -> "o2" [] n = 6 -> "o3" [] OTHER -> "o1"]

MCOrder(i, c, s, st) == [id |-> i, client |-> c, side |-> s, status |-> st]
MCOurs(st) == MCOrder("o1", "c1", "BUY", st)
MCSibling == MCOrder("o2", "c2", "BUY", "FILLED")
MCListings ==
    {{}, {MCOurs("ACCEPTED")}, {MCOurs("PARTIALLY_FILLED"), MCSibling}, {MCOurs("FILLED"), MCSibling},
     {MCOurs("UNKNOWN")}, {MCOurs("FILLED"), MCOrder("o2", "c1", "BUY", "FILLED")},
     {MCOrder("o1", "c2", "BUY", "FILLED")}, {MCOrder("o1", "c1", "SELL", "CANCELLED")},
     {MCOrder("o1", "c2", "BUY", "FILLED"), MCOrder("o1", "c3", "BUY", "FILLED")}}
=============================================================================
