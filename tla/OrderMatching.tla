---------------------------- MODULE OrderMatching ----------------------------
(***************************************************************************)
(* How OrderReconciler compares a local order with the broker's orders and *)
(* fills, and posts the new fills of a clean match to the ledger           *)
(* (execution/reconciliation.py).  A local order l is a                    *)
(* LocalOrderExpectation: client, side, qty, limit, lifecycle, broker      *)
(* order id, known fill ids and filled quantity.                           *)
(***************************************************************************)
EXTENDS LedgerBook, FiniteSets, SequencesExt

CONSTANT OrderId   \* the broker order id of a fill, by fill id

Statuses == {"ACCEPTED", "PARTIALLY_FILLED", "FILLED", "CANCELLED", "REJECTED", "UNKNOWN"}

WorkingOrUncertain == {"SUBMITTING", "SUBMITTED", "PARTIALLY_FILLED", "SUBMIT_UNKNOWN", "RECONCILING"}

\* expected_broker_statuses; the empty set stands for no expectation.
ExpectedStatuses(lifecycle) ==
    CASE lifecycle \in {"SUBMITTING", "SUBMITTED", "SUBMIT_UNKNOWN", "RECONCILING"} -> Statuses \ {"UNKNOWN"}
      [] lifecycle = "PARTIALLY_FILLED" -> {"PARTIALLY_FILLED", "FILLED", "CANCELLED"}
      [] lifecycle = "FILLED" -> {"FILLED"}
      [] lifecycle = "CANCELLED" -> {"CANCELLED", "PARTIALLY_FILLED"}
      [] lifecycle = "REJECTED" -> {"REJECTED"}
      [] lifecycle = "MANUAL_REVIEW" -> Statuses
      [] OTHER -> {}

ClientMatches(l, os) == {o \in os : o.client = l.client}
IdMatches(l, os) == {o \in os : l.id # None /\ o.id = l.id}

Ambiguous(l, os) ==
    \/ Cardinality(ClientMatches(l, os)) > 1
    \/ ClientMatches(l, os) = {} /\ Cardinality(IdMatches(l, os)) > 1

Missing(l, os) == ClientMatches(l, os) = {} /\ IdMatches(l, os) = {}

\* The broker order that the local one is compared with.
BrokerOrder(l, os) ==
    CHOOSE o \in os : o \in IF ClientMatches(l, os) # {} THEN ClientMatches(l, os) ELSE IdMatches(l, os)

OrderFills(o, fs) == SelectSeq(fs, LAMBDA f : OrderId[f.id] = o.id)
KnownFills(l, o, fs) == SelectSeq(OrderFills(o, fs), LAMBDA f : f.id \in l.known)
NewFills(l, o, fs) == SelectSeq(OrderFills(o, fs), LAMBDA f : f.id \notin l.known)

Filled(s) == SumOf([i \in DOMAIN s |-> s[i].qty], DOMAIN s)

\* Mutant: only the fills that are new are compared with the order's quantity.
QuantityWrongNewOnly(l, o, fs) == Filled(NewFills(l, o, fs)) > l.qty

QuantityWrong(l, o, fs) ==
    \/ Filled(OrderFills(o, fs)) > l.qty
    \/ o.status = "FILLED" /\ Filled(OrderFills(o, fs)) < l.qty

Worse(l, price) == IF l.side = "BUY" THEN price > l.limit ELSE price < l.limit

PriceWrong(l, o, fs) == \E i \in DOMAIN OrderFills(o, fs) : Worse(l, OrderFills(o, fs)[i].price)

\* The codes that end in manual review.
Codes(l, o, os, fs) ==
    {c \in {"CLIENT_ORDER_ID", "SIDE", "STATUS", "BROKER_ORDER_ID", "UNKNOWN_FILL", "QUANTITY",
            "FILL_QUANTITY", "PRICE"} :
       \/ c = "CLIENT_ORDER_ID" /\ o.client # l.client
       \/ c = "SIDE" /\ o.side # l.side
       \/ c = "STATUS" /\ ExpectedStatuses(l.lifecycle) # {}
                       /\ o.status \notin ExpectedStatuses(l.lifecycle)
       \/ c = "BROKER_ORDER_ID" /\ l.id # None /\ o.id # l.id
       \/ c = "UNKNOWN_FILL" /\ \E i \in DOMAIN fs : OrderId[fs[i].id] \notin {x.id : x \in os}
       \/ c = "QUANTITY" /\ QuantityWrong(l, o, fs)
       \/ c = "FILL_QUANTITY" /\ l.filled # Filled(KnownFills(l, o, fs))
       \/ c = "PRICE" /\ PriceWrong(l, o, fs)}

\* apply_fills_atomic on the new fills in the order of time and id.
Earlier(f, g) == f.at < g.at \/ (f.at = g.at /\ f.id < g.id)
InOrder(s) == SetToSortSeq({s[i] : i \in DOMAIN s}, Earlier)

\* Mutant: a refused fill is skipped and the rest of the batch goes on.
PostSkipping(acc, f) ==
    IF f.id \in Seen(acc.book) \/ Refusal(acc.book, f) # None THEN acc
    ELSE [book |-> Posted(acc.book, f), ok |-> TRUE]

Post(acc, f) ==
    IF ~acc.ok \/ f.id \in Seen(acc.book) THEN acc
    ELSE IF Refusal(acc.book, f) = None THEN [book |-> Posted(acc.book, f), ok |-> TRUE]
    ELSE [book |-> acc.book, ok |-> FALSE]

PostAll(book, s) == FoldLeft(Post, [book |-> book, ok |-> TRUE], InOrder(s))
=============================================================================
