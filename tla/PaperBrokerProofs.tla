------------------------- MODULE PaperBrokerProofs -------------------------
(***************************************************************************)
(* Proofs about the paper broker, for any requests, fees, quotes and       *)
(* number of orders.  IInv is about single orders.  MoneyInv adds up over  *)
(* them: it is proved beside IInv, with the facts of SumTheorems, and      *)
(* gives that promises are covered and the ledger is explained.            *)
(***************************************************************************)
EXTENDS PaperBroker, TLAPS

\* An order exists exactly for the ids that were accepted, with their request.
Remembered ==
    \A c \in Clients : order[c] # None =>
      /\ order[c].req.client = c
      /\ result[c] # None
      /\ result[c].req = order[c].req
      /\ result[c].outcome = "ACCEPTED"

\* Fills belong to orders.
FillsHaveOrders == \A f \in fills : f.client \in Clients => order[f.client] # None

\* The orders that an event has yet to visit still work.
QueueWorks == event # None => \A c \in event.queue : c \in Clients /\ IsWorking(c)

IInv == TypeOK /\ OrdersBalanced /\ Remembered /\ FillsHaveOrders /\ QueueWorks

-----------------------------------------------------------------------------

\* Rounding keeps natural numbers.
LEMMA MoneyNat == ASSUME NEW a \in Nat, NEW b \in Nat \ {0} PROVE Money(a, b) \in Nat
  <1>1. a \div b \in Nat /\ a % b \in Nat OBVIOUS
  <1> QED BY <1>1 DEF Money

LEMMA MoneyInt == ASSUME NEW a \in Int, NEW b \in Nat \ {0} PROVE Money(a, b) \in Int
  <1>1. a \div b \in Int /\ a % b \in Int OBVIOUS
  <1> QED BY <1>1 DEF Money

LEMMA FeeNat == ASSUME NEW n \in Nat PROVE Fee(n) \in Nat
  <1>1. n * FeeBps \in Nat BY AmountsAreNatural
  <1> QED BY <1>1, MoneyNat DEF Fee

\* A fill price is natural and never worse than the limit.
LEMMA PriceInLimit ==
    ASSUME NEW r \in Requests, NEW e \in Quotes
    PROVE  /\ FillPrice(r, e) \in Nat
           /\ IF r.side = "BUY" THEN FillPrice(r, e) <= r.limit ELSE FillPrice(r, e) >= r.limit
  <1> DEFINE mid == Money(e.bid + e.ask, 2)
             buy == Money(mid * (10000 + AdverseBps), 10000)
             sell == Money(mid * (10000 - AdverseBps), 10000)
  <1>1. e.bid + e.ask \in Nat /\ r.limit \in Nat BY QuotesWellFormed, RequestsWellFormed
  <1>2. mid \in Nat BY <1>1, MoneyNat
  <1>3. 10000 + AdverseBps \in Nat /\ 10000 - AdverseBps \in Int BY AmountsAreNatural
  <1>4. mid * (10000 + AdverseBps) \in Nat /\ mid * (10000 - AdverseBps) \in Int BY <1>2, <1>3
  <1>5. buy \in Nat /\ sell \in Int BY <1>4, MoneyNat, MoneyInt
  <1>6. FillPrice(r, e) = IF r.side = "BUY" THEN (IF buy < r.limit THEN buy ELSE r.limit)
                                            ELSE (IF sell > r.limit THEN sell ELSE r.limit)
    BY DEF FillPrice
  <1> HIDE DEF buy, sell
  <1> QED BY <1>1, <1>5, <1>6

\* What a fill does to its order.
LEMMA FilledFacts ==
    ASSUME NEW o \in Orders, NEW q \in Nat \ {0}, q <= o.remaining, NEW price \in Nat,
           o.shares = IF o.req.side = "SELL" THEN o.remaining ELSE 0
    PROVE  LET n == Filled(o, q, price)
           IN  /\ n \in Orders
               /\ n.req = o.req
               /\ n.filled = o.filled + q
               /\ n.remaining = o.remaining - q
               /\ n.status \in {"PARTIALLY_FILLED", "FILLED"}
               /\ n.status = "PARTIALLY_FILLED" <=> n.remaining > 0
               /\ n.status = "FILLED" => n.cash = 0
               /\ n.shares = IF o.req.side = "SELL" THEN n.remaining ELSE 0
  <1>1. /\ o.remaining \in Nat /\ o.filled \in Nat /\ o.cash \in Nat /\ o.shares \in Nat /\ o.at \in Nat
        /\ o.req \in Requests
    BY DEF Orders
  <1>2. q * price \in Nat OBVIOUS
  <1>3. Debit(q, price) \in Nat BY <1>2, FeeNat DEF Debit
  <1>4. Less(o.cash, Debit(q, price)) \in Nat /\ Less(o.shares, q) \in Nat BY <1>1, <1>3 DEF Less
  <1>5. CASE o.remaining = q
    BY <1>1, <1>5 DEF Filled, Orders, Working
  <1>6. CASE o.remaining # q
    <2>1. o.remaining - q \in Nat /\ o.remaining - q > 0 /\ o.filled + q \in Nat BY <1>1, <1>6
    <2>2. o.req.side = "SELL" => Less(o.shares, q) = o.remaining - q BY <1>1, <1>6 DEF Less
    <2> DEFINE k == IF o.req.side = "BUY" THEN Less(o.cash, Debit(q, price)) ELSE o.cash
               s == IF o.req.side = "SELL" THEN Less(o.shares, q) ELSE o.shares
    <2>3. k \in Nat /\ s \in Nat /\ s = IF o.req.side = "SELL" THEN o.remaining - q ELSE 0
      BY <1>1, <1>4, <2>2
    <2>4. Filled(o, q, price) = [req |-> o.req, status |-> "PARTIALLY_FILLED",
            remaining |-> o.remaining - q, filled |-> o.filled + q, at |-> o.at, cash |-> k, shares |-> s]
      BY <1>6 DEF Filled
    <2> HIDE DEF k, s
    <2> QED BY <1>1, <2>1, <2>3, <2>4 DEF Orders, Working
  <1> QED BY <1>5, <1>6

\* Nothing is there at the start.
LEMMA InitInv == Init => IInv
  BY AmountsAreNatural DEF Init, IInv, TypeOK, OrdersBalanced, Remembered, FillsHaveOrders, QueueWorks

\* A submit adds an order with its reserve, or remembers a refusal.
LEMMA RejectInv ==
    ASSUME IInv, NEW r \in Requests, Reject(r)
    PROVE  IInv'
  <1>0. r.client \in Clients BY RequestsWellFormed
  <1>1. [req |-> r, outcome |-> "REJECTED", status |-> None] \in Results BY DEF Results
  <1>2. TypeOK' BY ZenonT(30), <1>1 DEF Reject, IInv, TypeOK
  <1>3. \A c \in Clients : order[c] # None => result'[c] = result[c]
    BY DEF Reject, Unknown, IInv, Remembered, TypeOK
  <1>4. Remembered' BY <1>3 DEF Reject, IInv, Remembered
  <1> QED BY <1>2, <1>4 DEF Reject, IInv, OrdersBalanced, Balanced, FillsHaveOrders,
         QueueWorks, IsWorking, FillsOf

LEMMA AcceptInv ==
    ASSUME IInv, NEW r \in Requests, Accept(r)
    PROVE  IInv'
  <1> DEFINE c == r.client
             k == IF r.side = "BUY" THEN Need(r) ELSE 0
             s == IF r.side = "SELL" THEN r.qty ELSE 0
             o == [req |-> r, status |-> "ACCEPTED", remaining |-> r.qty, filled |-> 0, at |-> asOf,
                   cash |-> k, shares |-> s]
             x == [req |-> r, outcome |-> "ACCEPTED", status |-> "ACCEPTED"]
  <1>0. c \in Clients /\ r.qty \in Nat /\ r.qty > 0 /\ r.limit \in Nat BY RequestsWellFormed
  <1>a. r.qty * r.limit \in Nat BY <1>0
  <1>b. k \in Nat /\ s \in Nat BY <1>0, <1>a, FeeNat DEF Need
  <1>c. order' = [order EXCEPT ![c] = o] /\ result' = [result EXCEPT ![c] = x]
        /\ UNCHANGED <<asOf, cash, held, cancels, event, fills, raised, events>> /\ event = None
        /\ result[c] = None
    BY DEF Accept, Unknown
  <1>d. asOf \in Nat BY DEF IInv, TypeOK
  <1> HIDE DEF k
  <1>1. o \in Orders /\ x \in Results BY <1>0, <1>b, <1>d DEF Orders, Results, Working
  <1>2. TypeOK' BY <1>0, <1>1, <1>c DEF IInv, TypeOK
  <1>3. order[c] = None BY <1>0, <1>c DEF IInv, Remembered
  <1>4. order'[c] = o /\ result'[c] = x /\ \A d \in Clients : d # c => order'[d] = order[d] /\ result'[d] = result[d]
    BY <1>0, <1>c DEF IInv, TypeOK
  <1>5. o # None /\ x # None BY <1>1, NoneIsNoValue
  <1>6. FillsOf(c)' = {} BY <1>0, <1>3, <1>c DEF IInv, FillsHaveOrders, FillsOf
  <1>7. OrdersBalanced'
    <2> SUFFICES ASSUME NEW d \in Clients, order'[d] # None
                 PROVE  Balanced(d)'
      BY DEF OrdersBalanced
    <2>1. CASE d = c
      BY <2>1, <1>0, <1>4, <1>5, <1>6 DEF Balanced, IsWorking, Working
    <2>2. CASE d # c
      BY <2>2, <1>4, <1>c DEF Balanced, IInv, OrdersBalanced, IsWorking, FillsOf
    <2> QED BY <2>1, <2>2
  <1>8. Remembered' BY <1>4, <1>5 DEF IInv, Remembered
  <1>9. FillsHaveOrders' BY <1>4, <1>5, <1>c DEF IInv, FillsHaveOrders
  <1>10. QueueWorks' BY <1>c DEF QueueWorks
  <1> QED BY <1>2, <1>7, <1>8, <1>9, <1>10 DEF IInv

\* A confirmed cancel closes the order and frees its reserves.
LEMMA CancelInv ==
    ASSUME IInv, NEW k \in CancelKeys, NEW c \in Clients, CancelConfirmed(k, c)
    PROVE  IInv'
  <1> DEFINE o == [req |-> order[c].req, status |-> "CANCELLED", remaining |-> 0,
                   filled |-> order[c].filled, at |-> order[c].at, cash |-> 0, shares |-> 0]
  <1>0. /\ order' = [order EXCEPT ![c] = o]
        /\ UNCHANGED <<asOf, cash, held, result, event, fills, raised, events>> /\ event = None
        /\ order[c] # None
    BY DEF CancelConfirmed, Cancelable, IsWorking
  <1>1. order[c] \in Orders BY <1>0 DEF IInv, TypeOK
  <1>2. o \in Orders BY <1>1 DEF Orders, Working
  <1>3. cancels' \in [CancelKeys -> [client : Clients, status : {"CONFIRMED", "REJECTED"}] \cup {None}]
    BY DEF CancelConfirmed, IInv, TypeOK
  <1>4. TypeOK' BY <1>0, <1>2, <1>3 DEF IInv, TypeOK
  <1>5. order'[c] = o /\ \A d \in Clients : d # c => order'[d] = order[d]
    BY <1>0 DEF IInv, TypeOK
  <1>6. o # None BY <1>2, NoneIsNoValue
  <1>7. OrdersBalanced'
    <2> SUFFICES ASSUME NEW d \in Clients, order'[d] # None
                 PROVE  Balanced(d)'
      BY DEF OrdersBalanced
    <2>1. CASE d = c
      BY <2>1, <1>0, <1>5, <1>6 DEF Balanced, IInv, OrdersBalanced, IsWorking, Working, FillsOf
    <2>2. CASE d # c
      BY <2>2, <1>5, <1>0 DEF Balanced, IInv, OrdersBalanced, IsWorking, FillsOf
    <2> QED BY <2>1, <2>2
  <1>8. Remembered' BY <1>0, <1>5 DEF IInv, Remembered
  <1>9. FillsHaveOrders' BY <1>0, <1>5, <1>6 DEF IInv, FillsHaveOrders
  <1>10. QueueWorks' BY <1>0 DEF QueueWorks
  <1> QED BY <1>4, <1>7, <1>8, <1>9, <1>10 DEF IInv

\* A fill moves shares from what remains to what is filled, within the limit.
LEMMA FillInv ==
    ASSUME IInv, NEW c \in Clients, Fill(c)
    PROVE  IInv'
  <1> DEFINE r == order[c].req
             price == FillPrice(r, event.quote)
  <1>0. event # None /\ event.left > 0 /\ c \in event.queue BY DEF Fill, Turn
  <1>1. event \in Events /\ order[c] # None /\ IsWorking(c)
    BY <1>0 DEF IInv, TypeOK, QueueWorks, IsWorking
  <1>2. order[c] \in Orders /\ r \in Requests /\ event.quote \in Quotes /\ event.left \in Nat
        /\ event.queue \subseteq Clients
    BY <1>1 DEF IInv, TypeOK, Orders, Events
  <1>3. PICK q \in FillQuantities(c) :
          /\ cash' = CashAfter(r, q, price)
          /\ held' = [held EXCEPT ![r.instrument] = IF r.side = "BUY" THEN @ + q ELSE @ - q]
          /\ order' = [order EXCEPT ![c] = Filled(@, q, price)]
          /\ fills' = fills \cup {[client |-> c, nth |-> Cardinality({f \in fills : f.client = c}) + 1,
                                   side |-> r.side, instrument |-> r.instrument,
                                   qty |-> q, price |-> price]}
          /\ result' = [result EXCEPT ![c] = [req |-> @.req, outcome |-> @.outcome,
                                              status |-> Filled(order[c], q, price).status]]
          /\ event' = [quote |-> event.quote, left |-> event.left - q, queue |-> event.queue \ {c}]
    BY ZenonT(30) DEF Fill
  <1>a. UNCHANGED <<asOf, cancels, raised, events>> BY DEF Fill
  <1>4. Balanced(c) /\ order[c].remaining > 0 /\ order[c].remaining \in Nat
    BY <1>1, <1>2 DEF IInv, OrdersBalanced, Balanced, Orders
  <1>5. q \in Nat \ {0} /\ q <= order[c].remaining /\ q <= event.left
    BY <1>0, <1>2, <1>4 DEF FillQuantities, Smaller
  <1>6. price \in Nat /\ IF r.side = "BUY" THEN price <= r.limit ELSE price >= r.limit
    BY <1>2, PriceInLimit
  <1> DEFINE n == Filled(order[c], q, price)
  <1>7. /\ n \in Orders /\ n.req = r /\ n.filled = order[c].filled + q
        /\ n.remaining = order[c].remaining - q
        /\ n.status \in {"PARTIALLY_FILLED", "FILLED"}
        /\ n.status = "PARTIALLY_FILLED" <=> n.remaining > 0
        /\ n.status = "FILLED" => n.cash = 0
        /\ n.shares = IF r.side = "SELL" THEN n.remaining ELSE 0
    BY <1>2, <1>4, <1>5, <1>6, FilledFacts, SMTT(30) DEF Balanced
  <1>8. order' = [order EXCEPT ![c] = n] BY <1>3
  <1>9. result[c] \in Results /\ result[c].outcome = "ACCEPTED" /\ result[c].req = r
    BY <1>1 DEF IInv, TypeOK, Remembered
  <1> DEFINE x == [req |-> result[c].req, outcome |-> result[c].outcome, status |-> n.status]
  <1>10. result' = [result EXCEPT ![c] = x] BY <1>3
  <1> HIDE DEF n, price
  <1>11. x \in Results BY <1>7, <1>9 DEF Results, Working
  <1>12. order'[c] = n /\ result'[c] = x
         /\ \A d \in Clients : d # c => order'[d] = order[d] /\ result'[d] = result[d]
    BY <1>8, <1>10 DEF IInv, TypeOK
  <1>13. n # None /\ x # None BY <1>7, <1>11, NoneIsNoValue
  <1>14. TypeOK'
    <2>1. cash' \in Int
      <3>1. q * price \in Nat BY <1>5, <1>6
      <3>2. Fee(q * price) \in Nat BY <3>1, FeeNat
      <3> QED BY <1>3, <3>1, <3>2 DEF IInv, TypeOK, CashAfter, Debit, Proceeds, price
    <2>2. held' \in [Instruments -> Int]
      <3>1. r.instrument \in Instruments BY <1>2, RequestsWellFormed
      <3>2. held[r.instrument] + q \in Int /\ held[r.instrument] - q \in Int
        BY <3>1, <1>5 DEF IInv, TypeOK
      <3> QED BY <1>3, <3>1, <3>2 DEF IInv, TypeOK
    <2>3. order' \in [Clients -> Orders \cup {None}] BY <1>7, <1>8 DEF IInv, TypeOK
    <2>4. result' \in [Clients -> Results \cup {None}] BY <1>10, <1>11 DEF IInv, TypeOK
    <2>5. event' \in Events
      <3>1. event.left - q \in Nat BY <1>2, <1>5
      <3> QED BY <1>2, <1>3, <3>1 DEF Events
    <2> QED BY <1>a, <2>1, <2>2, <2>3, <2>4, <2>5 DEF IInv, TypeOK
  <1>15. OrdersBalanced'
    <2> SUFFICES ASSUME NEW d \in Clients, order'[d] # None PROVE Balanced(d)'
      BY DEF OrdersBalanced
    <2>1. CASE d = c
      <3>1. \A f \in FillsOf(c)' : f \in FillsOf(c) \/ f.price = price
        BY <1>3 DEF FillsOf
      <3>2. order[c].filled \in Nat /\ order[c].remaining \in Nat /\ r.qty \in Nat
            /\ order[c].filled + order[c].remaining = r.qty
        BY <1>1, <1>2, <1>4, RequestsWellFormed DEF Orders, Balanced, IsWorking, Working
      <3>3. n.filled + n.remaining = r.qty /\ n.filled <= r.qty
        BY <1>5, <1>7, <3>2
      <3>4. \A f \in FillsOf(c)' : IF r.side = "BUY" THEN f.price <= r.limit ELSE f.price >= r.limit
        BY <1>4, <1>6, <3>1 DEF Balanced
      <3>5. IsWorking(c)' <=> n.remaining > 0
        BY <1>7, <1>12, <1>13 DEF IsWorking, Working
      <3>6. ~IsWorking(c)' => n.cash = 0
        BY <1>7, <1>12, <1>13 DEF IsWorking, Working
      <3> QED BY <2>1, <1>7, <1>12, <3>3, <3>4, <3>5, <3>6 DEF Balanced
    <2>2. CASE d # c
      <3>1. FillsOf(d)' = FillsOf(d) BY <2>2, <1>3 DEF FillsOf
      <3> QED BY <2>2, <3>1, <1>12 DEF IInv, OrdersBalanced, Balanced, IsWorking
    <2> QED BY <2>1, <2>2
  <1>16. Remembered'
    <2>1. n.req.client = c BY <1>1, <1>7 DEF IInv, Remembered
    <2> QED BY <1>7, <1>9, <1>12, <1>13, <2>1, SMTT(30) DEF IInv, Remembered
  <1>17. FillsHaveOrders' BY <1>3, <1>12, <1>13 DEF IInv, FillsHaveOrders
  <1>18. QueueWorks'
    <2>1. event'.queue = event.queue \ {c} BY <1>3
    <2>2. \A d \in event.queue : d \in Clients /\ IsWorking(d) BY <1>0 DEF IInv, QueueWorks
    <2> QED BY <1>12, <2>1, <2>2 DEF QueueWorks, IsWorking
  <1> QED BY <1>14, <1>15, <1>16, <1>17, <1>18 DEF IInv

\* The steps that leave orders, answers and fills alone.
LEMMA QuietInv ==
    ASSUME IInv, UNCHANGED <<cash, held, order, result, fills>>,
           asOf' \in Nat, events' \in 0..MaxEvents,
           cancels' \in [CancelKeys -> [client : Clients, status : {"CONFIRMED", "REJECTED"}] \cup {None}],
           raised' \subseteq {"INSUFFICIENT_CASH", "INSUFFICIENT_POSITION"},
           event' \in Events \cup {None},
           event' # None => \A c \in event'.queue : c \in Clients /\ IsWorking(c)
    PROVE  IInv'
  <1>1. TypeOK' BY DEF IInv, TypeOK
  <1>2. \A c \in Clients : IsWorking(c)' <=> IsWorking(c) BY DEF IsWorking
  <1>3. OrdersBalanced' BY <1>2 DEF IInv, OrdersBalanced, Balanced, FillsOf
  <1>4. Remembered' /\ FillsHaveOrders' BY DEF IInv, Remembered, FillsHaveOrders
  <1>5. QueueWorks' BY <1>2 DEF QueueWorks
  <1> QED BY <1>1, <1>3, <1>4, <1>5 DEF IInv

\* Every step preserves the inductive invariant.
LEMMA NextInv == IInv /\ [Next]_vars => IInv'
  <1> SUFFICES ASSUME IInv, [Next]_vars PROVE IInv' OBVIOUS
  <1> USE DEF IInv
  <1>t. TypeOK OBVIOUS
  <1>1. ASSUME NEW r \in Requests, Reject(r) PROVE IInv' BY <1>1, RejectInv
  <1>2. ASSUME NEW r \in Requests, Accept(r) PROVE IInv' BY <1>2, AcceptInv
  <1>3. ASSUME NEW k \in CancelKeys, NEW c \in Clients, CancelConfirmed(k, c) PROVE IInv'
    BY <1>3, CancelInv
  <1>4. ASSUME NEW k \in CancelKeys, NEW c \in Clients, CancelRejected(k, c) PROVE IInv'
    <2>1. cancels' \in [CancelKeys -> [client : Clients, status : {"CONFIRMED", "REJECTED"}] \cup {None}]
      BY <1>4, <1>t DEF CancelRejected, TypeOK
    <2>2. event' = None BY <1>4 DEF CancelRejected
    <2> QED BY <1>4, <1>t, <2>1, <2>2, QuietInv DEF CancelRejected, TypeOK
  <1>5. ASSUME NEW e \in Quotes, InjectMarketEvent(e) PROVE IInv'
    <2>1. event' = [quote |-> e, left |-> e.liquidity, queue |-> Candidates(e)]
      BY <1>5 DEF InjectMarketEvent
    <2>2. event' \in Events /\ event'.queue = Candidates(e)
      BY <2>1, QuotesWellFormed DEF Events, Candidates
    <2>3. \A c \in Candidates(e) : c \in Clients /\ IsWorking(c) BY DEF Candidates
    <2>4. events' \in 0..MaxEvents BY <1>5, <1>t, AmountsAreNatural DEF InjectMarketEvent, TypeOK
    <2> QED BY <1>5, <1>t, <2>2, <2>3, <2>4, QuietInv DEF InjectMarketEvent, TypeOK
  <1>6. ASSUME NEW c \in Clients, Pass(c) PROVE IInv'
    <2>1. event \in Events /\ event # None BY <1>6, <1>t DEF Pass, Turn, TypeOK
    <2>2. event' = [event EXCEPT !.queue = @ \ {c}] BY <1>6 DEF Pass
    <2>3. event' \in Events /\ event'.queue = event.queue \ {c} BY <2>1, <2>2 DEF Events
    <2>4. \A d \in event.queue : d \in Clients /\ IsWorking(d) BY <2>1 DEF QueueWorks
    <2> QED BY <1>6, <1>t, <2>3, <2>4, QuietInv DEF Pass, TypeOK
  <1>7. ASSUME NEW c \in Clients, Fill(c) PROVE IInv' BY <1>7, FillInv
  <1>8. ASSUME NEW c \in Clients, FillRaises(c) PROVE IInv'
    <2>1. raised' \subseteq {"INSUFFICIENT_CASH", "INSUFFICIENT_POSITION"}
      BY <1>8, <1>t DEF FillRaises, Failure, TypeOK
    <2>2. event' = None BY <1>8 DEF FillRaises
    <2> QED BY <1>8, <1>t, <2>1, <2>2, QuietInv DEF FillRaises, TypeOK
  <1>9. CASE EndEvent BY ZenonT(30), <1>9, <1>t, QuietInv DEF EndEvent, TypeOK
  <1>10. CASE Advance
    <2>1. asOf' \in Nat BY <1>10, <1>t DEF Advance, TypeOK
    <2> QED BY <1>10, <1>t, <2>1, QuietInv DEF Advance, TypeOK
  <1>11. CASE UNCHANGED vars
    <2>1. event' # None => \A c \in event'.queue : c \in Clients /\ IsWorking(c)
      BY <1>11 DEF vars, QueueWorks
    <2> QED BY <1>11, <1>t, <2>1, QuietInv DEF vars, TypeOK
  <1> QED BY <1>1, <1>2, <1>3, <1>4, <1>5, <1>6, <1>7, <1>8, <1>9, <1>10, <1>11 DEF Next

-----------------------------------------------------------------------------

\* The inductive invariant holds in every reachable state.
THEOREM Inductive == Spec => []IInv
  BY InitInv, NextInv, PTL DEF Spec

\* Type correctness of the ledger, the working orders and the remembered answers.
THEOREM TypeCorrect == Spec => []TypeOK
  <1>1. IInv => TypeOK BY DEF IInv
  <1> QED BY Inductive, <1>1, PTL

\* No order ever fills beyond its quantity or its limit, and a closed order holds
\* no reserve, for every sequence of submits, cancels and market events.
THEOREM OrdersStayBalanced == Spec => []OrdersBalanced
  <1>1. IInv => OrdersBalanced BY DEF IInv
  <1> QED BY Inductive, <1>1, PTL

\* Closed orders and first answers never change.
THEOREM AnswersAreFinal == Spec => AnswersFinal
  <1> DEFINE Final == \A c \in Clients :
         /\ order[c] # None /\ ~IsWorking(c) => order'[c] = order[c]
         /\ result[c] # None => /\ result'[c].req = result[c].req
                                /\ result'[c].outcome = result[c].outcome
  <1>1. IInv /\ [Next]_vars => [Final]_vars
    <2> SUFFICES ASSUME IInv, Next, NEW c \in Clients
                 PROVE  /\ order[c] # None /\ ~IsWorking(c) => order'[c] = order[c]
                        /\ result[c] # None => /\ result'[c].req = result[c].req
                                               /\ result'[c].outcome = result[c].outcome
      OBVIOUS
    <2>0. /\ order \in [Clients -> Orders \cup {None}] /\ result \in [Clients -> Results \cup {None}]
          /\ \A r \in Requests : r.client \in Clients
          /\ \A d \in Clients : order[d] # None => result[d] # None
      BY RequestsWellFormed DEF IInv, TypeOK, Remembered
    <2>1. ASSUME NEW r \in Requests, Reject(r) \/ Accept(r)
          PROVE  order[r.client] = None /\ result[r.client] = None
                 /\ \A d \in Clients : d # r.client => order'[d] = order[d] /\ result'[d] = result[d]
      BY <2>1, <2>0 DEF Reject, Accept, Unknown
    <2>2. ASSUME NEW k \in CancelKeys, NEW d \in Clients, CancelConfirmed(k, d)
          PROVE  IsWorking(d) /\ result' = result /\ \A x \in Clients : x # d => order'[x] = order[x]
      BY <2>2, <2>0 DEF CancelConfirmed, Cancelable
    <2>3. ASSUME NEW d \in Clients, Fill(d)
          PROVE  /\ IsWorking(d)
                 /\ \A x \in Clients : x # d => order'[x] = order[x] /\ result'[x] = result[x]
                 /\ result'[d].req = result[d].req /\ result'[d].outcome = result[d].outcome
      <3>1. IsWorking(d) BY <2>3 DEF Fill, Turn, IInv, QueueWorks
      <3> QED BY <2>0, <2>3, <3>1 DEF Fill
    <2>4. ASSUME UNCHANGED <<order, result>> PROVE order'[c] = order[c] /\ result'[c] = result[c]
      BY <2>4
    <2>5. \/ \E r \in Requests : Reject(r) \/ Accept(r)
          \/ \E k \in CancelKeys, d \in Clients : CancelConfirmed(k, d)
          \/ \E d \in Clients : Fill(d)
          \/ UNCHANGED <<order, result>>
      BY DEF Next, CancelRejected, InjectMarketEvent, Pass, FillRaises, EndEvent, Advance
    <2> QED BY <2>0, <2>1, <2>2, <2>3, <2>4, <2>5
  <1> QED BY Inductive, <1>1, PTL DEF Spec, AnswersFinal
=============================================================================
