------------------------- MODULE PaperMoneyProofs --------------------------
(***************************************************************************)
(* The money of the Paper broker, for any fees, adverse costs, quotes and  *)
(* requests.  MoneyInv says what each order has reserved and spent, that   *)
(* the log of fills explains cash, positions and orders, and that cash     *)
(* covers what is reserved but for what fills have cost beyond the amount  *)
(* their order needed.  How far that goes is a matter of rounding: a fee   *)
(* rounded fill by fill is off by half a quantum each time, while the need *)
(* was rounded once.                                                       *)
(***************************************************************************)
EXTENDS PaperBrokerProofs, SumTheorems


FillRecords ==
    [client : Clients, nth : Nat, side : {"BUY", "SELL"}, instrument : Instruments,
     qty : Nat \ {0}, price : Nat]

\* The fill log is finite, numbered per order, and says what its orders say.
LogSound ==
    /\ IsFiniteSet(fills)
    /\ \A f \in fills : /\ f \in FillRecords
                        /\ f.nth <= Cardinality(FillsOf(f.client))
                        /\ f.side = order[f.client].req.side
                        /\ f.instrument = order[f.client].req.instrument

\* What the fills of an order have cost.
Spent(c) == Total([f \in FillsOf(c) |-> Debit(f.qty, f.price)], FillsOf(c))

IsBuy(c) == order[c] # None /\ order[c].req.side = "BUY"

\* A working buy reserves what its fills have left of its need; a sell no cash.
ReserveExact(c) ==
    order[c] # None =>
      /\ IsBuy(c) /\ IsWorking(c) => order[c].cash = Less(Need(order[c].req), Spent(c))
      /\ ~IsBuy(c) => order[c].cash = 0

\* The fills of a buy cost at most its limit and fee on them, and half a quantum each.
SpentBounded(c) ==
    IsBuy(c) => 10000 * Spent(c) <= (10000 + FeeBps) * (order[c].filled * order[c].req.limit)
                                    + 5000 * Cardinality(FillsOf(c))

\* Twice what the fills of each buy have cost beyond its need.
Overdrawn == [c \in Clients |-> IF IsBuy(c) THEN 2 * Less(Spent(c), Need(order[c].req)) ELSE 0]

CashCovers == 2 * Total(Reserved, Clients) <= 2 * cash + Total(Overdrawn, Clients)

PositionsCover ==
    /\ \A i \in Instruments : ReservedSell(i) <= held[i]
    /\ "INSUFFICIENT_POSITION" \notin raised

MoneyInv ==
    /\ LogSound
    /\ \A c \in Clients : ReserveExact(c) /\ SpentBounded(c)
    /\ CashCovers /\ PositionsCover /\ LedgerExplained

\* Rounding moves an amount by at most half a quantum.
LEMMA MoneyNear ==
    ASSUME NEW a \in Nat
    PROVE  10000 * Money(a, 10000) <= a + 5000 /\ a <= 10000 * Money(a, 10000) + 5000
  <1> DEFINE q == a \div 10000
             r == a % 10000
  <1>1. q \in Nat /\ r \in 0..9999 /\ a = 10000 * q + r BY SMTT(30)
  <1>2. Money(a, 10000) = q \/ Money(a, 10000) = q + 1 BY DEF Money
  <1>3. Money(a, 10000) = q => 2 * r <= 10000 BY SMTT(30), <1>1 DEF Money
  <1>4. Money(a, 10000) = q + 1 => 2 * r >= 10000 BY SMTT(30), <1>1 DEF Money
  <1> HIDE DEF q, r
  <1> QED BY SMTT(30), <1>1, <1>2, <1>3, <1>4

\* Products that the bounds below need.
LEMMA Products ==
    ASSUME NEW k \in Nat, NEW m \in Nat, NEW n \in Nat, NEW l \in Nat
    PROVE  /\ k * m \in Nat
           /\ (m + n) * l = m * l + n * l
           /\ k * (m + n) = k * m + k * n
           /\ m <= n => k * m <= k * n /\ m * l <= n * l
  <1>1. ASSUME m <= n PROVE k * m <= k * n /\ m * l <= n * l
    <2>1. PICK d \in Nat : n = m + d
      <3>1. n - m \in Nat /\ n = m + (n - m) BY <1>1
      <3> QED BY Zenon, <3>1
    <2>2. k * n = k * m + k * d /\ n * l = m * l + d * l BY <2>1
    <2>3. k * d \in Nat /\ d * l \in Nat /\ k * m \in Nat /\ m * l \in Nat OBVIOUS
    <2> QED BY <2>2, <2>3
  <1>2. k * m \in Nat /\ (m + n) * l = m * l + n * l /\ k * (m + n) = k * m + k * n OBVIOUS
  <1> QED BY Zenon, <1>1, <1>2

\* Ten thousand times the notional and its fee is within a half quantum of the rate.
LEMMA Charged ==
    ASSUME NEW n \in Nat
    PROVE  /\ Fee(n) \in Nat
           /\ 10000 * (n + Fee(n)) <= (10000 + FeeBps) * n + 5000
           /\ (10000 + FeeBps) * n <= 10000 * (n + Fee(n)) + 5000
  <1>1. n * FeeBps \in Nat /\ FeeBps \in Nat BY AmountsAreNatural
  <1>2. 10000 * Fee(n) <= n * FeeBps + 5000 /\ n * FeeBps <= 10000 * Fee(n) + 5000
    BY <1>1, MoneyNear DEF Fee
  <1>3. (10000 + FeeBps) * n = 10000 * n + n * FeeBps BY <1>1
  <1>4. Fee(n) \in Nat BY Zenon, FeeNat
  <1> QED BY <1>1, <1>2, <1>3, <1>4

LEMMA DebitNat == ASSUME NEW q \in Nat, NEW price \in Nat PROVE Debit(q, price) \in Nat
  <1>1. q * price \in Nat OBVIOUS
  <1> QED BY <1>1, FeeNat DEF Debit

\* A fill within the limit costs at most the limit's rate and half a quantum.
LEMMA DebitBound ==
    ASSUME NEW q \in Nat, NEW price \in Nat, NEW limit \in Nat, price <= limit
    PROVE  10000 * Debit(q, price) <= (10000 + FeeBps) * (q * limit) + 5000
  <1> DEFINE k == 10000 + FeeBps
  <1>1. q * price \in Nat /\ q * limit \in Nat /\ q * price <= q * limit BY Zenon, Products
  <1>2. k \in Nat BY AmountsAreNatural
  <1> HIDE DEF k
  <1>3. k * (q * price) <= k * (q * limit) /\ k * (q * price) \in Nat /\ k * (q * limit) \in Nat
    BY Zenon, <1>1, <1>2, Products
  <1>4. Debit(q, price) \in Nat BY Zenon, DebitNat
  <1>5. 10000 * Debit(q, price) <= k * (q * price) + 5000 BY <1>1, Charged DEF Debit, k
  <1> QED BY <1>3, <1>4, <1>5 DEF k

\* A buy reserves its limit's rate up to half a quantum.
LEMMA NeedBound ==
    ASSUME NEW r \in Requests
    PROVE  /\ Need(r) \in Nat
           /\ (10000 + FeeBps) * (r.qty * r.limit) <= 10000 * Need(r) + 5000
  <1>1. r.qty * r.limit \in Nat BY RequestsWellFormed
  <1> QED BY <1>1, Charged DEF Need

\* The shares each working sell of an instrument reserves.
SellReserve(i) ==
    [c \in Clients |-> IF IsWorking(c) /\ order[c].req.instrument = i THEN order[c].shares ELSE 0]

\* Reserves, costs and overdrafts are natural numbers.
MoneyTypes ==
    /\ \A c \in Clients : /\ IsFiniteSet(FillsOf(c)) /\ Cardinality(FillsOf(c)) \in Nat
                          /\ Spent(c) \in Nat
                          /\ Reserved[c] \in Nat /\ Overdrawn[c] \in Nat
                          /\ \A i \in Instruments : SellReserve(i)[c] \in Nat
    /\ Total(Reserved, Clients) \in Nat /\ Total(Overdrawn, Clients) \in Nat
    /\ \A i \in Instruments : ReservedSell(i) \in Nat

LEMMA MoneyTyped == IInv /\ LogSound => MoneyTypes
  <1> SUFFICES ASSUME IInv, LogSound PROVE MoneyTypes BY Zenon
  <1>1. ASSUME NEW c \in Clients
        PROVE  /\ IsFiniteSet(FillsOf(c)) /\ Cardinality(FillsOf(c)) \in Nat
               /\ Spent(c) \in Nat
               /\ Reserved[c] \in Nat /\ Overdrawn[c] \in Nat
               /\ \A i \in Instruments : SellReserve(i)[c] \in Nat
    <2>1. IsFiniteSet(FillsOf(c)) /\ Cardinality(FillsOf(c)) \in Nat
      BY Zenon, FS_Subset, FS_CardinalityType DEF LogSound, FillsOf
    <2> DEFINE d == [f \in FillsOf(c) |-> Debit(f.qty, f.price)]
    <2>2. \A f \in FillsOf(c) : d[f] \in Nat
      <3> SUFFICES ASSUME NEW f \in FillsOf(c) PROVE Debit(f.qty, f.price) \in Nat BY Zenon
      <3>1. f.qty \in Nat /\ f.price \in Nat BY Zenon DEF LogSound, FillRecords, FillsOf
      <3> QED BY Zenon, <3>1, DebitNat
    <2> HIDE DEF d
    <2>3. Spent(c) \in Nat BY Zenon, <2>1, <2>2, SumNat DEF Spent, Total, d
    <2>4. order[c] # None => order[c] \in Orders BY Zenon DEF IInv, TypeOK
    <2>5. order[c] # None => /\ order[c].cash \in Nat /\ order[c].shares \in Nat
                             /\ order[c].req \in Requests
      BY Zenon, <2>4 DEF Orders
    <2>6. order[c] # None => Need(order[c].req) \in Nat BY <2>5, NeedBound
    <2>7. Overdrawn[c] \in Nat BY <2>3, <2>6 DEF Overdrawn, IsBuy, Less
    <2> QED BY Zenon, <2>1, <2>3, <2>5, <2>7 DEF Reserved, SellReserve, IsWorking
  <1>2. IsFiniteSet(Clients) BY Zenon, ClientsAreOrdered
  <1>3. Total(Reserved, Clients) \in Nat BY Zenon, <1>1, <1>2, SumNat DEF Total
  <1>4. Total(Overdrawn, Clients) \in Nat BY Zenon, <1>1, <1>2, SumNat DEF Total
  <1>5. ASSUME NEW i \in Instruments PROVE ReservedSell(i) \in Nat
    <2>1. ReservedSell(i) = Total(SellReserve(i), Clients) BY Zenon DEF ReservedSell, SellReserve
    <2> QED BY Zenon, <1>1, <1>2, <2>1, SumNat DEF Total
  <1> QED BY Zenon, <1>1, <1>3, <1>4, <1>5 DEF MoneyTypes

\* A step that touches one order moves the totals by what it does to that order.
LEMMA OneOrder ==
    ASSUME MoneyTypes, MoneyTypes', NEW c \in Clients,
           \A d \in Clients : d # c => order'[d] = order[d] /\ FillsOf(d)' = FillsOf(d)
    PROVE  /\ Total(Reserved, Clients)' = Total(Reserved, Clients) - Reserved[c] + Reserved'[c]
           /\ Total(Overdrawn, Clients)' = Total(Overdrawn, Clients) - Overdrawn[c] + Overdrawn'[c]
           /\ \A i \in Instruments :
                ReservedSell(i)' = ReservedSell(i) - SellReserve(i)[c] + SellReserve(i)'[c]
           /\ \A d \in Clients : d # c => (ReserveExact(d) => ReserveExact(d)')
                                          /\ (SpentBounded(d) => SpentBounded(d)')
  <1>1. IsFiniteSet(Clients) BY Zenon, ClientsAreOrdered
  <1>2. ASSUME NEW d \in Clients, d # c PROVE Spent(d)' = Spent(d)
    <2>1. FillsOf(d)' = FillsOf(d) BY Zenon, <1>2
    <2> QED BY Zenon, <2>1 DEF Spent, Total
  <1>3. \A d \in Clients : d # c => Reserved'[d] = Reserved[d] BY Zenon DEF Reserved, IsWorking
  <1>4. \A d \in Clients : d # c => Overdrawn'[d] = Overdrawn[d] BY Zenon, <1>2 DEF Overdrawn, IsBuy
  <1>5. Total(Reserved, Clients)' = Total(Reserved, Clients) - Reserved[c] + Reserved'[c]
    BY <1>1, <1>3, SumChange DEF MoneyTypes, Total
  <1>6. Total(Overdrawn, Clients)' = Total(Overdrawn, Clients) - Overdrawn[c] + Overdrawn'[c]
    BY <1>1, <1>4, SumChange DEF MoneyTypes, Total
  <1>7. ASSUME NEW i \in Instruments
        PROVE  ReservedSell(i)' = ReservedSell(i) - SellReserve(i)[c] + SellReserve(i)'[c]
    <2>1. \A d \in Clients : d # c => SellReserve(i)'[d] = SellReserve(i)[d] BY Zenon DEF SellReserve, IsWorking
    <2>2. ReservedSell(i) = Total(SellReserve(i), Clients) BY Zenon DEF ReservedSell, SellReserve
    <2>3. ReservedSell(i)' = Total(SellReserve(i)', Clients) BY Zenon DEF ReservedSell, SellReserve, Total
    <2>4. \A d \in Clients : SellReserve(i)[d] \in Int /\ SellReserve(i)'[d] \in Int BY DEF MoneyTypes
    <2> QED BY <1>1, <2>1, <2>2, <2>3, <2>4, SumChange DEF Total
  <1>8. ASSUME NEW d \in Clients, d # c
        PROVE  (ReserveExact(d) => ReserveExact(d)') /\ (SpentBounded(d) => SpentBounded(d)')
    <2>1. order'[d] = order[d] /\ FillsOf(d)' = FillsOf(d) /\ Spent(d)' = Spent(d) BY Zenon, <1>2, <1>8
    <2> QED BY <2>1 DEF ReserveExact, SpentBounded, IsBuy, IsWorking
  <1> QED BY Zenon, <1>5, <1>6, <1>7, <1>8

\* Only order c and its fills change.
Only(c) == \A d \in Clients : d # c => order'[d] = order[d] /\ FillsOf(d)' = FillsOf(d)

\* The sum of the step.
LEMMA CoverSum ==
    ASSUME NEW R \in Int, NEW O \in Int, NEW a \in Int, NEW b \in Int, NEW x \in Int, NEW y \in Int,
           NEW m \in Int, NEW n \in Int, 2 * R <= 2 * m + O, 2 * b - 2 * a <= 2 * (n - m) + y - x
    PROVE  2 * (R - a + b) <= 2 * n + (O - x + y)
  OBVIOUS

\* What suffices for an order's change to keep the cash covered ...
LEMMA CashStep ==
    ASSUME MoneyTypes, MoneyTypes', NEW c \in Clients, Only(c), CashCovers, cash \in Int, cash' \in Int,
           2 * Reserved'[c] - 2 * Reserved[c] <= 2 * (cash' - cash) + Overdrawn'[c] - Overdrawn[c]
    PROVE  CashCovers'
  <1>1. /\ Total(Reserved, Clients)' = Total(Reserved, Clients) - Reserved[c] + Reserved'[c]
        /\ Total(Overdrawn, Clients)' = Total(Overdrawn, Clients) - Overdrawn[c] + Overdrawn'[c]
    BY Zenon, OneOrder DEF Only
  <1> DEFINE R == Total(Reserved, Clients)
             O == Total(Overdrawn, Clients)
             a == Reserved[c]
             b == Reserved'[c]
             x == Overdrawn[c]
             y == Overdrawn'[c]
  <1>2. R \in Int /\ O \in Int /\ a \in Int /\ b \in Int /\ x \in Int /\ y \in Int BY DEF MoneyTypes
  <1>3. 2 * R <= 2 * cash + O BY Zenon DEF CashCovers
  <1>4. 2 * b - 2 * a <= 2 * (cash' - cash) + y - x BY Zenon
  <1> HIDE DEF R, O, a, b, x, y
  <1>5. 2 * (R - a + b) <= 2 * cash' + (O - x + y) BY <1>2, <1>3, <1>4, CoverSum
  <1> QED BY Zenon, <1>1, <1>5 DEF CashCovers, R, O, a, b, x, y

\* ... and the positions.
LEMMA SharesStep ==
    ASSUME MoneyTypes, MoneyTypes', NEW c \in Clients, Only(c), NEW i \in Instruments,
           ReservedSell(i) <= held[i], held[i] \in Int, held'[i] \in Int,
           SellReserve(i)'[c] - SellReserve(i)[c] <= held'[i] - held[i]
    PROVE  ReservedSell(i)' <= held'[i]
  <1>1. ReservedSell(i)' = ReservedSell(i) - SellReserve(i)[c] + SellReserve(i)'[c]
    BY Zenon, OneOrder DEF Only
  <1>2. ReservedSell(i) \in Int /\ SellReserve(i)[c] \in Int /\ SellReserve(i)'[c] \in Int
    BY DEF MoneyTypes
  <1> QED BY <1>1, <1>2

\* What is typed now is typed after the step.
LEMMA MoneyTypedNext == ASSUME IInv', LogSound' PROVE MoneyTypes'
  <1>1. (IInv /\ LogSound => MoneyTypes)' BY MoneyTyped, PTL
  <1> QED BY Zenon, <1>1

\* Nothing is promised at the start.
LEMMA InitMoney == Init => MoneyInv
  <1> SUFFICES ASSUME Init PROVE MoneyInv BY Zenon
  <1> DEFINE none == [c \in Clients |-> 0]
  <1>1. fills = {} /\ raised = {} /\ cash = InitialCash /\ held = [i \in Instruments |-> 0]
        /\ order = [c \in Clients |-> None]
    BY Zenon DEF Init
  <1>2. IsFiniteSet(Clients) BY Zenon, ClientsAreOrdered
  <1>3. Total(none, Clients) = 0
    <2>1. \A S \in SUBSET Clients : Total(none, S) = 0
      <3> DEFINE Good == {S \in SUBSET Clients : Total(none, S) = 0}
      <3>1. ASSUME NEW S \in SUBSET Clients, \A U \in SUBSET S : U # S => U \in Good
            PROVE  S \in Good
        <4>1. CASE S = {} BY Zenon, <4>1, SumEmpty DEF Total
        <4>2. CASE S # {}
          <5>1. IsFiniteSet(S) BY Zenon, <1>2, FS_Subset
          <5>2. Pick(S) \in S /\ Total(none, S) = none[Pick(S)] + Total(none, S \ {Pick(S)})
            BY Zenon, <4>2, <5>1, SumOfPick DEF Total
          <5>3. Total(none, S \ {Pick(S)}) = 0 BY Zenon, <3>1, <5>2
          <5> QED BY <5>2, <5>3
        <4> QED BY Zenon, <4>1, <4>2
      <3> HIDE DEF Good
      <3>2. \A S \in SUBSET Clients : S \in Good BY Zenon, <1>2, <3>1, SubsetInduction
      <3> QED BY Zenon, <3>2 DEF Good
    <2> QED BY Zenon, <2>1
  <1>4. Reserved = none /\ Overdrawn = none BY Zenon, <1>1 DEF Reserved, Overdrawn, IsWorking, IsBuy
  <1>5. CashCovers BY <1>1, <1>3, <1>4, AmountsAreNatural DEF CashCovers
  <1>6. PositionsCover
    <2> SUFFICES ASSUME NEW i \in Instruments PROVE ReservedSell(i) <= held[i]
      BY Zenon, <1>1 DEF PositionsCover
    <2>1. ReservedSell(i) = Total(none, Clients) BY Zenon, <1>1 DEF ReservedSell, IsWorking
    <2> QED BY <1>1, <1>3, <2>1
  <1>7. LedgerExplained
    <2>1. \A f : Total(f, {}) = 0 BY Zenon, SumEmpty DEF Total
    <2>2. Shares({}) = 0 BY Zenon, <2>1 DEF Shares
    <2>3. \A i \in Instruments : Buys(i) = {} /\ Sells(i) = {} BY Zenon, <1>1 DEF Buys, Sells
    <2>4. \A i \in Instruments : held[i] = Shares(Buys(i)) - Shares(Sells(i)) BY <1>1, <2>2, <2>3
    <2>5. cash = InitialCash + Total([f \in fills |-> IF f.side = "BUY" THEN -Debit(f.qty, f.price)
                                        ELSE Proceeds(f.qty, f.price)], fills)
      BY <1>1, <2>1, AmountsAreNatural
    <2> QED BY Zenon, <1>1, <2>4, <2>5 DEF LedgerExplained
  <1>8. LogSound BY Zenon, <1>1, FS_EmptySet DEF LogSound
  <1>9. \A c \in Clients : ReserveExact(c) /\ SpentBounded(c) BY <1>1 DEF ReserveExact, SpentBounded, IsBuy
  <1> QED BY Zenon, <1>5, <1>6, <1>7, <1>8, <1>9 DEF MoneyInv

\* The steps that leave money, orders and fills alone.
LEMMA QuietMoney ==
    ASSUME MoneyInv, UNCHANGED <<cash, held, order, fills>>, "INSUFFICIENT_POSITION" \notin raised'
    PROVE  MoneyInv'
  <1>1. UNCHANGED <<Reserved, Overdrawn>> /\ \A i \in Instruments : UNCHANGED ReservedSell(i)
    BY Zenon DEF Reserved, Overdrawn, ReservedSell, IsWorking, IsBuy, Spent, FillsOf
  <1>2. LogSound' BY Zenon DEF MoneyInv, LogSound, FillsOf
  <1>3. \A c \in Clients : ReserveExact(c)' /\ SpentBounded(c)'
    BY DEF MoneyInv, ReserveExact, SpentBounded, IsBuy, IsWorking, Spent, FillsOf
  <1>4. CashCovers' /\ PositionsCover' BY Zenon, <1>1 DEF MoneyInv, CashCovers, PositionsCover, Total
  <1>5. LedgerExplained' BY Zenon DEF MoneyInv, LedgerExplained, Buys, Sells, FillsOf, Shares
  <1> QED BY Zenon, <1>2, <1>3, <1>4, <1>5 DEF MoneyInv

-----------------------------------------------------------------------------
(* A submit.                                                               *)

\* What an accepted submit does.
Accepting(r) ==
    LET c == r.client
        n == order'[c]
    IN  /\ c \in Clients /\ order[c] = None /\ FillsOf(c) = {}
        /\ n # None /\ n.req = r /\ n.filled = 0 /\ IsWorking(c)'
        /\ n.cash = IF r.side = "BUY" THEN Need(r) ELSE 0
        /\ n.shares = IF r.side = "SELL" THEN r.qty ELSE 0
        /\ \A d \in Clients : d # c => order'[d] = order[d]
        /\ UNCHANGED <<cash, held, fills, raised>>
        /\ r.side = "BUY" => ~(Need(r) > Available)
        /\ r.side = "SELL" => ~(r.qty > held[r.instrument] - ReservedSell(r.instrument))

\* An accepted submit does so.
LEMMA AcceptStep ==
    ASSUME IInv, NEW r \in Requests, Accept(r)
    PROVE  Accepting(r)
  <1> DEFINE c == r.client
             k == IF r.side = "BUY" THEN Need(r) ELSE 0
             s == IF r.side = "SELL" THEN r.qty ELSE 0
             o == [req |-> r, status |-> "ACCEPTED", remaining |-> r.qty, filled |-> 0, at |-> asOf,
                   cash |-> k, shares |-> s]
  <1>1. c \in Clients /\ r.qty \in Nat /\ r.side \in {"BUY", "SELL"} BY Zenon, RequestsWellFormed
  <1>2. order' = [order EXCEPT ![c] = o] /\ UNCHANGED <<cash, held, fills, raised>>
        /\ Refusal(r) = None /\ result[c] = None
    BY Zenon DEF Accept, Unknown
  <1>3. order[c] = None BY Zenon, <1>1, <1>2 DEF IInv, Remembered
  <1>4. order'[c] = o /\ \A d \in Clients : d # c => order'[d] = order[d] BY Zenon, <1>1, <1>2 DEF IInv, TypeOK
  <1>5. o # None
    <2>1. Need(r) \in Nat BY NeedBound
    <2>2. k \in Nat /\ s \in Nat /\ asOf \in Nat BY Zenon, <1>1, <2>1 DEF IInv, TypeOK
    <2> HIDE DEF k
    <2>3. o \in Orders BY Zenon, <1>1, <2>2 DEF Orders, Working
    <2> QED BY Zenon, <2>3, NoneIsNoValue
  <1>6. FillsOf(c) = {} BY Zenon, <1>1, <1>3 DEF IInv, FillsHaveOrders, FillsOf
  <1>7. IsWorking(c)' /\ order'[c].req = r /\ order'[c].cash = k /\ order'[c].shares = s
        /\ order'[c].filled = 0 /\ order'[c] # None
    BY <1>4, <1>5 DEF IsWorking, Working
  <1>8. r.side = "BUY" => ~(Need(r) > Available) BY Zenon, <1>2, NoneIsNoValue DEF Refusal
  <1>9. r.side = "SELL" => ~(r.qty > held[r.instrument] - ReservedSell(r.instrument))
    BY Zenon, <1>2, NoneIsNoValue DEF Refusal
  <1> HIDE DEF o
  <1> QED BY Zenon, <1>1, <1>2, <1>3, <1>4, <1>6, <1>7, <1>8, <1>9 DEF Accepting

\* The order is new and has no fills.
LEMMA AcceptFresh ==
    ASSUME IInv, IInv', LogSound, NEW r \in Requests, Accepting(r)
    PROVE  /\ r.client \in Clients /\ Only(r.client) /\ LogSound' /\ MoneyTypes /\ MoneyTypes'
           /\ Spent(r.client)' = 0 /\ Cardinality(FillsOf(r.client)') = 0
           /\ Reserved[r.client] = 0 /\ Overdrawn[r.client] = 0 /\ Overdrawn'[r.client] = 0
  <1> DEFINE c == r.client
  <1>1. /\ c \in Clients /\ order[c] = None /\ FillsOf(c) = {} /\ fills' = fills
        /\ \A d \in Clients : d # c => order'[d] = order[d]
        /\ order'[c].req = r
    BY Zenon DEF Accepting
  <1>2. \A d \in Clients : FillsOf(d)' = FillsOf(d) BY Zenon, <1>1 DEF FillsOf
  <1>3. Spent(c)' = 0 /\ Cardinality(FillsOf(c)') = 0
    BY Zenon, <1>1, <1>2, SumEmpty, FS_EmptySet DEF Spent, Total
  <1>4. LogSound'
    <2> SUFFICES ASSUME NEW f \in fills
                 PROVE  /\ f \in FillRecords
                        /\ f.nth <= Cardinality(FillsOf(f.client)')
                        /\ f.side = order'[f.client].req.side
                        /\ f.instrument = order'[f.client].req.instrument
      BY Zenon, <1>1 DEF LogSound
    <2>1. f \in FillRecords BY Zenon DEF LogSound
    <2>2. f.client \in Clients /\ f.client # c BY Zenon, <1>1, <2>1 DEF FillRecords, FillsOf
    <2> QED BY Zenon, <1>1, <1>2, <2>1, <2>2 DEF LogSound
  <1>5. MoneyTypes BY Zenon, MoneyTyped
  <1>6. MoneyTypes' BY Zenon, <1>4, MoneyTypedNext
  <1>7. Need(r) \in Nat BY NeedBound
  <1>8. Reserved[c] = 0 /\ Overdrawn[c] = 0 BY Zenon, <1>1 DEF Reserved, Overdrawn, IsWorking, IsBuy
  <1>9. Less(0, Need(r)) = 0 BY <1>7 DEF Less
  <1>10. Overdrawn'[c] = 0 BY <1>1, <1>3, <1>9 DEF Overdrawn
  <1> QED BY Zenon, <1>1, <1>2, <1>3, <1>4, <1>5, <1>6, <1>8, <1>10 DEF Only

\* An accepted buy reserves no more than is available.
LEMMA AcceptCash ==
    ASSUME IInv, IInv', LogSound, CashCovers, NEW r \in Requests, Accepting(r)
    PROVE  CashCovers' /\ ReserveExact(r.client)' /\ SpentBounded(r.client)'
  <1> DEFINE c == r.client
             k == IF r.side = "BUY" THEN Need(r) ELSE 0
             R == Total(Reserved, Clients)
             O == Total(Overdrawn, Clients)
  <1>1. /\ c \in Clients /\ Only(c) /\ MoneyTypes /\ MoneyTypes'
        /\ Spent(c)' = 0 /\ Cardinality(FillsOf(c)') = 0
        /\ Reserved[c] = 0 /\ Overdrawn[c] = 0 /\ Overdrawn'[c] = 0
    BY Zenon, AcceptFresh
  <1>2. order'[c] # None /\ order'[c].req = r /\ order'[c].cash = k /\ order'[c].filled = 0
        /\ IsWorking(c)' /\ cash' = cash /\ (r.side = "BUY" => ~(Need(r) > cash - R))
    BY Zenon DEF Accepting, Available
  <1>3. Need(r) \in Nat /\ r.limit \in Nat BY NeedBound, RequestsWellFormed
  <1>4. Total(Reserved, Clients)' = R - Reserved[c] + Reserved'[c]
        /\ Total(Overdrawn, Clients)' = O - Overdrawn[c] + Overdrawn'[c]
    BY Zenon, <1>1, OneOrder DEF Only
  <1>5. Reserved'[c] = k BY Zenon, <1>1, <1>2 DEF Reserved
  <1>6. R \in Nat /\ O \in Nat /\ cash \in Int BY Zenon, <1>1 DEF MoneyTypes, IInv, TypeOK
  <1>7. 2 * R <= 2 * cash + O BY Zenon DEF CashCovers
  <1> HIDE DEF R, O
  <1>8. k \in Nat /\ (r.side = "BUY" => k <= cash - R) /\ (r.side # "BUY" => k = 0)
    BY <1>2, <1>3, <1>6
  <1> HIDE DEF k, c
  <1>9. 2 * (R + k) <= 2 * cash + O BY <1>6, <1>7, <1>8
  <1>10. R - 0 + k = R + k /\ O - 0 + 0 = O BY <1>6, <1>8
  <1>11. CashCovers' BY Zenon, <1>1, <1>2, <1>4, <1>5, <1>9, <1>10 DEF CashCovers
  <1>12. IsBuy(c)' <=> r.side = "BUY" BY Zenon, <1>2 DEF IsBuy
  <1>13. Less(Need(r), 0) = Need(r) BY <1>3 DEF Less
  <1>14. ReserveExact(c)' BY Zenon, <1>1, <1>2, <1>8, <1>12, <1>13 DEF ReserveExact, k
  <1>15. (10000 + FeeBps) * (0 * r.limit) \in Nat BY <1>3, AmountsAreNatural
  <1>16. 10000 * 0 <= (10000 + FeeBps) * (0 * r.limit) + 5000 * 0 BY <1>15
  <1>17. SpentBounded(c)' BY <1>1, <1>2, <1>16 DEF SpentBounded
  <1> QED BY Zenon, <1>11, <1>14, <1>17 DEF c

\* An accepted sell reserves no more than is free.
LEMMA AcceptPositions ==
    ASSUME IInv, IInv', LogSound, PositionsCover, NEW r \in Requests, Accepting(r)
    PROVE  PositionsCover'
  <1> DEFINE c == r.client
             s == IF r.side = "SELL" THEN r.qty ELSE 0
  <1>1. c \in Clients /\ Only(c) /\ MoneyTypes /\ MoneyTypes' BY Zenon, AcceptFresh
  <1>2. /\ order[c] = None /\ order'[c].req = r /\ order'[c].shares = s /\ IsWorking(c)'
        /\ held' = held /\ raised' = raised
        /\ r.side = "SELL" => ~(r.qty > held[r.instrument] - ReservedSell(r.instrument))
    BY Zenon DEF Accepting
  <1> SUFFICES ASSUME NEW i \in Instruments PROVE ReservedSell(i)' <= held'[i]
    BY Zenon, <1>2 DEF PositionsCover
  <1>3. SellReserve(i)[c] = 0 BY Zenon, <1>1, <1>2 DEF SellReserve, IsWorking
  <1>4. SellReserve(i)'[c] = IF r.instrument = i THEN s ELSE 0 BY Zenon, <1>1, <1>2 DEF SellReserve
  <1>5. ReservedSell(i)' = ReservedSell(i) - SellReserve(i)[c] + SellReserve(i)'[c]
    BY Zenon, <1>1, OneOrder DEF Only
  <1>6. ReservedSell(i) \in Nat /\ held[i] \in Int /\ ReservedSell(i) <= held[i]
    BY Zenon, <1>1 DEF MoneyTypes, IInv, TypeOK, PositionsCover
  <1>7. r.qty \in Nat BY Zenon, RequestsWellFormed
  <1> HIDE DEF c
  <1>8. CASE r.side = "SELL" /\ r.instrument = i
    BY <1>2, <1>3, <1>4, <1>5, <1>6, <1>7, <1>8
  <1>9. CASE ~(r.side = "SELL" /\ r.instrument = i)
    <2>1. SellReserve(i)'[c] = 0 BY Zenon, <1>4, <1>9
    <2> QED BY <1>2, <1>3, <1>5, <1>6, <2>1
  <1> QED BY Zenon, <1>8, <1>9

\* An accepted order promises no more than was free.
LEMMA AcceptMoney ==
    ASSUME IInv, IInv', MoneyInv, NEW r \in Requests, Accept(r)
    PROVE  MoneyInv'
  <1> DEFINE c == r.client
  <1>1. Accepting(r) BY Zenon, AcceptStep
  <1>2. CashCovers' /\ ReserveExact(c)' /\ SpentBounded(c)' BY Zenon, <1>1, AcceptCash DEF MoneyInv
  <1>3. PositionsCover' BY Zenon, <1>1, AcceptPositions DEF MoneyInv
  <1>4. c \in Clients /\ Only(c) /\ LogSound' /\ MoneyTypes /\ MoneyTypes' BY Zenon, <1>1, AcceptFresh DEF MoneyInv
  <1>5. \A d \in Clients : d # c => ReserveExact(d)' /\ SpentBounded(d)'
    BY Zenon, <1>4, OneOrder DEF Only, MoneyInv
  <1>6. LedgerExplained'
    <2>1. /\ UNCHANGED <<cash, held, fills>> /\ FillsOf(c) = {} /\ order'[c].filled = 0
          /\ \A d \in Clients : d # c => order'[d] = order[d]
      BY Zenon, <1>1 DEF Accepting
    <2>2. \A d \in Clients : FillsOf(d)' = FillsOf(d) BY Zenon, <2>1 DEF FillsOf
    <2>3. Shares(FillsOf(c)') = 0 BY Zenon, <1>4, <2>1, <2>2, SumEmpty DEF Shares, Total
    <2>4. \A d \in Clients : order'[d] # None => order'[d].filled = Shares(FillsOf(d)')
      BY Zenon, <2>1, <2>2, <2>3 DEF MoneyInv, LedgerExplained
    <2> QED BY Zenon, <2>1, <2>4 DEF MoneyInv, LedgerExplained, Buys, Sells, Shares
  <1> HIDE DEF c
  <1> QED BY Zenon, <1>2, <1>3, <1>4, <1>5, <1>6 DEF MoneyInv

-----------------------------------------------------------------------------
(* A cancel.                                                               *)

\* What a confirmed cancel does.
Cancelling(c) ==
    /\ \A d \in Clients : d # c => order'[d] = order[d]
    /\ UNCHANGED <<cash, held, fills, raised>>
    /\ order[c] # None /\ order'[c] # None /\ ~IsWorking(c)'
    /\ order'[c].req = order[c].req /\ order'[c].filled = order[c].filled /\ order'[c].cash = 0

\* A confirmed cancel does so.
LEMMA CancelStep ==
    ASSUME IInv, NEW k \in CancelKeys, NEW c \in Clients, CancelConfirmed(k, c)
    PROVE  Cancelling(c)
  <1> DEFINE o == [req |-> order[c].req, status |-> "CANCELLED", remaining |-> 0,
                   filled |-> order[c].filled, at |-> order[c].at, cash |-> 0, shares |-> 0]
  <1>1. /\ order' = [order EXCEPT ![c] = o] /\ UNCHANGED <<cash, held, fills, raised>>
        /\ order[c] # None
    BY Zenon DEF CancelConfirmed, Cancelable, IsWorking
  <1>2. order'[c] = o /\ \A d \in Clients : d # c => order'[d] = order[d] BY Zenon, <1>1 DEF IInv, TypeOK
  <1>3. o # None
    <2>1. order[c] \in Orders BY Zenon, <1>1 DEF IInv, TypeOK
    <2>2. o \in Orders BY Zenon, <2>1 DEF Orders, Working
    <2> QED BY Zenon, <2>2, NoneIsNoValue
  <1>4. ~IsWorking(c)' BY <1>2 DEF IsWorking, Working
  <1> QED BY <1>1, <1>2, <1>3, <1>4 DEF Cancelling

\* The fills stay, and so does what they cost.
LEMMA CancelKeeps ==
    ASSUME IInv, IInv', LogSound, NEW c \in Clients, Cancelling(c)
    PROVE  /\ Only(c) /\ LogSound' /\ MoneyTypes /\ MoneyTypes' /\ FillsOf(c)' = FillsOf(c)
           /\ Spent(c)' = Spent(c) /\ (IsBuy(c)' <=> IsBuy(c))
           /\ Reserved'[c] = 0 /\ Overdrawn'[c] = Overdrawn[c]
           /\ \A i \in Instruments : SellReserve(i)'[c] = 0
  <1>1. /\ \A d \in Clients : d # c => order'[d] = order[d]
        /\ fills' = fills /\ order[c] # None /\ order'[c] # None /\ ~IsWorking(c)'
        /\ order'[c].req = order[c].req
    BY Zenon DEF Cancelling
  <1>2. \A d \in Clients : FillsOf(d)' = FillsOf(d) BY Zenon, <1>1 DEF FillsOf
  <1>3. Spent(c)' = Spent(c) BY Zenon, <1>2 DEF Spent, Total
  <1>4. LogSound'
    <2>1. \A d \in Clients : order'[d].req = order[d].req BY Zenon, <1>1
    <2>2. \A f \in fills : f.client \in Clients BY Zenon DEF LogSound, FillRecords
    <2> QED BY Zenon, <1>1, <1>2, <2>1, <2>2 DEF LogSound
  <1>5. MoneyTypes BY Zenon, MoneyTyped
  <1>6. MoneyTypes' BY Zenon, <1>4, MoneyTypedNext
  <1>7. IsBuy(c)' <=> IsBuy(c) BY Zenon, <1>1 DEF IsBuy
  <1>8. Reserved'[c] = 0 /\ \A i \in Instruments : SellReserve(i)'[c] = 0
    BY Zenon, <1>1 DEF Reserved, SellReserve
  <1>9. Overdrawn'[c] = Overdrawn[c] BY Zenon, <1>1, <1>3, <1>7 DEF Overdrawn
  <1> QED BY Zenon, <1>1, <1>2, <1>3, <1>4, <1>5, <1>6, <1>7, <1>8, <1>9 DEF Only

\* A confirmed cancel only gives back.
LEMMA CancelMoney ==
    ASSUME IInv, IInv', MoneyInv, NEW k \in CancelKeys, NEW c \in Clients, CancelConfirmed(k, c)
    PROVE  MoneyInv'
  <1>1. Cancelling(c) BY Zenon, CancelStep
  <1>2. /\ Only(c) /\ LogSound' /\ MoneyTypes /\ MoneyTypes' /\ FillsOf(c)' = FillsOf(c)
        /\ Spent(c)' = Spent(c) /\ (IsBuy(c)' <=> IsBuy(c))
        /\ Reserved'[c] = 0 /\ Overdrawn'[c] = Overdrawn[c]
        /\ \A i \in Instruments : SellReserve(i)'[c] = 0
    BY Zenon, <1>1, CancelKeeps DEF MoneyInv
  <1>3. /\ UNCHANGED <<cash, held, fills, raised>> /\ ~IsWorking(c)' /\ order'[c] # None
        /\ order[c] # None /\ \A d \in Clients : d # c => order'[d] = order[d]
        /\ order'[c].req = order[c].req /\ order'[c].filled = order[c].filled /\ order'[c].cash = 0
    BY Zenon, <1>1 DEF Cancelling
  <1>4. cash \in Int /\ \A i \in Instruments : held[i] \in Int BY Zenon DEF IInv, TypeOK
  <1>5. CashCovers'
    <2>1. Reserved[c] \in Nat /\ Overdrawn[c] \in Nat BY Zenon, <1>2 DEF MoneyTypes
    <2>2. 2 * Reserved'[c] - 2 * Reserved[c] <= 2 * (cash' - cash) + Overdrawn'[c] - Overdrawn[c]
      BY <1>2, <1>3, <1>4, <2>1
    <2> QED BY Zenon, <1>2, <1>3, <1>4, <2>2, CashStep DEF MoneyInv
  <1>6. PositionsCover'
    <2> SUFFICES ASSUME NEW i \in Instruments PROVE ReservedSell(i)' <= held'[i]
      BY Zenon, <1>3 DEF MoneyInv, PositionsCover
    <2>1. SellReserve(i)[c] \in Nat /\ ReservedSell(i) <= held[i] BY Zenon, <1>2 DEF MoneyTypes, MoneyInv, PositionsCover
    <2>2. SellReserve(i)'[c] - SellReserve(i)[c] <= held'[i] - held[i] BY <1>2, <1>3, <1>4, <2>1
    <2> QED BY Zenon, <1>2, <1>3, <1>4, <2>1, <2>2, SharesStep
  <1>7. \A d \in Clients : d # c => ReserveExact(d)' /\ SpentBounded(d)'
    BY Zenon, <1>2, OneOrder DEF Only, MoneyInv
  <1>8. ReserveExact(c)' BY Zenon, <1>2, <1>3 DEF MoneyInv, ReserveExact
  <1>9. SpentBounded(c)' BY <1>2, <1>3 DEF MoneyInv, SpentBounded
  <1>10. LedgerExplained'
    <2>1. \A d \in Clients : FillsOf(d)' = FillsOf(d) BY Zenon, <1>3 DEF FillsOf
    <2>2. \A d \in Clients : order'[d] # None => order'[d].filled = Shares(FillsOf(d)')
      BY Zenon, <1>3, <2>1 DEF MoneyInv, LedgerExplained
    <2> QED BY Zenon, <1>3, <2>2 DEF MoneyInv, LedgerExplained, Buys, Sells, Shares
  <1> QED BY Zenon, <1>2, <1>5, <1>6, <1>7, <1>8, <1>9, <1>10 DEF MoneyInv

-----------------------------------------------------------------------------
(* A fill.                                                                 *)

\* What is known of a fill that is about to happen or to raise.
LEMMA VisitFacts ==
    ASSUME IInv, NEW c \in Clients, Turn(c), NEW q \in FillQuantities(c)
    PROVE  LET o == order[c]
               price == FillPrice(o.req, event.quote)
           IN  /\ o \in Orders /\ o # None /\ IsWorking(c) /\ Balanced(c) /\ o.req \in Requests
               /\ q \in Nat \ {0} /\ q <= o.remaining
               /\ price \in Nat
               /\ IF o.req.side = "BUY" THEN price <= o.req.limit ELSE price >= o.req.limit
  <1>0. event # None /\ event.left > 0 /\ c \in event.queue BY Zenon DEF Turn
  <1>1. event \in Events /\ order[c] # None /\ IsWorking(c)
    BY Zenon, <1>0 DEF IInv, TypeOK, QueueWorks, IsWorking
  <1>2. order[c] \in Orders /\ order[c].req \in Requests /\ event.quote \in Quotes /\ event.left \in Nat
    BY Zenon, <1>1 DEF IInv, TypeOK, Orders, Events
  <1>3. Balanced(c) /\ order[c].remaining > 0 /\ order[c].remaining \in Nat
    BY Zenon, <1>1, <1>2 DEF IInv, OrdersBalanced, Balanced, Orders
  <1>4. q \in Nat \ {0} /\ q <= order[c].remaining
    BY <1>0, <1>2, <1>3 DEF FillQuantities, Smaller
  <1>5. LET price == FillPrice(order[c].req, event.quote)
        IN  price \in Nat /\ IF order[c].req.side = "BUY" THEN price <= order[c].req.limit
                                                          ELSE price >= order[c].req.limit
    BY Zenon, <1>2, PriceInLimit
  <1> QED BY Zenon, <1>1, <1>2, <1>3, <1>4, <1>5

\* A visit that raises never does so for want of shares.
LEMMA RaiseMoney ==
    ASSUME IInv, MoneyInv, NEW c \in Clients, FillRaises(c)
    PROVE  MoneyInv'
  <1> DEFINE r == order[c].req
             price == FillPrice(r, event.quote)
  <1>1. PICK q \in FillQuantities(c) : raised' = raised \cup {Failure(r, q, price)}
    BY Zenon DEF FillRaises
  <1>2. Turn(c) BY Zenon DEF FillRaises
  <1>3. /\ order[c] \in Orders /\ order[c] # None /\ IsWorking(c) /\ Balanced(c) /\ r \in Requests
        /\ q \in Nat \ {0} /\ q <= order[c].remaining
    BY Zenon, <1>2, VisitFacts
  <1>4. r.side = "SELL" => q <= held[r.instrument]
    <2> SUFFICES ASSUME r.side = "SELL" PROVE q <= held[r.instrument] BY Zenon
    <2> DEFINE i == r.instrument
    <2>1. i \in Instruments BY Zenon, <1>3, RequestsWellFormed
    <2>2. MoneyTypes BY Zenon, MoneyTyped DEF MoneyInv
    <2>3. SellReserve(i)[c] = order[c].remaining BY Zenon, <1>3 DEF SellReserve, Balanced
    <2>4. ReservedSell(i) = Total(SellReserve(i), Clients) BY Zenon DEF ReservedSell, SellReserve
    <2>5. \A d \in Clients : SellReserve(i)[d] \in Nat BY Zenon, <2>1, <2>2 DEF MoneyTypes
    <2> HIDE DEF i
    <2>6. SellReserve(i)[c] <= ReservedSell(i) BY Zenon, <2>4, <2>5, SumNat, ClientsAreOrdered DEF Total
    <2>7. ReservedSell(i) <= held[i] /\ ReservedSell(i) \in Nat /\ held[i] \in Int
      BY Zenon, <2>1, <2>2 DEF MoneyInv, PositionsCover, MoneyTypes, IInv, TypeOK
    <2>8. order[c].remaining \in Nat BY Zenon, <1>3 DEF Orders
    <2> QED BY <1>3, <2>3, <2>6, <2>7, <2>8 DEF i
  <1>5. r.side \in {"BUY", "SELL"} /\ held[r.instrument] \in Int
    BY Zenon, <1>3, RequestsWellFormed DEF IInv, TypeOK
  <1>6. Failure(r, q, price) # "INSUFFICIENT_POSITION"
    BY <1>3, <1>4, <1>5, NoneIsNoValue DEF Failure
  <1>7. "INSUFFICIENT_POSITION" \notin raised' BY Zenon, <1>1, <1>6 DEF MoneyInv, PositionsCover
  <1> QED BY Zenon, <1>7, QuietMoney DEF FillRaises

\* A fill adds its quantity to the shares of the fills it joins.
LEMMA SharesAdd ==
    ASSUME NEW S, IsFiniteSet(S), NEW a, a \notin S, \A f \in S \cup {a} : f.qty \in Nat
    PROVE  Shares(S \cup {a}) = a.qty + Shares(S) /\ Shares(S) \in Nat
  <1> DEFINE g == [f \in S \cup {a} |-> f.qty]
             h == [f \in S |-> f.qty]
  <1>1. \A f \in S : g[f] = h[f] /\ h[f] \in Nat BY Zenon
  <1>2. g[a] = a.qty /\ \A f \in S \cup {a} : g[f] \in Int OBVIOUS
  <1> HIDE DEF g, h
  <1>3. Total(g, S \cup {a}) = g[a] + Total(g, S) BY Zenon, <1>2, SumAdd DEF Total
  <1>4. Total(g, S) = Total(h, S) BY Zenon, <1>1, SumSame DEF Total
  <1>5. Total(h, S) \in Nat BY Zenon, <1>1, SumNat DEF Total
  <1> QED BY Zenon, <1>2, <1>3, <1>4, <1>5 DEF Shares, g, h


\* The record of order c's next fill.
NextFill(c, q, price) ==
    [client |-> c, nth |-> Cardinality(FillsOf(c)) + 1, side |-> order[c].req.side,
     instrument |-> order[c].req.instrument, qty |-> q, price |-> price]

\* What a fill of q shares at a price does to its order ...
OrderFilled(c, q, price) ==
    LET o == order[c]
        n == order'[c]
    IN  /\ o # None /\ n # None /\ IsWorking(c) /\ Balanced(c)
        /\ o.req \in Requests /\ n.req = o.req
        /\ o.filled \in Nat /\ o.remaining \in Nat /\ o.cash \in Nat
        /\ q \in Nat \ {0} /\ q <= o.remaining /\ price \in Nat
        /\ o.req.side = "BUY" => price <= o.req.limit
        /\ n.filled = o.filled + q /\ n.remaining = o.remaining - q
        /\ n.shares = IF o.req.side = "SELL" THEN n.remaining ELSE 0
        /\ IsWorking(c)' => n.cash = IF o.req.side = "BUY" THEN Less(o.cash, Debit(q, price)) ELSE o.cash
        /\ ~IsWorking(c)' => n.cash = 0 /\ n.remaining = 0
        /\ \A d \in Clients : d # c => order'[d] = order[d]

\* ... and to the account.
AccountFilled(c, q, price) ==
    LET r == order[c].req
    IN  /\ cash' = IF r.side = "BUY" THEN cash - Debit(q, price) ELSE cash + Proceeds(q, price)
        /\ held'[r.instrument] = IF r.side = "BUY" THEN held[r.instrument] + q ELSE held[r.instrument] - q
        /\ \A j \in Instruments : j # r.instrument => held'[j] = held[j]
        /\ r.side = "SELL" => Proceeds(q, price) >= 0
        /\ fills' = fills \cup {NextFill(c, q, price)}
        /\ raised' = raised

\* A fill does both.
LEMMA FillStep ==
    ASSUME IInv, NEW c \in Clients, Fill(c)
    PROVE  \E q, price : OrderFilled(c, q, price) /\ AccountFilled(c, q, price)
  <1> DEFINE r == order[c].req
             price == FillPrice(r, event.quote)
  <1>1. PICK q \in FillQuantities(c) :
          /\ Failure(r, q, price) = None
          /\ cash' = CashAfter(r, q, price)
          /\ held' = [held EXCEPT ![r.instrument] = IF r.side = "BUY" THEN @ + q ELSE @ - q]
          /\ order' = [order EXCEPT ![c] = Filled(@, q, price)]
          /\ fills' = fills \cup {NextFill(c, q, price)}
    BY ZenonT(30) DEF Fill, FillsOf, NextFill
  <1>2. Turn(c) /\ raised' = raised BY Zenon DEF Fill
  <1>3. /\ order[c] \in Orders /\ order[c] # None /\ IsWorking(c) /\ Balanced(c) /\ r \in Requests
        /\ q \in Nat \ {0} /\ q <= order[c].remaining
        /\ price \in Nat
        /\ IF r.side = "BUY" THEN price <= r.limit ELSE price >= r.limit
    BY Zenon, <1>2, VisitFacts
  <1> DEFINE n == Filled(order[c], q, price)
  <1>4. /\ n \in Orders /\ n.req = r /\ n.filled = order[c].filled + q
        /\ n.remaining = order[c].remaining - q
        /\ n.status \in {"PARTIALLY_FILLED", "FILLED"}
        /\ n.status = "PARTIALLY_FILLED" <=> n.remaining > 0
        /\ n.status = "FILLED" => n.cash = 0
        /\ n.shares = IF r.side = "SELL" THEN n.remaining ELSE 0
    BY <1>3, FilledFacts, SMTT(30) DEF Balanced
  <1>5. n.status = "PARTIALLY_FILLED" =>
          n.cash = IF r.side = "BUY" THEN Less(order[c].cash, Debit(q, price)) ELSE order[c].cash
    BY Zenon DEF Filled
  <1>6. /\ r.side \in {"BUY", "SELL"} /\ r.instrument \in Instruments
        /\ order[c].filled \in Nat /\ order[c].remaining \in Nat /\ order[c].cash \in Nat
        /\ held \in [Instruments -> Int] /\ n.remaining \in Nat
    BY Zenon, <1>3, <1>4, RequestsWellFormed DEF IInv, TypeOK, Orders
  <1>7. order'[c] = n /\ \A d \in Clients : d # c => order'[d] = order[d] BY Zenon, <1>1 DEF IInv, TypeOK
  <1>8. n # None BY Zenon, <1>4, NoneIsNoValue
  <1> HIDE DEF n, price
  <1>9. IsWorking(c)' <=> n.status = "PARTIALLY_FILLED" BY Zenon, <1>4, <1>7, <1>8 DEF IsWorking, Working
  <1>10. ~IsWorking(c)' => n.cash = 0 /\ n.remaining = 0 BY <1>4, <1>6, <1>9
  <1>11. OrderFilled(c, q, price)
    BY Zenon, <1>3, <1>4, <1>5, <1>6, <1>7, <1>8, <1>9, <1>10 DEF OrderFilled
  <1>12. r.side = "SELL" => Proceeds(q, price) >= 0
    <2>1. q * price \in Nat BY <1>3
    <2>2. Proceeds(q, price) \in Int BY <2>1, FeeNat DEF Proceeds
    <2> QED BY <1>1, <2>2, NoneIsNoValue DEF Failure
  <1>13. /\ cash' = IF r.side = "BUY" THEN cash - Debit(q, price) ELSE cash + Proceeds(q, price)
         /\ held'[r.instrument] = IF r.side = "BUY" THEN held[r.instrument] + q ELSE held[r.instrument] - q
         /\ \A j \in Instruments : j # r.instrument => held'[j] = held[j]
    BY Zenon, <1>1, <1>6 DEF CashAfter
  <1>14. AccountFilled(c, q, price) BY Zenon, <1>1, <1>2, <1>12, <1>13 DEF AccountFilled
  <1> QED BY Zenon, <1>11, <1>14

\* The fill is a new record, of its order.
LEMMA FillNew ==
    ASSUME MoneyTypes, LogSound, NEW c \in Clients, NEW q, NEW price,
           OrderFilled(c, q, price), AccountFilled(c, q, price)
    PROVE  LET x == NextFill(c, q, price)
           IN  /\ x \in FillRecords /\ x \notin fills /\ fills' = fills \cup {x}
               /\ FillsOf(c)' = FillsOf(c) \cup {x} /\ x \notin FillsOf(c)
               /\ Cardinality(FillsOf(c)') = Cardinality(FillsOf(c)) + 1
               /\ Only(c)
  <1> DEFINE x == NextFill(c, q, price)
             z == Cardinality(FillsOf(c))
  <1>1. z \in Nat /\ IsFiniteSet(FillsOf(c)) BY Zenon DEF MoneyTypes
  <1>2. x.client = c /\ x.nth = z + 1 BY Zenon DEF NextFill
  <1>3. x \in FillRecords
    BY <1>1, RequestsWellFormed DEF OrderFilled, NextFill, FillRecords
  <1>4. fills' = fills \cup {x} /\ \A d \in Clients : d # c => order'[d] = order[d]
    BY Zenon DEF AccountFilled, OrderFilled
  <1>5. \A f \in fills : f.client = c => f.nth \in Nat /\ f.nth <= z
    BY Zenon DEF LogSound, FillRecords
  <1> HIDE DEF x, z
  <1>6. x \notin fills BY <1>1, <1>2, <1>5
  <1>7. /\ FillsOf(c)' = FillsOf(c) \cup {x} /\ x \notin FillsOf(c)
        /\ \A d \in Clients : d # c => FillsOf(d)' = FillsOf(d)
    BY Zenon, <1>2, <1>4, <1>6 DEF FillsOf
  <1>8. Cardinality(FillsOf(c)') = z + 1 BY Zenon, <1>1, <1>7, FS_AddElement DEF z
  <1> QED BY Zenon, <1>3, <1>4, <1>6, <1>7, <1>8 DEF Only, x, z

\* The log stays sound.
LEMMA FillLog ==
    ASSUME MoneyTypes, LogSound, NEW c \in Clients, NEW q, NEW price,
           OrderFilled(c, q, price), AccountFilled(c, q, price)
    PROVE  LogSound'
  <1> DEFINE x == NextFill(c, q, price)
             z == Cardinality(FillsOf(c))
  <1>1. /\ x \in FillRecords /\ x \notin fills /\ fills' = fills \cup {x}
        /\ Cardinality(FillsOf(c)') = z + 1 /\ Only(c)
    BY Zenon, FillNew
  <1>2. z \in Nat BY Zenon DEF MoneyTypes
  <1>3. /\ x.client = c /\ x.nth = z + 1 /\ x.side = order[c].req.side
        /\ x.instrument = order[c].req.instrument
    BY Zenon DEF NextFill
  <1>4. \A d \in Clients : order'[d].req = order[d].req BY Zenon DEF OrderFilled
  <1> HIDE DEF x, z
  <1>5. IsFiniteSet(fills') BY Zenon, <1>1, FS_AddElement DEF LogSound
  <1> SUFFICES ASSUME NEW f \in fills'
               PROVE  /\ f \in FillRecords
                      /\ f.nth <= Cardinality(FillsOf(f.client)')
                      /\ f.side = order'[f.client].req.side
                      /\ f.instrument = order'[f.client].req.instrument
    BY Zenon, <1>5 DEF LogSound
  <1>6. CASE f = x BY <1>1, <1>2, <1>3, <1>4, <1>6
  <1>7. CASE f \in fills
    <2>1. /\ f.nth \in Nat /\ f.nth <= Cardinality(FillsOf(f.client)) /\ f.client \in Clients
          /\ f \in FillRecords /\ f.side = order[f.client].req.side
          /\ f.instrument = order[f.client].req.instrument
      BY Zenon, <1>7 DEF LogSound, FillRecords
    <2>2. CASE f.client = c
      <3>1. f.nth <= z BY Zenon, <2>1, <2>2 DEF z
      <3>2. f.nth <= Cardinality(FillsOf(f.client)') BY <1>1, <1>2, <2>1, <2>2, <3>1
      <3> QED BY Zenon, <1>4, <2>1, <3>2
    <2>3. CASE f.client # c
      <3>1. f.nth <= Cardinality(FillsOf(f.client)') BY Zenon, <1>1, <2>1, <2>3 DEF Only
      <3> QED BY Zenon, <1>4, <2>1, <3>1
    <2> QED BY Zenon, <2>2, <2>3
  <1> QED BY Zenon, <1>1, <1>6, <1>7

\* The order has spent the debit of the fill more.
LEMMA FillSpent ==
    ASSUME MoneyTypes, LogSound, NEW c \in Clients, NEW q, NEW price,
           OrderFilled(c, q, price), AccountFilled(c, q, price)
    PROVE  Spent(c)' = Spent(c) + Debit(q, price)
  <1> DEFINE x == NextFill(c, q, price)
             S == FillsOf(c)
             g == [f \in S \cup {x} |-> Debit(f.qty, f.price)]
             h == [f \in S |-> Debit(f.qty, f.price)]
  <1>1. x \in FillRecords /\ FillsOf(c)' = S \cup {x} /\ x \notin S BY Zenon, FillNew
  <1>2. x.qty = q /\ x.price = price BY Zenon DEF NextFill
  <1>3. S \subseteq FillRecords BY Zenon DEF LogSound, FillsOf
  <1>4. IsFiniteSet(S) /\ Spent(c) \in Nat BY Zenon DEF MoneyTypes
  <1> HIDE DEF x
  <1>5. \A f \in S \cup {x} : f.qty \in Nat /\ f.price \in Nat
    <2> HIDE DEF S
    <2> QED BY Zenon, <1>1, <1>3 DEF FillRecords
  <1>6. \A f \in S \cup {x} : Debit(f.qty, f.price) \in Nat BY Zenon, <1>5, DebitNat
  <1>7. Spent(c)' = Total(g, S \cup {x}) /\ Spent(c) = Total(h, S) BY Zenon, <1>1 DEF Spent, Total
  <1> HIDE DEF S
  <1>8. g[x] = Debit(q, price) /\ (\A f \in S : g[f] = h[f]) /\ \A f \in S \cup {x} : g[f] \in Int
    BY <1>2, <1>6
  <1> HIDE DEF g, h
  <1>9. Total(g, S \cup {x}) = g[x] + Total(g, S) BY Zenon, <1>1, <1>4, <1>8, SumAdd DEF Total
  <1>10. Total(g, S) = Total(h, S) BY Zenon, <1>4, <1>8, SumSame DEF Total
  <1>11. Debit(q, price) \in Nat BY Zenon, DebitNat DEF OrderFilled
  <1> QED BY <1>4, <1>7, <1>8, <1>9, <1>10, <1>11

\* Less is a truncated difference.
LEMMA LessFacts ==
    ASSUME NEW n \in Nat, NEW s \in Nat, NEW d \in Nat
    PROVE  /\ Less(n, s) \in Nat /\ Less(s, n) \in Nat /\ Less(n, s) - Less(s, n) = n - s
           /\ Less(n, s + d) \in Nat /\ Less(s + d, n) \in Nat
           /\ Less(n, s + d) - Less(s + d, n) = n - (s + d)
           /\ Less(Less(n, s), d) = Less(n, s + d)
  BY DEF Less

\* What is left of the need stays reserved.
LEMMA FillReserve ==
    ASSUME MoneyTypes, LogSound, cash \in Int, NEW c \in Clients, NEW q, NEW price, ReserveExact(c),
           OrderFilled(c, q, price), AccountFilled(c, q, price)
    PROVE  /\ ReserveExact(c)'
           /\ 2 * Reserved'[c] - 2 * Reserved[c] <= 2 * (cash' - cash) + Overdrawn'[c] - Overdrawn[c]
  <1> DEFINE o == order[c]
             r == o.req
             m == order'[c]
             n == Need(r)
             s == Spent(c)
             d == Debit(q, price)
             p == Proceeds(q, price)
  <1>1. /\ o # None /\ m # None /\ IsWorking(c) /\ r \in Requests /\ m.req = r
        /\ IsWorking(c)' => m.cash = IF r.side = "BUY" THEN Less(o.cash, d) ELSE o.cash
        /\ ~IsWorking(c)' => m.cash = 0
        /\ cash' = IF r.side = "BUY" THEN cash - d ELSE cash + p
        /\ r.side = "SELL" => p >= 0
    BY Zenon DEF OrderFilled, AccountFilled
  <1>2. q \in Nat /\ price \in Nat BY Zenon DEF OrderFilled
  <1>3. n \in Nat /\ s \in Nat /\ d \in Nat /\ cash \in Int /\ r.side \in {"BUY", "SELL"}
    <2>1. n \in Nat BY <1>1, NeedBound
    <2>2. d \in Nat BY Zenon, <1>2, DebitNat
    <2>3. s \in Nat BY Zenon DEF MoneyTypes
    <2>4. r.side \in {"BUY", "SELL"} BY Zenon, <1>1, RequestsWellFormed
    <2> QED BY Zenon, <2>1, <2>2, <2>3, <2>4
  <1>4. p \in Int
    <2>1. q * price \in Nat BY <1>2
    <2> QED BY <2>1, FeeNat DEF Proceeds
  <1>5. Spent(c)' = s + d BY Zenon, FillSpent
  <1>6. (IsBuy(c)' <=> r.side = "BUY") /\ (IsBuy(c) <=> r.side = "BUY") BY Zenon, <1>1 DEF IsBuy
  <1>7. o.cash = IF r.side = "BUY" THEN Less(n, s) ELSE 0 BY Zenon, <1>1, <1>6 DEF ReserveExact
  <1>8. Reserved[c] = o.cash /\ Reserved'[c] = IF IsWorking(c)' THEN m.cash ELSE 0
    BY Zenon, <1>1 DEF Reserved
  <1>9. /\ Overdrawn[c] = IF r.side = "BUY" THEN 2 * Less(s, n) ELSE 0
        /\ Overdrawn'[c] = IF r.side = "BUY" THEN 2 * Less(s + d, n) ELSE 0
    BY Zenon, <1>1, <1>5, <1>6 DEF Overdrawn
  <1> DEFINE w == IsWorking(c)'
             mc == m.cash
             side == r.side
  <1>10. ReserveExact(c)' <=> (side = "BUY" /\ w => mc = Less(n, s + d)) /\ (side # "BUY" => mc = 0)
    BY Zenon, <1>1, <1>5, <1>6 DEF ReserveExact
  <1> DEFINE a == Less(n, s)
             b == Less(s, n)
             a2 == Less(n, s + d)
             b2 == Less(s + d, n)
  <1> HIDE DEF n, s, d, p
  <1>11. /\ a \in Nat /\ b \in Nat /\ a - b = n - s /\ a2 \in Nat /\ b2 \in Nat /\ a2 - b2 = n - (s + d)
         /\ Less(a, d) = a2
    BY <1>3, LessFacts
  <1>12. (side = "BUY" /\ w => mc = a2) /\ (side # "BUY" => mc = 0) /\ (~w => mc = 0)
    BY Zenon, <1>1, <1>7, <1>11
  <1> HIDE DEF w, mc, side, a, b, a2, b2
  <1>13. CASE side = "BUY"
    <2>1. Reserved[c] = a /\ Reserved'[c] <= a2 /\ Reserved'[c] \in Nat
          /\ Overdrawn[c] = 2 * b /\ Overdrawn'[c] = 2 * b2 /\ cash' = cash - d
      BY <1>1, <1>7, <1>8, <1>9, <1>11, <1>12, <1>13 DEF w, mc, side, a, b, a2, b2
    <2>2. 2 * Reserved'[c] - 2 * Reserved[c] <= 2 * (cash' - cash) + Overdrawn'[c] - Overdrawn[c]
      BY <1>3, <1>11, <2>1
    <2> QED BY Zenon, <1>10, <1>12, <2>2 DEF a2
  <1>14. CASE side # "BUY"
    <2>1. Reserved[c] = 0 /\ Reserved'[c] = 0 /\ Overdrawn[c] = 0 /\ Overdrawn'[c] = 0
          /\ cash' = cash + p /\ p >= 0
      BY Zenon, <1>1, <1>3, <1>7, <1>8, <1>9, <1>12, <1>14 DEF w, mc, side
    <2>2. 2 * Reserved'[c] - 2 * Reserved[c] <= 2 * (cash' - cash) + Overdrawn'[c] - Overdrawn[c]
      BY <1>3, <1>4, <2>1
    <2> QED BY Zenon, <1>10, <1>12, <1>14, <2>2 DEF a2
  <1> QED BY Zenon, <1>13, <1>14

\* A fill of a buy costs at most its limit and fee, and half a quantum.
LEMMA FillDebit ==
    ASSUME NEW c, NEW q, NEW price, OrderFilled(c, q, price), order[c].req.side = "BUY"
    PROVE  10000 * Debit(q, price) <= (10000 + FeeBps) * (q * order[c].req.limit) + 5000
  <1> DEFINE l == order[c].req.limit
  <1>1. q \in Nat /\ price \in Nat /\ order[c].req \in Requests /\ price <= l BY DEF OrderFilled
  <1>2. l \in Nat BY Zenon, <1>1, RequestsWellFormed
  <1> HIDE DEF l
  <1>3. 10000 * Debit(q, price) <= (10000 + FeeBps) * (q * l) + 5000 BY <1>1, <1>2, DebitBound
  <1> QED BY <1>3 DEF l

\* The fills of a buy cost at most its limit and fee, and half a quantum each.
LEMMA FillBounded ==
    ASSUME MoneyTypes, LogSound, NEW c \in Clients, NEW q, NEW price, SpentBounded(c),
           OrderFilled(c, q, price), AccountFilled(c, q, price)
    PROVE  SpentBounded(c)'
  <1> DEFINE r == order[c].req
             k == 10000 + FeeBps
             m == order[c].filled
             z == Cardinality(FillsOf(c))
             s == Spent(c)
             d == Debit(q, price)
             l == r.limit
  <1> SUFFICES ASSUME IsBuy(c)'
               PROVE  10000 * Spent(c)' <= k * (order'[c].filled * order'[c].req.limit)
                                           + 5000 * Cardinality(FillsOf(c)')
    BY DEF SpentBounded
  <1>1. r.side = "BUY" /\ IsBuy(c) /\ order'[c].filled = m + q /\ order'[c].req.limit = l
    BY Zenon DEF OrderFilled, IsBuy
  <1>2. q \in Nat /\ price \in Nat /\ m \in Nat /\ price <= l /\ r \in Requests
    BY Zenon, <1>1 DEF OrderFilled
  <1>3. l \in Nat /\ k \in Nat /\ z \in Nat /\ s \in Nat
    BY <1>2, RequestsWellFormed, AmountsAreNatural DEF MoneyTypes
  <1>4. 10000 * s <= k * (m * l) + 5000 * z BY <1>1 DEF SpentBounded
  <1>5. Spent(c)' = s + d BY Zenon, FillSpent
  <1>6. Cardinality(FillsOf(c)') = z + 1 BY Zenon, FillNew
  <1>8. 10000 * d <= k * (q * l) + 5000 BY <1>1, FillDebit
  <1> HIDE DEF l, m, z, s
  <1>7. d \in Nat BY Zenon, <1>2, DebitNat
  <1> HIDE DEF k, d
  <1>9. m * l \in Nat /\ q * l \in Nat /\ (m + q) * l = m * l + q * l BY <1>2, <1>3, Products
  <1>10. k * ((m + q) * l) = k * (m * l) + k * (q * l) /\ k * (m * l) \in Nat /\ k * (q * l) \in Nat
    BY <1>3, <1>9, Products
  <1>11. 10000 * (s + d) <= k * ((m + q) * l) + 5000 * (z + 1)
    BY <1>3, <1>4, <1>7, <1>8, <1>10
  <1> QED BY <1>1, <1>5, <1>6, <1>11

\* A sell hands over shares it had reserved.
LEMMA FillPositions ==
    ASSUME MoneyTypes, MoneyTypes', NEW c \in Clients, NEW q, NEW price, Only(c), PositionsCover,
           OrderFilled(c, q, price), AccountFilled(c, q, price),
           \A j \in Instruments : held[j] \in Int
    PROVE  PositionsCover'
  <1> DEFINE o == order[c]
             i == o.req.instrument
             side == o.req.side
  <1>1. /\ o.req \in Requests /\ IsWorking(c) /\ Balanced(c) /\ o # None /\ order'[c].req = o.req
        /\ order'[c].shares = IF side = "SELL" THEN o.remaining - q ELSE 0
        /\ o.remaining \in Nat /\ q \in Nat /\ q <= o.remaining
        /\ ~IsWorking(c)' => o.remaining - q = 0
    BY Zenon DEF OrderFilled
  <1>2. /\ held'[i] = IF side = "BUY" THEN held[i] + q ELSE held[i] - q
        /\ \A j \in Instruments : j # i => held'[j] = held[j]
        /\ raised' = raised
    BY Zenon DEF AccountFilled
  <1>3. side \in {"BUY", "SELL"} /\ i \in Instruments BY Zenon, <1>1, RequestsWellFormed
  <1> SUFFICES ASSUME NEW j \in Instruments PROVE ReservedSell(j)' <= held'[j]
    BY Zenon, <1>2 DEF PositionsCover
  <1>4. SellReserve(j)[c] = IF i = j /\ side = "SELL" THEN o.remaining ELSE 0
    BY Zenon, <1>1 DEF SellReserve, Balanced
  <1>5. SellReserve(j)'[c] = IF i = j /\ side = "SELL" THEN o.remaining - q ELSE 0
    BY Zenon, <1>1 DEF SellReserve
  <1>6. ReservedSell(j) <= held[j] /\ held[j] \in Int BY Zenon DEF PositionsCover
  <1> DEFINE m == o.remaining
  <1> HIDE DEF i, side, m
  <1>7. /\ m \in Nat /\ q \in Nat
        /\ SellReserve(j)'[c] - SellReserve(j)[c]
             = IF i = j /\ side = "SELL" THEN (m - q) - m ELSE 0 - 0
    BY Zenon, <1>1, <1>4, <1>5 DEF m
  <1>8. held'[j] \in Int /\ SellReserve(j)'[c] - SellReserve(j)[c] <= held'[j] - held[j]
    <2>1. CASE i # j
      <3>1. held'[j] = held[j] BY Zenon, <1>2, <2>1
      <3> QED BY <1>6, <1>7, <2>1, <3>1
    <2>2. CASE i = j /\ side = "SELL"
      <3>1. held'[j] = held[j] - q BY Zenon, <1>2, <2>2
      <3> QED BY <1>6, <1>7, <2>2, <3>1
    <2>3. CASE i = j /\ side # "SELL"
      <3>1. held'[j] = held[j] + q BY Zenon, <1>2, <1>3, <2>3
      <3> QED BY <1>6, <1>7, <2>3, <3>1
    <2> QED BY Zenon, <2>1, <2>2, <2>3
  <1> QED BY Zenon, <1>6, <1>8, SharesStep

\* What a fill moves in cash.
CashOf(f) == IF f.side = "BUY" THEN -Debit(f.qty, f.price) ELSE Proceeds(f.qty, f.price)

\* The cash still is what the fills moved.
LEMMA FillCashExplained ==
    ASSUME MoneyTypes, LogSound, NEW c \in Clients, NEW q, NEW price, LedgerExplained,
           OrderFilled(c, q, price), AccountFilled(c, q, price)
    PROVE  cash' = InitialCash + Total([f \in fills |-> CashOf(f)], fills)'
  <1> DEFINE x == NextFill(c, q, price)
             g == [f \in fills \cup {x} |-> CashOf(f)]
             h == [f \in fills |-> CashOf(f)]
  <1>1. x \in FillRecords /\ x \notin fills /\ fills' = fills \cup {x} BY Zenon, FillNew
  <1>2. x.qty = q /\ x.price = price /\ x.side = order[c].req.side BY Zenon DEF NextFill
  <1>3. IsFiniteSet(fills) /\ fills \subseteq FillRecords BY Zenon DEF LogSound
  <1> HIDE DEF x
  <1>4. \A f \in FillRecords : CashOf(f) \in Int
    <2> SUFFICES ASSUME NEW f \in FillRecords PROVE CashOf(f) \in Int BY Zenon
    <2>1. f.qty \in Nat /\ f.price \in Nat BY Zenon DEF FillRecords
    <2>2. f.qty * f.price \in Nat BY <2>1
    <2>3. Debit(f.qty, f.price) \in Nat BY Zenon, <2>1, DebitNat
    <2>4. Fee(f.qty * f.price) \in Nat BY Zenon, <2>2, FeeNat
    <2>5. Proceeds(f.qty, f.price) \in Int BY <2>2, <2>4 DEF Proceeds
    <2> QED BY <2>3, <2>5 DEF CashOf
  <1>5. g[x] = CashOf(x) /\ (\A f \in fills \cup {x} : g[f] \in Int)
        /\ \A f \in fills : g[f] = h[f] /\ h[f] \in Int
    BY Zenon, <1>1, <1>3, <1>4
  <1>6. cash = InitialCash + Total(h, fills) BY Zenon DEF LedgerExplained, CashOf
  <1>7. Total([f \in fills |-> CashOf(f)], fills)' = Total(g, fills \cup {x})
    BY Zenon, <1>1 DEF Total, CashOf
  <1>8. CashOf(x) \in Int BY Zenon, <1>1, <1>4
  <1>9. cash' = cash + CashOf(x)
    <2>1. CASE x.side = "BUY"
      <3>1. cash' = cash - Debit(q, price) /\ CashOf(x) = -Debit(q, price)
        BY Zenon, <1>2, <2>1 DEF AccountFilled, CashOf
      <3>2. Debit(q, price) \in Nat BY Zenon, DebitNat DEF OrderFilled
      <3>3. Total(h, fills) \in Int BY Zenon, <1>3, <1>5, SumInt DEF Total
      <3>4. cash \in Int BY <1>6, <3>3, AmountsAreNatural
      <3> QED BY Zenon, <3>1, <3>2, <3>4
    <2>2. CASE x.side # "BUY" BY Zenon, <1>2, <2>2 DEF AccountFilled, CashOf
    <2> QED BY Zenon, <2>1, <2>2
  <1> HIDE DEF g, h
  <1>10. Total(g, fills \cup {x}) = g[x] + Total(g, fills) BY Zenon, <1>1, <1>3, <1>5, SumAdd DEF Total
  <1>11. Total(g, fills) = Total(h, fills) BY Zenon, <1>3, <1>5, SumSame DEF Total
  <1>12. Total(h, fills) \in Int BY Zenon, <1>3, <1>5, SumInt DEF Total
  <1>13. cash' = InitialCash + (CashOf(x) + Total(h, fills))
    BY <1>6, <1>8, <1>9, <1>12, AmountsAreNatural
  <1> QED BY Zenon, <1>5, <1>7, <1>10, <1>11, <1>13

\* Each position still is what the fills bought less what they sold.
LEMMA FillHeldExplained ==
    ASSUME MoneyTypes, LogSound, NEW c \in Clients, NEW q, NEW price, LedgerExplained,
           OrderFilled(c, q, price), AccountFilled(c, q, price), NEW j \in Instruments
    PROVE  held'[j] = (Shares(Buys(j)) - Shares(Sells(j)))'
  <1> DEFINE x == NextFill(c, q, price)
             B == Buys(j)
             S == Sells(j)
             i == order[c].req.instrument
             side == order[c].req.side
  <1>1. x \in FillRecords /\ x \notin fills /\ fills' = fills \cup {x} BY Zenon, FillNew
  <1>2. x.qty = q /\ x.side = side /\ x.instrument = i BY Zenon DEF NextFill
  <1>3. IsFiniteSet(fills) /\ fills \subseteq FillRecords BY Zenon DEF LogSound
  <1>4. B \subseteq fills /\ S \subseteq fills BY Zenon DEF Buys, Sells
  <1> HIDE DEF x
  <1>5. Buys(j)' = (IF i = j /\ side = "BUY" THEN B \cup {x} ELSE B)
        /\ Sells(j)' = (IF i = j /\ side = "SELL" THEN S \cup {x} ELSE S)
    BY Zenon, <1>1, <1>2 DEF Buys, Sells
  <1>6. held[j] = Shares(B) - Shares(S) BY Zenon DEF LedgerExplained
  <1>7. (Shares(Buys(j)) - Shares(Sells(j)))' = Shares(Buys(j)') - Shares(Sells(j)') BY Zenon DEF Shares
  <1>8. /\ held'[i] = IF side = "BUY" THEN held[i] + q ELSE held[i] - q
        /\ j # i => held'[j] = held[j]
        /\ q \in Nat /\ side \in {"BUY", "SELL"}
    BY Zenon, RequestsWellFormed DEF AccountFilled, OrderFilled
  <1> HIDE DEF B, S, i, side
  <1>9. /\ IsFiniteSet(B) /\ IsFiniteSet(S) /\ x \notin B /\ x \notin S
        /\ \A f \in fills \cup {x} : f.qty \in Nat
    BY Zenon, <1>1, <1>3, <1>4, FS_Subset DEF FillRecords
  <1>10. /\ Shares(B \cup {x}) = q + Shares(B) /\ Shares(B) \in Nat
         /\ Shares(S \cup {x}) = q + Shares(S) /\ Shares(S) \in Nat
    BY Zenon, <1>2, <1>4, <1>9, SharesAdd
  <1>11. CASE i # j BY Zenon, <1>5, <1>6, <1>7, <1>8, <1>11
  <1>12. CASE i = j /\ side = "BUY"
    <2>1. Shares(Buys(j)') - Shares(Sells(j)') = (q + Shares(B)) - Shares(S) BY Zenon, <1>5, <1>10, <1>12
    <2>2. held'[j] = (Shares(B) - Shares(S)) + q BY Zenon, <1>6, <1>8, <1>12
    <2> QED BY <1>7, <1>8, <1>10, <2>1, <2>2
  <1>13. CASE i = j /\ side = "SELL"
    <2>1. Shares(Buys(j)') - Shares(Sells(j)') = Shares(B) - (q + Shares(S)) BY Zenon, <1>5, <1>10, <1>13
    <2>2. held'[j] = (Shares(B) - Shares(S)) - q BY Zenon, <1>6, <1>8, <1>13
    <2> QED BY <1>7, <1>8, <1>10, <2>1, <2>2
  <1> QED BY Zenon, <1>8, <1>11, <1>12, <1>13

\* Each order still says what its fills say.
LEMMA FillFilledExplained ==
    ASSUME MoneyTypes, LogSound, NEW c \in Clients, NEW q, NEW price, LedgerExplained,
           OrderFilled(c, q, price), AccountFilled(c, q, price), NEW d \in Clients,
           order'[d] # None
    PROVE  order'[d].filled = Shares(FillsOf(d)')
  <1> DEFINE x == NextFill(c, q, price)
  <1>1. /\ x \in FillRecords /\ x \notin FillsOf(c) /\ FillsOf(c)' = FillsOf(c) \cup {x} /\ Only(c)
    BY Zenon, FillNew
  <1>2. x.qty = q BY Zenon DEF NextFill
  <1> HIDE DEF x
  <1>3. CASE d # c BY Zenon, <1>1, <1>3 DEF Only, LedgerExplained
  <1>4. CASE d = c
    <2>1. order[c].filled = Shares(FillsOf(c)) BY Zenon DEF LedgerExplained, OrderFilled
    <2>2. order'[c].filled = order[c].filled + q /\ q \in Nat /\ order[c].filled \in Nat BY Zenon DEF OrderFilled
    <2>3. IsFiniteSet(FillsOf(c)) BY Zenon DEF MoneyTypes
    <2>4. \A f \in FillsOf(c) \cup {x} : f.qty \in Nat BY Zenon, <1>1 DEF LogSound, FillsOf, FillRecords
    <2>5. Shares(FillsOf(c) \cup {x}) = q + Shares(FillsOf(c)) BY Zenon, <1>1, <1>2, <2>3, <2>4, SharesAdd
    <2>6. order'[c].filled = Shares(FillsOf(c)) + q /\ Shares(FillsOf(c)) \in Nat /\ q \in Nat
      BY Zenon, <2>1, <2>2
    <2>7. order'[c].filled = q + Shares(FillsOf(c)) BY <2>6
    <2> QED BY Zenon, <1>1, <1>4, <2>5, <2>7
  <1> QED BY Zenon, <1>3, <1>4

\* A fill moves cash, shares, reservation and log together.
LEMMA FillMoney ==
    ASSUME IInv, IInv', MoneyInv, NEW c \in Clients, Fill(c)
    PROVE  MoneyInv'
  <1>1. PICK q, price : OrderFilled(c, q, price) /\ AccountFilled(c, q, price) BY Zenon, FillStep
  <1>2. LogSound /\ CashCovers /\ PositionsCover /\ LedgerExplained /\ ReserveExact(c) /\ SpentBounded(c)
    BY Zenon DEF MoneyInv
  <1>3. MoneyTypes BY Zenon, <1>2, MoneyTyped
  <1>4. LogSound' BY Zenon, <1>1, <1>2, <1>3, FillLog
  <1>5. MoneyTypes' BY Zenon, <1>4, MoneyTypedNext
  <1>6. Only(c) BY Zenon, <1>1, <1>2, <1>3, FillNew
  <1>7. cash \in Int /\ cash' \in Int /\ \A j \in Instruments : held[j] \in Int BY Zenon DEF IInv, TypeOK
  <1>8. /\ ReserveExact(c)'
        /\ 2 * Reserved'[c] - 2 * Reserved[c] <= 2 * (cash' - cash) + Overdrawn'[c] - Overdrawn[c]
    BY Zenon, <1>1, <1>2, <1>3, <1>7, FillReserve
  <1>9. CashCovers' BY Zenon, <1>2, <1>3, <1>5, <1>6, <1>7, <1>8, CashStep
  <1>10. SpentBounded(c)' BY Zenon, <1>1, <1>2, <1>3, FillBounded
  <1>11. \A d \in Clients : d # c => ReserveExact(d)' /\ SpentBounded(d)'
    BY Zenon, <1>3, <1>5, <1>6, OneOrder DEF Only, MoneyInv
  <1>12. PositionsCover' BY Zenon, <1>1, <1>2, <1>3, <1>5, <1>6, <1>7, FillPositions
  <1>13. cash' = InitialCash + Total([f \in fills |-> CashOf(f)], fills)'
    BY Zenon, <1>1, <1>2, <1>3, FillCashExplained
  <1>14. \A j \in Instruments : held'[j] = (Shares(Buys(j)) - Shares(Sells(j)))'
    BY Zenon, <1>1, <1>2, <1>3, FillHeldExplained
  <1>15. \A d \in Clients : order'[d] # None => order'[d].filled = Shares(FillsOf(d)')
    BY Zenon, <1>1, <1>2, <1>3, FillFilledExplained
  <1>16. LedgerExplained'
    <2>1. \A d \in Clients : Shares(FillsOf(d))' = Shares(FillsOf(d)') BY Zenon DEF Shares
    <2> QED BY Zenon, <1>13, <1>14, <1>15, <2>1 DEF LedgerExplained, CashOf
  <1> QED BY Zenon, <1>4, <1>8, <1>9, <1>10, <1>11, <1>12, <1>16 DEF MoneyInv

\* Every step keeps the money in order.
LEMMA NextMoney == IInv /\ IInv' /\ MoneyInv /\ [Next]_vars => MoneyInv'
  <1> SUFFICES ASSUME IInv, IInv', MoneyInv, [Next]_vars PROVE MoneyInv' BY Zenon
  <1>0. "INSUFFICIENT_POSITION" \notin raised BY Zenon DEF MoneyInv, PositionsCover
  <1>1. ASSUME NEW r \in Requests, Reject(r) PROVE MoneyInv' BY Zenon, <1>0, <1>1, QuietMoney DEF Reject
  <1>2. ASSUME NEW r \in Requests, Accept(r) PROVE MoneyInv' BY Zenon, <1>2, AcceptMoney
  <1>3. ASSUME NEW k \in CancelKeys, NEW c \in Clients, CancelConfirmed(k, c) PROVE MoneyInv'
    BY Zenon, <1>3, CancelMoney
  <1>4. ASSUME NEW k \in CancelKeys, NEW c \in Clients, CancelRejected(k, c) PROVE MoneyInv'
    BY Zenon, <1>0, <1>4, QuietMoney DEF CancelRejected
  <1>5. ASSUME NEW e \in Quotes, InjectMarketEvent(e) PROVE MoneyInv'
    BY Zenon, <1>0, <1>5, QuietMoney DEF InjectMarketEvent
  <1>6. ASSUME NEW c \in Clients, Pass(c) PROVE MoneyInv' BY Zenon, <1>0, <1>6, QuietMoney DEF Pass
  <1>7. ASSUME NEW c \in Clients, Fill(c) PROVE MoneyInv' BY Zenon, <1>7, FillMoney
  <1>8. ASSUME NEW c \in Clients, FillRaises(c) PROVE MoneyInv' BY Zenon, <1>8, RaiseMoney
  <1>9. CASE EndEvent BY Zenon, <1>0, <1>9, QuietMoney DEF EndEvent
  <1>10. CASE Advance BY Zenon, <1>0, <1>10, QuietMoney DEF Advance
  <1>11. CASE UNCHANGED vars BY Zenon, <1>0, <1>11, QuietMoney DEF vars
  <1> QED BY Zenon, <1>1, <1>2, <1>3, <1>4, <1>5, <1>6, <1>7, <1>8, <1>9, <1>10, <1>11 DEF Next

\* What a buy has spent beyond its need is at most the rounding.
LEMMA OverdrawnRounds == IInv /\ MoneyInv => PromisesCovered
  <1> SUFFICES ASSUME IInv, MoneyInv PROVE PromisesCovered BY Zenon
  <1>1. MoneyTypes BY Zenon, MoneyTyped DEF MoneyInv
  <1>2. ASSUME NEW c \in Clients
        PROVE  Overdrawn[c] \in Int /\ Rounding[c] \in Int /\ Overdrawn[c] <= Rounding[c]
    <2> DEFINE z == Cardinality(FillsOf(c))
    <2>1. z \in Nat /\ Overdrawn[c] \in Nat /\ Spent(c) \in Nat BY Zenon, <1>1 DEF MoneyTypes
    <2>2. Rounding[c] = IF IsBuy(c) /\ FillsOf(c) # {} THEN 1 + z ELSE 0 BY Zenon DEF Rounding, IsBuy
    <2> HIDE DEF z
    <2>3. CASE ~IsBuy(c) BY <2>1, <2>2, <2>3 DEF Overdrawn
    <2>4. CASE IsBuy(c)
      <3> DEFINE o == order[c]
                 k == 10000 + FeeBps
      <3>1. o # None BY Zenon, <2>4 DEF IsBuy
      <3>2. o \in Orders /\ o.req \in Requests /\ o.filled \in Nat /\ o.filled <= o.req.qty
        BY Zenon, <3>1 DEF IInv, TypeOK, Orders, OrdersBalanced, Balanced
      <3>3. o.req.qty \in Nat /\ o.req.limit \in Nat BY Zenon, <3>2, RequestsWellFormed
      <3>4. Need(o.req) \in Nat /\ k * (o.req.qty * o.req.limit) <= 10000 * Need(o.req) + 5000
        BY <3>2, NeedBound
      <3>5. 10000 * Spent(c) <= k * (o.filled * o.req.limit) + 5000 * z
        BY <2>4 DEF MoneyInv, SpentBounded, z
      <3>6. Overdrawn[c] = 2 * Less(Spent(c), Need(o.req)) BY Zenon, <2>4 DEF Overdrawn
      <3>7. k \in Nat BY AmountsAreNatural
      <3> HIDE DEF o, k
      <3>8. o.filled * o.req.limit \in Nat /\ o.req.qty * o.req.limit \in Nat
            /\ o.filled * o.req.limit <= o.req.qty * o.req.limit
        BY Zenon, <3>2, <3>3, Products
      <3>9. k * (o.filled * o.req.limit) \in Nat /\ k * (o.req.qty * o.req.limit) \in Nat
            /\ k * (o.filled * o.req.limit) <= k * (o.req.qty * o.req.limit)
        BY Zenon, <3>7, <3>8, Products
      <3>10. 10000 * Spent(c) <= 10000 * Need(o.req) + 5000 + 5000 * z
        BY <2>1, <3>4, <3>5, <3>9
      <3>11. Overdrawn[c] <= 1 + z BY <2>1, <3>4, <3>6, <3>10 DEF Less
      <3>12. FillsOf(c) = {} => Overdrawn[c] = 0
        <4> SUFFICES ASSUME FillsOf(c) = {} PROVE Overdrawn[c] = 0 BY Zenon
        <4>1. Spent(c) = 0 BY Zenon, SumEmpty DEF Spent, Total
        <4> QED BY <3>4, <3>6, <4>1 DEF Less
      <3> QED BY <2>1, <2>2, <2>4, <3>11, <3>12
    <2> QED BY Zenon, <2>3, <2>4
  <1>3. IsFiniteSet(Clients) BY Zenon, ClientsAreOrdered
  <1>4. Total(Overdrawn, Clients) <= Total(Rounding, Clients) /\ Total(Rounding, Clients) \in Int
    BY Zenon, <1>2, <1>3, SumMonotonic, SumInt DEF Total
  <1>5. Total(Reserved, Clients) \in Nat /\ Total(Overdrawn, Clients) \in Nat /\ cash \in Int
    BY Zenon, <1>1 DEF MoneyTypes, IInv, TypeOK
  <1>6. 2 * (Total(Reserved, Clients) - cash) <= Total(Rounding, Clients)
    BY <1>4, <1>5 DEF MoneyInv, CashCovers
  <1> QED BY Zenon, <1>6 DEF MoneyInv, PositionsCover, PromisesCovered

-----------------------------------------------------------------------------

\* The money invariant holds in every reachable state.
THEOREM MoneyInductive == Spec => []MoneyInv
  BY Inductive, InitMoney, NextMoney, PTL DEF Spec

\* For any fees, prices, requests and order of events: the cash reserved by working
\* buys exceeds the cash at most by the rounding of fees charged fill by fill, working
\* sells are covered by shares, and no fill raises for want of a position.
THEOREM PromisesAlwaysCovered == Spec => []PromisesCovered
  BY Inductive, MoneyInductive, OverdrawnRounds, PTL

\* Cash, positions and filled quantities are always what the fill log adds up to.
THEOREM LedgerAlwaysExplained == Spec => []LedgerExplained
  <1>1. MoneyInv => LedgerExplained BY Zenon DEF MoneyInv
  <1> QED BY MoneyInductive, <1>1, PTL
=============================================================================
