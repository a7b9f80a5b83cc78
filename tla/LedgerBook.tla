----------------------------- MODULE LedgerBook -----------------------------
(***************************************************************************)
(* The portfolio ledger's book as a value: cash, one average-cost lot per  *)
(* instrument, realized profit and the append-only entries, and what       *)
(* posting one fill does to it.  Money is in millionths of a dollar, the   *)
(* quantum every amount is rounded to; quantities are whole shares.        *)
(***************************************************************************)
EXTENDS Integers, FiniteSets, Functions

CONSTANTS
    Instruments,
    Fills,     \* fills with side, instrument and fee: one id may come with other fields
    None

ASSUME InstrumentsAreFinite == IsFiniteSet(Instruments)

ASSUME FillsWellFormed ==
    Fills \subseteq [id : Nat, side : {"BUY", "SELL"}, instrument : Instruments, qty : Nat \ {0},
                     price : Nat, fee : Int, at : Nat, foreign : BOOLEAN]

Reasons == {"CURRENCY_MISMATCH", "NEGATIVE_FEE", "INSUFFICIENT_CASH", "FEE_EXCEEDS_PROCEEDS",
            "INSUFFICIENT_POSITION"}

\* A posting; number is the entry id's sequence number.
Entries == [number : Nat, fill : Nat, side : {"BUY", "SELL"}, instrument : Instruments,
            qty : Nat, cash : Int, fee : Nat, realized : Int]

Books == [cash : Nat, qty : [Instruments -> Nat], avg : [Instruments -> Nat], realized : Int,
          entries : SUBSET Entries, seq : Nat, asOf : Nat]

ASSUME NoneIsNoReason == None \notin Reasons

SumOf(f, S) == SumFunctionOnSet(f, S)

\* _money(a / b): half-even rounding to the quantum.
Money(a, b) ==
    LET q == a \div b
        r == a % b
    IN  IF 2 * r > b \/ (2 * r = b /\ q % 2 = 1) THEN q + 1 ELSE q

\* __post_init__: the opening balance is entry number 1.
Opened(cash) ==
    [cash |-> cash, qty |-> [i \in Instruments |-> 0], avg |-> [i \in Instruments |-> 0],
     realized |-> 0, entries |-> {}, seq |-> 1, asOf |-> 0]

Seen(book) == {e.fill : e \in book.entries}
EntryOf(book, f) == CHOOSE e \in book.entries : e.fill = f.id

Debit(f) == f.qty * f.price + f.fee
Proceeds(f) == f.qty * f.price - f.fee

\* The checks of apply_fill in their order.
Refusal(book, f) ==
    IF f.foreign THEN "CURRENCY_MISMATCH"
    ELSE IF f.fee < 0 THEN "NEGATIVE_FEE"
    ELSE IF f.side = "BUY"
      THEN IF Debit(f) > book.cash THEN "INSUFFICIENT_CASH" ELSE None
      ELSE IF Proceeds(f) < 0 THEN "FEE_EXCEEDS_PROCEEDS"
           ELSE IF f.qty > book.qty[f.instrument] THEN "INSUFFICIENT_POSITION" ELSE None

\* Mutant: the lot takes the price of the last buy.
CreditLastPrice(book, f) == f.price

\* _credit: the average cost after a buy.
Credit(book, f) ==
    LET q == book.qty[f.instrument]
    IN  Money(book.avg[f.instrument] * q + f.price * f.qty, q + f.qty)

\* Mutant: the fee of a sale stays out of the realized profit.
RealizedNoFee(book, f) == (f.price - book.avg[f.instrument]) * f.qty

\* realized_delta of a sale.
Realized(book, f) == (f.price - book.avg[f.instrument]) * f.qty - f.fee

\* The book after a buy; a sell keeps the average cost until the lot is gone.
Bought(book, f) ==
    [cash |-> book.cash - Debit(f),
     qty |-> [book.qty EXCEPT ![f.instrument] = @ + f.qty],
     avg |-> [book.avg EXCEPT ![f.instrument] = Credit(book, f)],
     realized |-> book.realized,
     entries |-> book.entries \cup
       {[number |-> book.seq + 1, fill |-> f.id, side |-> "BUY", instrument |-> f.instrument,
         qty |-> f.qty, cash |-> -Debit(f), fee |-> f.fee, realized |-> 0]},
     seq |-> book.seq + 1,
     asOf |-> IF f.at > book.asOf THEN f.at ELSE book.asOf]

Sold(book, f) ==
    [cash |-> book.cash + Proceeds(f),
     qty |-> [book.qty EXCEPT ![f.instrument] = @ - f.qty],
     avg |-> [book.avg EXCEPT ![f.instrument] = IF book.qty[f.instrument] = f.qty THEN 0 ELSE @],
     realized |-> book.realized + Realized(book, f),
     entries |-> book.entries \cup
       {[number |-> book.seq + 1, fill |-> f.id, side |-> "SELL", instrument |-> f.instrument,
         qty |-> f.qty, cash |-> Proceeds(f), fee |-> f.fee, realized |-> Realized(book, f)]},
     seq |-> book.seq + 1,
     asOf |-> IF f.at > book.asOf THEN f.at ELSE book.asOf]

Posted(book, f) == IF f.side = "BUY" THEN Bought(book, f) ELSE Sold(book, f)

\* cost_basis
CostBasis(book) == SumOf([i \in Instruments |-> book.qty[i] * book.avg[i]], Instruments)

Buys(book) == {e \in book.entries : e.side = "BUY"}
BuyFees(book) == SumOf([e \in Buys(book) |-> e.fee], Buys(book))

\* conservation: how far cash plus cost basis is from what it should be.
Drift(book, opening) ==
    (book.cash + CostBasis(book)) - (opening + book.realized - BuyFees(book))
=============================================================================
