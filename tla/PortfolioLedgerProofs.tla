----------------------- MODULE PortfolioLedgerProofs -----------------------
(***************************************************************************)
(* Proofs about the portfolio ledger, for any fills, batches, instruments  *)
(* and opening cash.  IInv carries the posting story: one entry per fill,  *)
(* and answers that name entries.  BookInv carries the money: a book is    *)
(* the sum of its entries, and the conservation identity has drifted by    *)
(* no more than the roundings of its average prices explain.  The          *)
(* checkpoint satisfies BookInv too, since a rollback makes it the book.   *)
(***************************************************************************)
EXTENDS PortfolioLedger, SumTheorems, TLAPS

\* The entry that an answer names.
Named(r, entries) == \E e \in entries : e.fill = r.fill /\ e.number = r.entry

\* Numbers are handed out upwards, in the book and in the checkpoint.
Numbered ==
    /\ \A e \in book.entries : e.number <= book.seq
    /\ \A e \in checkpoint.entries : e.number <= checkpoint.seq

\* The checkpoint is part of the book, and all of it between calls.
Grows ==
    /\ checkpoint.entries \subseteq book.entries
    /\ mode = "idle" => checkpoint = book /\ pending = {}

\* Answers given name entries of the checkpoint; answers of the batch in progress
\* name entries of the book, those about older fills entries of the checkpoint.
Answers ==
    /\ \A r \in returned : Named(r, checkpoint.entries)
    /\ \A r \in pending : Named(r, book.entries)
    /\ \A r \in pending : ~RolledBack(r) => Named(r, checkpoint.entries)

IInv == TypeOK /\ PostedOnce /\ Numbered /\ Grows /\ Answers

-----------------------------------------------------------------------------

LEMMA MoneyNat == ASSUME NEW a \in Nat, NEW b \in Nat \ {0} PROVE Money(a, b) \in Nat
  <1>1. a \div b \in Nat /\ a % b \in Nat OBVIOUS
  <1> QED BY <1>1 DEF Money

\* Products of naturals are naturals.
LEMMA ProductNat == ASSUME NEW a \in Nat, NEW b \in Nat PROVE a * b \in Nat
  OBVIOUS

LEMMA ProductInt == ASSUME NEW a \in Int, NEW b \in Int PROVE a * b \in Int
  OBVIOUS

LEMMA FillFields ==
    ASSUME NEW f \in Fills
    PROVE  /\ f.id \in Nat /\ f.side \in {"BUY", "SELL"} /\ f.instrument \in Instruments
           /\ f.qty \in Nat /\ f.qty > 0 /\ f.price \in Nat /\ f.fee \in Int /\ f.at \in Nat
  BY FillsWellFormed

\* Posting an accepted fill keeps the book well formed and adds exactly one entry,
\* for that fill, under the next number.
LEMMA PostedFacts ==
    ASSUME NEW b \in Books, NEW f \in Fills, Refusal(b, f) = None
    PROVE  /\ Posted(b, f) \in Books
           /\ Posted(b, f).seq = b.seq + 1
           /\ \E e \in Entries : /\ Posted(b, f).entries = b.entries \cup {e}
                                 /\ e.fill = f.id
                                 /\ e.number = b.seq + 1
  <1>1. /\ b.cash \in Nat /\ b.qty \in [Instruments -> Nat] /\ b.avg \in [Instruments -> Nat]
        /\ b.realized \in Int /\ b.entries \subseteq Entries /\ b.seq \in Nat /\ b.asOf \in Nat
    BY DEF Books
  <1>2. /\ f.id \in Nat /\ f.side \in {"BUY", "SELL"} /\ f.instrument \in Instruments
        /\ f.qty \in Nat /\ f.qty > 0 /\ f.price \in Nat /\ f.fee \in Int /\ f.at \in Nat
    BY FillFields
  <1>3. f.fee >= 0 BY <1>2, NoneIsNoReason DEF Refusal, Reasons
  <1>4. f.fee \in Nat BY <1>2, <1>3
  <1>5. f.qty * f.price \in Nat BY <1>2, ProductNat
  <1>6. Debit(f) \in Nat BY <1>4, <1>5 DEF Debit
  <1>7. Proceeds(f) \in Int BY <1>4, <1>5 DEF Proceeds
  <1>8. b.seq + 1 \in Nat /\ (IF f.at > b.asOf THEN f.at ELSE b.asOf) \in Nat BY <1>1, <1>2
  <1>9. CASE f.side = "BUY"
    <2>1. Debit(f) <= b.cash BY <1>1, <1>6, <1>9, NoneIsNoReason DEF Refusal, Reasons
    <2>2. b.cash - Debit(f) \in Nat BY <1>1, <1>6, <2>1
    <2>3. b.qty[f.instrument] \in Nat /\ b.avg[f.instrument] \in Nat BY <1>1, <1>2
    <2>4. b.avg[f.instrument] * b.qty[f.instrument] \in Nat /\ f.price * f.qty \in Nat
      BY <1>2, <2>3, ProductNat
    <2>5. Credit(b, f) \in Nat
      <3>1. b.avg[f.instrument] * b.qty[f.instrument] + f.price * f.qty \in Nat BY <2>4
      <3>2. b.qty[f.instrument] + f.qty \in Nat \ {0} BY <1>2, <2>3
      <3> QED BY <3>1, <3>2, MoneyNat DEF Credit
    <2>6. [b.qty EXCEPT ![f.instrument] = @ + f.qty] \in [Instruments -> Nat] BY <1>1, <1>2, <2>3
    <2>7. [b.avg EXCEPT ![f.instrument] = Credit(b, f)] \in [Instruments -> Nat] BY <1>1, <1>2, <2>5
    <2> DEFINE e == [number |-> b.seq + 1, fill |-> f.id, side |-> "BUY", instrument |-> f.instrument,
                     qty |-> f.qty, cash |-> -Debit(f), fee |-> f.fee, realized |-> 0]
    <2>8. -Debit(f) \in Int BY <1>6
    <2>9. e \in Entries BY <1>2, <1>4, <1>8, <2>8 DEF Entries
    <2>10. Posted(b, f) = Bought(b, f) BY <1>9 DEF Posted
    <2>11. Bought(b, f).entries = b.entries \cup {e} /\ Bought(b, f).seq = b.seq + 1 BY DEF Bought
    <2>12. b.entries \cup {e} \in SUBSET Entries BY <1>1, <2>9
    <2> HIDE DEF e
    <2>13. Bought(b, f) \in Books
      BY <1>1, <1>8, <2>2, <2>6, <2>7, <2>11, <2>12 DEF Bought, Books
    <2>14. e.fill = f.id /\ e.number = b.seq + 1 BY DEF e
    <2> QED BY <2>9, <2>10, <2>11, <2>13, <2>14
  <1>10. CASE f.side = "SELL"
    <2>1. Proceeds(f) >= 0 /\ f.qty <= b.qty[f.instrument]
      BY <1>1, <1>2, <1>7, <1>10, NoneIsNoReason DEF Refusal, Reasons
    <2>2. b.cash + Proceeds(f) \in Nat BY <1>1, <1>7, <2>1
    <2>3. b.qty[f.instrument] \in Nat /\ b.avg[f.instrument] \in Nat BY <1>1, <1>2
    <2>4. f.price - b.avg[f.instrument] \in Int /\ f.qty \in Int BY <1>2, <2>3
    <2>5. (f.price - b.avg[f.instrument]) * f.qty \in Int BY <2>4, ProductInt
    <2>6. Realized(b, f) \in Int BY <1>4, <2>5 DEF Realized
    <2>7. b.realized + Realized(b, f) \in Int BY <1>1, <2>6
    <2>8. [b.qty EXCEPT ![f.instrument] = @ - f.qty] \in [Instruments -> Nat]
      BY <1>1, <1>2, <2>1, <2>3
    <2>9. [b.avg EXCEPT ![f.instrument] = IF b.qty[f.instrument] = f.qty THEN 0 ELSE @]
            \in [Instruments -> Nat]
      BY <1>1, <1>2, <2>3
    <2> DEFINE e == [number |-> b.seq + 1, fill |-> f.id, side |-> "SELL", instrument |-> f.instrument,
                     qty |-> f.qty, cash |-> Proceeds(f), fee |-> f.fee, realized |-> Realized(b, f)]
    <2>10. e \in Entries BY <1>2, <1>4, <1>7, <1>8, <2>6 DEF Entries
    <2>11. Posted(b, f) = Sold(b, f) BY <1>10 DEF Posted
    <2>12. Sold(b, f).entries = b.entries \cup {e} /\ Sold(b, f).seq = b.seq + 1 BY DEF Sold
    <2>13. b.entries \cup {e} \in SUBSET Entries BY <1>1, <2>10
    <2>14. e.fill = f.id /\ e.number = b.seq + 1 OBVIOUS
    <2> HIDE DEF e
    <2>15. Sold(b, f) \in Books
      BY <1>1, <1>8, <2>2, <2>7, <2>8, <2>9, <2>12, <2>13 DEF Sold, Books
    <2> QED BY <2>10, <2>11, <2>12, <2>14, <2>15
  <1> QED BY <1>2, <1>9, <1>10

LEMMA InitInv == Init => IInv
  <1> SUFFICES ASSUME Init PROVE IInv OBVIOUS
  <1>1. Opened(OpeningCash) \in Books
    BY OpeningCashIsNatural DEF Opened, Books
  <1>2. Opened(OpeningCash).entries = {} BY DEF Opened
  <1> QED BY <1>1, <1>2 DEF Init, IInv, TypeOK, PostedOnce, Numbered, Grows, Answers

\* What posting a new fill means for the entries: the new one stands alone.
LEMMA PostStep ==
    ASSUME IInv, NEW f \in Fills, IsApplied(book, f), book' = Posted(book, f)
    PROVE  /\ book' \in Books
           /\ book.entries \subseteq book'.entries
           /\ PostedOnce'
           /\ \A e \in book'.entries : e.number <= book'.seq
           /\ Named(Applied(book, f), book'.entries)
  <1>1. book \in Books /\ book.entries \subseteq Entries /\ book.seq \in Nat
    BY DEF IInv, TypeOK, Books
  <1>2. PICK e \in Entries : /\ book'.entries = book.entries \cup {e}
                             /\ e.fill = f.id
                             /\ e.number = book.seq + 1
    BY <1>1, PostedFacts DEF IsApplied
  <1>3. book' \in Books /\ book'.seq = book.seq + 1 BY <1>1, PostedFacts DEF IsApplied
  <1>4. \A d \in book.entries : d.fill # f.id BY DEF IsApplied, Seen
  <1>5. \A d \in book.entries : d.number \in Nat /\ d.number <= book.seq
    BY <1>1 DEF IInv, Numbered, Entries
  <1>6. PostedOnce' BY <1>1, <1>2, <1>4, <1>5 DEF IInv, PostedOnce
  <1>7. \A d \in book'.entries : d.number <= book'.seq BY <1>1, <1>2, <1>3, <1>5
  <1>8. Named(Applied(book, f), book'.entries) BY <1>2 DEF Named, Applied
  <1> QED BY <1>2, <1>3, <1>6, <1>7, <1>8

\* The answer to a duplicate names the entry of its fill, and that entry is older
\* than the batch when the fill is.
LEMMA DuplicateNamed ==
    ASSUME IInv, NEW f \in Fills, IsDuplicate(book, f)
    PROVE  /\ Duplicate(book, f) \in Results
           /\ Named(Duplicate(book, f), book.entries)
           /\ f.id \in Seen(checkpoint) => Named(Duplicate(book, f), checkpoint.entries)
  <1>1. \E e \in book.entries : e.fill = f.id BY DEF IsDuplicate, Seen
  <1>2. EntryOf(book, f) \in book.entries /\ EntryOf(book, f).fill = f.id BY <1>1 DEF EntryOf
  <1> DEFINE d == EntryOf(book, f)
  <1>3. d \in book.entries /\ d.fill = f.id BY <1>2
  <1>4. Duplicate(book, f).fill = f.id /\ Duplicate(book, f).entry = d.number
        /\ Duplicate(book, f).status = "DUPLICATE"
    BY DEF Duplicate
  <1>5. d.number \in Nat /\ f.id \in Nat BY <1>3, FillFields DEF IInv, TypeOK, Books, Entries
  <1>6. Duplicate(book, f) \in Results BY <1>5 DEF Duplicate, Results
  <1> HIDE DEF d
  <1>7. Named(Duplicate(book, f), book.entries) BY <1>3, <1>4 DEF Named
  <1>8. ASSUME f.id \in Seen(checkpoint) PROVE Named(Duplicate(book, f), checkpoint.entries)
    <2>1. PICK e \in checkpoint.entries : e.fill = f.id BY <1>8 DEF Seen
    <2>2. e \in book.entries BY <2>1 DEF IInv, Grows
    <2>3. e = d BY <1>3, <2>1, <2>2 DEF IInv, PostedOnce
    <2> QED BY <1>4, <2>1, <2>3 DEF Named
  <1> QED BY <1>6, <1>7, <1>8

LEMMA AppliedIsResult ==
    ASSUME IInv, NEW f \in Fills PROVE Applied(book, f) \in Results
  <1>1. book.seq + 1 \in Nat /\ f.id \in Nat BY FillFields DEF IInv, TypeOK, Books
  <1> QED BY <1>1 DEF Applied, Results

LEMMA ApplyInv == ASSUME IInv, NEW f \in Fills, ApplyFill(f) PROVE IInv'
  <1>0. /\ mode = "idle" /\ mode' = mode /\ queue' = queue /\ pending' = pending
        /\ checkpoint' = book' /\ checkpoint = book /\ pending = {}
    BY DEF ApplyFill, IInv, Grows
  <1>1. \A r \in returned : Named(r, book.entries) BY <1>0 DEF IInv, Answers
  <1>2. CASE IsDuplicate(book, f) /\ returned' = returned \cup {Duplicate(book, f)} /\ book' = book
    <2>1. \A r \in returned' : r \in Results /\ Named(r, book'.entries)
      BY <1>1, <1>2, DuplicateNamed DEF IInv, TypeOK
    <2> QED BY <1>0, <1>2, <2>1 DEF IInv, TypeOK, PostedOnce, Numbered, Grows, Answers
  <1>3. CASE IsRejected(book, f) /\ returned' = returned /\ book' = book
    BY <1>0, <1>1, <1>3 DEF IInv, TypeOK, PostedOnce, Numbered, Grows, Answers
  <1>4. CASE IsApplied(book, f) /\ returned' = returned \cup {Applied(book, f)}
             /\ book' = Posted(book, f)
    <2>1. /\ book' \in Books /\ book.entries \subseteq book'.entries /\ PostedOnce'
          /\ \A e \in book'.entries : e.number <= book'.seq
          /\ Named(Applied(book, f), book'.entries)
      BY <1>4, PostStep
    <2>2. \A r \in returned' : r \in Results /\ Named(r, book'.entries)
      <3>1. \A r \in returned : Named(r, book'.entries) BY <1>1, <2>1 DEF Named
      <3> QED BY <1>4, <2>1, <3>1, AppliedIsResult DEF IInv, TypeOK
    <2> QED BY <1>0, <2>1, <2>2 DEF IInv, TypeOK, Numbered, Grows, Answers
  <1> QED BY <1>2, <1>3, <1>4 DEF ApplyFill

LEMMA BeginInv ==
    ASSUME IInv, NEW k \in {"sorted", "atomic"}, NEW b \in Batches, Begin(k, b) PROVE IInv'
  <1>1. b \in Seq(Fills) BY BatchesWellFormed
  <1>2. queue' \subseteq Items
    <2>1. \A i \in 1..Len(b) : [place |-> i, fill |-> b[i]] \in Items BY <1>1 DEF Items
    <2> QED BY <2>1 DEF Begin
  <1> QED BY <1>2 DEF Begin, IInv, TypeOK, PostedOnce, Numbered, Grows, Answers, RolledBack

LEMMA StepInv == ASSUME IInv, NEW x \in queue, Step(x) PROVE IInv'
  <1>0. /\ x \in Items /\ x.fill \in Fills BY DEF IInv, TypeOK, Items
  <1>1. /\ mode' = mode /\ mode # "idle" /\ checkpoint' = checkpoint /\ returned' = returned
        /\ queue' = queue \ {x}
    BY DEF Step, First
  <1>2. CASE IsDuplicate(book, x.fill) /\ pending' = pending \cup {Duplicate(book, x.fill)}
             /\ book' = book
    <2>1. \A r \in pending' : /\ r \in Results /\ Named(r, book.entries)
                              /\ ~RolledBack(r) => Named(r, checkpoint.entries)
      <3>1. Duplicate(book, x.fill).status = "DUPLICATE" /\ Duplicate(book, x.fill).fill = x.fill.id
        BY DEF Duplicate
      <3> QED BY <1>0, <1>2, <3>1, DuplicateNamed DEF IInv, TypeOK, Answers, RolledBack
    <2> QED BY <1>1, <1>2, <2>1 DEF IInv, TypeOK, PostedOnce, Numbered, Grows, Answers, RolledBack
  <1>3. CASE IsApplied(book, x.fill) /\ pending' = pending \cup {Applied(book, x.fill)}
             /\ book' = Posted(book, x.fill)
    <2>1. /\ book' \in Books /\ book.entries \subseteq book'.entries /\ PostedOnce'
          /\ \A e \in book'.entries : e.number <= book'.seq
          /\ Named(Applied(book, x.fill), book'.entries)
      BY <1>0, <1>3, PostStep
    <2>2. \A r \in pending : Named(r, book'.entries) BY <2>1 DEF IInv, Answers, Named
    <2>3. RolledBack(Applied(book, x.fill)) BY DEF RolledBack, Applied
    <2>4. \A r \in pending' : /\ r \in Results /\ Named(r, book'.entries)
                              /\ ~RolledBack(r) => Named(r, checkpoint.entries)
      BY <1>0, <1>3, <2>1, <2>2, <2>3, AppliedIsResult DEF IInv, TypeOK, Answers
    <2> QED BY <1>1, <2>1, <2>4 DEF IInv, TypeOK, Numbered, Grows, Answers, RolledBack
  <1>4. CASE UNCHANGED <<pending, book>>
    BY <1>1, <1>4 DEF IInv, TypeOK, PostedOnce, Numbered, Grows, Answers, RolledBack
  <1> QED BY <1>2, <1>3, <1>4 DEF Step

LEMMA RollbackInv == ASSUME IInv, NEW x \in queue, Rollback(x) PROVE IInv'
  <1>1. /\ book' = checkpoint /\ checkpoint' = checkpoint /\ mode' = "idle" /\ queue' = {}
        /\ pending' = {} /\ returned' = returned \cup {r \in pending : ~RolledBack(r)}
    BY DEF Rollback, Restored
  <1>2. \A r \in returned' : r \in Results /\ Named(r, checkpoint.entries)
    BY <1>1 DEF IInv, TypeOK, Answers
  <1>3. PostedOnce' BY <1>1 DEF IInv, PostedOnce, Grows
  <1> QED BY <1>1, <1>2, <1>3 DEF IInv, TypeOK, Numbered, Grows, Answers

LEMMA EndInv == ASSUME IInv, End PROVE IInv'
  <1>1. /\ book' = book /\ checkpoint' = book /\ mode' = "idle" /\ queue' = queue
        /\ pending' = {} /\ returned' = returned \cup pending
    BY DEF End
  <1>2. \A r \in returned' : r \in Results /\ Named(r, book.entries)
    BY <1>1 DEF IInv, TypeOK, Answers, Grows, Named
  <1> QED BY <1>1, <1>2 DEF IInv, TypeOK, PostedOnce, Numbered, Grows, Answers

\* Every step preserves the inductive invariant.
LEMMA NextInv == IInv /\ [Next]_vars => IInv'
  <1> SUFFICES ASSUME IInv, [Next]_vars PROVE IInv' OBVIOUS
  <1>1. CASE UNCHANGED vars
    BY <1>1 DEF vars, IInv, TypeOK, PostedOnce, Numbered, Grows, Answers, RolledBack
  <1> QED BY <1>1, ApplyInv, BeginInv, StepInv, RollbackInv, EndInv DEF Next

-----------------------------------------------------------------------------

\* The inductive invariant holds in every reachable state.
THEOREM Inductive == Spec => []IInv
  BY InitInv, NextInv, PTL DEF Spec

\* The books stay well formed: no negative cash or position, in the middle of a
\* batch neither.
THEOREM TypeCorrect == Spec => []TypeOK
  <1>1. IInv => TypeOK BY DEF IInv
  <1> QED BY Inductive, <1>1, PTL

\* No fill is posted twice, whatever is delivered again and rolled back.
THEOREM FillsPostedOnce == Spec => []PostedOnce
  <1>1. IInv => PostedOnce BY DEF IInv
  <1> QED BY Inductive, <1>1, PTL

\* An entry id that a caller was given names that fill's posting for ever.
THEOREM AnswersStick == Spec => []EntryIdsStick
  <1>1. IInv => EntryIdsStick BY DEF IInv, Answers, Grows, Named, EntryIdsStick
  <1> QED BY Inductive, <1>1, PTL

\* Only the postings of an unfinished atomic batch are ever taken back.
THEOREM NothingTakenBack == Spec => AppendOnly
  <1>1. IInv /\ [Next]_vars => [/\ checkpoint.entries \subseteq book'.entries
                                /\ mode # "atomic" => book.entries \subseteq book'.entries]_vars
    <2> SUFFICES ASSUME IInv, Next
                 PROVE  /\ checkpoint.entries \subseteq book'.entries
                        /\ mode # "atomic" => book.entries \subseteq book'.entries
      OBVIOUS
    <2>0. checkpoint.entries \subseteq book.entries BY DEF IInv, Grows
    <2>1. ASSUME NEW f \in Fills, IsApplied(book, f), book' = Posted(book, f)
          PROVE  book.entries \subseteq book'.entries
      BY <2>1, PostStep
    <2>2. ASSUME NEW f \in Fills, ApplyFill(f) PROVE book.entries \subseteq book'.entries
      BY <2>1, <2>2 DEF ApplyFill
    <2>3. ASSUME NEW x \in queue, Step(x) PROVE book.entries \subseteq book'.entries
      <3>1. x.fill \in Fills BY DEF IInv, TypeOK, Items
      <3> QED BY <2>1, <2>3, <3>1 DEF Step
    <2>4. ASSUME NEW x \in queue, Rollback(x) PROVE book' = checkpoint /\ mode = "atomic"
      BY <2>4 DEF Rollback, Restored
    <2> QED BY <2>0, <2>2, <2>3, <2>4 DEF Next, Begin, End
  <1> QED BY Inductive, <1>1, PTL DEF Spec, AppendOnly
-----------------------------------------------------------------------------
(* The book as the sum of its entries.                                     *)

EntriesOf(b, i, side) == {e \in b.entries : e.instrument = i /\ e.side = side}

\* The book b is the sum of its postings (EntriesExplain for any book).
Explained(b) ==
    /\ IsFiniteSet(b.entries)
    /\ b.cash = OpeningCash + SumOf([e \in b.entries |-> e.cash], b.entries)
    /\ b.realized = SumOf([e \in b.entries |-> e.realized], b.entries)
    /\ \A i \in Instruments :
         b.qty[i] = SumOf([e \in EntriesOf(b, i, "BUY") |-> e.qty], EntriesOf(b, i, "BUY"))
                    - SumOf([e \in EntriesOf(b, i, "SELL") |-> e.qty], EntriesOf(b, i, "SELL"))

\* All that was ever bought.
BoughtIn(b) == SumOf([e \in Buys(b) |-> e.qty], Buys(b))

\* The drift of the book b is bounded (DriftBounded for any book).
Steady(b) ==
    2 * Abs(Drift(b, OpeningCash)) <= SumOf([e \in Buys(b) |-> BoughtIn(b)], Buys(b))

Sound(b) == b \in Books /\ (\A e \in b.entries : e.number <= b.seq) /\ Explained(b) /\ Steady(b)

\* The rollback restores a book that is as sound as the one it replaces.
BookInv == Sound(book) /\ Sound(checkpoint)

\* The entry of an accepted fill.
EntryFor(b, f) ==
    [number |-> b.seq + 1, fill |-> f.id, side |-> f.side, instrument |-> f.instrument, qty |-> f.qty,
     cash |-> IF f.side = "BUY" THEN -Debit(f) ELSE Proceeds(f), fee |-> f.fee,
     realized |-> IF f.side = "BUY" THEN 0 ELSE Realized(b, f)]

\* What a posting does to each part of the book.
LEMMA PostedParts ==
    ASSUME NEW b \in Books, NEW f \in Fills
    PROVE  LET p == Posted(b, f)
               i == f.instrument
               e == EntryFor(b, f)
           IN  /\ p.entries = b.entries \cup {e}
               /\ p.qty = [b.qty EXCEPT ![i] = IF f.side = "BUY" THEN @ + f.qty ELSE @ - f.qty]
               /\ p.avg = [b.avg EXCEPT ![i] = IF f.side = "BUY" THEN Credit(b, f)
                                               ELSE IF b.qty[i] = f.qty THEN 0 ELSE @]
               /\ p.cash = IF f.side = "BUY" THEN b.cash - Debit(f) ELSE b.cash + Proceeds(f)
               /\ p.realized = IF f.side = "BUY" THEN b.realized ELSE b.realized + Realized(b, f)
  <1>1. f.side \in {"BUY", "SELL"} BY FillFields
  <1>2. CASE f.side = "BUY" BY <1>2 DEF Posted, Bought, EntryFor
  <1>3. CASE f.side = "SELL" BY <1>3 DEF Posted, Sold, EntryFor
  <1> QED BY Zenon, <1>1, <1>2, <1>3

\* The entry of an accepted fill is new, and typed.
LEMMA EntryNew ==
    ASSUME NEW b \in Books, NEW f \in Fills, Refusal(b, f) = None, \A e \in b.entries : e.number <= b.seq
    PROVE  EntryFor(b, f) \in Entries /\ EntryFor(b, f) \notin b.entries
  <1> DEFINE e == EntryFor(b, f)
  <1>1. b.seq \in Nat /\ b.entries \subseteq Entries BY DEF Books
  <1>2. Posted(b, f) \in Books BY PostedFacts
  <1>3. Posted(b, f).entries = b.entries \cup {e} BY Zenon, PostedParts
  <1>4. e \in Entries
    <2>1. Posted(b, f).entries \subseteq Entries BY <1>2 DEF Books
    <2> QED BY Zenon, <1>3, <2>1
  <1>5. e.number = b.seq + 1 BY DEF EntryFor
  <1> QED BY <1>1, <1>4, <1>5

\* Posting keeps the book the sum of its entries ...
LEMMA PostedMoney ==
    ASSUME NEW b \in Books, NEW f \in Fills, Refusal(b, f) = None, Explained(b),
           \A e \in b.entries : e.number <= b.seq
    PROVE  LET p == Posted(b, f)
           IN  /\ IsFiniteSet(p.entries)
               /\ p.cash = OpeningCash + SumOf([e \in p.entries |-> e.cash], p.entries)
               /\ p.realized = SumOf([e \in p.entries |-> e.realized], p.entries)
  <1> DEFINE p == Posted(b, f)
             e == EntryFor(b, f)
             E == b.entries
             g == [x \in E \cup {e} |-> x.cash]
             h == [x \in E |-> x.cash]
             k == [x \in E \cup {e} |-> x.realized]
             m == [x \in E |-> x.realized]
  <1>1. e \in Entries /\ e \notin E /\ E \subseteq Entries BY EntryNew DEF Books
  <1>2. p.entries = E \cup {e} BY Zenon, PostedParts
  <1>3. IsFiniteSet(E) /\ b.cash = OpeningCash + SumOf(h, E) /\ b.realized = SumOf(m, E) BY DEF Explained
  <1>4. IsFiniteSet(E \cup {e}) BY <1>3, FS_AddElement
  <1>5. e.cash \in Int /\ e.realized \in Int BY <1>1 DEF Entries
  <1>6. b.cash \in Int /\ b.realized \in Int BY DEF Books
  <1>7. p.cash = b.cash + e.cash
    <2>1. f.side = "BUY" => p.cash = b.cash - Debit(f) /\ e.cash = -Debit(f)
      BY Zenon, PostedParts DEF EntryFor
    <2>2. f.side # "BUY" => p.cash = b.cash + Proceeds(f) /\ e.cash = Proceeds(f)
      BY Zenon, PostedParts DEF EntryFor
    <2>3. Debit(f) \in Int
      <3>1. f.qty * f.price \in Nat /\ f.fee \in Int BY FillFields, ProductNat
      <3> QED BY <3>1 DEF Debit
    <2> HIDE DEF p, e
    <2> QED BY <1>6, <2>1, <2>2, <2>3
  <1>8. p.realized = b.realized + e.realized
    <2>1. f.side = "BUY" => p.realized = b.realized /\ e.realized = 0
      BY Zenon, PostedParts DEF EntryFor
    <2>2. f.side # "BUY" => p.realized = b.realized + Realized(b, f) /\ e.realized = Realized(b, f)
      BY Zenon, PostedParts DEF EntryFor
    <2> HIDE DEF p, e
    <2> QED BY <1>6, <2>1, <2>2
  <1> HIDE DEF p, e, E
  <1>9. (\A x \in E \cup {e} : g[x] \in Int) /\ (\A x \in E : h[x] = g[x]) /\ g[e] = e.cash
    BY <1>1 DEF Entries
  <1>10. (\A x \in E \cup {e} : k[x] \in Int) /\ (\A x \in E : m[x] = k[x]) /\ k[e] = e.realized
    BY <1>1 DEF Entries
  <1> HIDE DEF g, h, k, m
  <1>11. SumOf(g, E \cup {e}) = e.cash + SumOf(h, E) /\ SumOf(h, E) \in Int
         /\ SumOf(k, E \cup {e}) = e.realized + SumOf(m, E) /\ SumOf(m, E) \in Int
    <2>1. IsFiniteSet(E) /\ e \notin E BY Zenon, <1>1, <1>3
    <2>2. SumOf(g, E \cup {e}) = g[e] + SumOf(h, E) /\ SumOf(h, E) \in Int BY <1>9, <2>1, SumExtend DEF SumOf
    <2>3. SumOf(k, E \cup {e}) = k[e] + SumOf(m, E) /\ SumOf(m, E) \in Int BY <1>10, <2>1, SumExtend DEF SumOf
    <2> QED BY Zenon, <1>9, <1>10, <2>2, <2>3
  <1>12. p.cash = OpeningCash + SumOf(g, E \cup {e})
    BY <1>3, <1>5, <1>7, <1>11, OpeningCashIsNatural
  <1>13. p.realized = SumOf(k, E \cup {e}) BY <1>3, <1>5, <1>8, <1>11
  <1> QED BY <1>2, <1>4, <1>12, <1>13 DEF p, g, k

\* The shares of a set of entries; one entry more adds its shares.
Volume(S) == SumOf([e \in S |-> e.qty], S)

LEMMA VolumeAdd ==
    ASSUME NEW S \in SUBSET Entries, IsFiniteSet(S), NEW a \in Entries, a \notin S
    PROVE  Volume(S \cup {a}) = a.qty + Volume(S) /\ Volume(S) \in Nat
  <1> DEFINE g == [e \in S \cup {a} |-> e.qty]
             h == [e \in S |-> e.qty]
  <1>1. g[a] = a.qty /\ (\A x \in S : h[x] = g[x] /\ h[x] \in Nat) /\ \A x \in S \cup {a} : g[x] \in Int
    BY DEF Entries
  <1>2. Volume(S \cup {a}) = SumOf(g, S \cup {a}) /\ Volume(S) = SumOf(h, S) BY Zenon DEF Volume
  <1> HIDE DEF g, h
  <1>3. SumOf(g, S \cup {a}) = g[a] + SumOf(h, S) BY <1>1, SumExtend DEF SumOf
  <1>4. SumOf(h, S) \in Nat BY <1>1, SumNat DEF SumOf
  <1> QED BY Zenon, <1>1, <1>2, <1>3, <1>4

\* ... and each position what was bought less what was sold.
LEMMA PostedQuantity ==
    ASSUME NEW b \in Books, NEW f \in Fills, Refusal(b, f) = None, Explained(b),
           \A e \in b.entries : e.number <= b.seq, NEW i \in Instruments
    PROVE  LET p == Posted(b, f)
           IN  p.qty[i] = Volume(EntriesOf(p, i, "BUY")) - Volume(EntriesOf(p, i, "SELL"))
  <1> DEFINE p == Posted(b, f)
             e == EntryFor(b, f)
             B == EntriesOf(b, i, "BUY")
             S == EntriesOf(b, i, "SELL")
             B2 == EntriesOf(p, i, "BUY")
             S2 == EntriesOf(p, i, "SELL")
             q == b.qty[i]
  <1> SUFFICES p.qty[i] = Volume(B2) - Volume(S2) BY Zenon
  <1>1. e \in Entries /\ e \notin b.entries /\ b.entries \subseteq Entries BY EntryNew DEF Books
  <1>2. e.qty = f.qty /\ e.side = f.side /\ e.instrument = f.instrument BY Zenon DEF EntryFor
  <1>3. p.entries = b.entries \cup {e} BY Zenon, PostedParts
  <1>4. IsFiniteSet(b.entries) /\ q = Volume(B) - Volume(S) BY Zenon DEF Explained, Volume
  <1>5. p.qty[i] = IF i # f.instrument THEN q ELSE IF f.side = "BUY" THEN q + f.qty ELSE q - f.qty
    <2>1. b.qty \in [Instruments -> Nat] BY DEF Books
    <2>2. p.qty = [b.qty EXCEPT ![f.instrument] = IF f.side = "BUY" THEN @ + f.qty ELSE @ - f.qty]
      BY Zenon, PostedParts
    <2> HIDE DEF p
    <2> QED BY <2>1, <2>2
  <1>6. f.qty \in Nat /\ f.side \in {"BUY", "SELL"} BY FillFields
  <1>7. B \subseteq b.entries /\ S \subseteq b.entries BY DEF EntriesOf
  <1>8. /\ B2 = IF i = f.instrument /\ f.side = "BUY" THEN B \cup {e} ELSE B
        /\ S2 = IF i = f.instrument /\ f.side = "SELL" THEN S \cup {e} ELSE S
    <2> HIDE DEF p, e
    <2> QED BY <1>2, <1>3 DEF EntriesOf
  <1> HIDE DEF p, e, B, S, B2, S2, q
  <1>9. IsFiniteSet(B) /\ IsFiniteSet(S) BY <1>4, <1>7, FS_Subset
  <1>10. /\ Volume(B \cup {e}) = e.qty + Volume(B) /\ Volume(B) \in Nat
         /\ Volume(S \cup {e}) = e.qty + Volume(S) /\ Volume(S) \in Nat
    BY <1>1, <1>7, <1>9, VolumeAdd
  <1>11. CASE i # f.instrument BY Zenon, <1>4, <1>5, <1>8, <1>11
  <1>12. CASE i = f.instrument /\ f.side = "BUY"
    <2>1. p.qty[i] = q + f.qty /\ B2 = B \cup {e} /\ S2 = S BY <1>5, <1>8, <1>12
    <2> QED BY <1>2, <1>4, <1>6, <1>10, <2>1
  <1>13. CASE i = f.instrument /\ f.side = "SELL"
    <2>1. p.qty[i] = q - f.qty /\ B2 = B /\ S2 = S \cup {e} BY <1>5, <1>8, <1>13
    <2> QED BY <1>2, <1>4, <1>6, <1>10, <2>1
  <1> QED BY Zenon, <1>6, <1>11, <1>12, <1>13

-----------------------------------------------------------------------------
(* The drift of the conservation identity.                                 *)

LEMMA Distribute ==
    ASSUME NEW a \in Int, NEW b \in Int, NEW c \in Int
    PROVE  /\ (a + b) * c = a * c + b * c /\ (a - b) * c = a * c - b * c /\ a * c = c * a
           /\ a * c \in Int /\ b * c \in Int
  OBVIOUS

\* Rounding a quotient moves its multiple by at most half the divisor.
LEMMA MoneyClose ==
    ASSUME NEW a \in Nat, NEW b \in Nat \ {0}
    PROVE  2 * (b * Money(a, b)) <= 2 * a + b /\ 2 * a <= 2 * (b * Money(a, b)) + b
  <1> DEFINE q == a \div b
             r == a % b
             m == Money(a, b)
  <1>1. q \in Nat /\ r \in Nat /\ r < b /\ a = b * q + r OBVIOUS
  <1>2. (m = q /\ 2 * r <= b) \/ (m = q + 1 /\ 2 * r >= b) BY <1>1 DEF Money
  <1> HIDE DEF q, r, m
  <1>3. b * (q + 1) = b * q + b /\ b * q \in Int
    <2>1. (q + 1) * b = q * b + 1 * b /\ (q + 1) * b = b * (q + 1) /\ q * b = b * q /\ q * b \in Int
      BY <1>1, Distribute
    <2> QED BY <1>1, <2>1
  <1> DEFINE z == b * q
  <1> HIDE DEF z
  <1>4. CASE m = q /\ 2 * r <= b
    <2>1. b * m = z /\ z \in Int /\ a = z + r BY <1>1, <1>3, <1>4 DEF z
    <2> QED BY <1>1, <1>4, <2>1 DEF m
  <1>5. CASE m = q + 1 /\ 2 * r >= b
    <2>1. b * m = z + b /\ z \in Int /\ a = z + r BY <1>1, <1>3, <1>5 DEF z
    <2> QED BY <1>1, <1>5, <2>1 DEF m
  <1> QED BY Zenon, <1>2, <1>4, <1>5

\* The cost basis changes with the one lot that changes.
LEMMA BasisStep ==
    ASSUME NEW b \in Books, NEW p \in Books, NEW i \in Instruments,
           \A j \in Instruments : j # i => p.qty[j] = b.qty[j] /\ p.avg[j] = b.avg[j]
    PROVE  /\ CostBasis(p) = CostBasis(b) - b.qty[i] * b.avg[i] + p.qty[i] * p.avg[i]
           /\ CostBasis(b) \in Int
  <1> DEFINE f == [j \in Instruments |-> b.qty[j] * b.avg[j]]
             g == [j \in Instruments |-> p.qty[j] * p.avg[j]]
  <1>1. \A j \in Instruments : b.qty[j] * b.avg[j] \in Int /\ p.qty[j] * p.avg[j] \in Int
    <2>1. \A j \in Instruments : b.qty[j] \in Nat /\ b.avg[j] \in Nat /\ p.qty[j] \in Nat /\ p.avg[j] \in Nat
      BY DEF Books
    <2> QED BY <2>1
  <1>2. \A j \in Instruments : f[j] \in Int /\ g[j] \in Int BY Zenon, <1>1
  <1>3. \A j \in Instruments : j # i => f[j] = g[j] BY Zenon
  <1>4. f[i] = b.qty[i] * b.avg[i] /\ g[i] = p.qty[i] * p.avg[i] BY Zenon
  <1>5. CostBasis(b) = SumOf(f, Instruments) /\ CostBasis(p) = SumOf(g, Instruments) BY Zenon DEF CostBasis
  <1> HIDE DEF f, g
  <1>6. SumOf(g, Instruments) = SumOf(f, Instruments) - f[i] + g[i]
    BY <1>2, <1>3, SumChange, InstrumentsAreFinite DEF SumOf
  <1>7. SumOf(f, Instruments) \in Int BY <1>2, SumInt, InstrumentsAreFinite DEF SumOf
  <1> QED BY Zenon, <1>4, <1>5, <1>6, <1>7

\* The fees and shares of the buys: a buy adds its own, a sell none.
LEMMA BuysStep ==
    ASSUME NEW b \in Books, NEW f \in Fills, Refusal(b, f) = None, Explained(b),
           \A e \in b.entries : e.number <= b.seq
    PROVE  LET p == Posted(b, f)
               e == EntryFor(b, f)
           IN  /\ IsFiniteSet(Buys(b)) /\ Buys(b) \subseteq Entries /\ e \in Entries /\ e \notin Buys(b)
               /\ BuyFees(b) \in Int /\ BoughtIn(b) \in Nat
               /\ f.side = "BUY" => /\ Buys(p) = Buys(b) \cup {e}
                                    /\ BuyFees(p) = f.fee + BuyFees(b)
                                    /\ BoughtIn(p) = f.qty + BoughtIn(b)
               /\ f.side # "BUY" => Buys(p) = Buys(b)
  <1> DEFINE p == Posted(b, f)
             e == EntryFor(b, f)
             S == Buys(b)
             g == [x \in S \cup {e} |-> x.fee]
             h == [x \in S |-> x.fee]
  <1>1. e \in Entries /\ e \notin b.entries /\ b.entries \subseteq Entries BY EntryNew DEF Books
  <1>2. e.qty = f.qty /\ e.side = f.side /\ e.fee = f.fee BY Zenon DEF EntryFor
  <1>3. p.entries = b.entries \cup {e} BY Zenon, PostedParts
  <1>4. IsFiniteSet(b.entries) BY DEF Explained
  <1>5. S \subseteq b.entries BY DEF Buys
  <1>6. Buys(p) = IF f.side = "BUY" THEN S \cup {e} ELSE S
    <2> HIDE DEF p, e
    <2> QED BY <1>2, <1>3 DEF Buys
  <1>7. BuyFees(b) = SumOf(h, S) /\ (Buys(p) = S \cup {e} => BuyFees(p) = SumOf(g, S \cup {e}))
    BY Zenon DEF BuyFees
  <1>8. BoughtIn(b) = Volume(S) /\ BoughtIn(p) = Volume(Buys(p)) BY Zenon DEF BoughtIn, Volume
  <1> HIDE DEF p, e, S
  <1>9. IsFiniteSet(S) /\ e \notin S /\ S \in SUBSET Entries BY <1>1, <1>4, <1>5, FS_Subset
  <1>10. Volume(S \cup {e}) = e.qty + Volume(S) /\ Volume(S) \in Nat BY <1>1, <1>9, VolumeAdd
  <1>11. (\A x \in S \cup {e} : g[x] \in Int) /\ (\A x \in S : h[x] = g[x]) /\ g[e] = e.fee
    BY <1>1, <1>9 DEF Entries
  <1> HIDE DEF g, h
  <1>12. SumOf(g, S \cup {e}) = g[e] + SumOf(h, S) /\ SumOf(h, S) \in Int BY <1>9, <1>11, SumExtend DEF SumOf
  <1>13. f.side = "BUY" => /\ Buys(p) = S \cup {e}
                           /\ BuyFees(p) = f.fee + BuyFees(b)
                           /\ BoughtIn(p) = f.qty + BoughtIn(b)
    BY Zenon, <1>2, <1>6, <1>7, <1>8, <1>10, <1>11, <1>12
  <1>14. f.side # "BUY" => Buys(p) = S BY Zenon, <1>6
  <1>15. BuyFees(b) \in Int /\ BoughtIn(b) \in Nat BY Zenon, <1>7, <1>8, <1>10, <1>12
  <1> QED BY Zenon, <1>1, <1>9, <1>13, <1>14, <1>15 DEF p, e, S

\* A buy moves the drift by the rounding of the average cost.
LEMMA DriftOfBuy ==
    ASSUME NEW b \in Books, NEW f \in Fills, Refusal(b, f) = None, Explained(b), f.side = "BUY",
           \A e \in b.entries : e.number <= b.seq
    PROVE  LET q == b.qty[f.instrument]
               a == b.avg[f.instrument]
           IN  /\ Drift(Posted(b, f), OpeningCash)
                    = Drift(b, OpeningCash) + (q + f.qty) * Credit(b, f) - (a * q + f.price * f.qty)
               /\ Drift(b, OpeningCash) \in Int
  <1> DEFINE i == f.instrument
             p == Posted(b, f)
             q == b.qty[i]
             a == b.avg[i]
             n == q + f.qty
             c == Credit(b, f)
             C == CostBasis(b)
             F == BuyFees(b)
             x == n * c
             y == a * q
             v == f.qty * f.price
  <1>1. b.qty \in [Instruments -> Nat] /\ b.avg \in [Instruments -> Nat] /\ b.cash \in Int /\ b.realized \in Int
    BY DEF Books
  <1>2. i \in Instruments /\ f.qty \in Nat /\ f.price \in Nat /\ f.fee \in Int BY FillFields
  <1>3. p \in Books BY PostedFacts
  <1>4. p.qty = [b.qty EXCEPT ![i] = @ + f.qty] /\ p.avg = [b.avg EXCEPT ![i] = c]
        /\ p.cash = b.cash - Debit(f) /\ p.realized = b.realized
    BY Zenon, PostedParts
  <1>5. p.qty[i] = n /\ p.avg[i] = c /\ \A j \in Instruments : j # i => p.qty[j] = b.qty[j] /\ p.avg[j] = b.avg[j]
    <2> HIDE DEF p, c
    <2> QED BY <1>1, <1>2, <1>4
  <1>6. F \in Int /\ BuyFees(p) = f.fee + F BY Zenon, BuysStep
  <1>7. p.avg[i] \in Nat BY <1>2, <1>3 DEF Books
  <1> HIDE DEF p
  <1>8. CostBasis(p) = C - q * a + p.qty[i] * p.avg[i] /\ C \in Int BY <1>2, <1>3, <1>5, BasisStep
  <1>9. q \in Nat /\ a \in Nat /\ n \in Nat BY <1>1, <1>2
  <1> HIDE DEF q, a, c, n, C, F
  <1>10. x \in Int /\ y \in Int /\ v \in Int /\ q * a = y /\ f.price * f.qty = v
    BY <1>2, <1>5, <1>7, <1>9
  <1>11. CostBasis(p) = C - y + x BY Zenon, <1>5, <1>8, <1>10
  <1>12. p.cash = b.cash - (v + f.fee) BY Zenon, <1>4 DEF Debit
  <1>13. Drift(p, OpeningCash) = (b.cash - (v + f.fee) + (C - y + x)) - (OpeningCash + b.realized - (f.fee + F))
    BY Zenon, <1>4, <1>6, <1>11, <1>12 DEF Drift
  <1>14. Drift(b, OpeningCash) = (b.cash + C) - (OpeningCash + b.realized - F) BY Zenon DEF Drift, C, F
  <1> HIDE DEF x, y, v
  <1>15. Drift(p, OpeningCash) = Drift(b, OpeningCash) + x - (y + v) /\ Drift(b, OpeningCash) \in Int
    BY <1>1, <1>2, <1>6, <1>8, <1>10, <1>13, <1>14, OpeningCashIsNatural
  <1> QED BY Zenon, <1>10, <1>15 DEF p, q, a, n, c, x, y

\* A sell leaves the drift as it is.
LEMMA DriftOfSell ==
    ASSUME NEW b \in Books, NEW f \in Fills, Refusal(b, f) = None, Explained(b), f.side # "BUY",
           \A e \in b.entries : e.number <= b.seq
    PROVE  Drift(Posted(b, f), OpeningCash) = Drift(b, OpeningCash)
  <1> DEFINE i == f.instrument
             p == Posted(b, f)
             q == b.qty[i]
             a == b.avg[i]
             n == f.qty
             C == CostBasis(b)
             F == BuyFees(b)
             x == q * a
             y == n * a
             v == n * f.price
  <1>1. b.qty \in [Instruments -> Nat] /\ b.avg \in [Instruments -> Nat] /\ b.cash \in Int /\ b.realized \in Int
    BY DEF Books
  <1>2. i \in Instruments /\ n \in Nat /\ f.price \in Nat /\ f.fee \in Int BY FillFields
  <1>3. p \in Books BY PostedFacts
  <1>4. p.qty = [b.qty EXCEPT ![i] = @ - n] /\ p.avg = [b.avg EXCEPT ![i] = IF q = n THEN 0 ELSE @]
        /\ p.cash = b.cash + Proceeds(f) /\ p.realized = b.realized + Realized(b, f)
    BY Zenon, PostedParts
  <1> HIDE DEF p
  <1>5. p.qty[i] = q - n /\ p.avg[i] = (IF q = n THEN 0 ELSE a)
        /\ \A j \in Instruments : j # i => p.qty[j] = b.qty[j] /\ p.avg[j] = b.avg[j]
    BY <1>1, <1>2, <1>4
  <1>6. F \in Int /\ BuyFees(p) = F
    <2>1. F \in Int /\ Buys(p) = Buys(b) BY Zenon, BuysStep DEF p
    <2> QED BY Zenon, <2>1 DEF BuyFees
  <1>7. q \in Nat /\ a \in Nat BY <1>1, <1>2
  <1>8. CostBasis(p) = C - q * a + p.qty[i] * p.avg[i] /\ C \in Int BY <1>2, <1>3, <1>5, BasisStep
  <1> HIDE DEF C, F
  <1>9. x \in Int /\ y \in Int /\ v \in Int /\ (f.price - a) * n = v - y /\ (q - n) * a = x - y
    <2>1. (q - n) * a = q * a - n * a /\ q * a \in Int /\ n * a \in Int BY <1>2, <1>7, Distribute
    <2>2. (f.price - a) * n = f.price * n - a * n /\ f.price * n = n * f.price /\ f.price * n \in Int
      BY <1>2, <1>7, Distribute
    <2>3. a * n = n * a BY <1>2, <1>7, Distribute
    <2> QED BY Zenon, <2>1, <2>2, <2>3
  <1>10. p.qty[i] * p.avg[i] = x - y
    <2>1. CASE q = n
      <3>1. p.qty[i] = 0 /\ p.avg[i] = 0 BY <1>2, <1>5, <2>1
      <3>2. x - y = 0 BY <1>9, <2>1
      <3> QED BY <3>1, <3>2
    <2>2. CASE q # n
      <3>1. p.qty[i] * p.avg[i] = (q - n) * a BY Zenon, <1>5, <2>2
      <3> QED BY Zenon, <1>9, <3>1
    <2> QED BY Zenon, <2>1, <2>2
  <1>11. CostBasis(p) = C - x + (x - y) BY Zenon, <1>8, <1>10
  <1>12. p.cash = b.cash + (v - f.fee) BY Zenon, <1>4 DEF Proceeds
  <1>13. p.realized = b.realized + ((v - y) - f.fee) BY Zenon, <1>4, <1>9 DEF Realized
  <1>14. Drift(p, OpeningCash)
           = (b.cash + (v - f.fee) + (C - x + (x - y))) - (OpeningCash + (b.realized + ((v - y) - f.fee)) - F)
    BY Zenon, <1>6, <1>11, <1>12, <1>13 DEF Drift
  <1>15. Drift(b, OpeningCash) = (b.cash + C) - (OpeningCash + b.realized - F) BY Zenon DEF Drift, C, F
  <1> HIDE DEF x, y, v
  <1>16. Drift(p, OpeningCash) = Drift(b, OpeningCash)
    BY <1>1, <1>2, <1>6, <1>8, <1>9, <1>14, <1>15, OpeningCashIsNatural
  <1> QED BY Zenon, <1>16 DEF p

LEMMA AbsBound ==
    ASSUME NEW d \in Int, NEW n \in Int
    PROVE  2 * Abs(d) <= n <=> 2 * d <= n /\ -(2 * d) <= n
  BY DEF Abs

\* A larger set of entries has at least the shares of a smaller one.
LEMMA VolumeMonotonic ==
    ASSUME NEW A \in SUBSET Entries, IsFiniteSet(A), NEW B \in SUBSET A
    PROVE  Volume(B) <= Volume(A) /\ Volume(A) \in Nat /\ Volume(B) \in Nat
  <1> DEFINE g == [e \in A |-> e.qty]
             h == [e \in B |-> e.qty]
  <1>1. \A e \in A : g[e] \in Nat BY DEF Entries
  <1>2. \A e \in B : h[e] = g[e] /\ h[e] \in Nat BY DEF Entries
  <1>3. Volume(A) = SumOf(g, A) /\ Volume(B) = SumOf(h, B) BY Zenon DEF Volume
  <1>4. IsFiniteSet(B) BY FS_Subset
  <1> HIDE DEF g, h
  <1>5. SumOf(g, A) \in Nat /\ SumOf(h, B) \in Nat BY <1>1, <1>2, <1>4, SumNat DEF SumOf
  <1>6. SumOf(h, B) = SumOf(g, B) BY <1>2, <1>4, SumSame DEF SumOf
  <1>7. SumOf(g, B) <= SumOf(g, A) BY <1>1, SumSubset DEF SumOf
  <1> QED BY Zenon, <1>3, <1>5, <1>6, <1>7

\* No lot holds more than was ever bought.
LEMMA HeldWasBought ==
    ASSUME NEW b \in Books, Explained(b), NEW i \in Instruments
    PROVE  b.qty[i] <= BoughtIn(b)
  <1> DEFINE B == EntriesOf(b, i, "BUY")
             S == EntriesOf(b, i, "SELL")
             A == Buys(b)
  <1>1. IsFiniteSet(b.entries) /\ b.entries \subseteq Entries /\ b.qty[i] = Volume(B) - Volume(S)
    BY DEF Explained, Volume, Books
  <1>2. B \subseteq A /\ A \subseteq b.entries /\ S \subseteq b.entries BY DEF EntriesOf, Buys
  <1>3. BoughtIn(b) = Volume(A) BY Zenon DEF BoughtIn, Volume
  <1> HIDE DEF B, S, A
  <1>4. IsFiniteSet(A) /\ IsFiniteSet(B) /\ IsFiniteSet(S) BY <1>1, <1>2, FS_Subset
  <1>5. A \subseteq Entries /\ B \subseteq Entries /\ S \subseteq Entries BY Zenon, <1>1, <1>2
  <1>6. \A e \in Entries : e.qty \in Nat BY DEF Entries
  <1>7. Volume(S) \in Nat
    <2> DEFINE k == [e \in S |-> e.qty]
    <2>1. \A e \in S : k[e] \in Nat BY Zenon, <1>5, <1>6
    <2> HIDE DEF k
    <2>2. SumOf(k, S) \in Nat BY <1>4, <2>1, SumNat DEF SumOf
    <2> QED BY Zenon, <2>2 DEF Volume, k
  <1>8. Volume(B) <= Volume(A) /\ Volume(A) \in Nat /\ Volume(B) \in Nat
    BY <1>2, <1>4, <1>5, VolumeMonotonic
  <1> QED BY <1>1, <1>3, <1>7, <1>8

\* Posting keeps the drift bounded.
LEMMA PostedSteady ==
    ASSUME NEW b \in Books, NEW f \in Fills, Refusal(b, f) = None, Explained(b), Steady(b),
           \A e \in b.entries : e.number <= b.seq
    PROVE  Steady(Posted(b, f))
  <1> DEFINE p == Posted(b, f)
             e == EntryFor(b, f)
             S == Buys(b)
             D == Drift(b, OpeningCash)
             n == BoughtIn(b)
             h == [x \in S |-> n]
  <1>1. /\ IsFiniteSet(S) /\ e \notin S /\ n \in Nat
        /\ f.side = "BUY" => Buys(p) = S \cup {e} /\ BoughtIn(p) = f.qty + n
        /\ f.side # "BUY" => Buys(p) = S
    BY Zenon, BuysStep
  <1>2. CASE f.side # "BUY"
    <2>1. Drift(p, OpeningCash) = D BY Zenon, <1>2, DriftOfSell
    <2>2. Buys(p) = Buys(b) BY Zenon, <1>1, <1>2
    <2>3. BoughtIn(p) = BoughtIn(b) BY Zenon, <2>2 DEF BoughtIn
    <2> QED BY Zenon, <2>1, <2>2, <2>3 DEF Steady
  <1>3. CASE f.side = "BUY"
    <2> DEFINE q == b.qty[f.instrument]
               a == b.avg[f.instrument]
               m == q + f.qty
               x == m * Credit(b, f)
               y == a * q + f.price * f.qty
               k == f.qty + n
               g == [z \in S \cup {e} |-> k]
    <2>1. q \in Nat /\ a \in Nat /\ f.qty \in Nat /\ f.qty > 0 /\ f.price \in Nat /\ f.instrument \in Instruments
      BY FillFields DEF Books
    <2>2. Drift(p, OpeningCash) = D + x - y /\ D \in Int BY Zenon, <1>3, DriftOfBuy
    <2>3. q <= n BY <2>1, HeldWasBought
    <2>4. y \in Nat /\ m \in Nat \ {0} /\ Credit(b, f) = Money(y, m)
      <3>1. a * q \in Nat /\ f.price * f.qty \in Nat BY <2>1, ProductNat
      <3>2. y \in Nat /\ m \in Nat \ {0} BY <2>1, <3>1
      <3> QED BY Zenon, <3>2 DEF Credit
    <2>5. 2 * D <= SumOf(h, S) /\ -(2 * D) <= SumOf(h, S) /\ SumOf(h, S) \in Int
      <3>1. \A z \in S : h[z] \in Int BY <1>1
      <3>2. 2 * Abs(D) <= SumOf(h, S) BY Zenon DEF Steady
      <3> HIDE DEF h, S, D
      <3>3. SumOf(h, S) \in Int BY <1>1, <3>1, SumInt DEF SumOf
      <3> QED BY <2>2, <3>2, <3>3, AbsBound
    <2>6. Steady(p) <=> 2 * Abs(Drift(p, OpeningCash)) <= SumOf(g, S \cup {e})
      <3>1. Buys(p) = S \cup {e} /\ BoughtIn(p) = k BY Zenon, <1>1, <1>3
      <3> HIDE DEF p, S, e, k
      <3> QED BY Zenon, <3>1 DEF Steady
    <2>7. SumOf(g, S \cup {e}) >= k + SumOf(h, S) /\ SumOf(g, S \cup {e}) \in Int
      <3> DEFINE l == [z \in S |-> k]
      <3>1. (\A z \in S \cup {e} : g[z] \in Int) /\ (\A z \in S : l[z] = g[z]) /\ g[e] = k
            /\ (\A z \in S : h[z] \in Int /\ l[z] \in Int /\ h[z] <= l[z])
        <4> HIDE DEF S, e, n
        <4> QED BY <1>1, <2>1
      <3> HIDE DEF g, h, l, S, e, k
      <3>2. SumOf(g, S \cup {e}) = g[e] + SumOf(l, S) /\ SumOf(l, S) \in Int BY <1>1, <3>1, SumExtend DEF SumOf
      <3>3. SumOf(h, S) <= SumOf(l, S) BY <1>1, <3>1, SumMonotonic DEF SumOf
      <3>4. k \in Int BY <1>1, <2>1 DEF k
      <3> QED BY <2>5, <3>1, <3>2, <3>3, <3>4
    <2>8. 2 * x <= 2 * y + m /\ 2 * y <= 2 * x + m /\ x \in Int
      <3> HIDE DEF m, y
      <3>1. Money(y, m) \in Nat BY <2>4, MoneyNat
      <3>2. x = m * Money(y, m) /\ x \in Int BY <2>4, <3>1
      <3> HIDE DEF x
      <3> QED BY Zenon, <2>4, <3>2, MoneyClose
    <2>9. m <= k BY <1>1, <2>1, <2>3
    <2> DEFINE s == SumOf(g, S \cup {e})
               t == SumOf(h, S)
    <2> HIDE DEF x, y, m, k, s, t, D
    <2>10. k \in Int BY <1>1, <2>1 DEF k
    <2>11. D + x - y \in Int /\ 2 * (D + x - y) <= s /\ -(2 * (D + x - y)) <= s /\ s \in Int
      BY <2>2, <2>4, <2>5, <2>7, <2>8, <2>9, <2>10 DEF s, t
    <2>12. 2 * Abs(D + x - y) <= s BY <2>11, AbsBound
    <2> QED BY Zenon, <2>2, <2>6, <2>12 DEF s
  <1> QED BY Zenon, <1>2, <1>3

\* Posting keeps a book sound.
LEMMA PostedSound ==
    ASSUME NEW b, NEW f \in Fills, Refusal(b, f) = None, Sound(b)
    PROVE  Sound(Posted(b, f))
  <1> DEFINE p == Posted(b, f)
  <1>1. b \in Books /\ Explained(b) /\ Steady(b) /\ \A e \in b.entries : e.number <= b.seq BY Zenon DEF Sound
  <1>2. p \in Books /\ p.seq = b.seq + 1 BY Zenon, <1>1, PostedFacts
  <1>3. p.entries = b.entries \cup {EntryFor(b, f)} BY Zenon, <1>1, PostedParts
  <1>4. EntryFor(b, f).number = b.seq + 1 BY Zenon DEF EntryFor
  <1>5. b.seq \in Nat /\ \A e \in b.entries : e.number \in Nat BY <1>1 DEF Books, Entries
  <1> HIDE DEF p
  <1>6. \A e \in p.entries : e.number <= p.seq BY <1>1, <1>2, <1>3, <1>4, <1>5
  <1>7. Explained(p)
    <2>1. /\ IsFiniteSet(p.entries)
          /\ p.cash = OpeningCash + SumOf([e \in p.entries |-> e.cash], p.entries)
          /\ p.realized = SumOf([e \in p.entries |-> e.realized], p.entries)
      BY Zenon, <1>1, PostedMoney DEF p
    <2>2. \A i \in Instruments : p.qty[i] = Volume(EntriesOf(p, i, "BUY")) - Volume(EntriesOf(p, i, "SELL"))
      BY Zenon, <1>1, PostedQuantity DEF p
    <2> QED BY Zenon, <2>1, <2>2 DEF Explained, Volume
  <1>8. Steady(p) BY Zenon, <1>1, PostedSteady DEF p
  <1> QED BY Zenon, <1>2, <1>6, <1>7, <1>8 DEF Sound, p

\* The opened book is sound.
LEMMA OpenedSound == Sound(Opened(OpeningCash))
  <1> DEFINE b == Opened(OpeningCash)
  <1>1. b \in Books BY OpeningCashIsNatural DEF Opened, Books
  <1>2. /\ b.entries = {} /\ b.cash = OpeningCash /\ b.realized = 0
        /\ \A i \in Instruments : b.qty[i] = 0 /\ b.avg[i] = 0
    BY DEF Opened
  <1> HIDE DEF b
  <1>3. \A g : SumOf(g, {}) = 0 BY Zenon, SumEmpty DEF SumOf
  <1>4. Buys(b) = {} /\ \A i \in Instruments : EntriesOf(b, i, "BUY") = {} /\ EntriesOf(b, i, "SELL") = {}
    BY <1>2 DEF Buys, EntriesOf
  <1>5. Explained(b)
    <2>1. b.cash = OpeningCash + SumOf([e \in b.entries |-> e.cash], b.entries)
      BY <1>2, <1>3, OpeningCashIsNatural
    <2>2. b.realized = SumOf([e \in b.entries |-> e.realized], b.entries) BY <1>2, <1>3
    <2>3. \A i \in Instruments :
            b.qty[i] = SumOf([e \in EntriesOf(b, i, "BUY") |-> e.qty], EntriesOf(b, i, "BUY"))
                       - SumOf([e \in EntriesOf(b, i, "SELL") |-> e.qty], EntriesOf(b, i, "SELL"))
      BY <1>2, <1>3, <1>4
    <2>4. IsFiniteSet(b.entries) BY <1>2, FS_EmptySet
    <2> QED BY Zenon, <2>1, <2>2, <2>3, <2>4 DEF Explained
  <1>6. Steady(b)
    <2>1. BuyFees(b) = 0 /\ SumOf([e \in Buys(b) |-> BoughtIn(b)], Buys(b)) = 0 BY <1>3, <1>4 DEF BuyFees
    <2>2. CostBasis(b) = 0
      <3> DEFINE g == [i \in Instruments |-> b.qty[i] * b.avg[i]]
      <3>1. \A i \in Instruments : g[i] = 0 BY <1>2
      <3> HIDE DEF g
      <3>2. SumOf(g, Instruments) \in Nat BY <3>1, SumNat, InstrumentsAreFinite DEF SumOf
      <3>3. SumOf(g, Instruments) <= 0 BY <3>1, SumZero, InstrumentsAreFinite DEF SumOf
      <3>4. SumOf(g, Instruments) = 0 BY <3>2, <3>3
      <3> QED BY Zenon, <3>4 DEF CostBasis, g
    <2>3. Drift(b, OpeningCash) = 0 BY <1>2, <2>1, <2>2, OpeningCashIsNatural DEF Drift
    <2> QED BY <2>1, <2>3 DEF Steady, Abs
  <1> QED BY Zenon, <1>1, <1>2, <1>5, <1>6 DEF Sound, b

\* Every step keeps the book and the checkpoint sound.
LEMMA NextBook == IInv /\ BookInv /\ [Next]_vars => BookInv'
  <1> SUFFICES ASSUME IInv, BookInv, [Next]_vars PROVE BookInv' OBVIOUS
  <1>1. ASSUME NEW f \in Fills, IsApplied(book, f) PROVE Sound(Posted(book, f))
    BY Zenon, <1>1, PostedSound DEF BookInv, IsApplied
  <1>2. ASSUME NEW f \in Fills, ApplyFill(f) PROVE BookInv'
    <2>1. Sound(book') BY Zenon, <1>1, <1>2 DEF ApplyFill, BookInv
    <2>2. checkpoint' = book' BY Zenon, <1>2 DEF ApplyFill
    <2> QED BY Zenon, <2>1, <2>2 DEF BookInv, Sound, Explained, Steady, Books, EntriesOf, BoughtIn
  <1>3. ASSUME NEW k \in {"sorted", "atomic"}, NEW b \in Batches, Begin(k, b) PROVE BookInv'
    BY Zenon, <1>3 DEF Begin, BookInv
  <1>4. ASSUME NEW x \in queue, Step(x) PROVE BookInv'
    <2>1. x.fill \in Fills BY DEF IInv, TypeOK, Items
    <2>2. Sound(book') BY Zenon, <1>1, <1>4, <2>1 DEF Step, BookInv
    <2> QED BY Zenon, <1>4, <2>2 DEF Step, BookInv
  <1>5. ASSUME NEW x \in queue, Rollback(x) PROVE BookInv'
    BY Zenon, <1>5 DEF Rollback, Restored, BookInv
  <1>6. ASSUME End PROVE BookInv' BY Zenon, <1>6 DEF End, BookInv
  <1>7. ASSUME UNCHANGED vars PROVE BookInv' BY Zenon, <1>7 DEF vars, BookInv
  <1> QED BY Zenon, <1>2, <1>3, <1>4, <1>5, <1>6, <1>7 DEF Next

\* The book and the checkpoint a rollback restores are sound in every reachable state.
THEOREM BooksSound == Spec => []BookInv
  <1>1. Init => BookInv BY OpenedSound DEF Init, BookInv
  <1> QED BY <1>1, NextBook, Inductive, PTL DEF Spec

\* The book is the sum of its postings, and its conservation identity is off by no
\* more than rounding explains, through every batch, refused fill and rollback.
THEOREM BookAlwaysExplained == Spec => []BookExplained
  <1>1. BookInv => BookExplained
    <2>1. \A i, side : Of(i, side) = EntriesOf(book, i, side) BY Zenon DEF Of, EntriesOf
    <2>2. Bought2 = BoughtIn(book) BY Zenon DEF Bought2, BoughtIn
    <2>3. BookInv => EntriesExplain BY Zenon, <2>1 DEF BookInv, Sound, Explained, EntriesExplain
    <2>4. BookInv => DriftBounded BY Zenon, <2>2 DEF BookInv, Sound, Steady, DriftBounded
    <2> QED BY Zenon, <2>3, <2>4 DEF BookExplained
  <1> QED BY BooksSound, <1>1, PTL

=============================================================================
