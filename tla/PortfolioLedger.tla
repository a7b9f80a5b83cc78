--------------------------- MODULE PortfolioLedger ---------------------------
(***************************************************************************)
(* The portfolio ledger: single fills, sorted batches, and batches that    *)
(* are applied as a whole or not at all.  A batch is applied fill by fill, *)
(* and no other call runs between its steps.                               *)
(***************************************************************************)
EXTENDS LedgerBook, Sequences

CONSTANTS
    Batches,       \* the sequences of fills that callers pass
    OpeningCash

ASSUME BatchesWellFormed == Batches \subseteq Seq(Fills)
ASSUME OpeningCashIsNatural == OpeningCash \in Nat

\* A fill of a batch with its place in it.
Items == [place : Nat, fill : Fills]

\* The answers that carry an entry id.  A rejection, and what a rollback rewrites to
\* a rejection, carries none.
Results == [status : {"APPLIED", "DUPLICATE"}, fill : Nat, entry : Nat]

VARIABLES
    book,        \* the ledger
    mode,        \* "idle", or the kind of batch in progress
    queue,       \* the items of the batch still to be applied
    checkpoint,  \* the book after the last call that ended; a batch begins from it
    pending,     \* answers of the batch in progress
    returned     \* every answer that a caller was given

vars == <<book, mode, queue, checkpoint, pending, returned>>

Init ==
    /\ book = Opened(OpeningCash)
    /\ mode = "idle"
    /\ queue = {}
    /\ checkpoint = Opened(OpeningCash)
    /\ pending = {}
    /\ returned = {}

-----------------------------------------------------------------------------

\* What apply_fill answers.
Duplicate(b, f) == [status |-> "DUPLICATE", fill |-> f.id, entry |-> EntryOf(b, f).number]
Applied(b, f) == [status |-> "APPLIED", fill |-> f.id, entry |-> b.seq + 1]

IsDuplicate(b, f) == f.id \in Seen(b)

IsRejected(b, f) == f.id \notin Seen(b) /\ Refusal(b, f) # None

IsApplied(b, f) == f.id \notin Seen(b) /\ Refusal(b, f) = None

ApplyFill(f) ==
    /\ mode = "idle"
    /\ \/ IsDuplicate(book, f) /\ returned' = returned \cup {Duplicate(book, f)} /\ book' = book
       \/ IsRejected(book, f) /\ returned' = returned /\ book' = book
       \/ IsApplied(book, f) /\ returned' = returned \cup {Applied(book, f)}
                             /\ book' = Posted(book, f)
    /\ checkpoint' = book'
    /\ UNCHANGED <<mode, queue, pending>>

\* apply_fills_sorted and apply_fills_atomic; an empty batch changes nothing.
Begin(kind, b) ==
    /\ mode = "idle"
    /\ b # <<>>
    /\ mode' = kind
    /\ queue' = {[place |-> i, fill |-> b[i]] : i \in 1..Len(b)}
    /\ UNCHANGED <<book, checkpoint, pending, returned>>

\* By (filled_at, fill_id); the sort is stable.
Before(x, y) ==
    \/ x.fill.at < y.fill.at
    \/ x.fill.at = y.fill.at /\ x.fill.id < y.fill.id
    \/ x.fill.at = y.fill.at /\ x.fill.id = y.fill.id /\ x.place < y.place

First(x) == mode # "idle" /\ x \in queue /\ \A y \in queue \ {x} : Before(x, y)

\* The next fill of a batch, not (or not fatally) rejected.
Step(x) ==
    /\ First(x)
    /\ \/ IsDuplicate(book, x.fill) /\ pending' = pending \cup {Duplicate(book, x.fill)}
                                    /\ book' = book
       \/ IsApplied(book, x.fill) /\ pending' = pending \cup {Applied(book, x.fill)}
                                  /\ book' = Posted(book, x.fill)
       \/ /\ mode = "sorted"
          /\ IsRejected(book, x.fill)
          /\ UNCHANGED <<pending, book>>
    /\ queue' = queue \ {x}
    /\ UNCHANGED <<mode, checkpoint, returned>>

\* The answers that a rollback rewrites to a rejection.
RolledBack(r) ==
    \/ r.status = "APPLIED"
    \/ r.status = "DUPLICATE" /\ r.fill \notin Seen(checkpoint)

\* Mutant: the checkpoint shares the list of entries with the ledger.
RestoredShared == [checkpoint EXCEPT !.entries = book.entries]

\* _restore
Restored == checkpoint

Rollback(x) ==
    /\ mode = "atomic"
    /\ First(x)
    /\ IsRejected(book, x.fill)
    /\ book' = Restored
    /\ returned' = returned \cup {r \in pending : ~RolledBack(r)}
    /\ mode' = "idle"
    /\ queue' = {}
    /\ pending' = {}
    /\ UNCHANGED checkpoint

End ==
    /\ mode # "idle"
    /\ queue = {}
    /\ returned' = returned \cup pending
    /\ mode' = "idle"
    /\ pending' = {}
    /\ checkpoint' = book
    /\ UNCHANGED <<book, queue>>

Next ==
    \/ \E f \in Fills : ApplyFill(f)
    \/ \E k \in {"sorted", "atomic"}, b \in Batches : Begin(k, b)
    \/ \E x \in queue : Step(x) \/ Rollback(x)
    \/ End

Spec == Init /\ [][Next]_vars

-----------------------------------------------------------------------------
(* Properties.                                                             *)

\* The books, the batch and the answers have their types; cash and positions
\* are never negative, in the middle of a batch neither.
TypeOK ==
    /\ book \in Books
    /\ mode \in {"idle", "sorted", "atomic"}
    /\ queue \subseteq Items
    /\ checkpoint \in Books
    /\ pending \subseteq Results
    /\ returned \subseteq Results

Of(i, side) == {e \in book.entries : e.instrument = i /\ e.side = side}

\* Cash, positions and realized profit are the opening balance plus the postings.
EntriesExplain ==
    /\ book.cash = OpeningCash + SumOf([e \in book.entries |-> e.cash], book.entries)
    /\ book.realized = SumOf([e \in book.entries |-> e.realized], book.entries)
    /\ \A i \in Instruments :
         book.qty[i] = SumOf([e \in Of(i, "BUY") |-> e.qty], Of(i, "BUY"))
                       - SumOf([e \in Of(i, "SELL") |-> e.qty], Of(i, "SELL"))

\* A fill id is posted at most once, and entry numbers are not shared.
PostedOnce ==
    \A d, e \in book.entries : d.fill = e.fill \/ d.number = e.number => d = e

\* "callers never see a stale entry_id for a fill that did not stick": an entry id
\* that was ever returned for a fill is the id of that fill's posting, although a
\* rollback makes the numbers of its postings free for other fills.
EntryIdsStick ==
    \A r \in returned : \E e \in book.entries : e.fill = r.fill /\ e.number = r.entry

\* No posting is ever taken back but those of an atomic batch in progress: what
\* callers saw after an earlier call stays in the book.
AppendOnly ==
    [][/\ checkpoint.entries \subseteq book'.entries
       /\ mode # "atomic" => book.entries \subseteq book'.entries]_vars

\* "cash + cost_basis == opening_cash + realized_pnl - buy_fees" (conservation).
Conserved == Drift(book, OpeningCash) = 0

Bought2 == SumOf([e \in Buys(book) |-> e.qty], Buys(book))
Abs(n) == IF n < 0 THEN -n ELSE n

\* The rounding of the average cost moves the identity by at most half a quantum
\* per share bought, at each buy: the drift is bounded by the postings.
DriftBounded ==
    2 * Abs(Drift(book, OpeningCash)) <= SumOf([e \in Buys(book) |-> Bought2], Buys(book))

\* The book is the sum of its postings, and its conservation identity is off by no
\* more than rounding explains, through batches that fail and are rolled back
\* (apply_fills_atomic, assert_conservation).
BookExplained == EntriesExplain /\ DriftBounded

-----------------------------------------------------------------------------
(* An instance with prices of a few quanta, at which average costs round   *)
(* up and down; one fill id with two payloads, a fill of another account   *)
(* and a negative fee are refused or repeated.                             *)

MCFill(n, s, i, q, p, fee, t) ==
    [id |-> n, side |-> s, instrument |-> i, qty |-> q, price |-> p, fee |-> fee, at |-> t,
     foreign |-> FALSE]

MCF1 == MCFill(1, "BUY", "X", 1, 1, 0, 1)
MCF1Again == MCFill(1, "BUY", "X", 2, 1, 0, 1)
MCF2 == MCFill(2, "BUY", "X", 1, 12, 0, 1)
MCF3 == MCFill(3, "BUY", "X", 2, 2, 1, 0)
MCF4 == MCFill(4, "SELL", "X", 1, 3, 1, 2)
MCF5 == MCFill(5, "SELL", "X", 2, 1, 0, 2)
MCF6 == [MCFill(6, "BUY", "Y", 1, 1, 0, 0) EXCEPT !.foreign = TRUE]
MCF7 == MCFill(7, "BUY", "Y", 1, 1, -1, 0)
MCF8 == MCFill(8, "SELL", "X", 1, 1, 2, 0)

MCFills == {MCF1, MCF1Again, MCF2, MCF3, MCF4, MCF5, MCF6, MCF7, MCF8}
MCBatches == {<<MCF4, MCF2, MCF1>>, <<MCF5, MCF1>>, <<MCF1, MCF3, MCF1Again, MCF5>>, <<MCF1, MCF1Again, MCF5>>, <<MCF2, MCF8>>, <<MCF6>>, <<MCF7, MCF3>>}
=============================================================================
