----------------------- MODULE TelegramPollingProofs -----------------------
(***************************************************************************)
(* Proofs that the fenced cursor loses no update, that a takeover fences   *)
(* the old poller out, and that handlers exclude each other, for any       *)
(* number of pollers, updates and faults.                                  *)
(***************************************************************************)
EXTENDS TelegramPolling, TLAPS

\* The poller runs under the epoch that is current in the row.
Current(p) == at[p].pc # "idle" /\ at[p].epoch = row.epoch

Active == {"ready", "handler", "verdict", "record"}

\* An epoch belongs to one live poller; while it is current the poller is the
\* owner and knows the version.
Epochs ==
    /\ \A p \in Pollers : at[p].pc # "idle" => at[p].epoch <= row.epoch
    /\ \A p, q \in Pollers :
         at[p].pc # "idle" /\ at[q].pc # "idle" /\ at[p].epoch = at[q].epoch => p = q
    /\ \A p \in Pollers : Current(p) => row.owner = p /\ at[p].version = row.version

\* What a current poller is about to poll starts at the cursor.
Offsets ==
    \A p \in Pollers : Current(p) /\ at[p].pc \in {"leased", "poll"} => at[p].offset = row.next

\* Below an update of a current poller's batch, everything that arrived is
\* processed, in the batch, or the update in hand.
Covered ==
    \A p \in Pollers : Current(p) /\ at[p].pc \in {"polled", "batch"} \cup Active =>
      \A u \in at[p].batch, v \in arrived :
        v < u => v \in processed \/ v \in at[p].batch \/ (at[p].pc \in Active /\ v = at[p].cur)

\* Batches hold updates that arrived.
Batches ==
    \A p \in Pollers :
      /\ at[p].batch \subseteq arrived
      /\ at[p].pc \in Active => at[p].cur \in arrived

\* The update in hand of a current poller is the first one not processed, and
\* its digest has not been recorded.
InHand ==
    \A p \in Pollers : Current(p) /\ at[p].pc \in Active =>
      /\ at[p].cur \notin processed
      /\ at[p].digest \notin seen
      /\ \A v \in arrived : v < at[p].cur => v \in processed

\* A verdict rests on a handler's answer, or needs none.
Verdicts ==
    /\ \A p \in Pollers : at[p].pc \in Active =>
         /\ at[p].digest # None => at[p].digest = Query[at[p].cur]
         /\ at[p].pc \in {"verdict", "record"} =>
              \/ at[p].cur \in handled
              \/ at[p].digest = None /\ (Kind[at[p].cur] = "ignored" \/ Query[at[p].cur] \in seen)
    /\ \A k \in seen : \E v \in handled : Query[v] = k

\* A handler runs under a current lease that outlives its deadline.
Handlers ==
    \A p \in Pollers : at[p].pc = "handler" =>
      Current(p) /\ row.ttl + at[p].spent >= Lease

\* The cursor is just past an update that arrived.
Cursor == row.next = 0 \/ \E v \in arrived : row.next = v + 1

IInv ==
    /\ TypeOK /\ Epochs /\ Offsets /\ Covered /\ Batches /\ InHand /\ Verdicts /\ Handlers
    /\ NoUpdateLost /\ RecordedWasHandled /\ Cursor

-----------------------------------------------------------------------------

\* The facts about the constants that every proof uses.
LEMMA Constants ==
    /\ \A u \in Updates : u \in Nat
    /\ Lease \in Nat /\ StepTime \in Nat /\ StepTime < Lease /\ MaxFaults \in Nat
    /\ 0 \in 0..Lease /\ Lease \in 0..Lease /\ 0 \in 0..StepTime
    /\ None \notin Pollers
    /\ None \notin Queries
    /\ Asleep \in Local
    /\ Asleep.pc = "idle" /\ Asleep.batch = {} /\ Asleep.spent = 0
  BY UpdatesAreIds, LeaseFits, NoneIsNoPoller DEF Queries, Asleep, Local, PcNames

\* The initial state satisfies the inductive invariant: no poller is awake.
LEMMA InitInv == Init => IInv
  <1> SUFFICES ASSUME Init PROVE IInv OBVIOUS
  <1>1. TypeOK
    <2>1. row \in Rows BY LeaseFits DEF Init, Rows
    <2> QED BY <2>1, Constants DEF Init, TypeOK
  <1>2. \A p \in Pollers : at[p].pc = "idle" /\ at[p].batch = {}
    BY DEF Init, Asleep
  <1> QED BY <1>1, <1>2 DEF Init, IInv, Epochs, Offsets, Covered, Batches, InHand, Verdicts,
               Handlers, NoUpdateLost, RecordedWasHandled, Cursor, Current, Active

\* A step of poller p that leaves the database alone and only moves p on, out of
\* the handler or on to the release.
LEMMA GiveUpInv ==
    ASSUME IInv, NEW p \in Pollers, at[p].pc # "idle",
           UNCHANGED <<arrived, row, processed, seen, handled>>, faults' \in 0..MaxFaults, down' \subseteq Pollers,
           at' = [at EXCEPT ![p].pc = "release"]
    PROVE  IInv'
  <1>1. TypeOK' BY DEF IInv, TypeOK, Local, PcNames
  <1>2. /\ \A q \in Pollers : q # p => at'[q] = at[q]
        /\ at'[p].pc = "release" /\ at'[p].epoch = at[p].epoch /\ at'[p].version = at[p].version
        /\ at'[p].batch = at[p].batch
    BY DEF IInv, TypeOK, Rows, Local
  <1>3. Epochs' BY <1>2 DEF IInv, Epochs, Current
  <1>4. Offsets' /\ Covered' /\ InHand' /\ Handlers'
    BY <1>2 DEF IInv, Offsets, Covered, InHand, Handlers, Current, Active
  <1>5. Batches' /\ Verdicts' BY <1>2 DEF IInv, Batches, Verdicts, Active
  <1> QED BY <1>1, <1>3, <1>4, <1>5 DEF IInv, NoUpdateLost, RecordedWasHandled, Cursor

\* A poller goes to sleep, by a crash or by a release of its own epoch.
LEMMA SleepInv ==
    ASSUME IInv, NEW p \in Pollers, at[p].pc # "idle",
           UNCHANGED <<arrived, processed, seen, handled>>, faults' \in 0..MaxFaults, down' \subseteq Pollers,
           row' = row \/ (at[p].epoch = row.epoch
                          /\ row' = [row EXCEPT !.owner = None, !.ttl = 0, !.version = @ + 1]),
           at' = [at EXCEPT ![p] = Asleep]
    PROVE  IInv'
  <1>1. TypeOK'
    <2>0. row \in Rows /\ row.version + 1 \in Nat BY DEF IInv, TypeOK, Rows
    <2>1. row' \in Rows BY ZenonT(30), <2>0, Constants DEF Rows
    <2>2. at' \in [Pollers -> Local] BY Constants DEF IInv, TypeOK
    <2> QED BY <2>1, <2>2 DEF IInv, TypeOK
  <1>2. /\ \A q \in Pollers : q # p => at'[q] = at[q]
        /\ at'[p].pc = "idle" /\ at'[p].batch = {}
    BY Constants DEF IInv, TypeOK
  <1>3. row'.epoch = row.epoch /\ row'.next = row.next
    BY ZenonT(30) DEF IInv, TypeOK, Rows, Local
  <1>4. \A q \in Pollers : q # p /\ Current(q) => row' = row
    BY DEF IInv, Epochs, Current
  <1>5. Epochs' BY <1>2, <1>3, <1>4 DEF IInv, Epochs, Current
  <1>6. Offsets' /\ Covered' /\ InHand'
    BY <1>2, <1>3 DEF IInv, Offsets, Covered, InHand, Current, Active
  <1>7. Handlers' BY <1>2, <1>3, <1>4 DEF IInv, Handlers, Current
  <1>8. Batches' /\ Verdicts' BY <1>2 DEF IInv, Batches, Verdicts, Active
  <1> QED BY <1>1, <1>3, <1>5, <1>6, <1>7, <1>8 DEF IInv, NoUpdateLost, RecordedWasHandled, Cursor

\* Acquire starts an epoch nobody has, and only when no handler is running.
LEMMA AcquireInv ==
    ASSUME IInv, NEW p \in Pollers, Acquire(p)
    PROVE  IInv'
  <1> USE DEF Acquire
  <1>1. TypeOK'
    <2>2. row \in Rows /\ row.epoch + 1 \in Nat /\ row.version + 1 \in Nat /\ row.next \in Nat
      BY DEF IInv, TypeOK, Rows
    <2>1. row' \in Rows BY ZenonT(30), <2>2, Constants DEF Rows
    <2>3. [Asleep EXCEPT !.pc = "leased", !.epoch = row.epoch + 1, !.version = row.version + 1,
                         !.offset = row.next] \in Local
      BY ZenonT(30), <2>2, Constants DEF Local, PcNames
    <2>4. at' \in [Pollers -> Local] BY <2>3 DEF IInv, TypeOK
    <2> QED BY <2>1, <2>4 DEF IInv, TypeOK
  <1>2. /\ \A q \in Pollers : q # p => at'[q] = at[q]
        /\ at'[p].pc = "leased" /\ at'[p].epoch = row.epoch + 1
        /\ at'[p].version = row.version + 1 /\ at'[p].offset = row.next /\ at'[p].batch = {}
    BY DEF IInv, TypeOK, Rows, Local, Asleep
  <1>3. /\ row'.epoch = row.epoch + 1 /\ row'.version = row.version + 1
        /\ row'.owner = p /\ row'.next = row.next
    BY DEF IInv, TypeOK, Rows, Local
  <1>4. row.epoch \in Nat /\ \A q \in Pollers : at[q].epoch \in Nat
    BY DEF IInv, TypeOK, Rows, Local
  <1>5. \A q \in Pollers : q # p => ~Current(q)'
    BY <1>2, <1>3, <1>4 DEF IInv, Epochs, Current
  <1>6. \A q \in Pollers : at[q].pc # "handler"
    <2> SUFFICES ASSUME NEW q \in Pollers, at[q].pc = "handler" PROVE FALSE OBVIOUS
    <2>1. row.owner = q /\ row.ttl + at[q].spent >= Lease
      BY DEF IInv, Handlers, Epochs
    <2>2. row.ttl \in Nat /\ at[q].spent \in 0..StepTime BY LeaseFits DEF IInv, TypeOK, Rows, Local
    <2> QED BY <2>1, <2>2, LeaseFits, NoneIsNoPoller DEF Free
  <1>7. Epochs' BY <1>2, <1>3, <1>4, <1>5 DEF IInv, Epochs, Current
  <1>8. Offsets' /\ Covered' /\ InHand'
    BY <1>2, <1>3, <1>5 DEF Offsets, Covered, InHand, Active
  <1>9. Handlers' BY <1>2, <1>6 DEF Handlers
  <1>10. Batches' /\ Verdicts' BY <1>2 DEF IInv, Batches, Verdicts, Active
  <1> QED BY <1>1, <1>3, <1>7, <1>8, <1>9, <1>10 DEF IInv, NoUpdateLost, RecordedWasHandled, Cursor

\* A renewal moves a current poller on with the full horizon.
LEMMA RenewInv ==
    ASSUME IInv, NEW p \in Pollers, NEW next \in PcNames, Renew(p, next),
           UNCHANGED <<arrived, processed, seen, handled, faults, down>>,
           \/ at[p].pc = "leased" /\ next = "poll"
           \/ at[p].pc = "polled" /\ next = "batch"
           \/ at[p].pc = "ready" /\ next = "handler"
           \/ at[p].pc = "verdict" /\ next = "record"
    PROVE  IInv'
  <1>a. CASE ~Holds(p)
    BY <1>a, GiveUpInv DEF Renew, IInv, TypeOK
  <1>b. CASE Holds(p)
  <2>0. /\ row' = Renewed(row)
        /\ at' = [at EXCEPT ![p] = [@ EXCEPT !.pc = next, !.version = row.version + 1,
                                            !.offset = row.next, !.spent = 0]]
    BY <1>b DEF Renew
  <2>1. TypeOK'
    <3>0. row \in Rows /\ row.version + 1 \in Nat /\ row.next \in Nat BY DEF IInv, TypeOK, Rows
    <3>1. row' \in Rows BY ZenonT(30), <2>0, <3>0, Constants DEF Rows, Renewed
    <3>2. [at[p] EXCEPT !.pc = next, !.version = row.version + 1, !.offset = row.next, !.spent = 0]
            \in Local
      BY ZenonT(30), <3>0, Constants DEF IInv, TypeOK, Local
    <3>3. at' \in [Pollers -> Local] BY <2>0, <3>2 DEF IInv, TypeOK
    <3> QED BY <3>1, <3>3 DEF IInv, TypeOK
  <2>2. /\ \A q \in Pollers : q # p => at'[q] = at[q]
        /\ at'[p].pc = next /\ at'[p].epoch = at[p].epoch
        /\ at'[p].version = row.version + 1 /\ at'[p].offset = row.next /\ at'[p].spent = 0
        /\ at'[p].batch = at[p].batch /\ at'[p].cur = at[p].cur /\ at'[p].digest = at[p].digest
    BY <2>0 DEF IInv, TypeOK, Local
  <2>3. /\ row'.epoch = row.epoch /\ row'.version = row.version + 1
        /\ row'.owner = row.owner /\ row'.next = row.next /\ row'.ttl = Lease
    BY <2>0 DEF IInv, TypeOK, Rows, Renewed
  <2>4. Current(p) /\ row.owner = p BY <1>b DEF Holds, Current
  <2>5. \A q \in Pollers : q # p => ~Current(q) /\ ~Current(q)'
    BY <2>2, <2>3, <2>4 DEF IInv, Epochs, Current
  <2>6. next # "idle" OBVIOUS
  <2>7. Epochs' BY <2>2, <2>3, <2>4, <2>5, <2>6 DEF IInv, Epochs, Current
  <2>8. Offsets' BY <2>2, <2>3, <2>5 DEF IInv, Offsets
  <2>9. Covered' BY <2>2, <2>3, <2>4, <2>5 DEF IInv, Covered, Active
  <2>10. InHand' BY <2>2, <2>3, <2>4, <2>5 DEF IInv, InHand, Active
  <2>11. Handlers' BY <2>2, <2>3, <2>4, <2>5, <2>6, LeaseFits DEF IInv, Handlers, Current
  <2>12. Batches' BY <2>2 DEF IInv, Batches, Active
  <2>13. Verdicts' BY <2>2 DEF IInv, Verdicts, Active
  <2> QED BY <2>1, <2>3, <2>7, <2>8, <2>9, <2>10, <2>11, <2>12, <2>13
         DEF IInv, NoUpdateLost, RecordedWasHandled, Cursor
  <1> QED BY <1>a, <1>b

\* A poll from the cursor fetches a batch with no gap; a stale poller's batch
\* only holds updates that arrived.
LEMMA PollInv ==
    ASSUME IInv, NEW p \in Pollers, Poll(p)
    PROVE  IInv'
  <1>0. PICK hi \in Available(at[p].offset) :
          at' = [at EXCEPT ![p] = [@ EXCEPT !.pc = "polled", !.batch = Fetched(at[p].offset, hi)]]
    BY ZenonT(30) DEF Poll
  <1>a. at[p].pc = "poll" /\ UNCHANGED <<arrived, row, processed, seen, handled, faults, down>>
    BY DEF Poll
  <1>b. Fetched(at[p].offset, hi) \subseteq arrived /\ arrived \subseteq Updates
    BY DEF Fetched, Available, IInv, TypeOK
  <1>1. TypeOK'
    <2>1. [at[p] EXCEPT !.pc = "polled", !.batch = Fetched(at[p].offset, hi)] \in Local
      BY <1>b, ZenonT(60) DEF IInv, TypeOK, Local, PcNames
    <2> QED BY <1>0, <1>a, <2>1 DEF IInv, TypeOK
  <1>2. /\ \A q \in Pollers : q # p => at'[q] = at[q]
        /\ at'[p].pc = "polled" /\ at'[p].epoch = at[p].epoch /\ at'[p].version = at[p].version
        /\ at'[p].batch = Fetched(at[p].offset, hi)
    BY <1>0 DEF IInv, TypeOK, Local
  <1>3. Epochs' BY <1>2, <1>a DEF IInv, Epochs, Current
  <1>4. Offsets' /\ InHand' /\ Handlers'
    BY <1>2, <1>a DEF IInv, Offsets, InHand, Handlers, Current, Active
  <1>5. Covered'
    <2>1. ASSUME Current(p), NEW u \in Fetched(at[p].offset, hi), NEW v \in arrived, v < u
          PROVE  v \in processed \/ v \in Fetched(at[p].offset, hi)
      <3>1. at[p].offset = row.next BY <2>1, <1>a DEF IInv, Offsets
      <3>2. row.next \in Nat /\ u \in Nat /\ v \in Nat /\ hi \in Nat
        BY <1>b, Constants DEF IInv, TypeOK, Rows, Available
      <3>3. u <= hi BY DEF Fetched
      <3> QED BY <2>1, <3>1, <3>2, <3>3 DEF IInv, NoUpdateLost, Fetched, Available
    <2>2. Current(p)' => Current(p) BY <1>2, <1>a DEF Current
    <2> QED BY <1>2, <1>a, <2>1, <2>2 DEF IInv, Covered, Current, Active
  <1>6. Batches' /\ Verdicts' BY <1>2, <1>a, <1>b DEF IInv, Batches, Verdicts, Active
  <1> QED BY <1>1, <1>3, <1>4, <1>5, <1>6, <1>a DEF IInv, NoUpdateLost, RecordedWasHandled, Cursor

\* A current poller that skips the first update of its batch skips a processed one.
LEMMA SkipInv ==
    ASSUME IInv, NEW p \in Pollers, Skip(p)
    PROVE  IInv'
  <1>0. PICK u \in at[p].batch : First(p, u) /\ Done(u) /\ at' = [at EXCEPT ![p].batch = @ \ {u}]
    BY ZenonT(30) DEF Skip
  <1>a. at[p].pc = "batch" /\ UNCHANGED <<arrived, row, processed, seen, handled, faults, down>>
    BY DEF Skip
  <1>1. TypeOK' BY <1>0, <1>a DEF IInv, TypeOK, Local
  <1>2. /\ \A q \in Pollers : q # p => at'[q] = at[q]
        /\ at'[p].pc = "batch" /\ at'[p].epoch = at[p].epoch /\ at'[p].version = at[p].version
        /\ at'[p].batch = at[p].batch \ {u}
    BY <1>0, <1>a DEF IInv, TypeOK, Local
  <1>3. u \in processed
    BY <1>0 DEF Done, IInv, NoUpdateLost, Batches
  <1>4. Epochs' BY <1>2, <1>a DEF IInv, Epochs, Current
  <1>5. Offsets' /\ InHand' /\ Handlers'
    BY <1>2, <1>a DEF IInv, Offsets, InHand, Handlers, Current, Active
  <1>6. Covered' BY <1>2, <1>3, <1>a DEF IInv, Covered, Current, Active
  <1>7. Batches' /\ Verdicts' BY <1>2, <1>a DEF IInv, Batches, Verdicts, Active
  <1> QED BY <1>1, <1>4, <1>5, <1>6, <1>7, <1>a DEF IInv, NoUpdateLost, RecordedWasHandled, Cursor

\* Taking the first update of the batch in hand, for a handler or as terminal.
LEMMA TakeInv ==
    ASSUME IInv, NEW p \in Pollers, at[p].pc = "batch",
           NEW u \in at[p].batch, First(p, u), ~Done(u),
           UNCHANGED <<arrived, row, processed, seen, handled, faults, down>>,
           NEW pc \in {"ready", "verdict"}, NEW k, NEW rest, rest = at[p].batch \ {u},
           at' = [at EXCEPT ![p] = [@ EXCEPT !.pc = pc, !.batch = rest, !.cur = u, !.digest = k]],
           \/ pc = "ready" /\ NeedsHandler(u) /\ k = Query[u]
           \/ pc = "verdict" /\ ~NeedsHandler(u) /\ k = None
    PROVE  IInv'
  <1>a. u \in Updates /\ u \in arrived /\ at[p].batch \subseteq arrived
    BY DEF IInv, TypeOK, Batches
  <1>b. k \in Queries \cup {None} BY <1>a DEF Queries
  <1>1. TypeOK'
    <2>1. [at[p] EXCEPT !.pc = pc, !.batch = rest, !.cur = u, !.digest = k] \in Local
      BY <1>a, <1>b, ZenonT(60) DEF IInv, TypeOK, Local, PcNames
    <2> QED BY <2>1 DEF IInv, TypeOK
  <1>2. /\ \A q \in Pollers : q # p => at'[q] = at[q]
        /\ at'[p].pc = pc /\ at'[p].epoch = at[p].epoch /\ at'[p].version = at[p].version
        /\ at'[p].batch = at[p].batch \ {u} /\ at'[p].cur = u /\ at'[p].digest = k
    BY DEF IInv, TypeOK, Local
  <1>3. Current(p)' => Current(p) BY <1>2 DEF Current
  <1>4. k \notin seen
    BY Constants DEF NeedsHandler, IInv, TypeOK
  <1>5. ASSUME Current(p), NEW v \in arrived, v < u PROVE v \in processed
    <2>1. v \in processed \/ v \in at[p].batch BY <1>5 DEF IInv, Covered, Active
    <2>2. u \in Nat /\ v \in Nat BY <1>a, Constants DEF IInv, TypeOK
    <2>3. v \notin at[p].batch BY <1>5, <2>2 DEF First
    <2> QED BY <2>1, <2>3
  <1>6. Epochs' BY <1>2 DEF IInv, Epochs, Current
  <1>7. Offsets' /\ Handlers' BY <1>2 DEF IInv, Offsets, Handlers, Current
  <1>8. Covered' BY <1>2, <1>3 DEF IInv, Covered, Current, Active
  <1>9. InHand'
    BY <1>2, <1>3, <1>4, <1>5 DEF IInv, InHand, Current, Active, Done
  <1>10. Batches' BY <1>2, <1>a DEF IInv, Batches, Active
  <1>11. Verdicts' BY <1>2 DEF IInv, Verdicts, Active, NeedsHandler
  <1> QED BY <1>1, <1>6, <1>7, <1>8, <1>9, <1>10, <1>11 DEF IInv, NoUpdateLost, RecordedWasHandled, Cursor

\* A handler's terminal answer.
LEMMA HandleInv ==
    ASSUME IInv, NEW p \in Pollers, Handle(p)
    PROVE  IInv'
  <1> USE DEF Handle
  <1>a. at[p].cur \in arrived /\ arrived \subseteq Updates BY DEF IInv, TypeOK, Batches, Active
  <1>1. TypeOK' BY <1>a DEF IInv, TypeOK, Local, PcNames
  <1>2. /\ \A q \in Pollers : q # p => at'[q] = at[q]
        /\ at'[p].pc = "verdict" /\ at'[p].epoch = at[p].epoch /\ at'[p].version = at[p].version
        /\ at'[p].batch = at[p].batch /\ at'[p].cur = at[p].cur /\ at'[p].digest = at[p].digest
    BY DEF IInv, TypeOK, Local
  <1>3. Epochs' BY <1>2 DEF IInv, Epochs, Current
  <1>4. Offsets' /\ Handlers' BY <1>2 DEF IInv, Offsets, Handlers, Current
  <1>5. Covered' /\ InHand' BY <1>2 DEF IInv, Covered, InHand, Current, Active
  <1>6. Batches' BY <1>2 DEF IInv, Batches, Active
  <1>7. Verdicts' BY <1>2 DEF IInv, Verdicts, Active
  <1>8. RecordedWasHandled' BY DEF IInv, RecordedWasHandled
  <1> QED BY <1>1, <1>3, <1>4, <1>5, <1>6, <1>7, <1>8 DEF IInv, NoUpdateLost, Cursor

\* A current poller records the first update that is not processed: the cursor
\* passes nothing else.
LEMMA RecordInv ==
    ASSUME IInv, NEW p \in Pollers, Record(p)
    PROVE  IInv'
  <1>a. at[p].pc = "record" /\ Holds(p) /\ UNCHANGED <<arrived, handled, faults, down>>
    BY DEF Record
  <1>b. at[p].cur \in arrived /\ at[p].cur \in Updates /\ at[p].cur \in Nat
    BY <1>a, Constants DEF IInv, TypeOK, Batches, Active
  <1>c. /\ row'.next = (IF row.next < at[p].cur + 1 THEN at[p].cur + 1 ELSE row.next)
        /\ row'.epoch = row.epoch /\ row'.version = row.version + 1 /\ row'.owner = row.owner
        /\ row'.ttl = row.ttl
    BY DEF Record, IInv, TypeOK, Rows
  <1>d. processed' = processed \cup {at[p].cur} /\ seen' = seen \cup ({at[p].digest} \ {None})
    BY DEF Record
  <1>e. row \in Rows /\ row.version + 1 \in Nat /\ row.next \in Nat
    BY DEF IInv, TypeOK, Rows
  <1>1. TypeOK'
    <2>1. (IF row.next < at[p].cur + 1 THEN at[p].cur + 1 ELSE row.next) \in Nat BY <1>b, <1>e
    <2>2. row' \in Rows BY ZenonT(30), <1>e, <2>1 DEF Record, Rows
    <2>3. [at[p] EXCEPT !.pc = "batch", !.version = row.version + 1] \in Local
      BY ZenonT(30), <1>e DEF IInv, TypeOK, Local, PcNames
    <2>4. at' \in [Pollers -> Local] BY <2>3 DEF Record, IInv, TypeOK
    <2>5. at[p].digest \in Queries \cup {None} BY DEF IInv, TypeOK, Local
    <2> QED BY <2>2, <2>4, <2>5, <1>a, <1>b, <1>d DEF IInv, TypeOK
  <1>2. /\ \A q \in Pollers : q # p => at'[q] = at[q]
        /\ at'[p].pc = "batch" /\ at'[p].epoch = at[p].epoch
        /\ at'[p].version = row.version + 1 /\ at'[p].batch = at[p].batch
    BY DEF Record, IInv, TypeOK, Local
  <1>3. Current(p) /\ row.owner = p BY <1>a DEF Holds, Current
  <1>4. \A q \in Pollers : q # p => ~Current(q) /\ ~Current(q)'
    BY <1>2, <1>3, <1>c DEF IInv, Epochs, Current
  <1>5. Epochs' BY <1>2, <1>3, <1>4, <1>c DEF IInv, Epochs, Current
  <1>6. Offsets' /\ InHand' BY <1>2, <1>4 DEF Offsets, InHand, Active
  <1>7. Handlers'
    BY <1>2, <1>3, <1>4 DEF IInv, Handlers
  <1>8. Covered' BY <1>2, <1>3, <1>4, <1>a, <1>d DEF IInv, Covered, Active
  <1>9. Batches' BY <1>2, <1>a DEF IInv, Batches, Active
  <1>10. NoUpdateLost'
    <2> SUFFICES ASSUME NEW v \in arrived, v < row'.next PROVE v \in processed'
      BY <1>a DEF NoUpdateLost
    <2>1. v \in Nat BY Constants DEF IInv, TypeOK
    <2>2. v < row.next \/ v < at[p].cur \/ v = at[p].cur BY <1>b, <1>c, <1>e, <2>1
    <2> QED BY <2>2, <1>3, <1>a, <1>d DEF IInv, NoUpdateLost, InHand, Active
  <1>11. at[p].digest # None => at[p].cur \in handled /\ Query[at[p].cur] = at[p].digest
    BY <1>a DEF IInv, Verdicts, Active
  <1>12. Verdicts'
    BY <1>2, <1>11, <1>a, <1>d DEF IInv, Verdicts, Active
  <1>13. RecordedWasHandled'
    <2>1. \/ at[p].cur \in handled
          \/ Kind[at[p].cur] = "ignored" \/ Query[at[p].cur] \in seen
      BY <1>a DEF IInv, Verdicts, Active
    <2>2. Query[at[p].cur] \in seen =>
            \E v \in handled : Query[v] = Query[at[p].cur] /\ Query[at[p].cur] # None
      BY Constants DEF IInv, Verdicts, TypeOK
    <2> QED BY <2>1, <2>2, <1>a, <1>d DEF IInv, RecordedWasHandled
  <1>14. Cursor' BY <1>a, <1>b, <1>c DEF IInv, Cursor
  <1> QED BY <1>1, <1>5, <1>6, <1>7, <1>8, <1>9, <1>10, <1>12, <1>13, <1>14 DEF IInv

\* A new update is newer than everything a poller has.
LEMMA ArriveInv ==
    ASSUME IInv, NEW u \in Updates, Arrive(u)
    PROVE  IInv'
  <1> USE DEF Arrive
  <1>1. \A v \in arrived : v \in Nat BY Constants DEF IInv, TypeOK
  <1>2. u \in Nat BY Constants
  <1>3. TypeOK' BY DEF IInv, TypeOK
  <1>4. Epochs' /\ Offsets' /\ Handlers' BY DEF IInv, Epochs, Offsets, Handlers, Current
  <1>5. \A v \in arrived : ~(u < v) BY <1>1, <1>2
  <1>6. Covered' BY <1>5 DEF IInv, Covered, Current, Batches
  <1>7. InHand' BY <1>5 DEF IInv, InHand, Current, Batches
  <1>8. Batches' /\ Verdicts' BY DEF IInv, Batches, Verdicts
  <1>9. NoUpdateLost'
    <2>1. ~(u < row.next) BY <1>1, <1>2 DEF IInv, Cursor
    <2> QED BY <2>1 DEF IInv, NoUpdateLost
  <1>10. Cursor' BY DEF IInv, Cursor
  <1> QED BY <1>3, <1>4, <1>6, <1>7, <1>8, <1>9, <1>10 DEF IInv, RecordedWasHandled

\* Time passes: only the lease's lifetime and the time spent change, and no
\* running handler outlives the lease.
LEMMA ElapseInv ==
    ASSUME IInv, Elapse, row.ttl > 0,
           \A p \in Pollers : Late(p) => at[p].pc # "handler",
           UNCHANGED <<arrived, processed, seen, handled, down>>, faults' \in 0..MaxFaults
    PROVE  IInv'
  <1>0. row \in Rows /\ row.ttl \in Nat /\ row.ttl <= Lease
    BY LeaseFits DEF IInv, TypeOK, Rows
  <1>1. /\ row'.next = row.next /\ row'.owner = row.owner /\ row'.epoch = row.epoch
        /\ row'.version = row.version /\ row'.ttl = row.ttl - 1
    BY <1>0 DEF Elapse, Rows
  <1>2. \A p \in Pollers :
          /\ at'[p].pc = at[p].pc /\ at'[p].epoch = at[p].epoch /\ at'[p].version = at[p].version
          /\ at'[p].offset = at[p].offset /\ at'[p].batch = at[p].batch
          /\ at'[p].cur = at[p].cur /\ at'[p].digest = at[p].digest
    BY DEF Elapse, IInv, TypeOK, Local
  <1>3. \A p \in Pollers : at[p].spent \in 0..StepTime /\ at'[p].spent \in 0..StepTime
    <2> SUFFICES ASSUME NEW p \in Pollers
                 PROVE  at[p].spent \in 0..StepTime /\ at'[p].spent \in 0..StepTime
      OBVIOUS
    <2>1. at[p].spent \in 0..StepTime /\ at[p] \in Local BY DEF IInv, TypeOK, Local
    <2>2. at'[p].spent = IF at[p].pc = "idle" \/ Late(p) THEN at[p].spent ELSE at[p].spent + 1
      BY <2>1 DEF Elapse, Local
    <2> QED BY <2>1, <2>2, LeaseFits DEF Late
  <1>4. TypeOK'
    <2>1. row.ttl - 1 \in 0..Lease BY <1>0, LeaseFits
    <2>2. row' \in Rows BY <1>0, <2>1 DEF Elapse, Rows
    <2>3. ASSUME NEW p \in Pollers PROVE at'[p] \in Local
      <3>1. at[p] \in Local BY DEF IInv, TypeOK
      <3>2. PICK t : at'[p] = [at[p] EXCEPT !.spent = t] BY ZenonT(30) DEF Elapse
      <3>3. t = at'[p].spent BY <3>1, <3>2 DEF Local
      <3> QED BY <3>1, <3>2, <3>3, <1>3 DEF Local
    <2>4. at' \in [Pollers -> Local] BY <2>3 DEF Elapse
    <2> QED BY <2>2, <2>4 DEF IInv, TypeOK
  <1>5. \A p \in Pollers : Current(p)' <=> Current(p) BY <1>1, <1>2 DEF Current
  <1>6. Epochs' BY <1>1, <1>2, <1>5 DEF IInv, Epochs
  <1>7. Offsets' BY <1>1, <1>2, <1>5 DEF IInv, Offsets
  <1>8. Covered' /\ InHand' BY <1>2, <1>5 DEF IInv, Covered, InHand
  <1>9. Batches' BY <1>2 DEF IInv, Batches
  <1>10. Verdicts' BY <1>2 DEF IInv, Verdicts
  <1>11. Handlers'
    <2> SUFFICES ASSUME NEW p \in Pollers, at[p].pc = "handler"
                 PROVE  Current(p) /\ row'.ttl + at'[p].spent >= Lease
      BY <1>2, <1>5 DEF Handlers
    <2>1. Current(p) /\ row.ttl + at[p].spent >= Lease BY DEF IInv, Handlers
    <2>2. at'[p].spent = at[p].spent + 1 BY DEF Elapse, IInv, TypeOK, Local
    <2>3. at[p].spent \in Nat BY <1>3, LeaseFits
    <2> QED BY <1>0, <1>1, <2>1, <2>2, <2>3, LeaseFits
  <1> QED BY <1>1, <1>4, <1>6, <1>7, <1>8, <1>9, <1>10, <1>11
         DEF IInv, NoUpdateLost, RecordedWasHandled, Cursor

\* Every step preserves the inductive invariant.
LEMMA NextInv == IInv /\ [Next]_vars => IInv'
  <1> SUFFICES ASSUME IInv, [Next]_vars PROVE IInv' OBVIOUS
  <1> faults \in 0..MaxFaults /\ down \subseteq Pollers BY DEF IInv, TypeOK
  <1>1. ASSUME NEW u \in Updates, Arrive(u) PROVE IInv' BY <1>1, ArriveInv
  <1>2. CASE Tick BY <1>2, ElapseInv DEF Tick
  <1>3. CASE Stall
    <2>1. faults' \in 0..MaxFaults BY <1>3, LeaseFits DEF Stall, Fault
    <2> QED BY <1>3, <2>1, ElapseInv DEF Stall
  <1>4. ASSUME NEW p \in Pollers, Step(p) PROVE IInv'
    <2>1. CASE Acquire(p) BY <2>1, AcquireInv
    <2>2. CASE RenewBeforePoll(p) BY <2>2, RenewInv DEF RenewBeforePoll, PcNames
    <2>3. CASE Poll(p) BY <2>3, PollInv
    <2>4. CASE RenewAfterPoll(p) BY <2>4, RenewInv DEF RenewAfterPoll, PcNames
    <2>5. CASE EndBatch(p) BY ZenonT(30), <2>5, GiveUpInv DEF EndBatch
    <2>6. CASE Skip(p) BY <2>6, SkipInv
    <2>7. CASE TakeForHandler(p)
      <3>1. PICK u \in at[p].batch :
              /\ First(p, u) /\ ~Done(u) /\ NeedsHandler(u)
              /\ at' = [at EXCEPT ![p] = [@ EXCEPT !.pc = "ready", !.batch = at[p].batch \ {u},
                                                   !.cur = u, !.digest = Query[u]]]
        BY ZenonT(30), <2>7 DEF TakeForHandler
      <3> QED BY ZenonT(30), <3>1, <2>7, TakeInv DEF TakeForHandler
    <2>8. CASE TakeTerminal(p)
      <3>1. PICK u \in at[p].batch :
              /\ First(p, u) /\ ~Done(u) /\ ~NeedsHandler(u)
              /\ at' = [at EXCEPT ![p] = [@ EXCEPT !.pc = "verdict", !.batch = at[p].batch \ {u},
                                                   !.cur = u, !.digest = None]]
        BY ZenonT(30), <2>8 DEF TakeTerminal
      <3> QED BY ZenonT(30), <3>1, <2>8, TakeInv DEF TakeTerminal
    <2>9. CASE RenewBeforeHandler(p) BY <2>9, RenewInv DEF RenewBeforeHandler, PcNames
    <2>10. CASE Handle(p) BY <2>10, HandleInv
    <2>11. CASE RenewBeforeRecord(p) BY <2>11, RenewInv DEF RenewBeforeRecord, PcNames
    <2>12. CASE Record(p) BY <2>12, RecordInv
    <2>13. CASE RecordFenced(p) BY ZenonT(30), <2>13, GiveUpInv DEF RecordFenced
    <2>14. CASE Release(p) BY ZenonT(30), <2>14, SleepInv DEF Release
    <2> QED BY <1>4, <2>1, <2>2, <2>3, <2>4, <2>5, <2>6, <2>7, <2>8, <2>9, <2>10, <2>11, <2>12,
              <2>13, <2>14 DEF Step
  <1>5. ASSUME NEW p \in Pollers, GiveUp(p) PROVE IInv'
    <2>1. faults' \in 0..MaxFaults BY <1>5, LeaseFits DEF GiveUp, Fault
    <2> QED BY ZenonT(30), <1>5, <2>1, GiveUpInv DEF GiveUp
  <1>6. ASSUME NEW p \in Pollers, Crash(p) PROVE IInv'
    <2>1. faults' \in 0..MaxFaults BY <1>6, LeaseFits DEF Crash, Fault
    <2>2. down' \subseteq Pollers BY <1>6 DEF Crash
    <2> QED BY ZenonT(30), <1>6, <2>1, <2>2, SleepInv DEF Crash
  <1>7. ASSUME UNCHANGED <<arrived, row, processed, seen, at, handled>>, faults' \in 0..MaxFaults,
               down' \subseteq Pollers
        PROVE  IInv'
    BY <1>7, SMTT(30) DEF IInv, TypeOK, Epochs, Offsets, Covered, Batches, InHand, Verdicts, Handlers,
                NoUpdateLost, RecordedWasHandled, Cursor, Current
  <1>8. ASSUME NEW p \in Pollers, Stop(p) PROVE IInv'
    <2>1. faults' \in 0..MaxFaults /\ down' \subseteq Pollers BY <1>8, LeaseFits DEF Stop, Fault
    <2>2. CASE at[p].pc = "idle" BY <1>8, <2>1, <2>2, <1>7 DEF Stop
    <2>3. CASE at[p].pc # "idle" BY ZenonT(30), <1>8, <2>1, <2>3, GiveUpInv DEF Stop
    <2> QED BY <2>2, <2>3
  <1>9. ASSUME NEW p \in Pollers, Restart(p) PROVE IInv'
    <2>1. down' \subseteq Pollers BY <1>9 DEF Restart
    <2> QED BY <1>9, <2>1, <1>7 DEF Restart
  <1>10. CASE UNCHANGED vars BY <1>10, <1>7 DEF vars
  <1> QED BY <1>1, <1>2, <1>3, <1>4, <1>5, <1>6, <1>8, <1>9, <1>10 DEF Next

-----------------------------------------------------------------------------

\* The conjunction of the invariants above holds in every reachable state.
THEOREM Inductive == Spec => []IInv
  BY InitInv, NextInv, PTL DEF Spec

\* Type correctness of the poll state row, the update tables and the pollers.
THEOREM TypeCorrect == Spec => []TypeOK
  <1>1. IInv => TypeOK BY DEF IInv
  <1> QED BY Inductive, <1>1, PTL

\* The cursor never passes an update that is not terminally recorded, whatever
\* number of pollers take over from each other.
THEOREM NothingLost == Spec => []NoUpdateLost
  <1>1. IInv => NoUpdateLost BY DEF IInv
  <1> QED BY Inductive, <1>1, PTL

\* Only handled, ignored or repeated updates are recorded.
THEOREM RecordsRestOnHandlers == Spec => []RecordedWasHandled
  <1>1. IInv => RecordedWasHandled BY DEF IInv
  <1> QED BY Inductive, <1>1, PTL

\* No two pollers run a handler at once when handlers end within their deadline.
THEOREM HandlersExclude == Spec => []HandlerExclusive
  <1>1. IInv => HandlerExclusive
    BY DEF IInv, Handlers, Epochs, Current, HandlerExclusive
  <1> QED BY Inductive, <1>1, PTL

\* No update is lost, recorded unhandled or handled twice at once, for any number of
\* pollers and updates.
THEOREM UpdatesAlwaysSafe == Spec => []UpdatesSafe
  BY NothingLost, RecordsRestOnHandlers, HandlersExclude, PTL DEF UpdatesSafe

\* The unique constraints never fail under a held lease.
THEOREM NoConflict == Spec => []RecordNeverConflicts
  <1>1. IInv => RecordNeverConflicts
    BY DEF IInv, InHand, Holds, Current, Active, RecordNeverConflicts
  <1> QED BY Inductive, <1>1, PTL

\* A poller of an earlier epoch starts no handler and records nothing.
THEOREM TakeoverFences == Spec => FencedOut
  <1> DEFINE Fence == \A p \in Pollers :
         at[p].pc # "idle" /\ at[p].epoch < row.epoch =>
           /\ at'[p].pc = "handler" => at[p].pc = "handler"
           /\ at[p].pc = "record" => at'[p].pc # "batch"
  <1>1. IInv /\ [Next]_vars => [Fence]_vars
    <2> SUFFICES ASSUME IInv, Next, NEW p \in Pollers, at[p].pc # "idle", at[p].epoch < row.epoch
                 PROVE  /\ at'[p].pc = "handler" => at[p].pc = "handler"
                        /\ at[p].pc = "record" => at'[p].pc # "batch"
      OBVIOUS
    <2>0. /\ at \in [Pollers -> Local] /\ ~Holds(p)
          /\ \A q \in Pollers : at[q] \in Local
      BY DEF IInv, TypeOK, Holds, Local, Rows
    <2>1. ASSUME NEW u \in Updates, Arrive(u) PROVE at' = at BY <2>1 DEF Arrive
    <2>2. ASSUME Tick \/ Stall PROVE at'[p].pc = at[p].pc
      <3>1. Elapse BY <2>2 DEF Tick, Stall
      <3>2. PICK t : at'[p] = [at[p] EXCEPT !.spent = t] BY ZenonT(30), <3>1 DEF Elapse
      <3> QED BY <3>2, <2>0 DEF Local
    <2>3. ASSUME NEW q \in Pollers, q # p, Step(q) \/ GiveUp(q) \/ Stop(q) \/ Crash(q)
          PROVE at'[p] = at[p]
      BY ZenonT(30), <2>3, <2>0 DEF Step, GiveUp, Stop, Crash, Acquire, RenewBeforePoll, Poll, RenewAfterPoll, EndBatch,
         Skip, TakeForHandler, TakeTerminal, RenewBeforeHandler, Handle, RenewBeforeRecord, Record,
         RecordFenced, Release, Renew
    <2>4. ASSUME Step(p) PROVE at'[p].pc # "handler" /\ (at[p].pc = "record" => at'[p].pc # "batch")
      <3>1. CASE RenewBeforePoll(p) \/ RenewAfterPoll(p) \/ RenewBeforeHandler(p) \/ RenewBeforeRecord(p)
        BY <3>1, <2>0 DEF RenewBeforePoll, RenewAfterPoll, RenewBeforeHandler, RenewBeforeRecord, Renew,
           Local
      <3>2. CASE EndBatch(p) \/ RecordFenced(p) \/ Handle(p) \/ Poll(p)
        BY ZenonT(30), <3>2, <2>0 DEF EndBatch, RecordFenced, Handle, Poll, Local
      <3>3. CASE Skip(p) \/ TakeForHandler(p) \/ TakeTerminal(p)
        BY <3>3, <2>0, ZenonT(60) DEF Skip, TakeForHandler, TakeTerminal, Local
      <3>4. CASE Release(p) BY <3>4, <2>0, Constants DEF Release
      <3> QED BY <2>4, <2>0, <3>1, <3>2, <3>3, <3>4 DEF Step, Acquire, Record
    <2>5. ASSUME GiveUp(p) \/ Stop(p) \/ Crash(p) PROVE at'[p].pc \notin {"handler", "batch"}
      BY <2>5, <2>0 DEF GiveUp, Stop, Crash, Local, Asleep
    <2>6. ASSUME NEW q \in Pollers, Restart(q) PROVE at' = at BY <2>6 DEF Restart
    <2> QED BY <2>1, <2>2, <2>3, <2>4, <2>5, <2>6 DEF Next
  <1> QED BY Inductive, <1>1, PTL DEF Spec, FencedOut
=============================================================================
