-------------------------- MODULE TelegramPolling --------------------------
(***************************************************************************)
(* Several long pollers of one Telegram bot share a database row that      *)
(* holds the update cursor and a lease.  A poller acquires the lease,      *)
(* renews it before and after it polls and around every handler call, and  *)
(* advances the cursor with each terminally processed update.  Every       *)
(* database call is a step of its own.                                     *)
(*                                                                         *)
(* Time is the lease's remaining lifetime, ttl (0 means expired), and the   *)
(* time each poller has spent since it last renewed.  A live poller spends  *)
(* at most StepTime, the poll and handler deadlines, between two renewals;  *)
(* one that is slower has stalled, a fault that the model counts and bounds.*)
(***************************************************************************)
EXTENDS Naturals, FiniteSets

CONSTANTS
    Pollers,     \* poller processes, each with its own owner id
    Updates,     \* update ids that Telegram may issue
    Kind,        \* the classified kind of each update
    Query,       \* the callback query id of each update, None unless a callback
    None,        \* no owner, or no callback digest
    Lease,       \* a full lease, TELEGRAM_LEASE_SECONDS
    StepTime,    \* the longest step between two renewals
    MaxFaults    \* bound: crashes, retries, lost calls and stalls in a run

ASSUME UpdatesAreIds == Updates \subseteq Nat
ASSUME KindsAndQueries ==
    /\ Kind \in [Updates -> {"callback", "text", "ignored"}]
    /\ \A u \in Updates : Kind[u] = "callback" <=> Query[u] # None
ASSUME LeaseFits == Lease \in Nat /\ StepTime \in Nat /\ StepTime < Lease /\ MaxFaults \in Nat
ASSUME NoneIsNoPoller == None \notin Pollers

VARIABLES
    arrived,     \* updates Telegram holds for the bot
    row,         \* telegram_poll_state: cursor, lease owner, ttl, epoch, version
    processed,   \* telegram_processed_updates: terminal update ids
    seen,        \* their callback digests
    at,          \* what each poller is doing
    handled,     \* updates whose handler has returned TERMINAL_HANDLED
    faults,      \* faults so far
    down         \* pollers whose process has ended

vars == <<arrived, row, processed, seen, at, handled, faults, down>>

Asleep == [pc |-> "idle", epoch |-> 0, version |-> 0, offset |-> 0, batch |-> {}, cur |-> 0,
           digest |-> None, spent |-> 0]

Init ==
    /\ arrived = {}
    /\ row = [next |-> 0, owner |-> None, ttl |-> 0, epoch |-> 0, version |-> 1]
    /\ processed = {}
    /\ seen = {}
    /\ at = [p \in Pollers |-> Asleep]
    /\ handled = {}
    /\ faults = 0
    /\ down = {}

\* Telegram issues ids in increasing order, with gaps.
Arrive(u) ==
    /\ \A v \in arrived : v < u
    /\ arrived' = arrived \cup {u}
    /\ UNCHANGED <<row, processed, seen, at, handled, faults, down>>

Available(offset) == {u \in arrived : u >= offset}

-----------------------------------------------------------------------------
(* The lease.                                                              *)

\* The condition of every fenced update: owner, epoch, version, not expired.
Holds(p) ==
    /\ row.owner = p
    /\ row.epoch = at[p].epoch
    /\ row.version = at[p].version
    /\ row.ttl > 0

\* Mutant: a renewal checks the lease without restoring its horizon.
RenewedShort(r) == [r EXCEPT !.version = @ + 1]

\* A renewal restores the full horizon.
Renewed(r) == [r EXCEPT !.ttl = Lease, !.version = @ + 1]

\* Mutant: an expired lease is not taken over.
FreeUnowned == row.owner = None

\* The lease has no owner or has expired.
Free == row.owner = None \/ row.ttl = 0

\* acquire_lease; an empty long poll changes nothing else, so a poller wakes
\* up when there is something to fetch.
Acquire(p) ==
    /\ at[p].pc = "idle"
    /\ p \notin down
    /\ Available(row.next) # {}
    /\ Free
    /\ row' = [row EXCEPT !.owner = p, !.ttl = Lease, !.epoch = @ + 1, !.version = @ + 1]
    /\ at' = [at EXCEPT ![p] = [Asleep EXCEPT !.pc = "leased", !.epoch = row.epoch + 1,
                                              !.version = row.version + 1,
                                              !.offset = row.next]]
    /\ UNCHANGED <<arrived, processed, seen, handled, faults, down>>

\* _renew: the poller goes on to step next with the new version, or gives up.
Renew(p, next) ==
    \/ /\ Holds(p)
       /\ row' = Renewed(row)
       /\ at' = [at EXCEPT ![p] = [@ EXCEPT !.pc = next, !.version = row.version + 1,
                                              !.offset = row.next, !.spent = 0]]
    \/ /\ ~Holds(p)
       /\ at' = [at EXCEPT ![p].pc = "release"]
       /\ UNCHANGED row

\* _release: best effort, on the lease of this acquisition only.
Release(p) ==
    /\ at[p].pc = "release"
    /\ row' = IF row.owner = p /\ row.epoch = at[p].epoch
                THEN [row EXCEPT !.owner = None, !.ttl = 0, !.version = @ + 1]
                ELSE row
    /\ at' = [at EXCEPT ![p] = Asleep]
    /\ UNCHANGED <<arrived, processed, seen, handled, faults, down>>

-----------------------------------------------------------------------------
(* One turn of the polling loop.                                           *)

RenewBeforePoll(p) ==
    /\ at[p].pc = "leased"
    /\ Renew(p, "poll")
    /\ UNCHANGED <<arrived, processed, seen, handled, faults, down>>

\* Mutant: the response keeps a later part of what is available.
FetchedGappy(offset, hi) == {u \in Available(offset) : u = hi}

\* getUpdates answers with the earliest updates from the offset on.
Fetched(offset, hi) == {u \in Available(offset) : u <= hi}

\* get_updates with the offset of the renewed lease, sorted and deduplicated.
Poll(p) ==
    /\ at[p].pc = "poll"
    /\ \E hi \in Available(at[p].offset) :
         at' = [at EXCEPT ![p] = [@ EXCEPT !.pc = "polled", !.batch = Fetched(at[p].offset, hi)]]
    /\ UNCHANGED <<arrived, row, processed, seen, handled, faults, down>>

RenewAfterPoll(p) ==
    /\ at[p].pc = "polled"
    /\ Renew(p, "batch")
    /\ UNCHANGED <<arrived, processed, seen, handled, faults, down>>

EndBatch(p) ==
    /\ at[p].pc = "batch"
    /\ at[p].batch = {}
    /\ at' = [at EXCEPT ![p].pc = "release"]
    /\ UNCHANGED <<arrived, row, processed, seen, handled, faults, down>>

\* u is the next update of the poller's sorted batch.
First(p, u) == u \in at[p].batch /\ \A v \in at[p].batch : u <= v

\* The update is behind the cursor or processed.
Done(u) == u < row.next \/ u \in processed

Skip(p) ==
    /\ at[p].pc = "batch"
    /\ \E u \in at[p].batch :
         /\ First(p, u)
         /\ Done(u)
         /\ at' = [at EXCEPT ![p].batch = @ \ {u}]
    /\ UNCHANGED <<arrived, row, processed, seen, handled, faults, down>>

\* classify_update and _callback_seen: ignored updates and repeated callback
\* queries are terminal without a handler call.
NeedsHandler(u) == Kind[u] # "ignored" /\ Query[u] \notin seen

TakeForHandler(p) ==
    /\ at[p].pc = "batch"
    /\ \E u \in at[p].batch :
         /\ First(p, u)
         /\ ~Done(u)
         /\ NeedsHandler(u)
         /\ at' = [at EXCEPT ![p] = [@ EXCEPT !.pc = "ready", !.batch = at[p].batch \ {u},
                                             !.cur = u, !.digest = Query[u]]]
    /\ UNCHANGED <<arrived, row, processed, seen, handled, faults, down>>

TakeTerminal(p) ==
    /\ at[p].pc = "batch"
    /\ \E u \in at[p].batch :
         /\ First(p, u)
         /\ ~Done(u)
         /\ ~NeedsHandler(u)
         /\ at' = [at EXCEPT ![p] = [@ EXCEPT !.pc = "verdict", !.batch = at[p].batch \ {u},
                                             !.cur = u, !.digest = None]]
    /\ UNCHANGED <<arrived, row, processed, seen, handled, faults, down>>

RenewBeforeHandler(p) ==
    /\ at[p].pc = "ready"
    /\ Renew(p, "handler")
    /\ UNCHANGED <<arrived, processed, seen, handled, faults, down>>

\* The handler returns TERMINAL_HANDLED.
Handle(p) ==
    /\ at[p].pc = "handler"
    /\ handled' = handled \cup {at[p].cur}
    /\ at' = [at EXCEPT ![p].pc = "verdict"]
    /\ UNCHANGED <<arrived, row, processed, seen, faults, down>>

RenewBeforeRecord(p) ==
    /\ at[p].pc = "verdict"
    /\ Renew(p, "record")
    /\ UNCHANGED <<arrived, processed, seen, handled, faults, down>>

\* record_terminal: the processed row and the cursor move in one fenced
\* transaction, or neither does.
Record(p) ==
    LET u == at[p].cur
    IN  /\ at[p].pc = "record"
        /\ Holds(p)
        /\ row' = [row EXCEPT !.next = IF @ < u + 1 THEN u + 1 ELSE @, !.version = @ + 1]
        /\ processed' = processed \cup {u}
        /\ seen' = seen \cup ({at[p].digest} \ {None})
        /\ at' = [at EXCEPT ![p] = [@ EXCEPT !.pc = "batch", !.version = row.version + 1]]
        /\ UNCHANGED <<arrived, handled, faults, down>>

RecordFenced(p) ==
    /\ at[p].pc = "record"
    /\ ~Holds(p)
    /\ at' = [at EXCEPT ![p].pc = "release"]
    /\ UNCHANGED <<arrived, row, processed, seen, handled, faults, down>>

-----------------------------------------------------------------------------
(* Time and faults.                                                        *)

\* The poller has used up the deadline of its current step.
Late(p) == at[p].pc # "idle" /\ at[p].spent >= StepTime

Elapse ==
    /\ row' = [row EXCEPT !.ttl = @ - 1]
    /\ at' = [p \in Pollers |->
                [at[p] EXCEPT !.spent = IF at[p].pc = "idle" \/ Late(p) THEN @ ELSE @ + 1]]

Tick ==
    /\ row.ttl > 0
    /\ \A p \in Pollers : ~Late(p)
    /\ Elapse
    /\ UNCHANGED <<arrived, processed, seen, handled, faults, down>>

Fault ==
    /\ faults < MaxFaults
    /\ faults' = faults + 1

\* A poller is slower than its deadlines; only the handler's own is enforced.
Stall ==
    /\ row.ttl > 0
    /\ \E p \in Pollers : Late(p)
    /\ \A p \in Pollers : Late(p) => at[p].pc # "handler"
    /\ Fault
    /\ Elapse
    /\ UNCHANGED <<arrived, processed, seen, handled, down>>

\* Mutant: a handler that failed or timed out counts as handled.
GiveUpHandled(p) ==
    /\ at[p].pc \in {"poll", "handler"}
    /\ Fault
    /\ at' = [at EXCEPT ![p].pc = IF @ = "handler" THEN "verdict" ELSE "release"]
    /\ UNCHANGED <<arrived, row, processed, seen, handled, down>>

\* A transient provider error or a rate limit, RETRY_LATER, an exception or the
\* deadline of the handler: the turn ends in the finally clause and the loop goes
\* on.  A handler that failed may have finished its work.
GiveUp(p) ==
    /\ at[p].pc \in {"poll", "handler"}
    /\ Fault
    /\ at' = [at EXCEPT ![p].pc = "release"]
    /\ UNCHANGED <<arrived, row, processed, seen, handled, down>>

\* TelegramPollingFatal (a database error, an invalid response) or a shutdown: the
\* loop ends, after the finally clause where a lease was taken.
Stop(p) ==
    /\ at[p].pc # "release"
    /\ p \notin down
    /\ Fault
    /\ at' = IF at[p].pc = "idle" THEN at ELSE [at EXCEPT ![p].pc = "release"]
    /\ down' = down \cup {p}
    /\ UNCHANGED <<arrived, row, processed, seen, handled>>

\* The process dies, or its release fails: the lease stays until it expires.
Crash(p) ==
    /\ at[p].pc # "idle"
    /\ Fault
    /\ at' = [at EXCEPT ![p] = Asleep]
    /\ \/ down' = down \cup {p}
       \/ at[p].pc = "release" /\ down' = down
    /\ UNCHANGED <<arrived, row, processed, seen, handled>>

\* External: the deployment starts the process again.
Restart(p) ==
    /\ at[p].pc = "idle"
    /\ p \in down
    /\ down' = down \ {p}
    /\ UNCHANGED <<arrived, row, processed, seen, at, handled, faults>>

Step(p) ==
    \/ Acquire(p) \/ RenewBeforePoll(p) \/ Poll(p) \/ RenewAfterPoll(p) \/ EndBatch(p)
    \/ Skip(p) \/ TakeForHandler(p) \/ TakeTerminal(p) \/ RenewBeforeHandler(p) \/ Handle(p) \/ RenewBeforeRecord(p)
    \/ Record(p) \/ RecordFenced(p) \/ Release(p)

Next ==
    \/ \E u \in Updates : Arrive(u)
    \/ Tick
    \/ Stall
    \/ \E p \in Pollers : Step(p) \/ GiveUp(p) \/ Stop(p) \/ Crash(p) \/ Restart(p)

Spec == Init /\ [][Next]_vars

\* Pollers keep running their loop, a process that ended is started again and time
\* passes; Telegram need not send.
FairSpec ==
    Spec /\ WF_vars(Tick) /\ \A p \in Pollers : WF_vars(Step(p)) /\ WF_vars(Restart(p))

-----------------------------------------------------------------------------
(* Properties.                                                             *)

PcNames == {"idle", "leased", "poll", "polled", "batch", "ready", "handler", "verdict",
            "record", "release"}

Queries == {Query[u] : u \in Updates} \ {None}

Rows == [next : Nat, owner : Pollers \cup {None}, ttl : 0..Lease, epoch : Nat, version : Nat]
Local == [pc : PcNames, epoch : Nat, version : Nat, offset : Nat, batch : SUBSET Updates,
          cur : Updates \cup {0}, digest : Queries \cup {None}, spent : 0..StepTime]

\* The database row, the update tables and the pollers' records have their types.
TypeOK ==
    /\ arrived \subseteq Updates
    /\ row \in Rows
    /\ processed \subseteq Updates
    /\ handled \subseteq Updates
    /\ seen \subseteq Queries
    /\ faults \in 0..MaxFaults
    /\ at \in [Pollers -> Local]
    /\ down \subseteq Pollers

\* No update is lost: the cursor, which tells Telegram to forget everything
\* before it, passes an update only once the update is terminally recorded,
\* whatever takeovers, crashes and stale batches came before.
NoUpdateLost == \A u \in arrived : u < row.next => u \in processed

\* "A valid lease keeps a second poller from provider polling or handler
\* dispatch" (docs/tasks/status.md:4044): no two pollers run a handler at once.
HandlerExclusive ==
    \A p, q \in Pollers : at[p].pc = "handler" /\ at[q].pc = "handler" => p = q

\* An update that needs a handler is recorded only after some handler call for
\* its callback query, or for the update itself, ended with TERMINAL_HANDLED.
RecordedWasHandled ==
    \A u \in processed :
      \/ Kind[u] = "ignored"
      \/ u \in handled
      \/ \E v \in handled : Query[v] = Query[u] /\ Query[u] # None

\* However pollers crash, stall and take over from each other, an update is neither
\* dropped unrecorded, recorded unhandled, nor handled by two pollers at once.
UpdatesSafe == NoUpdateLost /\ RecordedWasHandled /\ HandlerExclusive

\* A poller that still holds its lease when it records never meets the unique
\* constraints on the update id and on the callback digest.
RecordNeverConflicts ==
    \A p \in Pollers :
      at[p].pc = "record" /\ Holds(p) =>
        /\ at[p].cur \notin processed
        /\ at[p].digest \notin seen

\* "Takeover therefore prevents an old worker from invoking the next handler or
\* committing a result" (docs/tasks/status.md): once a later epoch has begun, a
\* poller of an earlier one starts no handler and records nothing.
FencedOut ==
    [][\A p \in Pollers :
         at[p].pc # "idle" /\ at[p].epoch < row.epoch =>
           /\ at'[p].pc = "handler" => at[p].pc = "handler"
           /\ at[p].pc = "record" => at'[p].pc # "batch"]_vars

\* Every update Telegram holds is eventually processed: after the last fault a
\* crashed holder's lease expires and some poller takes the cursor over.
EveryUpdateProcessed == \A u \in Updates : u \in arrived ~> u \in processed
-----------------------------------------------------------------------------
(* A finite instance: update 3 repeats the callback query of update 1 under a *)
(* new id, update 2 needs no handler.                                         *)
MCUpdates == 1..3
MCKind == <<"callback", "ignored", "callback">>
MCQuery == [u \in MCUpdates |-> IF u = 2 THEN None ELSE "query"]
=============================================================================
