--------------------------- MODULE PaperApproval ---------------------------
(***************************************************************************)
(* From a risk-approved candidate to one order at the Paper broker: the    *)
(* approval service, the Telegram approval handler, the durable approval   *)
(* outbox, its consumer and the workflow dispatcher, over one database.    *)
(*                                                                         *)
(* A worker is a process that handles callbacks, direct decisions and      *)
(* outbox deliveries.  Every handler reads its clock before it opens its   *)
(* transaction, so each is at least two steps here and the clock value it  *)
(* uses can be old when it commits.  create_proposal_and_challenge makes a *)
(* proposal and its challenge together, so one identifier stands for both. *)
(*                                                                         *)
(* The broker is the one behind the execution port: one for all workers,   *)
(* and it outlives them.  A PaperBroker keeps its book in the memory of    *)
(* the process that holds it, so with it the workers are those of one      *)
(* process.                                                                *)
(***************************************************************************)
EXTENDS Naturals

CONSTANTS
    Workers,      \* processes that run handlers against the database
    Proposals,    \* identifiers of proposals, and of their challenges
    Risks,        \* identifiers of approved risk decisions
    Messages,     \* Telegram message identifiers
    Ttls,         \* approval time-to-live values callers ask for
    Lives,        \* remaining lifetimes a candidate order can have
    MaxTime,      \* bound: the clock stops there
    None          \* "no value" in an optional column

ASSUME TimesAreNatural == Ttls \subseteq Nat /\ Lives \subseteq Nat /\ MaxTime \in Nat

Methods == {"telegram", "webauthn"}      \* telegram means scope paper, webauthn scope live
Statuses == {"NONE", "PENDING", "APPROVED", "REJECTED", "EXPIRED"}
Outcomes == {"APPROVED", "DENIED", "EXPIRED"}
Dispositions == {"DISPATCHED", "EXECUTION_REJECTED", "POLICY_REJECTED"}
Results == {"SUCCEEDED", "REJECTED", "SUBMIT_UNKNOWN"}
Answers == {"ACCEPTED", "REJECTED"}
Stages == {"idle", "clock", "loaded", "consume", "locked", "dispatched"}

ASSUME NoneIsNoValue ==
    None \notin Proposals \cup Risks \cup Messages \cup Results \cup Answers
                \cup {"PENDING", "CONSUMED"}

\* The columns of the tables that the handlers decide on.
ProposalRow == [expires : Nat, risk : Risks \cup {None}]
ChallengeRow == [status : Statuses, method : Methods, expires : Nat, version : Nat]
EventRow == [outcome : Outcomes, at : Nat, m : Messages \cup {None}]
BindingRow == Messages \cup {None}
OutboxRow == {None, "PENDING", "CONSUMED"}

VARIABLES
    now,         \* the wall clock every process reads
    proposal,    \* order_proposals: expiry and risk decision
    challenge,   \* approval_challenges: status, method, expiry, row version
    binding,     \* telegram_approval_bindings: the message a challenge was sent in
    events,      \* approval_events
    outbox,      \* approval_outbox: the status column, None when there is no row
    audit,       \* the handoff's audit records
    book,        \* the broker's remembered answer per client order id
    orders,      \* how many orders the broker accepted for each proposal
    job,         \* what each worker is doing
    store        \* each process's in-memory idempotency store

database == <<proposal, challenge, binding, events, outbox, audit>>
broker == <<book, orders>>
vars == <<now, database, broker, job, store>>

Idle == [stage |-> "idle", p |-> None, m |-> None, approved |-> FALSE,
         at |-> 0, version |-> 0, result |-> None]

\* An ApprovalEvent row; m is the message whose button was pressed.
Event(o, t, m) == [outcome |-> o, at |-> t, m |-> m]

Init ==
    /\ now = 0
    /\ proposal = [p \in Proposals |-> [expires |-> 0, risk |-> None]]
    /\ challenge = [p \in Proposals |->
         [status |-> "NONE", method |-> "telegram", expires |-> 0, version |-> 0]]
    /\ binding = [p \in Proposals |-> None]
    /\ events = [p \in Proposals |-> {}]
    /\ outbox = [p \in Proposals |-> None]
    /\ audit = [p \in Proposals |-> {}]
    /\ book = [p \in Proposals |-> None]
    /\ orders = [p \in Proposals |-> 0]
    /\ job = [w \in Workers |-> Idle]
    /\ store = [w \in Workers |-> [p \in Proposals |-> None]]

-----------------------------------------------------------------------------
(* The clock, and processes that fail.                                     *)

Tick ==
    /\ now < MaxTime
    /\ now' = now + 1
    /\ UNCHANGED <<database, broker, job, store>>

\* An exception in the handler: the unit of work rolls back, the process lives.
Abort(w) ==
    /\ job[w].stage # "idle"
    /\ job' = [job EXCEPT ![w] = Idle]
    /\ UNCHANGED <<now, database, broker, store>>

\* The worker is started afresh: its transaction rolls back and its idempotency
\* store is lost.  The broker it calls is not part of it.
Restart(w) ==
    /\ job' = [job EXCEPT ![w] = Idle]
    /\ store' = [store EXCEPT ![w] = [p \in Proposals |-> None]]
    /\ UNCHANGED <<now, database, broker>>

-----------------------------------------------------------------------------
(* Issuing a challenge and binding the notification that carries it.       *)

\* _freeze_risk_decision: the risk decision's row is inserted once, with its proposal.
RiskUnused(r) == \A q \in Proposals : proposal[q].risk # r

\* create_proposal_and_challenge: a challenge never outlives its proposal.
Create(p, r, method, ttl, life) ==
    /\ challenge[p].status = "NONE"
    /\ ttl <= life
    /\ RiskUnused(r)
    /\ proposal' = [proposal EXCEPT ![p] = [expires |-> now + life, risk |-> r]]
    /\ challenge' = [challenge EXCEPT ![p] =
         [status |-> "PENDING", method |-> method, expires |-> now + ttl, version |-> 1]]
    /\ UNCHANGED <<now, binding, events, outbox, audit, broker, job, store>>

Expired(p, t) == t >= challenge[p].expires \/ t >= proposal[p].expires

\* bind_telegram_approval_delivery; one message carries one challenge.
BindDelivery(p, m) ==
    /\ challenge[p].status = "PENDING"
    /\ challenge[p].method = "telegram"
    /\ ~Expired(p, now)
    /\ binding[p] = None
    /\ \A q \in Proposals : binding[q] # m
    /\ binding' = [binding EXCEPT ![p] = m]
    /\ UNCHANGED <<now, proposal, challenge, events, outbox, audit, broker, job, store>>

-----------------------------------------------------------------------------
(* Deciding a challenge: a pressed button (m is its message), or a direct  *)
(* call of ApprovalService.decide (m is None).  The token exists from the  *)
(* moment the challenge is issued; Telegram may deliver a press again.     *)

\* The handler reads the clock.
BeginDecision(w, p, m, approved) ==
    /\ job[w].stage = "idle"
    /\ challenge[p].status # "NONE"
    /\ m # None => approved
    /\ job' = [job EXCEPT ![w] = [Idle EXCEPT !.stage = "clock", !.p = p, !.m = m,
                                              !.approved = approved, !.at = now]]
    /\ UNCHANGED <<now, database, broker, store>>

\* Mutant: the message of the press is not compared at all.
DecidableUnbound(j) ==
    /\ j.m # None => challenge[j.p].method = "telegram"
    /\ challenge[j.p].status = "PENDING"

\* What the handler requires of the rows it reads: the press is on the bound
\* message of a telegram challenge, and the challenge is still PENDING.
Decidable(j) ==
    /\ j.m # None => /\ binding[j.p] = j.m
                     /\ challenge[j.p].method = "telegram"
    /\ challenge[j.p].status = "PENDING"

\* It reads the challenge in its transaction and remembers the row's version.
LoadChallenge(w) ==
    /\ job[w].stage = "clock"
    /\ Decidable(job[w])
    /\ job' = [job EXCEPT ![w].stage = "loaded", ![w].version = challenge[job[w].p].version]
    /\ UNCHANGED <<now, database, broker, store>>

\* INVALID or ALREADY_USED: nothing is written.
RefuseDecision(w) ==
    /\ job[w].stage = "clock"
    /\ ~Decidable(job[w])
    /\ job' = [job EXCEPT ![w] = Idle]
    /\ UNCHANGED <<now, database, broker, store>>

Outcome(j) ==
    IF Expired(j.p, j.at) THEN "EXPIRED" ELSE IF j.approved THEN "APPROVED" ELSE "DENIED"

StatusFor(outcome) == IF outcome = "DENIED" THEN "REJECTED" ELSE outcome

\* Mutant: the update is not conditional on the row it loaded.
CurrentAlways(j) == challenge[j.p].version >= j.version

\* transition_with_event's conditional update still finds the row it loaded.
Current(j) ==
    /\ challenge[j.p].version = j.version
    /\ challenge[j.p].status = "PENDING"

\* The transaction commits: status, event and, for an approved press, the outbox row.
CommitDecision(w) ==
    LET j == job[w]
        o == Outcome(j)
    IN  /\ j.stage = "loaded"
        /\ Current(j)
        /\ challenge' = [challenge EXCEPT ![j.p] =
             [status |-> StatusFor(o), method |-> @.method, expires |-> @.expires,
              version |-> @.version + 1]]
        /\ events' = [events EXCEPT ![j.p] = @ \cup {Event(o, j.at, j.m)}]
        /\ outbox' = [outbox EXCEPT ![j.p] =
                        IF j.m # None /\ o = "APPROVED" THEN "PENDING" ELSE @]
        /\ job' = [job EXCEPT ![w] = Idle]
        /\ UNCHANGED <<now, proposal, binding, audit, broker, store>>

\* A concurrent decision won: CHALLENGE_ALREADY_USED, and nothing is written.
LoseDecision(w) ==
    /\ job[w].stage = "loaded"
    /\ ~Current(job[w])
    /\ job' = [job EXCEPT ![w] = Idle]
    /\ UNCHANGED <<now, database, broker, store>>

-----------------------------------------------------------------------------
(* ApprovalHandoffService.consume.                                         *)

\* It reads the clock; the row may already be consumed.
BeginHandoff(w, p) ==
    /\ job[w].stage = "idle"
    /\ outbox[p] # None
    /\ job' = [job EXCEPT ![w] = [Idle EXCEPT !.stage = "consume", !.p = p, !.at = now]]
    /\ UNCHANGED <<now, database, broker, store>>

\* Some transaction holds the row's write lock.
Locked(p) == \E w \in Workers : job[w].stage \in {"locked", "dispatched"} /\ job[w].p = p

Approved(p) == \E e \in events[p] : e.outcome = "APPROVED"

\* Mutant: the challenge's expiry is taken for the proposal's.
PolicyAllowsShort(p, t) ==
    /\ Approved(p)
    /\ challenge[p].method = "telegram"
    /\ t < challenge[p].expires

\* _policy_rejection over the reloaded event and proposal.
PolicyAllows(p, t) ==
    /\ Approved(p)
    /\ challenge[p].method = "telegram"
    /\ t < proposal[p].expires

\* A redelivered row that is consumed already: ALREADY_CONSUMED.
SkipConsumed(w) ==
    /\ job[w].stage = "consume"
    /\ ~Locked(job[w].p)
    /\ outbox[job[w].p] = "CONSUMED"
    /\ job' = [job EXCEPT ![w] = Idle]
    /\ UNCHANGED <<now, database, broker, store>>

\* It holds the row and policy allows: the request goes to the execution port.
LockOutbox(w) ==
    /\ job[w].stage = "consume"
    /\ ~Locked(job[w].p)
    /\ outbox[job[w].p] = "PENDING"
    /\ PolicyAllows(job[w].p, job[w].at)
    /\ job' = [job EXCEPT ![w].stage = "locked"]
    /\ UNCHANGED <<now, database, broker, store>>

\* _reject: consumed and audited in one transaction, with no dispatch.
PolicyReject(w) ==
    LET p == job[w].p
    IN  /\ job[w].stage = "consume"
        /\ ~Locked(p)
        /\ outbox[p] = "PENDING"
        /\ ~PolicyAllows(p, job[w].at)
        /\ outbox' = [outbox EXCEPT ![p] = "CONSUMED"]
        /\ audit' = [audit EXCEPT ![p] = @ \cup {"POLICY_REJECTED"}]
        /\ job' = [job EXCEPT ![w] = Idle]
        /\ UNCHANGED <<now, proposal, challenge, binding, events, broker, store>>

-----------------------------------------------------------------------------
(* The workflow dispatcher, the execute handler and the broker's submit,   *)
(* all while the handoff's transaction is open.                            *)

\* Mutant: the broker does not look up the client order id.
SubmitForgetful(p, answer) ==
    /\ book' = [book EXCEPT ![p] = answer]
    /\ \/ answer = "REJECTED" /\ UNCHANGED orders
       \/ /\ answer = "ACCEPTED"
          /\ now < proposal[p].expires
          /\ orders' = [orders EXCEPT ![p] = @ + 1]

\* PaperBroker.submit: a known client order id gets its remembered answer;
\* funds may be short; an expired proposal is refused.
Submit(p, answer) ==
    \/ /\ book[p] # None
       /\ answer = book[p]
       /\ UNCHANGED broker
    \/ /\ book[p] = None
       /\ answer = "REJECTED"
       /\ book' = [book EXCEPT ![p] = answer]
       /\ UNCHANGED orders
    \/ /\ book[p] = None
       /\ answer = "ACCEPTED"
       /\ now < proposal[p].expires
       /\ book' = [book EXCEPT ![p] = answer]
       /\ orders' = [orders EXCEPT ![p] = @ + 1]

Remember(w, p, result) == store' = [store EXCEPT ![w][p] = result]

Answered(w, result) == job' = [job EXCEPT ![w].stage = "dispatched", ![w].result = result]

\* The dispatcher has a stored event for this idempotency id and returns it.
DispatchReplay(w) ==
    LET p == job[w].p
    IN  /\ job[w].stage = "locked"
        /\ store[w][p] # None
        /\ Answered(w, store[w][p])
        /\ UNCHANGED <<now, database, broker, store>>

\* The handler submits and gets the broker's answer.
DispatchAnswered(w) ==
    LET p == job[w].p
    IN  /\ job[w].stage = "locked"
        /\ store[w][p] = None
        /\ \E answer \in Answers :
             /\ Submit(p, answer)
             /\ LET result == IF answer = "ACCEPTED" THEN "SUCCEEDED" ELSE "REJECTED"
                IN  Remember(w, p, result) /\ Answered(w, result)
        /\ UNCHANGED <<now, database>>

\* The broker's answer is lost, whether or not the submit took effect.
DispatchUnknown(w) ==
    LET p == job[w].p
    IN  /\ job[w].stage = "locked"
        /\ store[w][p] = None
        /\ UNCHANGED broker \/ \E answer \in Answers : Submit(p, answer)
        /\ Remember(w, p, "SUBMIT_UNKNOWN")
        /\ Answered(w, "SUBMIT_UNKNOWN")
        /\ UNCHANGED <<now, database>>

\* The handler raises after the submit: no event is stored, the handoff rolls back.
DispatchRaises(w) ==
    /\ job[w].stage = "locked"
    /\ store[w][job[w].p] = None
    /\ \E answer \in Answers : Submit(job[w].p, answer)
    /\ job' = [job EXCEPT ![w] = Idle]
    /\ UNCHANGED <<now, database, store>>

\* Mutant: an uncertain outcome counts as terminal.
TerminalAlways(result) == result \in Results

\* The bridge maps UNKNOWN, SUBMIT_UNKNOWN and NEEDS_REVIEW to RETRY_LATER.
Terminal(result) == result # "SUBMIT_UNKNOWN"

\* An uncertain outcome leaves the row PENDING: RETRY_LATER.
RetryLater(w) ==
    /\ job[w].stage = "dispatched"
    /\ ~Terminal(job[w].result)
    /\ job' = [job EXCEPT ![w] = Idle]
    /\ UNCHANGED <<now, database, broker, store>>

\* A terminal result: consume_outbox_once and the audit record commit together.
CommitHandoff(w) ==
    LET p == job[w].p
    IN  /\ job[w].stage = "dispatched"
        /\ Terminal(job[w].result)
        /\ outbox[p] = "PENDING"
        /\ outbox' = [outbox EXCEPT ![p] = "CONSUMED"]
        /\ audit' = [audit EXCEPT ![p] = @ \cup
             {IF job[w].result = "SUCCEEDED" THEN "DISPATCHED" ELSE "EXECUTION_REJECTED"}]
        /\ job' = [job EXCEPT ![w] = Idle]
        /\ UNCHANGED <<now, proposal, challenge, binding, events, broker, store>>

-----------------------------------------------------------------------------

Issue ==
    \E p \in Proposals :
      \/ \E r \in Risks, method \in Methods, ttl \in Ttls, life \in Lives :
           Create(p, r, method, ttl, life)
      \/ \E m \in Messages : BindDelivery(p, m)

Decide(w) ==
    \/ \E p \in Proposals, m \in Messages \cup {None}, approved \in BOOLEAN :
         BeginDecision(w, p, m, approved)
    \/ LoadChallenge(w)
    \/ RefuseDecision(w)
    \/ CommitDecision(w)
    \/ LoseDecision(w)

Consume(w) ==
    \/ \E p \in Proposals : BeginHandoff(w, p)
    \/ SkipConsumed(w)
    \/ LockOutbox(w)
    \/ PolicyReject(w)
    \/ DispatchReplay(w)
    \/ DispatchAnswered(w)
    \/ DispatchUnknown(w)
    \/ DispatchRaises(w)
    \/ RetryLater(w)
    \/ CommitHandoff(w)

Next ==
    \/ Tick
    \/ Issue
    \/ \E w \in Workers : Decide(w) \/ Consume(w) \/ Abort(w) \/ Restart(w)

Spec == Init /\ [][Next]_vars

-----------------------------------------------------------------------------
(* Properties.                                                             *)

JobType ==
    [stage : Stages, p : Proposals \cup {None}, m : Messages \cup {None},
     approved : BOOLEAN, at : Nat, version : Nat, result : Results \cup {None}]

\* Every table, the broker's book and the workers' records have their types.
TypeOK ==
    /\ now \in Nat
    /\ proposal \in [Proposals -> ProposalRow]
    /\ challenge \in [Proposals -> ChallengeRow]
    /\ binding \in [Proposals -> BindingRow]
    /\ events \in [Proposals -> SUBSET EventRow]
    /\ outbox \in [Proposals -> OutboxRow]
    /\ audit \in [Proposals -> SUBSET Dispositions]
    /\ book \in [Proposals -> Answers \cup {None}]
    /\ orders \in [Proposals -> Nat]
    /\ job \in [Workers -> JobType]
    /\ store \in [Workers -> [Proposals -> Results \cup {None}]]

\* One decision per challenge: concurrent presses, direct decisions and
\* redeliveries leave one event, and it is the one the status reports
\* (service.py decide, repositories.py transition_with_event).
OneDecision ==
    \A p \in Proposals :
      /\ \A e, f \in events[p] : e = f
      /\ \A e \in events[p] : challenge[p].status = StatusFor(e.outcome)
      /\ challenge[p].status \in {"APPROVED", "REJECTED", "EXPIRED"} => events[p] # {}

\* An order stands at the broker only for a proposal its user approved by a
\* press on the very message the challenge was sent in, on a clock before the
\* challenge and the proposal expired, whatever races, crashes and
\* redeliveries came between.
ExecutionAuthorised ==
    \A p \in Proposals :
      orders[p] > 0 =>
        /\ challenge[p].method = "telegram"
        /\ \E e \in events[p] : /\ e.outcome = "APPROVED"
                                /\ e.m # None
                                /\ e.m = binding[p]
                                /\ e.at < challenge[p].expires
                                /\ e.at < proposal[p].expires

\* Crashes after the submit, lost answers and concurrent consumers never make a
\* second order: "Consume one durable approval outbox record with exactly-once
\* effect" (handoff.py:124), which rests on the stable client order id.
AtMostOneOrder == \A p \in Proposals : orders[p] <= 1

\* The audit trail tells the truth about a consumed row: one terminal record,
\* DISPATCHED only with an order at the broker and EXECUTION_REJECTED only
\* without one; an open row has no terminal record yet.
AuditMatchesBroker ==
    \A p \in Proposals :
      /\ outbox[p] = "CONSUMED" <=> audit[p] # {}
      /\ \A a, b \in audit[p] : a = b
      /\ "DISPATCHED" \in audit[p] => orders[p] > 0
      /\ "EXECUTION_REJECTED" \in audit[p] => orders[p] = 0

\* What is recorded of a proposal agrees: one decision on its challenge, an order
\* only under a timely approval of the bound message, and an audit trail that says
\* what stands at the broker, whatever races, crashes and redeliveries came between
\* (decide, consume).
RecordsAgree == OneDecision /\ ExecutionAuthorised /\ AuditMatchesBroker

\* An approved risk decision authorises one proposal (service.py
\* _freeze_risk_decision, RISK_DECISION_ALREADY_USED).
RiskUsedOnce ==
    \A p, q \in Proposals :
      proposal[p].risk # None /\ proposal[p].risk = proposal[q].risk => p = q

\* Handlers decide on a clock they read before they waited for the row.  The old
\* reading never refuses too early: a challenge is settled as expired only after its
\* own expiry, and the handoff's policy turns an approved press away only after the
\* proposal's, even if the challenge had ended long before (telegram_approval.py
\* handle, handoff.py _policy_rejection).
RefusedOnlyLate ==
    \A p \in Proposals :
      /\ challenge[p].status = "EXPIRED" => now >= challenge[p].expires
      /\ "POLICY_REJECTED" \in audit[p] => now >= proposal[p].expires

\* "A crash or ambiguous result preserves a recoverable row" (docs/tasks/status.md:3575):
\* a row is closed with its order at the broker only as DISPATCHED.
AmbiguousRowRecoverable ==
    \A p \in Proposals : orders[p] > 0 /\ outbox[p] = "CONSUMED" => "DISPATCHED" \in audit[p]

\* The decision on a proposal, as its user sees it.
Phase(status) ==
    CASE status = "NONE" -> "none"
      [] status = "PENDING" -> "pending"
      [] status = "APPROVED" -> "approved"
      [] OTHER -> "refused"

Abstract == INSTANCE OneShotExecution WITH
    phase <- [p \in Proposals |-> Phase(challenge[p].status)],
    executions <- orders

\* The whole path, with its clocks, retries, crashes and lost answers, is an
\* implementation of one-shot execution: issue, settle once, execute at most
\* once and only when approved.
OneShot == Abstract!Spec
=============================================================================
