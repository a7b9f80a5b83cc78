------------------------- MODULE FundsSafetyAlerts -------------------------
(***************************************************************************)
(* The funds-safety alert service.  Events about a subject (environment,   *)
(* kind and subject of the code) raise, escalate and recover one incident; *)
(* the incident and an outbox of deliveries, one per channel and revision, *)
(* are committed together to a journal before anything is sent.  The       *)
(* service keeps a copy of the last checkpoint.  A commit that fails        *)
(* poisons it: every call is refused until it is built again from the       *)
(* journal, so a poisoned service is modelled as one that is down.          *)
(*                                                                         *)
(* A delivery's due_at is kept as the time left until it is due.  The      *)
(* checkpoint's version is left out: by the journal's contract one service *)
(* writes at a time, so the version a commit expects is the journal's, and *)
(* a refused commit has the effect of one that raises.                     *)
(***************************************************************************)
EXTENDS Naturals, Sequences, FiniteSets

CONSTANTS
    Subjects,        \* what an incident is about
    Channels,        \* the configured routes, in the order they are stored
    Independent,     \* the route that must be configured
    Operators,       \* who may ask to acknowledge
    None,            \* no incident, acknowledgement, checkpoint or loop
    MaxSequence,     \* bound: sequence numbers of events
    MaxNow,          \* bound: the last clock reading
    MaxAttempts,     \* bound: attempts of one delivery
    RetrySeconds,    \* policy.retry_seconds
    MaxDelay,        \* the cap of the backoff, 3600
    BackoffCap,      \* the cap of its exponent, 10
    RecoveryMaxAge,  \* policy.recovery_max_age_seconds
    Capacity,        \* policy.capacity
    BatchSize        \* deliveries tried by one dispatch_due

VARIABLES
    journal,   \* the durable checkpoint
    memory,    \* the service's checkpoint, None when it is down or poisoned
    loop,      \* dispatch_due in progress: deliveries left, stage, time since its clock read
    now,       \* the clock
    sends,     \* history: how often each notification was handed to its port
    accepted   \* history: notifications that a port accepted

vars == <<journal, memory, loop, now, sends, accepted>>

States == {"active", "escalated", "recovered"}
Routes == {Channels[k] : k \in DOMAIN Channels}

\* FundsSafetyEvent; a recovery carries evidence by construction.
Event == [sequence : 1..MaxSequence, at : 0..MaxNow, state : States]

Refs == Subjects \X (1..MaxSequence) \X Routes
RefOf(d) == <<d.subject, d.revision, d.channel>>

Least(a, b) == IF a < b THEN a ELSE b

Init ==
    /\ journal = [incidents |-> [s \in Subjects |-> None], deliveries |-> <<>>]
    /\ memory = None
    /\ loop = None
    /\ now = 0
    /\ sends = [r \in Refs |-> 0]
    /\ accepted = {}

-----------------------------------------------------------------------------
(* The checkpoint.                                                         *)

\* AlertCheckpoint._integrity: what a stored checkpoint must satisfy to be loaded.
Integrity(c) ==
    LET Known(d) == c.incidents[d.subject]
    IN  /\ Independent \in Routes
        /\ \A s \in Subjects : c.incidents[s] # None =>
               LET i == c.incidents[s]
               IN  /\ \/ i.state = i.event.state
                      \/ i.state = "escalated" /\ i.event.state = "active"
                   /\ i.ack # None => i.ack.revision = i.revision /\ i.state # "recovered"
                   /\ \A ch \in Routes : \E k \in DOMAIN c.deliveries :
                          RefOf(c.deliveries[k]) = <<s, i.revision, ch>>
        /\ \A k \in DOMAIN c.deliveries :
               LET d == c.deliveries[k]
               IN  /\ Known(d) # None
                   /\ d.revision <= Known(d).revision
                   /\ \A j \in DOMAIN c.deliveries : RefOf(c.deliveries[j]) = RefOf(d) => j = k
                   /\ d.revision < Known(d).revision => d.delivered \/ d.superseded
                   /\ d.revision = Known(d).revision => d.state = Known(d).state
        /\ Cardinality({s \in Subjects : c.incidents[s] # None}) <= Capacity
        /\ Len(c.deliveries) <= Capacity

\* The service is up and not poisoned (_ready), and its lock is free.
Ready == memory # None /\ loop = None

\* _commit: durable and taken over, or refused or raised, and then the service
\* cannot know whether the journal has the candidate.
Committed(candidate) ==
    /\ journal' = candidate
    /\ memory' = candidate

CommitFailed(candidate) ==
    /\ journal' \in {journal, candidate}
    /\ memory' = None
    /\ loop' = None

\* AlertService.__init__ loads and validates the journal.
Start ==
    /\ memory = None
    /\ Integrity(journal)
    /\ memory' = journal
    /\ loop' = None
    /\ UNCHANGED <<journal, now, sends, accepted>>

\* The bound on attempts, which the code counts without limit: what can make a
\* delivery be tried again happens while one more attempt is left.
Spare(tried) ==
    \A k \in DOMAIN memory.deliveries :
        RefOf(memory.deliveries[k]) = Head(loop.left) =>
            memory.deliveries[k].attempts + tried < MaxAttempts

Crash ==
    /\ memory # None
    /\ loop # None => Spare(0)
    /\ memory' = None
    /\ loop' = None
    /\ UNCHANGED <<journal, now, sends, accepted>>

-----------------------------------------------------------------------------
(* handle: an event raises or moves an incident.                           *)

\* The early returns and refusals; an older or repeated sequence changes nothing.
Applies(previous, e) ==
    /\ e.at <= now
    /\ previous # None => e.sequence > previous.event.sequence /\ e.at >= previous.event.at
    /\ e.state = "recovered" => previous # None /\ now - e.at <= RecoveryMaxAge

\* An escalated incident stays escalated until it recovers.
StateAfter(previous, e) ==
    IF previous # None /\ e.state = "active" /\ previous.state = "escalated"
    THEN "escalated" ELSE e.state

Changed(previous, e) == previous = None \/ previous.state # StateAfter(previous, e)

OwnerAfter(previous, e) ==
    CASE StateAfter(previous, e) = "escalated" -> "incident_commander"
      [] StateAfter(previous, e) = "recovered" -> previous.owner
      [] OTHER -> "safety_operator"

\* Mutant: an acknowledgement outlives the state it was given for.
IncidentAckKept(previous, e) ==
    [revision |-> IF previous = None THEN 1
                  ELSE previous.revision + (IF Changed(previous, e) THEN 1 ELSE 0),
     event    |-> e,
     state    |-> StateAfter(previous, e),
     owner    |-> OwnerAfter(previous, e),
     ack      |-> IF previous = None THEN None ELSE previous.ack]

IncidentAfter(previous, e) ==
    [revision |-> IF previous = None THEN 1
                  ELSE previous.revision + (IF Changed(previous, e) THEN 1 ELSE 0),
     event    |-> e,
     state    |-> StateAfter(previous, e),
     owner    |-> OwnerAfter(previous, e),
     ack      |-> IF previous = None \/ Changed(previous, e) THEN None ELSE previous.ack]

\* Deliveries of older states of the subject that have not arrived are given up.
Supersede(deliveries, s) ==
    [k \in DOMAIN deliveries |->
        IF deliveries[k].subject = s /\ ~deliveries[k].delivered
        THEN [deliveries[k] EXCEPT !.superseded = TRUE] ELSE deliveries[k]]

\* One AlertNotification per route, due at once.
Announce(s, incident) ==
    [k \in DOMAIN Channels |->
        [subject |-> s, revision |-> incident.revision, channel |-> Channels[k],
         state |-> incident.state, attempts |-> 0, dueIn |-> 0,
         delivered |-> FALSE, superseded |-> FALSE]]

Handled(c, s, e) ==
    LET incident == IncidentAfter(c.incidents[s], e)
    IN  [incidents  |-> [c.incidents EXCEPT ![s] = incident],
         deliveries |-> IF Changed(c.incidents[s], e)
                        THEN Supersede(c.deliveries, s) \o Announce(s, incident)
                        ELSE c.deliveries]

\* A full journal refuses the event.
Fits(c) ==
    /\ Cardinality({s \in Subjects : c.incidents[s] # None}) <= Capacity
    /\ Len(c.deliveries) <= Capacity

Handle(s, e) ==
    /\ Ready
    /\ Applies(memory.incidents[s], e)
    /\ \E c \in {Handled(memory, s, e)} :
           /\ Fits(c)
           /\ \/ Committed(c) /\ UNCHANGED loop
              \/ CommitFailed(c)
    /\ UNCHANGED <<now, sends, accepted>>

-----------------------------------------------------------------------------
(* acknowledge: an operator takes notice of the current revision.          *)

Acknowledge(s, r, o) ==
    /\ Ready
    /\ memory.incidents[s] # None
    /\ memory.incidents[s].revision = r
    /\ memory.incidents[s].state # "recovered"
    /\ memory.incidents[s].ack = None
    /\ \E c \in {[memory EXCEPT !.incidents[s].ack = [revision |-> r, operator |-> o]]} :
           \/ Committed(c) /\ UNCHANGED loop
           \/ CommitFailed(c)
    /\ UNCHANGED <<now, sends, accepted>>

-----------------------------------------------------------------------------
(* dispatch_due: one batch, a commit before and after each send.           *)

\* Mutant: a superseded delivery is still due.
IsDueSuperseded(d) == ~d.delivered /\ d.dueIn = 0

\* Mutant: what was tried once is not tried again.
IsDueOnce(d) == ~d.delivered /\ ~d.superseded /\ d.attempts = 0

\* What dispatch_due selects.
IsDue(d) == ~d.delivered /\ ~d.superseded /\ d.dueIn = 0

DispatchDue ==
    /\ Ready
    /\ \E due \in {SelectSeq(memory.deliveries, IsDue)} :
           /\ due # <<>>
           /\ loop' = [left  |-> [k \in 1..Least(BatchSize, Len(due)) |-> RefOf(due[k])],
                       stage |-> "attempt", spent |-> 0]
    /\ UNCHANGED <<journal, memory, now, sends, accepted>>

\* Mutant: the attempt is not counted and no cooldown set.
AttemptedNot(d, spent) == d

\* The attempt is counted and the next one put off from the loop's clock reading.
Attempted(d, spent) ==
    LET delay == Least(MaxDelay, RetrySeconds * 2 ^ Least(d.attempts, BackoffCap))
    IN  [d EXCEPT !.attempts = @ + 1,
                  !.dueIn = IF delay > spent THEN delay - spent ELSE 0]

Replace(c, ref, F(_)) ==
    [c EXCEPT !.deliveries = [k \in DOMAIN @ |-> IF RefOf(@[k]) = ref THEN F(@[k]) ELSE @[k]]]

Attempt ==
    /\ loop # None
    /\ loop.stage = "attempt"
    /\ \E c \in {Replace(memory, Head(loop.left), LAMBDA d : Attempted(d, loop.spent))} :
           \/ Committed(c) /\ loop' = [loop EXCEPT !.stage = "send"]
           \/ Spare(1) /\ CommitFailed(c)
    /\ UNCHANGED <<now, sends, accepted>>

\* The next delivery of the batch, or the end of dispatch_due.
Advance == loop' = IF Len(loop.left) = 1 THEN None
                   ELSE [loop EXCEPT !.left = Tail(@), !.stage = "attempt"]

\* The port accepts and says so, accepts but the answer is lost, or refuses.
Send(taken, answered) ==
    /\ loop # None
    /\ loop.stage = "send"
    /\ LET ref == Head(loop.left)
       IN  /\ sends' = [sends EXCEPT ![ref] = @ + 1]
           /\ accepted' = IF taken THEN accepted \cup {ref} ELSE accepted
    /\ \/ taken /\ answered /\ loop' = [loop EXCEPT !.stage = "settle"]
       \/ ~(taken /\ answered) /\ Spare(0) /\ Advance
    /\ UNCHANGED <<journal, memory, now>>

Settle ==
    /\ loop # None
    /\ loop.stage = "settle"
    /\ \E c \in {Replace(memory, Head(loop.left), LAMBDA d : [d EXCEPT !.delivered = TRUE])} :
           \/ Committed(c) /\ Advance
           \/ Spare(0) /\ CommitFailed(c)
    /\ UNCHANGED <<now, sends, accepted>>

\* Time passes, in the middle of a batch too.
Cooler(c) ==
    [c EXCEPT !.deliveries = [k \in DOMAIN @ |->
        IF @[k].dueIn > 0 THEN [@[k] EXCEPT !.dueIn = @ - 1] ELSE @[k]]]

Tick ==
    /\ now' = Least(now + 1, MaxNow)
    /\ journal' = Cooler(journal)
    /\ memory' = IF memory = None THEN None ELSE Cooler(memory)
    /\ loop' = IF loop = None THEN None ELSE [loop EXCEPT !.spent = Least(@ + 1, MaxDelay)]
    /\ UNCHANGED <<sends, accepted>>

Next ==
    \/ Start
    \/ Crash
    \/ \E s \in Subjects, e \in Event : Handle(s, e)
    \/ \E s \in Subjects, r \in 1..MaxSequence, o \in Operators : Acknowledge(s, r, o)
    \/ DispatchDue
    \/ Attempt
    \/ \E taken, answered \in BOOLEAN : Send(taken, answered)
    \/ Settle
    \/ Tick

Spec == Init /\ [][Next]_vars

\* The scheduler keeps calling dispatch_due and a service that is down or poisoned
\* is built again; a journal or port that is tried for ever works in the end.
FairSpec ==
    /\ Spec
    /\ WF_vars(Start)
    /\ WF_vars(Tick)
    /\ SF_vars(DispatchDue)
    /\ SF_vars(Attempt /\ memory' # None)
    /\ SF_vars(Send(TRUE, TRUE))
    /\ SF_vars(Settle /\ memory' # None)

-----------------------------------------------------------------------------
(* Properties.                                                             *)

\* Whatever was committed, by handle with validation or by acknowledge and
\* dispatch_due without it, also when the service could not know that it was,
\* is a checkpoint that the next start accepts.
Reloadable == Integrity(journal)

\* The outbox says no more than what happened: what is marked delivered was accepted
\* by its port, and every send, the repeated ones after a crash or a lost answer
\* included, was counted beforehand.
OutboxTruthful ==
    \A k \in DOMAIN journal.deliveries :
        LET d == journal.deliveries[k]
        IN  /\ d.delivered => RefOf(d) \in accepted
            /\ sends[RefOf(d)] <= d.attempts

\* On each channel the news about a subject never goes back: an older state is not
\* sent, or sent again, once a newer one was, whatever crashed or was retried in
\* between.
NewsMovesForward ==
    [][\A ref, newer \in DOMAIN sends :
         /\ sends'[ref] > sends[ref]
         /\ newer[1] = ref[1] /\ newer[3] = ref[3] /\ newer[2] > ref[2]
         => sends[newer] = 0]_vars

Pending(ref) ==
    \E k \in DOMAIN journal.deliveries :
        LET d == journal.deliveries[k]
        IN  RefOf(d) = ref /\ ~d.delivered /\ ~d.superseded

\* A committed notification is delivered in the end or given up for a newer one,
\* through crashes, lost receipts and failing commits.
EventuallyAnnounced == \A ref \in Refs : Pending(ref) ~> ~Pending(ref)
=============================================================================
