-------------------------- MODULE HealthAggregator --------------------------
(***************************************************************************)
(* Readiness of a process from observations of its declared dependencies.  *)
(* Probes run on several threads and their observations arrive in any      *)
(* order; each carries a sequence number, and two that share one disagree  *)
(* unless they say the same.                                               *)
(***************************************************************************)
EXTENDS Naturals, FiniteSets

CONSTANTS
    Required,      \* dependencies declared REQUIRED
    Optional,      \* dependencies declared DEGRADED_ALLOWED
    MaxSequence,   \* bound: sequence numbers of observations
    MaxTime,       \* bound: observation times
    MaxSeen        \* bound: distinct observations

VARIABLES
    dependencies,  \* the observation kept for each declared dependency
    alive,         \* liveness, set by the application alone
    seen           \* history: every observation that update was given

healthvars == <<dependencies, alive, seen>>

Specs == Required \cup Optional

\* RuntimePosture.from_mode: what the process may do, as reported with its health.
Posture(mode) ==
    [execution |-> CASE mode = "research" -> "disabled"
                     [] mode = "paper" -> "paper"
                     [] mode = "live" -> "live",
     readOnly |-> mode # "live"]

\* DependencyHealth: only a ready dependency has no reason.
Observation ==
    [status : {"ready", "degraded", "not_ready"}, reason : {"none", "timeout", "unavailable"},
     at : 0..MaxTime, sequence : 0..MaxSequence]
WellFormed(o) == o.status = "ready" <=> o.reason = "none"

Starting == [status |-> "not_ready", reason |-> "starting", at |-> 0, sequence |-> 0]

HealthInit ==
    /\ dependencies = [d \in Specs |-> Starting]
    /\ alive = TRUE
    /\ seen = [d \in Specs |-> {}]

Later(a, b) == IF a >= b THEN a ELSE b

Conflict(current, o) ==
    [status |-> "not_ready", reason |-> "observation_conflict",
     at |-> Later(current.at, o.at), sequence |-> current.sequence]

\* Mutant: of two observations with one sequence number the last to arrive is kept.
ResolveLast(current, o) == o

\* _resolve_equal_sequence: the same verdict refreshes its time, another one conflicts.
ResolveEqualSequence(current, o) ==
    IF current.status = o.status /\ current.reason = o.reason
    THEN [current EXCEPT !.at = Later(current.at, o.at)]
    ELSE Conflict(current, o)

\* update: a newer observation replaces, an older one is ignored.
Update(d, o) ==
    /\ WellFormed(o)
    /\ Cardinality(UNION {{x} \X seen[x] : x \in Specs}) < MaxSeen
    /\ seen' = [seen EXCEPT ![d] = @ \cup {o}]
    /\ dependencies' = [dependencies EXCEPT ![d] =
           CASE o.sequence < @.sequence -> @
             [] o.sequence > @.sequence -> o
             [] o.sequence = @.sequence -> ResolveEqualSequence(@, o)]
    /\ UNCHANGED alive

\* remove: the loss of a dependency is an observation like any other.
RemoveDependency(d, sequence, at) ==
    Update(d, [status |-> "not_ready", reason |-> "unavailable", at |-> at, sequence |-> sequence])

SetApplicationAlive(a) ==
    /\ a # alive
    /\ alive' = a
    /\ UNCHANGED <<dependencies, seen>>

\* _readiness: what a snapshot reports.
Readiness ==
    IF ~alive \/ \E d \in Required : dependencies[d].status = "not_ready" THEN "not_ready"
    ELSE IF \E d \in Specs : dependencies[d].status # "ready" THEN "degraded"
    ELSE "ready"

HealthNext ==
    \/ \E d \in Specs, o \in Observation : Update(d, o)
    \/ \E d \in Specs, n \in 0..MaxSequence, t \in 0..MaxTime : RemoveDependency(d, n, t)
    \/ \E a \in BOOLEAN : SetApplicationAlive(a)

HealthSpec == HealthInit /\ [][HealthNext]_healthvars

-----------------------------------------------------------------------------
(* Properties.                                                             *)

\* The verdict that a set of observations supports, whatever their order.
Verdict(obs) ==
    LET top    == {o \in obs : \A p \in obs : p.sequence <= o.sequence}
        newest == CHOOSE t \in {o.at : o \in top} : \A o \in top : o.at <= t
        o1     == CHOOSE o \in top : TRUE
    IN  IF \A o \in top : o.status = o1.status /\ o.reason = o1.reason
        THEN [o1 EXCEPT !.at = newest]
        ELSE [status |-> "not_ready", reason |-> "observation_conflict",
              at |-> newest, sequence |-> o1.sequence]

\* What is kept, and so what the snapshot reports, depends on which observations
\* arrived and not on their order: no late or repeated one restores readiness.
OrderFree == \A d \in Specs : dependencies[d] = Verdict(seen[d] \cup {Starting})
=============================================================================
