------------------------- MODULE DurableTransitions -------------------------
(***************************************************************************)
(* The cancel command of execution/state_machine.py on durable storage:    *)
(* transition_cancel decides on the state its caller presents and persists *)
(* the step through AuditBackedStatePersistence, whose unit of work        *)
(* applies the business state and appends the audit event, both or         *)
(* neither.                                                                *)
(*                                                                         *)
(* The business state is applied by the caller's callback, which is given  *)
(* no version and is taken here to write what it is told; and the state    *)
(* presented as current is whatever the caller last read or was answered,  *)
(* live or stale.  The ids of events seen live in the memory of a process  *)
(* and are lost when it is restarted; callers retry an event id that may   *)
(* have been committed.                                                    *)
(***************************************************************************)
EXTENDS Integers, Sequences, FiniteSets

CONSTANTS Workers, EventIds, NoLoad, MaxRestarts

VARIABLES
  row,       \* the stored state of the command
  trail,     \* the stored audit events, in order: [event, before, after]
  mem,       \* each worker: the state it takes for current, the events it has seen, its call
  lapse,     \* history: a step was committed from a state that was no longer the stored one
  restarts

transvars == <<row, trail, mem, lapse, restarts>>

CancelStates == {"CANCEL_REQUESTED", "CANCEL_CONFIRMED", "CANCEL_REJECTED", "CANCEL_UNKNOWN",
                 "CANCEL_RECONCILING", "CANCEL_NOT_APPLIED", "CANCEL_MANUAL_REVIEW"}

(* CANCEL_EDGES                                                            *)
CancelEdges ==
  {<<"CANCEL_REQUESTED", "CANCEL_CONFIRMED">>, <<"CANCEL_REQUESTED", "CANCEL_REJECTED">>,
   <<"CANCEL_REQUESTED", "CANCEL_UNKNOWN">>, <<"CANCEL_UNKNOWN", "CANCEL_RECONCILING">>,
   <<"CANCEL_RECONCILING", "CANCEL_CONFIRMED">>, <<"CANCEL_RECONCILING", "CANCEL_NOT_APPLIED">>,
   <<"CANCEL_RECONCILING", "CANCEL_MANUAL_REVIEW">>}

(* CANCEL_TERMINAL                                                         *)
CancelTerminal ==
  {"CANCEL_CONFIRMED", "CANCEL_REJECTED", "CANCEL_NOT_APPLIED", "CANCEL_MANUAL_REVIEW"}

(* CANCEL_RECOVERY_ONLY                                                    *)
RecoveryOnly(current, target) == current = "CANCEL_UNKNOWN" => target = "CANCEL_RECONCILING"

(* is_cancel_transition_allowed                                            *)
CancelAllowed(current, target) ==
  /\ current \notin CancelTerminal
  /\ RecoveryOnly(current, target)
  /\ <<current, target>> \in CancelEdges

(* legal_cancel_targets                                                    *)
LegalTargets(current) ==
  IF current \in CancelTerminal THEN {}
  ELSE {e[2] : e \in {x \in CancelEdges : x[1] = current}}

Forgotten == [current |-> NoLoad, seen |-> {}, call |-> NoLoad]

TransInit ==
  /\ row = "CANCEL_REQUESTED"
  /\ trail = <<>>
  /\ mem = [w \in Workers |-> Forgotten]
  /\ lapse = FALSE
  /\ restarts = 0

(* The ids of stored audit events are unique (uq_audit_events_event_id).   *)
Stored(event) == \E i \in DOMAIN trail : trail[i].event = event

(* has_event: what this process remembers, not what is stored.             *)
HasEvent(w, event) == event \in mem[w].seen

(* The caller reads the state that it will present.                        *)
LoadState(w) ==
  /\ mem[w].call = NoLoad
  /\ mem[w].current # row
  /\ mem' = [mem EXCEPT ![w].current = row]
  /\ UNCHANGED <<row, trail, lapse, restarts>>

(* _transition up to the commit: an event this process has seen and a      *)
(* state other than the expected one change nothing, a state that is       *)
(* already there still binds the event, anything else must be an allowed   *)
(* edge.                                                                   *)
Transition(w, event, target) ==
  /\ mem[w].call = NoLoad
  /\ mem[w].current # NoLoad
  /\ ~HasEvent(w, event)
  /\ target = mem[w].current \/ CancelAllowed(mem[w].current, target)
  /\ mem' = [mem EXCEPT ![w].call =
       [stage |-> "unit", event |-> event, before |-> mem[w].current, after |-> target]]
  /\ UNCHANGED <<row, trail, lapse, restarts>>

InStage(w, stage) == mem[w].call # NoLoad /\ mem[w].call.stage = stage

(* The caller's callback: it is told the state to write, and no version.   *)
ApplyBusinessState(before, after) ==
  /\ row' = after
  /\ lapse' = (lapse \/ before # row)

(* record_state_change: an insert, refused for an id that is stored.       *)
RecordStateChange(event, before, after) ==
  /\ ~Stored(event)
  /\ trail' = Append(trail, [event |-> event, before |-> before, after |-> after])

(* A plausible slip: the event is recorded outside the unit of work.       *)
CommitUnrecorded(w) ==
  /\ InStage(w, "unit")
  /\ ApplyBusinessState(mem[w].call.before, mem[w].call.after)
  /\ mem' = [mem EXCEPT ![w].call.stage = "mark"]
  /\ UNCHANGED <<trail, restarts>>

(* commit: one unit of work stores the status and the audit event.         *)
CommitBoth(w) ==
  /\ InStage(w, "unit")
  /\ ApplyBusinessState(mem[w].call.before, mem[w].call.after)
  /\ RecordStateChange(mem[w].call.event, mem[w].call.before, mem[w].call.after)
  /\ mem' = [mem EXCEPT ![w].call.stage = "mark"]
  /\ UNCHANGED restarts

(* A plausible slip: the event is marked although its commit raised.       *)
RolledBackMarked(w) ==
  /\ InStage(w, "unit")
  /\ mem' = [mem EXCEPT ![w] = [@ EXCEPT !.call = NoLoad, !.seen = @ \cup {mem[w].call.event}]]
  /\ UNCHANGED <<row, trail, lapse, restarts>>

(* The unit of work raises, for a stored id or for another reason:         *)
(* PersistenceError, and nothing is marked.                                *)
RolledBack(w) ==
  /\ InStage(w, "unit")
  /\ mem' = [mem EXCEPT ![w].call = NoLoad]
  /\ UNCHANGED <<row, trail, lapse, restarts>>

(* commit has returned: the event is marked, and the caller is told the    *)
(* state that was reached.                                                 *)
MarkSeen(w) ==
  /\ InStage(w, "mark")
  /\ mem' = [mem EXCEPT ![w] = [current |-> mem[w].call.after, call |-> NoLoad,
                               seen |-> mem[w].seen \cup {mem[w].call.event}]]
  /\ UNCHANGED <<row, trail, lapse, restarts>>

(* The process dies, before its commit or between the commit and the mark. *)
Restart(w) ==
  /\ restarts < MaxRestarts /\ mem[w] # Forgotten
  /\ mem' = [mem EXCEPT ![w] = Forgotten]
  /\ restarts' = restarts + 1
  /\ UNCHANGED <<row, trail, lapse>>

TransNext ==
  \E w \in Workers :
    \/ LoadState(w)
    \/ \E event \in EventIds, target \in CancelStates : Transition(w, event, target)
    \/ CommitBoth(w)
    \/ RolledBack(w)
    \/ MarkSeen(w)
    \/ Restart(w)

-----------------------------------------------------------------------------
(* With stale callers, retries, rolled back commits and restarts: the      *)
(* stored state is the one the last stored event leads to, each event is   *)
(* stored once and is an edge of the lifecycle or stays, and an event that *)
(* a process remembers, and so would report as applied, is stored.  As     *)
(* long as callers present the live state the events form one path from    *)
(* the start: an unknown outcome was reconciled before it was settled, and *)
(* a settled command never moves (_transition,                             *)
(* AuditBackedStatePersistence).                                           *)
TrailExplains ==
  LET at(i) == IF i = 0 THEN "CANCEL_REQUESTED" ELSE trail[i].after IN
  /\ row = at(Len(trail))
  /\ \A i \in DOMAIN trail :
       /\ trail[i].after = trail[i].before \/ trail[i].after \in LegalTargets(trail[i].before)
       /\ ~lapse => trail[i].before = at(i - 1)
       /\ \A j \in DOMAIN trail : trail[i].event = trail[j].event => i = j
  /\ \A w \in Workers : \A event \in mem[w].seen : Stored(event)
=============================================================================
