---------------------------- MODULE MCOperations ----------------------------
(***************************************************************************)
(* Finite instances of the parts that watch the system: funds-safety       *)
(* alerts and health.  They share no state; a behaviour takes the steps of *)
(* one.                                                                    *)
(***************************************************************************)
EXTENDS HealthAggregator

CONSTANT None

VARIABLES
  part,
  journal, memory, loop, now, sends, accepted

alertvars == <<journal, memory, loop, now, sends, accepted>>
-----------------------------------------------------------------------------
(* One incident on two routes, each delivery tried twice.                  *)
Alerts == INSTANCE FundsSafetyAlerts WITH
  Subjects <- {"s"}, Channels <- <<"independent", "telegram">>, Independent <- "independent",
  Operators <- {}, MaxSequence <- 2, MaxNow <- 0, MaxAttempts <- 2, RetrySeconds <- 1,
  MaxDelay <- 1, BackoffCap <- 1, RecoveryMaxAge <- 0, Capacity <- 4, BatchSize <- 2

(* One route, the second try after a longer delay; the journal is full     *)
(* after two states of the incident, and time passes between events.       *)
Full == INSTANCE FundsSafetyAlerts WITH
  Subjects <- {"s"}, Channels <- <<"independent">>, Independent <- "independent",
  Operators <- {"o"}, MaxSequence <- 3, MaxNow <- 1, MaxAttempts <- 2, RetrySeconds <- 1,
  MaxDelay <- 2, BackoffCap <- 1, RecoveryMaxAge <- 0, Capacity <- 2, BatchSize <- 2
-----------------------------------------------------------------------------
Parts == {"alerts", "full journal", "health"}

MCInit ==
  /\ part \in Parts
  /\ HealthInit
  /\ \/ part = "full journal" /\ Full!Init
     \/ part # "full journal" /\ Alerts!Init

MCNext ==
  /\ UNCHANGED part
  /\ \/ part = "alerts" /\ Alerts!Next
     \/ part = "full journal" /\ Full!Next
     \/ part \notin {"alerts", "full journal"} /\ UNCHANGED alertvars
  /\ \/ part = "health" /\ HealthNext
     \/ part # "health" /\ UNCHANGED healthvars

allvars == <<part, alertvars, healthvars>>

(* A step of the alerts, in either instance.                               *)
OfAlerts(A, F) ==
  /\ \/ part = "alerts" /\ A
     \/ part = "full journal" /\ F
  /\ UNCHANGED <<part, healthvars>>

\* The fairness of FundsSafetyAlerts.
MCSpec ==
  /\ MCInit
  /\ [][MCNext]_allvars
  /\ WF_allvars(OfAlerts(Alerts!Start, Full!Start))
  /\ WF_allvars(OfAlerts(Alerts!Tick, Full!Tick))
  /\ SF_allvars(OfAlerts(Alerts!DispatchDue, Full!DispatchDue))
  /\ SF_allvars(OfAlerts(Alerts!Attempt, Full!Attempt) /\ memory' # None)
  /\ SF_allvars(OfAlerts(Alerts!Send(TRUE, TRUE), Full!Send(TRUE, TRUE)))
  /\ SF_allvars(OfAlerts(Alerts!Settle, Full!Settle) /\ memory' # None)
-----------------------------------------------------------------------------
(* Every checkpoint that FundsSafetyAlerts committed is one the next start *)
(* accepts; in it, delivered means accepted by the port, and every send,   *)
(* repeated ones included, was counted before it was made (handle,         *)
(* acknowledge, dispatch_due).                                             *)
JournalSound ==
  /\ part = "alerts" => Alerts!Reloadable /\ Alerts!OutboxTruthful
  /\ part = "full journal" => Full!Reloadable /\ Full!OutboxTruthful

(* NewsMovesForward of FundsSafetyAlerts: on each channel the news about a *)
(* subject never goes back to an older state (dispatch_due).               *)
NewsMovesForward == Alerts!NewsMovesForward

(* EventuallyAnnounced of FundsSafetyAlerts: a committed notification is   *)
(* delivered or given up for a newer one, through crashes, lost receipts   *)
(* and failing commits (dispatch_due).                                     *)
EventuallyAnnounced ==
  \A ref \in Alerts!Refs \cup Full!Refs : Alerts!Pending(ref) ~> ~Alerts!Pending(ref)
=============================================================================
