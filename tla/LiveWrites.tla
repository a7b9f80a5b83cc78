------------------------------ MODULE LiveWrites ------------------------------
(***************************************************************************)
(* _GuardedLiveWritePort (runtime.py): every live submit or cancel goes    *)
(* through a LiveGuard, which is handed a delegate that may reach the raw  *)
(* broker once, from the thread of the call, until the call ends.          *)
(*                                                                         *)
(* The guard is code outside this repository and is modelled by all it     *)
(* could do with what it is handed: call the delegate or not, call it      *)
(* again, keep it and call it from another thread or during a later write, *)
(* return the broker's result or an object of its own, raise, and swallow  *)
(* what it was raised.  The check and the flags of a delegate are under    *)
(* its lock, the raw call is not: other threads run in between.            *)
(***************************************************************************)
CONSTANTS
  Threads,   \* threads that write, or merely hold a delegate
  Writes,    \* one per call of submit or cancel
  Nobody

ASSUME NobodyAssumption == Nobody \notin Threads /\ Nobody \notin Writes

VARIABLES
  delegate,  \* per write: owner, active, started, completed, misused, error
  thread,    \* per thread: its pc and the write whose guard it is in
  raw,       \* per write: what the raw broker did, "none" before it is reached
  answer     \* per write: what the port returned or raised

livevars == <<delegate, thread, raw, answer>>

NoDelegate == [owner |-> Nobody, active |-> FALSE, started |-> FALSE, completed |-> FALSE,
               misused |-> FALSE, error |-> "none"]

LiveInit ==
  /\ delegate = [w \in Writes |-> NoDelegate]
  /\ thread = [t \in Threads |-> [pc |-> "idle", write |-> Nobody]]
  /\ raw = [w \in Writes |-> "none"]
  /\ answer = [w \in Writes |-> "none"]

(* _SingleUseLiveDelegate.__init__ and the guard's submit or cancel begin. *)
Begin(t, w) ==
  /\ thread[t].pc = "idle" /\ delegate[w].owner = Nobody
  /\ delegate' = [delegate EXCEPT ![w] = [NoDelegate EXCEPT !.owner = t, !.active = TRUE]]
  /\ thread' = [thread EXCEPT ![t] = [pc |-> "guard", write |-> w]]
  /\ UNCHANGED <<raw, answer>>

(* A plausible slip: the delegate of a finished call still works.          *)
AdmitsExpired(t, w) == t = delegate[w].owner /\ ~delegate[w].started

Admits(t, w) == t = delegate[w].owner /\ delegate[w].active /\ ~delegate[w].started

(* __call__, first locked part.                                            *)
CallAdmitted(t, w) ==
  /\ thread[t].pc \in {"idle", "guard"} /\ delegate[w].owner # Nobody /\ Admits(t, w)
  /\ delegate' = [delegate EXCEPT ![w].started = TRUE]
  /\ thread' = [thread EXCEPT ![t] = [pc |-> "raw", write |-> w]]
  /\ UNCHANGED <<raw, answer>>

CallRefused(t, w) ==
  /\ thread[t].pc \in {"idle", "guard"} /\ delegate[w].owner # Nobody /\ ~Admits(t, w)
  /\ delegate' = [delegate EXCEPT ![w].misused = TRUE]
  /\ UNCHANGED <<thread, raw, answer>>

(* The raw broker acts: it answers, raises a BrokerError or anything else, *)
(* or is left by an exception that is no Exception.                        *)
RawActs(t, outcome) ==
  /\ thread[t].pc = "raw"
  /\ raw' = [raw EXCEPT ![thread[t].write] = outcome]
  /\ thread' = [thread EXCEPT ![t].pc = "record"]
  /\ UNCHANGED <<delegate, answer>>

(* __call__, second locked part.                                           *)
RecordCall(t) ==
  /\ thread[t].pc = "record"
  /\ LET w == thread[t].write IN
       delegate' = [delegate EXCEPT
                      ![w].completed = (raw[w] = "result"),
                      ![w].error = IF raw[w] \in {"broker_error", "error"} THEN raw[w] ELSE "none"]
  /\ thread' = [thread EXCEPT ![t].pc = "guard"]
  /\ UNCHANGED <<raw, answer>>

(* _resolve_guarded_write: what the caller is told.                        *)
Resolve(d, returned, raised) ==
  IF d.error = "broker_error" THEN "broker_error"
  ELSE IF ~d.started THEN "refused"
  ELSE IF ~d.completed \/ d.misused \/ d.error # "none" \/ raised # "none" \/ returned # "exact"
         THEN "unknown"
  ELSE "result"

(* The guard's method ends: it returns the delegate's own result or        *)
(* another object, or raises.  close takes the snapshot and expires the    *)
(* delegate in one locked step.                                            *)
GuardEnds(t, returned, raised) ==
  /\ thread[t].pc = "guard"
  /\ returned = "exact" => delegate[thread[t].write].completed
  /\ LET w == thread[t].write IN
       /\ answer' = [answer EXCEPT ![w] = Resolve(delegate[w], returned, raised)]
       /\ delegate' = [delegate EXCEPT ![w].active = FALSE]
  /\ thread' = [thread EXCEPT ![t] = [pc |-> "idle", write |-> Nobody]]
  /\ UNCHANGED raw

(* An exception that is no Exception passes through; the delegate expires  *)
(* in the finally clause.                                                  *)
GuardLeft(t) ==
  /\ thread[t].pc = "guard"
  /\ answer' = [answer EXCEPT ![thread[t].write] = "left"]
  /\ delegate' = [delegate EXCEPT ![thread[t].write].active = FALSE]
  /\ thread' = [thread EXCEPT ![t] = [pc |-> "idle", write |-> Nobody]]
  /\ UNCHANGED raw

LiveNext ==
  \E t \in Threads :
    \/ \E w \in Writes : Begin(t, w) \/ CallAdmitted(t, w) \/ CallRefused(t, w)
    \/ \E outcome \in {"result", "broker_error", "error", "left"} : RawActs(t, outcome)
    \/ RecordCall(t)
    \/ \E returned \in {"exact", "other"} : GuardEnds(t, returned, "none")
    \/ \E raised \in {"startup_error", "error"} : GuardEnds(t, "other", raised)
    \/ GuardLeft(t)

LiveSpec == LiveInit /\ [][LiveNext]_livevars

-----------------------------------------------------------------------------
(* What the caller of submit or cancel is told is true of the broker, then *)
(* and for ever after: "refused" and the broker never sees the order, also *)
(* when the guard kept the delegate; a result or a BrokerError and it is   *)
(* the raw broker's own (LiveGuard, "the exact object it returned";        *)
(* _resolve_guarded_write).                                                *)
ToldTheTruth ==
  \A w \in Writes :
    /\ answer[w] = "refused" => raw[w] = "none"
    /\ answer[w] = "result" => raw[w] = "result"
    /\ answer[w] = "broker_error" => raw[w] = "broker_error"

=============================================================================
