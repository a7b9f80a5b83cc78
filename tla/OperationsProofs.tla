-------------------------- MODULE OperationsProofs --------------------------
(***************************************************************************)
(* Proofs about the parts around a trade: the port of live writes, the     *)
(* order lifecycle, the durable transitions of a cancel command, health,   *)
(* and reconciliation.  Each part has its own variables, its own           *)
(* specification and its own invariant; they share this module, nothing    *)
(* else.                                                                   *)
(***************************************************************************)
EXTENDS LiveWrites, OrderLifecycle, DurableTransitions, HealthAggregator, Reconciliation,
        TLAPS

-----------------------------------------------------------------------------
(***************************************************************************)
(* Live writes.  Whatever a LiveGuard does with its delegates, on any      *)
(* number of threads and for any number of writes, the caller is told the  *)
(* truth.                                                                  *)
(***************************************************************************)

Delegate == [owner : Threads \cup {Nobody}, active : BOOLEAN, started : BOOLEAN,
             completed : BOOLEAN, misused : BOOLEAN, error : {"none", "broker_error", "error"}]

Answer == {"none", "refused", "result", "broker_error", "unknown", "left"}

Thread == [pc : {"idle", "guard", "raw", "record"}, write : Writes \cup {Nobody}]

(* The types of the variables of LiveWrites.                               *)
LiveTypeOK ==
  /\ delegate \in [Writes -> Delegate]
  /\ thread \in [Threads -> Thread]
  /\ raw \in [Writes -> {"none", "result", "broker_error", "error", "left"}]
  /\ answer \in [Writes -> Answer]

(* A live delegate belongs to a call that has not been answered, and a     *)
(* thread inside a guard holds the live delegate of its own write.         *)
CallScoped ==
  /\ \A w \in Writes : delegate[w].active =>
       /\ delegate[w].owner \in Threads
       /\ thread[delegate[w].owner].write = w
       /\ thread[delegate[w].owner].pc # "idle"
       /\ answer[w] = "none"
  /\ \A t \in Threads : thread[t].pc # "idle" =>
       /\ thread[t].write \in Writes
       /\ delegate[thread[t].write].owner = t
       /\ delegate[thread[t].write].active

(* What a delegate has recorded is what the raw broker did.                *)
Recorded ==
  /\ \A w \in Writes :
       /\ raw[w] # "none" => delegate[w].started
       /\ delegate[w].owner = Nobody => raw[w] = "none" /\ answer[w] = "none"
       /\ delegate[w].completed => raw[w] = "result"
       /\ delegate[w].error = "broker_error" => raw[w] = "broker_error"
  /\ \A t \in Threads : thread[t].pc = "raw" =>
       delegate[thread[t].write].started /\ raw[thread[t].write] = "none"

LiveInv == LiveTypeOK /\ CallScoped /\ Recorded /\ ToldTheTruth

(* Setting a field of a delegate gives a delegate.                         *)
LEMMA FieldsTyped ==
  ASSUME NEW d \in Delegate, NEW b \in BOOLEAN, NEW e \in {"none", "broker_error", "error"}
  PROVE  /\ [d EXCEPT !.started = b] \in Delegate
         /\ [d EXCEPT !.misused = b] \in Delegate
         /\ [d EXCEPT !.active = b] \in Delegate
         /\ [d EXCEPT !.completed = b, !.error = e] \in Delegate
<1>1. [d EXCEPT !.started = b] \in Delegate
  BY Zenon DEF Delegate
<1>2. [d EXCEPT !.misused = b] \in Delegate
  BY Zenon DEF Delegate
<1>3. [d EXCEPT !.active = b] \in Delegate
  BY Zenon DEF Delegate
<1>4. [d EXCEPT !.completed = b, !.error = e] \in Delegate
  BY Zenon DEF Delegate
<1>5. QED
  BY <1>1, <1>2, <1>3, <1>4

LEMMA LiveInitInv == LiveInit => LiveInv
BY NobodyAssumption
   DEF LiveInit, LiveInv, LiveTypeOK, Delegate, Thread, Answer, CallScoped, Recorded, ToldTheTruth, NoDelegate

(* One step keeps the invariant: what is answered is out of reach, because *)
(* only an active delegate is admitted and close expires it first.         *)
LEMMA LiveStep == LiveInv /\ [LiveNext]_livevars => LiveInv'
<1> SUFFICES ASSUME LiveInv, [LiveNext]_livevars PROVE LiveInv'
  OBVIOUS
<1> USE NobodyAssumption DEF LiveInv
<1>1. ASSUME NEW t \in Threads, NEW w \in Writes, Begin(t, w) PROVE LiveInv'
  <2>1. LiveTypeOK'
    BY <1>1 DEF Begin, NoDelegate, LiveTypeOK, Delegate, Thread, Answer, CallScoped
  <2>2. CallScoped'
    BY <1>1 DEF Begin, NoDelegate, LiveTypeOK, Delegate, Thread, Answer, CallScoped, Recorded
  <2>3. Recorded'
    BY <1>1 DEF Begin, NoDelegate, LiveTypeOK, Delegate, Thread, Answer, CallScoped, Recorded
  <2>4. ToldTheTruth'
    BY <1>1 DEF Begin, NoDelegate, LiveTypeOK, Delegate, Thread, Answer, CallScoped, Recorded, ToldTheTruth
  <2>5. QED
    BY <2>1, <2>2, <2>3, <2>4
<1>2. ASSUME NEW t \in Threads, NEW w \in Writes, CallAdmitted(t, w) PROVE LiveInv'
  <2>1. LiveTypeOK'
    <3>1. [delegate[w] EXCEPT !.started = TRUE] \in Delegate
      BY FieldsTyped DEF LiveTypeOK
    <3>2. delegate' = [delegate EXCEPT ![w] = [delegate[w] EXCEPT !.started = TRUE]]
      BY <1>2 DEF CallAdmitted
    <3>3. QED
      BY <1>2, <3>1, <3>2 DEF CallAdmitted, LiveTypeOK, Thread
  <2>2. CallScoped'
    BY <1>2 DEF CallAdmitted, Admits, LiveTypeOK, Delegate, Thread, Answer, CallScoped, Recorded
  <2>3. Recorded'
    BY <1>2 DEF CallAdmitted, Admits, LiveTypeOK, Delegate, Thread, Answer, CallScoped, Recorded
  <2>4. ToldTheTruth'
    BY <1>2 DEF CallAdmitted, Admits, LiveTypeOK, Delegate, Thread, Answer, CallScoped, Recorded, ToldTheTruth
  <2>5. QED
    BY <2>1, <2>2, <2>3, <2>4
<1>3. ASSUME NEW t \in Threads, NEW w \in Writes, CallRefused(t, w) PROVE LiveInv'
  <2>1. LiveTypeOK'
    <3>1. [delegate[w] EXCEPT !.misused = TRUE] \in Delegate
      BY FieldsTyped DEF LiveTypeOK
    <3>2. delegate' = [delegate EXCEPT ![w] = [delegate[w] EXCEPT !.misused = TRUE]]
      BY <1>3 DEF CallRefused
    <3>3. QED
      BY <1>3, <3>1, <3>2 DEF CallRefused, LiveTypeOK, Thread
  <2>2. CallScoped'
    BY <1>3 DEF CallRefused, LiveTypeOK, Delegate, Thread, Answer, CallScoped, Recorded
  <2>3. Recorded'
    BY <1>3 DEF CallRefused, LiveTypeOK, Delegate, Thread, Answer, CallScoped, Recorded
  <2>4. ToldTheTruth'
    BY <1>3 DEF CallRefused, LiveTypeOK, Delegate, Thread, Answer, CallScoped, Recorded, ToldTheTruth
  <2>5. QED
    BY <2>1, <2>2, <2>3, <2>4
<1>4. ASSUME NEW t \in Threads, NEW o \in {"result", "broker_error", "error", "left"},
             RawActs(t, o)
      PROVE LiveInv'
  <2>1. LiveTypeOK'
    BY <1>4 DEF RawActs, LiveTypeOK, Delegate, Thread, Answer, CallScoped
  <2>2. CallScoped'
    BY <1>4 DEF RawActs, LiveTypeOK, Delegate, Thread, Answer, CallScoped, Recorded
  <2>3. Recorded'
    BY <1>4 DEF RawActs, LiveTypeOK, Delegate, Thread, Answer, CallScoped, Recorded
  <2>4. ToldTheTruth'
    BY <1>4 DEF RawActs, LiveTypeOK, Delegate, Thread, Answer, CallScoped, Recorded, ToldTheTruth
  <2>5. QED
    BY <2>1, <2>2, <2>3, <2>4
<1>5. ASSUME NEW t \in Threads, RecordCall(t) PROVE LiveInv'
  <2>1. LiveTypeOK'
    <3> DEFINE w == thread[t].write
               e == IF raw[w] \in {"broker_error", "error"} THEN raw[w] ELSE "none"
               d == [delegate[w] EXCEPT !.completed = (raw[w] = "result"), !.error = e]
    <3>1. w \in Writes /\ delegate[w] \in Delegate
      BY <1>5 DEF RecordCall, CallScoped, LiveTypeOK
    <3>2. e \in {"none", "broker_error", "error"} /\ (raw[w] = "result") \in BOOLEAN
      OBVIOUS
    <3>3. d \in Delegate
      BY <3>1, <3>2, FieldsTyped
    <3>4. delegate' = [delegate EXCEPT ![w] = d]
      BY <1>5 DEF RecordCall
    <3>5. thread' \in [Threads -> Thread]
      BY <1>5 DEF RecordCall, LiveTypeOK, Thread, Answer
    <3>6. QED
      BY <1>5, <3>1, <3>3, <3>4, <3>5 DEF RecordCall, LiveTypeOK
  <2>2. CallScoped'
    <3>1. \A v \in Writes : delegate'[v].active = delegate[v].active
                            /\ delegate'[v].owner = delegate[v].owner
      BY <1>5 DEF RecordCall, LiveTypeOK, Delegate
    <3>2. \A u \in Threads : /\ thread'[u].write = thread[u].write
                             /\ thread'[u].pc = "idle" <=> thread[u].pc = "idle"
      BY <1>5 DEF RecordCall, LiveTypeOK, Thread
    <3>3. answer' = answer
      BY <1>5 DEF RecordCall
    <3>4. ASSUME NEW v \in Writes, delegate'[v].active
          PROVE  /\ delegate'[v].owner \in Threads
                 /\ thread'[delegate'[v].owner].write = v
                 /\ thread'[delegate'[v].owner].pc # "idle"
                 /\ answer'[v] = "none"
      BY <3>1, <3>2, <3>3, <3>4 DEF CallScoped
    <3>5. ASSUME NEW u \in Threads, thread'[u].pc # "idle"
          PROVE  /\ thread'[u].write \in Writes
                 /\ delegate'[thread'[u].write].owner = u
                 /\ delegate'[thread'[u].write].active
      BY <3>1, <3>2, <3>5 DEF CallScoped
    <3>6. QED
      BY <3>4, <3>5 DEF CallScoped
  <2>3. Recorded'
    BY <1>5 DEF RecordCall, LiveTypeOK, Delegate, Thread, Answer, CallScoped, Recorded
  <2>4. ToldTheTruth'
    BY <1>5 DEF RecordCall, LiveTypeOK, Delegate, Thread, Answer, CallScoped, Recorded, ToldTheTruth
  <2>5. QED
    BY <2>1, <2>2, <2>3, <2>4
<1>6. ASSUME NEW t \in Threads, NEW returned, NEW raised, GuardEnds(t, returned, raised)
      PROVE LiveInv'
  <2>1. LiveTypeOK'
    <3> DEFINE w == thread[t].write
               d == [delegate[w] EXCEPT !.active = FALSE]
    <3>1. w \in Writes /\ delegate[w] \in Delegate
      BY <1>6 DEF GuardEnds, CallScoped, LiveTypeOK
    <3>2. d \in Delegate
      BY <3>1, FieldsTyped
    <3>3. delegate' = [delegate EXCEPT ![w] = d]
      BY <1>6 DEF GuardEnds
    <3>4. thread' \in [Threads -> Thread] /\ answer' \in [Writes -> Answer]
      BY <1>6 DEF GuardEnds, Resolve, LiveTypeOK, Thread, Answer
    <3>5. QED
      BY <1>6, <3>1, <3>2, <3>3, <3>4 DEF GuardEnds, LiveTypeOK
  <2>2. CallScoped'
    BY <1>6 DEF GuardEnds, Resolve, LiveTypeOK, Delegate, Thread, Answer, CallScoped, Recorded
  <2>3. Recorded'
    BY <1>6 DEF GuardEnds, Resolve, LiveTypeOK, Delegate, Thread, Answer, CallScoped, Recorded
  <2>4. ToldTheTruth'
    BY <1>6 DEF GuardEnds, Resolve, LiveTypeOK, Delegate, Thread, Answer, CallScoped, Recorded, ToldTheTruth
  <2>5. QED
    BY <2>1, <2>2, <2>3, <2>4
<1>7. ASSUME NEW t \in Threads, GuardLeft(t) PROVE LiveInv'
  <2>1. LiveTypeOK'
    <3> DEFINE w == thread[t].write
               d == [delegate[w] EXCEPT !.active = FALSE]
    <3>1. w \in Writes /\ delegate[w] \in Delegate
      BY <1>7 DEF GuardLeft, CallScoped, LiveTypeOK
    <3>2. d \in Delegate
      BY <3>1, FieldsTyped
    <3>3. delegate' = [delegate EXCEPT ![w] = d]
      BY <1>7 DEF GuardLeft
    <3>4. thread' \in [Threads -> Thread] /\ answer' \in [Writes -> Answer]
      BY <1>7 DEF GuardLeft, LiveTypeOK, Thread, Answer
    <3>5. QED
      BY <1>7, <3>1, <3>2, <3>3, <3>4 DEF GuardLeft, LiveTypeOK
  <2>2. CallScoped'
    BY <1>7 DEF GuardLeft, LiveTypeOK, Delegate, Thread, Answer, CallScoped, Recorded
  <2>3. Recorded'
    BY <1>7 DEF GuardLeft, LiveTypeOK, Delegate, Thread, Answer, CallScoped, Recorded
  <2>4. ToldTheTruth'
    BY <1>7 DEF GuardLeft, LiveTypeOK, Delegate, Thread, Answer, CallScoped, Recorded, ToldTheTruth
  <2>5. QED
    BY <2>1, <2>2, <2>3, <2>4
<1>8. CASE UNCHANGED livevars
  BY <1>8 DEF livevars, LiveTypeOK, CallScoped, Recorded, ToldTheTruth
<1>9. QED
  BY <1>1, <1>2, <1>3, <1>4, <1>5, <1>6, <1>7, <1>8 DEF LiveNext

(* The caller of a guarded write is told the truth, in every behaviour.    *)
THEOREM LiveToldTheTruth == LiveSpec => []ToldTheTruth
<1>1. LiveInit => LiveInv
  BY LiveInitInv
<1>2. LiveInv /\ [LiveNext]_livevars => LiveInv'
  BY LiveStep
<1>3. LiveInv => ToldTheTruth
  BY DEF LiveInv
<1>4. QED
  BY <1>1, <1>2, <1>3, PTL DEF LiveSpec

-----------------------------------------------------------------------------
(***************************************************************************)
(* What the edges of the order lifecycle guarantee for every sequence of   *)
(* transitions.  The invariant says, for each state, which states lie      *)
(* behind it: what was certainly visited and what certainly was not.       *)
(***************************************************************************)
Refused == {"RISK_REJECTED", "APPROVAL_REJECTED", "APPROVAL_EXPIRED", "PRE_TRADE_REJECTED"}

\* What lies behind an order in each part of its life.
LifecycleInv ==
    /\ order \in States
    /\ order \notin WithBroker => visited \cap WithBroker = {}
    /\ order \notin Refused => visited \cap Refused = {}
    /\ order \in {"PROPOSAL_CREATED", "APPROVAL_PENDING", "APPROVED"} \cup WithBroker
         => "PROPOSAL_CREATED" \in visited
    /\ order \in {"APPROVAL_PENDING", "APPROVED"} \cup WithBroker => "APPROVAL_PENDING" \in visited
    /\ order \in {"APPROVED"} \cup WithBroker => "APPROVED" \in visited
    /\ order \in WithBroker => "SUBMITTING" \in visited

\* A new order has nothing behind it.
LEMMA LifecycleInitInv == LifecycleInit => LifecycleInv
  BY DEF LifecycleInit, LifecycleInv, States, WithBroker, Refused

\* Every transition that transition_order lets through keeps the invariant.
LEMMA LifecycleStepInv == LifecycleInv /\ [LifecycleNext]_lifecycle => LifecycleInv'
<1> SUFFICES ASSUME LifecycleInv, [LifecycleNext]_lifecycle PROVE LifecycleInv'
  OBVIOUS
<1>1. CASE UNCHANGED lifecycle
  BY <1>1 DEF LifecycleInv, lifecycle
<1>2. ASSUME NEW target \in States, Enter(target) PROVE LifecycleInv'
  <2>1. order' = target /\ visited' = visited \cup {target}
    BY <1>2 DEF Enter
  <2>2. CASE target = order
    <3>1. order' = order
      BY <2>1, <2>2
    <3>2. visited' \subseteq visited \cup {order} /\ visited \subseteq visited'
      BY <2>1, <2>2
    <3> QED
      BY <3>1, <3>2 DEF LifecycleInv, States, WithBroker, Refused
  <2>3. CASE <<order, target>> \in Edges
    BY <2>1, <2>3 DEF LifecycleInv, Edges, States, WithBroker, Refused
  <2> QED
    BY <1>2, <2>2, <2>3 DEF Enter, Allowed
<1> QED
  BY <1>1, <1>2 DEF LifecycleNext

\* ORDER_EDGES admit no way to the broker around the approval: ApprovedFirst holds
\* for every sequence of calls of transition_order.
THEOREM ApprovedFirstHolds == LifecycleSpec => []ApprovedFirst
<1>1. LifecycleInv => ApprovedFirst
  BY DEF LifecycleInv, ApprovedFirst, WithBroker, Refused
<1> QED
  BY LifecycleInitInv, LifecycleStepInv, <1>1, PTL DEF LifecycleSpec

\* ORDER_EDGES have no way back to SUBMITTING: SubmittedOnce holds for every
\* sequence of calls of transition_order.
THEOREM SubmittedOnceHolds == LifecycleSpec => SubmittedOnce
<1>1. LifecycleInv /\ [LifecycleNext]_lifecycle
        => [order # "SUBMITTING" /\ order' = "SUBMITTING" => "SUBMITTING" \notin visited]_lifecycle
  <2> SUFFICES ASSUME LifecycleInv, LifecycleNext, order # "SUBMITTING", order' = "SUBMITTING"
               PROVE "SUBMITTING" \notin visited
    OBVIOUS
  <2>1. PICK target \in States : Enter(target)
    BY DEF LifecycleNext
  <2>2. <<order, "SUBMITTING">> \in Edges
    BY <2>1 DEF Enter, Allowed
  <2>3. order = "APPROVED"
    BY <2>2 DEF Edges
  <2> QED
    BY <2>3 DEF LifecycleInv, WithBroker
<1> QED
  BY LifecycleInitInv, LifecycleStepInv, <1>1, PTL DEF LifecycleSpec, SubmittedOnce

-----------------------------------------------------------------------------
(***************************************************************************)
(* Durable transitions.  A call carries a step that _transition accepted;  *)
(* one whose commit has returned is stored.  The path of stored events is  *)
(* unbroken as long as every commit started at the stored state.           *)
(***************************************************************************)

TransSpec == TransInit /\ [][TransNext]_transvars

Records == [event : EventIds, before : CancelStates, after : CancelStates]

Calls == [stage : {"unit", "mark"}, event : EventIds, before : CancelStates, after : CancelStates]

Memories == [current : CancelStates \cup {NoLoad}, seen : SUBSET EventIds, call : Calls \cup {NoLoad}]

\* Where a trail has led after i events.
Reached(s, i) == IF i = 0 THEN "CANCEL_REQUESTED" ELSE s[i].after

IsStep(before, after) == after = before \/ after \in LegalTargets(before)

\* What holds of the stored events on their own.
TrailSound(r, s, l) ==
  /\ r = Reached(s, Len(s))
  /\ \A i \in DOMAIN s :
       /\ IsStep(s[i].before, s[i].after)
       /\ ~l => s[i].before = Reached(s, i - 1)
       /\ \A j \in DOMAIN s : s[i].event = s[j].event => i = j

CallSound(w) ==
  mem[w].call # NoLoad => /\ IsStep(mem[w].call.before, mem[w].call.after)
                          /\ mem[w].call.stage = "mark" => Stored(mem[w].call.event)

SeenStored(w) == \A event \in mem[w].seen : Stored(event)

TransInv ==
  /\ row \in CancelStates /\ trail \in Seq(Records) /\ lapse \in BOOLEAN
  /\ mem \in [Workers -> Memories]
  /\ TrailSound(row, trail, lapse)
  /\ \A w \in Workers : CallSound(w) /\ SeenStored(w)

\* Every allowed transition leads to a legal target.
LEMMA AllowedIsLegal ==
    ASSUME NEW current, NEW target, CancelAllowed(current, target)
    PROVE  target \in LegalTargets(current)
  BY DEF CancelAllowed, LegalTargets

LEMMA TransStarts == TransInit => TransInv
  <1> SUFFICES ASSUME TransInit PROVE TransInv OBVIOUS
  <1>1. row \in CancelStates /\ trail \in Seq(Records) /\ trail = <<>>
    BY DEF TransInit, CancelStates
  <1>6. lapse \in BOOLEAN BY Zenon DEF TransInit
  <1>2. Forgotten \in Memories BY DEF Forgotten, Memories
  <1>3. mem \in [Workers -> Memories] BY <1>2 DEF TransInit
  <1>4. ASSUME NEW w \in Workers PROVE CallSound(w) /\ SeenStored(w)
    BY DEF TransInit, Forgotten, CallSound, SeenStored
  <1>5. TrailSound(row, trail, lapse) BY DEF TransInit, TrailSound, Reached
  <1> QED BY Zenon, <1>1, <1>3, <1>4, <1>5, <1>6 DEF TransInv

\* One event more, from any state: the path stays unbroken if it starts where the
\* trail ended.
LEMMA TrailGrows ==
    ASSUME NEW s \in Seq(Records), NEW r, NEW l \in BOOLEAN, TrailSound(r, s, l),
           NEW e \in Records, IsStep(e.before, e.after),
           \A i \in DOMAIN s : s[i].event # e.event
    PROVE  /\ Append(s, e) \in Seq(Records)
           /\ TrailSound(e.after, Append(s, e), l \/ e.before # r)
  <1> DEFINE n == Len(s)
             t == Append(s, e)
  <1>1. /\ t \in Seq(Records) /\ Len(t) = n + 1 /\ n \in Nat
        /\ t[n + 1] = e /\ \A i \in 1..n : t[i] = s[i]
        /\ DOMAIN s = 1..n /\ DOMAIN t = 1..(n + 1)
    OBVIOUS
  <1> HIDE DEF t
  <1>2. r = Reached(s, n) BY Zenon DEF TrailSound
  <1>3. ASSUME NEW i \in 0..n PROVE Reached(t, i) = Reached(s, i) BY <1>1 DEF Reached
  <1>4. Reached(t, n + 1) = e.after BY <1>1 DEF Reached
  <1>5. ASSUME NEW i \in DOMAIN t
        PROVE  /\ IsStep(t[i].before, t[i].after)
               /\ ~(l \/ e.before # r) => t[i].before = Reached(t, i - 1)
               /\ \A j \in DOMAIN t : t[i].event = t[j].event => i = j
    <2>1. CASE i = n + 1
      <3>1. i - 1 = n /\ n \in 0..n BY <1>1, <2>1
      <3>2. Reached(t, i - 1) = r BY Zenon, <1>2, <1>3, <3>1
      <3>3. t[i] = e BY Zenon, <1>1, <2>1
      <3>4. ASSUME NEW j \in DOMAIN t, t[j].event = e.event PROVE j = i
        <4>1. j \in 1..n \/ j = n + 1 BY <1>1
        <4> QED BY Zenon, <1>1, <2>1, <3>4, <4>1
      <3> QED BY Zenon, <3>2, <3>3, <3>4
    <2>2. CASE i \in 1..n
      <3>1. i - 1 \in 0..n /\ i # n + 1 BY <1>1, <2>2
      <3>2. Reached(t, i - 1) = Reached(s, i - 1) BY Zenon, <1>3, <3>1
      <3>3. /\ IsStep(s[i].before, s[i].after)
            /\ ~l => s[i].before = Reached(s, i - 1)
            /\ \A j \in DOMAIN s : s[i].event = s[j].event => i = j
        BY Zenon, <1>1, <2>2 DEF TrailSound
      <3>4. t[i] = s[i] BY Zenon, <1>1, <2>2
      <3>5. ASSUME NEW j \in DOMAIN t, t[i].event = t[j].event PROVE i = j
        <4>1. j \in 1..n \/ j = n + 1 BY <1>1
        <4>2. CASE j \in 1..n BY Zenon, <1>1, <3>3, <3>4, <3>5, <4>2
        <4>3. CASE j = n + 1 BY Zenon, <1>1, <2>2, <3>4, <3>5, <4>3
        <4> QED BY Zenon, <4>1, <4>2, <4>3
      <3> QED BY Zenon, <3>2, <3>3, <3>4, <3>5
    <2>3. i = n + 1 \/ i \in 1..n BY <1>1
    <2> QED BY Zenon, <2>1, <2>2, <2>3
  <1>6. e.after = Reached(t, Len(t)) BY Zenon, <1>1, <1>4
  <1>7. TrailSound(e.after, t, l \/ e.before # r) BY Zenon, <1>5, <1>6 DEF TrailSound
  <1> QED BY Zenon, <1>1, <1>7 DEF t

\* A worker's memory changes and nothing is stored.
LEMMA MemoryKeeps ==
    ASSUME TransInv, NEW w \in Workers, NEW m \in Memories, mem' = [mem EXCEPT ![w] = m],
           row' = row, trail' = trail, lapse' = lapse,
           m.call # NoLoad => /\ IsStep(m.call.before, m.call.after)
                              /\ m.call.stage = "mark" => Stored(m.call.event),
           \A event \in m.seen : Stored(event)
    PROVE  TransInv'
  <1>0. mem \in [Workers -> Memories] /\ \A v \in Workers : CallSound(v) /\ SeenStored(v) BY Zenon DEF TransInv
  <1>1. mem' \in [Workers -> Memories] BY <1>0
  <1>2. ASSUME NEW event PROVE Stored(event)' <=> Stored(event) BY DEF Stored
  <1>3. ASSUME NEW v \in Workers PROVE CallSound(v)' /\ SeenStored(v)'
    <2>1. mem'[v] = IF v = w THEN m ELSE mem[v] BY <1>0
    <2>2. CASE v = w
      <3>1. mem'[v] = m BY Zenon, <2>1, <2>2
      <3> QED BY Zenon, <1>2, <3>1 DEF CallSound, SeenStored
    <2>3. CASE v # w
      <3>1. mem'[v] = mem[v] BY Zenon, <2>1, <2>3
      <3> QED BY Zenon, <1>0, <1>2, <3>1 DEF CallSound, SeenStored
    <2> QED BY Zenon, <2>2, <2>3
  <1>4. TrailSound(row, trail, lapse)' BY Zenon DEF TransInv, TrailSound
  <1>5. row' \in CancelStates /\ trail' \in Seq(Records) /\ lapse' \in BOOLEAN BY Zenon DEF TransInv
  <1> QED BY Zenon, <1>1, <1>3, <1>4, <1>5 DEF TransInv

\* A commit: the business state and the event are stored together.
LEMMA CommitStep ==
    ASSUME TransInv, NEW w \in Workers, CommitBoth(w)
    PROVE  TransInv'
  <1> DEFINE c == mem[w].call
             e == [event |-> c.event, before |-> c.before, after |-> c.after]
             m == [mem[w] EXCEPT !.call.stage = "mark"]
             Kept(event) == \E i \in DOMAIN trail' : trail'[i].event = event
  <1>0. /\ mem \in [Workers -> Memories] /\ row \in CancelStates
        /\ trail \in Seq(Records) /\ lapse \in BOOLEAN /\ TrailSound(row, trail, lapse)
        /\ \A v \in Workers : CallSound(v) /\ SeenStored(v)
    BY Zenon DEF TransInv
  <1>1. c # NoLoad /\ mem[w] \in Memories BY Zenon, <1>0 DEF CommitBoth, InStage
  <1>2. c \in Calls BY <1>1 DEF Memories
  <1>3. /\ e \in Records /\ e.event = c.event /\ e.before = c.before /\ e.after = c.after
    BY <1>2 DEF Records, Calls
  <1>4. /\ m \in Memories /\ m.seen = mem[w].seen
        /\ m.call.event = c.event /\ m.call.before = c.before /\ m.call.after = c.after
    BY <1>1, <1>2 DEF Memories, Calls
  <1>5. IsStep(c.before, c.after) BY Zenon, <1>0, <1>1 DEF CallSound
  <1>6. /\ row' = c.after /\ lapse' = (lapse \/ c.before # row)
        /\ ~Stored(c.event) /\ trail' = Append(trail, e) /\ mem' = [mem EXCEPT ![w] = m]
    BY <1>0 DEF CommitBoth, ApplyBusinessState, RecordStateChange
  <1> HIDE DEF c, e, m
  <1>7. \A i \in DOMAIN trail : trail[i].event # e.event BY Zenon, <1>3, <1>6 DEF Stored
  <1>8. IsStep(e.before, e.after) BY Zenon, <1>3, <1>5
  <1>9. Append(trail, e) \in Seq(Records) /\ TrailSound(e.after, Append(trail, e), lapse \/ e.before # row)
    BY <1>0, <1>3, <1>7, <1>8, TrailGrows
  <1>10. trail' \in Seq(Records) /\ TrailSound(row, trail, lapse)'
    <2>1. TrailSound(row', trail', lapse') BY Zenon, <1>3, <1>6, <1>9
    <2> QED BY Zenon, <1>6, <1>9, <2>1 DEF TrailSound, Reached
  <1>11. row' \in CancelStates /\ lapse' \in BOOLEAN
    <2>1. c.after \in CancelStates BY <1>2 DEF Calls
    <2>2. (lapse \/ c.before # row) \in BOOLEAN OBVIOUS
    <2> QED BY Zenon, <1>6, <2>1, <2>2
  <1>12. mem' \in [Workers -> Memories] BY <1>0, <1>4, <1>6
  <1>13. Kept(c.event) /\ \A event : Stored(event) => Kept(event)
    <2>1. /\ DOMAIN trail \subseteq DOMAIN trail' /\ \A i \in DOMAIN trail : trail'[i] = trail[i]
          /\ Len(trail) + 1 \in DOMAIN trail' /\ trail'[Len(trail) + 1] = e
      BY <1>0, <1>3, <1>6
    <2> QED BY Zenon, <1>3, <2>1 DEF Stored
  <1>14. ASSUME NEW event PROVE Kept(event) <=> Stored(event)' BY Zenon DEF Stored
  <1> HIDE DEF Kept
  <1>15. ASSUME NEW v \in Workers PROVE CallSound(v)' /\ SeenStored(v)'
    <2>1. mem'[v] = IF v = w THEN m ELSE mem[v] BY <1>0, <1>6
    <2>2. CASE v = w
      <3>1. mem'[v] = m BY Zenon, <2>1, <2>2
      <3>2. m.call # NoLoad => IsStep(m.call.before, m.call.after) /\ Kept(m.call.event)
        BY Zenon, <1>4, <1>5, <1>13
      <3>3. \A event \in m.seen : Kept(event) BY Zenon, <1>0, <1>4, <1>13 DEF SeenStored
      <3> QED BY Zenon, <1>14, <3>1, <3>2, <3>3 DEF CallSound, SeenStored
    <2>3. CASE v # w
      <3>1. mem'[v] = mem[v] BY Zenon, <2>1, <2>3
      <3> QED BY Zenon, <1>0, <1>13, <1>14, <3>1 DEF CallSound, SeenStored
    <2> QED BY Zenon, <2>2, <2>3
  <1> QED BY Zenon, <1>10, <1>11, <1>12, <1>15 DEF TransInv

LEMMA TransNextInv == TransInv /\ [TransNext]_transvars => TransInv'
  <1> SUFFICES ASSUME TransInv, [TransNext]_transvars PROVE TransInv' OBVIOUS
  <1>1. CASE UNCHANGED transvars
    <2>1. row' = row /\ trail' = trail /\ mem' = mem /\ lapse' = lapse BY <1>1 DEF transvars
    <2> QED BY Zenon, <2>1 DEF TransInv, TrailSound, CallSound, SeenStored, Stored
  <1>2. ASSUME NEW w \in Workers,
               LoadState(w) \/ (\E event \in EventIds, target \in CancelStates : Transition(w, event, target))
                 \/ RolledBack(w) \/ MarkSeen(w) \/ Restart(w)
        PROVE  TransInv'
    <2>0. /\ mem \in [Workers -> Memories] /\ mem[w] \in Memories /\ row \in CancelStates
          /\ CallSound(w) /\ SeenStored(w)
      BY Zenon DEF TransInv
    <2>1. CASE LoadState(w)
      <3> DEFINE m == [mem[w] EXCEPT !.current = row]
      <3>1. m \in Memories /\ m.seen = mem[w].seen /\ m.call = NoLoad /\ mem' = [mem EXCEPT ![w] = m]
        BY <2>0, <2>1 DEF LoadState, Memories
      <3>2. row' = row /\ trail' = trail /\ lapse' = lapse BY <2>1 DEF LoadState
      <3> HIDE DEF m
      <3> QED BY Zenon, <2>0, <3>1, <3>2, MemoryKeeps DEF SeenStored
    <2>2. ASSUME NEW event \in EventIds, NEW target \in CancelStates, Transition(w, event, target)
          PROVE  TransInv'
      <3> DEFINE c == [stage |-> "unit", event |-> event, before |-> mem[w].current, after |-> target]
                 m == [mem[w] EXCEPT !.call = c]
      <3>1. mem[w].current \in CancelStates BY <2>0, <2>2 DEF Transition, Memories
      <3>2. c \in Calls /\ c.stage # "mark" /\ c.before = mem[w].current /\ c.after = target BY <3>1 DEF Calls
      <3>3. IsStep(c.before, c.after) BY Zenon, <2>2, <3>2, AllowedIsLegal DEF Transition, IsStep
      <3>4. mem' = [mem EXCEPT ![w] = m] BY <2>0, <2>2 DEF Transition
      <3>5. row' = row /\ trail' = trail /\ lapse' = lapse BY <2>2 DEF Transition
      <3> HIDE DEF c
      <3>6. m \in Memories /\ m.seen = mem[w].seen /\ m.call = c BY <2>0, <3>2 DEF Memories
      <3> HIDE DEF m
      <3> QED BY Zenon, <2>0, <3>2, <3>3, <3>4, <3>5, <3>6, MemoryKeeps DEF SeenStored
    <2>3. CASE RolledBack(w)
      <3> DEFINE m == [mem[w] EXCEPT !.call = NoLoad]
      <3>1. m \in Memories /\ m.seen = mem[w].seen /\ m.call = NoLoad /\ mem' = [mem EXCEPT ![w] = m]
        BY <2>0, <2>3 DEF RolledBack, Memories
      <3>2. row' = row /\ trail' = trail /\ lapse' = lapse BY <2>3 DEF RolledBack
      <3> HIDE DEF m
      <3> QED BY Zenon, <2>0, <3>1, <3>2, MemoryKeeps DEF SeenStored
    <2>4. CASE MarkSeen(w)
      <3> DEFINE m == [current |-> mem[w].call.after, call |-> NoLoad,
                       seen |-> mem[w].seen \cup {mem[w].call.event}]
      <3>0. mem[w].call # NoLoad /\ mem[w].call.stage = "mark" BY Zenon, <2>4 DEF MarkSeen, InStage
      <3>1. mem[w].call \in Calls BY <2>0, <3>0 DEF Memories
      <3>2. m \in Memories /\ m.seen = mem[w].seen \cup {mem[w].call.event} /\ m.call = NoLoad
        BY <2>0, <3>1 DEF Memories, Calls
      <3>3. mem' = [mem EXCEPT ![w] = m] /\ row' = row /\ trail' = trail /\ lapse' = lapse
        BY <2>4 DEF MarkSeen
      <3>4. Stored(mem[w].call.event) BY Zenon, <2>0, <3>0 DEF CallSound
      <3> HIDE DEF m
      <3>5. \A event \in m.seen : Stored(event) BY Zenon, <2>0, <3>2, <3>4 DEF SeenStored
      <3> QED BY Zenon, <3>2, <3>3, <3>5, MemoryKeeps
    <2>5. CASE Restart(w)
      <3>1. Forgotten \in Memories /\ Forgotten.call = NoLoad /\ Forgotten.seen = {} BY DEF Forgotten, Memories
      <3>2. mem' = [mem EXCEPT ![w] = Forgotten] /\ row' = row /\ trail' = trail /\ lapse' = lapse
        BY <2>5 DEF Restart
      <3> QED BY Zenon, <3>1, <3>2, MemoryKeeps
    <2> QED BY Zenon, <1>2, <2>1, <2>2, <2>3, <2>4, <2>5
  <1> QED BY Zenon, <1>1, <1>2, CommitStep DEF TransNext

(* The stored state is always the one the stored events lead to, each      *)
(* event is stored once and is a step of the lifecycle, an event a process *)
(* would answer from memory is stored, and with live callers the events    *)
(* form one path: for any workers, events and number of restarts           *)
(* (AuditBackedStatePersistence.commit, _transition).                      *)
THEOREM TrailAlwaysExplains == TransSpec => []TrailExplains
  <1>1. TransInv => TrailExplains
    <2> SUFFICES ASSUME TransInv PROVE TrailExplains OBVIOUS
    <2>1. TrailSound(row, trail, lapse) /\ \A w \in Workers : SeenStored(w) BY Zenon DEF TransInv
    <2> QED BY <2>1 DEF TrailExplains, TrailSound, Reached, IsStep, SeenStored
  <1> QED BY <1>1, TransStarts, TransNextInv, PTL DEF TransSpec

-----------------------------------------------------------------------------
(***************************************************************************)
(* Health.  What is kept for a dependency is characterised by the set of   *)
(* observations alone: the highest sequence number, the newest time it was *)
(* observed at, and one verdict or a conflict.  An update keeps that       *)
(* characterisation, so arrival order leaves no trace.                     *)
(***************************************************************************)

Obs == [status : {"ready", "degraded", "not_ready"}, reason : {"none", "timeout", "unavailable", "starting"},
        at : Nat, sequence : Nat]
Kept == [status : {"ready", "degraded", "not_ready"},
         reason : {"none", "timeout", "unavailable", "starting", "observation_conflict"}, at : Nat, sequence : Nat]

\* The observations that have the sequence number of what is kept.
Level(k, S) == {o \in S : o.sequence = k.sequence}

Agree(k, S) == \A o \in Level(k, S) : o.status = k.status /\ o.reason = k.reason
Clash(k, S) ==
  /\ k.status = "not_ready" /\ k.reason = "observation_conflict"
  /\ \E o, p \in Level(k, S) : o.status # p.status \/ o.reason # p.reason

IsVerdict(k, S) ==
  /\ \A o \in S : o.sequence <= k.sequence
  /\ \A o \in Level(k, S) : o.at <= k.at
  /\ \E o \in Level(k, S) : o.at = k.at
  /\ Agree(k, S) \/ Clash(k, S)

HealthInv ==
  /\ dependencies \in [Specs -> Kept]
  /\ seen \in [Specs -> SUBSET Obs]
  /\ \A d \in Specs : IsVerdict(dependencies[d], seen[d] \cup {Starting})

LEMMA ObsAreKept == ASSUME NEW o \in Obs PROVE o \in Kept /\ o.reason # "observation_conflict"
  BY DEF Obs, Kept

LEMMA StartingTyped == Starting \in Obs
  BY DEF Starting, Obs

\* The verdict of a set of observations is what its characterisation says.
LEMMA VerdictIs ==
    ASSUME NEW S \in SUBSET Obs, NEW k \in Kept, IsVerdict(k, S)
    PROVE  k = Verdict(S)
  <1> DEFINE top == {o \in S : \A p \in S : p.sequence <= o.sequence}
             newest == CHOOSE t \in {o.at : o \in top} : \A o \in top : o.at <= t
             o1 == CHOOSE o \in top : TRUE
             clash == [status |-> "not_ready", reason |-> "observation_conflict",
                       at |-> newest, sequence |-> o1.sequence]
  <1>0. \A o \in S : o \in Obs /\ o.sequence \in Nat /\ o.at \in Nat BY DEF Obs
  <1>1. k.sequence \in Nat /\ k.at \in Nat BY DEF Kept
  <1>2. PICK o0 \in Level(k, S) : o0.at = k.at BY Zenon DEF IsVerdict
  <1>3. o0 \in S /\ o0.sequence = k.sequence BY Zenon, <1>2 DEF Level
  <1>4. top = Level(k, S)
    <2>1. ASSUME NEW o \in top PROVE o \in Level(k, S)
      <3>1. o \in S /\ k.sequence <= o.sequence BY Zenon, <1>3
      <3>2. o.sequence <= k.sequence BY Zenon, <3>1 DEF IsVerdict
      <3>3. o.sequence = k.sequence BY <1>0, <1>1, <3>1, <3>2
      <3> QED BY Zenon, <3>1, <3>3 DEF Level
    <2>2. ASSUME NEW o \in Level(k, S) PROVE o \in top
      BY Zenon, <2>2 DEF Level, IsVerdict
    <2> QED BY Zenon, <2>1, <2>2
  <1>5. o0 \in top BY Zenon, <1>2, <1>4
  <1>6. newest = k.at
    <2>1. k.at \in {o.at : o \in top} /\ \A o \in top : o.at <= k.at
      BY Zenon, <1>2, <1>4, <1>5 DEF IsVerdict
    <2>2. newest \in {o.at : o \in top} /\ \A o \in top : o.at <= newest BY Zenon, <2>1
    <2>3. PICK o \in top : newest = o.at BY Zenon, <2>2
    <2>4. newest <= k.at /\ k.at <= newest BY Zenon, <1>2, <1>5, <2>1, <2>2, <2>3
    <2> HIDE DEF newest, top
    <2>5. o \in S BY Zenon, <1>4, <2>3 DEF Level
    <2>6. newest \in Nat BY Zenon, <1>0, <2>3, <2>5
    <2> QED BY <1>1, <2>4, <2>6
  <1>7. o1 \in top BY Zenon, <1>5
  <1>8. o1 \in Obs /\ o1.sequence = k.sequence BY Zenon, <1>0, <1>4, <1>7 DEF Level
  <1>9. Verdict(S) = IF \A o \in top : o.status = o1.status /\ o.reason = o1.reason
                            THEN [o1 EXCEPT !.at = newest] ELSE clash
    BY Zenon DEF Verdict
  <1> HIDE DEF top, newest, o1
  <1>10. CASE Agree(k, S)
    <2>1. \A o \in top : o.status = k.status /\ o.reason = k.reason BY Zenon, <1>4, <1>10 DEF Agree
    <2>2. Verdict(S) = [o1 EXCEPT !.at = newest] BY Zenon, <1>7, <1>9, <2>1
    <2>3. o1.status = k.status /\ o1.reason = k.reason BY Zenon, <1>7, <2>1
    <2>4. k = [o1 EXCEPT !.at = newest] BY <1>6, <1>8, <2>3 DEF Obs, Kept
    <2> QED BY Zenon, <2>2, <2>4
  <1>11. CASE Clash(k, S)
    <2>1. \E o, p \in top : o.status # p.status \/ o.reason # p.reason BY Zenon, <1>4, <1>11 DEF Clash
    <2>2. Verdict(S) = clash BY Zenon, <1>9, <2>1
    <2>3. k.status = "not_ready" /\ k.reason = "observation_conflict" BY Zenon, <1>11 DEF Clash
    <2>4. k = clash BY <1>6, <1>8, <2>3 DEF Obs, Kept
    <2> QED BY Zenon, <2>2, <2>4
  <1> QED BY Zenon, <1>10, <1>11 DEF IsVerdict

\* What update keeps of an observation.
Updated(k, o) ==
  CASE o.sequence < k.sequence -> k
    [] o.sequence > k.sequence -> o
    [] o.sequence = k.sequence -> ResolveEqualSequence(k, o)

\* One more observation, whatever its sequence number.
LEMMA UpdateVerdict ==
    ASSUME NEW S \in SUBSET Obs, NEW k \in Kept, IsVerdict(k, S), NEW o \in Obs
    PROVE  Updated(k, o) \in Kept /\ IsVerdict(Updated(k, o), S \cup {o})
  <1> DEFINE T == S \cup {o}
  <1>0. \A p \in T : p.sequence \in Nat /\ p.at \in Nat BY DEF Obs
  <1>1. k.sequence \in Nat /\ k.at \in Nat /\ o.sequence \in Nat /\ o.at \in Nat BY DEF Kept, Obs
  <1>2. PICK o0 \in Level(k, S) : o0.at = k.at BY Zenon DEF IsVerdict
  <1>3. CASE o.sequence < k.sequence
    <2>1. Updated(k, o) = k BY <1>1, <1>3 DEF Updated
    <2>2. o.sequence # k.sequence /\ o.sequence <= k.sequence BY <1>1, <1>3
    <2>3. Level(k, T) = Level(k, S) BY Zenon, <2>2 DEF Level
    <2>4. IsVerdict(k, T) BY Zenon, <2>2, <2>3 DEF IsVerdict, Agree, Clash
    <2> QED BY Zenon, <2>1, <2>4
  <1>4. CASE o.sequence > k.sequence
    <2>1. Updated(k, o) = o BY <1>1, <1>4 DEF Updated
    <2>2. ASSUME NEW p \in S PROVE p.sequence <= o.sequence /\ p.sequence # o.sequence
      <3>1. p.sequence <= k.sequence BY Zenon DEF IsVerdict
      <3> QED BY <1>0, <1>1, <1>4, <3>1
    <2>3. o.sequence <= o.sequence /\ o.at <= o.at BY <1>1
    <2>4. Level(o, T) = {o} BY Zenon, <2>2 DEF Level
    <2>5. IsVerdict(o, T) BY Zenon, <2>2, <2>3, <2>4 DEF IsVerdict, Agree
    <2> QED BY Zenon, <2>1, <2>5, ObsAreKept
  <1>5. CASE o.sequence = k.sequence
    <2> DEFINE n == ResolveEqualSequence(k, o)
               t == Later(k.at, o.at)
    <2>1. Updated(k, o) = n BY <1>1, <1>5 DEF Updated
    <2>2. t \in Nat /\ k.at <= t /\ o.at <= t /\ (t = k.at \/ t = o.at) BY <1>1 DEF Later
    <2>3. n \in Kept /\ n.sequence = k.sequence /\ n.at = t
          /\ (k.status = o.status /\ k.reason = o.reason => n.status = k.status /\ n.reason = k.reason)
          /\ (~(k.status = o.status /\ k.reason = o.reason) =>
                n.status = "not_ready" /\ n.reason = "observation_conflict")
      <3> HIDE DEF t
      <3>1. CASE k.status = o.status /\ k.reason = o.reason
        <4>1. n = [k EXCEPT !.at = t] BY Zenon, <3>1 DEF ResolveEqualSequence, t
        <4> HIDE DEF n
        <4> QED BY <2>2, <3>1, <4>1 DEF Kept
      <3>2. CASE ~(k.status = o.status /\ k.reason = o.reason)
        <4>1. n = [status |-> "not_ready", reason |-> "observation_conflict", at |-> t, sequence |-> k.sequence]
          BY Zenon, <3>2 DEF ResolveEqualSequence, Conflict, t
        <4> HIDE DEF n
        <4> QED BY <1>1, <2>2, <3>2, <4>1 DEF Kept
      <3> QED BY Zenon, <3>1, <3>2
    <2> HIDE DEF n, t
    <2>4. Level(n, T) = Level(k, S) \cup {o} BY Zenon, <1>5, <2>3 DEF Level
    <2>5. \A p \in T : p.sequence <= n.sequence
      <3>1. k.sequence <= k.sequence BY <1>1
      <3> QED BY Zenon, <1>5, <2>3, <3>1 DEF IsVerdict
    <2>6. \A p \in Level(n, T) : p.at <= n.at
      <3>1. ASSUME NEW p \in Level(k, S) PROVE p.at <= t
        <4>1. p \in T /\ p.at <= k.at BY Zenon, <3>1 DEF Level, IsVerdict
        <4> QED BY <1>0, <1>1, <2>2, <4>1
      <3> QED BY Zenon, <2>2, <2>3, <2>4, <3>1
    <2>7. \E p \in Level(n, T) : p.at = n.at BY Zenon, <1>2, <2>2, <2>3, <2>4
    <2>8. Agree(n, T) \/ Clash(n, T)
      <3>1. CASE k.status = o.status /\ k.reason = o.reason
        <4>1. Agree(k, S) BY Zenon, <3>1, ObsAreKept DEF IsVerdict, Clash
        <4> QED BY Zenon, <2>3, <2>4, <3>1, <4>1 DEF Agree
      <3>2. CASE ~(k.status = o.status /\ k.reason = o.reason)
        <4>1. CASE Agree(k, S)
          <5>1. o0.status # o.status \/ o0.reason # o.reason BY Zenon, <1>2, <3>2, <4>1 DEF Agree
          <5> QED BY Zenon, <1>2, <2>3, <2>4, <3>2, <5>1 DEF Clash
        <4>2. CASE Clash(k, S) BY Zenon, <2>3, <2>4, <3>2, <4>2 DEF Clash
        <4> QED BY Zenon, <4>1, <4>2 DEF IsVerdict
      <3> QED BY Zenon, <3>1, <3>2
    <2>9. IsVerdict(n, T) BY Zenon, <2>5, <2>6, <2>7, <2>8 DEF IsVerdict
    <2> QED BY Zenon, <2>1, <2>3, <2>9
  <1>6. o.sequence < k.sequence \/ o.sequence > k.sequence \/ o.sequence = k.sequence BY <1>1
  <1> QED BY Zenon, <1>3, <1>4, <1>5, <1>6

LEMMA HealthStarts == HealthInit => HealthInv
  <1> SUFFICES ASSUME HealthInit PROVE HealthInv OBVIOUS
  <1> DEFINE s == Starting
  <1>1. s \in Kept /\ s \in Obs BY Zenon, StartingTyped, ObsAreKept
  <1> HIDE DEF s
  <1>2. IsVerdict(s, {s})
    <2>1. s.sequence <= s.sequence /\ s.at <= s.at BY <1>1 DEF Obs
    <2>2. Level(s, {s}) = {s} BY Zenon DEF Level
    <2> QED BY Zenon, <2>1, <2>2 DEF IsVerdict, Agree
  <1>3. dependencies = [d \in Specs |-> s] /\ seen = [d \in Specs |-> {}]
    BY Zenon DEF HealthInit, s
  <1>4. ASSUME NEW d \in Specs PROVE IsVerdict(dependencies[d], seen[d] \cup {s})
    <2>1. dependencies[d] = s /\ seen[d] \cup {s} = {s} BY <1>3
    <2> QED BY Zenon, <1>2, <2>1
  <1>5. dependencies \in [Specs -> Kept] /\ seen \in [Specs -> SUBSET Obs] BY <1>1, <1>3
  <1> QED BY Zenon, <1>4, <1>5 DEF HealthInv, s

LEMMA UpdateKeeps ==
    ASSUME HealthInv, NEW d \in Specs, NEW o \in Obs, Update(d, o)
    PROVE  HealthInv'
  <1> DEFINE k == dependencies[d]
             S == seen[d] \cup {Starting}
  <1>0. /\ dependencies \in [Specs -> Kept] /\ seen \in [Specs -> SUBSET Obs]
        /\ \A x \in Specs : IsVerdict(dependencies[x], seen[x] \cup {Starting})
    BY Zenon DEF HealthInv
  <1>1. S \in SUBSET Obs BY <1>0, StartingTyped
  <1>2. k \in Kept /\ IsVerdict(k, S) BY Zenon, <1>0
  <1>3. Updated(k, o) \in Kept /\ IsVerdict(Updated(k, o), S \cup {o}) BY Zenon, <1>1, <1>2, UpdateVerdict
  <1>4. /\ seen' = [seen EXCEPT ![d] = seen[d] \cup {o}]
        /\ dependencies' = [dependencies EXCEPT ![d] = Updated(k, o)]
    BY DEF Update, Updated
  <1>5. seen' \in [Specs -> SUBSET Obs] /\ dependencies' \in [Specs -> Kept]
    BY <1>0, <1>3, <1>4
  <1>6. ASSUME NEW x \in Specs PROVE IsVerdict(dependencies'[x], seen'[x] \cup {Starting})
    <2>1. CASE x = d
      <3>1. dependencies'[x] = Updated(k, o) BY <1>0, <1>4, <2>1
      <3>2. seen'[x] = seen[d] \cup {o} BY <1>0, <1>4, <2>1
      <3>3. seen'[x] \cup {Starting} = S \cup {o} BY Zenon, <3>2
      <3> QED BY Zenon, <1>3, <3>1, <3>3
    <2>2. CASE x # d
      <3>1. dependencies'[x] = dependencies[x] /\ seen'[x] = seen[x] BY <1>0, <1>4, <2>2
      <3> QED BY Zenon, <1>0, <3>1
    <2> QED BY Zenon, <2>1, <2>2
  <1>7. Starting' = Starting /\ Specs' = Specs
    BY Zenon DEF Starting, Specs
  <1> QED BY Zenon, <1>5, <1>6, <1>7 DEF HealthInv

LEMMA HealthNextInv == HealthInv /\ [HealthNext]_healthvars => HealthInv'
  <1> SUFFICES ASSUME HealthInv, [HealthNext]_healthvars PROVE HealthInv' OBVIOUS
  <1>1. ASSUME NEW d \in Specs, NEW o \in Observation, Update(d, o) PROVE HealthInv'
    <2>1. o \in Obs BY DEF Observation, Obs
    <2> QED BY Zenon, <1>1, <2>1, UpdateKeeps
  <1>2. ASSUME NEW d \in Specs, NEW n \in 0..MaxSequence, NEW t \in 0..MaxTime, RemoveDependency(d, n, t)
        PROVE  HealthInv'
    <2> DEFINE o == [status |-> "not_ready", reason |-> "unavailable", at |-> t, sequence |-> n]
    <2>1. o \in Obs BY DEF Obs
    <2>2. Update(d, o) BY Zenon, <1>2 DEF RemoveDependency
    <2> HIDE DEF o
    <2> QED BY Zenon, <2>1, <2>2, UpdateKeeps
  <1>3. ASSUME dependencies' = dependencies, seen' = seen PROVE HealthInv'
    BY Zenon, <1>3 DEF HealthInv, Specs, Starting
  <1>4. ASSUME NEW a \in BOOLEAN, SetApplicationAlive(a) PROVE HealthInv'
    BY Zenon, <1>3, <1>4 DEF SetApplicationAlive
  <1>5. ASSUME UNCHANGED healthvars PROVE HealthInv' BY Zenon, <1>3, <1>5 DEF healthvars
  <1> QED BY Zenon, <1>1, <1>2, <1>4, <1>5 DEF HealthNext

\* For any dependencies, sequence numbers and times: the readiness kept depends on
\* which observations arrived and not on their order (HealthAggregator.update).
THEOREM OrderNeverMatters == HealthSpec => []OrderFree
  <1>1. HealthInv => OrderFree
    <2> SUFFICES ASSUME HealthInv, NEW d \in Specs
                 PROVE dependencies[d] = Verdict(seen[d] \cup {Starting})
      BY Zenon DEF OrderFree
    <2>1. seen[d] \cup {Starting} \in SUBSET Obs BY StartingTyped DEF HealthInv
    <2> QED BY Zenon, <2>1, VerdictIs DEF HealthInv
  <1> QED BY <1>1, HealthStarts, HealthNextInv, PTL DEF HealthSpec

-----------------------------------------------------------------------------
(***************************************************************************)
(* Reconciliation.  Money moves in one kind of step only; that needs no    *)
(* invariant, just every way in which reconcile and its callers step.      *)
(***************************************************************************)

\* What the action property says of one step.
MoneyStep ==
  /\ book' # book => report = None /\ report'.outcome = "MATCHED"
  /\ report = None /\ report' # None =>
       alerts' = IF report'.outcome = "MANUAL_REVIEW" THEN alerts + 1 ELSE alerts

\* A report has the outcome it is made with.
LEMMA ReportedOutcome ==
    ASSUME NEW outcome, NEW codes, NEW new, Reported(outcome, codes, new)
    PROVE  report'.outcome = outcome
  <1>1. report' = [outcome |-> outcome, codes |-> codes, new |-> new] BY Zenon DEF Reported
  <1> QED BY <1>1

\* A review is alerted once; with the book left alone it moves no money.
LEMMA ReviewStep ==
    ASSUME NEW codes, Review(codes), book' = book
    PROVE  MoneyStep
  <1>1. report'.outcome = "MANUAL_REVIEW" BY Zenon, ReportedOutcome DEF Review
  <1>2. alerts' = alerts + 1 BY Zenon DEF Review
  <1> QED BY Zenon, <1>1, <1>2 DEF MoneyStep

\* A report of another outcome emits no alert.
LEMMA QuietStep ==
    ASSUME NEW outcome, NEW codes, NEW new, Reported(outcome, codes, new), alerts' = alerts,
           outcome # "MANUAL_REVIEW", report = None, book' # book => outcome = "MATCHED"
    PROVE  MoneyStep
  <1>1. report'.outcome = outcome BY Zenon, ReportedOutcome
  <1> QED BY Zenon, <1>1 DEF MoneyStep

\* A step that makes no report moves no money.
LEMMA NoReportStep ==
    ASSUME book' = book, report' = report \/ report' = None
    PROVE  MoneyStep
  BY Zenon DEF MoneyStep

LEMMA EveryMoneyStep == [Next]_vars => [MoneyStep]_vars
  <1> SUFFICES ASSUME Next PROVE MoneyStep BY Zenon
  <1>1. ASSUME NEW f \in Fills, Execute(f) PROVE MoneyStep
    BY Zenon, <1>1, NoReportStep DEF Execute
  <1>2. ASSUME ReadOrders PROVE MoneyStep BY Zenon, <1>2, NoReportStep DEF ReadOrders
  <1>3. ASSUME ReadFills PROVE MoneyStep BY Zenon, <1>3, NoReportStep DEF ReadFills
  <1>4. ASSUME NoSingleOrder PROVE MoneyStep
    <2>1. book' = book /\ report = None BY Zenon, <1>4 DEF NoSingleOrder, Ready
    <2>2. \/ \E codes : Review(codes)
          \/ Reported("UNKNOWN", {"MISSING_BROKER_ORDER"}, {}) /\ alerts' = alerts
      BY Zenon, <1>4 DEF NoSingleOrder
    <2>3. "UNKNOWN" # "MANUAL_REVIEW" OBVIOUS
    <2> QED BY Zenon, <2>1, <2>2, <2>3, ReviewStep, QuietStep
  <1>5. ASSUME Compare PROVE MoneyStep
    <2>1. report = None BY Zenon, <1>5 DEF Compare, Ready
    <2>2. \/ (\E codes : Review(codes)) /\ book' = book
          \/ alerts' = alerts /\ \E new : Reported("MATCHED", {}, new)
      BY Zenon, <1>5 DEF Compare, Restored
    <2>3. "MATCHED" # "MANUAL_REVIEW" OBVIOUS
    <2> QED BY Zenon, <2>1, <2>2, <2>3, ReviewStep, QuietStep
  <1>6. ASSUME FindUnknownBrokerOrders PROVE MoneyStep
    BY Zenon, <1>6, NoReportStep DEF FindUnknownBrokerOrders
  <1>7. ASSUME SaveReport PROVE MoneyStep BY Zenon, <1>7, NoReportStep DEF SaveReport
  <1>8. ASSUME LoseReport PROVE MoneyStep BY Zenon, <1>8, NoReportStep DEF LoseReport
  <1> QED BY Zenon, <1>1, <1>2, <1>3, <1>4, <1>5, <1>6, <1>7, <1>8 DEF Next

\* For any order, listings and fills: the ledger changes only in a step that reports a
\* match, and a report is alerted, once, exactly if it asks for a review (reconcile).
THEOREM MoneyMovesOnMatch == Spec => ReviewLeavesMoney
  <1>1. [MoneyStep]_vars =>
          [/\ book' # book => report = None /\ report'.outcome = "MATCHED"
           /\ report = None /\ report' # None =>
                alerts' = IF report'.outcome = "MANUAL_REVIEW" THEN alerts + 1 ELSE alerts]_vars
    BY Zenon DEF MoneyStep
  <1> QED BY <1>1, EveryMoneyStep, PTL DEF Spec, ReviewLeavesMoney
=============================================================================
