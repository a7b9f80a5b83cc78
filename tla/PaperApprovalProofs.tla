------------------------ MODULE PaperApprovalProofs ------------------------
(***************************************************************************)
(* The safety of the approval path for every set of workers, proposals,    *)
(* messages and risk decisions, and every time bound.                      *)
(***************************************************************************)
EXTENDS PaperApproval, TLAPS

\* The row types stand for their columns in every proof.
USE DEF ProposalRow, ChallengeRow, EventRow, BindingRow, OutboxRow

Settling == {"APPROVED", "REJECTED", "EXPIRED"}

\* A challenge that is not settled has left nothing behind.
OpenIsClean ==
    \A p \in Proposals :
      /\ challenge[p].status \notin Settling => events[p] = {} /\ outbox[p] = None
      /\ challenge[p].status = "NONE" => binding[p] = None

\* An approval was given in time, and a press was on the bound message.
EventsSound ==
    \A p \in Proposals : \A e \in events[p] :
      /\ e.outcome = "APPROVED" => e.at < challenge[p].expires /\ e.at < proposal[p].expires
      /\ e.m # None => e.m = binding[p] /\ challenge[p].method = "telegram"

\* An outbox row comes from an approved press.
OutboxSound ==
    \A p \in Proposals :
      outbox[p] # None => \E e \in events[p] : e.outcome = "APPROVED" /\ e.m # None

\* What a result says of the broker's answer.
Truthful(result, p) ==
    /\ result = "SUCCEEDED" => book[p] = "ACCEPTED"
    /\ result = "REJECTED" => book[p] = "REJECTED"

\* Definite results that processes remember are the broker's answers.
StoreSound == \A w \in Workers, p \in Proposals : Truthful(store[w][p], p)

Holding(j) == j.stage \in {"locked", "dispatched"}

\* A worker past its clock read works on an issued challenge; one that loaded a
\* press has checked it; one that holds a row holds an open one; the result it
\* carries is the broker's answer.
JobSound(j) ==
    /\ j.stage # "idle" => j.p \in Proposals /\ challenge[j.p].status # "NONE"
    /\ j.stage = "loaded" /\ j.m # None =>
         j.m = binding[j.p] /\ challenge[j.p].method = "telegram"
    /\ j.stage = "consume" => outbox[j.p] # None
    /\ Holding(j) => outbox[j.p] = "PENDING"
    /\ j.stage = "dispatched" => j.result \in Results /\ Truthful(j.result, j.p)

JobsSound == \A w \in Workers : JobSound(job[w])

\* At most one worker holds a row.
LockExclusive ==
    \A v, w \in Workers :
      Holding(job[v]) /\ Holding(job[w]) /\ job[v].p = job[w].p => v = w

\* The broker's memory counts its orders, and an order has an outbox row.
BrokerSound ==
    \A p \in Proposals :
      /\ orders[p] = IF book[p] = "ACCEPTED" THEN 1 ELSE 0
      /\ orders[p] > 0 => outbox[p] # None

\* The audit trail agrees with the outbox and with the broker's memory.
AuditSound ==
    \A p \in Proposals :
      /\ outbox[p] = "CONSUMED" <=> audit[p] # {}
      /\ \A a, b \in audit[p] : a = b
      /\ "DISPATCHED" \in audit[p] => book[p] = "ACCEPTED"
      /\ "EXECUTION_REJECTED" \in audit[p] => book[p] = "REJECTED"

\* The part of the invariant that speaks of the database and the broker alone.
DataInv ==
    /\ OneDecision
    /\ OpenIsClean
    /\ EventsSound
    /\ OutboxSound
    /\ BrokerSound
    /\ AuditSound
    /\ RiskUsedOnce

\* The part that speaks of what the workers know.
WorkerInv ==
    /\ JobsSound
    /\ LockExclusive
    /\ StoreSound

IInv == TypeOK /\ DataInv /\ WorkerInv

-----------------------------------------------------------------------------

\* The initial state satisfies the inductive invariant.
LEMMA InitInv == Init => IInv
<1> SUFFICES ASSUME Init PROVE IInv
  OBVIOUS
<1>1. TypeOK
  BY TimesAreNatural DEF Init, TypeOK, JobType, Idle, Statuses, Methods, Stages
<1>2. DataInv
  <2>1. OneDecision
    BY DEF Init, OneDecision
  <2>2. OpenIsClean /\ EventsSound /\ OutboxSound
    BY DEF Init, OpenIsClean, EventsSound, OutboxSound
  <2>3. BrokerSound
    BY NoneIsNoValue DEF Init, BrokerSound, Answers
  <2>4. AuditSound
    BY NoneIsNoValue DEF Init, AuditSound
  <2>5. RiskUsedOnce
    BY DEF Init, RiskUsedOnce
  <2> QED
    BY <2>1, <2>2, <2>3, <2>4, <2>5 DEF DataInv
<1>3. WorkerInv
  BY NoneIsNoValue DEF Init, WorkerInv, JobsSound, LockExclusive, StoreSound, Truthful, JobSound, Holding, Idle, Results
<1> QED
  BY <1>1, <1>2, <1>3 DEF IInv

\* A step that writes neither the database nor the broker keeps their part.
LEMMA DataFrame == ASSUME DataInv, UNCHANGED <<database, broker>> PROVE DataInv'
  BY DEF DataInv, OneDecision, OpenIsClean, EventsSound, OutboxSound, BrokerSound, AuditSound,
         RiskUsedOnce, database, broker

\* A step in which one worker learns or forgets something and nothing else
\* changes keeps the invariant when the worker's new record is sound.
LEMMA JobStep ==
  ASSUME IInv, NEW w \in Workers, NEW k \in JobType,
         job' = [job EXCEPT ![w] = k],
         JobSound(k),
         Holding(k) => \A v \in Workers : Holding(job[v]) /\ job[v].p = k.p => v = w,
         UNCHANGED <<now, database, broker, store>>
  PROVE  IInv'
<1>1. TypeOK'
  BY DEF IInv, TypeOK, database, broker
<1>2. DataInv'
  BY DataFrame DEF IInv
<1>3. JobsSound'
  BY DEF IInv, TypeOK, WorkerInv, JobsSound, JobSound, Holding, Truthful, database, broker
<1>4. LockExclusive'
  BY DEF IInv, TypeOK, WorkerInv, LockExclusive, Holding
<1>5. StoreSound'
  BY DEF IInv, WorkerInv, StoreSound, Truthful, broker
<1> QED
  BY <1>1, <1>2, <1>3, <1>4, <1>5 DEF IInv, WorkerInv

\* A worker may always drop its work.
LEMMA GoIdle ==
  ASSUME IInv, NEW w \in Workers, job' = [job EXCEPT ![w] = Idle],
         UNCHANGED <<now, database, broker, store>>
  PROVE  IInv'
<1>1. Idle \in JobType
  BY DEF Idle, JobType, Stages
<1>2. JobSound(Idle) /\ ~Holding(Idle)
  BY DEF JobSound, Holding, Idle
<1> QED
  BY ZenonT(30), <1>1, <1>2, JobStep

\* Steps of the decision handlers that write nothing.
LEMMA DecisionReads ==
  ASSUME IInv, NEW w \in Workers,
         \/ \E p \in Proposals, m \in Messages \cup {None}, approved \in BOOLEAN :
              BeginDecision(w, p, m, approved)
         \/ LoadChallenge(w)
         \/ RefuseDecision(w)
         \/ LoseDecision(w)
  PROVE  IInv'
<1>1. ASSUME NEW p \in Proposals, NEW m \in Messages \cup {None}, NEW approved \in BOOLEAN,
             BeginDecision(w, p, m, approved)
      PROVE  IInv'
  <2> DEFINE k == [Idle EXCEPT !.stage = "clock", !.p = p, !.m = m, !.approved = approved,
                               !.at = now]
  <2>1. k \in JobType
    BY ZenonT(30) DEF IInv, TypeOK, Idle, JobType, Stages
  <2>2. JobSound(k) /\ ~Holding(k)
    BY ZenonT(30), <1>1 DEF BeginDecision, JobSound, Holding, Idle
  <2>3. job' = [job EXCEPT ![w] = k] /\ UNCHANGED <<now, database, broker, store>>
    BY ZenonT(30), <1>1 DEF BeginDecision
  <2> QED
    BY ZenonT(30), <2>1, <2>2, <2>3, JobStep
<1>2. CASE LoadChallenge(w)
  <2> DEFINE k == [job[w] EXCEPT !.stage = "loaded", !.version = challenge[job[w].p].version]
  <2>1. job[w] \in JobType /\ job[w].p \in Proposals /\ challenge[job[w].p].status # "NONE"
    BY <1>2 DEF LoadChallenge, IInv, TypeOK, WorkerInv, JobsSound, JobSound
  <2>2. k \in JobType
    BY ZenonT(30), <2>1 DEF IInv, TypeOK, JobType, Stages
  <2>3. JobSound(k) /\ ~Holding(k)
    BY <1>2, <2>1 DEF LoadChallenge, Decidable, JobSound, Holding, JobType
  <2>4. job' = [job EXCEPT ![w] = k] /\ UNCHANGED <<now, database, broker, store>>
    BY ZenonT(30), <1>2, <2>1 DEF LoadChallenge, IInv, TypeOK, JobType
  <2> QED
    BY ZenonT(30), <2>2, <2>3, <2>4, JobStep
<1>3. CASE RefuseDecision(w)
  BY ZenonT(30), <1>3, GoIdle DEF RefuseDecision
<1>4. CASE LoseDecision(w)
  BY ZenonT(30), <1>4, GoIdle DEF LoseDecision
<1> QED
  BY <1>1, <1>2, <1>3, <1>4

\* Steps of the outbox consumer that write nothing.
LEMMA ConsumeReads ==
  ASSUME IInv, NEW w \in Workers,
         \/ \E p \in Proposals : BeginHandoff(w, p)
         \/ SkipConsumed(w)
         \/ LockOutbox(w)
         \/ DispatchReplay(w)
         \/ RetryLater(w)
  PROVE  IInv'
<1>1. ASSUME NEW p \in Proposals, BeginHandoff(w, p) PROVE IInv'
  <2> DEFINE k == [Idle EXCEPT !.stage = "consume", !.p = p, !.at = now]
  <2>1. k \in JobType
    BY ZenonT(30) DEF IInv, TypeOK, Idle, JobType, Stages
  <2>2. JobSound(k) /\ ~Holding(k)
    BY ZenonT(30), <1>1 DEF BeginHandoff, JobSound, Holding, Idle, IInv, DataInv, OpenIsClean, Settling
  <2>3. job' = [job EXCEPT ![w] = k] /\ UNCHANGED <<now, database, broker, store>>
    BY ZenonT(30), <1>1 DEF BeginHandoff
  <2> QED
    BY ZenonT(30), <2>1, <2>2, <2>3, JobStep
<1>2. CASE SkipConsumed(w)
  BY ZenonT(30), <1>2, GoIdle DEF SkipConsumed
<1>3. CASE LockOutbox(w)
  <2> DEFINE k == [job[w] EXCEPT !.stage = "locked"]
  <2>1. job[w] \in JobType /\ job[w].p \in Proposals /\ challenge[job[w].p].status # "NONE"
    BY <1>3 DEF LockOutbox, IInv, TypeOK, WorkerInv, JobsSound, JobSound
  <2>2. k \in JobType
    BY <2>1 DEF JobType, Stages
  <2>3. JobSound(k)
    BY <1>3, <2>1 DEF LockOutbox, JobSound, Holding, JobType
  <2>4. \A v \in Workers : Holding(job[v]) /\ job[v].p = k.p => v = w
    BY <1>3, <2>1 DEF LockOutbox, Locked, Holding, JobType
  <2>5. job' = [job EXCEPT ![w] = k] /\ UNCHANGED <<now, database, broker, store>>
    BY <1>3, <2>1 DEF LockOutbox, IInv, TypeOK, JobType
  <2> QED
    BY ZenonT(30), <2>2, <2>3, <2>4, <2>5, JobStep
<1>4. CASE DispatchReplay(w)
  <2> DEFINE k == [job[w] EXCEPT !.stage = "dispatched", !.result = store[w][job[w].p]]
  <2>1. /\ job[w] \in JobType /\ job[w].p \in Proposals /\ challenge[job[w].p].status # "NONE"
        /\ Holding(job[w]) /\ outbox[job[w].p] = "PENDING"
    BY <1>4 DEF DispatchReplay, IInv, TypeOK, WorkerInv, JobsSound, JobSound, Holding
  <2>2. store[w][job[w].p] \in Results /\ Truthful(store[w][job[w].p], job[w].p)
    BY <1>4, <2>1 DEF DispatchReplay, IInv, TypeOK, WorkerInv, StoreSound
  <2>3. k \in JobType
    BY ZenonT(30), <2>1, <2>2 DEF JobType, Stages
  <2>4. k.stage = "dispatched" /\ k.p = job[w].p /\ k.m = job[w].m /\ k.result = store[w][job[w].p]
    BY <2>1 DEF JobType
  <2>5. JobSound(k)
    BY <2>1, <2>2, <2>4 DEF JobSound, Holding
  <2>6. \A v \in Workers : Holding(job[v]) /\ job[v].p = k.p => v = w
    BY <2>1, <2>4 DEF IInv, WorkerInv, LockExclusive
  <2>7. job' = [job EXCEPT ![w] = k] /\ UNCHANGED <<now, database, broker, store>>
    BY ZenonT(30), <1>4, <2>1 DEF DispatchReplay, Answered, IInv, TypeOK, JobType
  <2> QED
    BY ZenonT(30), <2>3, <2>5, <2>6, <2>7, JobStep
<1>5. CASE RetryLater(w)
  BY ZenonT(30), <1>5, GoIdle DEF RetryLater
<1> QED
  BY <1>1, <1>2, <1>3, <1>4, <1>5

\* The passage of time, a failed handler and a process that dies.
LEMMA EnvironmentSteps ==
  ASSUME IInv, Tick \/ \E w \in Workers : Abort(w) \/ Restart(w)
  PROVE  IInv'
<1>1. CASE Tick
  <2>1. TypeOK'
    BY <1>1 DEF IInv, TypeOK, Tick, database, broker
  <2>2. DataInv'
    BY <1>1, DataFrame DEF IInv, Tick
  <2>3. WorkerInv'
    BY <1>1 DEF IInv, WorkerInv, JobsSound, JobSound, Holding, Truthful, LockExclusive, StoreSound,
                Tick, database, broker
  <2> QED
    BY <2>1, <2>2, <2>3 DEF IInv
<1>2. ASSUME NEW w \in Workers, Abort(w) PROVE IInv'
  BY ZenonT(30), <1>2, GoIdle DEF Abort
<1>3. ASSUME NEW w \in Workers, Restart(w) PROVE IInv'
  <2>1. TypeOK'
    BY <1>3 DEF IInv, TypeOK, Restart, database, broker, JobType, Idle, Stages
  <2>2. DataInv'
    BY <1>3, DataFrame DEF IInv, Restart
  <2>3. JobsSound'
    BY <1>3 DEF IInv, TypeOK, WorkerInv, JobsSound, JobSound, Holding, Truthful, Restart, Idle,
                database, broker
  <2>4. LockExclusive'
    BY <1>3 DEF IInv, TypeOK, WorkerInv, LockExclusive, Holding, Restart, Idle
  <2>5. StoreSound'
    BY <1>3, NoneIsNoValue DEF IInv, TypeOK, WorkerInv, StoreSound, Truthful, Restart, broker, Results
  <2> QED
    BY <2>1, <2>2, <2>3, <2>4, <2>5 DEF IInv, WorkerInv
<1> QED
  BY <1>1, <1>2, <1>3

\* Issuing a challenge writes a fresh proposal and touches no other.
LEMMA CreateInv ==
  ASSUME IInv, NEW p \in Proposals, NEW r \in Risks, NEW method \in Methods,
         NEW ttl \in Ttls, NEW life \in Lives, Create(p, r, method, ttl, life)
  PROVE  IInv'
<1>1. TypeOK'
  BY TimesAreNatural DEF IInv, TypeOK, Create, broker, Statuses
<1>2. events[p] = {} /\ outbox[p] = None /\ binding[p] = None
  BY DEF IInv, DataInv, OpenIsClean, Create, Settling
<1>3. OneDecision'
  BY <1>2 DEF IInv, TypeOK, DataInv, OneDecision, Create
<1>4. OpenIsClean' /\ EventsSound' /\ OutboxSound'
  BY <1>2 DEF IInv, TypeOK, DataInv, OpenIsClean, EventsSound, OutboxSound, Create, Settling
<1>5. BrokerSound' /\ AuditSound'
  BY DEF IInv, DataInv, BrokerSound, AuditSound, Create, broker
<1>6. RiskUsedOnce'
  BY DEF IInv, TypeOK, DataInv, RiskUsedOnce, RiskUnused, Create
<1>7. JobsSound'
  BY DEF IInv, TypeOK, WorkerInv, JobsSound, JobSound, Holding, Truthful, Create, broker
<1>8. LockExclusive' /\ StoreSound'
  BY DEF IInv, WorkerInv, LockExclusive, StoreSound, Holding, Truthful, Create, broker
<1> QED
  BY <1>1, <1>3, <1>4, <1>5, <1>6, <1>7, <1>8 DEF IInv, DataInv, WorkerInv

\* Binding a delivery fills the binding of a pending challenge, once.
LEMMA BindInv ==
  ASSUME IInv, NEW p \in Proposals, NEW m \in Messages, BindDelivery(p, m)
  PROVE  IInv'
<1>1. TypeOK'
  BY DEF IInv, TypeOK, BindDelivery, broker
<1>2. events[p] = {}
  BY DEF IInv, DataInv, OpenIsClean, BindDelivery, Settling
<1>3. DataInv'
  BY <1>2 DEF IInv, TypeOK, DataInv, OneDecision, OpenIsClean, EventsSound, OutboxSound, BrokerSound,
              AuditSound, RiskUsedOnce, BindDelivery, broker
<1>4. JobsSound'
  BY DEF IInv, TypeOK, WorkerInv, JobsSound, JobSound, Holding, Truthful, BindDelivery, broker
<1>5. LockExclusive' /\ StoreSound'
  BY DEF IInv, WorkerInv, LockExclusive, StoreSound, Holding, Truthful, BindDelivery, broker
<1> QED
  BY <1>1, <1>3, <1>4, <1>5 DEF IInv, WorkerInv

\* When a worker goes idle while rows change, the other workers' records keep
\* their soundness if the rows they rely on still satisfy it.
LEMMA IdleLocks ==
  ASSUME TypeOK, LockExclusive, NEW w \in Workers, job' = [job EXCEPT ![w] = Idle]
  PROVE  LockExclusive'
  BY DEF TypeOK, LockExclusive, Holding, Idle

\* A committed decision settles the challenge with its one event.
LEMMA CommitDecisionInv ==
  ASSUME IInv, NEW w \in Workers, CommitDecision(w)
  PROVE  IInv'
<1> DEFINE j == job[w]
           o == Outcome(j)
           e == Event(o, j.at, j.m)
           p == j.p
           c == [status |-> StatusFor(o), method |-> challenge[p].method,
                 expires |-> challenge[p].expires, version |-> challenge[p].version + 1]
<1>1. /\ j \in JobType /\ p \in Proposals
      /\ j.m # None => j.m = binding[p] /\ challenge[p].method = "telegram"
      /\ challenge[p].status = "PENDING"
  BY DEF CommitDecision, Current, IInv, TypeOK, WorkerInv, JobsSound, JobSound
<1>2. events[p] = {} /\ outbox[p] = None
  BY <1>1 DEF IInv, DataInv, OpenIsClean, Settling
<1>3. o \in Outcomes
  BY DEF Outcome, Outcomes
<1>4. StatusFor(o) \in Settling /\ StatusFor(o) \in Statuses
  BY <1>3 DEF StatusFor, Outcomes, Settling, Statuses
<1>5. /\ e.outcome = o /\ e.at = j.at /\ e.m = j.m
      /\ e \in [outcome : Outcomes, at : Nat, m : Messages \cup {None}]
  BY <1>1, <1>3 DEF Event, JobType
<1>6. o = "APPROVED" => j.at < challenge[p].expires /\ j.at < proposal[p].expires
  BY <1>1 DEF Outcome, Expired, IInv, TypeOK, JobType
<1>7. /\ challenge' = [challenge EXCEPT ![p] = c]
      /\ events' = [events EXCEPT ![p] = {e}]
      /\ outbox' = [outbox EXCEPT ![p] = IF j.m # None /\ o = "APPROVED" THEN "PENDING" ELSE None]
      /\ job' = [job EXCEPT ![w] = Idle]
      /\ UNCHANGED <<now, proposal, binding, audit, book, orders, store>>
  BY <1>1, <1>2 DEF CommitDecision, broker, IInv, TypeOK
<1> HIDE DEF o, e
<1>8. /\ \A q \in Proposals : q # p => /\ challenge'[q] = challenge[q]
                                        /\ events'[q] = events[q]
                                        /\ outbox'[q] = outbox[q]
      /\ challenge'[p].status = StatusFor(o)
      /\ challenge'[p].method = challenge[p].method
      /\ challenge'[p].expires = challenge[p].expires
      /\ events'[p] = {e}
      /\ outbox'[p] = IF j.m # None /\ o = "APPROVED" THEN "PENDING" ELSE None
  BY <1>1, <1>7 DEF IInv, TypeOK
<1>9. TypeOK'
  <2>1. challenge' \in [Proposals ->
          [status : Statuses, method : Methods, expires : Nat, version : Nat]]
    <3>1. c \in [status : Statuses, method : Methods, expires : Nat, version : Nat]
      BY <1>1, <1>4 DEF IInv, TypeOK
    <3> QED
      BY ZenonT(30), <3>1, <1>7 DEF IInv, TypeOK
  <2>2. events' \in [Proposals -> SUBSET [outcome : Outcomes, at : Nat, m : Messages \cup {None}]]
    BY <1>1, <1>5, <1>7 DEF IInv, TypeOK
  <2>3. outbox' \in [Proposals -> {None, "PENDING", "CONSUMED"}]
    BY <1>1, <1>7 DEF IInv, TypeOK
  <2>4. job' \in [Workers -> JobType]
    BY <1>7 DEF IInv, TypeOK, JobType, Idle, Stages
  <2> QED
    BY <1>7, <2>1, <2>2, <2>3, <2>4 DEF IInv, TypeOK
<1>10. OneDecision'
  BY <1>5, <1>8 DEF IInv, DataInv, OneDecision
<1>11. OpenIsClean'
  BY <1>4, <1>7, <1>8 DEF IInv, DataInv, OpenIsClean, Settling
<1>12. EventsSound'
  <2> SUFFICES ASSUME NEW q \in Proposals, NEW f \in events'[q]
               PROVE  /\ f.outcome = "APPROVED" =>
                           f.at < challenge'[q].expires /\ f.at < proposal'[q].expires
                      /\ f.m # None => f.m = binding'[q] /\ challenge'[q].method = "telegram"
    BY DEF EventsSound
  <2>1. CASE q = p
    BY <2>1, <1>1, <1>5, <1>6, <1>7, <1>8
  <2>2. CASE q # p
    BY <2>2, <1>7, <1>8 DEF IInv, DataInv, EventsSound
  <2> QED
    BY <2>1, <2>2
<1>13. OutboxSound'
  BY <1>5, <1>7, <1>8 DEF IInv, DataInv, OutboxSound
<1>14. BrokerSound' /\ AuditSound' /\ RiskUsedOnce'
  BY <1>2, <1>7, <1>8, NoneIsNoValue DEF IInv, DataInv, BrokerSound, AuditSound, RiskUsedOnce
<1>15. JobsSound'
  <2> SUFFICES ASSUME NEW v \in Workers PROVE JobSound(job[v])'
    BY DEF JobsSound
  <2>1. CASE v = w
    BY <2>1, <1>7 DEF IInv, TypeOK, JobSound, Holding, Idle
  <2>2. CASE v # w
    <3>1. job'[v] = job[v] /\ JobSound(job[v])
      BY <2>2, <1>7 DEF IInv, TypeOK, WorkerInv, JobsSound
    <3>2. \A q \in Proposals :
            /\ challenge[q].status # "NONE" => challenge'[q].status # "NONE"
            /\ challenge'[q].method = challenge[q].method
            /\ outbox[q] # None => outbox'[q] = outbox[q]
      BY <1>2, <1>4, <1>8 DEF Settling
    <3> QED
      BY <3>1, <3>2, <1>7, NoneIsNoValue DEF JobSound, Holding, Truthful
  <2> QED
    BY <2>1, <2>2
<1>16. LockExclusive' /\ StoreSound'
  BY ZenonT(30), <1>7, IdleLocks DEF IInv, WorkerInv, StoreSound, Truthful
<1> QED
  BY <1>9, <1>10, <1>11, <1>12, <1>13, <1>14, <1>15, <1>16 DEF IInv, DataInv, WorkerInv

\* Consuming a row, by a policy rejection or with a terminal result: the row is
\* open and no other worker holds it, so the audit record is its only one.
LEMMA ConsumeStep ==
  ASSUME IInv, NEW w \in Workers, NEW d \in Dispositions,
         job[w].stage # "idle",
         \A v \in Workers : Holding(job[v]) /\ job[v].p = job[w].p => v = w,
         outbox[job[w].p] = "PENDING",
         d = "DISPATCHED" => book[job[w].p] = "ACCEPTED",
         d = "EXECUTION_REJECTED" => book[job[w].p] = "REJECTED",
         outbox' = [outbox EXCEPT ![job[w].p] = "CONSUMED"],
         audit' = [audit EXCEPT ![job[w].p] = @ \cup {d}],
         job' = [job EXCEPT ![w] = Idle],
         UNCHANGED <<now, proposal, challenge, binding, events, broker, store>>
  PROVE  IInv'
<1> DEFINE p == job[w].p
<1>1. p \in Proposals
  BY DEF IInv, WorkerInv, JobsSound, JobSound
<1>2. audit[p] = {}
  BY <1>1 DEF IInv, DataInv, AuditSound
<1>3. audit' = [audit EXCEPT ![p] = {d}]
  BY <1>1, <1>2 DEF IInv, TypeOK
<1>4. TypeOK'
  BY <1>1, <1>3 DEF IInv, TypeOK, broker, JobType, Idle, Stages
<1>5. OneDecision' /\ OpenIsClean' /\ EventsSound' /\ OutboxSound' /\ RiskUsedOnce'
  BY <1>1, NoneIsNoValue DEF IInv, TypeOK, DataInv, OneDecision, OpenIsClean, EventsSound, OutboxSound,
         RiskUsedOnce
<1>6. BrokerSound'
  BY <1>1, NoneIsNoValue DEF IInv, TypeOK, DataInv, BrokerSound, broker
<1>7. AuditSound'
  <2> SUFFICES ASSUME NEW q \in Proposals
               PROVE  /\ outbox'[q] = "CONSUMED" <=> audit'[q] # {}
                      /\ \A a, b \in audit'[q] : a = b
                      /\ "DISPATCHED" \in audit'[q] => book'[q] = "ACCEPTED"
                      /\ "EXECUTION_REJECTED" \in audit'[q] => book'[q] = "REJECTED"
    BY DEF AuditSound
  <2>1. CASE q = p
    <3>1. outbox'[q] = "CONSUMED" /\ audit'[q] = {d} /\ book' = book
      BY <2>1, <1>1, <1>3 DEF IInv, TypeOK, broker
    <3> QED
      BY <2>1, <3>1
  <2>2. CASE q # p
    BY <2>2, <1>3 DEF IInv, TypeOK, DataInv, AuditSound, broker
  <2> QED
    BY <2>1, <2>2
<1>8. JobsSound'
  <2> SUFFICES ASSUME NEW v \in Workers PROVE JobSound(job[v])'
    BY DEF JobsSound
  <2>1. CASE v = w
    BY <2>1 DEF IInv, TypeOK, JobSound, Holding, Idle
  <2>2. CASE v # w
    <3>1. job'[v] = job[v] /\ JobSound(job[v])
      BY <2>2 DEF IInv, TypeOK, WorkerInv, JobsSound
    <3>2. Holding(job[v]) => job[v].p # p
      BY <2>2
    <3> QED
      BY <3>1, <3>2, <1>1, NoneIsNoValue DEF IInv, TypeOK, JobSound, Holding, Truthful, broker
  <2> QED
    BY <2>1, <2>2
<1>9. LockExclusive' /\ StoreSound'
  BY ZenonT(30), IdleLocks DEF IInv, WorkerInv, StoreSound, Truthful, broker
<1> QED
  BY <1>4, <1>5, <1>6, <1>7, <1>8, <1>9 DEF IInv, DataInv, WorkerInv

\* The two ways a row is consumed.
LEMMA ConsumeWrites ==
  ASSUME IInv, NEW w \in Workers, PolicyReject(w) \/ CommitHandoff(w)
  PROVE  IInv'
<1>1. CASE PolicyReject(w)
  <2>1. \A v \in Workers : Holding(job[v]) /\ job[v].p = job[w].p => v = w
    BY <1>1 DEF PolicyReject, Locked, Holding
  <2> QED
    BY ZenonT(30), <1>1, <2>1, ConsumeStep DEF PolicyReject, Dispositions
<1>2. CASE CommitHandoff(w)
  <2> DEFINE d == IF job[w].result = "SUCCEEDED" THEN "DISPATCHED" ELSE "EXECUTION_REJECTED"
  <2>1. job[w].result \in {"SUCCEEDED", "REJECTED"} /\ Truthful(job[w].result, job[w].p)
    BY <1>2 DEF CommitHandoff, Terminal, IInv, WorkerInv, JobsSound, JobSound, Results
  <2>2. /\ d \in Dispositions
        /\ d = "DISPATCHED" => book[job[w].p] = "ACCEPTED"
        /\ d = "EXECUTION_REJECTED" => book[job[w].p] = "REJECTED"
    BY <2>1 DEF Truthful, Dispositions
  <2>3. \A v \in Workers : Holding(job[v]) /\ job[v].p = job[w].p => v = w
    BY <1>2 DEF CommitHandoff, IInv, WorkerInv, LockExclusive, Holding
  <2> QED
    BY ZenonT(30), <1>2, <2>2, <2>3, ConsumeStep DEF CommitHandoff
<1> QED
  BY <1>1, <1>2

\* A submit changes the broker only for its own proposal, and only from a
\* blank memory.
LEMMA SubmitEffect ==
  ASSUME IInv, NEW p \in Proposals, NEW answer \in Answers, Submit(p, answer)
  PROVE  /\ book' \in [Proposals -> Answers \cup {None}]
         /\ orders' \in [Proposals -> Nat]
         /\ book'[p] = answer
         /\ \A q \in Proposals : book[q] # None \/ q # p => book'[q] = book[q] /\ orders'[q] = orders[q]
         /\ \A q \in Proposals : orders'[q] = IF book'[q] = "ACCEPTED" THEN 1 ELSE 0
<1>1. CASE UNCHANGED broker /\ answer = book[p]
  BY <1>1 DEF IInv, TypeOK, DataInv, BrokerSound, broker
<1>2. CASE book[p] = None /\ book' = [book EXCEPT ![p] = answer] /\ answer = "REJECTED" /\ UNCHANGED orders
  BY <1>2, NoneIsNoValue DEF IInv, TypeOK, DataInv, BrokerSound, Answers
<1>3. CASE /\ book[p] = None /\ book' = [book EXCEPT ![p] = answer] /\ answer = "ACCEPTED"
           /\ orders' = [orders EXCEPT ![p] = @ + 1]
  BY <1>3, NoneIsNoValue DEF IInv, TypeOK, DataInv, BrokerSound, Answers
<1> QED
  BY <1>1, <1>2, <1>3 DEF Submit

\* A step of the worker that holds a row, in which the broker may answer a
\* submit, keeps the invariant when what the worker remembers is truthful.
LEMMA BrokerStep ==
  ASSUME IInv, NEW w \in Workers, job[w].stage = "locked",
         UNCHANGED broker \/ \E answer \in Answers : Submit(job[w].p, answer),
         NEW k \in JobType, job' = [job EXCEPT ![w] = k],
         k = Idle \/ /\ k.stage = "dispatched" /\ k.p = job[w].p /\ k.m = job[w].m
                     /\ k.result \in Results /\ Truthful(k.result, k.p)',
         store' \in [Workers -> [Proposals -> Results \cup {None}]],
         \A v \in Workers, q \in Proposals :
           store'[v][q] = store[v][q] \/ Truthful(store[v][q], q)',
         UNCHANGED <<now, database>>
  PROVE  IInv'
<1> DEFINE p == job[w].p
<1>1. p \in Proposals /\ outbox[p] = "PENDING" /\ challenge[p].status # "NONE"
  BY DEF IInv, WorkerInv, JobsSound, JobSound, Holding
<1>2. /\ book' \in [Proposals -> Answers \cup {None}]
      /\ orders' \in [Proposals -> Nat]
      /\ \A q \in Proposals : book[q] # None \/ q # p => book'[q] = book[q] /\ orders'[q] = orders[q]
      /\ \A q \in Proposals : orders'[q] = IF book'[q] = "ACCEPTED" THEN 1 ELSE 0
  <2>1. CASE UNCHANGED broker
    BY <2>1 DEF IInv, TypeOK, DataInv, BrokerSound, broker
  <2>2. ASSUME NEW answer \in Answers, Submit(p, answer) PROVE <1>2
    BY <2>2, <1>1, SubmitEffect
  <2> QED
    BY <2>1, <2>2
<1>3. TypeOK'
  BY ZenonT(30), <1>2 DEF IInv, TypeOK, database
<1>4. OneDecision' /\ OpenIsClean' /\ EventsSound' /\ OutboxSound' /\ RiskUsedOnce'
  BY SMTT(30) DEF IInv, DataInv, OneDecision, OpenIsClean, EventsSound, OutboxSound, RiskUsedOnce, database
<1>5. BrokerSound'
  BY ZenonT(30), <1>1, <1>2, NoneIsNoValue DEF IInv, DataInv, BrokerSound, database
<1>6. \A q \in Proposals : book[q] \in Answers => book'[q] = book[q]
  BY <1>2, NoneIsNoValue
<1>7. AuditSound'
  BY ZenonT(30), <1>6 DEF IInv, DataInv, AuditSound, database, Answers
<1>8. \A r \in Results \cup {None}, q \in Proposals : Truthful(r, q) => Truthful(r, q)'
  BY <1>6 DEF Truthful, Answers
<1>9. JobsSound'
  <2> SUFFICES ASSUME NEW v \in Workers PROVE JobSound(job[v])'
    BY DEF JobsSound
  <2>1. CASE v = w /\ k = Idle
    BY <2>1 DEF IInv, TypeOK, JobSound, Holding, Idle
  <2>2. CASE v = w /\ k # Idle
    <3>1. job'[v] = k
      BY <2>2 DEF IInv, TypeOK
    <3> QED
      BY <2>2, <3>1, <1>1 DEF JobSound, Holding, database
  <2>3. CASE v # w
    <3>1. job'[v] = job[v] /\ JobSound(job[v])
      BY <2>3 DEF IInv, TypeOK, WorkerInv, JobsSound
    <3> QED
      BY <3>1, <1>8 DEF JobSound, Holding, database
  <2> QED
    BY <2>1, <2>2, <2>3
<1>10. LockExclusive'
  BY DEF IInv, TypeOK, WorkerInv, LockExclusive, Holding, Idle
<1>11. StoreSound'
  <2> SUFFICES ASSUME NEW v \in Workers, NEW q \in Proposals PROVE Truthful(store[v][q], q)'
    BY DEF StoreSound
  <2>1. store[v][q] \in Results \cup {None} /\ Truthful(store[v][q], q)
    BY DEF IInv, TypeOK, WorkerInv, StoreSound
  <2> QED
    BY <2>1, <1>8 DEF Truthful
<1> QED
  BY <1>3, <1>4, <1>5, <1>7, <1>9, <1>10, <1>11 DEF IInv, DataInv, WorkerInv

\* The dispatcher's fresh dispatches, with every fate of the broker's answer.
LEMMA DispatchWrites ==
  ASSUME IInv, NEW w \in Workers, DispatchAnswered(w) \/ DispatchUnknown(w) \/ DispatchRaises(w)
  PROVE  IInv'
<1>0. PICK p \in Proposals : p = job[w].p
  BY DEF DispatchAnswered, DispatchUnknown, DispatchRaises, IInv, WorkerInv, JobsSound, JobSound
<1>1. job[w].stage = "locked" /\ job[w] \in JobType
  BY DEF DispatchAnswered, DispatchUnknown, DispatchRaises, IInv, TypeOK
<1>2. ASSUME NEW result \in Results,
             UNCHANGED broker \/ \E answer \in Answers : Submit(p, answer),
             Remember(w, p, result), Answered(w, result), Truthful(result, p)',
             UNCHANGED <<now, database>>
      PROVE  IInv'
  <2>1. PICK k \in JobType : k = [job[w] EXCEPT !.stage = "dispatched", !.result = result]
    BY ZenonT(30), <1>1 DEF JobType, Stages
  <2>2. k.stage = "dispatched" /\ k.p = p /\ k.m = job[w].m /\ k.result = result
    BY <1>0, <1>1, <2>1 DEF JobType
  <2>3. job' = [job EXCEPT ![w] = k]
    BY ZenonT(30), <1>1, <1>2, <2>1 DEF Answered, IInv, TypeOK, JobType
  <2>4. store' \in [Workers -> [Proposals -> Results \cup {None}]]
    BY <1>2 DEF Remember, IInv, TypeOK
  <2>5. \A v \in Workers, q \in Proposals :
           store'[v][q] = store[v][q] \/ (v = w /\ q = p /\ store'[v][q] = result)
    BY <1>2 DEF Remember, IInv, TypeOK
  <2>6. \A v \in Workers, q \in Proposals :
           store'[v][q] = store[v][q] \/ Truthful(store[v][q], q)'
    BY <2>5, <1>2 DEF Truthful
  <2>7. Truthful(k.result, k.p)'
    BY <2>2, <1>2 DEF Truthful
  <2> QED
    BY ZenonT(30), <1>0, <1>1, <1>2, <2>2, <2>3, <2>4, <2>6, <2>7, BrokerStep
<1>3. CASE DispatchAnswered(w)
  <2>1. PICK answer \in Answers :
          /\ Submit(p, answer)
          /\ Remember(w, p, IF answer = "ACCEPTED" THEN "SUCCEEDED" ELSE "REJECTED")
          /\ Answered(w, IF answer = "ACCEPTED" THEN "SUCCEEDED" ELSE "REJECTED")
    BY <1>0, <1>3 DEF DispatchAnswered
  <2> DEFINE result == IF answer = "ACCEPTED" THEN "SUCCEEDED" ELSE "REJECTED"
  <2>2. book'[p] = answer
    BY <2>1, SubmitEffect
  <2>3. result \in Results /\ Truthful(result, p)'
    BY <2>2 DEF Results, Truthful, Answers
  <2>4. UNCHANGED <<now, database>>
    BY <1>3 DEF DispatchAnswered
  <2>5. Remember(w, p, result) /\ Answered(w, result)
    BY <2>1
  <2> QED
    BY <1>2, <2>1, <2>3, <2>4, <2>5
<1>4. CASE DispatchUnknown(w)
  <2>1. "SUBMIT_UNKNOWN" \in Results /\ Truthful("SUBMIT_UNKNOWN", p)'
    BY DEF Results, Truthful
  <2> QED
    BY ZenonT(30), <1>0, <1>2, <1>4, <2>1 DEF DispatchUnknown
<1>5. CASE DispatchRaises(w)
  <2>1. Idle \in JobType
    BY DEF Idle, JobType, Stages
  <2>2. store' \in [Workers -> [Proposals -> Results \cup {None}]] /\ store' = store
    BY <1>5 DEF DispatchRaises, IInv, TypeOK
  <2> QED
    BY ZenonT(30), <1>1, <1>5, <2>1, <2>2, BrokerStep DEF DispatchRaises
<1> QED
  BY <1>3, <1>4, <1>5

\* Every step keeps the inductive invariant.
LEMMA NextInv == IInv /\ [Next]_vars => IInv'
<1> SUFFICES ASSUME IInv, [Next]_vars PROVE IInv'
  OBVIOUS
<1>1. CASE Tick
  BY <1>1, EnvironmentSteps
<1>2. CASE Issue
  BY <1>2, CreateInv, BindInv DEF Issue
<1>3. ASSUME NEW w \in Workers, Decide(w) PROVE IInv'
  BY <1>3, DecisionReads, CommitDecisionInv DEF Decide
<1>4. ASSUME NEW w \in Workers, Consume(w) PROVE IInv'
  BY <1>4, ConsumeReads, ConsumeWrites, DispatchWrites DEF Consume
<1>5. ASSUME NEW w \in Workers, Abort(w) \/ Restart(w) PROVE IInv'
  BY <1>5, EnvironmentSteps
<1>6. CASE UNCHANGED vars
  <2>1. UNCHANGED <<now, database, broker, job, store>>
    BY <1>6 DEF vars
  <2>2. TypeOK'
    BY <2>1 DEF IInv, TypeOK, database, broker
  <2>3. DataInv'
    BY <2>1, DataFrame DEF IInv
  <2>4. WorkerInv'
    BY <2>1 DEF IInv, WorkerInv, JobsSound, JobSound, Holding, Truthful, LockExclusive, StoreSound,
                database, broker
  <2> QED
    BY <2>2, <2>3, <2>4 DEF IInv
<1> QED
  BY <1>1, <1>2, <1>3, <1>4, <1>5, <1>6 DEF Next

\* The inductive invariant holds in every reachable state.
THEOREM Inductive == Spec => []IInv
<1> QED
  BY InitInv, NextInv, PTL DEF Spec

\* The tables, the broker's memory and the workers' records are always well typed.
THEOREM TypeCorrect == Spec => []TypeOK
<1>1. IInv => TypeOK
  BY DEF IInv
<1> QED
  BY <1>1, Inductive, PTL

\* Concurrent decisions on a challenge leave exactly one event, for any number
\* of workers and proposals (ApprovalService.decide's conditional update).
THEOREM DecidedOnce == Spec => []OneDecision
<1>1. IInv => OneDecision
  BY DEF IInv, DataInv
<1> QED
  BY <1>1, Inductive, PTL

\* Every order at the broker was authorised by a timely press on the bound message.
THEOREM OrdersAuthorised == Spec => []ExecutionAuthorised
<1>1. IInv => ExecutionAuthorised
  BY NoneIsNoValue DEF IInv, DataInv, ExecutionAuthorised, BrokerSound, OutboxSound, EventsSound
<1> QED
  BY <1>1, Inductive, PTL

\* Retries, crashes and concurrent consumers never make a second order.
THEOREM OrderedOnce == Spec => []AtMostOneOrder
<1>1. IInv => AtMostOneOrder
  BY DEF IInv, DataInv, AtMostOneOrder, BrokerSound
<1> QED
  BY <1>1, Inductive, PTL

\* A consumed row has one audit record, and it agrees with the broker.
THEOREM AuditTruthful == Spec => []AuditMatchesBroker
<1>1. IInv => AuditMatchesBroker
  BY DEF IInv, DataInv, AuditMatchesBroker, AuditSound, BrokerSound
<1> QED
  BY <1>1, Inductive, PTL

\* The decision, the order and the audit trail of a proposal always agree, for any
\* number of workers and proposals.
THEOREM RecordsAlwaysAgree == Spec => []RecordsAgree
<1> QED
  BY DecidedOnce, OrdersAuthorised, AuditTruthful, PTL DEF RecordsAgree

\* A risk decision backs at most one proposal.
THEOREM RiskOnce == Spec => []RiskUsedOnce
<1>1. IInv => RiskUsedOnce
  BY DEF IInv, DataInv
<1> QED
  BY <1>1, Inductive, PTL

-----------------------------------------------------------------------------
(* Old clock readings.                                                     *)

\* No worker's reading is ahead of the clock, and a challenge ends no later than its
\* proposal: that is why an old reading refuses late, never early.
TimeSound ==
    /\ \A w \in Workers : job[w].at <= now
    /\ \A p \in Proposals : challenge[p].expires <= proposal[p].expires
    /\ RefusedOnlyLate

LEMMA TimeStarts == Init => TimeSound
<1> SUFFICES ASSUME Init PROVE TimeSound
  OBVIOUS
<1>1. \A w \in Workers : job[w].at <= now
  <2>1. now = 0 /\ \A w \in Workers : job[w] = Idle
    BY DEF Init
  <2>2. Idle.at = 0
    BY DEF Idle
  <2>3. 0 <= 0
    OBVIOUS
  <2> QED
    BY Zenon, <2>1, <2>2, <2>3
<1>2. \A p \in Proposals : challenge[p].expires <= proposal[p].expires
  BY DEF Init
<1>3. RefusedOnlyLate
  BY DEF Init, RefusedOnlyLate
<1> QED
  BY <1>1, <1>2, <1>3 DEF TimeSound

\* Nothing but the workers' records changes, and no reading gets ahead.
LEMMA TimeFrame ==
  ASSUME IInv, TimeSound, NEW w \in Workers, NEW k, k.at <= now, job' = [job EXCEPT ![w] = k],
         UNCHANGED <<now, proposal, challenge, audit>>
  PROVE  TimeSound'
<1>1. ASSUME NEW v \in Workers PROVE job'[v].at <= now'
  BY DEF IInv, TypeOK, TimeSound
<1> QED
  BY <1>1 DEF TimeSound, RefusedOnlyLate

LEMMA TimeStep == ASSUME IInv, TimeSound, [Next]_vars PROVE TimeSound'
<1>0. /\ now \in Nat /\ proposal \in [Proposals -> ProposalRow] /\ challenge \in [Proposals -> ChallengeRow]
      /\ job \in [Workers -> JobType] /\ audit \in [Proposals -> SUBSET Dispositions]
  BY DEF IInv, TypeOK
<1>1. CASE Tick
  <2>1. now' = now + 1 /\ UNCHANGED <<proposal, challenge, audit, job>>
    BY <1>1 DEF Tick, database
  <2>2. \A w \in Workers : job[w].at \in Nat
    BY <1>0 DEF JobType
  <2>3. \A p \in Proposals : challenge[p].expires \in Nat /\ proposal[p].expires \in Nat
    BY <1>0
  <2> QED
    BY <1>0, <2>1, <2>2, <2>3 DEF TimeSound, RefusedOnlyLate
<1>2. ASSUME NEW p \in Proposals, NEW r \in Risks, NEW method \in Methods, NEW ttl \in Ttls,
             NEW life \in Lives, Create(p, r, method, ttl, life)
      PROVE  TimeSound'
  <2>1. audit[p] = {}
    BY <1>2, NoneIsNoValue DEF Create, IInv, DataInv, OpenIsClean, AuditSound, Settling
  <2>2. ttl \in Nat /\ life \in Nat /\ ttl <= life
    BY <1>2, TimesAreNatural DEF Create
  <2>3. ASSUME NEW q \in Proposals
        PROVE  /\ challenge'[q].expires <= proposal'[q].expires
               /\ challenge'[q].status = "EXPIRED" => now >= challenge'[q].expires
               /\ "POLICY_REJECTED" \in audit[q] => now >= proposal'[q].expires
    <3>1. CASE q = p
      BY <1>0, <1>2, <2>1, <2>2, <3>1 DEF Create
    <3>2. CASE q # p
      BY <1>0, <1>2, <3>2 DEF Create, TimeSound, RefusedOnlyLate
    <3> QED
      BY <3>1, <3>2
  <2>4. UNCHANGED <<now, audit, job>>
    BY <1>2 DEF Create
  <2> QED
    BY <2>3, <2>4 DEF TimeSound, RefusedOnlyLate
<1>3. ASSUME NEW p \in Proposals, NEW m \in Messages, BindDelivery(p, m)
      PROVE  TimeSound'
  BY <1>3 DEF BindDelivery, TimeSound, RefusedOnlyLate
<1>4. ASSUME NEW w \in Workers, Decide(w) PROVE TimeSound'
  <2>1. CASE \E p \in Proposals, m \in Messages \cup {None}, approved \in BOOLEAN : BeginDecision(w, p, m, approved)
    <3>1. PICK p \in Proposals, m \in Messages \cup {None}, approved \in BOOLEAN : BeginDecision(w, p, m, approved)
      BY <2>1
    <3> DEFINE k == [Idle EXCEPT !.stage = "clock", !.p = p, !.m = m, !.approved = approved, !.at = now]
    <3>2. k.at <= now
      BY <1>0 DEF Idle
    <3>3. job' = [job EXCEPT ![w] = k] /\ UNCHANGED <<now, proposal, challenge, audit>>
      BY <3>1 DEF BeginDecision, database
    <3> QED
      BY <3>2, <3>3, TimeFrame
  <2>2. CASE LoadChallenge(w)
    <3> DEFINE k == [job[w] EXCEPT !.stage = "loaded", !.version = challenge[job[w].p].version]
    <3>1. k.at <= now
      BY <1>0 DEF TimeSound, JobType
    <3>2. job' = [job EXCEPT ![w] = k] /\ UNCHANGED <<now, proposal, challenge, audit>>
      BY <1>0, <2>2 DEF LoadChallenge, database
    <3> QED
      BY <3>1, <3>2, TimeFrame
  <2>3. CASE RefuseDecision(w) \/ LoseDecision(w)
    <3>1. Idle.at <= now
      BY <1>0 DEF Idle
    <3>2. job' = [job EXCEPT ![w] = Idle] /\ UNCHANGED <<now, proposal, challenge, audit>>
      BY <2>3 DEF RefuseDecision, LoseDecision, database
    <3> QED
      BY <3>1, <3>2, TimeFrame
  <2>4. CASE CommitDecision(w)
    <3> DEFINE j == job[w]
    <3>1. j.stage = "loaded" /\ j.p \in Proposals /\ j.at \in Nat /\ j.at <= now
      BY <1>0, <2>4 DEF CommitDecision, IInv, WorkerInv, JobsSound, JobSound, TimeSound, JobType
    <3>2. /\ challenge' = [challenge EXCEPT ![j.p] =
               [status |-> StatusFor(Outcome(j)), method |-> @.method, expires |-> @.expires,
                version |-> @.version + 1]]
          /\ job' = [job EXCEPT ![w] = Idle] /\ UNCHANGED <<now, proposal, audit>>
      BY <2>4 DEF CommitDecision
    <3>3. StatusFor(Outcome(j)) = "EXPIRED" => Expired(j.p, j.at)
      BY DEF StatusFor, Outcome
    <3>4. ASSUME NEW q \in Proposals
          PROVE  /\ challenge'[q].expires = challenge[q].expires
                 /\ challenge'[q].status = "EXPIRED" => now >= challenge[q].expires
      <4>1. challenge[q].expires \in Nat /\ proposal[q].expires \in Nat
            /\ challenge[q].expires <= proposal[q].expires
        BY <1>0 DEF TimeSound
      <4>2. CASE q = j.p
        <5>1. challenge'[q].expires = challenge[q].expires /\ challenge'[q].status = StatusFor(Outcome(j))
          BY <1>0, <3>2, <4>2
        <5>2. Expired(q, j.at) => now >= challenge[q].expires
          BY <1>0, <3>1, <4>1 DEF Expired
        <5> QED
          BY <3>3, <4>2, <5>1, <5>2
      <4>3. CASE q # j.p
        BY <1>0, <3>2, <4>3 DEF TimeSound, RefusedOnlyLate
      <4> QED
        BY <4>2, <4>3
    <3>5. ASSUME NEW v \in Workers PROVE job'[v].at <= now
      <4>1. Idle.at = 0 /\ 0 <= now
        BY <1>0 DEF Idle
      <4>2. job' = [job EXCEPT ![w] = Idle] /\ job[v].at <= now
        BY <3>2 DEF TimeSound
      <4>3. job'[v] = IF v = w THEN Idle ELSE job[v]
        BY <1>0, <4>2
      <4> QED
        BY <4>1, <4>2, <4>3
    <3> QED
      BY <3>2, <3>4, <3>5 DEF TimeSound, RefusedOnlyLate
  <2> QED
    BY <1>4, <2>1, <2>2, <2>3, <2>4 DEF Decide
<1>5. ASSUME NEW w \in Workers, Consume(w) PROVE TimeSound'
  <2>1. CASE \E p \in Proposals : BeginHandoff(w, p)
    <3>1. PICK p \in Proposals : BeginHandoff(w, p)
      BY <2>1
    <3> DEFINE k == [Idle EXCEPT !.stage = "consume", !.p = p, !.at = now]
    <3>2. k.at <= now
      BY <1>0 DEF Idle
    <3>3. job' = [job EXCEPT ![w] = k] /\ UNCHANGED <<now, proposal, challenge, audit>>
      BY <3>1 DEF BeginHandoff, database
    <3> QED
      BY <3>2, <3>3, TimeFrame
  <2>2. CASE LockOutbox(w) \/ DispatchReplay(w) \/ DispatchAnswered(w) \/ DispatchUnknown(w)
    <3>1. /\ UNCHANGED <<now, proposal, challenge, audit>>
          /\ \E stage, result : job' = [job EXCEPT ![w] = [job[w] EXCEPT !.stage = stage, !.result = result]]
      <4>1. CASE LockOutbox(w)
        <5>1. job' = [job EXCEPT ![w] = [job[w] EXCEPT !.stage = "locked", !.result = job[w].result]]
          BY <1>0, <4>1 DEF LockOutbox, JobType
        <5> QED
          BY <4>1, <5>1 DEF LockOutbox, database
      <4>2. ASSUME NEW result, Answered(w, result)
            PROVE  job' = [job EXCEPT ![w] = [job[w] EXCEPT !.stage = "dispatched", !.result = result]]
        BY <1>0, <4>2 DEF Answered
      <4> QED
        BY Zenon, <2>2, <4>1, <4>2 DEF DispatchReplay, DispatchAnswered, DispatchUnknown, database
    <3>2. PICK stage, result : job' = [job EXCEPT ![w] = [job[w] EXCEPT !.stage = stage, !.result = result]]
      BY Zenon, <3>1
    <3> DEFINE k == [job[w] EXCEPT !.stage = stage, !.result = result]
    <3>3. k.at <= now
      BY <1>0 DEF TimeSound, JobType
    <3> QED
      BY <3>1, <3>2, <3>3, TimeFrame
  <2>3. CASE SkipConsumed(w) \/ DispatchRaises(w) \/ RetryLater(w)
    <3>1. Idle.at <= now
      BY <1>0 DEF Idle
    <3>2. job' = [job EXCEPT ![w] = Idle] /\ UNCHANGED <<now, proposal, challenge, audit>>
      BY <2>3 DEF SkipConsumed, DispatchRaises, RetryLater, database
    <3> QED
      BY <3>1, <3>2, TimeFrame
  <2>4. CASE PolicyReject(w) \/ CommitHandoff(w)
    <3> DEFINE p == job[w].p
    <3>1. p \in Proposals /\ job[w].at \in Nat /\ job[w].at <= now
      BY <1>0, <2>4 DEF PolicyReject, CommitHandoff, IInv, WorkerInv, JobsSound, JobSound, TimeSound, JobType
    <3>2. PolicyReject(w) => now >= proposal[p].expires
      <4> SUFFICES ASSUME PolicyReject(w) PROVE now >= proposal[p].expires
        OBVIOUS
      <4>1. outbox[p] # None /\ ~PolicyAllows(p, job[w].at)
        BY NoneIsNoValue DEF PolicyReject
      <4>2. Approved(p) /\ challenge[p].method = "telegram"
        BY <3>1, <4>1 DEF Approved, IInv, DataInv, OutboxSound, EventsSound
      <4>3. ~(job[w].at < proposal[p].expires)
        BY <4>1, <4>2 DEF PolicyAllows
      <4> QED
        BY <1>0, <3>1, <4>3
    <3>3. \E d \in Dispositions :
            /\ audit' = [audit EXCEPT ![p] = @ \cup {d}]
            /\ d = "POLICY_REJECTED" => now >= proposal[p].expires
      BY <2>4, <3>2 DEF PolicyReject, CommitHandoff, Dispositions
    <3>4. job' = [job EXCEPT ![w] = Idle] /\ UNCHANGED <<now, proposal, challenge>>
      BY <2>4 DEF PolicyReject, CommitHandoff
    <3>5. \A v \in Workers : job'[v].at <= now
      BY <1>0, <3>4 DEF TimeSound, Idle
    <3>6. \A q \in Proposals : "POLICY_REJECTED" \in audit'[q] => now >= proposal[q].expires
      BY <1>0, <3>1, <3>3 DEF TimeSound, RefusedOnlyLate
    <3> QED
      BY <3>4, <3>5, <3>6 DEF TimeSound, RefusedOnlyLate
  <2> QED
    BY <1>5, <2>1, <2>2, <2>3, <2>4 DEF Consume
<1>6. ASSUME NEW w \in Workers, Abort(w) \/ Restart(w) PROVE TimeSound'
  <2>1. Idle.at <= now
    BY <1>0 DEF Idle
  <2>2. job' = [job EXCEPT ![w] = Idle] /\ UNCHANGED <<now, proposal, challenge, audit>>
    BY <1>6 DEF Abort, Restart, database
  <2> QED
    BY <2>1, <2>2, TimeFrame
<1>7. CASE UNCHANGED vars
  BY <1>7 DEF vars, database, TimeSound, RefusedOnlyLate
<1> QED
  BY <1>1, <1>2, <1>3, <1>4, <1>5, <1>6, <1>7 DEF Next, Issue

\* However old the clock reading a handler decides on, a challenge is settled as
\* expired, and an approved press turned away by policy, only when it really is late.
THEOREM NeverPremature == Spec => []RefusedOnlyLate
<1>1. TimeSound => RefusedOnlyLate
  BY DEF TimeSound
<1> QED
  BY <1>1, Inductive, TimeStarts, TimeStep, PTL DEF Spec

-----------------------------------------------------------------------------
(* The refinement: what one step can do.                                   *)

\* One step issues a challenge, commits a decision, submits to the broker, or
\* leaves challenges, events and orders alone.
LEMMA StepKinds ==
  ASSUME IInv, [Next]_vars
  PROVE  \/ UNCHANGED <<challenge, events, orders>>
         \/ \E p \in Proposals, r \in Risks, method \in Methods, ttl \in Ttls, life \in Lives :
              Create(p, r, method, ttl, life)
         \/ \E w \in Workers : CommitDecision(w)
         \/ /\ \E p \in Proposals, answer \in Answers : /\ \E w \in Workers : Holding(job[w]) /\ job[w].p = p
                                                       /\ Submit(p, answer)
            /\ UNCHANGED <<now, database>>
<1> USE DEF database, broker, vars
<1>1. CASE Tick
  BY <1>1 DEF Tick
<1>2. CASE Issue
  BY ZenonT(30), <1>2 DEF Issue, BindDelivery, Create
<1>3. ASSUME NEW w \in Workers, Decide(w) PROVE CommitDecision(w) \/ UNCHANGED <<challenge, events, orders>>
  BY ZenonT(30), <1>3 DEF Decide, BeginDecision, LoadChallenge, RefuseDecision, LoseDecision
<1>4. ASSUME NEW w \in Workers, Consume(w)
      PROVE  \/ UNCHANGED <<challenge, events, orders>>
             \/ /\ \E p \in Proposals, answer \in Answers : Holding(job[w]) /\ job[w].p = p /\ Submit(p, answer)
                /\ UNCHANGED <<now, database>>
  <2>1. CASE \/ \E p \in Proposals : BeginHandoff(w, p)
             \/ SkipConsumed(w) \/ LockOutbox(w) \/ PolicyReject(w) \/ DispatchReplay(w)
             \/ RetryLater(w) \/ CommitHandoff(w)
    BY ZenonT(30), <2>1 DEF BeginHandoff, SkipConsumed, LockOutbox, PolicyReject, DispatchReplay, RetryLater,
                CommitHandoff
  <2>2. CASE DispatchAnswered(w) \/ DispatchUnknown(w) \/ DispatchRaises(w)
    <3>1. job[w].p \in Proposals /\ Holding(job[w])
      BY <2>2 DEF DispatchAnswered, DispatchUnknown, DispatchRaises, IInv, WorkerInv, JobsSound, JobSound,
                  Holding
    <3> QED
      BY <2>2, <3>1 DEF DispatchAnswered, DispatchUnknown, DispatchRaises
  <2> QED
    BY <1>4, <2>1, <2>2 DEF Consume
<1>5. ASSUME NEW w \in Workers, Abort(w) \/ Restart(w) PROVE UNCHANGED <<challenge, events, orders>>
  BY <1>5 DEF Abort, Restart
<1>6. CASE UNCHANGED vars
  BY <1>6
<1> QED
  BY <1>1, <1>2, <1>3, <1>4, <1>5, <1>6 DEF Next

\* The initial state is an initial state of one-shot execution.
LEMMA AbstractInit == Init => Abstract!Init
  BY DEF Init, Abstract!Init, Phase

\* Every step is a step of one-shot execution or changes nothing it sees.
LEMMA AbstractStep == ASSUME IInv, [Next]_vars PROVE [Abstract!Next]_(Abstract!vars)
<1> DEFINE phase == [p \in Proposals |-> Phase(challenge[p].status)]
<1>1. CASE UNCHANGED <<challenge, events, orders>>
  BY <1>1 DEF Abstract!vars
<1>2. ASSUME NEW p \in Proposals, NEW r \in Risks, NEW method \in Methods, NEW ttl \in Ttls,
             NEW life \in Lives, Create(p, r, method, ttl, life)
      PROVE  Abstract!Issue(p)
  <2>1. phase[p] = "none" /\ phase' = [phase EXCEPT ![p] = "pending"]
    BY ZenonT(30), <1>2 DEF Create, Phase, IInv, TypeOK
  <2> QED
    BY <1>2, <2>1 DEF Abstract!Issue, Abstract!Move, Create, broker
<1>3. ASSUME NEW w \in Workers, CommitDecision(w)
      PROVE  \E p \in Proposals : Abstract!Approve(p) \/ Abstract!Refuse(p)
  <2> DEFINE p == job[w].p
             s == StatusFor(Outcome(job[w]))
  <2>1. p \in Proposals /\ challenge[p].status = "PENDING" /\ orders' = orders
    BY <1>3 DEF CommitDecision, Current, broker, IInv, WorkerInv, JobsSound, JobSound
  <2>2. s \in Settling
    BY DEF Outcome, StatusFor, Settling
  <2>3. challenge' = [challenge EXCEPT ![p] = [status |-> s, method |-> challenge[p].method,
                       expires |-> challenge[p].expires, version |-> challenge[p].version + 1]]
    BY ZenonT(30), <1>3, <2>1 DEF CommitDecision, IInv, TypeOK
  <2> HIDE DEF p, s
  <2>4. phase[p] = "pending" /\ phase' = [phase EXCEPT ![p] = Phase(s)]
    BY ZenonT(30), <2>1, <2>3 DEF Phase, IInv, TypeOK
  <2>5. Phase(s) \in {"approved", "refused"}
    BY <2>2 DEF Phase, Settling
  <2> QED
    BY ZenonT(30), <2>1, <2>4, <2>5 DEF Abstract!Approve, Abstract!Refuse, Abstract!Move
<1>4. ASSUME NEW p \in Proposals, NEW answer \in Answers, NEW w \in Workers,
             Holding(job[w]), job[w].p = p, Submit(p, answer), UNCHANGED <<now, database>>
      PROVE  Abstract!Execute(p) \/ UNCHANGED <<challenge, orders>>
  <2>1. outbox[p] # None
    BY ZenonT(30), <1>4, NoneIsNoValue DEF IInv, WorkerInv, JobsSound, JobSound
  <2>2. challenge[p].status = "APPROVED"
    BY <2>1, SMTT(30) DEF IInv, DataInv, OutboxSound, OneDecision, StatusFor
  <2>3. phase[p] = "approved" /\ phase' = phase
    BY <1>4, <2>2 DEF Phase, database
  <2>4. CASE orders' = orders
    BY <1>4, <2>4 DEF database
  <2>5. CASE book[p] = None /\ orders' = [orders EXCEPT ![p] = @ + 1]
    <3>1. orders[p] = 0
      BY <2>5, NoneIsNoValue DEF IInv, DataInv, BrokerSound, Answers
    <3>2. orders' = [orders EXCEPT ![p] = 1]
      BY <2>5, <3>1 DEF IInv, TypeOK
    <3> QED
      BY <2>3, <3>1, <3>2 DEF Abstract!Execute
  <2> QED
    BY ZenonT(30), <1>4, <2>4, <2>5 DEF Submit, broker
<1>5. UNCHANGED <<challenge, orders>> => UNCHANGED Abstract!vars
  BY DEF Abstract!vars
<1> QED
  BY <1>1, <1>2, <1>3, <1>4, <1>5, StepKinds DEF Abstract!Next

\* The approval path implements one-shot execution: each proposal is issued
\* once, settled once, and executed at most once and only when approved.
THEOREM Refines == Spec => OneShot
<1>1. Spec => Abstract!Spec
  BY AbstractInit, AbstractStep, Inductive, PTL DEF Spec, Abstract!Spec
<1> QED
  BY <1>1 DEF OneShot
=============================================================================
