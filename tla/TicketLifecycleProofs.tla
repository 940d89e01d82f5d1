----------------------- MODULE TicketLifecycleProofs -----------------------
(* Theorems about TicketLifecycle, for every set of tickets, requests, jobs,  *)
(* taxonomy rows and payloads.                                                *)
EXTENDS TicketLifecycle, TLAPS


\* A flushed column holds the stored value or one that was assigned.
LEMMA FlushedType ==
    ASSUME NEW S, NEW a \in Opt(S), NEW l \in Opt(S), NEW s \in Opt(S)
    PROVE  Flushed(Assigned(a, l), l, s) \in Opt(S)
  BY DEF Flushed, Assigned, Opt

\* A flush never takes a column back to NULL.
LEMMA FlushedNotNull ==
    ASSUME NEW a, NEW l, NEW s, s # None
    PROVE  Flushed(Assigned(a, l), l, s) # None
  BY DEF Flushed, Assigned

\* What an UPDATE writes is again a row of the table.
LEMMA WrittenIsRow ==
    ASSUME TypeOK, NEW r \in Requests, requests[r].phase # "idle",
           requests[r].ticket \in Tickets
    PROVE  Written(requests[r]) \in TicketRow
  <1> DEFINE q == requests[r]
  <1>1. q \in Request /\ tickets[q.ticket] \in TicketRow
    BY DEF TypeOK
  <1> DEFINE row == tickets[q.ticket]
             p == q.payload
             s == q.seen
  <1>2. /\ p \in PatchPayload /\ s \in TicketRow /\ row \in TicketRow
        /\ q.sla \in Opt(Hours)
    BY <1>1 DEF Request
  <1>3. /\ Flushed(Assigned(p.status, s.status), s.status, row.status) \in Opt(Statuses)
        /\ Flushed(Assigned(p.agent, s.agent), s.agent, row.agent) \in Opt(Agents)
        /\ Flushed(Assigned(p.category, s.category), s.category, row.category)
              \in Opt(Categories)
        /\ Flushed(Assigned(p.urgency, s.urgency), s.urgency, row.urgency)
              \in Opt(Urgencies)
        /\ Flushed(Assigned(q.sla, s.sla), s.sla, row.sla) \in Opt(Hours)
    <2> HIDE DEF q, row, p, s
    <2>1. QED
      BY <1>2, FlushedType DEF PatchPayload, TicketRow
  <1>4. row.closed_at \in BOOLEAN /\ row.classified \in BOOLEAN
    BY <1>2 DEF TicketRow
  <1>5. (IF q.clears_closed_at /\ p.status # None /\ (p.status = "closed" \/ s.closed_at)
           THEN p.status = "closed" ELSE row.closed_at) \in BOOLEAN
    BY <1>4
  <1>6. QED
    BY <1>3, <1>4, <1>5 DEF Written, TicketRow

\* Open requests and jobs are about a ticket that exists.
Grounded ==
    /\ \A r \in Requests : requests[r].phase # "idle"
            => requests[r].ticket \in Tickets /\ Exists(requests[r].ticket)
    /\ \A j \in Jobs : jobs[j].state # "free"
            => jobs[j].ticket \in Tickets /\ Exists(jobs[j].ticket)
    /\ \A t \in background \cup stale : Exists(t)

\* Rows keep their types under every step of the API, the queue and the worker.
THEOREM TypeCorrect == Spec => [](TypeOK /\ Grounded)
  <1>1. Init => TypeOK /\ Grounded
    BY ConstantsAssumption
    DEF Init, TypeOK, Grounded, NoTicket, TicketRow, NoClassification, ClassificationRow,
        NoRequest, NoPayload, Request, PatchPayload, NoJob, Job, Opt
  <1>2. TypeOK /\ Grounded /\ [Next]_vars => (TypeOK /\ Grounded)'
    <2> SUFFICES ASSUME TypeOK, Grounded, [Next]_vars
                 PROVE  (TypeOK /\ Grounded)'
      OBVIOUS
    <2>1. ASSUME NEW t \in Tickets, NEW c \in Opt(Categories), NEW u \in Opt(Urgencies),
                 CreateTicket(t, c, u)
          PROVE  (TypeOK /\ Grounded)'
      BY <2>1, ConstantsAssumption
      DEF CreateTicket, NewTicket, NoTicket, DueAt, TypeOK, Grounded, TicketRow, Opt, Exists, Statuses
    <2>2. ASSUME NEW t \in Tickets, NEW c \in Opt(Categories), NEW s \in {"open", "escalated"},
                 CreateFromChat(t, c, s)
          PROVE  (TypeOK /\ Grounded)'
      BY <2>2, ConstantsAssumption
      DEF CreateFromChat, NewTicket, NoTicket, DueAt, TypeOK, Grounded, TicketRow, Opt, Exists, Statuses
    <2>3. ASSUME NEW u \in Urgencies, NEW h \in Hours, UpdateUrgencyLevel(u, h)
          PROVE  (TypeOK /\ Grounded)'
      BY <2>3 DEF UpdateUrgencyLevel, TypeOK, Grounded, Exists
    <2>4. ASSUME NEW r \in Requests, NEW t \in Tickets, NEW role \in {"staff", "member"},
                 NEW p \in Payloads, PatchRead(r, t, role, p)
          PROVE  (TypeOK /\ Grounded)'
      <3>1. p \in PatchPayload
        BY ConstantsAssumption
      <3>2. TypeOK'
        BY <2>4, <3>1 DEF PatchRead, TypeOK, Request, Opt
      <3>3. Grounded'
        BY <2>4 DEF PatchRead, TypeOK, Grounded, Exists
      <3>4. QED BY <3>2, <3>3
    <2>5. ASSUME NEW r \in Requests, PatchFlag(r)
          PROVE  (TypeOK /\ Grounded)'
      <3>1. TypeOK'
        <4> DEFINE q == requests[r]
                   d == DueAt(Assigned(q.payload.urgency, q.seen.urgency))
        <4>1. Assigned(q.payload.urgency, q.seen.urgency) \in Opt(Urgencies)
          BY <2>5 DEF TypeOK, Request, PatchPayload, TicketRow, Assigned
        <4>2. d \in Opt(Hours) /\ Predicted(q.ticket) \in BOOLEAN
          BY <4>1 DEF DueAt, TypeOK, Opt, Predicted
        <4> HIDE DEF d
        <4>3. requests' \in [Requests -> Request]
          BY <2>5, <4>2 DEF PatchFlag, TypeOK, Request, d
        <4>4. QED BY <2>5, <4>3 DEF PatchFlag, TypeOK
      <3>2. Grounded'
        BY <2>5 DEF PatchFlag, TypeOK, Grounded, Exists
      <3>3. QED BY <3>1, <3>2
    <2>6. ASSUME NEW r \in Requests, NEW t \in Tickets, EscalateRead(r, t)
          PROVE  (TypeOK /\ Grounded)'
      <3>1. TypeOK'
        BY <2>6 DEF EscalateRead, TypeOK, Request, NoPayload, PatchPayload, Opt, Statuses
      <3>2. Grounded'
        BY <2>6 DEF EscalateRead, TypeOK, Grounded, Exists
      <3>3. QED BY <3>1, <3>2
    <2>7. ASSUME NEW r \in Requests, PatchCommit(r)
          PROVE  (TypeOK /\ Grounded)'
      <3> DEFINE q == requests[r]
      <3>1. q.ticket \in Tickets /\ Exists(q.ticket) /\ Written(q) \in TicketRow
        BY <2>7, WrittenIsRow DEF Grounded, PatchCommit
      <3>2. TypeOK'
        BY <2>7, <3>1
        DEF PatchCommit, TypeOK, ClassificationRow, Request, NoRequest, NoPayload, NoTicket,
            TicketRow, PatchPayload, Opt
      <3>3. Written(q).status # None
        BY <3>1 DEF Written, Flushed, Assigned, Exists, TypeOK, TicketRow
      <3>4. Grounded'
        BY <2>7, <3>1, <3>3 DEF PatchCommit, TypeOK, Grounded, Exists, NoRequest
      <3>5. QED BY <3>2, <3>4
    <2>8. ASSUME NEW r \in Requests, Rollback(r)
          PROVE  (TypeOK /\ Grounded)'
      BY <2>8 DEF Rollback, TypeOK, Grounded, Exists, Request, NoRequest, NoPayload, NoTicket,
                  TicketRow, PatchPayload, Opt
    <2>9. ASSUME NEW t \in Tickets, EnqueueLost(t) \/ BecomeStale(t)
          PROVE  (TypeOK /\ Grounded)'
      BY <2>9 DEF EnqueueLost, BecomeStale, TypeOK, Grounded, Exists
    <2>10. ASSUME NEW j \in Jobs, NEW t \in Tickets,
                  EnqueueClassification(j, t) \/ SweepPending(j, t)
           PROVE  (TypeOK /\ Grounded)'
      <3> DEFINE fresh == [state |-> "queued", ticket |-> t, tries |-> 0]
      <3>1. fresh \in Job /\ fresh.ticket = t
        BY ConstantsAssumption DEF Job, Opt
      <3>2. /\ jobs' = [jobs EXCEPT ![j] = fresh]
            /\ background' \subseteq background /\ stale' = stale
            /\ t \in background \cup stale
            /\ UNCHANGED <<tickets, classifications, resolved_events, sla_hours, requests>>
        BY <2>10 DEF EnqueueClassification, SweepPending, Enqueued
      <3> HIDE DEF fresh
      <3>3. TypeOK'
        BY <3>1, <3>2 DEF TypeOK
      <3>4. Grounded'
        BY <3>1, <3>2 DEF TypeOK, Grounded, Exists
      <3>5. QED BY <3>3, <3>4
    <2>11. ASSUME NEW j \in Jobs, NEW c \in Categories, NEW u \in Urgencies,
                  ClassifyTicket(j, c, u)
           PROVE  (TypeOK /\ Grounded)'
      <3>1. jobs[j].ticket \in Tickets /\ DueAt(u) \in Opt(Hours)
        BY <2>11 DEF ClassifyTicket, Grounded, TypeOK, DueAt, Opt
      <3>2. TypeOK'
        <4>1. tickets' \in [Tickets -> TicketRow]
          BY <2>11, <3>1 DEF ClassifyTicket, ClassifiedRow, TypeOK, TicketRow, Opt
        <4>2. classifications' \in [Tickets -> ClassificationRow]
          BY <2>11, <3>1 DEF ClassifyTicket, TypeOK, ClassificationRow, Opt
        <4>3. jobs' \in [Jobs -> Job]
          BY <2>11 DEF ClassifyTicket, TypeOK, Job
        <4>4. QED BY <2>11, <4>1, <4>2, <4>3 DEF ClassifyTicket, TypeOK
      <3>3. Grounded'
        BY <2>11, <3>1 DEF ClassifyTicket, ClassifiedRow, TypeOK, TicketRow, Grounded, Exists
      <3>4. QED BY <3>2, <3>3
    <2>12. ASSUME NEW j \in Jobs, StartJob(j)
           PROVE  (TypeOK /\ Grounded)'
      <3> DEFINE started == [state |-> "running", ticket |-> jobs[j].ticket,
                             tries |-> jobs[j].tries + 1]
      <3>1. started \in Job /\ started.ticket = jobs[j].ticket
        BY <2>12, ConstantsAssumption DEF StartJob, TypeOK, Job
      <3>2. NoJob \in Job
        BY ConstantsAssumption DEF NoJob, Job, Opt
      <3>3. \/ jobs' = [jobs EXCEPT ![j] = NoJob]
            \/ jobs' = [jobs EXCEPT ![j] = started]
        BY <2>12 DEF StartJob
      <3> HIDE DEF started
      <3>4. QED
        BY <2>12, <3>1, <3>2, <3>3 DEF StartJob, TypeOK, Grounded, Exists, NoJob
    <2>13. ASSUME NEW j \in Jobs, \/ ExpireJob(j) \/ PermanentFailure(j) \/ AckJob(j)
           PROVE  (TypeOK /\ Grounded)'
      <3>1. jobs' = [jobs EXCEPT ![j] = NoJob]
        BY <2>13 DEF ExpireJob, PermanentFailure, AckJob
      <3>2. UNCHANGED <<tickets, classifications, resolved_events, sla_hours, stale,
                        background, requests>>
        BY <2>13 DEF ExpireJob, PermanentFailure, AckJob
      <3>3. NoJob \in Job /\ NoJob.state = "free"
        BY ConstantsAssumption DEF NoJob, Job, Opt
      <3>4. QED
        BY <3>1, <3>2, <3>3 DEF TypeOK, Grounded, Exists
    <2>14. ASSUME NEW j \in Jobs, TransientFailure(j) \/ CrashJob(j)
           PROVE  (TypeOK /\ Grounded)'
      BY <2>14 DEF TransientFailure, CrashJob, TypeOK, Grounded, Exists, Job
    <2>15. CASE UNCHANGED vars
      BY <2>15 DEF vars, TypeOK, Grounded, Exists
    <2>16. QED
      BY <2>1, <2>2, <2>3, <2>4, <2>5, <2>6, <2>7, <2>8, <2>9, <2>10, <2>11, <2>12,
         <2>13, <2>14, <2>15 DEF Next, ApiNext, QueueNext
  <1>3. QED
    BY <1>1, <1>2, PTL DEF Spec

-----------------------------------------------------------------------------
(* The worker: one job per ticket works on a pending row, and the two rows of  *)
(* a classification appear together.                                           *)

OneRunner ==
    \A i, j \in Jobs : (/\ jobs[i].state = "running" /\ jobs[j].state = "running"
                        /\ jobs[i].ticket = jobs[j].ticket) => i = j

RunnerSeesPending ==
    \A j \in Jobs : jobs[j].state = "running" => ~tickets[jobs[j].ticket].classified

PredictionIsWhole ==
    \A t \in Tickets : /\ Predicted(t) => Exists(t)
                       /\ ~Predicted(t) => classifications[t].urgency = None

FlagsHitPrediction ==
    \A r \in Requests : (requests[r].phase # "idle" /\ requests[r].flags)
                            => Predicted(requests[r].ticket)

WorkerInv ==
    /\ OneRunner
    /\ RunnerSeesPending
    /\ ClassifiedIffPredicted
    /\ PredictionIsWhole
    /\ FlagsHitPrediction

\* Steps that touch neither the rows nor the flags of a request, and start no job.
LEMMA WorkerInvFrame ==
    ASSUME WorkerInv, TypeOK, UNCHANGED <<tickets, classifications>>,
           \A j \in Jobs : jobs'[j] = jobs[j] \/ jobs'[j].state # "running",
           \A r \in Requests : requests'[r] = requests[r] \/ ~requests'[r].flags
    PROVE  WorkerInv'
  BY DEF WorkerInv, OneRunner, RunnerSeesPending, ClassifiedIffPredicted,
         PredictionIsWhole, FlagsHitPrediction, Predicted, Exists, TypeOK

\* Every step of the specification preserves WorkerInv: one case per action that
\* writes a row, starts or ends a job of classify_ticket, or flags a prediction.
LEMMA WorkerInvStep ==
    ASSUME TypeOK, Grounded, WorkerInv, [Next]_vars
    PROVE  WorkerInv'
  <1>1. ASSUME NEW t \in Tickets, NEW c, NEW u, NEW s, ~Exists(t),
               tickets' = [tickets EXCEPT ![t] = NewTicket(c, u, s)],
               s # None, UNCHANGED <<classifications, requests, jobs>>
        PROVE  WorkerInv'
    BY <1>1 DEF NewTicket, WorkerInv, OneRunner, RunnerSeesPending, Grounded,
         ClassifiedIffPredicted, PredictionIsWhole, FlagsHitPrediction, Predicted, Exists, TypeOK
  <1>2. ASSUME NEW t \in Tickets, NEW c, NEW u, CreateTicket(t, c, u)
        PROVE  WorkerInv'
    BY <1>1, <1>2, ConstantsAssumption DEF CreateTicket, Statuses
  <1>3. ASSUME NEW t \in Tickets, NEW c, NEW s \in {"open", "escalated"}, CreateFromChat(t, c, s)
        PROVE  WorkerInv'
    BY <1>1, <1>3, ConstantsAssumption DEF CreateFromChat, Statuses
  <1>4. ASSUME NEW u \in Urgencies, NEW h \in Hours, UpdateUrgencyLevel(u, h)
        PROVE  WorkerInv'
    BY <1>4, WorkerInvFrame DEF UpdateUrgencyLevel
  <1>5. ASSUME NEW r \in Requests, NEW t \in Tickets, NEW role, NEW p,
               PatchRead(r, t, role, p) \/ EscalateRead(r, t)
        PROVE  WorkerInv'
    <2>1. UNCHANGED <<tickets, classifications, jobs>>
      BY <1>5 DEF PatchRead, EscalateRead
    <2>2. \A x \in Requests : requests'[x] = requests[x] \/ ~requests'[x].flags
      BY <1>5 DEF PatchRead, EscalateRead, TypeOK
    <2>3. QED BY <2>1, <2>2, WorkerInvFrame
  <1>5a. ASSUME NEW r \in Requests, Rollback(r)
         PROVE  WorkerInv'
    <2>1. \A x \in Requests : requests'[x] = requests[x] \/ ~requests'[x].flags
      BY <1>5a DEF Rollback, NoRequest, TypeOK
    <2>2. QED BY <1>5a, <2>1, WorkerInvFrame DEF Rollback
  <1>6. ASSUME NEW r \in Requests, PatchFlag(r)
        PROVE  WorkerInv'
    BY <1>6 DEF PatchFlag, WorkerInv, OneRunner, RunnerSeesPending,
         ClassifiedIffPredicted, PredictionIsWhole, FlagsHitPrediction, Predicted, Exists, TypeOK
  <1>7. ASSUME NEW r \in Requests, PatchCommit(r)
        PROVE  WorkerInv'
    <2> DEFINE q == requests[r]
    <2>1. q.ticket \in Tickets /\ Exists(q.ticket)
      BY <1>7 DEF PatchCommit, Grounded
    <2>2. /\ Written(q).classified = tickets[q.ticket].classified
          /\ Written(q).status # None
      BY <2>1 DEF Written, Flushed, Assigned, Exists
    <2> HIDE DEF q
    <2>3. \A t \in Tickets : /\ tickets'[t].classified = tickets[t].classified
                             /\ Exists(t) => Exists(t)'
      BY <1>7, <2>1, <2>2 DEF PatchCommit, TypeOK, Exists, q
    <2>4. \A t \in Tickets : /\ classifications'[t].category = classifications[t].category
                             /\ classifications'[t].urgency = classifications[t].urgency
      BY <1>7, <2>1 DEF PatchCommit, TypeOK, ClassificationRow, q
    <2>5. /\ jobs' = jobs
          /\ \A x \in Requests : requests'[x] = requests[x] \/ requests'[x].phase = "idle"
      BY <1>7 DEF PatchCommit, TypeOK, NoRequest
    <2>6. QED
      BY <2>3, <2>4, <2>5 DEF WorkerInv, OneRunner, RunnerSeesPending, ClassifiedIffPredicted,
         PredictionIsWhole, FlagsHitPrediction, Predicted, Grounded
  <1>8. ASSUME NEW t \in Tickets, EnqueueLost(t) \/ BecomeStale(t)
        PROVE  WorkerInv'
    BY <1>8, WorkerInvFrame DEF EnqueueLost, BecomeStale
  <1>9. ASSUME NEW j \in Jobs, NEW t \in Tickets,
               EnqueueClassification(j, t) \/ SweepPending(j, t)
        PROVE  WorkerInv'
    <2>1. \A i \in Jobs : jobs'[i] = jobs[i] \/ jobs'[i].state # "running"
      BY <1>9 DEF EnqueueClassification, SweepPending, Enqueued, TypeOK
    <2>2. QED BY <1>9, <2>1, WorkerInvFrame DEF EnqueueClassification, SweepPending
  <1>10. ASSUME NEW j \in Jobs, NEW c \in Categories, NEW u \in Urgencies,
                ClassifyTicket(j, c, u)
         PROVE  WorkerInv'
    <2>0. PICK t \in Tickets : t = jobs[j].ticket
      BY <1>10 DEF ClassifyTicket, Grounded
    <2>1. Exists(t) /\ c # None
      BY <1>10, <2>0, ConstantsAssumption DEF ClassifyTicket, Grounded
    <2>2. /\ tickets'[t].classified /\ Exists(t)' /\ Predicted(t)'
          /\ \A x \in Tickets \ {t} : /\ tickets'[x] = tickets[x]
                                      /\ classifications'[x] = classifications[x]
      BY <1>10, <2>0, <2>1 DEF ClassifyTicket, ClassifiedRow, TypeOK, Exists, Predicted
    <2>3. /\ jobs'[j].state = "committed"
          /\ \A i \in Jobs \ {j} : jobs'[i] = jobs[i]
      BY <1>10 DEF ClassifyTicket, TypeOK, Job
    <2>4. \A i \in Jobs \ {j} : jobs[i].state = "running" => jobs[i].ticket # t
      BY <1>10, <2>0 DEF ClassifyTicket, WorkerInv, OneRunner
    <2>5. requests' = requests
      BY <1>10 DEF ClassifyTicket
    <2>6. OneRunner' /\ RunnerSeesPending'
      BY <2>2, <2>3, <2>4 DEF WorkerInv, OneRunner, RunnerSeesPending, Grounded
    <2>7. ClassifiedIffPredicted' /\ PredictionIsWhole'
      BY <2>1, <2>2 DEF WorkerInv, ClassifiedIffPredicted, PredictionIsWhole, Predicted, Exists
    <2>8. FlagsHitPrediction'
      BY <2>2, <2>5 DEF WorkerInv, FlagsHitPrediction, Predicted, Grounded
    <2>9. QED BY <2>6, <2>7, <2>8 DEF WorkerInv
  <1>11. ASSUME NEW j \in Jobs, StartJob(j)
         PROVE  WorkerInv'
    <2>1. UNCHANGED <<tickets, classifications, requests>>
      BY <1>11 DEF StartJob
    <2>2. \A i \in Jobs \ {j} : jobs'[i] = jobs[i]
      BY <1>11 DEF StartJob, TypeOK
    <2>3. CASE tickets[jobs[j].ticket].classified
      <3>1. jobs'[j].state = "free"
        BY <1>11, <2>3 DEF StartJob, NoJob, TypeOK
      <3>2. QED BY <2>1, <2>2, <3>1, WorkerInvFrame
    <2>4. CASE ~tickets[jobs[j].ticket].classified
      <3>1. jobs'[j].ticket = jobs[j].ticket
        BY <1>11, <2>4 DEF StartJob, TypeOK
      <3>2. \A i \in Jobs \ {j} : jobs[i].state = "running" => jobs[i].ticket # jobs[j].ticket
        BY <1>11 DEF StartJob, RowLocked
      <3>3. QED
        BY <2>1, <2>2, <2>4, <3>1, <3>2
        DEF WorkerInv, OneRunner, RunnerSeesPending, ClassifiedIffPredicted, PredictionIsWhole,
            FlagsHitPrediction, Predicted, Exists
    <2>5. QED BY <2>3, <2>4
  <1>12. ASSUME NEW j \in Jobs, \/ ExpireJob(j) \/ TransientFailure(j) \/ PermanentFailure(j)
                                \/ AckJob(j) \/ CrashJob(j)
         PROVE  WorkerInv'
    <2>1. \A i \in Jobs : jobs'[i] = jobs[i] \/ jobs'[i].state # "running"
      BY <1>12 DEF ExpireJob, TransientFailure, PermanentFailure, AckJob, CrashJob, NoJob,
                   TypeOK, Job
    <2>2. UNCHANGED <<tickets, classifications, requests>>
      BY <1>12 DEF ExpireJob, TransientFailure, PermanentFailure, AckJob, CrashJob
    <2>3. QED BY <2>1, <2>2, WorkerInvFrame
  <1>13. CASE UNCHANGED vars
    BY <1>13, WorkerInvFrame DEF vars
  <1>14. QED
    BY <1>2, <1>3, <1>4, <1>5, <1>5a, <1>6, <1>7, <1>8, <1>9, <1>10, <1>11, <1>12, <1>13
    DEF Next, ApiNext, QueueNext

\* The worker's inductive invariant holds in every reachable state.
THEOREM WorkerInvariant == Spec => []WorkerInv
  <1>1. Init => WorkerInv
    BY ConstantsAssumption
    DEF Init, WorkerInv, OneRunner, RunnerSeesPending, ClassifiedIffPredicted, PredictionIsWhole,
        FlagsHitPrediction, Predicted, Exists, NoJob, NoTicket, NoClassification, NoRequest
  <1>2. QED
    BY <1>1, WorkerInvStep, TypeCorrect, PTL DEF Spec

\* classify_ticket stores classification_status and the classifications row as
\* one, for any number of duplicate jobs, crashes and concurrent PATCHes.
THEOREM ClassifiedWithPrediction == Spec => []ClassifiedIffPredicted
  BY WorkerInvariant, PTL DEF WorkerInv

\* A PATCH and a classification job never wait for each other's row lock.
THEOREM NoDeadlockOnRows == Spec => []NoLockCycle
  <1>1. WorkerInv /\ Grounded => NoLockCycle
    BY DEF WorkerInv, RunnerSeesPending, ClassifiedIffPredicted, FlagsHitPrediction,
           NoLockCycle, RowLocked, FlagLocked, Grounded
  <1>2. QED BY <1>1, WorkerInvariant, TypeCorrect, PTL

-----------------------------------------------------------------------------
(* Deadlines: what a request loaded and computed, against what is stored when *)
(* it flushes.                                                                *)

RequestFacts ==
    \A r \in Requests : requests[r].phase # "idle" =>
        LET q == requests[r] IN
        /\ (q.seen.sla = None) <=> (q.seen.urgency = None)
        /\ q.seen.urgency # None => tickets[q.ticket].urgency # None
        /\ Recategorises(q.payload) => Assigned(q.payload.urgency, q.seen.urgency) # None
        /\ q.phase = "read" => Recategorises(q.payload)
        /\ q.phase = "ready" => ((q.sla # None) <=> Recategorises(q.payload))

ClassifiedIsComplete == \A t \in Tickets : TaxonomyCheck(tickets[t])

DeadlineInv == RequestFacts /\ DeadlineIffUrgency /\ ClassifiedIsComplete

\* The UPDATE of a request, stale or not, keeps the deadline with the urgency and
\* empties no column.
LEMMA WrittenFacts ==
    ASSUME TypeOK, Grounded, DeadlineInv, NEW r \in Requests, requests[r].phase = "ready"
    PROVE  LET q == requests[r]  w == Written(q)  row == tickets[q.ticket] IN
           /\ (w.sla = None) <=> (w.urgency = None)
           /\ row.urgency # None => w.urgency # None
           /\ TaxonomyCheck(w)
  <1> DEFINE q == requests[r]
             w == Written(q)
             row == tickets[q.ticket]
             p == q.payload
             s == q.seen
  <1>1. q.ticket \in Tickets
    BY DEF Grounded
  <1>2. /\ w.category = Flushed(Assigned(p.category, s.category), s.category, row.category)
        /\ w.urgency = Flushed(Assigned(p.urgency, s.urgency), s.urgency, row.urgency)
        /\ w.sla = Flushed(Assigned(q.sla, s.sla), s.sla, row.sla)
        /\ w.classified = row.classified
    BY DEF Written
  <1>3. /\ (s.sla = None) <=> (s.urgency = None)
        /\ s.urgency # None => row.urgency # None
        /\ Recategorises(p) => Assigned(p.urgency, s.urgency) # None
        /\ (q.sla # None) <=> Recategorises(p)
    BY DEF DeadlineInv, RequestFacts
  <1>4. /\ (row.sla = None) <=> (row.urgency = None)
        /\ TaxonomyCheck(row)
    BY <1>1 DEF DeadlineInv, DeadlineIffUrgency, ClassifiedIsComplete
  <1> HIDE DEF q, w, row, p, s
  <1>5. /\ row.category # None => w.category # None
        /\ row.urgency # None => w.urgency # None
        /\ row.sla # None => w.sla # None
    BY <1>2, FlushedNotNull
  <1>6. TaxonomyCheck(w)
    BY <1>2, <1>4, <1>5 DEF TaxonomyCheck
  <1>7. (w.sla = None) <=> (w.urgency = None)
    <2>1. CASE row.urgency # None
      BY <2>1, <1>4, <1>5
    <2>2. CASE row.urgency = None /\ p.urgency # None
      BY <2>2, <1>2, <1>3, <1>4 DEF Flushed, Assigned, Recategorises
    <2>3. CASE row.urgency = None /\ p.urgency = None
      BY <2>3, <1>2, <1>3, <1>4 DEF Flushed, Assigned, Recategorises
    <2>4. QED BY <2>1, <2>2, <2>3
  <1>8. QED BY <1>5, <1>6, <1>7 DEF q, w, row

\* Steps that write neither a ticket nor a request.
LEMMA DeadlineFrame ==
    ASSUME DeadlineInv, UNCHANGED <<tickets, requests>>
    PROVE  DeadlineInv'
  BY DEF DeadlineInv, RequestFacts, DeadlineIffUrgency, ClassifiedIsComplete, TaxonomyCheck

\* Every step preserves DeadlineInv: what update_ticket and classify_ticket write
\* leaves sla_due_at and urgency_id NULL together.
LEMMA DeadlineInvStep ==
    ASSUME TypeOK, Grounded, DeadlineInv, [Next]_vars
    PROVE  DeadlineInv'
  <1>1. ASSUME NEW t \in Tickets, NEW c, NEW u \in Opt(Urgencies), NEW s, ~Exists(t),
               tickets' = [tickets EXCEPT ![t] = NewTicket(c, u, s)], requests' = requests
        PROVE  DeadlineInv'
    <2>1. (DueAt(u) = None) <=> (u = None)
      BY ConstantsAssumption DEF DueAt, TypeOK, Opt
    <2>2. \A r \in Requests : requests[r].phase # "idle" => requests[r].ticket # t
      BY <1>1 DEF Grounded
    <2>3. /\ tickets'[t].sla = DueAt(u) /\ tickets'[t].urgency = u /\ ~tickets'[t].classified
          /\ \A x \in Tickets \ {t} : tickets'[x] = tickets[x]
      BY <1>1 DEF NewTicket, TypeOK
    <2>4. RequestFacts'
      BY <1>1, <2>2, <2>3 DEF DeadlineInv, RequestFacts, Grounded
    <2>5. DeadlineIffUrgency' /\ ClassifiedIsComplete'
      BY <2>1, <2>3 DEF DeadlineInv, DeadlineIffUrgency, ClassifiedIsComplete, TaxonomyCheck
    <2>6. QED BY <2>4, <2>5 DEF DeadlineInv
  <1>2. ASSUME NEW t \in Tickets, NEW c, NEW u \in Opt(Urgencies), CreateTicket(t, c, u)
        PROVE  DeadlineInv'
    BY <1>1, <1>2 DEF CreateTicket
  <1>3. ASSUME NEW t \in Tickets, NEW c, NEW s, CreateFromChat(t, c, s)
        PROVE  DeadlineInv'
    BY <1>1, <1>3 DEF CreateFromChat, Opt
  <1>4. ASSUME NEW r \in Requests, NEW t \in Tickets, NEW role, NEW p, PatchRead(r, t, role, p)
        PROVE  DeadlineInv'
    <2>1. /\ requests'[r].seen = tickets[t] /\ requests'[r].ticket = t
          /\ requests'[r].payload = p /\ requests'[r].sla = None
          /\ requests'[r].phase = IF Recategorises(p) THEN "read" ELSE "ready"
          /\ \A x \in Requests \ {r} : requests'[x] = requests[x]
      BY <1>4 DEF PatchRead, TypeOK
    <2>2. UNCHANGED tickets /\ (Recategorises(p) => Assigned(p.urgency, tickets[t].urgency) # None)
      BY <1>4 DEF PatchRead
    <2>3. (tickets[t].sla = None) <=> (tickets[t].urgency = None)
      BY DEF DeadlineInv, DeadlineIffUrgency
    <2>4. RequestFacts'
      BY <2>1, <2>2, <2>3 DEF DeadlineInv, RequestFacts
    <2>5. QED
      BY <2>2, <2>4 DEF DeadlineInv, DeadlineIffUrgency, ClassifiedIsComplete, TaxonomyCheck
  <1>5. ASSUME NEW r \in Requests, NEW t \in Tickets, EscalateRead(r, t)
        PROVE  DeadlineInv'
    <2>1. /\ requests'[r].seen = tickets[t] /\ requests'[r].ticket = t
          /\ ~Recategorises(requests'[r].payload) /\ requests'[r].sla = None
          /\ requests'[r].phase = "ready"
          /\ \A x \in Requests \ {r} : requests'[x] = requests[x]
      BY <1>5 DEF EscalateRead, TypeOK, NoPayload, Recategorises
    <2>2. UNCHANGED tickets
      BY <1>5 DEF EscalateRead
    <2>3. (tickets[t].sla = None) <=> (tickets[t].urgency = None)
      BY DEF DeadlineInv, DeadlineIffUrgency
    <2>4. RequestFacts'
      BY <2>1, <2>2, <2>3 DEF DeadlineInv, RequestFacts
    <2>5. QED
      BY <2>2, <2>4 DEF DeadlineInv, DeadlineIffUrgency, ClassifiedIsComplete, TaxonomyCheck
  <1>6. ASSUME NEW r \in Requests, PatchFlag(r)
        PROVE  DeadlineInv'
    <2> DEFINE q == requests[r]
               u == Assigned(q.payload.urgency, q.seen.urgency)
    <2>1. u \in Opt(Urgencies)
      BY DEF TypeOK, Request, PatchPayload, TicketRow, Assigned
    <2>2. u # None /\ Recategorises(q.payload)
      BY <1>6 DEF PatchFlag, DeadlineInv, RequestFacts
    <2>3. DueAt(u) # None
      BY <2>1, <2>2, ConstantsAssumption DEF DueAt, TypeOK, Opt
    <2> HIDE DEF u
    <2>4. /\ requests'[r].seen = q.seen /\ requests'[r].ticket = q.ticket
          /\ requests'[r].payload = q.payload /\ requests'[r].sla = DueAt(u)
          /\ requests'[r].phase = "ready"
          /\ \A x \in Requests \ {r} : requests'[x] = requests[x]
      BY <1>6 DEF PatchFlag, TypeOK, u
    <2>5. UNCHANGED tickets /\ q.phase # "idle"
      BY <1>6 DEF PatchFlag
    <2>6. RequestFacts'
      BY <2>2, <2>3, <2>4, <2>5 DEF DeadlineInv, RequestFacts, u
    <2>7. QED
      BY <2>5, <2>6 DEF DeadlineInv, DeadlineIffUrgency, ClassifiedIsComplete, TaxonomyCheck
  <1>7. ASSUME NEW r \in Requests, PatchCommit(r)
        PROVE  DeadlineInv'
    <2>0. PICK t \in Tickets : t = requests[r].ticket
      BY <1>7 DEF PatchCommit, Grounded
    <2> DEFINE w == Written(requests[r])
    <2>1. /\ (w.sla = None) <=> (w.urgency = None)
          /\ tickets[t].urgency # None => w.urgency # None
          /\ TaxonomyCheck(w)
      BY <1>7, <2>0, WrittenFacts DEF PatchCommit
    <2>2. /\ tickets'[t] = w
          /\ \A x \in Tickets \ {t} : tickets'[x] = tickets[x]
      BY <1>7, <2>0 DEF PatchCommit, TypeOK
    <2>3. /\ requests'[r].phase = "idle"
          /\ \A x \in Requests \ {r} : requests'[x] = requests[x]
      BY <1>7 DEF PatchCommit, NoRequest, TypeOK
    <2> HIDE DEF w
    <2>4. RequestFacts'
      BY <2>1, <2>2, <2>3 DEF DeadlineInv, RequestFacts, Grounded
    <2>5. DeadlineIffUrgency' /\ ClassifiedIsComplete'
      BY <2>1, <2>2 DEF DeadlineInv, DeadlineIffUrgency, ClassifiedIsComplete, TaxonomyCheck
    <2>6. QED BY <2>4, <2>5 DEF DeadlineInv
  <1>8. ASSUME NEW r \in Requests, Rollback(r)
        PROVE  DeadlineInv'
    <2>1. /\ requests'[r].phase = "idle"
          /\ \A x \in Requests \ {r} : requests'[x] = requests[x]
          /\ UNCHANGED tickets
      BY <1>8 DEF Rollback, NoRequest, TypeOK
    <2>2. QED
      BY <2>1 DEF DeadlineInv, RequestFacts, DeadlineIffUrgency, ClassifiedIsComplete,
                  TaxonomyCheck
  <1>9. ASSUME NEW j \in Jobs, NEW c \in Categories, NEW u \in Urgencies,
               ClassifyTicket(j, c, u)
        PROVE  DeadlineInv'
    <2>0. PICK t \in Tickets : t = jobs[j].ticket
      BY <1>9 DEF ClassifyTicket, Grounded
    <2>1. DueAt(u) # None /\ u # None /\ c # None
      BY ConstantsAssumption DEF DueAt, TypeOK
    <2>2. /\ tickets'[t].sla = DueAt(u) /\ tickets'[t].urgency = u /\ tickets'[t].category = c
          /\ \A x \in Tickets \ {t} : tickets'[x] = tickets[x]
          /\ requests' = requests
      BY <1>9, <2>0 DEF ClassifyTicket, ClassifiedRow, TypeOK
    <2>3. RequestFacts'
      BY <2>1, <2>2 DEF DeadlineInv, RequestFacts, Grounded
    <2>4. DeadlineIffUrgency' /\ ClassifiedIsComplete'
      BY <2>1, <2>2 DEF DeadlineInv, DeadlineIffUrgency, ClassifiedIsComplete, TaxonomyCheck
    <2>5. QED BY <2>3, <2>4 DEF DeadlineInv
  <1>10. ASSUME UNCHANGED <<tickets, requests>>
         PROVE  DeadlineInv'
    BY <1>10, DeadlineFrame
  <1>11. QED
    BY <1>2, <1>3, <1>4, <1>5, <1>6, <1>7, <1>8, <1>9, <1>10
    DEF Next, ApiNext, QueueNext, vars, UpdateUrgencyLevel, EnqueueLost, BecomeStale,
        EnqueueClassification, SweepPending, StartJob, ExpireJob, TransientFailure,
        PermanentFailure, AckJob, CrashJob

\* The facts about open requests that make the next two theorems inductive.
THEOREM DeadlineInvariant == Spec => []DeadlineInv
  <1>1. Init => DeadlineInv
    BY DEF Init, DeadlineInv, RequestFacts, DeadlineIffUrgency, ClassifiedIsComplete,
           TaxonomyCheck, NoTicket, NoRequest
  <1>2. QED
    BY <1>1, DeadlineInvStep, TypeCorrect, PTL DEF Spec

\* update_ticket, create_ticket and classify_ticket keep sla_due_at and urgency_id
\* together, whatever the interleaving of their transactions.
THEOREM DeadlineWithUrgency == Spec => []DeadlineIffUrgency
  BY DeadlineInvariant, PTL DEF DeadlineInv

\* A stale PATCH never empties a column that the worker filled.
THEOREM PatchKeepsTaxonomy == Spec => []PatchNeverUnclassifies
  <1>1. TypeOK /\ Grounded /\ DeadlineInv => PatchNeverUnclassifies
    BY WrittenFacts DEF PatchNeverUnclassifies
  <1>2. QED BY <1>1, DeadlineInvariant, TypeCorrect, PTL

-----------------------------------------------------------------------------
\* A resolved or closed ticket has its audit row: whoever writes a terminal
\* status loaded another one, so update_ticket recorded the transition.
THEOREM TerminalRecorded == Spec => []TerminalIsRecorded
  <1>1. Init => TerminalIsRecorded
    BY ConstantsAssumption DEF Init, TerminalIsRecorded, NoTicket, Terminal, Statuses
  <1>2. ASSUME TypeOK, Grounded, TerminalIsRecorded, [Next]_vars
        PROVE  TerminalIsRecorded'
    <2>1. ASSUME NEW t \in Tickets, NEW c, NEW u, NEW s \in {"open", "escalated"},
                 tickets' = [tickets EXCEPT ![t] = NewTicket(c, u, s)],
                 resolved_events' = resolved_events
          PROVE  TerminalIsRecorded'
      BY <1>2, <2>1 DEF TerminalIsRecorded, NewTicket, TypeOK, Terminal
    <2>2. ASSUME NEW t \in Tickets, NEW c, NEW u, CreateTicket(t, c, u)
          PROVE  TerminalIsRecorded'
      BY <2>1, <2>2 DEF CreateTicket
    <2>3. ASSUME NEW t \in Tickets, NEW c, NEW s \in {"open", "escalated"},
                 CreateFromChat(t, c, s)
          PROVE  TerminalIsRecorded'
      BY <2>1, <2>3 DEF CreateFromChat
    <2>4. ASSUME NEW r \in Requests, PatchCommit(r)
          PROVE  TerminalIsRecorded'
      <3> DEFINE q == requests[r]
      <3>0. PICK t \in Tickets : t = q.ticket
        BY <1>2, <2>4 DEF PatchCommit, Grounded
      <3>1. /\ tickets'[t] = Written(q)
            /\ \A x \in Tickets \ {t} : /\ tickets'[x] = tickets[x]
                                        /\ resolved_events'[x] = resolved_events[x]
            /\ resolved_events'[t] = IF Entered(q) THEN resolved_events[t] + 1
                                                   ELSE resolved_events[t]
        BY <1>2, <2>4, <3>0 DEF PatchCommit, TypeOK
      <3>2. Written(q).status = tickets[t].status \/ Entered(q)
               \/ Written(q).status \notin Terminal
        BY <3>0 DEF Written, Flushed, Assigned, Entered
      <3>3. resolved_events[t] \in Nat
        BY <1>2 DEF TypeOK
      <3>4. QED
        BY <1>2, <3>1, <3>2, <3>3 DEF TerminalIsRecorded
    <2>5. ASSUME NEW j \in Jobs, NEW c \in Categories, NEW u \in Urgencies,
                 ClassifyTicket(j, c, u)
          PROVE  TerminalIsRecorded'
      BY <1>2, <2>5 DEF ClassifyTicket, ClassifiedRow, TerminalIsRecorded, TypeOK
    <2>6. ASSUME UNCHANGED <<tickets, resolved_events>>
          PROVE  TerminalIsRecorded'
      BY <1>2, <2>6 DEF TerminalIsRecorded
    <2>7. QED
      BY <1>2, <2>2, <2>3, <2>4, <2>5, <2>6
      DEF Next, ApiNext, QueueNext, vars, UpdateUrgencyLevel, PatchRead, EscalateRead, PatchFlag,
          Rollback, EnqueueLost, BecomeStale, EnqueueClassification, SweepPending, StartJob,
          ExpireJob, TransientFailure, PermanentFailure, AckJob, CrashJob
  <1>3. QED
    BY <1>1, <1>2, TypeCorrect, PTL DEF Spec

-----------------------------------------------------------------------------
(* Refinement: every step of the lifecycle is a step of ClassifyOnce or leaves *)
(* its variables alone.                                                        *)

Known == {t \in Tickets : Exists(t)}

VerdictOf == [t \in Tickets |-> [category |-> classifications[t].category,
                                 urgency |-> classifications[t].urgency]]

TaxonomyOf == [t \in Tickets |-> [category |-> tickets[t].category,
                                  urgency |-> tickets[t].urgency]]

\* A step that leaves the mapped columns alone is a stuttering step.
LEMMA PromiseStutter ==
    ASSUME \A t \in Tickets : /\ tickets'[t].status = tickets[t].status
                              /\ tickets'[t].category = tickets[t].category
                              /\ tickets'[t].urgency = tickets[t].urgency
                              /\ classifications'[t].category = classifications[t].category
                              /\ classifications'[t].urgency = classifications[t].urgency
    PROVE  UNCHANGED <<Known, VerdictOf, TaxonomyOf>>
  BY DEF Known, VerdictOf, TaxonomyOf, Exists

\* The initial state of the lifecycle is one of the promise.
LEMMA PromiseInit == Init => Promise!Init
  BY ConstantsAssumption
  DEF Init, Promise!Init, Promise!Undecided, Promise!Verdict, Exists, NoTicket, NoClassification

\* create_ticket, and the chat tools' creation, is a Report of the promise.
LEMMA PromiseReport ==
    ASSUME TypeOK, NEW t \in Tickets, NEW c \in Opt(Categories), NEW u \in Opt(Urgencies),
           NEW s, s # None, ~Exists(t), UNCHANGED classifications,
           tickets' = [tickets EXCEPT ![t] = NewTicket(c, u, s)]
    PROVE  Promise!Next
  <1> DEFINE x == [category |-> c, urgency |-> u]
  <1>1. x \in Promise!Taxonomy
    BY DEF Promise!Taxonomy, Opt
  <1>2. /\ Exists(t)' /\ tickets'[t].category = c /\ tickets'[t].urgency = u
        /\ \A y \in Tickets \ {t} : tickets'[y] = tickets[y]
    BY DEF Exists, NewTicket, TypeOK
  <1>3. Known' = Known \cup {t} /\ t \notin Known
    BY <1>2 DEF Known, Exists
  <1>4. VerdictOf' = VerdictOf
    BY DEF VerdictOf
  <1>5. TaxonomyOf' = [TaxonomyOf EXCEPT ![t] = x]
    BY <1>2 DEF TaxonomyOf
  <1>6. Promise!Report(t)
    BY <1>1, <1>3, <1>4, <1>5 DEF Promise!Report, Known, VerdictOf, TaxonomyOf
  <1>7. QED BY <1>6 DEF Promise!Next

\* A commit of classify_ticket is a Decide of the promise.
LEMMA PromiseDecide ==
    ASSUME TypeOK, Grounded, WorkerInv, NEW j \in Jobs, NEW c \in Categories,
           NEW u \in Urgencies, ClassifyTicket(j, c, u)
    PROVE  Promise!Next
  <1>0. PICK t \in Tickets : t = jobs[j].ticket
    BY DEF ClassifyTicket, Grounded
  <1> DEFINE x == Promise!Verdict(c, u)
  <1>1. /\ tickets'[t].status = tickets[t].status
        /\ tickets'[t].category = c /\ tickets'[t].urgency = u
        /\ classifications'[t].category = c /\ classifications'[t].urgency = u
        /\ \A y \in Tickets \ {t} : /\ tickets'[y] = tickets[y]
                                    /\ classifications'[y] = classifications[y]
    BY <1>0 DEF ClassifyTicket, ClassifiedRow, TypeOK
  <1>2. Known' = Known /\ t \in Known
    BY <1>0, <1>1 DEF Known, Exists, ClassifyTicket, Grounded
  <1>3. VerdictOf[t] = Promise!Undecided
    <2>1. ~Predicted(t)
      BY <1>0 DEF WorkerInv, RunnerSeesPending, ClassifiedIffPredicted, ClassifyTicket
    <2>2. classifications[t].category = None /\ classifications[t].urgency = None
      BY <2>1 DEF WorkerInv, PredictionIsWhole, Predicted
    <2>3. QED BY <2>2 DEF VerdictOf, Promise!Undecided, Promise!Verdict
  <1>4. VerdictOf' = [VerdictOf EXCEPT ![t] = x] /\ TaxonomyOf' = [TaxonomyOf EXCEPT ![t] = x]
    BY <1>1 DEF VerdictOf, TaxonomyOf, Promise!Verdict
  <1>5. Promise!Decide(t)
    BY <1>2, <1>3, <1>4 DEF Promise!Decide, Known, VerdictOf, TaxonomyOf
  <1>6. QED BY <1>5 DEF Promise!Next

\* A commit of update_ticket is a Recategorise of the promise or a stutter.
LEMMA PromiseRecategorise ==
    ASSUME TypeOK, Grounded, WorkerInv, DeadlineInv, NEW r \in Requests, PatchCommit(r)
    PROVE  Promise!Next
  <1> DEFINE q == requests[r]
             w == Written(q)
             x == [category |-> w.category, urgency |-> w.urgency]
  <1>0. PICK t \in Tickets : t = q.ticket
    BY DEF PatchCommit, Grounded
  <1>1. /\ Exists(t) /\ w \in TicketRow /\ TaxonomyCheck(w)
        /\ w.status # None /\ w.classified = tickets[t].classified
    <2>1. Exists(t) /\ w \in TicketRow
      BY <1>0, WrittenIsRow DEF PatchCommit, Grounded
    <2>2. w.status # None /\ w.classified = tickets[t].classified
      BY <2>1, <1>0 DEF Written, Flushed, Assigned, Exists
    <2>3. QED BY <2>1, <2>2 DEF PatchCommit
  <1> HIDE DEF w
  <1>2. /\ tickets'[t] = w
        /\ \A y \in Tickets \ {t} : tickets'[y] = tickets[y]
    BY <1>0 DEF PatchCommit, TypeOK, w
  <1>3. \A y \in Tickets : /\ classifications'[y].category = classifications[y].category
                           /\ classifications'[y].urgency = classifications[y].urgency
    BY <1>0 DEF PatchCommit, TypeOK, ClassificationRow
  <1>4. x \in Promise!Taxonomy
    BY <1>1 DEF Promise!Taxonomy, TicketRow, Opt
  <1>5. Known' = Known /\ t \in Known
    BY <1>1, <1>2 DEF Known, Exists
  <1>6. VerdictOf' = VerdictOf
    BY <1>3 DEF VerdictOf
  <1>7. TaxonomyOf' = [TaxonomyOf EXCEPT ![t] = x]
    BY <1>2 DEF TaxonomyOf
  <1>8. VerdictOf[t] # Promise!Undecided => x.category # None /\ x.urgency # None
    <2>1. SUFFICES ASSUME VerdictOf[t] # Promise!Undecided
                   PROVE  Predicted(t)
      BY <1>1 DEF WorkerInv, ClassifiedIffPredicted, TaxonomyCheck
    <2>2. CASE ~Predicted(t)
      <3>1. classifications[t].category = None /\ classifications[t].urgency = None
        BY <2>2 DEF WorkerInv, PredictionIsWhole, Predicted
      <3>2. QED BY <2>1, <3>1 DEF VerdictOf, Promise!Undecided, Promise!Verdict
    <2>3. QED BY <2>2
  <1>9. Promise!Recategorise(t)
    BY <1>4, <1>5, <1>6, <1>7, <1>8 DEF Promise!Recategorise, Known, VerdictOf, TaxonomyOf
  <1>10. QED BY <1>9 DEF Promise!Next

\* The ticket lifecycle, with its queue, crashes and unlocked PATCHes, implements
\* the promise that a ticket is classified at most once and atomically.
THEOREM LifecycleImplementsPromise == Spec => ClassifiesOnce
  <1>1. ASSUME TypeOK, Grounded, WorkerInv, DeadlineInv, [Next]_vars
        PROVE  [Promise!Next]_(Promise!vars)
    <2>1. ASSUME NEW t \in Tickets, NEW c \in Opt(Categories), NEW u \in Opt(Urgencies),
                 CreateTicket(t, c, u)
          PROVE  Promise!Next
      BY <1>1, <2>1, PromiseReport, ConstantsAssumption DEF CreateTicket, Statuses
    <2>2. ASSUME NEW t \in Tickets, NEW c \in Opt(Categories), NEW s \in {"open", "escalated"},
                 CreateFromChat(t, c, s)
          PROVE  Promise!Next
      BY <1>1, <2>2, PromiseReport, ConstantsAssumption DEF CreateFromChat, Statuses, Opt
    <2>3. ASSUME NEW r \in Requests, PatchCommit(r)
          PROVE  Promise!Next
      BY <1>1, <2>3, PromiseRecategorise
    <2>4. ASSUME NEW j \in Jobs, NEW c \in Categories, NEW u \in Urgencies,
                 ClassifyTicket(j, c, u)
          PROVE  Promise!Next
      BY <1>1, <2>4, PromiseDecide
    <2>5. ASSUME UNCHANGED <<tickets, classifications>>
          PROVE  UNCHANGED Promise!vars
      BY <2>5, PromiseStutter DEF Promise!vars, Known, VerdictOf, TaxonomyOf
    <2>6. QED
      BY <1>1, <2>1, <2>2, <2>3, <2>4, <2>5
      DEF Next, ApiNext, QueueNext, vars, UpdateUrgencyLevel, PatchRead, EscalateRead, PatchFlag,
          Rollback, EnqueueLost, BecomeStale, EnqueueClassification, SweepPending, StartJob,
          ExpireJob, TransientFailure, PermanentFailure, AckJob, CrashJob
  <1>2. QED
    BY <1>1, PromiseInit, TypeCorrect, WorkerInvariant, DeadlineInvariant, PTL
    DEF Spec, ClassifiesOnce, Promise!Spec

=============================================================================
