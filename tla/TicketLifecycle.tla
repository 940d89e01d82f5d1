--------------------------- MODULE TicketLifecycle ---------------------------
(***************************************************************************)
(* The `tickets` row of one organization and everybody who writes it:      *)
(*                                                                         *)
(*   - the API handlers create_ticket and update_ticket (PATCH), which run *)
(*     in a request transaction without locking the row;                   *)
(*   - the chatbot's escalate_to_human, which writes `status` directly;    *)
(*   - the arq job classify_ticket, which holds SELECT ... FOR UPDATE on   *)
(*     the row for as long as the classifier runs;                         *)
(*   - the cron sweep_pending_classifications, which enqueues the job      *)
(*     again for every ticket that is still pending.                       *)
(*                                                                         *)
(* A transaction is split where another one can slip in: a PATCH reads the *)
(* row, later flags the classification, later flushes and commits.  What   *)
(* the ORM flushes is the columns whose assigned value differs from the    *)
(* LOADED one, so a stale PATCH overwrites some columns and not others.    *)
(*                                                                         *)
(* Data: created_at is fixed, so the SLA instant computed for a ticket is  *)
(* represented by the sla_hours it was computed from.  The taxonomy rows   *)
(* are all active here.                                                    *)
(***************************************************************************)
EXTENDS Integers, FiniteSets

CONSTANTS
    Tickets,      \* tickets that may be created
    Categories,   \* rows of `categories`
    Urgencies,    \* rows of `urgency_levels`
    Hours,        \* values of urgency_levels.sla_hours
    Agents,       \* staff users, the legal values of agent_id
    Requests,     \* request transactions that may be open at the same time
    Payloads,     \* PATCH bodies the clients send
    Jobs,         \* slots of the arq queue
    MaxTries,     \* WorkerSettings.max_tries
    MaxResolved,  \* no PATCH to a terminal status after so many resolved events
    None          \* SQL NULL, an absent row, an unset JSON field

Statuses == {"open", "in_progress", "waiting_on_customer", "resolved",
             "closed", "escalated"}

Terminal == {"resolved", "closed"}

Opt(S) == S \cup {None}

PatchPayload == [status: Opt(Statuses), agent: Opt(Agents),
                 category: Opt(Categories), urgency: Opt(Urgencies)]

ASSUME ConstantsAssumption ==
    /\ MaxTries \in Nat \ {0}
    /\ MaxResolved \in Nat
    /\ Hours \subseteq Nat
    /\ Payloads \subseteq PatchPayload
    /\ None \notin Tickets /\ None \notin Categories /\ None \notin Urgencies
    /\ None \notin Hours /\ None \notin Agents /\ None \notin Statuses

(* Rows.  A ticket or classification that does not exist is a row of NULLs. *)
TicketRow == [status: Opt(Statuses), closed_at: BOOLEAN, agent: Opt(Agents),
              category: Opt(Categories), urgency: Opt(Urgencies),
              sla: Opt(Hours), classified: BOOLEAN]

NoTicket == [status |-> None, closed_at |-> FALSE, agent |-> None,
             category |-> None, urgency |-> None, sla |-> None,
             classified |-> FALSE]

ClassificationRow == [category: Opt(Categories), urgency: Opt(Urgencies),
                      human_corrected: BOOLEAN]

NoClassification == [category |-> None, urgency |-> None,
                     human_corrected |-> FALSE]

Request == [phase: {"idle", "read", "ready"}, ticket: Opt(Tickets),
            payload: PatchPayload, clears_closed_at: BOOLEAN,
            seen: TicketRow, sla: Opt(Hours), flags: BOOLEAN]

NoPayload == [status |-> None, agent |-> None, category |-> None,
              urgency |-> None]

NoRequest == [phase |-> "idle", ticket |-> None, payload |-> NoPayload,
              clears_closed_at |-> FALSE, seen |-> NoTicket,
              sla |-> None, flags |-> FALSE]

Job == [state: {"free", "queued", "running", "committed"},
        ticket: Opt(Tickets), tries: 0..MaxTries]

NoJob == [state |-> "free", ticket |-> None, tries |-> 0]

VARIABLES
    tickets,          \* the table, one row per id
    classifications,  \* the table, at most one row per ticket
    resolved_events,  \* number of `resolved` rows of sla_events per ticket
    sla_hours,        \* urgency_levels.sla_hours
    stale,            \* tickets created more than _SWEEP_STALE_AFTER ago
    background,       \* committed requests whose enqueue has not run yet
    requests,         \* open PATCH and escalation transactions
    jobs              \* classify_ticket jobs known to arq

vars == <<tickets, classifications, resolved_events, sla_hours, stale,
          background, requests, jobs>>

Exists(t) == tickets[t].status # None

Predicted(t) == classifications[t].category # None

Init ==
    /\ tickets = [t \in Tickets |-> NoTicket]
    /\ classifications = [t \in Tickets |-> NoClassification]
    /\ resolved_events = [t \in Tickets |-> 0]
    /\ sla_hours \in [Urgencies -> Hours]
    /\ stale = {}
    /\ background = {}
    /\ requests = [r \in Requests |-> NoRequest]
    /\ jobs = [j \in Jobs |-> NoJob]

-----------------------------------------------------------------------------
(* Locks and constraints of PostgreSQL. *)

\* A job between its SELECT ... FOR UPDATE and the end of its transaction.
RowLocked(t) == \E j \in Jobs : jobs[j].state = "running" /\ jobs[j].ticket = t

\* The UPDATE of mark_human_corrected locks the classifications row until the
\* end of the request's transaction.
FlagLocked(t) ==
    \E r \in Requests : /\ requests[r].phase = "ready"
                        /\ requests[r].ticket = t
                        /\ requests[r].flags

\* ck_tickets_closed_at_matches_status
ClosedCheck(row) == row.closed_at <=> (row.status = "closed")

\* ck_tickets_classified_has_taxonomy
TaxonomyCheck(row) ==
    row.classified => /\ row.category # None
                      /\ row.urgency # None
                      /\ row.sla # None

-----------------------------------------------------------------------------
(* POST /tickets, the e-mail webhook and the chatbot's tools. *)

\* resolve_sla_due_at, up to the fixed anchor created_at.
DueAt(u) == IF u = None THEN None ELSE sla_hours[u]

NewTicket(c, u, s) ==
    [status |-> s, closed_at |-> FALSE, agent |-> None, category |-> c,
     urgency |-> u, sla |-> DueAt(u), classified |-> FALSE]

\* The row's classification_status is 'pending' in both branches of
\* create_ticket: set explicitly without a taxonomy, and the column's default
\* with one.  The handler sees 'pending' and adds the background task.
CreateTicket(t, c, u) ==
    /\ ~Exists(t)
    /\ (c = None) = (u = None)
    /\ tickets' = [tickets EXCEPT ![t] = NewTicket(c, u, "open")]
    /\ background' = background \cup {t}
    /\ UNCHANGED <<classifications, resolved_events, sla_hours, stale,
                   requests, jobs>>

\* The chat tools create_ticket (open, no taxonomy) and escalate_to_human
\* (escalated, the "General" category if there is one).  Neither enqueues.
CreateFromChat(t, c, s) ==
    /\ ~Exists(t)
    /\ s = "open" => c = None
    /\ tickets' = [tickets EXCEPT ![t] = NewTicket(c, None, s)]
    /\ UNCHANGED <<classifications, resolved_events, sla_hours, stale,
                   background, requests, jobs>>

\* PATCH /urgency-levels/{id}: later SLA computations use the new hours.
UpdateUrgencyLevel(u, h) ==
    /\ sla_hours[u] # h
    /\ sla_hours' = [sla_hours EXCEPT ![u] = h]
    /\ UNCHANGED <<tickets, classifications, resolved_events, stale,
                   background, requests, jobs>>

-----------------------------------------------------------------------------
(* PATCH /tickets/{id} and escalate_to_human on a linked ticket. *)

Recategorises(p) == p.category # None \/ p.urgency # None

\* The role gates of update_ticket, checked before the row is read.
Permitted(role, p) ==
    \/ role = "staff"
    \/ p.agent = None /\ p.status \notin Terminal /\ ~Recategorises(p)

Assigned(new, loaded) == IF new = None THEN loaded ELSE new

\* get_or_404 without a lock; a recategorisation needs an urgency level, its
\* own or the row's, else the lookup of NULL answers 404.
PatchRead(r, t, role, p) ==
    /\ requests[r].phase = "idle"
    /\ Permitted(role, p)
    /\ Exists(t)
    /\ p.status \in Terminal => resolved_events[t] < MaxResolved
    /\ Recategorises(p) => Assigned(p.urgency, tickets[t].urgency) # None
    /\ requests' = [requests EXCEPT ![r] =
            [phase |-> IF Recategorises(p) THEN "read" ELSE "ready",
             ticket |-> t, payload |-> p, clears_closed_at |-> TRUE,
             seen |-> tickets[t], sla |-> None, flags |-> FALSE]]
    /\ UNCHANGED <<tickets, classifications, resolved_events, sla_hours,
                   stale, background, jobs>>

\* Mutant: the recategorisation forgets to recompute the deadline.
PatchFlagKeepsDeadline(r) ==
    LET q == requests[r] IN
    /\ q.phase = "read"
    /\ ~FlagLocked(q.ticket)
    /\ requests' = [requests EXCEPT ![r].phase = "ready",
                                    ![r].flags = Predicted(q.ticket)]
    /\ UNCHANGED <<tickets, classifications, resolved_events, sla_hours,
                   stale, background, jobs>>

\* The recategorisation branch: SLA of the effective urgency, then
\* mark_human_corrected, which touches the row only if it is there already.
PatchFlag(r) ==
    LET q == requests[r] IN
    /\ q.phase = "read"
    /\ ~FlagLocked(q.ticket)
    /\ requests' = [requests EXCEPT ![r] =
            [phase |-> "ready", ticket |-> q.ticket, payload |-> q.payload,
             clears_closed_at |-> TRUE, seen |-> q.seen,
             sla |-> DueAt(Assigned(q.payload.urgency, q.seen.urgency)),
             flags |-> Predicted(q.ticket)]]
    /\ UNCHANGED <<tickets, classifications, resolved_events, sla_hours,
                   stale, background, jobs>>

\* escalate_to_human assigns `status` through TicketRepository.update and
\* leaves closed_at alone.
EscalateRead(r, t) ==
    /\ requests[r].phase = "idle"
    /\ Exists(t)
    /\ requests' = [requests EXCEPT ![r] =
            [phase |-> "ready", ticket |-> t,
             payload |-> [NoPayload EXCEPT !.status = "escalated"],
             clears_closed_at |-> FALSE,
             seen |-> tickets[t], sla |-> None, flags |-> FALSE]]
    /\ UNCHANGED <<tickets, classifications, resolved_events, sla_hours,
                   stale, background, jobs>>

\* Mutant: the whole row is written back, stale columns too.
FlushedAlways(assigned, loaded, stored) == assigned

\* A column the unit of work flushes: only a net change against the loaded
\* value is part of the UPDATE, every other column keeps what is stored.
Flushed(assigned, loaded, stored) ==
    IF assigned = loaded THEN stored ELSE assigned

\* The row after the request's UPDATE.  closed_at is now() for "closed", which
\* never equals a loaded timestamp, and NULL for every other status.
Written(q) ==
    LET row == tickets[q.ticket]  p == q.payload  s == q.seen IN
    [status |-> Flushed(Assigned(p.status, s.status), s.status, row.status),
     closed_at |-> IF /\ q.clears_closed_at
                      /\ p.status # None
                      /\ p.status = "closed" \/ s.closed_at
                     THEN p.status = "closed" ELSE row.closed_at,
     agent |-> Flushed(Assigned(p.agent, s.agent), s.agent, row.agent),
     category |-> Flushed(Assigned(p.category, s.category), s.category,
                          row.category),
     urgency |-> Flushed(Assigned(p.urgency, s.urgency), s.urgency,
                         row.urgency),
     sla |-> Flushed(Assigned(q.sla, s.sla), s.sla, row.sla),
     classified |-> row.classified]

\* Mutant: closing a ticket is not recorded.
EnteredResolvedOnly(q) ==
    q.payload.status = "resolved" /\ q.seen.status # q.payload.status

\* entered_resolved_or_closed
Entered(q) == q.payload.status \in Terminal /\ q.seen.status # q.payload.status

\* The flush waits for the row lock; UPDATE, the `resolved` event and COMMIT.
PatchCommit(r) ==
    LET q == requests[r]  t == q.ticket IN
    /\ q.phase = "ready"
    /\ ~RowLocked(t)
    /\ ClosedCheck(Written(q)) /\ TaxonomyCheck(Written(q))
    /\ tickets' = [tickets EXCEPT ![t] = Written(q)]
    /\ classifications' = [classifications EXCEPT
            ![t].human_corrected = @ \/ q.flags]
    /\ resolved_events' = [resolved_events EXCEPT
            ![t] = IF Entered(q) THEN @ + 1 ELSE @]
    /\ requests' = [requests EXCEPT ![r] = NoRequest]
    /\ UNCHANGED <<sla_hours, stale, background, jobs>>

\* get_session rolls back: a CHECK refused the UPDATE, the client went away,
\* or the API process died.
Rollback(r) ==
    /\ requests[r].phase # "idle"
    /\ requests' = [requests EXCEPT ![r] = NoRequest]
    /\ UNCHANGED <<tickets, classifications, resolved_events, sla_hours,
                   stale, background, jobs>>

-----------------------------------------------------------------------------
(* The arq queue and the classification worker. *)

Enqueued(j, t) == [jobs EXCEPT ![j] = [state |-> "queued", ticket |-> t,
                                       tries |-> 0]]

\* enqueue_classification, run by BackgroundTasks after the commit.
EnqueueClassification(j, t) ==
    /\ t \in background
    /\ jobs[j].state = "free"
    /\ jobs' = Enqueued(j, t)
    /\ background' = background \ {t}
    /\ UNCHANGED <<tickets, classifications, resolved_events, sla_hours,
                   stale, requests>>

\* Redis is down, or the API process dies between the commit and the task.
EnqueueLost(t) ==
    /\ t \in background
    /\ background' = background \ {t}
    /\ UNCHANGED <<tickets, classifications, resolved_events, sla_hours,
                   stale, requests, jobs>>

\* Five minutes pass since created_at.
BecomeStale(t) ==
    /\ Exists(t) /\ t \notin stale
    /\ stale' = stale \cup {t}
    /\ UNCHANGED <<tickets, classifications, resolved_events, sla_hours,
                   background, requests, jobs>>

\* Mutant: the sweep looks for tickets without a taxonomy.
SweepWithoutTaxonomy(j, t) ==
    /\ t \in stale
    /\ ~tickets[t].classified /\ tickets[t].urgency = None
    /\ jobs[j].state = "free"
    /\ jobs' = Enqueued(j, t)
    /\ UNCHANGED <<tickets, classifications, resolved_events, sla_hours,
                   stale, background, requests>>

\* One iteration of the cron's loop: arq gives every enqueue a fresh job id, so
\* a ticket may have several jobs.
SweepPending(j, t) ==
    /\ t \in stale
    /\ ~tickets[t].classified
    /\ jobs[j].state = "free"
    /\ jobs' = Enqueued(j, t)
    /\ UNCHANGED <<tickets, classifications, resolved_events, sla_hours,
                   stale, background, requests>>

\* Mutant: the status is not checked again under the lock.
StartJobUnchecked(j) ==
    LET t == jobs[j].ticket IN
    /\ jobs[j].state = "queued"
    /\ jobs[j].tries < MaxTries
    /\ ~RowLocked(t)
    /\ jobs' = [jobs EXCEPT ![j].state = "running", ![j].tries = @ + 1]
    /\ UNCHANGED <<tickets, classifications, resolved_events, sla_hours,
                   stale, background, requests>>

\* arq starts a try; get_or_404(for_update=True) waits for the row lock, then
\* the status is checked again under it.
StartJob(j) ==
    LET t == jobs[j].ticket IN
    /\ jobs[j].state = "queued"
    /\ jobs[j].tries < MaxTries
    /\ ~RowLocked(t)
    /\ jobs' = [jobs EXCEPT ![j] =
            IF tickets[t].classified
              THEN NoJob
              ELSE [state |-> "running", ticket |-> t,
                    tries |-> jobs[j].tries + 1]]
    /\ UNCHANGED <<tickets, classifications, resolved_events, sla_hours,
                   stale, background, requests>>

\* arq gives up on a job that has used its tries.
ExpireJob(j) ==
    /\ jobs[j].state = "queued"
    /\ jobs[j].tries = MaxTries
    /\ jobs' = [jobs EXCEPT ![j] = NoJob]
    /\ UNCHANGED <<tickets, classifications, resolved_events, sla_hours,
                   stale, background, requests>>

\* Mutant: the classifications row is left out of the transaction.
ClassifyWithoutUpsert(j, c, u) ==
    LET t == jobs[j].ticket IN
    /\ jobs[j].state = "running"
    /\ tickets' = [tickets EXCEPT ![t].category = c, ![t].urgency = u,
                                  ![t].sla = DueAt(u), ![t].classified = TRUE]
    /\ jobs' = [jobs EXCEPT ![j].state = "committed"]
    /\ UNCHANGED <<classifications, resolved_events, sla_hours, stale,
                   background, requests>>

ClassifiedRow(row, c, u) ==
    [status |-> row.status, closed_at |-> row.closed_at, agent |-> row.agent,
     category |-> c, urgency |-> u, sla |-> DueAt(u), classified |-> TRUE]

\* The classifier answered: the ticket, the upserted classifications row and
\* the commit.  The upsert leaves human_corrected of an existing row alone, and
\* waits for whoever has locked that row.
ClassifyTicket(j, c, u) ==
    LET t == jobs[j].ticket IN
    /\ jobs[j].state = "running"
    /\ ~FlagLocked(t)
    /\ tickets' = [tickets EXCEPT ![t] = ClassifiedRow(@, c, u)]
    /\ classifications' = [classifications EXCEPT ![t] =
            [category |-> c, urgency |-> u,
             human_corrected |-> @.human_corrected]]
    /\ jobs' = [jobs EXCEPT ![j].state = "committed"]
    /\ UNCHANGED <<resolved_events, sla_hours, stale, background, requests>>

\* ClassificationTransientError: arq.Retry, the session is closed.
TransientFailure(j) ==
    /\ jobs[j].state = "running"
    /\ jobs' = [jobs EXCEPT ![j].state = "queued"]
    /\ UNCHANGED <<tickets, classifications, resolved_events, sla_hours,
                   stale, background, requests>>

\* ClassificationUnavailableError: the job returns and the ticket stays
\* pending.  Any other exception ends the job the same way.
PermanentFailure(j) ==
    /\ jobs[j].state = "running"
    /\ jobs' = [jobs EXCEPT ![j] = NoJob]
    /\ UNCHANGED <<tickets, classifications, resolved_events, sla_hours,
                   stale, background, requests>>

\* arq records the result of a finished try.
AckJob(j) ==
    /\ jobs[j].state = "committed"
    /\ jobs' = [jobs EXCEPT ![j] = NoJob]
    /\ UNCHANGED <<tickets, classifications, resolved_events, sla_hours,
                   stale, background, requests>>

\* The worker dies during a try, before or after its commit; PostgreSQL drops
\* the lock and arq delivers the job again.
CrashJob(j) ==
    /\ jobs[j].state \in {"running", "committed"}
    /\ jobs' = [jobs EXCEPT ![j].state = "queued"]
    /\ UNCHANGED <<tickets, classifications, resolved_events, sla_hours,
                   stale, background, requests>>

-----------------------------------------------------------------------------
ApiNext ==
    \/ \E t \in Tickets, c \in Opt(Categories), u \in Opt(Urgencies) :
            CreateTicket(t, c, u)
    \/ \E t \in Tickets, c \in Opt(Categories), s \in {"open", "escalated"} :
            CreateFromChat(t, c, s)
    \/ \E u \in Urgencies, h \in Hours : UpdateUrgencyLevel(u, h)
    \/ \E r \in Requests, t \in Tickets, role \in {"staff", "member"},
          p \in Payloads : PatchRead(r, t, role, p)
    \/ \E r \in Requests, t \in Tickets : EscalateRead(r, t)
    \/ \E r \in Requests : PatchFlag(r) \/ PatchCommit(r) \/ Rollback(r)

QueueNext ==
    \/ \E t \in Tickets : EnqueueLost(t) \/ BecomeStale(t)
    \/ \E j \in Jobs, t \in Tickets :
            EnqueueClassification(j, t) \/ SweepPending(j, t)
    \/ \E j \in Jobs, c \in Categories, u \in Urgencies :
            ClassifyTicket(j, c, u)
    \/ \E j \in Jobs : \/ StartJob(j) \/ ExpireJob(j) \/ TransientFailure(j)
                       \/ PermanentFailure(j) \/ AckJob(j) \/ CrashJob(j)

Next == ApiNext \/ QueueNext

Spec == Init /\ [][Next]_vars

(* arq polls for ever and the cron runs every five minutes (strong fairness     *)
(* because a slot of the bounded queue or the row lock may be taken for a       *)
(* while); the classifier is not down for good, so a ticket that is tried again *)
(* and again gets an answer.  Clients, crashes and failures owe nothing.        *)
Fairness ==
    /\ \A t \in Tickets :
          /\ WF_vars(BecomeStale(t))
          /\ SF_vars(\E j \in Jobs : SweepPending(j, t))
          /\ SF_vars(\E j \in Jobs, c \in Categories, u \in Urgencies :
                        jobs[j].ticket = t /\ ClassifyTicket(j, c, u))
    /\ \A j \in Jobs : /\ SF_vars(StartJob(j))
                       /\ WF_vars(ExpireJob(j))
                       /\ WF_vars(AckJob(j))

FairSpec == Spec /\ Fairness

-----------------------------------------------------------------------------
(* Properties. *)

\* Every variable keeps the shape of its table or queue.
TypeOK ==
    /\ tickets \in [Tickets -> TicketRow]
    /\ classifications \in [Tickets -> ClassificationRow]
    /\ resolved_events \in [Tickets -> Nat]
    /\ sla_hours \in [Urgencies -> Hours]
    /\ stale \in SUBSET Tickets
    /\ background \in SUBSET Tickets
    /\ requests \in [Requests -> Request]
    /\ jobs \in [Jobs -> Job]

\* classify_ticket commits the ticket's classification_status and the
\* classifications row together, whatever crashed or was delivered twice.
ClassifiedIffPredicted ==
    \A t \in Tickets : tickets[t].classified <=> Predicted(t)

\* No stale PATCH of update_ticket, flushed after the worker's commit, takes a
\* column the worker filled back to NULL: its UPDATE never runs into
\* ck_tickets_classified_has_taxonomy.
PatchNeverUnclassifies ==
    \A r \in Requests : requests[r].phase = "ready"
                            => TaxonomyCheck(Written(requests[r]))

\* A ticket has an SLA deadline exactly when it has an urgency level, although
\* three writers set the two columns: monitor_sla sees every classified ticket.
DeadlineIffUrgency ==
    \A t \in Tickets : (tickets[t].sla = None) <=> (tickets[t].urgency = None)

\* A PATCH locks the classifications row and then the ticket, classify_ticket
\* the ticket and then the classifications row: the two never hold one lock
\* each, so they never wait for each other.
NoLockCycle == \A t \in Tickets : ~(RowLocked(t) /\ FlagLocked(t))

\* A resolved or closed ticket has a `resolved` audit row, also when PATCHes
\* that read the same old status commit one after the other.
TerminalIsRecorded ==
    \A t \in Tickets : tickets[t].status \in Terminal => resolved_events[t] > 0

\* Every ticket is classified in the end: the sweep makes up for lost enqueues,
\* expired jobs and permanent failures.  (Rows are never deleted, so this says
\* the same as Exists(t) ~> tickets[t].classified.)
PendingGetsClassified ==
    \A t \in Tickets : []<>(Exists(t) => tickets[t].classified)

\* The lifecycle implements the promise of module ClassifyOnce.
Promise == INSTANCE ClassifyOnce WITH
    known <- {t \in Tickets : Exists(t)},
    verdict <- [t \in Tickets |-> [category |-> classifications[t].category,
                                   urgency |-> classifications[t].urgency]],
    taxonomy <- [t \in Tickets |-> [category |-> tickets[t].category,
                                    urgency |-> tickets[t].urgency]]

\* classify_ticket decides a ticket at most once, atomically with its taxonomy:
\* a second job, or the same one delivered again after its commit, never puts
\* another verdict in the place of a committed one, and racing PATCHes change
\* the ticket's taxonomy only.
ClassifiesOnce == Promise!Spec

-----------------------------------------------------------------------------
(* What the code's documentation says and the code does not do. *)

\* update_ticket: staff may "classify manually, bypassing the async worker".
ManualTaxonomyBypassesWorker ==
    [][\A t \in Tickets :
          (tickets[t].urgency # None /\ ~tickets[t].classified
                                     /\ tickets'[t].classified)
             => /\ tickets'[t].urgency = tickets[t].urgency
                /\ tickets'[t].category = tickets[t].category]_vars

\* update_ticket: the `resolved` hook fires only when a call "moved the ticket
\* from a non-terminal status into RESOLVED/CLOSED".
ResolvedOnlyFromNonTerminal ==
    [][\A t \in Tickets : resolved_events'[t] > resolved_events[t]
                             => tickets[t].status \notin Terminal]_vars

\* update_ticket: closed_at is set and cleared with the status, "matching the DB
\* CHECK constraint ck_tickets_closed_at_matches_status": no writer of
\* `status` runs into it.
StatusWritesMatchClosedCheck ==
    \A r \in Requests : requests[r].phase = "ready"
                            => ClosedCheck(Written(requests[r]))

\* ClassificationRepository: human_corrected is set "when an agent overrides the
\* AI's prediction".
OverridesAreFlagged ==
    \A t \in Tickets :
        (tickets[t].classified /\ \/ tickets[t].category # classifications[t].category
                                  \/ tickets[t].urgency # classifications[t].urgency)
            => classifications[t].human_corrected

=============================================================================
