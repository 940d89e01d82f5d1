----------------------------- MODULE SlaMonitor -----------------------------
(***************************************************************************)
(* The monitor_sla cron, the sla_events it records and the notifications   *)
(* it sends.                                                               *)
(*                                                                         *)
(* A pass is one transaction.  It reads its candidates once, then works    *)
(* from these loaded rows whatever PATCHes commit meanwhile, one SAVEPOINT *)
(* per ticket, and commits once at the end.  Its only protection against a *)
(* second pass (the previous one overran its five minutes, or its job was  *)
(* delivered again) is INSERT ... ON CONFLICT DO NOTHING on the unique     *)
(* index ux_sla_events_ticket_event_once, which WAITS for an uncommitted   *)
(* row of another transaction.  Candidates come in no particular order, so *)
(* two passes can wait for each other.                                     *)
(*                                                                         *)
(* Every ticket is created at instant 0, so a deadline is also the length  *)
(* of the ticket's SLA.                                                    *)
(***************************************************************************)
EXTENDS Integers, FiniteSets

CONSTANTS
    Tickets,    \* tickets of the organization
    Users,      \* its users
    Admins,     \* those with role `admin`
    Deadlines,  \* values of tickets.sla_due_at
    Instants,   \* readings of the clock
    Passes,     \* monitor_sla jobs that may run at the same time
    None        \* SQL NULL, an absent row

Opt(S) == S \cup {None}

Events == {"warning", "breached"}

ASSUME MonitorAssumption ==
    /\ Admins \subseteq Users
    /\ Deadlines \subseteq Nat
    /\ Instants \subseteq Nat /\ 0 \in Instants
    /\ None \notin Users /\ None \notin Deadlines /\ None \notin Tickets

TicketRow == [due: Opt(Deadlines), terminal: BOOLEAN, agent: Opt(Users)]

\* What a transaction has inserted: the recorded sla_due_at of each event, and
\* how many notifications of it each user has.
Inserted == [events: [Tickets \X Events -> Opt(Deadlines)],
             notes: [Tickets \X Events \X Users -> Nat]]

Nothing == [events |-> [x \in Tickets \X Events |-> None],
            notes |-> [x \in Tickets \X Events \X Users |-> 0]]

(* at: `now` of the pass; rows: the loaded candidates, until they are         *)
(* finished; todo: those not begun; current, step: the open savepoint; notify: *)
(* record_once has inserted a row and fan_out is next; done: inserts of        *)
(* released savepoints; own: inserts of the open one.                          *)
Pass == [phase: {"idle", "scanning"}, at: Instants,
         rows: [Tickets -> TicketRow], todo: SUBSET Tickets,
         current: Opt(Tickets), step: {"warning", "breached", "release"},
         notify: BOOLEAN, done: Inserted, own: Inserted]

NoRow == [due |-> None, terminal |-> FALSE, agent |-> None]

IdlePass == [phase |-> "idle", at |-> 0, rows |-> [t \in Tickets |-> NoRow],
             todo |-> {}, current |-> None, step |-> "warning",
             notify |-> FALSE, done |-> Nothing, own |-> Nothing]

VARIABLES
    now,       \* the clock
    tickets,   \* the columns of `tickets` the monitor reads
    status,    \* users.status
    stored,    \* the committed rows of sla_events and notifications
    passes,    \* running monitor_sla jobs
    veterans   \* history: users who have been active all along

vars == <<now, tickets, status, stored, passes, veterans>>

Init ==
    /\ now = 0
    /\ tickets = [t \in Tickets |-> NoRow]
    /\ status \in [Users -> {"pending", "active"}]
    /\ stored = Nothing
    /\ passes = [p \in Passes |-> IdlePass]
    /\ veterans = {u \in Users : status[u] = "active"}

-----------------------------------------------------------------------------
(* Tickets and users change under the monitor. *)

Advance(n) ==
    /\ n > now
    /\ now' = n
    /\ UNCHANGED <<tickets, status, stored, passes, veterans>>

\* classify_ticket and update_ticket set sla_due_at.
SetDeadline(t, d) ==
    /\ tickets[t].due # d
    /\ tickets' = [tickets EXCEPT ![t] =
            [due |-> d, terminal |-> @.terminal, agent |-> @.agent]]
    /\ UNCHANGED <<now, status, stored, passes, veterans>>

\* update_ticket assigns an agent or admin.
Assign(t, u) ==
    /\ tickets[t].agent # u
    /\ tickets' = [tickets EXCEPT ![t] =
            [due |-> @.due, terminal |-> @.terminal, agent |-> u]]
    /\ UNCHANGED <<now, status, stored, passes, veterans>>

\* update_ticket resolves, closes or reopens.
SetTerminal(t) ==
    /\ tickets' = [tickets EXCEPT ![t] =
            [due |-> @.due, terminal |-> ~@.terminal, agent |-> @.agent]]
    /\ UNCHANGED <<now, status, stored, passes, veterans>>

\* accept_invite
ActivateUser(u) ==
    /\ status[u] = "pending"
    /\ status' = [status EXCEPT ![u] = "active"]
    /\ UNCHANGED <<now, tickets, stored, passes, veterans>>

\* disable_user
DisableUser(u) ==
    /\ status[u] # "disabled"
    /\ status' = [status EXCEPT ![u] = "disabled"]
    /\ veterans' = veterans \ {u}
    /\ UNCHANGED <<now, tickets, stored, passes>>

-----------------------------------------------------------------------------
(* One pass of monitor_sla. *)

\* Mutant: the deadline itself does not count.
ReachedStrictly(e, due, at) ==
    IF e = "warning" THEN 5 * at >= 4 * due ELSE at > due

\* SLA_WARNING_ELAPSED_FRACTION is 0.8: kept exact by cross-multiplication.
Reached(e, due, at) ==
    IF e = "warning" THEN 5 * at >= 4 * due ELSE at >= due

Candidate(row) ==
    /\ row.due # None
    /\ ~row.terminal
    /\ Reached("warning", row.due, now)

\* The SELECT of the candidates.
BeginPass(p) ==
    /\ passes[p].phase = "idle"
    /\ passes' = [passes EXCEPT ![p] =
            [phase |-> "scanning", at |-> now,
             rows |-> [t \in Tickets |-> IF Candidate(tickets[t])
                                           THEN tickets[t] ELSE NoRow],
             todo |-> {t \in Tickets : Candidate(tickets[t])},
             current |-> None, step |-> "warning",
             notify |-> FALSE, done |-> Nothing, own |-> Nothing]]
    /\ UNCHANGED <<now, tickets, status, stored, veterans>>

\* session.begin_nested() for the next candidate, in any order.
OpenSavepoint(p, t) ==
    LET s == passes[p] IN
    /\ s.phase = "scanning" /\ s.current = None /\ t \in s.todo
    /\ passes' = [passes EXCEPT ![p] =
            [phase |-> "scanning", at |-> s.at, rows |-> s.rows,
             todo |-> s.todo \ {t}, current |-> t, step |-> "warning",
             notify |-> FALSE, done |-> s.done, own |-> Nothing]]
    /\ UNCHANGED <<now, tickets, status, stored, veterans>>

Written(s, x) == s.done.events[x] # None \/ s.own.events[x] # None

\* Pass s stands before an INSERT of record_once.
AtInsert(s) ==
    /\ s.current # None /\ s.step # "release" /\ ~s.notify
    /\ Reached(s.step, s.rows[s.current].due, s.at)

\* Mutant: look first, then insert, without the unique index.
WaitsForNobody(p, q) == FALSE

\* The INSERT of p waits for q's uncommitted row of the same ticket and event.
WaitsFor(p, q) ==
    LET x == <<passes[p].current, passes[p].step>> IN
    /\ p # q
    /\ AtInsert(passes[p])
    /\ stored.events[x] = None
    /\ Written(passes[q], x)

\* Mutant: the INSERT has no ON CONFLICT target.
FreshAlways(s) == AtInsert(s)

\* record_once inserts: there is no row for the ticket and the event yet.
Fresh(s) ==
    /\ AtInsert(s)
    /\ stored.events[<<s.current, s.step>>] = None
    /\ ~Written(s, <<s.current, s.step>>)

AfterStep(e) == IF e = "warning" THEN "breached" ELSE "release"

\* One of the two checks of _process_ticket, up to record_once's answer: fan_out
\* follows a fresh insert, otherwise the check is over.
Record(p) ==
    LET s == passes[p]  x == <<s.current, s.step>> IN
    /\ s.current # None /\ s.step # "release" /\ ~s.notify
    /\ \A q \in Passes : ~WaitsFor(p, q)
    /\ passes' = [passes EXCEPT ![p] =
            [phase |-> "scanning", at |-> s.at, rows |-> s.rows,
             todo |-> s.todo, current |-> s.current,
             step |-> IF Fresh(s) THEN s.step ELSE AfterStep(s.step),
             notify |-> Fresh(s), done |-> s.done,
             own |-> [events |-> [s.own.events EXCEPT ![x] =
                                    IF Fresh(s) THEN s.rows[s.current].due ELSE @],
                      notes |-> s.own.notes]]]
    /\ UNCHANGED <<now, tickets, status, stored, veterans>>

\* resolve_recipients: users are read live, the agent is the loaded row's.
Recipients(row) ==
    {u \in Users : status[u] = "active" /\ (u \in Admins \/ u = row.agent)}

\* fan_out: one notification per recipient.
FanOut(p) ==
    LET s == passes[p] IN
    /\ s.notify
    /\ passes' = [passes EXCEPT ![p] =
            [phase |-> "scanning", at |-> s.at, rows |-> s.rows,
             todo |-> s.todo, current |-> s.current,
             step |-> AfterStep(s.step), notify |-> FALSE, done |-> s.done,
             own |-> [events |-> s.own.events,
                      notes |-> [y \in Tickets \X Events \X Users |->
                          IF /\ y[1] = s.current /\ y[2] = s.step
                             /\ y[3] \in Recipients(s.rows[s.current])
                            THEN s.own.notes[y] + 1
                            ELSE s.own.notes[y]]]]]
    /\ UNCHANGED <<now, tickets, status, stored, veterans>>

\* What a table holds after the inserts of another transaction.
Merge(a, b) ==
    [events |-> [x \in Tickets \X Events |->
                    IF b.events[x] # None THEN b.events[x] ELSE a.events[x]],
     notes |-> [y \in Tickets \X Events \X Users |-> a.notes[y] + b.notes[y]]]

\* The savepoint is released: its inserts now belong to the transaction.
ReleaseSavepoint(p) ==
    LET s == passes[p] IN
    /\ s.current # None /\ s.step = "release"
    /\ passes' = [passes EXCEPT ![p] =
            [phase |-> "scanning", at |-> s.at,
             rows |-> [s.rows EXCEPT ![s.current] = NoRow],
             todo |-> s.todo, current |-> None, step |-> "warning",
             notify |-> FALSE, done |-> Merge(s.done, s.own),
             own |-> Nothing]]
    /\ UNCHANGED <<now, tickets, status, stored, veterans>>

\* Mutant: no savepoint, the exception is swallowed and the writes stay.
WithoutSavepointKeepsWrites(s) ==
    [phase |-> "scanning", at |-> s.at,
     rows |-> [s.rows EXCEPT ![s.current] = NoRow],
     todo |-> s.todo, current |-> None, step |-> "warning", notify |-> FALSE,
     done |-> Merge(s.done, s.own), own |-> Nothing]

\* ROLLBACK TO SAVEPOINT.
WithoutSavepoint(s) ==
    [phase |-> "scanning", at |-> s.at,
     rows |-> [s.rows EXCEPT ![s.current] = NoRow],
     todo |-> s.todo, current |-> None, step |-> "warning", notify |-> FALSE,
     done |-> s.done, own |-> Nothing]

\* _process_ticket raises: logged, and on to the next ticket.
SavepointFails(p) ==
    /\ passes[p].current # None
    /\ passes' = [passes EXCEPT ![p] = WithoutSavepoint(passes[p])]
    /\ UNCHANGED <<now, tickets, status, stored, veterans>>

\* PostgreSQL finds two passes waiting for each other and makes one INSERT
\* fail: an exception like any other, so a case of SavepointFails, but one that
\* is certain to come.
DeadlockAborts(p) ==
    /\ \E q \in Passes : WaitsFor(p, q) /\ WaitsFor(q, p)
    /\ SavepointFails(p)

CommitPass(p) ==
    LET s == passes[p] IN
    /\ s.phase = "scanning" /\ s.current = None /\ s.todo = {}
    /\ stored' = Merge(stored, s.done)
    /\ passes' = [passes EXCEPT ![p] = IdlePass]
    /\ UNCHANGED <<now, tickets, status, veterans>>

\* The worker dies, the job times out, or the connection breaks.
CrashPass(p) ==
    /\ passes[p].phase = "scanning"
    /\ passes' = [passes EXCEPT ![p] = IdlePass]
    /\ UNCHANGED <<now, tickets, status, stored, veterans>>

-----------------------------------------------------------------------------
Next ==
    \/ \E n \in Instants : Advance(n)
    \/ \E t \in Tickets : \/ \E d \in Deadlines : SetDeadline(t, d)
                          \/ \E u \in Users : Assign(t, u)
                          \/ SetTerminal(t)
    \/ \E u \in Users : ActivateUser(u) \/ DisableUser(u)
    \/ \E p \in Passes : \/ BeginPass(p)
                         \/ \E t \in Tickets : OpenSavepoint(p, t)
                         \/ Record(p) \/ FanOut(p) \/ ReleaseSavepoint(p)
                         \/ SavepointFails(p) \/ CommitPass(p) \/ CrashPass(p)

Spec == Init /\ [][Next]_vars

\* A pass that carries ticket t's breach, before its commit.
Carries(p, t) == passes[p].done.events[<<t, "breached">>] # None

At(p, t, e) == passes[p].current = t /\ passes[p].step = e

(* The cron fires every five minutes and PostgreSQL resolves deadlocks.  Crashes *)
(* and failing savepoints may go on for ever, but do not hit every pass at the   *)
(* same step of the same ticket (strong fairness): to a ticket that fails in     *)
(* every pass nothing can be promised.                                           *)
Fairness ==
    /\ WF_vars(\E n \in Instants : Advance(n))
    /\ \A p \in Passes :
          WF_vars(BeginPass(p) \/ DeadlockAborts(p) \/ CommitPass(p))
    /\ \A t \in Tickets :
          /\ SF_vars(\E p \in Passes : OpenSavepoint(p, t))
          /\ \A e \in Events :
                /\ SF_vars(\E p \in Passes : At(p, t, e) /\ Record(p))
                /\ SF_vars(\E p \in Passes : At(p, t, e) /\ FanOut(p))
          /\ SF_vars(\E p \in Passes : At(p, t, "release") /\ ReleaseSavepoint(p))
          /\ SF_vars(\E p \in Passes : Carries(p, t) /\ CommitPass(p))

FairSpec == Spec /\ Fairness

-----------------------------------------------------------------------------
(* Properties. *)

\* Every variable keeps the shape of its table.
TypeOK ==
    /\ now \in Instants
    /\ tickets \in [Tickets -> TicketRow]
    /\ status \in [Users -> {"pending", "active", "disabled"}]
    /\ stored \in Inserted
    /\ passes \in [Passes -> Pass]
    /\ veterans \in SUBSET Users

\* However many passes overlap, crash or start over, nobody has two
\* notifications of one event, nor one of an event that is not recorded.
NotifiedOnce ==
    \A t \in Tickets, e \in Events, u \in Users :
        stored.notes[<<t, e, u>>] <= IF stored.events[<<t, e>>] = None THEN 0 ELSE 1

\* An event is committed together with its notifications: an admin who has
\* been active all along has one for every recorded event.
AdminsAreTold ==
    \A t \in Tickets, e \in Events, u \in Admins \cap veterans :
        stored.events[<<t, e>>] # None => stored.notes[<<t, e, u>>] = 1

\* An event is recorded once and for all: no later pass, and no PATCH of the
\* deadline, rewrites or removes the audit row.
EventsAreFinal ==
    [][\A x \in Tickets \X Events :
          stored.events[x] # None => stored'.events[x] = stored.events[x]]_vars

Overdue(t) ==
    /\ tickets[t].due # None /\ ~tickets[t].terminal
    /\ now >= tickets[t].due

\* A ticket that stays overdue is recorded as breached in the end, although
\* savepoints fail, passes crash and PostgreSQL breaks deadlocks.
OverdueGetsBreached ==
    \A t \in Tickets :
        Overdue(t) ~> (stored.events[<<t, "breached">>] # None \/ ~Overdue(t))

=============================================================================
