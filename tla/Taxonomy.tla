------------------------------ MODULE Taxonomy ------------------------------
(***************************************************************************)
(* Categories and urgency levels, and the tickets that refer to them.      *)
(*                                                                         *)
(* DELETE tries to remove the row inside a SAVEPOINT and deactivates it    *)
(* when a ticket refers to it.  Nothing in the service locks: requests     *)
(* that file a ticket look at the row first and insert later, and only the *)
(* RESTRICT foreign keys of tickets keep the two apart.  Their checks take *)
(* row locks in PostgreSQL:                                                *)
(*   - a ticket that gets a new category or urgency holds FOR KEY SHARE on *)
(*     that row until its transaction ends, and waits for a DELETE of it;  *)
(*   - a DELETE waits for these holders, then looks for referring tickets  *)
(*     with FOR KEY SHARE, which waits for a classify_ticket job that      *)
(*     holds the ticket FOR UPDATE, but not for an UPDATE of the ticket.   *)
(*                                                                         *)
(* A name that is taken (409) and a row that is not found (404) end a      *)
(* request before it writes and are no steps.  An UPDATE of a row's        *)
(* `active` is the last statement of its request, so it and the commit are *)
(* one step.                                                               *)
(*                                                                         *)
(* The two tables have the same columns, service functions and foreign     *)
(* keys: `ref` stands for category_id or for urgency_id, and Rows for the  *)
(* table it points to.                                                     *)
(***************************************************************************)
EXTENDS Naturals, FiniteSets

CONSTANTS
    Rows,       \* ids of the table
    Seeded,     \* rows the organization starts with
    Tickets,    \* ids of tickets
    Admins,     \* DELETE requests under way at the same time
    Writers,    \* requests and jobs that write a ticket's taxonomy
    None        \* SQL NULL, an absent row

ASSUME TaxonomyAssumption ==
    /\ Seeded \subseteq Rows
    /\ None \notin Rows \cup Tickets
    /\ Admins \cap Writers = {}

Opt(S) == S \cup {None}

Ticket == [status: {"pending", "classified"}, ref: Opt(Rows)]

\* An absent row is no ticket.
ASSUME NoneAssumption == None \notin Ticket

(* row: the instance get_or_404 has loaded, seen: its `active` then; step: the  *)
(* DELETE is next, holds the row and is checking, or was refused and the        *)
(* savepoint is rolled back; revived: history, a PATCH has activated the row    *)
(* since.                                                                       *)
Deletion == [step: {"idle", "delete", "checking", "refused"},
             row: Opt(Rows), seen: BOOLEAN, revived: BOOLEAN]

NoDeletion == [step |-> "idle", row |-> None, seen |-> FALSE, revived |-> FALSE]

(* op: who writes; ref: the value the flush will write; step: the statement is  *)
(* next, it is executed and its foreign key is being checked, or it is done.    *)
Writer == [op: {"idle", "create", "patch", "classify"},
           ticket: Opt(Tickets), ref: Opt(Rows),
           step: {"read", "checking", "flushed"}]

IdleWriter == [op |-> "idle", ticket |-> None, ref |-> None, step |-> "read"]

VARIABLES
    rows,     \* state of each row: "unborn", "active", "inactive" or "gone"
    tickets,  \* the committed tickets: None, or status and reference
    admins,   \* DELETE requests
    writers   \* requests and jobs on tickets

vars == <<rows, tickets, admins, writers>>

Exists(r) == rows[r] \in {"active", "inactive"}

Init ==
    /\ rows = [r \in Rows |-> IF r \in Seeded THEN "active" ELSE "unborn"]
    /\ tickets = [t \in Tickets |-> None]
    /\ admins = [a \in Admins |-> NoDeletion]
    /\ writers = [w \in Writers |-> IdleWriter]

-----------------------------------------------------------------------------
(* Who holds and who waits. *)

\* Admin a holds row r for its DELETE.
Deleting(a, r) == admins[a].step = "checking" /\ admins[a].row = r

Free(r) == \A a \in Admins : ~Deleting(a, r)

Referring(r) ==
    {t \in Tickets : tickets[t] # None /\ tickets[t].ref = r}

\* Mutant: tickets have no foreign keys.
UnrestrictedBy(r) == {}

\* The tickets whose RESTRICT foreign key refuses a DELETE of r.
RestrictedBy(r) == Referring(r)

\* Mutant: update_ticket, too, loads its ticket for_update=True.
LocksTicketForUpdate(w) ==
    \/ writers[w].op = "classify"
    \/ writers[w].op = "patch" /\ writers[w].step # "read"

\* Only classify_ticket loads its ticket with for_update=True.
ForUpdate(w) == writers[w].op = "classify"

\* The row lock on the ticket itself: from the SELECT FOR UPDATE of a job, from
\* the UPDATE statement of a request.
HoldsTicket(w, t) ==
    /\ writers[w].ticket = t
    /\ writers[w].op = "classify" \/ writers[w].step # "read"

\* The foreign key has something to check: a value, and not the one the ticket
\* has already.
ChecksKey(w) ==
    /\ writers[w].ref # None
    /\ writers[w].ticket \notin Referring(writers[w].ref)

\* w has checked row r and holds it FOR KEY SHARE.
Shares(w, r) ==
    /\ writers[w].step = "flushed" /\ writers[w].ref = r
    /\ ChecksKey(w)

Actors == Admins \cup Writers

\* x may be waiting for a lock of y.
Waits(x, y) ==
    \/ /\ x \in Admins /\ y \in Writers
       /\ \/ admins[x].step = "delete" /\ Shares(y, admins[x].row)
          \/ /\ admins[x].step = "checking"
             /\ ForUpdate(y) /\ writers[y].ticket \in RestrictedBy(admins[x].row)
    \/ /\ x \in Admins /\ y \in Admins
       /\ admins[x].step \in {"delete", "refused"} /\ Deleting(y, admins[x].row)
    \/ /\ x \in Writers /\ y \in Admins
       /\ writers[x].step = "checking" /\ Deleting(y, writers[x].ref)
    \/ /\ x \in Writers /\ y \in Writers /\ x # y
       /\ writers[x].op = "patch" /\ writers[x].step = "read"
       /\ HoldsTicket(y, writers[x].ticket)

ClosedWait(S) == S # {} /\ \A x \in S : \E y \in S : Waits(x, y)

\* A cycle of waits: a closed set of waiting actors with no smaller one inside.
Cycle(S) == ClosedWait(S) /\ \A T \in (SUBSET S) \ {S} : ~ClosedWait(T)

-----------------------------------------------------------------------------
(* The taxonomy: requests of an admin. *)

\* create_category, create_urgency_level
Create(r) ==
    /\ rows[r] = "unborn"
    /\ rows' = [rows EXCEPT ![r] = "active"]
    /\ UNCHANGED <<tickets, admins, writers>>

\* update_category, update_urgency_level: `active` changes its value.  The
\* history of the deletions under way records an activation.
Update(r) ==
    /\ Exists(r) /\ Free(r)
    /\ rows' = [rows EXCEPT ![r] = IF @ = "active" THEN "inactive" ELSE "active"]
    /\ admins' = [a \in Admins |-> [admins[a] EXCEPT !.revived =
                     @ \/ (rows[r] = "inactive" /\ admins[a].row = r)]]
    /\ UNCHANGED <<tickets, writers>>

\* delete_or_deactivate: get_or_404.
BeginDelete(a, r) ==
    /\ admins[a].step = "idle" /\ Exists(r)
    /\ admins' = [admins EXCEPT ![a] = [step |-> "delete", row |-> r,
                     seen |-> rows[r] = "active", revived |-> FALSE]]
    /\ UNCHANGED <<rows, tickets, writers>>

\* The DELETE gets the row once nobody holds it.
LockRow(a) ==
    /\ admins[a].step = "delete" /\ Exists(admins[a].row)
    /\ \A y \in Actors : ~Waits(a, y)
    /\ admins' = [admins EXCEPT ![a].step = "checking"]
    /\ UNCHANGED <<rows, tickets, writers>>

\* Another DELETE was faster: no row matches, which the ORM only warns of.
DeleteNothing(a) ==
    /\ admins[a].step = "delete" /\ ~Exists(admins[a].row)
    /\ admins' = [admins EXCEPT ![a] = NoDeletion]
    /\ UNCHANGED <<rows, tickets, writers>>

\* No ticket refers to the row: deleted=True, commit.
DeleteRow(a) ==
    /\ admins[a].step = "checking"
    /\ RestrictedBy(admins[a].row) = {}
    /\ rows' = [rows EXCEPT ![admins[a].row] = "gone"]
    /\ admins' = [admins EXCEPT ![a] = NoDeletion]
    /\ UNCHANGED <<tickets, writers>>

\* The check finds a referring ticket it can lock: IntegrityError, and the
\* savepoint is rolled back, which gives the row free again.
Refuse(a) ==
    /\ admins[a].step = "checking"
    /\ \E t \in RestrictedBy(admins[a].row) :
          \A w \in Writers : ~(ForUpdate(w) /\ writers[w].ticket = t)
    /\ admins' = [admins EXCEPT ![a].step = "refused"]
    /\ UNCHANGED <<rows, tickets, writers>>

\* Mutant: the fallback forgets to deactivate.
Fallback(r, seen) == rows[r]

\* instance.active = False: no UPDATE when the loaded value was False.
Deactivated(r, seen) == IF seen THEN "inactive" ELSE rows[r]

\* deleted=False, commit.
Deactivate(a) ==
    /\ admins[a].step = "refused"
    /\ admins[a].seen => Exists(admins[a].row) /\ Free(admins[a].row)
    /\ rows' = [rows EXCEPT ![admins[a].row] =
                    Deactivated(admins[a].row, admins[a].seen)]
    /\ admins' = [admins EXCEPT ![a] = NoDeletion]
    /\ UNCHANGED <<tickets, writers>>

\* The row was deleted between the rollback and the UPDATE: StaleDataError.
StaleDeactivation(a) ==
    /\ admins[a].step = "refused" /\ admins[a].seen
    /\ ~Exists(admins[a].row)
    /\ admins' = [admins EXCEPT ![a] = NoDeletion]
    /\ UNCHANGED <<rows, tickets, writers>>

-----------------------------------------------------------------------------
(* Requests and jobs that write category_id and urgency_id. *)

Begin(w, op, t, r) ==
    /\ writers[w].op = "idle"
    /\ writers' = [writers EXCEPT ![w] = [op |-> op, ticket |-> t, ref |-> r,
                                          step |-> "read"]]
    /\ UNCHANGED <<rows, tickets, admins>>

\* create_ticket, steps 5 and 6: the row exists and is active, or none is given.
CreateTicket(w, t, r) ==
    /\ tickets[t] = None
    /\ \A v \in Writers : writers[v].ticket # t
    /\ r # None => rows[r] = "active"
    /\ Begin(w, "create", t, r)

\* update_ticket: the row need not be active, and category_id is left to the
\* foreign key altogether.  A value the ticket has already is not written.
PatchTicket(w, t, r) ==
    /\ tickets[t] # None
    /\ r # None /\ r # tickets[t].ref /\ rows[r] # "unborn"
    /\ Begin(w, "patch", t, r)

\* The options a prediction is made among: the rows that are active now.
Offered == {r \in Rows : rows[r] = "active"}

\* classify believes the local model if it is sure and what it names is an option.
TrustSklearn(named, sure) == sure /\ named \in Offered

\* An answer of the LLM outside the options is refused.
RequireMembership(answer) == answer \in Offered

\* What classify can return, whatever the local model names and the LLM answers.
Predictions ==
    {r \in Rows : \E named, answer \in Rows, sure \in BOOLEAN :
        \/ TrustSklearn(named, sure) /\ r = named
        \/ ~TrustSklearn(named, sure) /\ RequireMembership(answer) /\ r = answer}

\* classify_ticket: SELECT ... FOR UPDATE of a pending ticket, and a prediction.
\* The LLM answers while the lock is held; if it fails, so does the writer.
ClassifyTicket(w, t, r) ==
    /\ tickets[t] # None /\ tickets[t].status = "pending"
    /\ \A v \in Writers : ~HoldsTicket(v, t)
    /\ r \in Predictions
    /\ Begin(w, "classify", t, r)

\* The INSERT or UPDATE; an UPDATE waits for the row lock of its ticket.
Execute(w) ==
    /\ writers[w].op # "idle" /\ writers[w].step = "read"
    /\ \A y \in Actors : ~Waits(w, y)
    /\ writers' = [writers EXCEPT ![w].step =
                      IF ChecksKey(w) THEN "checking" ELSE "flushed"]
    /\ UNCHANGED <<rows, tickets, admins>>

\* The foreign key is checked: the row is there, and locked FOR KEY SHARE.
CheckKey(w) ==
    /\ writers[w].step = "checking"
    /\ Free(writers[w].ref) /\ Exists(writers[w].ref)
    /\ writers' = [writers EXCEPT ![w].step = "flushed"]
    /\ UNCHANGED <<rows, tickets, admins>>

\* The row is gone: IntegrityError, which no caller handles.
KeyMissing(w) ==
    /\ writers[w].step = "checking" /\ ~Exists(writers[w].ref)
    /\ writers' = [writers EXCEPT ![w] = IdleWriter]
    /\ UNCHANGED <<rows, tickets, admins>>

\* A new ticket is pending whether it has a taxonomy or not (server default).
Status(w) ==
    CASE writers[w].op = "classify" -> "classified"
      [] writers[w].op = "create" -> "pending"
      [] OTHER -> tickets[writers[w].ticket].status

CommitTicket(w) ==
    /\ writers[w].step = "flushed"
    /\ tickets' = [tickets EXCEPT ![writers[w].ticket] =
                      [status |-> Status(w), ref |-> writers[w].ref]]
    /\ writers' = [writers EXCEPT ![w] = IdleWriter]
    /\ UNCHANGED <<rows, admins>>

\* The job or request fails for another reason: classify raises, the worker
\* dies, the connection breaks.
FailWriter(w) ==
    /\ writers[w].op # "idle"
    /\ writers' = [writers EXCEPT ![w] = IdleWriter]
    /\ UNCHANGED <<rows, tickets, admins>>

\* PostgreSQL makes one statement of a cycle of waits fail.  A DELETE gets an
\* error that is no IntegrityError and its request ends with 500; a writer fails.
Victim(a) ==
    /\ \E y \in Actors : Waits(a, y)
    /\ \E S \in SUBSET Actors : a \in S /\ Cycle(S)
    /\ admins' = [admins EXCEPT ![a] = NoDeletion]
    /\ UNCHANGED <<rows, tickets, writers>>

-----------------------------------------------------------------------------
Next ==
    \/ \E r \in Rows : Create(r) \/ Update(r)
    \/ \E a \in Admins : \/ \E r \in Rows : BeginDelete(a, r)
                         \/ LockRow(a) \/ DeleteNothing(a) \/ DeleteRow(a)
                         \/ Refuse(a) \/ Deactivate(a) \/ StaleDeactivation(a)
                         \/ Victim(a)
    \/ \E w \in Writers :
          \/ \E t \in Tickets, r \in Opt(Rows) :
                \/ CreateTicket(w, t, r) \/ PatchTicket(w, t, r)
                \/ ClassifyTicket(w, t, r)
          \/ Execute(w) \/ CheckKey(w) \/ KeyMissing(w)
          \/ CommitTicket(w) \/ FailWriter(w)

Spec == Init /\ [][Next]_vars

-----------------------------------------------------------------------------
(* Properties. *)

\* Every variable keeps the shape of its table, request or job.
TypeOK ==
    /\ rows \in [Rows -> {"unborn", "active", "inactive", "gone"}]
    /\ tickets \in [Tickets -> Opt(Ticket)]
    /\ admins \in [Admins -> Deletion]
    /\ writers \in [Writers -> Writer]

\* However a DELETE interleaves with requests and jobs that looked at the row
\* before it was deleted, no committed ticket refers to a row that is gone.
NoDangling ==
    \A t \in Tickets : tickets[t] # None /\ tickets[t].ref # None =>
        Exists(tickets[t].ref)

\* HTTP requests never deadlock among themselves on the locks of rows and foreign
\* keys, although they lock tickets and taxonomy rows in opposite orders: every
\* cycle of these waits goes through a classify_ticket job, which holds its ticket
\* while the LLM answers.  (Waits on an entry of a unique index of names are not
\* modelled.)
RequestsNeverDeadlock ==
    \A S \in SUBSET (Actors \ {w \in Writers : writers[w].op = "classify"}) :
        ~Cycle(S)

\* A DELETE that answers deleted=False leaves the row inactive (or deleted by a
\* later DELETE), although it decides with the `active` it loaded at its start:
\* only a PATCH that activated the row meanwhile may leave it active.
DeactivationHolds ==
    [][\A a \in Admins :
          admins[a].step = "refused" /\ admins'[a].step = "idle"
             => rows'[admins[a].row] # "active" \/ admins[a].revived]_vars

\* taxonomy_service.py:52: "Never raises for the `in use` case - always returns
\* normally so the API layer can respond 200 either way".  Does not hold.
InUseNeverRaises ==
    [][\A a \in Admins : ~StaleDeactivation(a) /\ ~Victim(a)]_vars

\* create_ticket's docstring, steps 5 and 6: the category and urgency of a new
\* ticket are active.  Does not hold for a row deactivated after the look.
FiledUnderActive ==
    [][\A t \in Tickets :
          tickets[t] = None /\ tickets'[t] # None /\ tickets'[t].ref # None
             => rows[tickets'[t].ref] = "active"]_vars

=============================================================================
