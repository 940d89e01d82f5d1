--------------------------- MODULE TaxonomyProofs ---------------------------
(* Theorems about Taxonomy, for every number of rows, tickets, DELETE         *)
(* requests, and requests and jobs that write a ticket.                       *)
EXTENDS Taxonomy, TLAPS

\* A DELETE under way is about a row that has existed.
DeletionsGrounded ==
    \A a \in Admins : admins[a].step # "idle" =>
        admins[a].row \in Rows /\ rows[admins[a].row] # "unborn"

\* A request or job is about a ticket: one that is not there yet, which nobody
\* else writes, or one that is.
WritersGrounded ==
    \A w \in Writers :
        /\ writers[w].op = "idle" => writers[w] = IdleWriter
        /\ writers[w].op # "idle" => writers[w].ticket \in Tickets
        /\ writers[w].op = "create" =>
            /\ tickets[writers[w].ticket] = None
            /\ \A v \in Writers : v # w => writers[v].ticket # writers[w].ticket
        /\ writers[w].op \in {"patch", "classify"} => tickets[writers[w].ticket] # None

\* The row lock of a ticket has one holder.
OneHolder ==
    \A v, w \in Writers : v # w /\ writers[w].ticket \in Tickets
        /\ HoldsTicket(w, writers[w].ticket) => ~HoldsTicket(v, writers[w].ticket)

\* Until it commits, a reference that was written keeps its row: by FOR KEY SHARE
\* if the foreign key was checked, and by the committed reference of the ticket if
\* there was nothing to check.
ReferenceKept ==
    \A w \in Writers : writers[w].step = "flushed" /\ writers[w].ref # None =>
        /\ Exists(writers[w].ref)
        /\ ChecksKey(w) => Free(writers[w].ref)

\* The inductive invariant of the foreign key.
KeyInv ==
    /\ TypeOK
    /\ DeletionsGrounded
    /\ WritersGrounded
    /\ OneHolder
    /\ ReferenceKept
    /\ NoDangling

\* A DELETE that loaded an inactive row knows of everyone who activated it since.
SeenInactive ==
    \A a \in Admins : admins[a].step # "idle" /\ ~admins[a].seen =>
        rows[admins[a].row] # "active" \/ admins[a].revived

-----------------------------------------------------------------------------

\* The records of an idle DELETE and of an idle writer.
LEMMA IdleTypes ==
    /\ NoDeletion \in Deletion /\ NoDeletion.step = "idle" /\ NoDeletion.row = None
    /\ IdleWriter \in Writer /\ IdleWriter.op = "idle" /\ IdleWriter.ticket = None
    /\ IdleWriter.ref = None /\ IdleWriter.step = "read"
  BY DEF NoDeletion, Deletion, IdleWriter, Writer, Opt

\* A step of DELETE requests that touches no row, no ticket and no writer keeps
\* the invariant, if a DELETE gets a row only when no writer shares it.
LEMMA AdminsKeep ==
    ASSUME KeyInv, UNCHANGED <<rows, tickets, writers>>,
           admins' \in [Admins -> Deletion], DeletionsGrounded',
           \A a \in Admins, r \in Rows :
               admins'[a].step = "checking" /\ admins'[a].row = r =>
                   Deleting(a, r) \/ \A w \in Writers : ~Shares(w, r)
    PROVE  KeyInv'
  <1>1. TypeOK'
    BY DEF KeyInv, TypeOK
  <1>2. WritersGrounded' /\ OneHolder' /\ NoDangling'
    BY DEF KeyInv, WritersGrounded, OneHolder, HoldsTicket, NoDangling, Exists
  <1>3. ReferenceKept'
    <2> SUFFICES ASSUME NEW w \in Writers, writers[w].step = "flushed",
                        writers[w].ref # None
                 PROVE  /\ Exists(writers[w].ref)'
                        /\ ChecksKey(w)' => Free(writers[w].ref)'
      BY DEF ReferenceKept
    <2>1. writers[w].ref \in Rows
      BY DEF KeyInv, TypeOK, Writer, Opt
    <2>2. Exists(writers[w].ref)' /\ (ChecksKey(w)' <=> ChecksKey(w))
      BY DEF KeyInv, ReferenceKept, Exists, ChecksKey, Referring
    <2>3. ASSUME ChecksKey(w)
          PROVE  Free(writers[w].ref)'
      <3>1. Shares(w, writers[w].ref) /\ Free(writers[w].ref)
        BY <2>3 DEF Shares, KeyInv, ReferenceKept
      <3>2. QED BY <2>1, <3>1 DEF Free, Deleting
    <2>4. QED BY <2>2, <2>3
  <1>4. QED BY <1>1, <1>2, <1>3 DEF KeyInv

\* The steps of DELETE requests that change no row of the table.
LEMMA DeletionsKeep ==
    ASSUME KeyInv, NEW a \in Admins,
           \/ \E r \in Rows : BeginDelete(a, r)
           \/ LockRow(a) \/ DeleteNothing(a) \/ Refuse(a) \/ StaleDeactivation(a) \/ Victim(a)
    PROVE  KeyInv'
  <1>0. /\ admins \in [Admins -> Deletion] /\ DeletionsGrounded
        /\ rows \in [Rows -> {"unborn", "active", "inactive", "gone"}]
    BY DEF KeyInv, TypeOK
  <1>1. CASE DeleteNothing(a) \/ StaleDeactivation(a) \/ Victim(a)
    <2>1. /\ admins' = [admins EXCEPT ![a] = NoDeletion]
          /\ UNCHANGED <<rows, tickets, writers>>
      BY <1>1 DEF DeleteNothing, StaleDeactivation, Victim
    <2>2. admins' \in [Admins -> Deletion] /\ DeletionsGrounded'
      BY <1>0, <2>1, IdleTypes DEF DeletionsGrounded
    <2>3. \A b \in Admins, r \in Rows :
            admins'[b].step = "checking" /\ admins'[b].row = r => Deleting(b, r)
      BY <1>0, <2>1, IdleTypes DEF Deleting
    <2>4. QED BY <2>1, <2>2, <2>3, AdminsKeep
  <1>2. ASSUME NEW r \in Rows, BeginDelete(a, r)
        PROVE  KeyInv'
    <2> DEFINE d == [step |-> "delete", row |-> r, seen |-> rows[r] = "active",
                     revived |-> FALSE]
    <2>1. d \in Deletion /\ d.step = "delete" /\ d.row = r
      BY DEF Deletion, Opt
    <2>2. admins' = [admins EXCEPT ![a] = d] /\ rows[r] # "unborn"
          /\ UNCHANGED <<rows, tickets, writers>>
      BY <1>2 DEF BeginDelete, Exists
    <2> HIDE DEF d
    <2>3. admins' \in [Admins -> Deletion] /\ DeletionsGrounded'
      BY <1>0, <2>1, <2>2 DEF DeletionsGrounded
    <2>4. \A b \in Admins, s \in Rows :
            admins'[b].step = "checking" /\ admins'[b].row = s => Deleting(b, s)
      BY <1>0, <2>1, <2>2 DEF Deleting
    <2>5. QED BY <2>2, <2>3, <2>4, AdminsKeep
  <1>3. CASE Refuse(a)
    <2>1. /\ admins' = [admins EXCEPT ![a].step = "refused"]
          /\ admins[a].step = "checking"
          /\ UNCHANGED <<rows, tickets, writers>>
      BY <1>3 DEF Refuse
    <2>2. admins' \in [Admins -> Deletion] /\ DeletionsGrounded'
      BY <1>0, <2>1 DEF DeletionsGrounded, Deletion
    <2>3. \A b \in Admins, r \in Rows :
            admins'[b].step = "checking" /\ admins'[b].row = r => Deleting(b, r)
      BY <1>0, <2>1 DEF Deleting, Deletion
    <2>4. QED BY <2>1, <2>2, <2>3, AdminsKeep
  <1>4. CASE LockRow(a)
    <2>1. /\ admins' = [admins EXCEPT ![a].step = "checking"]
          /\ admins[a].step = "delete"
          /\ UNCHANGED <<rows, tickets, writers>>
      BY <1>4 DEF LockRow
    <2>2. admins' \in [Admins -> Deletion] /\ DeletionsGrounded'
      BY <1>0, <2>1 DEF DeletionsGrounded, Deletion
    <2>3. \A w \in Writers : ~Shares(w, admins[a].row)
      BY <1>4, <2>1 DEF LockRow, Waits, Actors
    <2>4. \A b \in Admins, r \in Rows :
            admins'[b].step = "checking" /\ admins'[b].row = r =>
                Deleting(b, r) \/ \A w \in Writers : ~Shares(w, r)
      BY <1>0, <2>1, <2>3 DEF Deleting, Deletion
    <2>5. QED BY <2>1, <2>2, <2>4, AdminsKeep
  <1>5. QED BY <1>1, <1>2, <1>3, <1>4

\* A step of the table alone: a row that exists still does, unless a DELETE holds
\* it and no ticket refers to it.
LEMMA RowsKeep ==
    ASSUME KeyInv, UNCHANGED <<tickets, writers>>, TypeOK', DeletionsGrounded',
           \A a \in Admins, r \in Rows :
               admins'[a].step = "checking" /\ admins'[a].row = r => Deleting(a, r),
           \A r \in Rows : Exists(r) => Exists(r)' \/ (~Free(r) /\ RestrictedBy(r) = {})
    PROVE  KeyInv'
  <1>1. WritersGrounded' /\ OneHolder'
    BY DEF KeyInv, WritersGrounded, OneHolder, HoldsTicket
  <1>2. NoDangling'
    BY DEF KeyInv, NoDangling, RestrictedBy, Referring, TypeOK, Ticket, Opt
  <1>3. ReferenceKept'
    <2> SUFFICES ASSUME NEW w \in Writers, writers[w].step = "flushed",
                        writers[w].ref # None
                 PROVE  /\ Exists(writers[w].ref)'
                        /\ ChecksKey(w)' => Free(writers[w].ref)'
      BY DEF ReferenceKept
    <2>1. writers[w].ref \in Rows /\ Exists(writers[w].ref)
          /\ (ChecksKey(w) => Free(writers[w].ref))
      BY DEF KeyInv, TypeOK, Writer, Opt, ReferenceKept
    <2>2. ~ChecksKey(w) => RestrictedBy(writers[w].ref) # {}
      BY DEF ChecksKey, RestrictedBy
    <2>3. Exists(writers[w].ref)'
      BY <2>1, <2>2
    <2>4. ChecksKey(w)' <=> ChecksKey(w)
      BY DEF ChecksKey, Referring
    <2>5. Free(writers[w].ref) => Free(writers[w].ref)'
      BY <2>1 DEF Free, Deleting
    <2>6. QED BY <2>1, <2>3, <2>4, <2>5
  <1>4. QED BY <1>1, <1>2, <1>3 DEF KeyInv

\* The steps that change a row of the table.
LEMMA TableStepsKeep ==
    ASSUME KeyInv,
           \/ \E r \in Rows : Create(r) \/ Update(r)
           \/ \E a \in Admins : DeleteRow(a) \/ Deactivate(a)
    PROVE  KeyInv'
  <1>0. /\ admins \in [Admins -> Deletion] /\ DeletionsGrounded
        /\ rows \in [Rows -> {"unborn", "active", "inactive", "gone"}]
        /\ writers \in [Writers -> Writer] /\ tickets \in [Tickets -> Opt(Ticket)]
    BY DEF KeyInv, TypeOK
  <1>1. ASSUME NEW r \in Rows, Create(r)
        PROVE  KeyInv'
    <2>1. /\ rows' = [rows EXCEPT ![r] = "active"] /\ rows[r] = "unborn"
          /\ UNCHANGED <<tickets, admins, writers>>
      BY <1>1 DEF Create
    <2>2. TypeOK' /\ DeletionsGrounded'
      BY <1>0, <2>1 DEF TypeOK, DeletionsGrounded
    <2>3. \A s \in Rows : Exists(s) => Exists(s)'
      BY <1>0, <2>1 DEF Exists
    <2>4. QED BY <2>1, <2>2, <2>3, RowsKeep DEF Deleting
  <1>2. ASSUME NEW r \in Rows, Update(r)
        PROVE  KeyInv'
    <2>1. /\ rows' = [rows EXCEPT ![r] = IF @ = "active" THEN "inactive" ELSE "active"]
          /\ UNCHANGED <<tickets, writers>>
      BY <1>2 DEF Update
    <2>2. admins' = [a \in Admins |-> [admins[a] EXCEPT !.revived =
                        @ \/ (rows[r] = "inactive" /\ admins[a].row = r)]]
      BY <1>2 DEF Update
    <2>3. \A a \in Admins : /\ admins'[a] \in Deletion
                            /\ admins'[a].step = admins[a].step
                            /\ admins'[a].row = admins[a].row
      BY <1>0, <2>2 DEF Deletion
    <2>4. admins' \in [Admins -> Deletion]
      BY <2>2, <2>3
    <2>5. TypeOK' /\ DeletionsGrounded'
      BY <1>0, <2>1, <2>3, <2>4 DEF TypeOK, DeletionsGrounded
    <2>6. \A s \in Rows : Exists(s) => Exists(s)'
      BY <1>0, <2>1 DEF Exists
    <2>7. QED BY <2>1, <2>3, <2>5, <2>6, RowsKeep DEF Deleting
  <1>3. ASSUME NEW a \in Admins, DeleteRow(a)
        PROVE  KeyInv'
    <2>1. /\ rows' = [rows EXCEPT ![admins[a].row] = "gone"]
          /\ admins' = [admins EXCEPT ![a] = NoDeletion]
          /\ Deleting(a, admins[a].row) /\ RestrictedBy(admins[a].row) = {}
          /\ UNCHANGED <<tickets, writers>>
      BY <1>3 DEF DeleteRow, Deleting
    <2>2. TypeOK' /\ DeletionsGrounded'
      BY <1>0, <2>1, IdleTypes DEF TypeOK, DeletionsGrounded
    <2>3. \A s \in Rows : Exists(s) => Exists(s)' \/ (~Free(s) /\ RestrictedBy(s) = {})
      BY <1>0, <2>1 DEF Exists, Free
    <2>4. \A b \in Admins, r \in Rows :
            admins'[b].step = "checking" /\ admins'[b].row = r => Deleting(b, r)
      BY <1>0, <2>1, IdleTypes DEF Deleting
    <2>5. QED BY <2>1, <2>2, <2>3, <2>4, RowsKeep
  <1>4. ASSUME NEW a \in Admins, Deactivate(a)
        PROVE  KeyInv'
    <2> DEFINE r == admins[a].row
    <2>1. /\ rows' = [rows EXCEPT ![r] = Deactivated(r, admins[a].seen)]
          /\ admins' = [admins EXCEPT ![a] = NoDeletion]
          /\ UNCHANGED <<tickets, writers>>
      BY <1>4 DEF Deactivate
    <2>2. r \in Rows /\ rows[r] # "unborn"
      BY <1>0, <1>4 DEF Deactivate, DeletionsGrounded
    <2>3. /\ Deactivated(r, admins[a].seen) \in {"active", "inactive", "gone"}
          /\ Exists(r) => Deactivated(r, admins[a].seen) \in {"active", "inactive"}
      BY <1>0, <2>2 DEF Deactivated, Exists
    <2>4. TypeOK' /\ DeletionsGrounded'
      BY <1>0, <2>1, <2>2, <2>3, IdleTypes DEF TypeOK, DeletionsGrounded
    <2>5. \A s \in Rows : Exists(s) => Exists(s)'
      BY <1>0, <2>1, <2>2, <2>3 DEF Exists
    <2>6. \A b \in Admins, s \in Rows :
            admins'[b].step = "checking" /\ admins'[b].row = s => Deleting(b, s)
      BY <1>0, <2>1, IdleTypes DEF Deleting
    <2>7. QED BY <2>1, <2>4, <2>5, <2>6, RowsKeep
  <1>5. QED BY <1>1, <1>2, <1>3, <1>4

-----------------------------------------------------------------------------

\* A step of one writer that commits nothing keeps the invariant if what it
\* becomes is grounded, shares its ticket's lock with nobody and, once flushed,
\* refers to a row that is there and free.
LEMMA WriterKeeps ==
    ASSUME KeyInv, NEW w \in Writers, NEW q \in Writer,
           UNCHANGED <<rows, tickets, admins>>,
           writers' = [writers EXCEPT ![w] = q],
           q.op = "idle" => q = IdleWriter,
           q.op # "idle" => q.ticket \in Tickets,
           q.op = "create" =>
               /\ tickets[q.ticket] = None
               /\ \A v \in Writers : v # w => writers[v].ticket # q.ticket,
           q.op \in {"patch", "classify"} => tickets[q.ticket] # None,
           q.ticket \in Tickets /\ (q.op = "classify" \/ q.step # "read") =>
               \A v \in Writers : v # w => ~HoldsTicket(v, q.ticket),
           q.step = "flushed" /\ q.ref # None =>
               /\ Exists(q.ref)
               /\ q.ticket \notin Referring(q.ref) => Free(q.ref)
    PROVE  KeyInv'
  <1>0. writers \in [Writers -> Writer] /\ IdleWriter.ticket = None
    BY IdleTypes DEF KeyInv, TypeOK
  <1>1. TypeOK'
    BY DEF KeyInv, TypeOK
  <1>2. DeletionsGrounded' /\ NoDangling'
    BY DEF KeyInv, DeletionsGrounded, NoDangling, Exists
  <1>3. WritersGrounded'
    <2>1. \A v \in Writers : writers[v].op = "create" /\ v # w =>
            q.ticket # writers[v].ticket
      BY <1>0, TaxonomyAssumption DEF KeyInv, WritersGrounded, Writer
    <2>2. QED BY <1>0, <2>1 DEF KeyInv, WritersGrounded
  <1>4. OneHolder'
    BY <1>0 DEF KeyInv, OneHolder, HoldsTicket
  <1>5. ReferenceKept'
    <2> SUFFICES ASSUME NEW v \in Writers, writers'[v].step = "flushed",
                        writers'[v].ref # None
                 PROVE  /\ Exists(writers[v].ref)'
                        /\ ChecksKey(v)' => Free(writers[v].ref)'
      BY DEF ReferenceKept
    <2>1. /\ Exists(writers[v].ref)' <=> rows[writers'[v].ref] \in {"active", "inactive"}
          /\ ChecksKey(v)' => writers'[v].ticket \notin
                {t \in Tickets : tickets[t] # None /\ tickets[t].ref = writers'[v].ref}
          /\ Free(writers[v].ref)' <=> \A a \in Admins :
                ~(admins[a].step = "checking" /\ admins[a].row = writers'[v].ref)
      BY DEF Exists, ChecksKey, Referring, Free, Deleting
    <2>2. CASE v = w
      BY <1>0, <2>1, <2>2 DEF Exists, Referring, Free, Deleting
    <2>3. CASE v # w
      BY <1>0, <2>1, <2>3 DEF KeyInv, ReferenceKept, Exists, ChecksKey, Referring, Free, Deleting
    <2>4. QED BY <2>2, <2>3
  <1>6. QED BY <1>1, <1>2, <1>3, <1>4, <1>5 DEF KeyInv

\* Requests and jobs begin: the guards of create_ticket, update_ticket and
\* classify_ticket ground them.
LEMMA BeginsKeep ==
    ASSUME KeyInv, NEW w \in Writers, NEW t \in Tickets, NEW r \in Opt(Rows),
           CreateTicket(w, t, r) \/ PatchTicket(w, t, r) \/ ClassifyTicket(w, t, r)
    PROVE  KeyInv'
  <1>1. PICK op \in {"create", "patch", "classify"} :
            /\ Begin(w, op, t, r)
            /\ op = "create" =>
                tickets[t] = None /\ \A v \in Writers : writers[v].ticket # t
            /\ op \in {"patch", "classify"} => tickets[t] # None
            /\ op = "classify" => \A v \in Writers : ~HoldsTicket(v, t)
    BY DEF CreateTicket, PatchTicket, ClassifyTicket
  <1> DEFINE q == [op |-> op, ticket |-> t, ref |-> r, step |-> "read"]
  <1>2. q \in Writer /\ q.op = op /\ q.ticket = t /\ q.step = "read"
    BY DEF Writer, Opt
  <1>3. writers' = [writers EXCEPT ![w] = q] /\ UNCHANGED <<rows, tickets, admins>>
    BY <1>1 DEF Begin
  <1> HIDE DEF q
  <1>4. QED BY <1>1, <1>2, <1>3, WriterKeeps

\* A writer that fails gives its locks back.
LEMMA FailsKeep ==
    ASSUME KeyInv, NEW w \in Writers, KeyMissing(w) \/ FailWriter(w)
    PROVE  KeyInv'
  <1>1. writers' = [writers EXCEPT ![w] = IdleWriter] /\ UNCHANGED <<rows, tickets, admins>>
    BY DEF KeyMissing, FailWriter
  <1>2. None \notin Tickets
    BY TaxonomyAssumption
  <1>3. QED BY <1>1, <1>2, IdleTypes, WriterKeeps

\* The statement waits for the row lock of its ticket, and its foreign key for a
\* DELETE of the row.
LEMMA StatementsKeep ==
    ASSUME KeyInv, NEW w \in Writers, Execute(w) \/ CheckKey(w)
    PROVE  KeyInv'
  <1> DEFINE q == writers[w]
  <1>0. q \in Writer /\ WritersGrounded /\ OneHolder
    BY DEF KeyInv, TypeOK
  <1>1. CASE Execute(w)
    <2> DEFINE step == IF ChecksKey(w) THEN "checking" ELSE "flushed"
               p == [q EXCEPT !.step = step]
    <2>1. /\ writers' = [writers EXCEPT ![w] = p]
          /\ UNCHANGED <<rows, tickets, admins>>
          /\ q.op # "idle" /\ q.step = "read"
      BY <1>1 DEF Execute
    <2>2. p \in Writer /\ p.op = q.op /\ p.ticket = q.ticket /\ p.ref = q.ref
          /\ p.step = step
      BY <1>0 DEF Writer
    <2>3. \A v \in Writers : v # w => ~HoldsTicket(v, q.ticket)
      <3>1. CASE q.op = "create"
        BY <1>0, <2>1, <3>1 DEF WritersGrounded, HoldsTicket
      <3>2. CASE q.op = "patch"
        BY <1>1, <2>1, <3>2 DEF Execute, Waits, Actors
      <3>3. CASE q.op = "classify"
        BY <1>0, <2>1, <3>3 DEF WritersGrounded, OneHolder, HoldsTicket
      <3>4. QED BY <1>0, <2>1, <3>1, <3>2, <3>3 DEF Writer
    <2>4. step = "flushed" /\ q.ref # None =>
            Exists(q.ref) /\ q.ticket \in Referring(q.ref)
      BY <1>0 DEF ChecksKey, KeyInv, NoDangling, Referring
    <2> HIDE DEF p, step
    <2>5. QED
      BY <1>0, <2>1, <2>2, <2>3, <2>4, WriterKeeps DEF WritersGrounded
  <1>2. CASE CheckKey(w)
    <2> DEFINE p == [q EXCEPT !.step = "flushed"]
    <2>1. /\ writers' = [writers EXCEPT ![w] = p]
          /\ UNCHANGED <<rows, tickets, admins>>
          /\ q.step = "checking" /\ Free(q.ref) /\ Exists(q.ref)
      BY <1>2 DEF CheckKey
    <2>2. p \in Writer /\ p.op = q.op /\ p.ticket = q.ticket /\ p.ref = q.ref
      BY <1>0 DEF Writer
    <2>3. q.op # "idle" /\ q.ticket \in Tickets
      BY <1>0, <2>1, IdleTypes DEF WritersGrounded
    <2>4. \A v \in Writers : v # w => ~HoldsTicket(v, q.ticket)
      BY <1>0, <2>1, <2>3 DEF OneHolder, HoldsTicket
    <2> HIDE DEF p
    <2>5. QED
      BY <1>0, <2>1, <2>2, <2>3, <2>4, WriterKeeps DEF WritersGrounded
  <1>3. QED BY <1>1, <1>2

\* The commit writes a reference whose row is there, and changes no ticket that
\* another flushed writer relies on.
LEMMA CommitKeeps ==
    ASSUME KeyInv, NEW w \in Writers, CommitTicket(w)
    PROVE  KeyInv'
  <1> DEFINE q == writers[w]
             row == [status |-> Status(w), ref |-> q.ref]
  <1>0. /\ q \in Writer /\ writers \in [Writers -> Writer]
        /\ tickets \in [Tickets -> Opt(Ticket)]
        /\ WritersGrounded /\ OneHolder /\ ReferenceKept /\ NoDangling
    BY DEF KeyInv, TypeOK
  <1>1. /\ q.step = "flushed"
        /\ tickets' = [tickets EXCEPT ![q.ticket] = row]
        /\ writers' = [writers EXCEPT ![w] = IdleWriter]
        /\ UNCHANGED <<rows, admins>>
    BY DEF CommitTicket
  <1>2. q.op # "idle" /\ q.ticket \in Tickets
    BY <1>0, <1>1, IdleTypes DEF WritersGrounded
  <1>3. row \in Ticket /\ row # None /\ row.ref = q.ref
    <2>1. q.op = "patch" => tickets[q.ticket] \in Ticket
      BY <1>0, <1>2 DEF WritersGrounded, Opt
    <2>2. Status(w) \in {"pending", "classified"}
      BY <1>0, <1>2, <2>1 DEF Status, Writer, Ticket
    <2>3. QED BY <1>0, <2>2, NoneAssumption DEF Ticket, Writer
  <1>4. q.ref # None => Exists(q.ref)
    BY <1>0, <1>1 DEF ReferenceKept
  <1>5. \A v \in Writers : v # w => ~HoldsTicket(v, q.ticket)
    BY <1>0, <1>1, <1>2 DEF OneHolder, HoldsTicket
  <1> HIDE DEF row
  <1>6. TypeOK'
    BY <1>1, <1>3, IdleTypes DEF KeyInv, TypeOK, Opt
  <1>7. DeletionsGrounded'
    BY <1>1 DEF KeyInv, DeletionsGrounded
  <1>8. WritersGrounded'
    <2> SUFFICES ASSUME NEW v \in Writers, v # w
                 PROVE  /\ writers[v].op = "create" => tickets'[writers[v].ticket] = None
                        /\ writers[v].op \in {"patch", "classify"} =>
                             tickets'[writers[v].ticket] # None
      BY <1>0, <1>1, IdleTypes, TaxonomyAssumption DEF WritersGrounded
    <2>1. writers[v].op = "create" => writers[v].ticket # q.ticket
      BY <1>0, <1>2, TaxonomyAssumption DEF WritersGrounded, Writer
    <2>2. writers[v].op # "idle" => writers[v].ticket \in Tickets
      BY <1>0 DEF WritersGrounded
    <2>3. QED BY <1>0, <1>1, <1>2, <1>3, <2>1, <2>2 DEF WritersGrounded
  <1>9. OneHolder'
    BY <1>0, <1>1, IdleTypes, TaxonomyAssumption DEF OneHolder, HoldsTicket
  <1>10. NoDangling'
    BY <1>0, <1>1, <1>2, <1>3, <1>4 DEF NoDangling, Exists
  <1>11. ReferenceKept'
    <2> SUFFICES ASSUME NEW v \in Writers, v # w, writers[v].step = "flushed",
                        writers[v].ref # None
                 PROVE  /\ Exists(writers[v].ref)'
                        /\ ChecksKey(v)' => Free(writers[v].ref)'
      BY <1>0, <1>1, IdleTypes DEF ReferenceKept
    <2>1. writers'[v] = writers[v] /\ writers[v].ticket # q.ticket
      BY <1>0, <1>1, <1>5 DEF HoldsTicket
    <2>2. Exists(writers[v].ref)' /\ (Free(writers[v].ref) => Free(writers[v].ref)')
      BY <1>0, <1>1, <2>1 DEF ReferenceKept, Exists, Free, Deleting
    <2>3. ChecksKey(v)' => ChecksKey(v)
      BY <1>0, <1>1, <2>1 DEF ChecksKey, Referring
    <2>4. QED BY <1>0, <2>2, <2>3 DEF ReferenceKept
  <1>12. QED BY <1>6, <1>7, <1>8, <1>9, <1>10, <1>11 DEF KeyInv

\* At the start there are no tickets and nobody works.
LEMMA KeyInit == Init => KeyInv
  <1> SUFFICES ASSUME Init
               PROVE  KeyInv
    OBVIOUS
  <1>1. TypeOK
    BY IdleTypes DEF Init, TypeOK, Opt
  <1>2. DeletionsGrounded /\ WritersGrounded /\ ReferenceKept /\ NoDangling
    BY IdleTypes DEF Init, DeletionsGrounded, WritersGrounded, ReferenceKept, NoDangling
  <1>3. OneHolder
    BY IdleTypes, TaxonomyAssumption DEF Init, OneHolder, HoldsTicket
  <1>4. QED BY <1>1, <1>2, <1>3 DEF KeyInv

\* Every step keeps the invariant.
LEMMA KeyStep == KeyInv /\ [Next]_vars => KeyInv'
  <1> SUFFICES ASSUME KeyInv, [Next]_vars
               PROVE  KeyInv'
    OBVIOUS
  <1>1. CASE UNCHANGED vars
    BY <1>1, AdminsKeep DEF vars, KeyInv, TypeOK, DeletionsGrounded, Deleting
  <1>2. CASE Next
    BY <1>2, TableStepsKeep, DeletionsKeep, BeginsKeep, StatementsKeep, FailsKeep, CommitKeeps
    DEF Next
  <1>3. QED BY <1>1, <1>2

-----------------------------------------------------------------------------

\* Every table and every request keeps its shape.
THEOREM TaxonomyTypes == Spec => []TypeOK
  <1>1. KeyInv => TypeOK
    BY DEF KeyInv
  <1>2. QED BY <1>1, KeyInit, KeyStep, PTL DEF Spec

\* (services/taxonomy_service.py, RESTRICT keys of tickets) However a DELETE
\* interleaves with requests and jobs that looked at the row before, no committed
\* ticket refers to a row that is gone.
THEOREM NothingDangles == Spec => []NoDangling
  <1>1. KeyInv => NoDangling
    BY DEF KeyInv
  <1>2. QED BY <1>1, KeyInit, KeyStep, PTL DEF Spec

\* Who waits for whom among requests: a writer that waits, waits for a DELETE or
\* for the holder of its ticket, and neither kind of holder waits for a request.
LEMMA WaitsEnd ==
    ASSUME NEW S \in SUBSET (Actors \ {w \in Writers : writers[w].op = "classify"})
    PROVE  ~ClosedWait(S)
  <1> SUFFICES ASSUME S # {}, \A x \in S : \E y \in S : Waits(x, y)
               PROVE  FALSE
    BY DEF ClosedWait
  <1>0. \A w \in S : w \in Writers => writers[w].op # "classify" /\ w \notin Admins
    BY TaxonomyAssumption
  <1>1. ASSUME NEW x \in S, x \in Admins
        PROVE  FALSE
    <2>1. PICK y \in S : Waits(x, y)
      OBVIOUS
    <2>2. CASE y \in Writers
      <3>1. writers[y].step = "flushed"
        BY <1>0, <1>1, <2>1, <2>2, TaxonomyAssumption DEF Waits, ForUpdate, Shares
      <3>2. PICK z \in S : Waits(y, z)
        OBVIOUS
      <3>3. QED BY <1>0, <2>2, <3>1, <3>2 DEF Waits
    <2>3. CASE y \in Admins
      <3>1. admins[y].step = "checking"
        BY <1>1, <2>1, <2>3, TaxonomyAssumption DEF Waits, Deleting
      <3>2. PICK z \in S : Waits(y, z)
        OBVIOUS
      <3>3. QED BY <1>0, <2>3, <3>1, <3>2, TaxonomyAssumption DEF Waits, ForUpdate
    <2>4. QED BY <2>2, <2>3 DEF Actors
  <1>2. ASSUME NEW x \in S
        PROVE  FALSE
    <2>1. PICK y \in S : Waits(x, y)
      OBVIOUS
    <2>2. x \in Writers /\ y \in Writers
      BY <1>1 DEF Actors
    <2>3. writers[y].step # "read"
      BY <1>0, <2>1, <2>2 DEF Waits, HoldsTicket
    <2>4. PICK z \in S : Waits(y, z)
      OBVIOUS
    <2>5. z \in Writers
      BY <1>1 DEF Actors
    <2>6. QED BY <1>0, <2>2, <2>3, <2>4, <2>5 DEF Waits
  <1>3. QED BY <1>2

\* Requests never deadlock among themselves on the locks of rows and foreign keys,
\* although they lock tickets and taxonomy rows in opposite orders: a cycle of
\* these waits goes through a classify_ticket job.
THEOREM NoRequestDeadlock == Spec => []RequestsNeverDeadlock
  <1>1. RequestsNeverDeadlock
    BY WaitsEnd DEF RequestsNeverDeadlock, Cycle
  <1>2. QED BY <1>1, PTL

-----------------------------------------------------------------------------

\* A refused DELETE is no victim of a deadlock: it waits for the row, but nobody
\* waits for it, so that it is part of no cycle.
LEMMA RefusedIsNoVictim ==
    ASSUME NEW a \in Admins, admins[a].step = "refused"
    PROVE  ~Victim(a)
  <1> SUFFICES ASSUME NEW S \in SUBSET Actors, a \in S, Cycle(S)
               PROVE  FALSE
    BY DEF Victim
  <1>1. \A x : ~Waits(x, a)
    BY TaxonomyAssumption DEF Waits, Deleting
  <1> DEFINE T == S \ {a}
  <1>2. \A x \in S : \E y \in T : Waits(x, y)
    BY <1>1 DEF Cycle, ClosedWait
  <1>3. ClosedWait(T)
    BY <1>2 DEF ClosedWait
  <1>4. T \in SUBSET S /\ T # S
    OBVIOUS
  <1>5. \A U \in (SUBSET S) \ {S} : ~ClosedWait(U)
    BY DEF Cycle
  <1> HIDE DEF T
  <1>6. QED BY <1>3, <1>4, <1>5

\* An activation after the look is recorded, a row never comes back from "gone",
\* and the fallback writes only a row that it saw active.
LEMMA SeenStep ==
    ASSUME KeyInv, SeenInactive, [Next]_vars
    PROVE  SeenInactive'
  <1>0. /\ admins \in [Admins -> Deletion] /\ DeletionsGrounded
        /\ rows \in [Rows -> {"unborn", "active", "inactive", "gone"}]
    BY DEF KeyInv, TypeOK
  <1>1. ASSUME NEW r \in Rows, Create(r)
        PROVE  SeenInactive'
    BY <1>0, <1>1 DEF Create, SeenInactive, DeletionsGrounded
  <1>2. ASSUME NEW r \in Rows, Update(r)
        PROVE  SeenInactive'
    <2>1. /\ rows' = [rows EXCEPT ![r] = IF @ = "active" THEN "inactive" ELSE "active"]
          /\ admins' = [a \in Admins |-> [admins[a] EXCEPT !.revived =
                           @ \/ (rows[r] = "inactive" /\ admins[a].row = r)]]
          /\ rows[r] \in {"active", "inactive"}
      BY <1>2 DEF Update, Exists
    <2>2. \A a \in Admins : /\ admins'[a].step = admins[a].step
                            /\ admins'[a].row = admins[a].row
                            /\ admins'[a].seen = admins[a].seen
                            /\ admins[a].revived => admins'[a].revived
                            /\ rows[r] = "inactive" /\ admins[a].row = r => admins'[a].revived
      BY <1>0, <2>1 DEF Deletion
    <2>3. QED BY <1>0, <2>1, <2>2 DEF SeenInactive, DeletionsGrounded
  <1>3. ASSUME NEW a \in Admins, NEW r \in Rows, BeginDelete(a, r)
        PROVE  SeenInactive'
    BY <1>0, <1>3 DEF BeginDelete, SeenInactive
  <1>4. ASSUME NEW a \in Admins, LockRow(a) \/ Refuse(a)
        PROVE  SeenInactive'
    BY <1>0, <1>4 DEF LockRow, Refuse, SeenInactive, Deletion
  <1>5. ASSUME NEW a \in Admins, DeleteNothing(a) \/ StaleDeactivation(a) \/ Victim(a)
        PROVE  SeenInactive'
    BY <1>0, <1>5, IdleTypes DEF DeleteNothing, StaleDeactivation, Victim, SeenInactive
  <1>6. ASSUME NEW a \in Admins, DeleteRow(a)
        PROVE  SeenInactive'
    BY <1>0, <1>6, IdleTypes DEF DeleteRow, SeenInactive, DeletionsGrounded
  <1>7. ASSUME NEW a \in Admins, Deactivate(a)
        PROVE  SeenInactive'
    BY <1>0, <1>7, IdleTypes DEF Deactivate, Deactivated, SeenInactive, DeletionsGrounded
  <1>8. CASE UNCHANGED <<rows, admins>>
    BY <1>8 DEF SeenInactive
  <1>9. QED
    BY <1>1, <1>2, <1>3, <1>4, <1>5, <1>6, <1>7, <1>8
    DEF Next, vars, CreateTicket, PatchTicket, ClassifyTicket, Begin, Execute, CheckKey,
        KeyMissing, CommitTicket, FailWriter

\* (taxonomy_service.py:52) A DELETE that answers deleted=False leaves the row
\* inactive or gone, unless a PATCH activated it meanwhile, although it decides with
\* the `active` it loaded at its start.
THEOREM DeactivationIsKept == Spec => DeactivationHolds
  <1>1. ASSUME KeyInv, SeenInactive, [Next]_vars, NEW a \in Admins,
               admins[a].step = "refused", admins'[a].step = "idle"
        PROVE  rows'[admins[a].row] # "active" \/ admins[a].revived
    <2>0. /\ admins \in [Admins -> Deletion] /\ admins[a].row \in Rows
          /\ rows \in [Rows -> {"unborn", "active", "inactive", "gone"}]
      BY <1>1 DEF KeyInv, TypeOK, DeletionsGrounded
    <2>1. CASE Deactivate(a)
      BY <1>1, <2>0, <2>1 DEF Deactivate, Deactivated, SeenInactive
    <2>2. CASE StaleDeactivation(a)
      BY <2>0, <2>2 DEF StaleDeactivation, Exists
    <2>3. ASSUME NEW b \in Admins, b # a,
                 \/ \E r \in Rows : BeginDelete(b, r)
                 \/ LockRow(b) \/ DeleteNothing(b) \/ DeleteRow(b)
                 \/ Refuse(b) \/ Deactivate(b) \/ StaleDeactivation(b) \/ Victim(b)
          PROVE  admins'[a] = admins[a]
      BY <2>0, <2>3 DEF BeginDelete, LockRow, DeleteNothing, DeleteRow, Refuse, Deactivate,
                        StaleDeactivation, Victim
    <2>4. ASSUME NEW r \in Rows, Create(r) \/ Update(r)
          PROVE  admins'[a].step = admins[a].step
      BY <2>0, <2>4 DEF Create, Update, Deletion
    <2>5. ~(\/ \E r \in Rows : BeginDelete(a, r)
            \/ LockRow(a) \/ DeleteNothing(a) \/ DeleteRow(a) \/ Refuse(a) \/ Victim(a))
      BY <1>1, RefusedIsNoVictim DEF BeginDelete, LockRow, DeleteNothing, DeleteRow, Refuse
    <2>6. ASSUME NEW w \in Writers,
                 \/ \E t \in Tickets, r \in Opt(Rows) :
                       CreateTicket(w, t, r) \/ PatchTicket(w, t, r) \/ ClassifyTicket(w, t, r)
                 \/ Execute(w) \/ CheckKey(w) \/ KeyMissing(w) \/ CommitTicket(w) \/ FailWriter(w)
          PROVE  admins' = admins
      BY <2>6 DEF CreateTicket, PatchTicket, ClassifyTicket, Begin, Execute, CheckKey,
                  KeyMissing, CommitTicket, FailWriter
    <2>7. admins' # admins
      BY <1>1
    <2>8. QED
      BY <1>1, <2>1, <2>2, <2>3, <2>4, <2>5, <2>6, <2>7 DEF Next, vars
  <1>2. KeyInv /\ SeenInactive /\ [Next]_vars =>
          [\A a \in Admins :
              admins[a].step = "refused" /\ admins'[a].step = "idle"
                 => rows'[admins[a].row] # "active" \/ admins[a].revived]_vars
    BY <1>1
  <1>3. Init => SeenInactive
    BY IdleTypes DEF Init, SeenInactive
  <1>4. QED BY <1>2, <1>3, KeyInit, KeyStep, SeenStep, PTL DEF Spec, DeactivationHolds

=============================================================================
