-------------------------------- MODULE Email --------------------------------
(***************************************************************************)
(* The e-mail channel of one organization: the provider's webhook that     *)
(* files an inbound mail on a ticket, the staff's replies, and the job     *)
(* that mails a reply out.                                                 *)
(*                                                                         *)
(* The threads of a ticket live in channel_metadata, one JSONB value.  The *)
(* webhook reads it in its scan of candidates and the job when it starts;  *)
(* each writes it back whole.  The webhook's SELECT ... FOR UPDATE makes it*)
(* wait for other writers but does not refresh what the scan has loaded.   *)
(*                                                                         *)
(* A webhook request whose token was seen before, or whose signature or    *)
(* age is wrong, is refused before any statement runs; one for an address  *)
(* of no organization is acknowledged and dropped.  Neither is a step.     *)
(***************************************************************************)
EXTENDS Integers, Sequences, FiniteSets, SequencesExt

CONSTANTS
    Mails,     \* inbound mails, by their Message-ID
    Replies,   \* staff messages; the Message-ID mailed out is derived from the row's id
    Tickets,
    Senders,
    Subjects,  \* normalised subjects
    Known,     \* what may be known of an address at the start, a subset of Roles
    Hooks,     \* webhook requests at the same time
    MaxTries,  \* WorkerSettings.max_tries
    MaxDeliveries, \* bound on accepted webhook requests
    None

\* What the webhook finds for an address: nobody yet, a user of this organization
\* by role, or a user of another one.
Roles == {"none", "tenant", "owner", "staff", "elsewhere"}

ASSUME EmailAssumption ==
    /\ MaxTries \in Nat \ {0} /\ MaxDeliveries \in Nat
    /\ None \notin Mails \cup Replies \cup Tickets
    /\ Mails \cap Replies = {}
    /\ Known \subseteq Roles

Ids == Mails \cup Replies

\* channel_metadata: message_ids, last_outbound_message_id.
Metadata == [ids: Seq(Ids), last: Replies \cup {None}]

\* subject and sender are in channel_metadata too and never change.
TicketRow == [status: {"none", "open", "closed"}, sender: Senders \cup {None},
              subject: Subjects \cup {None}, created: 0..MaxDeliveries, meta: Metadata]

\* A mail on its way in: the headers and the tag its client kept.  `answers' is the
\* reply it was written in answer to, which the code does not see.
Letter == [from: Senders, subject: Subjects, tag: Tickets \cup {None},
           parent: Ids \cup {None}, refs: Seq(Ids), answers: Replies \cup {None}]

Hook == [phase: {"idle", "open"}, mail: Mails \cup {None}, ticket: Tickets \cup {None},
         new: BOOLEAN, created: 0..MaxDeliveries, meta: Metadata]

Job == [phase: {"none", "posted", "queued", "loaded", "sent", "recorded", "ended"},
        ticket: Tickets \cup {None}, tries: 0..MaxTries, meta: Metadata]

VARIABLES
    overlap,   \* two writers of one sender's threads may be under way at once
    clash,     \* the tickets' ids share their first eight digits
    users,     \* users rows, by address
    letters,   \* mails written so far
    tickets,   \* tickets with channel=email
    hooks,     \* receive_email_webhook
    jobs,      \* staff replies and their send_ticket_email_reply job
    delivered, \* accepted webhook requests so far
    cutoff,    \* tickets created after it are recent enough for the subject match
    filed,     \* how often each mail was committed to each ticket
    mailed,    \* the References header of every mail the SMTP server took, by reply
    missed     \* mails taken that the job did not get to record, by reply

vars == <<overlap, clash, users, letters, tickets, hooks, jobs, delivered, cutoff,
          filed, mailed, missed>>

NoMeta == [ids |-> <<>>, last |-> None]

NoTicket == [status |-> "none", sender |-> None, subject |-> None, created |-> 0,
             meta |-> NoMeta]

NoHook == [phase |-> "idle", mail |-> None, ticket |-> None, new |-> FALSE,
           created |-> 0, meta |-> NoMeta]

Init ==
    /\ overlap \in BOOLEAN
    /\ clash \in BOOLEAN
    /\ users \in [Senders -> Known]
    /\ letters = [m \in Mails |-> None]
    /\ tickets = [t \in Tickets |-> NoTicket]
    /\ hooks = [h \in Hooks |-> NoHook]
    /\ jobs = [o \in Replies |-> [phase |-> "none", ticket |-> None, tries |-> 0,
                                  meta |-> NoMeta]]
    /\ delivered = 0
    /\ cutoff = 0
    /\ filed = [m \in Mails |-> [t \in Tickets |-> 0]]
    /\ mailed = [o \in Replies |-> <<>>]
    /\ missed = [o \in Replies |-> 0]

-----------------------------------------------------------------------------
(* The customer's side. *)

\* A mail matters from its first delivery on, so that it may as well be written just
\* before it, when every mail written earlier has been delivered.
Unwritten(m) ==
    /\ letters[m] = None
    /\ Cardinality({n \in Mails : letters[n] # None}) <= delivered

\* A new mail.
Write(m, u, subj) ==
    /\ Unwritten(m)
    /\ letters' = [letters EXCEPT ![m] =
            [from |-> u, subject |-> subj, tag |-> None, parent |-> None, refs |-> <<>>,
             answers |-> None]]
    /\ UNCHANGED <<overlap, clash, users, tickets, hooks, jobs, delivered, cutoff,
                   filed, mailed, missed>>

\* An answer to a mail received: clients put the mail answered into In-Reply-To and
\* at the end of References; some keep only the subject line.
Answer(m, o, i, keeps) ==
    LET t == jobs[o].ticket
    IN  /\ Unwritten(m) /\ i \in DOMAIN mailed[o]
        /\ letters' = [letters EXCEPT ![m] =
                [from |-> tickets[t].sender, subject |-> tickets[t].subject, tag |-> t,
                 parent |-> IF keeps THEN o ELSE None,
                 refs |-> IF keeps THEN Append(mailed[o][i], o) ELSE <<>>,
                 answers |-> o]]
        /\ UNCHANGED <<overlap, clash, users, tickets, hooks, jobs, delivered, cutoff,
                       filed, mailed, missed>>

-----------------------------------------------------------------------------
(* The matching ladder of ingest_inbound_email. *)

\* TicketRepository.select: staff see every ticket, a tenant the ones they reported,
\* an owner the ones of their properties (a mailed ticket has none).
Candidates(u) ==
    {t \in Tickets : /\ tickets[t].status # "none"
                     /\ \/ users[u] = "staff"
                        \/ users[u] = "tenant" /\ tickets[t].sender = u}

Holding(u, id) == {t \in Candidates(u) : Contains(tickets[t].meta.ids, id)}

\* extract_reference_ids: In-Reply-To, then References from the latest back (a
\* repeated id changes nothing).
ReferenceIds(l) ==
    (IF l.parent = None THEN <<>> ELSE <<l.parent>>) \o Reverse(l.refs)

\* Mutant: only the direct parent is looked up.
ByReferenceDirect(l) ==
    IF l.parent = None THEN {} ELSE Holding(l.from, l.parent)

\* The tickets that may be found first: the scan has no order.
ByReference(l) ==
    LET refs == ReferenceIds(l)
        hits == {i \in DOMAIN refs : Holding(l.from, refs[i]) # {}}
    IN  IF hits = {} THEN {} ELSE Holding(l.from, refs[Min(hits)])

TagMatches(l) == {t \in Candidates(l.from) : l.tag # None /\ (clash \/ t = l.tag)}

ByTag(l) == IF Cardinality(TagMatches(l)) = 1 THEN TagMatches(l) ELSE {}

Eligible(l) ==
    {t \in Candidates(l.from) : /\ tickets[t].status # "closed"
                                /\ tickets[t].sender = l.from
                                /\ tickets[t].subject = l.subject
                                /\ tickets[t].created > cutoff}

BySubject(l) == {t \in Eligible(l) : \A s \in Eligible(l) : tickets[s].created <= tickets[t].created}

Matched(l) ==
    IF ByReference(l) # {} THEN ByReference(l)
    ELSE IF ByTag(l) # {} THEN ByTag(l) ELSE BySubject(l)

\* Mutant: the replay check is left out.
ReplayNever(m) == FALSE

\* _find_replay: a candidate already has this Message-ID.
Replay(m) == Holding(letters[m].from, m) # {}

-----------------------------------------------------------------------------
(* The webhook. *)

\* Writers of the threads a sender takes part in.
Busy(u) ==
    \/ \E h \in Hooks : /\ hooks[h].phase = "open"
                        /\ \/ letters[hooks[h].mail].from = u
                           \/ tickets[hooks[h].ticket].sender = u
    \/ \E o \in Replies : /\ jobs[o].phase \in {"loaded", "sent"}
                          /\ tickets[jobs[o].ticket].sender = u

MayWrite(u) == overlap \/ ~Busy(u)

\* A request is taken up for a sender of this organization, or for a new one: then
\* it inserts the user, and users.email is unique, so that another request for the
\* same address waits, and fails if this one commits.
Accept(h, m) ==
    /\ hooks[h].phase = "idle" /\ delivered < MaxDeliveries
    /\ letters[m] # None
    /\ LET u == letters[m].from
       IN  /\ users[u] # "elsewhere" /\ MayWrite(u)
           /\ users[u] = "none" =>
                \A g \in Hooks : hooks[g].phase = "open" => letters[hooks[g].mail].from # u
    /\ ~Replay(m)
    /\ delivered' = delivered + 1

\* The scan has found a ticket (for staff it may be somebody else's): the request will
\* append to it.
IngestInto(h, m, t) ==
    /\ Accept(h, m) /\ t \in Matched(letters[m]) /\ MayWrite(tickets[t].sender)
    /\ hooks' = [hooks EXCEPT ![h] =
            [phase |-> "open", mail |-> m, ticket |-> t, new |-> FALSE,
             created |-> tickets[t].created, meta |-> tickets[t].meta]]
    /\ UNCHANGED <<overlap, clash, users, letters, tickets, jobs, cutoff, filed, mailed, missed>>

\* No ticket is found: the request creates one.
IngestNew(h, m, t) ==
    /\ Accept(h, m) /\ Matched(letters[m]) = {}
    /\ tickets[t].status = "none" /\ \A g \in Hooks : hooks[g].ticket # t
    /\ hooks' = [hooks EXCEPT ![h] =
            [phase |-> "open", mail |-> m, ticket |-> t, new |-> TRUE,
             created |-> delivered', meta |-> NoMeta]]
    /\ UNCHANGED <<overlap, clash, users, letters, tickets, jobs, cutoff, filed, mailed, missed>>

\* Mutant: the list is replaced by the new Message-ID.
RecordedAlone(meta, id) == [ids |-> <<id>>, last |-> meta.last]

\* with_appended on message_ids, without a cap.
Recorded(meta, id) == [ids |-> Append(meta.ids, id), last |-> meta.last]

\* The request commits: the message and the thread, or the ticket; a new sender is
\* a pending tenant.  Only a new ticket goes on to classification.
CommitHook(h) ==
    LET q == hooks[h]
        l == letters[q.mail]
    IN  /\ q.phase = "open"
        /\ users' = [users EXCEPT ![l.from] = IF @ = "none" THEN "tenant" ELSE @]
        /\ tickets' = [tickets EXCEPT ![q.ticket] =
                [status |-> IF q.new THEN "open" ELSE @.status,
                 sender |-> IF q.new THEN l.from ELSE @.sender,
                 subject |-> IF q.new THEN l.subject ELSE @.subject,
                 created |-> q.created,
                 meta |-> Recorded(q.meta, q.mail)]]
        /\ hooks' = [hooks EXCEPT ![h] = NoHook]
        /\ filed' = [filed EXCEPT ![q.mail][q.ticket] = @ + 1]
        /\ UNCHANGED <<overlap, clash, letters, jobs, delivered, cutoff, mailed, missed>>

\* Any failure: everything but the token's key in Redis is rolled back, and the
\* provider delivers the mail again with another token.
AbortHook(h) ==
    /\ hooks[h].phase = "open"
    /\ hooks' = [hooks EXCEPT ![h] = NoHook]
    /\ UNCHANGED <<overlap, clash, users, letters, tickets, jobs, delivered, cutoff,
                   filed, mailed, missed>>

-----------------------------------------------------------------------------
(* The staff. *)

\* create_message by staff on an e-mail ticket, committed.
PostReply(o, t) ==
    /\ jobs[o].phase = "none" /\ tickets[t].status # "none"
    /\ jobs' = [jobs EXCEPT ![o] = [phase |-> "posted", ticket |-> t, tries |-> 0,
                                    meta |-> NoMeta]]
    /\ UNCHANGED <<overlap, clash, users, letters, tickets, hooks, delivered, cutoff,
                   filed, mailed, missed>>

\* update_ticket, as far as the ladder can tell: closed or not.
SetStatus(t, closed) ==
    /\ tickets[t].status = IF closed THEN "open" ELSE "closed"
    /\ tickets' = [tickets EXCEPT ![t].status = IF closed THEN "closed" ELSE "open"]
    /\ UNCHANGED <<overlap, clash, users, letters, hooks, jobs, delivered, cutoff,
                   filed, mailed, missed>>

\* Days go by.
Age ==
    /\ cutoff < delivered
    /\ cutoff' = delivered
    /\ UNCHANGED <<overlap, clash, users, letters, tickets, hooks, jobs, delivered,
                   filed, mailed, missed>>

-----------------------------------------------------------------------------
(* send_ticket_email_reply. *)

OnlyJobs == UNCHANGED <<overlap, clash, users, letters, tickets, hooks, delivered,
                        cutoff, filed>>

Goto(o, phase) ==
    jobs' = [jobs EXCEPT ![o] = [phase |-> phase, ticket |-> @.ticket, tries |-> @.tries,
                                 meta |-> IF phase \in {"loaded", "sent"} THEN @.meta ELSE NoMeta]]

\* The background task queues the job; if it cannot, nothing ever will.
EnqueueReply(o, reached) ==
    /\ jobs[o].phase = "posted"
    /\ Goto(o, IF reached THEN "queued" ELSE "ended")
    /\ OnlyJobs /\ UNCHANGED <<mailed, missed>>

\* Mutant: the job does not look for its Message-ID.
SentBeforeNever(o) == FALSE

SentBefore(o) == Contains(tickets[jobs[o].ticket].meta.ids, o)

\* A try begins: the thread is loaded, without a lock.
LoadJob(o) ==
    /\ jobs[o].phase = "queued" /\ jobs[o].tries < MaxTries
    /\ MayWrite(tickets[jobs[o].ticket].sender)
    /\ jobs' = [jobs EXCEPT ![o] =
            [phase |-> IF SentBefore(o) THEN "ended" ELSE "loaded", ticket |-> @.ticket,
             tries |-> @.tries + 1,
             meta |-> IF SentBefore(o) THEN NoMeta ELSE tickets[jobs[o].ticket].meta]]
    /\ OnlyJobs /\ UNCHANGED <<mailed, missed>>

\* arq gives up a job that has used its tries.
GiveUp(o) ==
    /\ jobs[o].phase = "queued" /\ jobs[o].tries = MaxTries
    /\ Goto(o, "ended")
    /\ OnlyJobs /\ UNCHANGED <<mailed, missed>>

\* build_reply_headers: the thread so far, and the mail replied to (the last one sent,
\* or the thread's last) if it is not in it.
References(o) ==
    LET meta == jobs[o].meta
        parent == IF meta.last # None THEN meta.last ELSE Last(meta.ids)
    IN  IF Contains(meta.ids, parent) THEN meta.ids ELSE Append(meta.ids, parent)

Taken(o) == mailed' = [mailed EXCEPT ![o] = Append(@, References(o))]

Unrecorded(o) == missed' = [missed EXCEPT ![o] = @ + 1]

\* The SMTP server takes the mail.
SendMail(o) ==
    /\ jobs[o].phase = "loaded"
    /\ Taken(o) /\ Goto(o, "sent")
    /\ OnlyJobs /\ UNCHANGED missed

\* A transient failure is retried; after a read timeout the server may have the mail.
RetryMail(o, taken) ==
    /\ jobs[o].phase = "loaded"
    /\ Goto(o, "queued")
    /\ IF taken THEN Taken(o) /\ Unrecorded(o) ELSE UNCHANGED <<mailed, missed>>
    /\ OnlyJobs

\* A permanent failure is logged.
RefuseMail(o) ==
    /\ jobs[o].phase = "loaded"
    /\ Goto(o, "ended")
    /\ OnlyJobs /\ UNCHANGED <<mailed, missed>>

\* The mail's Message-ID is recorded and committed, over what was loaded.
CommitJob(o) ==
    LET q == jobs[o]
    IN  /\ q.phase = "sent"
        /\ tickets' = [tickets EXCEPT ![q.ticket].meta =
                [ids |-> Recorded(q.meta, o).ids, last |-> o]]
        /\ Goto(o, "recorded")
        /\ UNCHANGED <<overlap, clash, users, letters, hooks, delivered, cutoff,
                       filed, mailed, missed>>

\* The commit fails: the exception ends the job.
FailJob(o) ==
    /\ jobs[o].phase = "sent"
    /\ Unrecorded(o) /\ Goto(o, "ended")
    /\ OnlyJobs /\ UNCHANGED mailed

\* The worker dies before arq has noted the end: the job is delivered again.
CrashJob(o) ==
    /\ jobs[o].phase \in {"loaded", "sent", "recorded"}
    /\ Goto(o, "queued")
    /\ IF jobs[o].phase = "sent" THEN Unrecorded(o) ELSE UNCHANGED missed
    /\ OnlyJobs /\ UNCHANGED mailed

EndJob(o) ==
    /\ jobs[o].phase = "recorded"
    /\ Goto(o, "ended")
    /\ OnlyJobs /\ UNCHANGED <<mailed, missed>>

-----------------------------------------------------------------------------
Next ==
    \/ \E m \in Mails : \/ \E u \in Senders, subj \in Subjects : Write(m, u, subj)
                        \/ \E o \in Replies, i \in 1..MaxTries, k \in BOOLEAN : Answer(m, o, i, k)
    \/ \E h \in Hooks : \/ CommitHook(h) \/ AbortHook(h)
                        \/ \E m \in Mails, t \in Tickets : IngestInto(h, m, t) \/ IngestNew(h, m, t)
    \/ \E t \in Tickets : \/ \E o \in Replies : PostReply(o, t)
                          \/ \E c \in BOOLEAN : SetStatus(t, c)
    \/ Age
    \/ \E o \in Replies : \/ LoadJob(o) \/ GiveUp(o) \/ SendMail(o) \/ RefuseMail(o)
                          \/ CommitJob(o) \/ FailJob(o) \/ CrashJob(o) \/ EndJob(o)
                          \/ \E b \in BOOLEAN : EnqueueReply(o, b) \/ RetryMail(o, b)

Spec == Init /\ [][Next]_vars

-----------------------------------------------------------------------------
(* Properties. *)

\* The rows, the requests and the jobs keep their types.
TypeOK ==
    /\ overlap \in BOOLEAN /\ clash \in BOOLEAN
    /\ users \in [Senders -> Roles]
    /\ letters \in [Mails -> Letter \cup {None}]
    /\ tickets \in [Tickets -> TicketRow]
    /\ hooks \in [Hooks -> Hook]
    /\ jobs \in [Replies -> Job]
    /\ delivered \in 0..MaxDeliveries /\ cutoff \in 0..MaxDeliveries
    /\ filed \in [Mails -> [Tickets -> Nat]]
    /\ mailed \in [Replies -> Seq(Seq(Ids))]
    /\ missed \in [Replies -> Nat]

\* While the writers of one sender's threads do not overlap, a mail is filed once,
\* however often the provider delivers it, and whatever was rolled back, closed,
\* aged or replied to in between (senders with the owner role aside).
FiledOnce ==
    ~overlap => \A m \in Mails : \A t, s \in Tickets :
        /\ filed[m][t] > 0 /\ users[letters[m].from] # "owner"
        => filed[m][t] = 1 /\ (filed[m][s] > 0 => s = t)

\* The webhook and the job keep what the other has written: without overlap every
\* mail filed on a ticket and every reply recorded on it stay in message_ids.
ThreadKeepsAll ==
    ~overlap => \A t \in Tickets :
        /\ \A m \in Mails : filed[m][t] > 0 => Contains(tickets[t].meta.ids, m)
        /\ \A o \in Replies : /\ jobs[o].phase = "recorded" /\ jobs[o].ticket = t
                              => Contains(tickets[t].meta.ids, o)

\* A customer's answer is filed on the ticket of the mail it answers: also when writers
\* overlapped, when the job died between sending that mail and recording it, or when
\* its record was overwritten; provided no mail was filed on two tickets, and the
\* client kept the headers or the tag is unambiguous (owners aside).
AnswersStayInThread ==
    (\A m \in Mails, t, s \in Tickets : filed[m][t] > 0 /\ filed[m][s] > 0 => s = t) =>
    \A m \in Mails, t \in Tickets :
        filed[m][t] > 0 /\ users[letters[m].from] # "owner" =>
            LET l == letters[m]
            IN  l.answers # None /\ (l.parent # None \/ ~clash) => t = jobs[l.answers].ticket

\* Every second copy of a reply in the customer's mailbox goes back to a try that lost
\* the record of a mail taken: a crash, a failed commit or an unanswered send.
CopiesAreExplained ==
    ~overlap => \A o \in Replies : Len(mailed[o]) <= missed[o] + 1

-----------------------------------------------------------------------------
(* What the code's documentation says and the code does not keep. *)

\* I5: "a REPLAY of a provider Message-ID already recorded on some ticket ... no-op,
\* nothing written".
ReplayIsNoOp == \A m \in Mails, t, s \in Tickets : filed[m][t] + (IF s = t THEN 0 ELSE filed[m][s]) <= 1

\* The same without overlapping requests: the senders with the owner role.
ReplayIsNoOpAlone == ~overlap => ReplayIsNoOp

\* "a duplicate arq delivery of this exact job ... is a safe no-op".
MailedOnce == \A o \in Replies : Len(mailed[o]) <= 1

=============================================================================
