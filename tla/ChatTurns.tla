------------------------------ MODULE ChatTurns ------------------------------
(***************************************************************************)
(* One chat session and the turns on it: a request of the widget, or a job *)
(* of the WhatsApp worker, loads the session row without a lock, lets the  *)
(* LLM call tools for seconds, and writes back the columns it changed.     *)
(*                                                                         *)
(* The first flush of a turn locks the row until its commit, and an UPDATE *)
(* sets absolute values, so turns take effect in the order of their        *)
(* commits, each over what the row then holds.                             *)
(***************************************************************************)
EXTENDS Integers, Sequences, FiniteSets

CONSTANTS
    Turns,    \* turns in progress at the same time
    Tickets,  \* ids of the tickets the conversation may create
    MaxClock, \* bound on the turns ever begun
    None

ASSUME ChatTurnsAssumption == MaxClock \in Nat /\ None \notin Tickets /\ None \notin Nat

Opt(S) == S \cup {None}

Instants == 1..MaxClock

SessionRow == [status: {"active", "escalated"}, ticket: Opt(Tickets), streak: 0..1,
               escalatedAt: Opt(Instants)]

\* A turn: the row it loaded, its own copy, and the tickets it will have created,
\* filed for an escalation and raised to escalated when it commits.
Turn == [phase: {"idle", "open"}, at: Opt(Instants), loaded: SessionRow, mine: SessionRow,
         created: SUBSET Tickets, filed: SUBSET Tickets, raised: SUBSET Tickets]

VARIABLES
    channel,    \* chat_sessions.channel
    identified, \* chat_sessions.user_id IS NOT NULL
    overlap,    \* the visitor sends before the last answer has come
    session,    \* the row of chat_sessions
    tickets,    \* status of the tickets of this conversation
    filed,      \* the tickets created by an escalation
    turns,      \* send_message
    clock,      \* the turns begun
    history     \* the committed turns, in the order of their commits

vars == <<channel, identified, overlap, session, tickets, filed, turns, clock, history>>

fixed == <<channel, identified, overlap>>

NewSession == [status |-> "active", ticket |-> None, streak |-> 0, escalatedAt |-> None]

NoTurn == [phase |-> "idle", at |-> None, loaded |-> NewSession, mine |-> NewSession,
           created |-> {}, filed |-> {}, raised |-> {}]

\* A WhatsApp session always has its (provisioned) user.
Init ==
    /\ channel \in {"web", "whatsapp"}
    /\ identified \in BOOLEAN /\ (channel = "whatsapp" => identified)
    /\ overlap \in BOOLEAN
    /\ session = NewSession
    /\ tickets = [k \in Tickets |-> "none"]
    /\ filed = {}
    /\ turns = [t \in Turns |-> NoTurn]
    /\ clock = 0
    /\ history = <<>>

-----------------------------------------------------------------------------
(* A turn begins. *)

\* post_chat_message answers 409 unless the session is active;
\* process_whatsapp_message does not look at the status.
Admits == channel = "whatsapp" \/ session.status = "active"

OpenTurn(t) ==
    /\ turns[t].phase = "idle" /\ clock < MaxClock
    /\ overlap \/ \A s \in Turns : turns[s].phase = "idle"
    /\ Admits
    /\ clock' = clock + 1
    /\ turns' = [turns EXCEPT ![t] =
            [phase |-> "open", at |-> clock + 1, loaded |-> session, mine |-> session,
             created |-> {}, filed |-> {}, raised |-> {}]]
    /\ UNCHANGED <<fixed, session, tickets, filed, history>>

\* The id of a ticket that nobody has.
Unused(k) == tickets[k] = "none" /\ \A t \in Turns : k \notin turns[t].created

-----------------------------------------------------------------------------
(* The tools that write.  check_ticket_status and schedule_visit leave the  *)
(* session and the status of its ticket as they are.                        *)

\* create_ticket, for a caller with exactly one active contract.
CallCreateTicket(t, k) ==
    /\ turns[t].phase = "open" /\ identified /\ Unused(k)
    /\ turns' = [turns EXCEPT ![t].mine.ticket = k,
                              ![t].created = @ \cup {k}]
    /\ UNCHANGED <<fixed, session, tickets, filed, clock, history>>

\* Mutant: escalated_at is written at every escalation.
StampAlways(row, at) == [row EXCEPT !.escalatedAt = at]

\* escalated_at is written the first time only, as far as the turn can see.
Stamp(row, at) == IF row.escalatedAt = None THEN [row EXCEPT !.escalatedAt = at] ELSE row

\* Mutant: the ticket is created and raised, and the session not linked to it.
EscalateUnlinked(q, k) ==
    LET row == Stamp(q.mine, q.at)
        ticket == IF q.mine.ticket = None THEN k ELSE q.mine.ticket
    IN  [q EXCEPT !.mine = [row EXCEPT !.status = "escalated"],
                  !.created = @ \cup {k},
                  !.raised = IF identified THEN @ \cup {ticket} ELSE @]

\* escalate_to_human on the turn q: anonymous sessions change their status only;
\* an identified one gets the ticket k unless it has one, and the ticket is raised.
Escalate(q, k) ==
    LET row == Stamp(q.mine, q.at)
        new == identified /\ q.mine.ticket = None
        ticket == IF new THEN k ELSE q.mine.ticket
    IN  [q EXCEPT !.mine = [row EXCEPT !.status = "escalated", !.ticket = ticket],
                  !.created = IF new THEN @ \cup {k} ELSE @,
                  !.filed = IF new THEN @ \cup {k} ELSE @,
                  !.raised = IF identified THEN @ \cup {ticket} ELSE @]

\* An escalation of the turn would create a ticket.
WouldFile(t) == identified /\ turns[t].mine.ticket = None

CallEscalate(t, k) ==
    /\ turns[t].phase = "open" /\ (WouldFile(t) => Unused(k))
    /\ turns' = [turns EXCEPT ![t] = Escalate(@, k)]
    /\ UNCHANGED <<fixed, session, tickets, filed, clock, history>>

-----------------------------------------------------------------------------
(* The turn ends. *)

\* Mutant: every column is written, changed or not.
FlushedAlways(mine, loaded, stored) == mine

\* The flush writes a column only if the turn changed it.
Flushed(mine, loaded, stored) == IF mine = loaded THEN stored ELSE mine

\* Mutant: an escalation does not end the streak.
AnswerKeepsStreak(q, low, k) ==
    LET streak == IF low THEN q.mine.streak + 1 ELSE 0
    IN  IF streak >= 2
        THEN Escalate(q, k)
        ELSE [q EXCEPT !.mine.streak = streak]

\* The streak of low-confidence turns; two of them escalate and end it.
Answer(q, low, k) ==
    LET streak == IF low THEN q.mine.streak + 1 ELSE 0
    IN  IF streak >= 2
        THEN [Escalate(q, k) EXCEPT !.mine.streak = 0]
        ELSE [q EXCEPT !.mine.streak = streak]

\* The reply is stored, the streak updated and everything committed.
Commit(t, low, k) ==
    LET q == Answer(turns[t], low, k)
    IN  /\ turns[t].phase = "open" /\ (WouldFile(t) => Unused(k))
        /\ session' = [status |-> Flushed(q.mine.status, q.loaded.status, session.status),
                       ticket |-> Flushed(q.mine.ticket, q.loaded.ticket, session.ticket),
                       streak |-> Flushed(q.mine.streak, q.loaded.streak, session.streak),
                       escalatedAt |-> Flushed(q.mine.escalatedAt, q.loaded.escalatedAt,
                                               session.escalatedAt)]
        /\ tickets' = [i \in Tickets |-> IF i \in q.raised THEN "escalated"
                                         ELSE IF i \in q.created THEN "open" ELSE tickets[i]]
        /\ filed' = filed \cup q.filed
        /\ turns' = [turns EXCEPT ![t] = NoTurn]
        /\ history' = Append(history, IF ~low THEN "grounded"
                                      ELSE IF turns[t].mine.streak = 1 THEN "auto" ELSE "low")
        /\ UNCHANGED <<fixed, clock>>

\* The embedder, the LLM or a tool fails, the worker dies, the database breaks a
\* deadlock: everything is rolled back.
Fail(t) ==
    /\ turns[t].phase = "open"
    /\ turns' = [turns EXCEPT ![t] = NoTurn]
    /\ UNCHANGED <<fixed, session, tickets, filed, clock, history>>

-----------------------------------------------------------------------------
Next ==
    \E t \in Turns :
        \/ OpenTurn(t) \/ Fail(t)
        \/ \E k \in Tickets : CallCreateTicket(t, k) \/ CallEscalate(t, k)
        \/ \E k \in Tickets, low \in BOOLEAN : Commit(t, low, k)

Spec == Init /\ [][Next]_vars

-----------------------------------------------------------------------------
(* Properties. *)

\* The row, the tickets and the turns keep their types.
TypeOK ==
    /\ channel \in {"web", "whatsapp"} /\ identified \in BOOLEAN /\ overlap \in BOOLEAN
    /\ session \in SessionRow
    /\ tickets \in [Tickets -> {"none", "open", "escalated"}]
    /\ filed \in SUBSET Tickets
    /\ turns \in [Turns -> Turn]
    /\ clock \in 0..MaxClock
    /\ history \in Seq({"low", "grounded", "auto"})

\* An escalated session of an identified visitor has a ticket, although no turn
\* locks the row it reads: whatsapp_ingestion appends to that ticket unchecked.
\* The ticket is a real one, and some ticket of the conversation was escalated.
EscalatedHasTicket ==
    session.status = "escalated" /\ identified =>
        /\ session.ticket \in Tickets /\ tickets[session.ticket] # "none"
        /\ \E k \in Tickets : tickets[k] = "escalated"

\* A turn that loaded the row before another turn escalated the session or gave
\* it a ticket does not take that back, whenever it commits.
StaleTurnsUndoNothing ==
    [][/\ session.status = "escalated" => session'.status = "escalated"
       /\ session.ticket # None => session'.ticket # None
       /\ session.escalatedAt # None => session'.escalatedAt # None]_vars

\* The length of the run of low-confidence turns that history ends with.
TrailingLow ==
    Cardinality({i \in DOMAIN history : \A j \in i..Len(history) : history[j] = "low"})

\* Turn by turn, low_confidence_streak counts the low-confidence turns since the
\* last grounded answer or automatic escalation, whatever tools were called and
\* whichever turns failed; and since it is at most one, two CONSECUTIVE
\* low-confidence turns never go by without an escalation.
StreakIsTrailing == ~overlap => session.streak = TrailingLow

\* Turn by turn, an escalation is stamped once and files at most one ticket,
\* however often the LLM or the streak escalates the session again.
EscalatesOnce ==
    [][~overlap /\ session.escalatedAt # None =>
            session'.escalatedAt = session.escalatedAt /\ filed' = filed]_vars

-----------------------------------------------------------------------------
(* What the code's documentation says and overlapping turns do not keep. *)

\* escalate_to_human: "already has a linked ticket: no second ticket is created".
OneEscalationTicket == Cardinality(filed) <= 1

\* send_message: "Two CONSECUTIVE low-confidence turns (not merely two
\* low-confidence turns ever) trigger the same automatic escalation".
AutoOnlyAfterLow ==
    \A i \in DOMAIN history :
        history[i] = "auto" => i > 1 /\ history[i - 1] = "low"

\* chat_sessions.escalated_at: "Set exactly once ... never overwritten by a later
\* re-escalation".
StampedOnce ==
    [][session.escalatedAt # None => session'.escalatedAt = session.escalatedAt]_vars

=============================================================================
