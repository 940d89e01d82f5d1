------------------------------ MODULE WhatsApp ------------------------------
(***************************************************************************)
(* The WhatsApp conversation of one sender with one organization: the      *)
(* webhook that files inbound messages, the job that runs a bot turn and   *)
(* the job that sends its reply.                                           *)
(*                                                                         *)
(* Meta delivers a message again until it is acknowledged, and sometimes   *)
(* after that.  channel_metadata is one JSONB value: the webhook and the   *)
(* reply job load it without a lock, change it and write it back whole.    *)
(***************************************************************************)
EXTENDS Integers, Sequences, FiniteSets

CONSTANTS
    Messages,    \* wamids
    Sessions,    \* ids of chat_sessions rows
    Hooks,       \* webhook requests at the same time
    Jobs,        \* turn jobs at the same time
    Replies,     \* reply jobs at the same time
    RingCap,     \* _PROCESSED_MESSAGE_IDS_CAP
    DeferredCap, \* _DEFERRED_REPLIES_CAP
    Limit,       \* chat_rate_limit_per_hour
    IdleAfter,   \* whatsapp_session_idle_minutes
    WindowAfter, \* whatsapp_customer_window_hours
    MaxNow,      \* bound on the clock
    MaxDeliveries, \* bound on the deliveries of all messages
    MaxDeferrals,  \* bound on the deferrals of a session
    Nothing

ASSUME WhatsAppAssumption ==
    /\ RingCap \in Nat \ {0} /\ DeferredCap \in Nat \ {0} /\ Limit \in Nat \ {0}
    /\ IdleAfter \in Nat /\ WindowAfter \in Nat
    /\ MaxNow \in Nat /\ MaxDeliveries \in Nat /\ MaxDeferrals \in Nat
    /\ IsFiniteSet(Messages) /\ Nothing \notin Messages /\ Nothing \notin Sessions

Moments == 0..MaxNow

\* channel_metadata: processed_message_ids, last_inbound_at, deferred_replies.
Metadata == [ring: Seq(Messages), inbound: Moments, deferred: Seq(Replies)]

WhatsAppSession == [status: {"none", "active", "escalated"}, activity: Moments, meta: Metadata]

Outcomes == {"append", "limited", "queue"}

Hook == [phase: {"idle", "open", "enqueue"}, msg: Messages \cup {Nothing},
         session: Sessions \cup {Nothing}, outcome: Outcomes, new: BOOLEAN,
         activity: Moments, meta: Metadata, counted: BOOLEAN]

Job == [phase: {"idle", "queued", "ran"}, session: Sessions \cup {Nothing}]

Reply == [phase: {"idle", "queued", "loaded", "done"}, session: Sessions \cup {Nothing},
          outside: BOOLEAN, meta: Metadata]

VARIABLES
    racing,    \* two writers of channel_metadata may be under way at once
    now,
    user,      \* the sender's users row exists
    sessions,  \* rows of chat_sessions with this wa_id
    hits,      \* Redis: the limiter's counters of this hour
    hooks,     \* receive_whatsapp_webhook
    jobs,      \* process_whatsapp_message
    replies,   \* send_whatsapp_reply
    delivered, \* deliveries so far
    recorded,  \* the messages each session has been committed with
    queued,    \* how often each message was queued for a turn, by session
    turned,    \* turns queued in this hour, by session
    put        \* the deferrals of each session so far, in their order

whatsAppVars == <<racing, now, user, sessions, hits, hooks, jobs, replies, delivered,
                  recorded, queued, turned, put>>

ledger == <<recorded, queued, turned, put>>

NoMeta == [ring |-> <<>>, inbound |-> 0, deferred |-> <<>>]

NoHook == [phase |-> "idle", msg |-> Nothing, session |-> Nothing, outcome |-> "queue",
           new |-> FALSE, activity |-> 0, meta |-> NoMeta, counted |-> FALSE]

NoJob == [phase |-> "idle", session |-> Nothing]

NoReply == [phase |-> "idle", session |-> Nothing, outside |-> FALSE, meta |-> NoMeta]

WhatsAppInit ==
    /\ racing \in BOOLEAN
    /\ now = 0
    /\ user \in BOOLEAN
    /\ sessions = [s \in Sessions |-> [status |-> "none", activity |-> 0, meta |-> NoMeta]]
    /\ hits = [s \in Sessions |-> 0]
    /\ hooks = [h \in Hooks |-> NoHook]
    /\ jobs = [j \in Jobs |-> NoJob]
    /\ replies = [r \in Replies |-> NoReply]
    /\ delivered = 0
    /\ recorded = [s \in Sessions |-> {}]
    /\ queued = [s \in Sessions |-> [m \in Messages |-> 0]]
    /\ turned = [s \in Sessions |-> 0]
    /\ put = [s \in Sessions |-> <<>>]

-----------------------------------------------------------------------------
(* Writers of channel_metadata. *)

MetadataIsFree ==
    /\ \A h \in Hooks : hooks[h].phase # "open"
    /\ \A r \in Replies : replies[r].phase # "loaded"

MayWrite == racing \/ MetadataIsFree

\* with_appended: the list keeps its last cap items.
Appended(seq, x, cap) ==
    LET longer == Append(seq, x)
    IN  IF Len(longer) > cap THEN Tail(longer) ELSE longer

Contains(seq, x) == \E i \in DOMAIN seq : seq[i] = x

-----------------------------------------------------------------------------
(* The webhook. *)

\* _find_existing_session: a session of the sender with the latest activity.
Latest(s) ==
    /\ sessions[s].status # "none"
    /\ \A r \in Sessions : sessions[r].status # "none" =>
                               sessions[r].activity <= sessions[s].activity

NoSession == \A s \in Sessions : sessions[s].status = "none"

\* An escalated session is always reused, an active one until it has been idle.
Reusable(s) ==
    \/ sessions[s].status = "escalated"
    \/ sessions[s].status = "active" /\ now - sessions[s].meta.inbound <= IdleAfter

\* check_and_increment: INCR (beyond the limit the count makes no difference).
Count(s) == IF hits[s] > Limit THEN hits[s] ELSE hits[s] + 1

\* Mutant: the count before the increment is compared.
ExceedsLater(s) == hits[s] > Limit

Exceeds(s) == Count(s) > Limit

\* A delivery that may be taken up now: an unknown sender is provisioned by one
\* request at a time (users.phone_number is unique).
Deliver(h) ==
    /\ hooks[h].phase = "idle" /\ delivered < MaxDeliveries /\ MayWrite
    /\ user \/ \A g \in Hooks : hooks[g].phase # "open"
    /\ delivered' = delivered + 1

\* Mutant: processed_message_ids is not looked at.
IngestIntoUnchecked(h, m, s) ==
    LET row == sessions[s]
        escalated == row.status = "escalated"
    IN  /\ Deliver(h) /\ Latest(s) /\ Reusable(s)
        /\ hits' = [hits EXCEPT ![s] = IF escalated THEN @ ELSE Count(s)]
        /\ hooks' = [hooks EXCEPT ![h] =
                [phase |-> "open", msg |-> m, session |-> s,
                 outcome |-> IF escalated THEN "append"
                             ELSE IF Exceeds(s) THEN "limited" ELSE "queue",
                 new |-> FALSE, activity |-> now,
                 meta |-> [ring |-> Appended(row.meta.ring, m, RingCap), inbound |-> now,
                           deferred |-> row.meta.deferred],
                 counted |-> ~escalated]]
        /\ UNCHANGED <<racing, now, user, sessions, jobs, replies, ledger>>

\* ingest_inbound_whatsapp_message into an existing session, unless it is a replay.
IngestInto(h, m, s) ==
    LET row == sessions[s]
        escalated == row.status = "escalated"
    IN  /\ Deliver(h) /\ Latest(s) /\ Reusable(s)
        /\ ~Contains(row.meta.ring, m)
        /\ hits' = [hits EXCEPT ![s] = IF escalated THEN @ ELSE Count(s)]
        /\ hooks' = [hooks EXCEPT ![h] =
                [phase |-> "open", msg |-> m, session |-> s,
                 outcome |-> IF escalated THEN "append"
                             ELSE IF Exceeds(s) THEN "limited" ELSE "queue",
                 new |-> FALSE, activity |-> now,
                 meta |-> [ring |-> Appended(row.meta.ring, m, RingCap), inbound |-> now,
                           deferred |-> row.meta.deferred],
                 counted |-> ~escalated]]
        /\ UNCHANGED <<racing, now, user, sessions, jobs, replies, ledger>>

\* The same into a new session s (an id nobody has, counted from zero): there is
\* no session, or the latest one is idle.
IngestNew(h, m, s) ==
    /\ Deliver(h)
    /\ NoSession \/ \E e \in Sessions : Latest(e) /\ ~Reusable(e)
    /\ sessions[s].status = "none" /\ hits[s] = 0
    /\ \A g \in Hooks : hooks[g].session # s
    /\ hits' = [hits EXCEPT ![s] = Count(s)]
    /\ hooks' = [hooks EXCEPT ![h] =
            [phase |-> "open", msg |-> m, session |-> s,
             outcome |-> "queue", new |-> TRUE, activity |-> now,
             meta |-> [ring |-> <<m>>, inbound |-> now, deferred |-> <<>>],
             counted |-> TRUE]]
    /\ UNCHANGED <<racing, now, user, sessions, jobs, replies, ledger>>

\* The request commits: channel_metadata whole, last_activity_at, and the message
\* of the ticket when the session is escalated.
CommitHook(h) ==
    LET q == hooks[h]
    IN  /\ q.phase = "open"
        /\ user' = TRUE
        /\ sessions' = [sessions EXCEPT ![q.session] =
                [status |-> IF q.new THEN "active" ELSE sessions[q.session].status,
                 activity |-> q.activity, meta |-> q.meta]]
        /\ hooks' = [hooks EXCEPT ![h] =
                IF q.outcome = "queue" THEN [q EXCEPT !.phase = "enqueue"] ELSE NoHook]
        /\ recorded' = [recorded EXCEPT ![q.session] = @ \cup {q.msg}]
        /\ UNCHANGED <<racing, now, hits, jobs, replies, delivered, queued, turned, put>>

\* Any failure: the request is rolled back, the count in Redis is not.
AbortHook(h) ==
    /\ hooks[h].phase = "open"
    /\ hooks' = [hooks EXCEPT ![h] = NoHook]
    /\ UNCHANGED <<racing, now, user, sessions, hits, jobs, replies, delivered, ledger>>

\* The background task puts the turn into the queue.
EnqueueTurn(h, j) ==
    LET s == hooks[h].session
    IN  /\ hooks[h].phase = "enqueue" /\ jobs[j].phase = "idle"
        /\ jobs' = [jobs EXCEPT ![j] = [phase |-> "queued", session |-> s]]
        /\ hooks' = [hooks EXCEPT ![h] = NoHook]
        /\ queued' = [queued EXCEPT ![s][hooks[h].msg] = @ + 1]
        /\ turned' = [turned EXCEPT ![s] = IF hooks[h].counted THEN @ + 1 ELSE @]
        /\ UNCHANGED <<racing, now, user, sessions, hits, replies, delivered, recorded, put>>

\* The process dies after the commit, or Redis does not answer.
LoseTurn(h) ==
    /\ hooks[h].phase = "enqueue"
    /\ hooks' = [hooks EXCEPT ![h] = NoHook]
    /\ UNCHANGED <<racing, now, user, sessions, hits, jobs, replies, delivered, ledger>>

-----------------------------------------------------------------------------
(* process_whatsapp_message: the turn itself is ChatTurns. *)

\* The turn is committed; it may have escalated the session.
RunTurn(j, escalates) ==
    LET s == jobs[j].session
    IN  /\ jobs[j].phase = "queued"
        /\ sessions' = [sessions EXCEPT
                ![s].status = IF escalates THEN "escalated" ELSE @,
                ![s].activity = now]
        /\ jobs' = [jobs EXCEPT ![j].phase = "ran"]
        /\ UNCHANGED <<racing, now, user, hits, hooks, replies, delivered, ledger>>

\* The reply's job is queued and the turn's job ends.
EnqueueReply(j, r) ==
    /\ jobs[j].phase = "ran" /\ replies[r].phase = "idle"
    /\ replies' = [replies EXCEPT ![r] =
            [phase |-> "queued", session |-> jobs[j].session, outside |-> FALSE,
             meta |-> NoMeta]]
    /\ jobs' = [jobs EXCEPT ![j] = NoJob]
    /\ UNCHANGED <<racing, now, user, sessions, hits, hooks, delivered, ledger>>

\* The worker dies after the commit and the job is delivered again.
RedeliverTurn(j) ==
    /\ jobs[j].phase = "ran"
    /\ jobs' = [jobs EXCEPT ![j].phase = "queued"]
    /\ UNCHANGED <<racing, now, user, sessions, hits, hooks, replies, delivered, ledger>>

\* A permanent failure of the turn, its last retry, or a reply that cannot be queued.
DropTurn(j) ==
    /\ jobs[j].phase # "idle"
    /\ jobs' = [jobs EXCEPT ![j] = NoJob]
    /\ UNCHANGED <<racing, now, user, sessions, hits, hooks, replies, delivered, ledger>>

-----------------------------------------------------------------------------
(* send_whatsapp_reply. *)

Ended(q) == [phase |-> "done", session |-> q.session, outside |-> FALSE, meta |-> NoMeta]

LoadReply(r) ==
    LET meta == sessions[replies[r].session].meta
    IN  /\ replies[r].phase = "queued" /\ MayWrite
        /\ replies' = [replies EXCEPT ![r] =
                [phase |-> "loaded", session |-> replies[r].session,
                 outside |-> now - meta.inbound > WindowAfter, meta |-> meta]]
        /\ UNCHANGED <<racing, now, user, sessions, hits, hooks, jobs, delivered, ledger>>

\* Mutant: only the deferred reply is written, over an empty channel_metadata.
DeferReplyAlone(r) ==
    LET q == replies[r]
    IN  /\ q.phase = "loaded" /\ Len(put[q.session]) < MaxDeferrals
        /\ sessions' = [sessions EXCEPT ![q.session].meta =
                [ring |-> <<>>, inbound |-> q.meta.inbound, deferred |-> <<r>>]]
        /\ replies' = [replies EXCEPT ![r] = Ended(q)]
        /\ put' = [put EXCEPT ![q.session] = Append(@, r)]
        /\ UNCHANGED <<racing, now, user, hits, hooks, jobs, delivered,
                       recorded, queued, turned>>

\* Outside the 24 hour window, or Meta says so: the reply is kept for later, once
\* more if its job runs again, and the oldest beyond the cap is dropped.
DeferReply(r) ==
    LET q == replies[r]
    IN  /\ q.phase = "loaded" /\ Len(put[q.session]) < MaxDeferrals
        /\ sessions' = [sessions EXCEPT ![q.session].meta =
                [ring |-> q.meta.ring, inbound |-> q.meta.inbound,
                 deferred |-> Appended(q.meta.deferred, r, DeferredCap)]]
        /\ replies' = [replies EXCEPT ![r] = Ended(q)]
        /\ put' = [put EXCEPT ![q.session] = Append(@, r)]
        /\ UNCHANGED <<racing, now, user, hits, hooks, jobs, delivered,
                       recorded, queued, turned>>

\* Inside the window the reply is sent, or given up for a permanent failure.
EndReply(r) ==
    /\ replies[r].phase = "loaded" /\ ~replies[r].outside
    /\ replies' = [replies EXCEPT ![r] = Ended(@)]
    /\ UNCHANGED <<racing, now, user, sessions, hits, hooks, jobs, delivered, ledger>>

\* A transient failure, or a worker that dies before arq has recorded the end.
RetryReply(r) ==
    /\ replies[r].phase \in {"loaded", "done"}
    /\ replies' = [replies EXCEPT ![r] =
            [phase |-> "queued", session |-> replies[r].session, outside |-> FALSE,
             meta |-> NoMeta]]
    /\ UNCHANGED <<racing, now, user, sessions, hits, hooks, jobs, delivered, ledger>>

-----------------------------------------------------------------------------
(* Time. *)

Tick ==
    /\ now < MaxNow
    /\ now' = now + 1
    /\ UNCHANGED <<racing, user, sessions, hits, hooks, jobs, replies, delivered, ledger>>

\* The next hour has counters of its own; a request under way was counted in the
\* last one.
NextHour ==
    /\ \E s \in Sessions : hits[s] > 0
    /\ hits' = [s \in Sessions |-> 0]
    /\ hooks' = [h \in Hooks |-> [hooks[h] EXCEPT !.counted = FALSE]]
    /\ turned' = [s \in Sessions |-> 0]
    /\ UNCHANGED <<racing, now, user, sessions, jobs, replies, delivered,
                   recorded, queued, put>>

-----------------------------------------------------------------------------
WhatsAppNext ==
    \/ \E h \in Hooks, m \in Messages, s \in Sessions : IngestInto(h, m, s) \/ IngestNew(h, m, s)
    \/ \E h \in Hooks : \/ CommitHook(h) \/ AbortHook(h) \/ LoseTurn(h)
                        \/ \E j \in Jobs : EnqueueTurn(h, j)
    \/ \E j \in Jobs : \/ RedeliverTurn(j) \/ DropTurn(j)
                       \/ \E e \in BOOLEAN : RunTurn(j, e)
                       \/ \E r \in Replies : EnqueueReply(j, r)
    \/ \E r \in Replies : LoadReply(r) \/ DeferReply(r) \/ EndReply(r) \/ RetryReply(r)
    \/ Tick \/ NextHour

WhatsAppSpec == WhatsAppInit /\ [][WhatsAppNext]_whatsAppVars

-----------------------------------------------------------------------------
(* Properties. *)

\* The rows, the counters and the jobs keep their types.
WhatsAppTypeOK ==
    /\ racing \in BOOLEAN /\ now \in Moments /\ user \in BOOLEAN
    /\ sessions \in [Sessions -> WhatsAppSession]
    /\ hits \in [Sessions -> 0..(Limit + 1)]
    /\ hooks \in [Hooks -> Hook]
    /\ jobs \in [Jobs -> Job]
    /\ replies \in [Replies -> Reply]
    /\ delivered \in 0..MaxDeliveries
    /\ recorded \in [Sessions -> SUBSET Messages]
    /\ queued \in [Sessions -> [Messages -> Nat]]
    /\ turned \in [Sessions -> 0..Limit]
    /\ put \in [Sessions -> Seq(Replies)]

\* A replayed message gets no second turn in its session, whatever was lost,
\* rate-limited, escalated, retried or rolled back in between, as long as no two
\* writers of channel_metadata overlap and the ring is not full.
OneTurnPerSession ==
    ~racing /\ Cardinality(Messages) <= RingCap =>
        \A s \in Sessions, m \in Messages : queued[s][m] <= 1

\* last is what is left of seq when only its newest cap items are kept.
Newest(last, seq, cap) ==
    /\ Len(last) = IF Len(seq) > cap THEN cap ELSE Len(seq)
    /\ \A i \in 1..Len(last) : last[i] = seq[Len(seq) - Len(last) + i]

\* Without overlap the webhook and the reply job lose nothing of each other's.
\* Every message a session was committed with is in its ring, while the ring has
\* room, and its deferred replies are the newest DeferredCap deferrals in their
\* order: only the cap drops one, whatever was redelivered, rolled back or
\* retried in between.
MetadataKeepsAll ==
    ~racing =>
        \A s \in Sessions :
            /\ Cardinality(Messages) <= RingCap =>
                    \A m \in recorded[s] : Contains(sessions[s].meta.ring, m)
            /\ Newest(sessions[s].meta.deferred, put[s], DeferredCap)

\* Turns queued, or about to be, within the hour: never more than the limit,
\* concurrent and rolled-back requests included.
QuotaHolds ==
    \A s \in Sessions :
        turned[s] + Cardinality({h \in Hooks : /\ hooks[h].counted
                                               /\ hooks[h].session = s
                                               /\ hooks[h].outcome = "queue"}) <= Limit

-----------------------------------------------------------------------------
(* What the code's documentation says and the code does not keep. *)

\* I5: "a replayed `wamid` produces no duplicate processing/enqueue".
NoDuplicateTurn ==
    \A m \in Messages :
        \A s, r \in Sessions : queued[s][m] + (IF s = r THEN 0 ELSE queued[r][m]) <= 1

\* "an existing `ESCALATED` session is ALWAYS reused".
EscalatedIsReused ==
    [][\A h \in Hooks :
            hooks[h].phase = "idle" /\ hooks'[h].phase = "open" /\ hooks'[h].outcome = "queue"
                => \A s \in Sessions : sessions[s].status # "escalated"]_whatsAppVars

=============================================================================
