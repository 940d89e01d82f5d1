------------------------------- MODULE Rollup -------------------------------
(***************************************************************************)
(* The nightly rollup of one organization's daily metrics.                 *)
(*                                                                         *)
(* Time is counted in slots, DayLen of them to a day, the first of which   *)
(* has the rollup's 00:30 UTC.  The organization's local time is `offset'  *)
(* slots ahead of UTC.  Rows are stamped when their request is handled and *)
(* appear when it commits, at most Delay slots later.                      *)
(*                                                                         *)
(* A metric is kept as the pair of its numerator and denominator, an average*)
(* as the pair of sum and count.  The queries of one family for one day    *)
(* are one step: they run back to back in one savepoint.                   *)
(***************************************************************************)
EXTENDS Integers, Sequences, FiniteSets, FiniteSetsExt, Functions, TLC

CONSTANTS
    Tickets,
    Chats,       \* chat_sessions rows
    Suggested,   \* messages with is_ai_suggestion
    Families,    \* _FAMILY_FUNCTION_NAMES, in their order
    Dues,        \* the instants sla_due_at may be set to
    Offsets,     \* the local times to look at
    Lookback,    \* LOOKBACK_DAYS
    DayLen,
    Delay,       \* bound on a request's time from stamp to commit
    PassTries,    \* WorkerSettings.max_tries
    MaxDay,      \* bound on the clock: its first slot is the last
    MaxChanges,  \* bound on the commits that touch a metric's facts
    MaxFailures, \* bound on failed families
    Fragile,     \* the families that may fail
    Null

\* The metric keys of each family.
Keys == [tickets |-> {"tickets_created", "tickets_open"},
         sla |-> {"tickets_resolved", "avg_resolution_hours", "sla_compliance_rate"},
         chat |-> {"chat_sessions_started", "chat_escalation_rate", "chat_to_ticket_rate"},
         classifier |-> {"classifier_accuracy", "llm_fallback_rate"},
         rag |-> {"rag_suggestion_usage_rate"}]

METRIC_KEYS == UNION {Keys[f] : f \in Range(Families)}

Instants == 0..(DayLen * MaxDay)

ASSUME RollupAssumption ==
    /\ Families \in Seq(DOMAIN Keys)
    /\ Lookback \in Nat \ {0} /\ DayLen \in Nat \ {0} /\ PassTries \in Nat \ {0}
    /\ Offsets \subseteq (1 - DayLen)..(DayLen - 1)   \* less than a day from UTC
    /\ Delay \in Nat /\ MaxDay \in Nat /\ MaxChanges \in Nat /\ MaxFailures \in Nat
    /\ Dues \subseteq Instants
    /\ IsFiniteSet(Tickets) /\ IsFiniteSet(Chats) /\ IsFiniteSet(Suggested)
    /\ Null \notin Int \cup Tickets \cup (Nat \X Nat)

Days == 0..MaxDay

Nullable(S) == S \cup {Null}

VARIABLES
    offset,   \* organizations.timezone
    now,
    tickets,  \* status, created_at, closed_at, sla_due_at
    resolved, \* sla_events with event=resolved: ticket and instant
    chats,    \* created_at, whether escalated_at is set, ticket_id
    labels,   \* classifications, by ticket: created_at, human_corrected, llm_fallback
    drafts,   \* suggestions: created_at, and when replies based on them were posted
    metrics,  \* daily_metrics: the value of every <<day, key>> that has a row
    job,      \* rollup_daily_metrics: the night's job
    changes,  \* commits so far
    failures, \* failed families so far
    stale,    \* metrics of completed days whose facts changed since they were computed
    night,    \* the night of the last pass that was committed
    missed,   \* the most nights in a row without such a pass
    late      \* some such pass began after the night's first slot

facts == <<tickets, resolved, chats, labels, drafts>>

rollupVars == <<offset, now, tickets, resolved, chats, labels, drafts, metrics, job, changes,
          failures, stale, night, missed, late>>

NoPass == [phase |-> "none", tries |-> 0, at |-> 0, pos |-> 0, wrote |-> <<>>, ok |-> {}]

RollupInit ==
    /\ offset \in Offsets
    /\ now = 0
    /\ tickets = [t \in Tickets |-> [status |-> "none", created |-> Null, closed |-> Null,
                                     due |-> Null]]
    /\ resolved = <<>>
    /\ chats = [c \in Chats |-> [created |-> Null, escalated |-> FALSE, ticket |-> Null]]
    /\ labels = [t \in Tickets |-> [created |-> Null, corrected |-> FALSE, fallback |-> FALSE]]
    /\ drafts = [s \in Suggested |-> [created |-> Null, used |-> {}]]
    /\ metrics = <<>>
    /\ job = NoPass
    /\ changes = 0 /\ failures = 0
    /\ stale = {}
    /\ night = 0 /\ missed = 0 /\ late = FALSE

-----------------------------------------------------------------------------
(* Local days. *)

Night(i) == i \div DayLen

\* astimezone(...).date()
LocalDay(i) == (i + offset) \div DayLen

\* local_day_utc_bounds: [start, end).
DayStart(d) == d * DayLen - offset

DayEnd(d) == DayStart(d) + DayLen

\* Mutant: the bound is counted on both sides.
OnDayClosed(i, d) == i # Null /\ DayStart(d) <= i /\ i <= DayEnd(d)

OnDay(i, d) == i # Null /\ DayStart(d) <= i /\ i < DayEnd(d)

\* Mutant: one day too few.
CompletedDayTwice(i, n) == LocalDay(i) - (IF n = Lookback THEN 1 ELSE n)

\* _completed_local_days: the n-th day back, never today.
CompletedDay(i, n) == LocalDay(i) - n

-----------------------------------------------------------------------------
(* The metrics of a day, as the queries read them. *)

\* Counts are always written, also as zero; a rate over nothing is undefined.
Count(n) == <<n, 1>>

Ratio(num, den) == IF den = 0 THEN Null ELSE <<num, den>>

TicketsCreated(d) == Count(Cardinality({t \in Tickets : OnDay(tickets[t].created, d)}))

TicketsOpen(d) ==
    Count(Cardinality({t \in Tickets :
        /\ tickets[t].created # Null /\ tickets[t].created < DayEnd(d)
        /\ tickets[t].closed = Null \/ tickets[t].closed >= DayEnd(d)}))

\* The resolved events of a day, of the tickets in T.
ResolvedOn(d, T) ==
    {e \in DOMAIN resolved : resolved[e][1] \in T /\ OnDay(resolved[e][2], d)}

Hours(e) == resolved[e][2] - tickets[resolved[e][1]].created

Compliant(e) == resolved[e][2] <= tickets[resolved[e][1]].due

\* D7: tickets with an escalated chat session do not count.
NotEscalated == {t \in Tickets : ~\E c \in Chats : chats[c].ticket = t /\ chats[c].escalated}

\* Events, not tickets: a ticket resolved twice on a day counts twice.
TicketsResolved(d) == Count(Cardinality(ResolvedOn(d, Tickets)))

AvgResolution(d) ==
    LET events == ResolvedOn(d, NotEscalated)
    IN  Ratio(SumFunction([e \in events |-> Hours(e)]), Cardinality(events))

Compliance(d) ==
    LET events == ResolvedOn(d, {t \in Tickets : tickets[t].due # Null})
    IN  Ratio(Cardinality({e \in events : Compliant(e)}), Cardinality(events))

\* Cohorts: the day a session started.
Started(d) == {c \in Chats : OnDay(chats[c].created, d)}

SessionsStarted(d) == Count(Cardinality(Started(d)))

EscalationRate(d) ==
    Ratio(Cardinality({c \in Started(d) : chats[c].escalated}), Cardinality(Started(d)))

ToTicketRate(d) ==
    Ratio(Cardinality({c \in Started(d) : chats[c].ticket # Null}), Cardinality(Started(d)))

Labelled(d) == {t \in Tickets : OnDay(labels[t].created, d)}

Accuracy(d) ==
    Ratio(Cardinality({t \in Labelled(d) : ~labels[t].corrected}), Cardinality(Labelled(d)))

FallbackRate(d) ==
    Ratio(Cardinality({t \in Labelled(d) : labels[t].fallback}), Cardinality(Labelled(d)))

\* Suggestions used on the day over suggestions made on it.
UsageRate(d) ==
    Ratio(Cardinality({s \in Suggested : \E i \in drafts[s].used : OnDay(i, d)}),
          Cardinality({s \in Suggested : OnDay(drafts[s].created, d)}))

\* The functions of the families: the value of each of their metrics.
TicketsMetric(k, d) == IF k = "tickets_created" THEN TicketsCreated(d) ELSE TicketsOpen(d)

SlaMetric(k, d) ==
    CASE k = "tickets_resolved" -> TicketsResolved(d)
      [] k = "avg_resolution_hours" -> AvgResolution(d)
      [] k = "sla_compliance_rate" -> Compliance(d)

ChatMetric(k, d) ==
    CASE k = "chat_sessions_started" -> SessionsStarted(d)
      [] k = "chat_escalation_rate" -> EscalationRate(d)
      [] k = "chat_to_ticket_rate" -> ToTicketRate(d)

ClassifierMetric(k, d) == IF k = "classifier_accuracy" THEN Accuracy(d) ELSE FallbackRate(d)

\* Null: the metric is left out.
Metric(k, d) ==
    CASE k \in Keys.tickets -> TicketsMetric(k, d)
      [] k \in Keys.sla -> SlaMetric(k, d)
      [] k \in Keys.chat -> ChatMetric(k, d)
      [] k \in Keys.classifier -> ClassifierMetric(k, d)
      [] k \in Keys.rag -> UsageRate(d)

-----------------------------------------------------------------------------
(* Commits of the application, stamped at instant i. *)

\* What all of them do to the history: a metric of a completed day that has another
\* value now is stale, and what a running pass has read of it no longer counts.
Change(i) ==
    /\ changes < MaxChanges /\ changes' = changes + 1
    /\ i \in Instants /\ i <= now /\ now - i <= Delay
    /\ UNCHANGED <<offset, now, metrics, failures, night, missed, late>>
    /\ LET changed == {dk \in Days \X METRIC_KEYS :
                            dk[1] < LocalDay(now) /\ Metric(dk[2], dk[1])' # Metric(dk[2], dk[1])}
       IN  /\ stale' = stale \cup changed
           /\ job' = [job EXCEPT !.ok = @ \ changed]

CreateTicket(t, i) ==
    /\ tickets[t].created = Null
    /\ tickets' = [tickets EXCEPT ![t] = [status |-> "open", created |-> i, closed |-> Null,
                                          due |-> Null]]
    /\ UNCHANGED <<resolved, chats, labels, drafts>>
    /\ Change(i)

\* update_ticket with a status: closed_at follows the status, and entering resolved or
\* closed records an event.
PatchStatus(t, status, i) ==
    /\ tickets[t].created # Null /\ tickets[t].created <= i /\ tickets[t].status # status
    /\ tickets' = [tickets EXCEPT ![t].status = status,
                                  ![t].closed = IF status = "closed" THEN i ELSE Null]
    /\ resolved' = IF status \in {"resolved", "closed"} THEN Append(resolved, <<t, i>>)
                   ELSE resolved
    /\ UNCHANGED <<chats, labels, drafts>>
    /\ Change(i)

\* classify_ticket, or update_ticket with an urgency: both set sla_due_at, the first
\* also inserts the classification, the second marks it as corrected.
Classify(t, due, fallback, i) ==
    /\ tickets[t].created # Null /\ tickets[t].created <= i /\ labels[t].created = Null
    /\ tickets' = [tickets EXCEPT ![t].due = due]
    /\ labels' = [labels EXCEPT ![t] = [created |-> i, corrected |-> FALSE,
                                        fallback |-> fallback]]
    /\ UNCHANGED <<resolved, chats, drafts>>
    /\ Change(i)

Recategorise(t, due) ==
    /\ tickets[t].created # Null
    /\ tickets' = [tickets EXCEPT ![t].due = due]
    /\ labels' = [labels EXCEPT ![t].corrected = labels[t].created # Null]
    /\ UNCHANGED <<resolved, chats, drafts>>
    /\ Change(now)

StartChat(c, i) ==
    /\ chats[c].created = Null
    /\ chats' = [chats EXCEPT ![c].created = i]
    /\ UNCHANGED <<tickets, resolved, labels, drafts>>
    /\ Change(i)

\* The chat's create_ticket tool: a new ticket, linked to the session.
ChatTicket(c, t, i) ==
    /\ chats[c].created # Null /\ chats[c].ticket = Null /\ tickets[t].created = Null
    /\ chats[c].created <= i
    /\ tickets' = [tickets EXCEPT ![t] = [status |-> "open", created |-> i, closed |-> Null,
                                          due |-> Null]]
    /\ chats' = [chats EXCEPT ![c].ticket = t]
    /\ UNCHANGED <<resolved, labels, drafts>>
    /\ Change(i)

\* escalate_to_human, for an anonymous visitor (no ticket) or a session that has one
\* (whose status becomes escalated); else it is ChatTicket first.
EscalateChat(c) ==
    LET t == chats[c].ticket
    IN  /\ chats[c].created # Null /\ ~chats[c].escalated
        /\ chats' = [chats EXCEPT ![c].escalated = TRUE]
        /\ tickets' = IF t = Null THEN tickets ELSE [tickets EXCEPT ![t].status = "escalated"]
        /\ t # Null => tickets[t].closed = Null
        /\ UNCHANGED <<resolved, labels, drafts>>
        /\ Change(now)

Draft(s, i) ==
    /\ drafts[s].created = Null
    /\ drafts' = [drafts EXCEPT ![s].created = i]
    /\ UNCHANGED <<tickets, resolved, chats, labels>>
    /\ Change(i)

UseDraft(s, i) ==
    /\ drafts[s].created # Null /\ drafts[s].created <= i
    /\ drafts' = [drafts EXCEPT ![s].used = @ \cup {i}]
    /\ UNCHANGED <<tickets, resolved, chats, labels>>
    /\ Change(i)

-----------------------------------------------------------------------------
(* The pass. *)

\* The nights before night n since the last pass.
MissedBy(n) == IF n > night + 1 THEN n - night - 1 ELSE 0

\* On a new night cron queues the job, unless no worker is up.  A pass ends within
\* its slot: arq cancels a job after five minutes.
Tick ==
    /\ now + 1 \in Instants /\ job.phase # "running"
    /\ now' = now + 1
    /\ \/ /\ Night(now') # Night(now)
          /\ job' = [NoPass EXCEPT !.phase = "queued"]
       \/ UNCHANGED job
    /\ missed' = Max({missed, MissedBy(Night(now'))})
    /\ UNCHANGED <<offset, facts, metrics, changes, failures, stale, night, late>>

\* A try begins, at 00:30 or later; it will do every family of every completed day.
BeginPass ==
    /\ job.phase = "queued" /\ job.tries < PassTries
    /\ job' = [phase |-> "running", tries |-> job.tries + 1, at |-> now,
               pos |-> 0, wrote |-> <<>>, ok |-> {}]
    /\ UNCHANGED <<offset, now, facts, metrics, changes, failures, stale, night, missed, late>>

\* The rows of a family: a metric without a value has none.
Rows(d, f) ==
    [dk \in {d} \X {k \in Keys[f] : Metric(k, d) # Null} |-> Metric(dk[2], d)]

\* Mutant: ON CONFLICT DO NOTHING.
UpsertNothing(new, old) == old @@ new

\* upsert_daily_metrics: ON CONFLICT DO UPDATE.
Upsert(new, old) ==
    [dk \in DOMAIN new \cup DOMAIN old |-> IF dk \in DOMAIN new THEN new[dk] ELSE old[dk]]

\* The pass goes through the days, the latest first, and the families of each.
Units == Lookback * Len(Families)

UnitDay == CompletedDay(job.at, (job.pos \div Len(Families)) + 1)

UnitFamily == Families[(job.pos % Len(Families)) + 1]

\* One family of one day succeeds (days before the first one modelled are skipped).
RollupFamily ==
    /\ job.phase = "running" /\ job.pos < Units
    /\ job' = [job EXCEPT !.pos = @ + 1,
            !.wrote = IF UnitDay \in Days THEN Upsert(Rows(UnitDay, UnitFamily), @) ELSE @,
            !.ok = @ \cup (stale \cap ({UnitDay} \X Keys[UnitFamily]))]
    /\ UNCHANGED <<offset, now, facts, metrics, changes, failures, stale, night, missed, late>>

\* It fails: its savepoint is rolled back, what the pass had written before stays,
\* and the pass goes on.
FailFamily ==
    /\ job.phase = "running" /\ job.pos < Units /\ UnitDay \in Days
    /\ UnitFamily \in Fragile /\ failures < MaxFailures /\ failures' = failures + 1
    /\ job' = [job EXCEPT !.pos = @ + 1]
    /\ UNCHANGED <<offset, now, facts, metrics, changes, stale, night, missed, late>>

CommitPass ==
    /\ job.phase = "running" /\ job.pos = Units
    /\ metrics' = Upsert(job.wrote, metrics)
    /\ job' = [NoPass EXCEPT !.phase = "done", !.tries = job.tries]
    /\ stale' = stale \ job.ok
    /\ night' = Night(job.at)
    /\ late' = (late \/ job.at % DayLen # 0)
    /\ UNCHANGED <<offset, now, facts, changes, failures, missed>>

\* The worker dies: what the pass wrote is gone, and the job is delivered again.
CrashPass ==
    /\ job.phase \in {"running", "done"}
    /\ job' = [NoPass EXCEPT !.phase = "queued", !.tries = job.tries]
    /\ UNCHANGED <<offset, now, facts, metrics, changes, failures, stale, night, missed, late>>

\* The exception of a failed commit, or the last try, ends the job.
EndPass ==
    /\ \/ job.phase = "running" /\ job.pos = Units
       \/ job.phase = "queued" /\ job.tries = PassTries
    /\ job' = NoPass
    /\ UNCHANGED <<offset, now, facts, metrics, changes, failures, stale, night, missed, late>>

-----------------------------------------------------------------------------
TicketNext ==
    \E t \in Tickets :
        \/ \E i \in Instants : \/ CreateTicket(t, i)
                               \/ \E st \in {"open", "resolved", "closed"} : PatchStatus(t, st, i)
        \/ \E i \in Instants, due \in Dues, b \in BOOLEAN : Classify(t, due, b, i)
        \/ \E due \in Dues : Recategorise(t, due)

ChatNext ==
    \E c \in Chats : \/ \E i \in Instants : StartChat(c, i)
                     \/ \E t \in Tickets, i \in Instants : ChatTicket(c, t, i)
                     \/ EscalateChat(c)

DraftNext == \E s \in Suggested, i \in Instants : Draft(s, i) \/ UseDraft(s, i)

PassNext ==
    Tick \/ BeginPass \/ RollupFamily \/ FailFamily \/ CommitPass \/ CrashPass \/ EndPass

RollupNext == TicketNext \/ ChatNext \/ DraftNext \/ PassNext

RollupSpec == RollupInit /\ [][RollupNext]_rollupVars

-----------------------------------------------------------------------------
(* Properties. *)

IsTable(rows) ==
    /\ DOMAIN rows \subseteq Days \X METRIC_KEYS
    /\ \A dk \in DOMAIN rows : rows[dk] \in Nat \X Nat

\* The facts, the rows and the job keep their types.
RollupTypeOK ==
    /\ offset \in Offsets /\ now \in Instants
    /\ tickets \in [Tickets -> [status: {"none", "open", "resolved", "closed", "escalated"},
                                created: Nullable(Instants), closed: Nullable(Instants),
                                due: Nullable(Instants)]]
    /\ resolved \in Seq(Tickets \X Instants)
    /\ chats \in [Chats -> [created: Nullable(Instants), escalated: BOOLEAN, ticket: Nullable(Tickets)]]
    /\ labels \in [Tickets -> [created: Nullable(Instants), corrected: BOOLEAN, fallback: BOOLEAN]]
    /\ drafts \in [Suggested -> [created: Nullable(Instants), used: SUBSET Instants]]
    /\ IsTable(metrics) /\ IsTable(job.wrote)
    /\ job.phase \in {"none", "queued", "running", "done"} /\ job.tries \in 0..PassTries
    /\ job.at \in Instants /\ job.pos \in 0..Units /\ job.ok \subseteq stale
    /\ changes \in 0..MaxChanges /\ failures \in 0..MaxFailures
    /\ stale \subseteq Days \X METRIC_KEYS
    /\ night \in Nat /\ missed \in Nat /\ late \in BOOLEAN

\* A stored figure is wrong only if the facts of its day changed after the day was over
\* and no pass has computed it since: not because a pass saw half a day, counted a
\* midnight twice, kept an older row, or lost what it had written when another family
\* failed, a try crashed or a request committed in the middle of it.  (A metric that
\* is undefined now is UndefinedIsNotStored's.)
StoredIsExact ==
    \A dk \in DOMAIN metrics \ stale :
        LET value == Metric(dk[2], dk[1]) IN value # Null => metrics[dk] = value

\* "re-covering the day before that absorbs a missed/late run without any gap": when
\* the passes are on time, fewer nights in a row than Lookback may be missed, when none
\* is missed they may be late, and every completed day has its rows at the latest when
\* it leaves the window.
NoGap ==
    failures = 0 /\ (missed = 0 \/ (~late /\ missed < Lookback)) =>
        \A d \in Days :
            d + Lookback < LocalDay(DayLen * Night(now)) => <<d, "tickets_created">> \in DOMAIN metrics

\* The days the pass chooses by the local date and the bounds its queries use fit
\* together: the stored days never count a ticket twice, and once every day up to
\* yesterday has a fresh row they count each ticket created before today once.
EachCountedOnce ==
    LET days == {d \in Days : <<d, "tickets_created">> \in DOMAIN metrics}
        total == SumFunction([d \in days |-> metrics[<<d, "tickets_created">>][1]])
        before == {t \in Tickets : tickets[t].created # Null
                                   /\ LocalDay(tickets[t].created) \in 0..(LocalDay(now) - 1)}
    IN  /\ total <= Cardinality(before)
        /\ (\A d \in 0..(LocalDay(now) - 1) : d \in days /\ <<d, "tickets_created">> \notin stale)
               => total = Cardinality(before)

-----------------------------------------------------------------------------
(* What the code's documentation says and the code does not keep. *)

\* "`None` as "omit this metric_key for this org/day" rather than writing a misleading"
\* row; "a re-run ... must OVERWRITE": a metric that is undefined has no row.
UndefinedIsNotStored ==
    \A dk \in DOMAIN metrics \ stale : Metric(dk[2], dk[1]) # Null

\* A usage rate is the share of the suggestions made on a day that were used: at most
\* one.  (A reply counts on its own day, its suggestion may be of the day before.)
UsageIsAFraction ==
    \A dk \in DOMAIN metrics :
        dk[2] = "rag_suggestion_usage_rate" => metrics[dk][1] <= metrics[dk][2]

=============================================================================
