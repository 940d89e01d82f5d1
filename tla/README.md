# A verification of the real-estate helpdesk

The program is a FastAPI service with a PostgreSQL database, a Redis queue (arq) and
background workers. Tenants report problems through the API, the web chat, WhatsApp or
e-mail; a worker classifies each ticket; an SLA deadline is computed from business hours
and watched by a cron; a retrieval pipeline drafts answers from a knowledge base.

The TLA+ modules here model the parts of it in which several transactions, jobs or
messages meet on the same rows. TLC checks them on small instances, TLAPS proves the safety
properties of all of them for every instance. `PROJECT.json` maps every definition to the lines it
translates. Paths below are relative to `src/app/` unless they start with `src/`.

Contents: 1 inventory, 2 shared semantics, 3 modules, 4 runs and bounds, 5 fairness,
6 proofs, 7 where code and documentation disagree, 8 what is not modelled, 9 plan.

## 1. Inventory

| Component | State | Operations | Meets | What makes it correct |
|---|---|---|---|---|
| Tickets (`services/ticket_service.py`, `api/v1/tickets.py`) | `tickets`, `classifications`, `ticket_events` | create, PATCH, escalation by the chat | classification worker, SLA monitor, taxonomy, chat | columns written by different transactions stay consistent; terminal statuses are recorded |
| Classification (`workers/classification.py`) | the same rows, arq jobs | job, retry, sweep | tickets | one decision per ticket, atomic with its taxonomy; every ticket gets one |
| SLA clock (`services/sla.py`) | none (a pure walk) | `compute_sla_due_at`, `parse_business_hours` | tickets, worker | due at exactly `sla_hours` of open time, also over a clock change |
| SLA monitor (`workers/sla.py`, repositories of events and notifications) | `sla_events`, `notifications` | cron pass, `record_once`, fan-out | tickets, users, other passes | an event once, with its notifications, in the end |
| Knowledge base (`services/knowledge_base_service.py`, `workers/rag.py`) | `knowledge_base`, `knowledge_chunks` | create, edit, delete, embed job | each other | chunks of one text, complete, none left behind |
| Accounts (`services/auth_service.py`, `services/user_service.py`) | `users`, `refresh_tokens`, `invite_tokens` | login, refresh, logout, invite, re-issue, accept | each other on row locks | one live token per family, one used invitation, no deadlock |
| Suggestions (`services/rag.py`) and messages | `suggestions`, `messages` | `suggest_response`, insert of a message | each other through a row lock | a draft sees the whole thread and is made only when needed |
| Ticket embeddings (`workers/rag.py`) | `ticket_embeddings`, arq jobs | summarise a resolved ticket, retry, redelivery | messages, tickets, later suggestions | the stored summary covers what was said before the resolution |
| Chatbot (`services/chat.py`, `services/chat_tools.py`) | `chat_sessions`, tickets of the conversation | a turn with its tools and its escalation | other turns, tickets, WhatsApp | escalation has a ticket, the streak counts, stale turns undo nothing |
| WhatsApp (`services/whatsapp_ingestion.py`, `workers/whatsapp.py`, its webhook, the limiter) | `chat_sessions.channel_metadata`, Redis counters, jobs | webhook, turn job, reply job | chatbot, limiter, queue | one turn per message, nothing but the caps removes entries of the metadata, quota |
| E-mail (`services/email_ingestion.py`, `services/email_threading.py`, `workers/email.py`, its webhook) | tickets with `channel_metadata`, messages, users, jobs | threading, append, create, outbound job | tickets, queue, SMTP server | a mail filed once, an answer in its thread, no unexplained copies |
| Taxonomy (`services/taxonomy_service.py` and its two services) | categories, urgency levels | create, change, deactivate, delete | tickets, classification | no ticket refers to a deleted row, a refused deletion deactivates |
| Classifier (`services/classifier.py`, `services/llm_fallback.py`) | none | local model, LLM fallback, membership check | classification worker | answers with a row it was offered, or not at all |
| Analytics (`workers/analytics.py`, `services/analytics_service.py`) | `daily_metrics` | nightly pass over two local days and five families | tickets, events, chats, suggestions | every completed day, counted once, with its current figures |
| Tenancy (`core/scope.py`, `repositories/base.py`, `services/property_service.py`, `services/contract_service.py`, the API's dependencies) | users' roles, `properties`, `contracts`, parties of tickets | identify the caller, create and soft-delete, end contracts, change roles, file tickets, assign agents | every request and job | organizations never mix, whatever is committed between a look and a write; nobody loses sight of their tickets |
| Creation of organizations; dashboards; LLM transport; cryptography; migrations | — | — | — | section 8 |

Hard behaviours: the request transactions run at READ COMMITTED and mostly read without a
lock, so what a handler read may be stale when it is flushed; jobs are delivered at least
once and may crash between two commits; an enqueue after the commit may be lost; crons
overlap; webhooks are replayed; lock orders differ between handlers; clocks jump. Each
place where one of these bites is listed under `hazards` in `PROJECT.json`, with the
properties that would catch it and a note on what they leave out.

## 2. Semantics shared by the modules

* **Request transaction** (`core/session.py`): commits when the handler returns, rolls back on
  any exception, `HTTPException` included. Background tasks run after the commit. A process
  that dies in between loses the enqueue: the modules have an action for it.
* **ORM**: SQLAlchemy's UPDATE writes the columns whose value differs from the one *loaded*.
  A stale object therefore overwrites what it changes and nothing else. A second
  `SELECT ... FOR UPDATE` of an object already in the session takes the lock but does not
  refresh its attributes. Both are part of the transactions' steps.
* **arq**: at least once. `Retry` is bounded by `max_tries`, another exception ends the job,
  a crash leads to another delivery. The same job may run twice at the same time where the
  code does not exclude it.
* **PostgreSQL**: row locks, `ON CONFLICT DO NOTHING` that waits for the concurrent inserter,
  `FOR KEY SHARE` taken by a foreign key against `FOR UPDATE`, CHECK constraints, a broken
  deadlock as the abort of one of the two transactions, `now()` as the start of the
  transaction.

A transaction whose steps nobody can interleave with (it holds the lock on all it reads, or
reads and writes in one statement) is one action; any other is a read action, the steps at
which it locks, and a commit.

## 3. Modules

| Module | Models | State and actions |
|---|---|---|
| `TicketLifecycle` | tickets and their classification | A ticket row, its prediction, the open requests with what they loaded, the jobs. A PATCH is read → flag the prediction → commit, its commit being the flush of the changed columns under the CHECK constraints. A job starts, classifies under the row lock, fails transiently or for good, is acknowledged, crashes, expires; the cron's sweep enqueues what is stale. |
| `ClassifyOnce` | the promise of the above | Three steps: a ticket is reported, decided once with its taxonomy, recategorised by staff. `TicketLifecycle` instantiates it with its refinement mapping (`Promise`). |
| `SlaMonitor` | `monitor_sla` | Clock, tickets, users, committed events and notifications, running passes with what they have inserted. A pass visits the tickets one savepoint at a time: record, fan out, release, or fail and roll back the savepoint; it commits, crashes or is chosen as a deadlock's victim. |
| `KnowledgeBase` | articles and their ingestion | Article rows, chunks, requests, jobs. A text is a model value with a number of chunks. |
| `AuthTokens` | refresh tokens and invitations | Tables, open requests, the rows they hold and wait for. Two history variables hold what was promised to whom. |
| `SlaClock` | `compute_sla_due_at` | The walk itself: one step per window or midnight, on a clock that skips or repeats ticks on one day. The reference definition counts the open instants. |
| `Suggestions` | `suggest_response` and the insert of a message | Messages and suggestions with their `created_at`; requests that read the cache, lock the ticket, read again, draft and insert. |
| `ChatTurns` | `send_message` and its tools | One session; each turn loads the row without a lock, calls tools, and flushes the columns it changed at its commit. Init chooses channel, identity of the visitor and whether turns overlap. |
| `WhatsApp` | the conversation of one sender | Webhook: ingest, commit or abort, enqueue or lose; the turn job with redelivery; the reply job with retry and deferral; the limiter's counters and the hour. |
| `Summaries` | `embed_resolved_ticket`, composed with the conversation | Extends `Suggestions`: each time the ticket enters resolved or closed a job is queued or lost; a try reads the thread without a lock, fails, or stores its summary over the ticket's only row; it crashes and runs again. |
| `Email` | the mail channel of one organization | Mails with the headers their clients keep; the webhook scans the sender's tickets, picks one by Message-ID, reference, tag or subject or creates one, and commits or rolls back; a staff reply queues a job that loads the metadata, sends, records, retries or dies in between. History: how often each mail was filed, what the SMTP server took, which records were lost. |
| `Taxonomy` | rows, DELETE with its fallback, the writers of tickets | Each DELETE loads, waits for the row, checks the referring tickets, deletes or deactivates; ticket requests and the classification job look at the row, write, have their foreign key checked, commit. Who waits for whom is a relation on locks (`Waits`), and a cycle costs a victim. The classifier's answer is what `Predictions` allows. |
| `Rollup` | the nightly pass | The facts of one organization (tickets, `resolved` events, chats, classifications, suggestions), stamped before they are committed; a pass that goes through two local days and five families, each in a savepoint that may fail, and upserts. |
| `Tenancy` | scopes, properties, contracts and the parties of tickets in several organizations | A request identifies its caller (Bearer token, chat token, WhatsApp session, sender of a mail) and freezes organization, user and role; it looks at the rows it refers to and decides what to write; it commits or ends. Requests of other users commit in between. A user may open the widget of another organization, so the reporter of a ticket is not bound to its organization. |

The `MC*` modules declare the model values, payloads and symmetry sets of the instances.
The `*Proofs` modules hold the inductive invariants and theorems (section 6): `ThreadProofs` those
of `Suggestions`, `Summaries` and `Email`, `ChatProofs` of `ChatTurns` and `WhatsApp`,
`WorkerProofs` of `KnowledgeBase` and `Rollup`, `SlaProofs` of `SlaMonitor` and `SlaClock`, and the
other four of the module they are named after. Modules that share a proof module name their
specifications apart (`SummarySpec`, `WhatsAppSpec`, `RollupSpec`, `ClockSpec`, ...).

Abstractions. Texts, names, embeddings and LLM answers are model values or choices: the
classifier may answer any category and urgency, retrieval finds a source or none, the LLM
calls any tool in any order. Time is a small set of instants or a clock that counts
transactions. Properties that hold only when a user waits for an answer, or only while no two
writers of one JSON column or two jobs of one ticket overlap, say so with a flag (`overlap`,
`racing` in `WhatsApp`, `together` in `Summaries`) which Init chooses: the same run covers both. In `Email` the customer's mail program is part of
the model: it answers a mail it has received and keeps the headers, the tag or neither. In
`Rollup` a metric is the pair of its numerator and denominator; time is counted in slots of
half a day. `Taxonomy` has one table for the two, whose services, columns and keys are the
same.

## 4. Runs and bounds

Run a check with `tlc -config <run>.cfg <module>`. `Tickets`, `Monitor` and
`Tenancy` also check for deadlock; the other systems run out of ids, mails, tokens, days or text and may stop.

| Run (module) | Instance | Properties and what they show |
|---|---|---|
| `Tickets` (`MCTicketLifecycle`) | 1 ticket, 2 categories, 2 requests (a PATCH that closes, assigns and recategorises at once, and escalations), 2 jobs with 2 tries, three of the four at once, SLA hours that rise once | `ClassifiedIffPredicted`: status and prediction are committed together. `PatchNeverUnclassifies`: a stale PATCH never runs into the taxonomy check. `DeadlineIffUrgency`: three writers set or leave the two columns together. `NoLockCycle`: the opposite lock orders of PATCH and worker never meet. `TerminalIsRecorded`: resolved and closed tickets have their audit row. `ClassifiesOnce`: the refinement of `ClassifyOnce`; the job may answer either category and the PATCH sets the first, so a second verdict on a classified ticket would be seen. `PendingGetsClassified`: every ticket is classified in the end. |
| `Monitor` (`MCSlaMonitor`) | 1 ticket, deadlines 10 and 12, 2 passes | `NotifiedOnce`, `AdminsAreTold`: overlapping, failing, crashing passes neither repeat nor lose a notification. `EventsAreFinal`: no pass and no change of the deadline rewrites an event. `OverdueGetsBreached`: a ticket that stays overdue is recorded. |
| `KnowledgeBase` (`MCKnowledgeBase`) | 1 article, texts of one and two chunks, 2 requests, 2 jobs | `NoMixedChunks`: duplicate jobs and edits never leave chunks of two texts. `NoOrphanChunks`: a deletion leaves none, not even of a job that commits while it waits. |
| `AuthTokens` (`MCAuthTokens`) | 1 user, 3 tokens, 2 invitations, 2 requests | `OneLivePerFamily`: rotation never forks. `OneUsedInvite`. `NoWaitCycle`: no two requests wait for each other. |
| `SlaClock` (`MCSlaClock`) | every two-day week of three-tick days with at most two sorted windows a day, both clock changes, starts 0..5, SLA 1..4 | `NothingLostOnTheWay`: at each step, open time so far and remaining time make up the SLA. `DueIsExact`: the result is the first instant at which that time has passed. |
| `Suggestions` (`MCSuggestions`, specification `SummarySpec`) | 2 requests, 2 posts, 3 transactions, 2 embedding jobs with 2 tries | `ThreadStandsStill`: nothing is committed behind a draft's back. `DraftsAreJustified`: each draft saw something later than every draft before it. `SummaryCoversResolutions`: whatever order the jobs of two resolutions run in, the stored summary covers all that was said before either. |
| `ChatTurns` (`MCChatTurns`) | 2 turns at once, 4 in all, 3 tickets | `EscalatedHasTicket`, `StaleTurnsUndoNothing`: also with overlapping turns. `StreakIsTrailing`, `EscalatesOnce`: turn by turn. |
| `WhatsApp` (`MCWhatsApp`) | 2 messages, 3 deliveries, 2 sessions, 2 webhooks, 1 turn job, 2 reply jobs, limit 1, ring 2, 2 deferrals a session in a list of 1 | `QuotaHolds`: whatever overlaps. `OneTurnPerSession`, `MetadataKeepsAll`: without overlapping writers of the metadata; the latter says that the ring has every committed message and that the deferred replies are the newest ones, in order. |
| `Email` (`MCEmail`) | 3 mails delivered 3 times, 2 tickets, 1 reply with 2 tries, 2 webhooks, a sender who is new, an owner or known elsewhere | `FiledOnce`, `ThreadKeepsAll`: without overlapping writers of a thread. `AnswersStayInThread`: also with them, and with lost records. `CopiesAreExplained`: a reply is mailed again only after a record was lost. |
| `Taxonomy` (`MCTaxonomy`) | 2 rows, 2 tickets, 2 DELETEs, 2 writers | `NoDangling`: stale looks at a row never become dangling references. `RequestsNeverDeadlock`: every cycle of waits on rows and foreign keys goes through a classification job. `DeactivationHolds`: a refused DELETE leaves the row inactive unless a PATCH revived it. |
| `Rollup` (`MCRollup`) | 1 ticket, chat and suggestion, 3 days of 2 slots, local time one slot before and after UTC, 2 commits, 1 failed family | `StoredIsExact`: a stored figure is wrong only if facts changed after its last computation. `EachCountedOnce`: local days and query bounds fit together. `NoGap`: two days of lookback absorb one missed or any late night. |
| `Tenancy` (`MCTenancy`) | 2 organizations with 5 users, 2 properties, 1 contract, 1 ticket, 2 requests; an owner becomes a tenant, an admin is disabled | `OrganizationsStayApart`: stale scopes, roles and rows never give a row a party of another organization, nor a ticket a contract of another property. `SightIsKept`: ending a contract, deleting a property or assigning an agent hides no ticket from anyone. |

Every module states its type invariant, `TypeOK` (`SuggestionTypeOK`, `SummaryTypeOK`,
`WhatsAppTypeOK`, `RollupTypeOK`, `ClockTypeOK`), which section 6 proves for every instance.

Two larger instances also pass: `Monitor` with `Tickets = {t1, t2}`, `Deadlines = {5}`,
`Instants = {0, 5}`, `Spec` and `MonitorSymmetry`, where two tickets are visited in any order, so
that each pass may hold the event the other waits for (in `Monitor` itself the victim of that
deadlock is a failed savepoint); and `Tickets` with `Spec`, `Categories = {c1}`,
`Urgencies = {u1, u2}`, `Hours = {1}`, `Payloads <- MixedBodies`, `Symmetry` and no constraint, where
each column is changed by a PATCH of its own and one PATCH may resolve what the other closes. What
the runs show beside liveness is proved for every instance that satisfies the assumptions and
hypotheses of section 6. With no embedding jobs (`Embeds = {}`) the run `Suggestions` passes
with six transactions too.

Why the bounds suffice. The rows of one ticket, article, session or family are independent of
those of another (no handler modelled locks two of the same kind, except the monitor's pass,
see above, and `Taxonomy`, where the smallest cycle of waits takes two DELETEs and two
classification jobs over two rows and two tickets, which is the instance). A race needs two transactions, and what a third could add is another
stale reader that commits after both: each run lets a slot be used again, so a reader may be
followed by any number of commits of the other slot. In `Tickets` a constraint (`AtMostThreeAtOnce`) leaves out the states with two requests and two jobs under way: two
jobs and a request, or two requests and a job, are every pair of transactions with a third
beside it; another (`HoursOnlyRise`) lets the hours of an urgency change once, at any time. For
`PendingGetsClassified`, TLC looks at the fair behaviours that stay within these bounds; of the
actions with a fairness assumption only the sweep can be cut off by them, and only in
states where a job of the ticket is under way. Two tries separate "will be retried"
from "last try". A text of two chunks distinguishes a complete from a partial ingestion and a
longer from a shorter version. Three tokens are a family that is rotated twice; reuse is then
of a token that is neither the newest nor its predecessor. A clock change by one tick on a
day of three puts it before, inside, between and after the windows; the theorems about the walk
hold for changes and days of any length, and `ClockInv`, their inductive invariant, was also
checked with changes of two ticks on days of six. `MaxWalkDays` 8 exceeds
what four ticks need in any accepted two-day week. In `ChatTurns` four turns make one
overlapping pair before and one after an escalation; the run with five gave the same verdict
and takes five times as long. In `WhatsApp` the ring holds every message of the instance, which
is the assumption under which the code deduplicates; an idle time of 0 makes every tick open a
new session. Its list of deferred replies holds one, so that the second deferral drops the first
and both the appending and the trimming of `with_appended` are reached; 2 `MaxDeferrals` suffice,
because a third would repeat the second. In `Email`
three mails are a thread's first, an answer to the reply and a mail that competes with either, and the third delivery is a replay of one of them or the third
mail; staff as senders go through the same steps as tenants and are left out of the instance.
Without `overlap` no two writers of the threads of one sender run at once (`Busy`): the scan reads
all of them. In
`Rollup` the third day is the first to see two completed days and one that has left the window;
the two commits put a fact on a day and change it later. One fragile family is enough, because
a failure is the same step for each. In `Suggestions` three transactions are two messages
around a draft or a draft between two resolutions. In `Tenancy` two properties are needed for a
contract of another property, two organizations for a foreign party; every row is written by one
request and made stale by the other, any number of times.

Symmetry is declared for slots (requests, jobs, passes, turns, hooks) and for ids that no
property orders, and never in a run that checks liveness.

## 5. Fairness

* `TicketLifecycle!Fairness`: the cron's sweep runs again and again (it runs every five
  minutes) and reaches a ticket that is again and again stale; arq starts a queued job, lets
  it expire and acknowledges it; a classification that is attempted again and again succeeds
  once (the classifier is not down for good). Requests of users are not fair.
* `SlaMonitor!Fairness`: time goes on; passes begin, commit and get out of deadlocks; the
  savepoint of a ticket that is tried again and again succeeds once. A failing savepoint or
  a crash is possible at any time but not for ever: without that no cron recovers anything.

Both are assumptions about the scheduler and the services, which the code relies on
(`workers/settings.py`: crons and `max_tries`), not about the other requests. All other runs
check safety only and need no fairness.

## 6. Proofs

Checked with `tlapm <module>.tla`. The theorems hold for all sets of tickets, users, requests,
jobs and so on, finite or not (what is counted is finite: see `WhatsApp` and `Rollup`), under the
assumptions on the constants that each module names.
Beyond what the bounds of the instances need (a natural number, a subset) these say that `None`
is none of the values it stands in for: not an id, and in `Tenancy` and `Taxonomy`
(`NoneAssumption`) not a row, scope or pending write. TLC evaluates them on every run.

An invariance theorem has one shape: an inductive invariant (`...Inv`), a lemma that Init
implies it, one lemma per action or group of like actions, and a step lemma that combines them.
Steps that only change one request's record share a lemma (`...Keeps`). Each inductive
invariant was checked with TLC on its run's instance first.

**`TicketLifecycleProofs`**, for all sets of tickets, requests, jobs, categories, urgencies,
agents and payloads under `ConstantsAssumption` (`None` is not one of the ids, the bounds are
natural numbers, a payload is a PATCH body):

1. `TypeCorrect`: `TypeOK` holds always.
2. `WorkerInvariant`: `Grounded` and `WorkerInv` hold always. The target "classified iff there
   is a prediction" is not inductive: the job's commit writes both, so one has to know that
   the job that commits is the only one that holds the row (`OneRunner`), that the row is still
   pending as it read it (`RunnerSeesPending`), that the prediction is a whole one
   (`PredictionIsWhole`), and that a PATCH that flags a prediction flags an existing one
   (`FlagsHitPrediction`).
3. `ClassifiedWithPrediction` and `NoDeadlockOnRows` follow: a PATCH holds the lock of a
   prediction only if there is one, a job holds a ticket only while there is none.
4. `DeadlineInvariant`: what an open request has read bounds what it may write
   (`RequestFacts`): a request that read an urgency cannot find the row without one, so the
   columns its flush leaves alone are filled. With it `DeadlineIffUrgency` and
   `ClassifiedIsComplete` are inductive.
5. `DeadlineWithUrgency`, `PatchKeepsTaxonomy`, `TerminalRecorded` follow; the last is inductive
   together with `Grounded`.
6. `LifecycleImplementsPromise`: `Spec => Promise!Spec`. Each action maps to Report, Decide,
   Recategorise or a stutter; that the worker's step is a Decide needs 2, that a PATCH never
   turns a decided ticket back needs 4.

**`ThreadProofs`**, for any sets of requests and posts under `SuggestionsAssumption`
(`MaxClock` is a natural number): `LockInvariant` proves `LockInv`, from which
`SuggestionTypes`, `ThreadStable` and `DraftsJustified` follow. `ThreadStandsStill` needs that
no insert of a message holds its key-share lock beside a drafter (`NoInsertBesideDraft`) and
that there is one drafter (`OneDrafter`); `DraftsAreJustified` needs that every suggestion is
stale for a drafter until it inserts its own (`AllAreStale`).

`Summaries` (`SummariesAssumption`): `SummariesCover` (`SummaryCoversResolutions`) and
`SummariesKeepTheThread`, which says that the conversation with embedding jobs implements the one
without, so that the theorems above hold of it too. The property only speaks of stored summaries;
`SummaryInv` adds what the running job is about to store: it is alone (`OneLoaded`) and has read all
that was said before its resolution and before every one whose job has stored (`LoadedCovers`).
The latter holds when it loads, because the thread only grows (`ThreadGrows`), and while it runs
no other job can store.

`Email` (`EmailAssumption`: mails and replies have different ids): `MailIsFiledOnce` (`FiledOnce`),
`ThreadsAreKept` (`ThreadKeepsAll`), `AnswersStay` (`AnswersStayInThread`), `CopiesExplained`
(`CopiesAreExplained`), `EmailTypes`. `EmailInv` has three layers. Whatever overlaps, rows, requests,
jobs and mails fit together (`EmailSound`); in particular every version of a thread, stored or
loaded, begins with the Message-ID the thread was opened with, which is what keeps an answer in
its thread when the record of the mail it answers was lost. From this and as long as no mail
was filed on two tickets, an answer is filed, or about to be, on the ticket of the mail it answers
(`AnswersBelong`). Without overlap a thread has one writer (`OneMailWriter`), which has
loaded what is stored (`LoadedIsStored`), so a write adds and removes nothing; a mail under way
has not been filed (`FiledAtMostOnce`); and a job has at most as many mails to its name as
it has lost records, plus the one it is sending (`CopiesCounted`).

**`SlaProofs`**. `SlaMonitor` (`MonitorAssumption`): `MonitorTypes`, `NobodyIsToldTwice`
(`NotifiedOnce`), `EveryEventIsTold` (`AdminsAreTold`), `RecordedEventsAreFinal`
(`EventsAreFinal`), `EventsHaveOneWriter`. What is stored is sound because a commit merges
inserts into it, so `MonitorInv` says the same of what each pass has inserted: at most one
notification per user, none without the event, all watchers told except for the event the pass
stands at between `record_once` and `fan_out`; and that no two of these sets share an event
(`Exclusive`), which is what the unique index and its waiting provide. `MergeSound` shows that
merging such sets doubles and loses nothing; it serves the savepoint's release and the commit.

`SlaClock` (`ClockAssumption`: windows are of times of day, a clock change starts and ends on
one day): `NothingIsLostOnTheWay` (`NothingLostOnTheWay`), `DueInstantsAreExact` (`DueIsExact`),
`ClockTypes`, for days, weeks, schedules, changes and SLAs of every size. They have two
hypotheses, which are the two cases of section 7 (no. 10 and 11) in which the code is wrong and
nothing more: the windows of a day are listed in order (`WindowsSorted`), and none opens or closes
strictly inside the ticks that a change skips or repeats (`BoundsClearOfChange`). The run's instance
satisfies both. The argument: at such a bound, local and UTC order agree (`BeforeBound`), so
although local time is not monotonic the instants before a window's end are those whose local
time is before it. The cursor is a bound or still from_timestamp (`CursorInv`), which is on
the right side of every bound whatever its fold (`CursorAmongBounds`). Hence the organization is
closed from the cursor to `effective_start`, open from there to the window's end
(`WindowAccrues`), and closed from the last window to midnight (`ClosedToMidnight`); open time adds
up over adjacent intervals (`AccruedAdds`). That the walk ends is not proved; it need not
(no. 12).

**`WorkerProofs`**. `KnowledgeBase` (`KnowledgeBaseAssumption`: a text has at least one chunk):
`IngestTypes`, `ChunksNeverMix` (`NoMixedChunks`), `NoChunkIsOrphaned` (`NoOrphanChunks`), and
two facts no run lists, `ChunksAreWhole` (all chunks of one text or none) and
`LockGuardsTheText` (a running job's article stays pending, keeps its text and has no second
job). "One text" is inductive only as "exactly the chunks of one text": every text has a chunk
0, so the unique index lets a job in only where there are none. That an insert never revives
a deleted article's chunks needs the row lock.

`Rollup` (`RollupAssumption`: a zone is less than a day from UTC, deadlines are instants, the sets
whose elements are counted are finite): `StoredFiguresAreExact` (`StoredIsExact`), `TicketsCountedOnce`
(`EachCountedOnce`), `DaysHaveNoGap` (`NoGap`), `RollupTypes`. `RollupInv` adds to `StoredIsExact` the same
for what the running pass has written (`PassIsExact`), that a pass runs at one instant (`PassShape`),
that nothing is stored of a day that is not over (`DaysAreOver`), and that a stored count is at
most what the day has now (`Counted`), because tickets are created and never removed. A commit
of facts may change only the figures it marks as stale: for each kind of fact a lemma
shows that every other metric stays (`CommitKeeps` and the `...Commits` lemmas). `EachCountedOnce`
follows, because the days partition the instants (`OnDayIsLocalDay`) and a sum of cardinalities
of disjoint sets is that of their union (`SumCounts`); that the fold's `CHOOSE` over finite sets
has the value of a sum is an argument by a least counterexample (`SumExists`, `MinimalSubset`).
`NoGap` needs a second invariant, `GapInv`: the last pass left rows of every day before its own,
the running one has those of the units it is through with. `DaysHaveNoGap` has the hypotheses
`Lookback > 1` (the code's `LOOKBACK_DAYS` is 2; with 1 a pass that starts after midnight would
leave its day out) and that the tickets' family is one of those computed. Local days and units are
quotients, about which `DivMod`, `MulLess`, `DivMono` and `DivIs` say what is needed.

**`AuthTokensProofs`** (`AuthAssumption`): `AuthTypes`, `RotationNeverForks`
(`OneLivePerFamily`), `FamiliesNeverDeadlock` (`NoWaitCycle`), `OneInvitationIsUsed`
(`OneUsedInvite`), `LockedTokensStayLive`. Two invariants. `FamilyInv`: a refresh holds a live
token, one request holds a token, and the UPDATE of a family found a token beside the presented
one only because the presented one is revoked, so the two never wait for each other.
`InviteInv`: there is one outstanding invitation per user, an accept holds it, and a user with
an accept under way has used none; a reissue waits for the accept or revokes first.

**`ChatProofs`**. `ChatTurns` (`ChatTurnsAssumption`): `ChatTypes`, `EscalatedSessionsHaveTickets`
(`EscalatedHasTicket`), `StaleTurnsAreHarmless` (`StaleTurnsUndoNothing`),
`EscalationsHappenOnce` (`EscalatesOnce`), `StreaksAreTrailing` (`StreakIsTrailing`). However
stale the row a turn loaded, the stored row has everything the loaded one had, and what the
turn assigns keeps it (`TurnSound`); since the flush writes only net changes, a commit cannot
remove what it did not see. Without overlap the loaded row is the stored one, which the last
two need.

`WhatsApp` (`WhatsAppAssumption`: messages are finite in number): `QuotaIsKept` (`QuotaHolds`),
`MetadataIsKept` (`MetadataKeepsAll`), `OneTurnEach` (`OneTurnPerSession`), `WhatsAppTypes`. The quota
holds whatever races, because INCR is atomic: each turn of the hour, and each request that
was counted and will queue one, has its own INCR that did not exceed the limit (`Quota`). The
other two hold without racing writers of `channel_metadata`. Then there is one writer
(`OneWriter`), and every version, stored or loaded, has the newest `DeferredCap` of the replies that
were deferred, in their order (`DeferralsKept`): appending to the newest items and dropping the
head gives the newest items again (`NewestAppended`), and what a webhook writes leaves them
alone. When in addition the ring has room for every message (`Calm`, the condition the properties
state), every version has all messages that were committed (`AllKept`), and a message is queued
after its commit by one request (`QueuedOnce`).

**`TaxonomyProofs`** (`TaxonomyAssumption`, `NoneAssumption`): `TaxonomyTypes`, `NothingDangles`
(`NoDangling`), `NoRequestDeadlock` (`RequestsNeverDeadlock`), `DeactivationIsKept`
(`DeactivationHolds`). `KeyInv`: a reference that is written keeps its row until it commits, by
its key-share lock if the key was checked and by the ticket's committed reference if it was
not, because then the ticket, whose lock has one holder, still refers to the row. The third
theorem needs no invariant: it follows from who may wait for whom, in every state.
`DeactivationIsKept` needs that a DELETE that loaded an inactive row knows of everyone who
activated it since (`SeenInactive`), and that a refused DELETE is part of no cycle of waits.

**`TenancyProofs`** (`TenancyAssumption`, `NoneAssumption`): `TenancyTypes`, `Apart`
(`OrganizationsStayApart`), `StaleWritesAreSound`, `SightKept` (`SightIsKept`). Nothing is
locked and no key compares organizations; what saves the code is that the columns it compares
are never updated. So `ApartInv` says of each open request that what it decided to write is
still right of the tables as they are now (`SoundWrite`), and that no two insert the same id.

Two notes on the notation. `f[a, b]` is written `f[<<a, b>>]` where it is reasoned about,
because the SMT translation has no form for the former; `(SUBSET S) \ {S}` keeps its
parentheses, because tlapm and SANY bind the operators of the bare form differently.

**Only model-checked**: liveness (`PendingGetsClassified`, `OverdueGetsBreached`), which is out
of the prover's reach. Every safety and action property of the runs is stated by a theorem.

## 7. Where code and documentation disagree

Each line is a sentence of the repository, stated as a property, that the code does not keep.
The configurations are not part of the suite; each reproduces the counterexample with
`tlc -config <cfg> <module>`. Where the table says "in X", take a copy of `X.cfg` and check
the property in place of the ones it lists.

| No. | Said | What happens | cfg → property |
|---|---|---|---|
| 1 | `services/ticket_service.py:286-289`, `api/v1/tickets.py:136-137`: staff may classify by hand, bypassing the worker | the worker still classifies the pending ticket and overwrites the choice (`workers/classification.py:138-141`) | `TicketManualTaxonomy` → `ManualTaxonomyBypassesWorker` |
| 2 | `ticket_service.py:314-315`: the hook fires when a call moved the ticket out of a non-terminal status | two PATCHes that read the same old status both fire it (`:378-382`) | in `Tickets` → `ResolvedOnlyFromNonTerminal` (action property) |
| 3 | `ticket_service.py:297-298`: status and `closed_at` change together, matching the CHECK | an escalation by the chat writes the status alone (`services/chat_tools.py:304`) and fails on a closed ticket | `TicketClosedCheck` → `StatusWritesMatchClosedCheck` |
| 4 | `repositories/classification_repository.py:12-13`: an override is flagged | a PATCH that read before the worker's commit overrides without a flag (`ticket_service.py:369`) | in `Tickets` with `Spec`, `Categories = {c1}`, `Urgencies = {u1, u2}`, `Hours = {1}` and `Payloads <- MixedBodies` → `OverridesAreFlagged` (invariant) |
| 5 | `services/knowledge_base_service.py:79-80`: no stale `ready` article after an edit | an edit that loaded a pending row leaves `status` alone (pending to pending is no change); if the job commits `ready` in between, the new text keeps the old chunks and the next job returns early (`workers/rag.py:158`) | in `KnowledgeBase` → `ReadyIsCurrent` (invariant) |
| 6 | `knowledge_base_service.py:11-12`: the worker picks up ingestion after an update | the old chunks are not deleted, so the inserts of the new ones collide (`workers/rag.py:187-197`) | `KbReembed` → `EmbeddingsCanBeStored` |
| 7 | `src/tests/integration/test_auth_flow_pg.py:130`: on reuse every token of the family is revoked | the exception that reports the reuse rolls the revocation back (`services/auth_service.py:82-83`, `core/session.py:53-55`) | `AuthReuse` → `ReuseRevokesFamily` |
| 8 | `auth_service.py:99`: logout revokes the whole family | the UPDATE does not see the token a concurrent refresh inserts (`repositories/refresh_token_repository.py:70-78`) | in `AuthTokens` → `LogoutRevokesFamily` (invariant) |
| 9 | `auth_service.py:118-120`: only a pending user is activated | the status is checked on a row that is not locked (`:136-143`) | in `AuthTokens` → `OnlyPendingIsActivated` (action property) |
| 10 | `services/sla.py:67-68`: until `sla_hours` of real time has accrued | the walk takes the windows in the order written (`:162-167`): an earlier window after a later one is skipped | `ClockUnsorted` → `DueIsExact` |
| 11 | `sla.py:68-72`, the same across a clock change | a window that ends inside the repeated hour is measured to the first occurrence of its end, its second pass is not counted (`:89-97`) | `ClockRepeatedHour` → `DueIsExact` |
| 12 | `sla.py:34-36`: the bound of the walk is unreachable | a short week and a long SLA reach it (`:81,112-115`) | in `SlaClock`, with `DayLength` 24, `WeekLength` 7, `MaxWalkDays` 366, `Changes <- NoChange`, `Schedules <- OneHourAWeek`, `Starts` {0} and `SlaTicks` {72} → `NeverExhausted` |
| 13 | `services/rag.py:29-33,110-112`: concurrent requests never both draft; fresh means the thread has not moved on | `created_at` is the start of the transaction: a draft of a request that began before the message it read looks stale and is made again; a message that began before a draft and was committed after it leaves the draft fresh | in `Suggestions` → `OneDraftPerThread`, `FreshHasSeenAll` (invariants) |
| 14 | `services/chat_tools.py:263-265`: a linked ticket means no second one | two turns that both loaded no ticket create two (`:286`) | in `ChatTurns` → `OneEscalationTicket` (invariant) |
| 15 | `services/chat.py:22-26`: two *consecutive* low-confidence turns | a grounded turn that loaded streak 0 resets nothing that a concurrent turn counted | in `ChatTurns` → `AutoOnlyAfterLow` (invariant) |
| 16 | `models/chat_session.py:75-78`: `escalated_at` is set exactly once | concurrent escalations both stamp it (`chat_tools.py:270-276`) | in `ChatTurns` → `StampedOnce` (action property) |
| 17 | `src/tests/integration/test_webhooks_whatsapp.py:23`: a replayed message is not processed again | concurrent deliveries, and a replay after the session went idle, are (`services/whatsapp_ingestion.py:174-217`) | `WhatsAppTwice` → `NoDuplicateTurn` |
| 18 | `whatsapp_ingestion.py:26-29`: an escalated session is always reused | the most recently active one is picked first (`:120-133`) | in `WhatsApp` → `EscalatedIsReused` (action property) |
| 19 | `services/email_ingestion.py:8-9`: a replay of a recorded Message-ID is a no-op | for a sender with the owner role the scan of candidates is limited to the tickets of the properties they own, so that they do not see their own mail's ticket: every delivery files a new one; overlapping deliveries do for anyone | `EmailOwner` → `ReplayIsNoOpAlone` |
| 20 | `workers/email.py:16-19`: a duplicate delivery of the job is a safe no-op | a worker that dies after the SMTP server took the mail and before its commit (`:119`) sends it again | in `Email` → `MailedOnce` |
| 21 | `services/taxonomy_service.py:52-53`: a DELETE of a row in use never raises | if another DELETE removes the row between the refusal and the fallback's UPDATE, that UPDATE finds no row; a cycle of waits with classification jobs fails it too | in `Taxonomy` → `InUseNeverRaises` (action property) |
| 22 | `services/ticket_service.py:152-155`: category and urgency of a new ticket are active | a row deactivated after the look (`:210`) is used all the same | in `Taxonomy` → `FiledUnderActive` (action property) |
| 23 | `services/analytics_service.py:24-25,35-38`: an undefined metric has no row | a rate that becomes undefined when it is computed again keeps its former row: the upsert only writes what is defined | `RollupUndefined` → `UndefinedIsNotStored` |
| 24 | `models/daily_metric.py:37`, `services/analytics_service.py:475-482`: a usage rate, `used / generated` | replies are counted on their own day, suggestions on theirs: a suggestion of the day before makes it exceed one | `RollupUsage` → `UsageIsAFraction` |
| 25 | `services/ticket_service.py:150-151`: the contract of a new ticket is active | a contract that ends after the look (`:204`) is used all the same | in `Tenancy` → `FiledOnActiveContract` (action property) |

## 8. Not modelled

* The analytics dashboards (`api/v1/analytics.py` and the queries it calls): they read and keep
  no state.
* Creating and configuring organizations, the listings and their filters, addresses and dates:
  one-statement inserts, updates and reads under a scope, nothing that races.
* Embedding and LLM clients, and what the classifier's models compute: numeric models and
  remote services. The modules let them answer anything, fail transiently or for good; what
  `classify` does with an answer is in `Taxonomy`.
* Password hashing, JWT, webhook signatures: cryptography; a request reaches a module when it
  has been authenticated.
* Backup, migrations, deployment, scripts, the front end: no protocol of the program itself.
* In the modelled parts: reading notifications, several messages in one WhatsApp
  delivery, `check_ticket_status` and `schedule_visit` of the chat, the unique names of taxonomy
  rows (two PATCHes that swap names may wait for each other), the parsing of mail addresses and MIME parts, clock changes in `Rollup`, an
  organization whose time zone changes.

## 9. Plan

The order is by how much of the system rests on the part.

1. *(done)* `TicketLifecycle` with `ClassifyOnce`; `SlaMonitor`; `SlaClock`; `KnowledgeBase`;
   `AuthTokens`; `Suggestions`; `ChatTurns`; `WhatsApp`; `Summaries`; `Email`; `Taxonomy`;
   `Rollup`; `Tenancy`.
2. *(done)* Proofs of every safety and action property of the runs, and of the refinement of
   `ClassifyOnce`.
3. *Next*. Abstract specifications worth stating and proving: an event log that records each
   event once, which `SlaMonitor` should implement; a message queue with at-most-one turn per
   message, which `WhatsApp` without overlap should implement.
