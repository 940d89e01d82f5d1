------------------------------ MODULE Summaries ------------------------------
(***************************************************************************)
(* embed_resolved_ticket beside the conversation of module Suggestions:    *)
(* staff resolve, close and reopen the ticket while people still post and  *)
(* suggestions are drafted, and each time the ticket enters resolved or    *)
(* closed a job summarises the thread into ticket_embeddings, the source   *)
(* of later suggestions.                                                   *)
(*                                                                         *)
(* The job takes no lock: it reads the thread, the LLM and the embedder    *)
(* answer, and then it writes the ticket's only row.  A status PATCH       *)
(* updates the row of the ticket and so waits for a draft in the making.   *)
(***************************************************************************)
EXTENDS Suggestions, FiniteSets

CONSTANTS
    Embeds,    \* the jobs, one for each time the ticket enters resolved or closed
    EmbedTries \* WorkerSettings.max_tries

ASSUME SummariesAssumption == EmbedTries \in Nat \ {0}

\* before, stored: history, the messages committed when the PATCH was, and whether
\* the job has committed a summary.
Embed == [phase: {"none", "queued", "loaded", "done"}, tries: 0..EmbedTries,
          seen: SUBSET Instants, before: SUBSET Instants, stored: BOOLEAN]

VARIABLES
    together,  \* two jobs of the ticket may run at the same time
    embeds,    \* embed_resolved_ticket jobs
    embedding  \* the ticket's row of ticket_embeddings, if any: the messages it sums up

summaryVars == <<together, embeds, embedding>>

SummaryInit ==
    /\ SuggestionInit
    /\ together \in BOOLEAN
    /\ embeds = [e \in Embeds |-> [phase |-> "none", tries |-> 0, seen |-> {},
                                   before |-> {}, stored |-> FALSE]]
    /\ embedding = {}

\* All messages of the ticket, AI suggestions included, as the prompt lists them.
Thread == humans \cup {drafts[i].at : i \in DOMAIN drafts}

\* enqueue_resolved_ticket_embedding: the background task queues the job, or fails to
\* and nobody tries again (the wait until it runs is the queue's).
Enqueued(reached) ==
    [phase |-> IF reached THEN "queued" ELSE "done", tries |-> IF reached THEN 0 ELSE EmbedTries,
     seen |-> {}, before |-> Thread, stored |-> FALSE]

\* A PATCH that enters resolved or closed commits.  The ticket may have been resolved
\* before: closing it, or reopening it and resolving it, counts again.
Resolve(e, reached) ==
    /\ embeds[e].phase = "none" /\ ~Drafting
    /\ embeds' = [embeds EXCEPT ![e] = Enqueued(reached)]
    /\ UNCHANGED <<together, embedding, suggestionVars>>

-----------------------------------------------------------------------------
(* embed_resolved_ticket. *)

MayLoad == together \/ \A e \in Embeds : embeds[e].phase # "loaded"

\* A try begins and reads the thread anew; a job that has used its tries does not.
LoadThread(e) ==
    /\ embeds[e].phase = "queued" /\ embeds[e].tries < EmbedTries /\ MayLoad
    /\ embeds' = [embeds EXCEPT ![e].phase = "loaded", ![e].tries = @ + 1,
                                ![e].seen = Thread]
    /\ UNCHANGED <<together, embedding, suggestionVars>>

Leave(e, phase) ==
    embeds' = [embeds EXCEPT ![e].phase = phase, ![e].seen = {}]

\* A transient failure of the LLM or the embedder: arq.Retry.
RetryEmbed(e) ==
    /\ embeds[e].phase = "loaded"
    /\ Leave(e, "queued")
    /\ UNCHANGED <<together, embedding, suggestionVars>>

\* No key, an empty summary or another permanent failure is logged and ends the job,
\* as does the exception of a failed commit.
RefuseEmbed(e) ==
    /\ embeds[e].phase = "loaded"
    /\ Leave(e, "done")
    /\ UNCHANGED <<together, embedding, suggestionVars>>

\* Mutant: ON CONFLICT DO NOTHING.
UpsertedOnce(rows, seen) == IF rows = {} THEN {seen} ELSE rows

\* ON CONFLICT (ticket_id) DO UPDATE.
Upserted(rows, seen) == {seen}

StoreSummary(e) ==
    /\ embeds[e].phase = "loaded"
    /\ embedding' = Upserted(embedding, embeds[e].seen)
    /\ embeds' = [embeds EXCEPT ![e].phase = "done", ![e].seen = {}, ![e].stored = TRUE]
    /\ UNCHANGED <<together, suggestionVars>>

\* The worker dies before arq has noted the end: the job is delivered again.
CrashEmbed(e) ==
    /\ embeds[e].phase \in {"loaded", "done"} /\ embeds[e].tries < EmbedTries
    /\ Leave(e, "queued")
    /\ UNCHANGED <<together, embedding, suggestionVars>>

-----------------------------------------------------------------------------
EmbedNext ==
    \E e \in Embeds : \/ \E b \in BOOLEAN : Resolve(e, b)
                      \/ LoadThread(e) \/ RetryEmbed(e) \/ RefuseEmbed(e)
                      \/ StoreSummary(e) \/ CrashEmbed(e)

SummaryNext == (SuggestionNext /\ UNCHANGED summaryVars) \/ EmbedNext

SummarySpec == SummaryInit /\ [][SummaryNext]_<<suggestionVars, summaryVars>>

-----------------------------------------------------------------------------
(* Properties. *)

\* The jobs of a ticket and its embedding keep their types.
SummaryTypeOK ==
    /\ together \in BOOLEAN
    /\ embeds \in [Embeds -> Embed]
    /\ embedding \in SUBSET SUBSET Instants /\ Cardinality(embedding) <= 1

\* A job that has stored a summary leaves the ticket with one that covers everything
\* said before its resolution: also when jobs of earlier or later resolutions were
\* retried, crashed after their commit and ran again, or finished out of order, and
\* people went on posting - as long as two of them do not run at the same time.
SummaryCoversResolutions ==
    ~together => \A e \in Embeds :
        embeds[e].stored => \E seen \in embedding : embeds[e].before \subseteq seen

=============================================================================
