---------------------------- MODULE KnowledgeBase ----------------------------
(***************************************************************************)
(* RAG ingestion: knowledge base articles, the admins who create, edit and *)
(* delete them, and the arq job embed_knowledge_document that turns an     *)
(* article into knowledge_chunks while it holds the article's row lock.    *)
(*                                                                         *)
(* An edit loads the row without a lock and flushes, at its commit, the    *)
(* columns whose new value differs from the LOADED one: the `pending` it   *)
(* assigns is written only if the row it loaded was not pending.  A delete *)
(* first deletes the chunks, then waits for the row.                       *)
(***************************************************************************)
EXTENDS Integers, FiniteSets

CONSTANTS
    Articles,   \* ids of `knowledge_base`
    Contents,   \* article texts
    Size,       \* number of chunks chunk_document makes of a (never blank) text
    Requests,   \* admin requests that may be open at the same time
    Jobs,       \* slots of the arq queue
    MaxTries,   \* WorkerSettings.max_tries
    None        \* no article, no content in the PATCH body

Opt(S) == S \cup {None}

ASSUME KnowledgeBaseAssumption ==
    /\ Size \in [Contents -> Nat \ {0}]
    /\ MaxTries \in Nat \ {0}
    /\ None \notin Articles /\ None \notin Contents

\* "new" and "deleted" are ids without a row.
Article == [status: {"new", "pending", "ready", "failed", "deleted"},
            content: Opt(Contents)]

Chunk == [index: Nat, content: Contents]

Request == [phase: {"idle", "edit", "delete", "committed"},
            article: Opt(Articles), content: Opt(Contents), seen: Article,
            held: SUBSET Chunk]

Job == [state: {"free", "queued", "running", "committed"},
        article: Opt(Articles), content: Opt(Contents), tries: 0..MaxTries]

NoArticle == [status |-> "new", content |-> None]

NoRequest == [phase |-> "idle", article |-> None, content |-> None,
              seen |-> NoArticle, held |-> {}]

NoJob == [state |-> "free", article |-> None, content |-> None, tries |-> 0]

VARIABLES
    articles,  \* the table knowledge_base
    chunks,    \* the knowledge_chunks of each article
    requests,  \* open requests, until their background task has run
    jobs       \* embed_knowledge_document jobs known to arq

vars == <<articles, chunks, requests, jobs>>

Exists(k) == articles[k].status \notin {"new", "deleted"}

Init ==
    /\ articles = [k \in Articles |-> NoArticle]
    /\ chunks = [k \in Articles |-> {}]
    /\ requests = [r \in Requests |-> NoRequest]
    /\ jobs = [j \in Jobs |-> NoJob]

-----------------------------------------------------------------------------
(* The admin API. *)

RowLocked(k) == \E j \in Jobs : jobs[j].state = "running" /\ jobs[j].article = k

\* A request whose transaction has committed and whose enqueue is due.
Committed(k) == [phase |-> "committed", article |-> k, content |-> None,
                 seen |-> NoArticle, held |-> {}]

CreateKnowledgeBase(r, k, c) ==
    /\ requests[r].phase = "idle"
    /\ articles[k].status = "new"
    /\ articles' = [articles EXCEPT ![k] = [status |-> "pending", content |-> c]]
    /\ requests' = [requests EXCEPT ![r] = Committed(k)]
    /\ UNCHANGED <<chunks, jobs>>

\* update_knowledge_base up to its flush; c = None edits the title only.
EditRead(r, k, c) ==
    /\ requests[r].phase = "idle"
    /\ Exists(k)
    /\ requests' = [requests EXCEPT ![r] =
            [phase |-> "edit", article |-> k, content |-> c,
             seen |-> articles[k], held |-> {}]]
    /\ UNCHANGED <<articles, chunks, jobs>>

\* A column of the UPDATE: only a net change against the loaded value.
Flushed(assigned, loaded, stored) ==
    IF assigned = loaded THEN stored ELSE assigned

\* UPDATE and COMMIT: waits for the row lock; a row that is gone by then is a
\* StaleDataError (see Rollback).
EditCommit(r) ==
    LET q == requests[r]  k == q.article  row == articles[k]
        assigned == IF q.content = None THEN q.seen.content ELSE q.content
    IN
    /\ q.phase = "edit"
    /\ Exists(k) /\ ~RowLocked(k)
    /\ articles' = [articles EXCEPT ![k] =
            [status |-> Flushed("pending", q.seen.status, row.status),
             content |-> Flushed(assigned, q.seen.content, row.content)]]
    /\ requests' = [requests EXCEPT ![r] = Committed(k)]
    /\ UNCHANGED <<chunks, jobs>>

\* delete_for_knowledge_base: the chunks it sees are deleted, their index
\* entries stay locked until the end of the transaction.
DeleteChunks(r, k) ==
    /\ requests[r].phase = "idle"
    /\ Exists(k)
    /\ requests' = [requests EXCEPT ![r] =
            [phase |-> "delete", article |-> k, content |-> None,
             seen |-> NoArticle, held |-> chunks[k]]]
    /\ UNCHANGED <<articles, chunks, jobs>>

\* Mutant: without ON DELETE CASCADE only the chunks seen earlier go.
DeleteCommitNoCascade(r) ==
    LET k == requests[r].article IN
    /\ requests[r].phase = "delete"
    /\ ~RowLocked(k)
    /\ articles' = [articles EXCEPT ![k] = [status |-> "deleted", content |-> None]]
    /\ chunks' = [chunks EXCEPT ![k] = @ \ requests[r].held]
    /\ requests' = [requests EXCEPT ![r] = NoRequest]
    /\ UNCHANGED jobs

\* DELETE of the row waits for its lock; the foreign key cascades to chunks
\* committed in the meantime.  No job is enqueued.
DeleteCommit(r) ==
    LET k == requests[r].article IN
    /\ requests[r].phase = "delete"
    /\ ~RowLocked(k)
    /\ articles' = [articles EXCEPT ![k] = [status |-> "deleted", content |-> None]]
    /\ chunks' = [chunks EXCEPT ![k] = {}]
    /\ requests' = [requests EXCEPT ![r] = NoRequest]
    /\ UNCHANGED jobs

\* An error or a dead process: get_session rolls back.
Rollback(r) ==
    /\ requests[r].phase \in {"edit", "delete"}
    /\ requests' = [requests EXCEPT ![r] = NoRequest]
    /\ UNCHANGED <<articles, chunks, jobs>>

\* enqueue_kb_embedding, a background task after the commit.
EnqueueKbEmbedding(r, j) ==
    /\ requests[r].phase = "committed"
    /\ jobs[j].state = "free"
    /\ jobs' = [jobs EXCEPT ![j] =
            [state |-> "queued", article |-> requests[r].article,
             content |-> None, tries |-> 0]]
    /\ requests' = [requests EXCEPT ![r] = NoRequest]
    /\ UNCHANGED <<articles, chunks>>

\* Redis is down or the process dies after the commit: nobody sweeps.
EnqueueLost(r) ==
    /\ requests[r].phase = "committed"
    /\ requests' = [requests EXCEPT ![r] = NoRequest]
    /\ UNCHANGED <<articles, chunks, jobs>>

-----------------------------------------------------------------------------
(* embed_knowledge_document. *)

\* get_or_404(for_update=True), NotFoundError ends the job; the status is
\* checked under the lock.
StartJob(j) ==
    LET k == jobs[j].article IN
    /\ jobs[j].state = "queued" /\ jobs[j].tries < MaxTries
    /\ ~RowLocked(k)
    /\ jobs' = [jobs EXCEPT ![j] =
            IF ~Exists(k) \/ articles[k].status # "pending" THEN NoJob
            ELSE [state |-> "running", article |-> k,
                  content |-> articles[k].content, tries |-> jobs[j].tries + 1]]
    /\ UNCHANGED <<articles, chunks, requests>>

ExpireJob(j) ==
    /\ jobs[j].state = "queued" /\ jobs[j].tries = MaxTries
    /\ jobs' = [jobs EXCEPT ![j] = NoJob]
    /\ UNCHANGED <<articles, chunks, requests>>

\* The rows the job adds: indices from 0.
ChunksOf(c) == [index: 0..Size[c] - 1, content: {c}]

\* Mutant: the unique index is missing.
CollidesNever(S, T) == FALSE

\* ix_knowledge_chunks_kb_id_chunk_index: two rows with the same chunk_index.
Collides(S, T) == \E a \in S, b \in T : a.index = b.index

\* An INSERT waits for the transaction that is deleting a row of its index.
InsertWaits(j) ==
    \E r \in Requests : /\ requests[r].phase = "delete"
                        /\ requests[r].article = jobs[j].article
                        /\ Collides(requests[r].held, ChunksOf(jobs[j].content))

\* The embedder answered: chunks, status and COMMIT in one transaction.
Embed(j) ==
    LET k == jobs[j].article  c == jobs[j].content IN
    /\ jobs[j].state = "running"
    /\ ~InsertWaits(j)
    /\ ~Collides(chunks[k], ChunksOf(c))
    /\ chunks' = [chunks EXCEPT ![k] = @ \cup ChunksOf(c)]
    /\ articles' = [articles EXCEPT ![k] =
            [status |-> "ready", content |-> @.content]]
    /\ jobs' = [jobs EXCEPT ![j] = [state |-> "committed", article |-> k,
                                    content |-> c, tries |-> jobs[j].tries]]
    /\ UNCHANGED requests

\* The commit is outside the try block: an IntegrityError of the unique index,
\* or a deadlock with a delete, ends the job, and the article stays pending.
EmbedRefused(j) ==
    LET k == jobs[j].article  c == jobs[j].content IN
    /\ jobs[j].state = "running"
    /\ InsertWaits(j) \/ Collides(chunks[k], ChunksOf(c))
    /\ jobs' = [jobs EXCEPT ![j] = NoJob]
    /\ UNCHANGED <<articles, chunks, requests>>

TransientFailure(j) ==
    /\ jobs[j].state = "running"
    /\ jobs' = [jobs EXCEPT ![j] =
            [state |-> "queued", article |-> jobs[j].article, content |-> None,
             tries |-> jobs[j].tries]]
    /\ UNCHANGED <<articles, chunks, requests>>

\* An error of the embedder that is not worth a retry.
PermanentFailure(j) ==
    LET k == jobs[j].article IN
    /\ jobs[j].state = "running"
    /\ articles' = [articles EXCEPT ![k] =
            [status |-> "failed", content |-> @.content]]
    /\ jobs' = [jobs EXCEPT ![j] =
            [state |-> "committed", article |-> k, content |-> jobs[j].content,
             tries |-> jobs[j].tries]]
    /\ UNCHANGED <<chunks, requests>>

AckJob(j) ==
    /\ jobs[j].state = "committed"
    /\ jobs' = [jobs EXCEPT ![j] = NoJob]
    /\ UNCHANGED <<articles, chunks, requests>>

\* The worker dies, before or after the commit: arq delivers the job again.
CrashJob(j) ==
    /\ jobs[j].state \in {"running", "committed"}
    /\ jobs' = [jobs EXCEPT ![j] =
            [state |-> "queued", article |-> jobs[j].article, content |-> None,
             tries |-> jobs[j].tries]]
    /\ UNCHANGED <<articles, chunks, requests>>

-----------------------------------------------------------------------------
Next ==
    \/ \E r \in Requests, k \in Articles, c \in Contents :
            CreateKnowledgeBase(r, k, c)
    \/ \E r \in Requests, k \in Articles, c \in Opt(Contents) : EditRead(r, k, c)
    \/ \E r \in Requests, k \in Articles : DeleteChunks(r, k)
    \/ \E r \in Requests : \/ EditCommit(r) \/ DeleteCommit(r) \/ Rollback(r)
                           \/ EnqueueLost(r)
                           \/ \E j \in Jobs : EnqueueKbEmbedding(r, j)
    \/ \E j \in Jobs : \/ StartJob(j) \/ ExpireJob(j) \/ Embed(j)
                       \/ EmbedRefused(j) \/ TransientFailure(j)
                       \/ PermanentFailure(j) \/ AckJob(j) \/ CrashJob(j)

Spec == Init /\ [][Next]_vars

-----------------------------------------------------------------------------
(* Properties. *)

\* Every variable keeps the shape of its table or queue.
TypeOK ==
    /\ articles \in [Articles -> Article]
    /\ \A k \in Articles : chunks[k] \subseteq Chunk
    /\ DOMAIN chunks = Articles
    /\ requests \in [Requests -> Request]
    /\ jobs \in [Jobs -> Job]

\* The chunks of an article always come from one text: duplicate jobs, edits
\* and crashes never leave a mixture of two versions for retrieval to cite.
NoMixedChunks ==
    \A k \in Articles : \A a, b \in chunks[k] :
        a.content = b.content /\ (a.index = b.index => a = b)

\* delete_knowledge_base leaves no chunk behind, not even one that a job commits
\* while the delete waits for the row.
NoOrphanChunks ==
    \A k \in Articles : ~Exists(k) => chunks[k] = {}

-----------------------------------------------------------------------------
(* What the code's documentation says and the code does not do. *)

\* update_knowledge_base: "a stale "ready"/"failed" article is never left
\* un-re-embedded after an edit", so a ready article's chunks are those of its
\* current text.
ReadyIsCurrent ==
    \A k \in Articles : articles[k].status = "ready" =>
        \A a \in chunks[k] : a.content = articles[k].content

\* knowledge_base module: after create or update "the worker picks up ingestion
\* asynchronously", so a job that has its embeddings can store them.
EmbeddingsCanBeStored ==
    \A j \in Jobs : jobs[j].state = "running" =>
        ~Collides(chunks[jobs[j].article], ChunksOf(jobs[j].content))

=============================================================================
