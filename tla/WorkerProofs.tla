---------------------------- MODULE WorkerProofs ----------------------------
(* Theorems about what two background jobs store.                             *)
(*                                                                            *)
(* KnowledgeBase: for every number of articles, texts, admin requests and     *)
(* jobs, and whatever chunk_document makes of a text.                         *)
(*                                                                            *)
(* Rollup: for every set of tickets, chats and suggestions, every choice of   *)
(* metric families, every zone less than a day from UTC, and whatever bounds  *)
(* on the clock, the commits and the failures.                                *)
EXTENDS KnowledgeBase, Rollup, FiniteSetTheorems, WellFoundedInduction, TLAPS

\* Requests and jobs are about articles, and an article that is there has a text,
\* also in the session of an edit that has loaded it.
Grounded ==
    /\ \A k \in Articles : Exists(k) => articles[k].content \in Contents
    /\ \A r \in Requests :
          /\ requests[r].phase # "idle" => requests[r].article \in Articles
          /\ requests[r].phase = "edit" => requests[r].seen.content \in Contents
    /\ \A j \in Jobs : jobs[j].state # "free" => jobs[j].article \in Articles

\* While a job holds its article's row lock, embedder call included, the article
\* stays pending, keeps the text the job embeds, and has no second job.
EmbedsUnderLock ==
    /\ \A j \in Jobs : jobs[j].state = "running" =>
          /\ articles[jobs[j].article].status = "pending"
          /\ articles[jobs[j].article].content = jobs[j].content
    /\ \A i, j \in Jobs :
          /\ jobs[i].state = "running" /\ jobs[j].state = "running"
          /\ jobs[i].article = jobs[j].article
          => i = j

\* An article has no chunks, or exactly those of one text: never a part of them.
OneText ==
    \A k \in Articles : chunks[k] = {} \/ \E c \in Contents : chunks[k] = ChunksOf(c)

\* The inductive invariant.
IngestInv ==
    /\ TypeOK
    /\ Grounded
    /\ EmbedsUnderLock
    /\ OneText
    /\ NoOrphanChunks

-----------------------------------------------------------------------------

\* The idle records, and that of a committed request.
LEMMA RecordTypes ==
    /\ NoArticle \in Article /\ NoArticle.status = "new"
    /\ NoRequest \in Request /\ NoRequest.phase = "idle"
    /\ NoJob \in Job /\ NoJob.state = "free"
    /\ \A k \in Articles :
          Committed(k) \in Request /\ Committed(k).phase = "committed"
          /\ Committed(k).article = k
  <1>1. NoArticle \in Article /\ NoArticle.status = "new"
    BY DEF NoArticle, Article, Opt
  <1>2. NoRequest \in Request /\ NoRequest.phase = "idle"
    BY <1>1 DEF NoRequest, Request, Opt
  <1>3. NoJob \in Job /\ NoJob.state = "free"
    BY KnowledgeBaseAssumption DEF NoJob, Job, Opt
  <1>4. ASSUME NEW k \in Articles
        PROVE  Committed(k) \in Request /\ Committed(k).phase = "committed"
               /\ Committed(k).article = k
    BY <1>1 DEF Committed, Request, Opt
  <1>5. QED BY <1>1, <1>2, <1>3, <1>4

\* The chunks of a text are chunks, of this text, and the first has index 0: two
\* texts cannot share an article.
LEMMA ChunksOfText ==
    ASSUME NEW c \in Contents
    PROVE  /\ ChunksOf(c) \subseteq Chunk
           /\ \A a \in ChunksOf(c) : a.content = c
           /\ \A a, b \in ChunksOf(c) : a.index = b.index => a = b
           /\ \A d \in Contents : Collides(ChunksOf(d), ChunksOf(c))
  <1>1. \A d \in Contents : Size[d] \in Nat \ {0}
    BY KnowledgeBaseAssumption
  <1>2. ChunksOf(c) \subseteq Chunk
    BY <1>1 DEF ChunksOf, Chunk
  <1>3. /\ \A a \in ChunksOf(c) : a.content = c
        /\ \A a, b \in ChunksOf(c) : a.index = b.index => a = b
    BY DEF ChunksOf
  <1>4. ASSUME NEW d \in Contents
        PROVE  [index |-> 0, content |-> d] \in ChunksOf(d)
    BY <1>1 DEF ChunksOf
  <1>5. \A d \in Contents : Collides(ChunksOf(d), ChunksOf(c))
    BY <1>4 DEF Collides
  <1>6. QED BY <1>2, <1>3, <1>5

\* A step of one request that touches no article, chunk or job keeps the invariant.
LEMMA RequestKeeps ==
    ASSUME IngestInv, NEW r \in Requests, NEW q \in Request,
           UNCHANGED <<articles, chunks, jobs>>,
           requests' = [requests EXCEPT ![r] = q],
           q.phase # "idle" => q.article \in Articles,
           q.phase = "edit" => q.seen.content \in Contents
    PROVE  IngestInv'
  <1>1. TypeOK'
    BY DEF IngestInv, TypeOK
  <1>2. Grounded'
    BY DEF IngestInv, TypeOK, Grounded, Exists
  <1>3. EmbedsUnderLock' /\ OneText' /\ NoOrphanChunks'
    BY DEF IngestInv, EmbedsUnderLock, OneText, NoOrphanChunks, Exists
  <1>4. QED BY <1>1, <1>2, <1>3 DEF IngestInv

\* So does a step of one job that ends it, queues it again or acknowledges it.
LEMMA JobKeeps ==
    ASSUME IngestInv, NEW j \in Jobs, NEW b \in Job,
           UNCHANGED <<articles, chunks>>,
           requests' \in [Requests -> Request], Grounded',
           jobs' = [jobs EXCEPT ![j] = b], b.state # "running"
    PROVE  IngestInv'
  <1>1. TypeOK'
    BY DEF IngestInv, TypeOK
  <1>2. EmbedsUnderLock'
    BY DEF IngestInv, TypeOK, EmbedsUnderLock
  <1>3. OneText' /\ NoOrphanChunks'
    BY DEF IngestInv, OneText, NoOrphanChunks, Exists
  <1>4. QED BY <1>1, <1>2, <1>3 DEF IngestInv

\* create_knowledge_base
LEMMA Creates ==
    ASSUME IngestInv, NEW r \in Requests, NEW k \in Articles, NEW c \in Contents,
           CreateKnowledgeBase(r, k, c)
    PROVE  IngestInv'
  <1>1. /\ articles \in [Articles -> Article] /\ requests \in [Requests -> Request]
        /\ jobs \in [Jobs -> Job]
        /\ Grounded /\ EmbedsUnderLock /\ OneText /\ NoOrphanChunks
    BY DEF IngestInv, TypeOK
  <1> DEFINE a == [status |-> "pending", content |-> c]
  <1>2. /\ articles' = [articles EXCEPT ![k] = a] /\ articles[k].status = "new"
        /\ requests' = [requests EXCEPT ![r] = Committed(k)]
        /\ UNCHANGED <<chunks, jobs>>
    BY DEF CreateKnowledgeBase
  <1>3. a \in Article /\ a.status = "pending" /\ a.content = c
    BY DEF Article, Opt
  <1> HIDE DEF a
  <1>4. TypeOK'
    BY <1>1, <1>2, <1>3, RecordTypes DEF IngestInv, TypeOK
  <1>5. Grounded'
    BY <1>1, <1>2, <1>3, RecordTypes DEF Grounded, Exists
  <1>6. \A j \in Jobs : jobs[j].state = "running" => jobs[j].article # k
    BY <1>1, <1>2 DEF EmbedsUnderLock
  <1>7. EmbedsUnderLock'
    BY <1>1, <1>2, <1>6 DEF EmbedsUnderLock, Grounded
  <1>8. OneText' /\ NoOrphanChunks'
    BY <1>1, <1>2, <1>3 DEF OneText, NoOrphanChunks, Exists
  <1>9. QED BY <1>4, <1>5, <1>7, <1>8 DEF IngestInv

\* The UPDATE of an edit: it waits for the row lock, and writes a text the session
\* has loaded or was given.
LEMMA EditCommits ==
    ASSUME IngestInv, NEW r \in Requests, EditCommit(r)
    PROVE  IngestInv'
  <1>1. /\ articles \in [Articles -> Article] /\ requests \in [Requests -> Request]
        /\ jobs \in [Jobs -> Job]
        /\ Grounded /\ EmbedsUnderLock /\ OneText /\ NoOrphanChunks
    BY DEF IngestInv, TypeOK
  <1> DEFINE q == requests[r]
             k == q.article
             text == Flushed(IF q.content = None THEN q.seen.content ELSE q.content,
                             q.seen.content, articles[k].content)
             a == [status |-> Flushed("pending", q.seen.status, articles[k].status),
                   content |-> text]
  <1>2. /\ q.phase = "edit" /\ Exists(k) /\ ~RowLocked(k)
        /\ articles' = [articles EXCEPT ![k] = a]
        /\ requests' = [requests EXCEPT ![r] = Committed(k)]
        /\ UNCHANGED <<chunks, jobs>>
    BY DEF EditCommit
  <1>3. /\ k \in Articles /\ articles[k].content \in Contents
        /\ q.seen.content \in Contents /\ q.content \in Opt(Contents)
    BY <1>1, <1>2 DEF Grounded, Request
  <1>4. text \in Contents
    BY <1>3 DEF Flushed, Opt
  <1>5. a \in Article /\ a.status \notin {"new", "deleted"} /\ a.content \in Contents
    BY <1>1, <1>2, <1>3, <1>4 DEF Article, Flushed, Exists, Opt
  <1> HIDE DEF a, text
  <1>6. TypeOK'
    BY <1>1, <1>2, <1>3, <1>5, RecordTypes DEF IngestInv, TypeOK
  <1>7. Grounded'
    BY <1>1, <1>2, <1>3, <1>5, RecordTypes DEF Grounded, Exists
  <1>8. EmbedsUnderLock'
    BY <1>1, <1>2, <1>3 DEF EmbedsUnderLock, Grounded, RowLocked
  <1>9. OneText' /\ NoOrphanChunks'
    BY <1>1, <1>2, <1>3, <1>5 DEF OneText, NoOrphanChunks, Exists
  <1>10. QED BY <1>6, <1>7, <1>8, <1>9 DEF IngestInv

\* The DELETE waits for the row lock, and the foreign key takes every chunk with it.
LEMMA DeleteCommits ==
    ASSUME IngestInv, NEW r \in Requests, DeleteCommit(r)
    PROVE  IngestInv'
  <1>1. /\ articles \in [Articles -> Article] /\ requests \in [Requests -> Request]
        /\ jobs \in [Jobs -> Job] /\ DOMAIN chunks = Articles
        /\ \A x \in Articles : chunks[x] \subseteq Chunk
        /\ Grounded /\ EmbedsUnderLock /\ OneText /\ NoOrphanChunks
    BY DEF IngestInv, TypeOK
  <1> DEFINE k == requests[r].article
             a == [status |-> "deleted", content |-> None]
  <1>2. /\ requests[r].phase = "delete" /\ ~RowLocked(k)
        /\ articles' = [articles EXCEPT ![k] = a]
        /\ chunks' = [chunks EXCEPT ![k] = {}]
        /\ requests' = [requests EXCEPT ![r] = NoRequest]
        /\ jobs' = jobs
    BY DEF DeleteCommit
  <1>3. a \in Article /\ a.status = "deleted" /\ k \in Articles
    BY <1>1, <1>2 DEF Article, Opt, Grounded
  <1> HIDE DEF a
  <1>4. /\ DOMAIN chunks' = Articles /\ chunks'[k] = {}
        /\ \A x \in Articles \ {k} : chunks'[x] = chunks[x]
    BY <1>1, <1>2, <1>3
  <1>5. TypeOK'
    BY <1>1, <1>2, <1>3, <1>4, RecordTypes DEF IngestInv, TypeOK
  <1>6. Grounded'
    BY <1>1, <1>2, <1>3, RecordTypes DEF Grounded, Exists
  <1>7. EmbedsUnderLock'
    BY <1>1, <1>2, <1>3 DEF EmbedsUnderLock, Grounded, RowLocked
  <1>8. OneText'
    BY <1>1, <1>3, <1>4 DEF OneText
  <1>9. NoOrphanChunks'
    BY <1>1, <1>2, <1>3, <1>4 DEF NoOrphanChunks, Exists
  <1>10. QED BY <1>5, <1>6, <1>7, <1>8, <1>9 DEF IngestInv

\* The job takes the row lock; it finds a pending article and its text, or ends.
LEMMA Starts ==
    ASSUME IngestInv, NEW j \in Jobs, StartJob(j)
    PROVE  IngestInv'
  <1>1. /\ articles \in [Articles -> Article] /\ requests \in [Requests -> Request]
        /\ jobs \in [Jobs -> Job]
        /\ Grounded /\ EmbedsUnderLock /\ OneText /\ NoOrphanChunks
    BY DEF IngestInv, TypeOK
  <1> DEFINE k == jobs[j].article
             b == [state |-> "running", article |-> k,
                   content |-> articles[k].content, tries |-> jobs[j].tries + 1]
  <1>2. /\ jobs[j].state = "queued" /\ jobs[j].tries < MaxTries /\ ~RowLocked(k)
        /\ UNCHANGED <<articles, chunks, requests>>
    BY DEF StartJob
  <1>3. k \in Articles
    BY <1>1, <1>2 DEF Grounded
  <1>4. CASE ~Exists(k) \/ articles[k].status # "pending"
    <2>1. jobs' = [jobs EXCEPT ![j] = NoJob]
      BY <1>4 DEF StartJob
    <2>2. Grounded'
      BY <1>1, <1>2, <2>1, RecordTypes DEF Grounded, Exists
    <2>3. QED BY <1>1, <1>2, <2>1, <2>2, RecordTypes, JobKeeps
  <1>5. CASE Exists(k) /\ articles[k].status = "pending"
    <2>1. jobs' = [jobs EXCEPT ![j] = b]
      BY <1>5 DEF StartJob
    <2>2. b \in Job /\ b.state = "running" /\ b.article = k
          /\ b.content = articles[k].content
      BY <1>1, <1>2, <1>3, KnowledgeBaseAssumption DEF Job, Article, Opt
    <2> HIDE DEF b
    <2>3. TypeOK'
      BY <1>1, <1>2, <2>1, <2>2 DEF IngestInv, TypeOK
    <2>4. Grounded'
      BY <1>1, <1>2, <1>3, <2>1, <2>2 DEF Grounded, Exists
    <2>5. \A i \in Jobs \ {j} :
             jobs'[i] = jobs[i]
             /\ (jobs[i].state = "running" => jobs[i].article # k)
      BY <1>1, <1>2, <2>1 DEF RowLocked
    <2>6. jobs'[j] = b
      BY <1>1, <2>1
    <2>7. EmbedsUnderLock'
      BY <1>1, <1>2, <1>5, <2>2, <2>5, <2>6 DEF EmbedsUnderLock
    <2>8. OneText' /\ NoOrphanChunks'
      BY <1>1, <1>2 DEF OneText, NoOrphanChunks, Exists
    <2>9. QED BY <2>3, <2>4, <2>7, <2>8 DEF IngestInv
  <1>6. QED BY <1>4, <1>5

\* The job's commit: the unique index lets its chunks in only where there are none,
\* and the lock has kept the article it read.
LEMMA Embeds ==
    ASSUME IngestInv, NEW j \in Jobs, Embed(j)
    PROVE  IngestInv'
  <1>1. /\ articles \in [Articles -> Article] /\ requests \in [Requests -> Request]
        /\ jobs \in [Jobs -> Job] /\ DOMAIN chunks = Articles
        /\ \A x \in Articles : chunks[x] \subseteq Chunk
        /\ Grounded /\ EmbedsUnderLock /\ OneText /\ NoOrphanChunks
    BY DEF IngestInv, TypeOK
  <1> DEFINE k == jobs[j].article
             c == jobs[j].content
             a == [status |-> "ready", content |-> articles[k].content]
             b == [state |-> "committed", article |-> k, content |-> c,
                   tries |-> jobs[j].tries]
  <1>2. /\ jobs[j].state = "running" /\ ~Collides(chunks[k], ChunksOf(c))
        /\ requests' = requests
        /\ articles' = [articles EXCEPT ![k] = a]
        /\ jobs' = [jobs EXCEPT ![j] = b]
        /\ chunks' = [chunks EXCEPT ![k] = chunks[k] \cup ChunksOf(c)]
    BY DEF Embed
  <1>3. /\ k \in Articles /\ articles[k].status = "pending"
        /\ articles[k].content = c
    BY <1>1, <1>2 DEF Grounded, EmbedsUnderLock
  <1>4. c \in Contents
    BY <1>1, <1>3 DEF Grounded, Exists
  <1>5. a \in Article /\ a.status = "ready" /\ a.content = c
    BY <1>3, <1>4 DEF Article, Opt
  <1>6. b \in Job /\ b.state = "committed" /\ b.article = k
    BY <1>1, <1>3, <1>4 DEF Job, Opt
  <1> HIDE DEF a, b
  <1>7. chunks[k] = {}
    BY <1>1, <1>2, <1>3, <1>4, ChunksOfText DEF OneText
  <1>8. /\ DOMAIN chunks' = Articles /\ chunks'[k] = ChunksOf(c)
        /\ \A x \in Articles \ {k} : chunks'[x] = chunks[x]
    BY <1>1, <1>2, <1>3, <1>7
  <1>9. TypeOK'
    BY <1>1, <1>2, <1>4, <1>5, <1>6, <1>8, ChunksOfText DEF TypeOK
  <1>10. Grounded'
    BY <1>1, <1>2, <1>3, <1>4, <1>5, <1>6 DEF Grounded, Exists
  <1>11. \A i \in Jobs : jobs'[i].state = "running" =>
            /\ jobs'[i] = jobs[i] /\ jobs[i].article # k
            /\ articles'[jobs[i].article] = articles[jobs[i].article]
    BY <1>1, <1>2, <1>3, <1>6 DEF EmbedsUnderLock, Grounded
  <1>12. EmbedsUnderLock'
    BY <1>1, <1>11 DEF EmbedsUnderLock
  <1>13. OneText'
    BY <1>1, <1>4, <1>8 DEF OneText
  <1>14. NoOrphanChunks'
    BY <1>1, <1>2, <1>5, <1>8 DEF NoOrphanChunks, Exists
  <1>15. QED BY <1>9, <1>10, <1>12, <1>13, <1>14 DEF IngestInv

\* The article is marked failed under the same lock.
LEMMA Fails ==
    ASSUME IngestInv, NEW j \in Jobs, PermanentFailure(j)
    PROVE  IngestInv'
  <1>1. /\ articles \in [Articles -> Article] /\ requests \in [Requests -> Request]
        /\ jobs \in [Jobs -> Job]
        /\ Grounded /\ EmbedsUnderLock /\ OneText /\ NoOrphanChunks
    BY DEF IngestInv, TypeOK
  <1> DEFINE k == jobs[j].article
             a == [status |-> "failed", content |-> articles[k].content]
             b == [state |-> "committed", article |-> k, content |-> jobs[j].content,
                   tries |-> jobs[j].tries]
  <1>2. /\ jobs[j].state = "running"
        /\ UNCHANGED <<chunks, requests>>
        /\ articles' = [articles EXCEPT ![k] = a]
        /\ jobs' = [jobs EXCEPT ![j] = b]
    BY DEF PermanentFailure
  <1>3. k \in Articles /\ Exists(k) /\ articles[k].content \in Contents
    BY <1>1, <1>2 DEF Grounded, EmbedsUnderLock, Exists
  <1>4. a \in Article /\ a.status = "failed" /\ a.content \in Contents
    BY <1>3 DEF Article, Opt
  <1>5. b \in Job /\ b.state = "committed" /\ b.article = k
    BY <1>1, <1>3 DEF Job, Opt
  <1> HIDE DEF a, b
  <1>6. TypeOK'
    BY <1>1, <1>2, <1>4, <1>5 DEF IngestInv, TypeOK
  <1>7. Grounded'
    BY <1>1, <1>2, <1>3, <1>4, <1>5 DEF Grounded, Exists
  <1>8. \A i \in Jobs : jobs'[i].state = "running" =>
            /\ jobs'[i] = jobs[i] /\ jobs[i].article # k
            /\ articles'[jobs[i].article] = articles[jobs[i].article]
    BY <1>1, <1>2, <1>3, <1>5 DEF EmbedsUnderLock, Grounded
  <1>9. EmbedsUnderLock'
    BY <1>1, <1>8 DEF EmbedsUnderLock
  <1>10. OneText' /\ NoOrphanChunks'
    BY <1>1, <1>2, <1>3, <1>4 DEF OneText, NoOrphanChunks, Exists
  <1>11. QED BY <1>6, <1>7, <1>9, <1>10 DEF IngestInv

\* The steps of requests that change no row.
LEMMA RequestsKeep ==
    ASSUME IngestInv, NEW r \in Requests,
           \/ \E k \in Articles, c \in Opt(Contents) : EditRead(r, k, c)
           \/ \E k \in Articles : DeleteChunks(r, k)
           \/ Rollback(r) \/ EnqueueLost(r)
    PROVE  IngestInv'
  <1>1. /\ articles \in [Articles -> Article] /\ Grounded
        /\ \A k \in Articles : chunks[k] \subseteq Chunk
    BY DEF IngestInv, TypeOK
  <1>2. ASSUME NEW k \in Articles, NEW c \in Opt(Contents), EditRead(r, k, c)
        PROVE  IngestInv'
    <2> DEFINE q == [phase |-> "edit", article |-> k, content |-> c,
                     seen |-> articles[k], held |-> {}]
    <2>1. q \in Request /\ q.article = k /\ q.seen = articles[k]
      BY <1>1 DEF Request, Opt
    <2>2. /\ articles[k].content \in Contents
          /\ requests' = [requests EXCEPT ![r] = q]
          /\ UNCHANGED <<articles, chunks, jobs>>
      BY <1>1, <1>2 DEF EditRead, Grounded
    <2> HIDE DEF q
    <2>3. QED BY <2>1, <2>2, RequestKeeps
  <1>3. ASSUME NEW k \in Articles, DeleteChunks(r, k)
        PROVE  IngestInv'
    <2> DEFINE q == [phase |-> "delete", article |-> k, content |-> None,
                     seen |-> NoArticle, held |-> chunks[k]]
    <2>1. q \in Request /\ q.article = k /\ q.phase = "delete"
      BY <1>1, RecordTypes DEF Request, Opt
    <2>2. /\ requests' = [requests EXCEPT ![r] = q]
          /\ UNCHANGED <<articles, chunks, jobs>>
      BY <1>3 DEF DeleteChunks
    <2> HIDE DEF q
    <2>3. QED BY <2>1, <2>2, RequestKeeps
  <1>4. CASE Rollback(r) \/ EnqueueLost(r)
    <2>1. /\ requests' = [requests EXCEPT ![r] = NoRequest]
          /\ UNCHANGED <<articles, chunks, jobs>>
      BY <1>4 DEF Rollback, EnqueueLost
    <2>2. QED BY <2>1, RecordTypes, RequestKeeps
  <1>5. QED BY <1>2, <1>3, <1>4

\* The steps that enqueue a job, end it or queue it again.
LEMMA JobsKeep ==
    ASSUME IngestInv, NEW j \in Jobs,
           \/ \E r \in Requests : EnqueueKbEmbedding(r, j)
           \/ ExpireJob(j) \/ EmbedRefused(j) \/ TransientFailure(j)
           \/ AckJob(j) \/ CrashJob(j)
    PROVE  IngestInv'
  <1>1. /\ requests \in [Requests -> Request] /\ jobs \in [Jobs -> Job] /\ Grounded
    BY DEF IngestInv, TypeOK
  <1>2. ASSUME NEW r \in Requests, EnqueueKbEmbedding(r, j)
        PROVE  IngestInv'
    <2> DEFINE b == [state |-> "queued", article |-> requests[r].article,
                     content |-> None, tries |-> 0]
    <2>1. /\ requests[r].article \in Articles
          /\ requests' = [requests EXCEPT ![r] = NoRequest]
          /\ jobs' = [jobs EXCEPT ![j] = b]
          /\ UNCHANGED <<articles, chunks>>
      BY <1>1, <1>2 DEF EnqueueKbEmbedding, Grounded
    <2>2. b \in Job /\ b.state = "queued" /\ b.article \in Articles
      BY <2>1, KnowledgeBaseAssumption DEF Job, Opt
    <2> HIDE DEF b
    <2>3. Grounded'
      BY <1>1, <2>1, <2>2, RecordTypes DEF Grounded, Exists
    <2>4. QED BY <1>1, <2>1, <2>2, <2>3, RecordTypes, JobKeeps
  <1>3. CASE ExpireJob(j) \/ EmbedRefused(j) \/ AckJob(j)
    <2>1. /\ jobs' = [jobs EXCEPT ![j] = NoJob]
          /\ UNCHANGED <<articles, chunks, requests>>
      BY <1>3 DEF ExpireJob, EmbedRefused, AckJob
    <2>2. Grounded'
      BY <1>1, <2>1, RecordTypes DEF Grounded, Exists
    <2>3. QED BY <1>1, <2>1, <2>2, RecordTypes, JobKeeps
  <1>4. CASE TransientFailure(j) \/ CrashJob(j)
    <2> DEFINE b == [state |-> "queued", article |-> jobs[j].article,
                     content |-> None, tries |-> jobs[j].tries]
    <2>1. /\ jobs[j].state # "free"
          /\ jobs' = [jobs EXCEPT ![j] = b]
          /\ UNCHANGED <<articles, chunks, requests>>
      BY <1>4 DEF TransientFailure, CrashJob
    <2>2. b \in Job /\ b.state = "queued" /\ b.article \in Articles
      BY <1>1, <2>1 DEF Job, Opt, Grounded
    <2> HIDE DEF b
    <2>3. Grounded'
      BY <1>1, <2>1, <2>2 DEF Grounded, Exists
    <2>4. QED BY <1>1, <2>1, <2>2, <2>3, JobKeeps
  <1>5. QED BY <1>2, <1>3, <1>4

LEMMA IngestInit ==
    ASSUME Init
    PROVE  IngestInv
  <1>1. /\ articles = [k \in Articles |-> NoArticle]
        /\ chunks = [k \in Articles |-> {}]
        /\ requests = [r \in Requests |-> NoRequest]
        /\ jobs = [j \in Jobs |-> NoJob]
    BY DEF Init
  <1>2. TypeOK
    BY <1>1, RecordTypes DEF TypeOK
  <1>3. Grounded /\ EmbedsUnderLock /\ OneText /\ NoOrphanChunks
    BY <1>1, RecordTypes DEF Grounded, EmbedsUnderLock, OneText, NoOrphanChunks, Exists
  <1>4. QED BY <1>2, <1>3 DEF IngestInv

LEMMA IngestStep ==
    ASSUME IngestInv, [Next]_vars
    PROVE  IngestInv'
  <1>1. ASSUME NEW r \in Requests, NEW k \in Articles, NEW c \in Contents,
               CreateKnowledgeBase(r, k, c)
        PROVE  IngestInv'
    BY <1>1, Creates
  <1>2. ASSUME NEW r \in Requests, NEW k \in Articles, NEW c \in Opt(Contents),
               EditRead(r, k, c)
        PROVE  IngestInv'
    BY <1>2, RequestsKeep
  <1>3. ASSUME NEW r \in Requests, NEW k \in Articles, DeleteChunks(r, k)
        PROVE  IngestInv'
    BY <1>3, RequestsKeep
  <1>4. ASSUME NEW r \in Requests, EditCommit(r)
        PROVE  IngestInv'
    BY <1>4, EditCommits
  <1>5. ASSUME NEW r \in Requests, DeleteCommit(r)
        PROVE  IngestInv'
    BY <1>5, DeleteCommits
  <1>6. ASSUME NEW r \in Requests, Rollback(r) \/ EnqueueLost(r)
        PROVE  IngestInv'
    BY <1>6, RequestsKeep
  <1>7. ASSUME NEW r \in Requests, NEW j \in Jobs, EnqueueKbEmbedding(r, j)
        PROVE  IngestInv'
    BY <1>7, JobsKeep
  <1>8. ASSUME NEW j \in Jobs, StartJob(j)
        PROVE  IngestInv'
    BY <1>8, Starts
  <1>9. ASSUME NEW j \in Jobs, Embed(j)
        PROVE  IngestInv'
    BY <1>9, Embeds
  <1>10. ASSUME NEW j \in Jobs, PermanentFailure(j)
         PROVE  IngestInv'
    BY <1>10, Fails
  <1>11. ASSUME NEW j \in Jobs,
                \/ ExpireJob(j) \/ EmbedRefused(j) \/ TransientFailure(j)
                \/ AckJob(j) \/ CrashJob(j)
         PROVE  IngestInv'
    BY <1>11, JobsKeep
  <1>12. CASE UNCHANGED vars
    BY <1>12 DEF vars, IngestInv, TypeOK, Grounded, EmbedsUnderLock, OneText,
                 NoOrphanChunks, Exists
  <1>13. QED
    BY <1>1, <1>2, <1>3, <1>4, <1>5, <1>6, <1>7, <1>8, <1>9, <1>10, <1>11, <1>12
    DEF Next

-----------------------------------------------------------------------------

\* Articles, chunks, requests and jobs keep the shape of their tables and queue.
THEOREM IngestTypes == Spec => []TypeOK
  <1>1. IngestInv => TypeOK
    BY DEF IngestInv
  <1>2. QED BY <1>1, IngestInit, IngestStep, PTL DEF Spec

\* (workers/rag.py, embed_knowledge_document) Retrieval never cites a mixture of two
\* versions of an article, however many jobs, edits, deletes and crashes meet.
THEOREM ChunksNeverMix == Spec => []NoMixedChunks
  <1>1. IngestInv => NoMixedChunks
    BY ChunksOfText DEF IngestInv, OneText, NoMixedChunks
  <1>2. QED BY <1>1, IngestInit, IngestStep, PTL DEF Spec

\* (services/knowledge_base_service.py, delete_knowledge_base) A delete leaves no
\* chunk behind, not even those of a job that commits between its two statements.
THEOREM NoChunkIsOrphaned == Spec => []NoOrphanChunks
  <1>1. IngestInv => NoOrphanChunks
    BY DEF IngestInv
  <1>2. QED BY <1>1, IngestInit, IngestStep, PTL DEF Spec

\* (workers/rag.py, embed_knowledge_document) Nor is an article ever indexed in part:
\* it has all chunks of one text or none, although no job deletes the chunks it finds.
THEOREM ChunksAreWhole == Spec => []OneText
  <1>1. IngestInv => OneText
    BY DEF IngestInv
  <1>2. QED BY <1>1, IngestInit, IngestStep, PTL DEF Spec

\* (workers/rag.py, get_or_404(for_update=True)) What a running job embeds is the text
\* of its article until it commits: no edit, delete or second job gets past the lock.
THEOREM LockGuardsTheText == Spec => []EmbedsUnderLock
  <1>1. IngestInv => EmbedsUnderLock
    BY DEF IngestInv
  <1>2. QED BY <1>1, IngestInit, IngestStep, PTL DEF Spec


-----------------------------------------------------------------------------
(* Rollup: arithmetic of days, and sums over finite sets. *)

\* Quotient and remainder by a positive number.
LEMMA DivMod ==
    ASSUME NEW x \in Int, NEW L \in Nat \ {0}
    PROVE  /\ x \div L \in Int /\ x % L \in 0..(L - 1)
           /\ x = L * (x \div L) + (x % L)
  OBVIOUS

\* Multiples of a positive number are at least that far apart.
LEMMA MulLess ==
    ASSUME NEW L \in Nat \ {0}, NEW p \in Int, NEW q \in Int, p < q
    PROVE  L * p + L <= L * q
  <1>1. \A n \in Nat : L * n >= 0
    OBVIOUS
  <1>2. (q - p) - 1 \in Nat 
    OBVIOUS
  <1>3. L * ((q - p) - 1) >= 0
    BY <1>1, <1>2
  <1>4. L * ((q - p) - 1) = L * q - L * p - L
    OBVIOUS
  <1>5. L * q \in Int /\ L * p \in Int
    OBVIOUS
  <1>6. QED BY <1>3, <1>4, <1>5

\* Division by a positive number is monotonic.
LEMMA DivMono ==
    ASSUME NEW x \in Int, NEW y \in Int, NEW L \in Nat \ {0}, x <= y
    PROVE  x \div L <= y \div L
  <1> DEFINE p == x \div L
             q == y \div L
  <1>1. p \in Int /\ q \in Int /\ L * p \in Int /\ L * q \in Int
    BY DivMod
  <1>2. L * p <= x /\ y < L * q + L
    BY DivMod
  <1>3. SUFFICES ASSUME q < p PROVE FALSE
    BY <1>1
  <1> HIDE DEF p, q
  <1>4. L * q + L <= L * p
    BY <1>1, <1>3, MulLess
  <1>5. QED BY <1>1, <1>2, <1>4

\* The quotient is the number whose multiple is the last one not above.
LEMMA DivIs ==
    ASSUME NEW x \in Int, NEW L \in Nat \ {0}, NEW q \in Int, L * q <= x, x < L * q + L
    PROVE  x \div L = q
  <1> DEFINE p == x \div L
  <1>1. p \in Int /\ L * p \in Int /\ L * q \in Int
    BY DivMod
  <1>2. L * p <= x /\ x < L * p + L
    BY DivMod
  <1> HIDE DEF p
  <1>3. ~(p < q)
    BY <1>1, <1>2, MulLess
  <1>4. ~(q < p)
    BY <1>1, <1>2, MulLess
  <1>5. QED BY <1>1, <1>3, <1>4 DEF p

\* A family of finite sets that is not empty has a set no other is part of.
LEMMA MinimalSubset ==
    ASSUME NEW S, IsFiniteSet(S), NEW W \in SUBSET SUBSET S, W # {}
    PROVE  \E s \in W : \A x \in s : s \ {x} \notin W
  <1> DEFINE R == StrictSubsetOrdering(S)
  <1>1. W \subseteq FiniteSubsetsOf(S)
    BY FS_Subset DEF FiniteSubsetsOf
  <1>2. IsWellFoundedOn(R, FiniteSubsetsOf(S))
    BY FS_StrictSubsetOrderingWellFounded
  <1>3. PICK s \in W : \A r \in W : <<r, s>> \notin R
    <2> HIDE DEF R
    <2>1. QED BY <1>1, <1>2, WFMin
  <1>4. ASSUME NEW x \in s, s \ {x} \in W
        PROVE  FALSE
    <2>1. <<s \ {x}, s>> \in R
      BY <1>4 DEF StrictSubsetOrdering
    <2>2. QED BY <1>3, <1>4, <2>1
  <1>5. QED BY <1>4

\* The element the library takes next.
Pick(s) == CHOOSE x \in s : TRUE

\* g has the sum of f over every subset of S.
Sums(f, S, g) ==
    g = [s \in SUBSET S |-> IF s = {} THEN 0 ELSE f[Pick(s)] + g[s \ {Pick(s)}]]

\* What SumFunction is by its definition.
LEMMA SumIs ==
    ASSUME NEW f
    PROVE  SumFunction(f) = (CHOOSE g : Sums(f, DOMAIN f, g))[DOMAIN f]
  BY DEF SumFunction, SumFunctionOnSet, FoldFunctionOnSet, MapThenFoldSet, Sums, Pick

\* So far only over those of n elements at most.
SumsUpTo(f, S, n, g) ==
    \A s \in SUBSET S : Cardinality(s) <= n =>
        g[s] = IF s = {} THEN 0 ELSE f[Pick(s)] + g[s \ {Pick(s)}]

\* A set of numbers that is not empty has a least one.
LEMMA LeastNatural ==
    ASSUME NEW S \in SUBSET Nat, S # {}
    PROVE  \E x \in S : \A y \in S : x <= y
  <1> DEFINE T == {S \cap (0..i) : i \in S}
             R == StrictSubsetOrdering(S)
  <1>1. \A i \in S : IsFiniteSet(S \cap (0..i))
    <2> SUFFICES ASSUME NEW i \in S
                 PROVE  IsFiniteSet(S \cap (0..i))
      OBVIOUS
    <2>1. IsFiniteSet(0..i)
      BY FS_Interval
    <2>2. QED BY <2>1, FS_Subset
  <1>2. T \subseteq FiniteSubsetsOf(S) /\ T # {}
    BY <1>1 DEF FiniteSubsetsOf
  <1>3. IsWellFoundedOn(R, FiniteSubsetsOf(S))
    BY FS_StrictSubsetOrderingWellFounded
  <1>4. PICK X \in T : \A Y \in T : <<Y, X>> \notin R
    <2> HIDE DEF T, R
    <2>1. QED BY <1>2, <1>3, WFMin
  <1>5. PICK i \in S : X = S \cap (0..i)
    BY <1>4
  <1>6. ASSUME NEW j \in S, ~(i <= j)
        PROVE  FALSE
    <2> DEFINE Y == S \cap (0..j)
    <2>1. Y \in T /\ i \notin Y /\ i \in X /\ Y \subseteq X
      BY <1>5, <1>6
    <2>2. <<Y, X>> \in R
      BY <1>5, <2>1 DEF StrictSubsetOrdering
    <2>3. QED BY <1>4, <2>1, <2>2
  <1>7. QED BY <1>6

\* There is a function that sums over every subset: by the least number of elements
\* for which there would be none.
LEMMA SumExists ==
    ASSUME NEW f, NEW S, IsFiniteSet(S)
    PROVE  \E g : Sums(f, S, g)
  <1> DEFINE T == {n \in Nat : ~\E g : SumsUpTo(f, S, n, g)}
  <1>0. \A s \in SUBSET S : Cardinality(s) \in Nat /\ Cardinality(s) <= Cardinality(S) /\ IsFiniteSet(s)
    BY FS_Subset, FS_CardinalityType
  <1>1. ASSUME T # {} PROVE FALSE
    <2>1. PICK n \in T : \A m \in T : n <= m
      <3>1. T \in SUBSET Nat
        OBVIOUS
      <3>2. QED BY <1>1, <3>1, LeastNatural
    <2>2. ~\E g : SumsUpTo(f, S, n, g) /\ n \in Nat
      BY <2>1
    <2>3. n # 0
      <3> DEFINE g == [s \in SUBSET S |-> 0]
      <3>1. \A s \in SUBSET S : Cardinality(s) <= 0 => s = {}
        BY <1>0, FS_EmptySet
      <3>2. SumsUpTo(f, S, 0, g)
        BY <3>1 DEF SumsUpTo
      <3>3. QED BY <2>2, <3>2
    <2>4. n - 1 \in Nat /\ n - 1 \notin T
      BY <2>1, <2>2, <2>3
    <2>5. PICK g : SumsUpTo(f, S, n - 1, g)
      BY <2>4
    <2> DEFINE h == [s \in SUBSET S |-> IF Cardinality(s) <= n - 1 THEN g[s]
                                        ELSE f[Pick(s)] + g[s \ {Pick(s)}]]
    <2>6. ASSUME NEW s \in SUBSET S, Cardinality(s) <= n
          PROVE  h[s] = IF s = {} THEN 0 ELSE f[Pick(s)] + h[s \ {Pick(s)}]
      <3>1. CASE s = {}
        <4>1. Cardinality(s) <= n - 1
          BY <3>1, <2>4, FS_EmptySet
        <4>2. h[s] = g[s]
          BY <4>1
        <4>3. QED BY <2>5, <3>1, <4>1, <4>2 DEF SumsUpTo
      <3>2. CASE s # {}
        <4> DEFINE r == s \ {Pick(s)}
        <4>1. Pick(s) \in s
          BY <3>2 DEF Pick
        <4>2. r \in SUBSET S /\ Cardinality(r) = Cardinality(s) - 1
          BY <1>0, <4>1, FS_RemoveElement
        <4>3. Cardinality(r) <= n - 1
          BY <1>0, <2>2, <2>4, <2>6, <4>2
        <4>4. h[r] = g[r]
          BY <4>2, <4>3
        <4>5. h[s] = f[Pick(s)] + g[r]
          <5>1. CASE Cardinality(s) <= n - 1
            BY <2>5, <3>2, <5>1 DEF SumsUpTo
          <5>2. CASE ~(Cardinality(s) <= n - 1)
            BY <5>2
          <5>3. QED BY <5>1, <5>2
        <4> HIDE DEF r, h
        <4>6. QED BY <3>2, <4>4, <4>5 DEF r
      <3>3. QED BY <3>1, <3>2
    <2>7. SumsUpTo(f, S, n, h)
      <3> HIDE DEF h
      <3>1. QED BY <2>6 DEF SumsUpTo
    <2>8. QED BY <2>2, <2>7
  <1>2. Cardinality(S) \in Nat
    BY FS_CardinalityType
  <1>3. PICK g : SumsUpTo(f, S, Cardinality(S), g)
    BY <1>1, <1>2
  <1> DEFINE h == [s \in SUBSET S |-> g[s]]
  <1>4. ASSUME NEW s \in SUBSET S
        PROVE  h[s] = IF s = {} THEN 0 ELSE f[Pick(s)] + h[s \ {Pick(s)}]
    <2>1. g[s] = IF s = {} THEN 0 ELSE f[Pick(s)] + g[s \ {Pick(s)}]
      BY <1>0, <1>3 DEF SumsUpTo
    <2>2. s \ {Pick(s)} \in SUBSET S
      OBVIOUS
    <2>3. QED BY <2>1, <2>2
  <1>5. h = [s \in SUBSET S |-> IF s = {} THEN 0 ELSE f[Pick(s)] + h[s \ {Pick(s)}]]
    BY <1>4
  <1>6. QED BY <1>5 DEF Sums

\* The sum of a function over a finite set, and the count of disjoint sets.
LEMMA SumCounts ==
    ASSUME NEW S, IsFiniteSet(S), NEW f, DOMAIN f = S, \A x \in S : f[x] \in Nat,
           NEW U, IsFiniteSet(U), NEW C, \A x \in S : C[x] \subseteq U,
           \A x \in S : f[x] <= Cardinality(C[x]),
           \A x, y \in S : x # y => C[x] \cap C[y] = {}
    PROVE  /\ SumFunction(f) \in Nat
           /\ SumFunction(f) <= Cardinality(UNION {C[x] : x \in S})
           /\ (\A x \in S : f[x] = Cardinality(C[x]))
                  => SumFunction(f) = Cardinality(UNION {C[x] : x \in S})
  <1> DEFINE All(s) == UNION {C[x] : x \in s}
             Exact == \A x \in S : f[x] = Cardinality(C[x])
  <1>1. PICK g : SumFunction(f) = g[S] /\ Sums(f, S, g)
    BY SumIs, SumExists
  <1>2. \A s \in SUBSET S : g[s] = IF s = {} THEN 0 ELSE f[Pick(s)] + g[s \ {Pick(s)}]
    BY <1>1 DEF Sums
  <1> DEFINE Good(s) == /\ g[s] \in Nat /\ g[s] <= Cardinality(All(s))
                        /\ Exact => g[s] = Cardinality(All(s))
             W == {s \in SUBSET S : ~Good(s)}
  <1>3. ASSUME W # {} PROVE FALSE
    <2>1. PICK s \in W : \A x \in s : s \ {x} \notin W
      <3>1. W \in SUBSET SUBSET S
        OBVIOUS
      <3> HIDE DEF W
      <3>2. QED BY <1>3, <3>1, MinimalSubset
    <2>2. s \in SUBSET S /\ ~Good(s)
      BY <2>1
    <2>3. s # {}
      <3>1. ASSUME s = {} PROVE Good(s)
        <4>1. g[s] = 0
          BY <1>2, <3>1
        <4>2. All(s) = {}
          BY <3>1
        <4>3. Cardinality(All(s)) = 0
          BY <4>2, FS_EmptySet
        <4>4. QED BY <4>1, <4>3
      <3> HIDE DEF Good
      <3>2. QED BY <2>2, <3>1
    <2> DEFINE x == Pick(s)
               r == s \ {x}
    <2>4. x \in s
      BY <2>3 DEF Pick
    <2>5. r \in SUBSET S /\ Good(r)
      <3> HIDE DEF Good
      <3>1. QED BY <2>1, <2>2, <2>4
    <2>6. g[s] = f[x] + g[r]
      BY <1>2, <2>2, <2>3
    <2>7. /\ IsFiniteSet(C[x]) /\ IsFiniteSet(All(r))
      BY <2>2, <2>4, <2>5, FS_Subset
    <2>8. All(s) = C[x] \cup All(r) /\ C[x] \cap All(r) = {}
      <3>1. \A y \in r : y \in S /\ y # x /\ C[x] \cap C[y] = {}
        BY <2>2, <2>4
      <3>2. All(s) = C[x] \cup All(r)
        BY <2>4
      <3>3. C[x] \cap All(r) = {}
        BY <3>1
      <3>4. QED BY <3>2, <3>3
    <2> HIDE DEF All, x, r
    <2>9. Cardinality(All(s)) = Cardinality(C[x]) + Cardinality(All(r)) - Cardinality({})
      BY <2>7, <2>8, FS_Union
    <2>10. /\ Cardinality(All(s)) = Cardinality(C[x]) + Cardinality(All(r))
           /\ Cardinality(C[x]) \in Nat /\ Cardinality(All(r)) \in Nat
      BY <2>7, <2>9, FS_EmptySet, FS_CardinalityType
    <2>11. f[x] \in Nat /\ f[x] <= Cardinality(C[x]) /\ (Exact => f[x] = Cardinality(C[x]))
      BY <2>2, <2>4
    <2> HIDE DEF Exact
    <2>12. Good(s)
      BY <2>5, <2>6, <2>10, <2>11
    <2>13. QED BY <2>2, <2>12
  <1>4. Good(S)
    <2> HIDE DEF Good
    <2>1. QED BY <1>3
  <1>5. QED BY <1>1, <1>4

\* The sum of natural numbers is one.
LEMMA SumIsNatural ==
    ASSUME NEW S, IsFiniteSet(S), NEW f, DOMAIN f = S, \A x \in S : f[x] \in Nat
    PROVE  SumFunction(f) \in Nat
  <1>1. PICK g : SumFunction(f) = g[S] /\ Sums(f, S, g)
    BY SumIs, SumExists
  <1>2. \A s \in SUBSET S : g[s] = IF s = {} THEN 0 ELSE f[Pick(s)] + g[s \ {Pick(s)}]
    BY <1>1 DEF Sums
  <1> DEFINE W == {s \in SUBSET S : g[s] \notin Nat}
  <1>3. ASSUME W # {} PROVE FALSE
    <2>1. PICK s \in W : \A x \in s : s \ {x} \notin W
      <3>1. W \in SUBSET SUBSET S
        OBVIOUS
      <3> HIDE DEF W
      <3>2. QED BY <1>3, <3>1, MinimalSubset
    <2>2. s # {}
      BY <1>2, <2>1
    <2>3. Pick(s) \in s
      BY <2>2 DEF Pick
    <2>4. g[s \ {Pick(s)}] \in Nat
      BY <2>1, <2>3
    <2>5. QED BY <1>2, <2>2, <2>3, <2>4
  <1>4. QED BY <1>1, <1>3

\* A metric depends on the facts and the offset, and on nothing else.
LEMMA MetricStays ==
    ASSUME NEW k, NEW d, UNCHANGED <<offset, facts>>
    PROVE Metric(k, d)' = Metric(k, d)
  <1>1. /\ tickets' = tickets /\ resolved' = resolved /\ chats' = chats
        /\ labels' = labels /\ drafts' = drafts /\ offset' = offset
    BY DEF facts
  <1>2. TicketsMetric(k, d)' = TicketsMetric(k, d)
    BY <1>1 DEF TicketsMetric, TicketsCreated, TicketsOpen, OnDay, DayStart, DayEnd, Count
  <1>3. SlaMetric(k, d)' = SlaMetric(k, d)
    <2>1. TicketsResolved(d)' = TicketsResolved(d)
      BY <1>1 DEF TicketsResolved, ResolvedOn, OnDay, DayStart, DayEnd, Count
    <2>2. Compliance(d)' = Compliance(d)
      BY <1>1 DEF Compliance, ResolvedOn, OnDay, DayStart, DayEnd, Ratio, Compliant
    <2>3. AvgResolution(d)' = AvgResolution(d)
      BY <1>1 DEF AvgResolution, ResolvedOn, OnDay, DayStart, DayEnd, Ratio, Hours, NotEscalated
    <2>4. QED BY <2>1, <2>2, <2>3 DEF SlaMetric
  <1>4. ChatMetric(k, d)' = ChatMetric(k, d)
    BY <1>1 DEF ChatMetric, SessionsStarted, EscalationRate, ToTicketRate, Started, OnDay,
                DayStart, DayEnd, Count, Ratio
  <1>5. ClassifierMetric(k, d)' = ClassifierMetric(k, d)
    BY <1>1 DEF ClassifierMetric, Accuracy, FallbackRate, Labelled, OnDay, DayStart, DayEnd, Ratio
  <1>6. UsageRate(d)' = UsageRate(d)
    BY <1>1 DEF UsageRate, OnDay, DayStart, DayEnd, Ratio
  <1>7. QED BY <1>2, <1>3, <1>4, <1>5, <1>6 DEF Metric

-----------------------------------------------------------------------------
(* Rollup: the facts and the metrics. *)

\* The rows of the facts.
TicketRow == [status: {"none", "open", "resolved", "closed", "escalated"},
              created: Nullable(Instants), closed: Nullable(Instants), due: Nullable(Instants)]

ChatRow == [created: Nullable(Instants), escalated: BOOLEAN, ticket: Nullable(Tickets)]

LabelRow == [created: Nullable(Instants), corrected: BOOLEAN, fallback: BOOLEAN]

DraftRow == [created: Nullable(Instants), used: SUBSET Instants]

\* The facts keep their types.
FactTypes ==
    /\ tickets \in [Tickets -> TicketRow]
    /\ resolved \in Seq(Tickets \X Instants)
    /\ chats \in [Chats -> ChatRow]
    /\ labels \in [Tickets -> LabelRow]
    /\ drafts \in [Suggested -> DraftRow]

\* A ticket is resolved after it was created.
EventsFollow ==
    \A e \in DOMAIN resolved :
        LET created == tickets[resolved[e][1]].created
        IN  created \in Instants /\ created <= resolved[e][2]

\* What the assumptions say of the constants, in the form the proofs use.
LEMMA RollupConstants ==
    /\ DayLen \in Nat /\ DayLen > 0 /\ Lookback \in Nat /\ Lookback > 0
    /\ Instants \subseteq Nat /\ Null \notin Instants /\ Null \notin Nat \X Nat /\ Null \notin Tickets
    /\ Offsets \subseteq Int
    /\ Dues \subseteq Instants /\ 0 \in Instants
    /\ IsFiniteSet(Tickets) /\ IsFiniteSet(Chats) /\ IsFiniteSet(Suggested)
  <1>1. DayLen \in Nat /\ DayLen > 0 /\ Lookback \in Nat /\ Lookback > 0 /\ MaxDay \in Nat
    BY RollupAssumption
  <1>2. DayLen * MaxDay \in Nat
    BY <1>1
  <1>3. Instants \subseteq Nat /\ 0 \in Instants
    BY <1>2 DEF Instants
  <1>4. Offsets \subseteq Int
    BY RollupAssumption, <1>1
  <1>5. Null \notin Int /\ Null \notin Tickets /\ Null \notin Nat \X Nat
    BY RollupAssumption
  <1>6. Dues \subseteq Instants /\ IsFiniteSet(Tickets) /\ IsFiniteSet(Chats) /\ IsFiniteSet(Suggested)
    BY RollupAssumption
  <1>7. Null \notin Instants
    <2>1. \A n \in Instants : n \in Int
      BY <1>3
    <2>2. QED BY <1>5, <2>1, Zenon
  <1>8. QED BY <1>1, <1>3, <1>4, <1>5, <1>6, <1>7

\* The value of a metric is a pair, or there is none.
LEMMA RatioType ==
    ASSUME NEW n \in Nat, NEW m \in Nat
    PROVE  Ratio(n, m) \in Nullable(Nat \X Nat) /\ Count(n) \in Nat \X Nat
  BY DEF Ratio, Count, Nullable

\* The tickets created on local day d.
CreatedOn(d) == {t \in Tickets : OnDay(tickets[t].created, d)}

\* So is that of each of them; the number of tickets created is always defined.
LEMMA MetricType ==
    ASSUME FactTypes, EventsFollow, NEW k, NEW d, k \in UNION {Keys[f] : f \in DOMAIN Keys}
    PROVE  /\ Metric(k, d) \in Nullable(Nat \X Nat)
           /\ Metric("tickets_created", d) = <<Cardinality(CreatedOn(d)), 1>>
           /\ Metric("tickets_created", d) # Null
  <1>1. \A S \in SUBSET Tickets : Cardinality(S) \in Nat
    BY RollupConstants, FS_Subset, FS_CardinalityType
  <1>2. \A S \in SUBSET Chats : Cardinality(S) \in Nat
    BY RollupConstants, FS_Subset, FS_CardinalityType
  <1>3. \A S \in SUBSET Suggested : Cardinality(S) \in Nat
    BY RollupConstants, FS_Subset, FS_CardinalityType
  <1>4. IsFiniteSet(DOMAIN resolved)
    <2>1. Len(resolved) \in Nat /\ DOMAIN resolved = 1..Len(resolved)
      BY DEF FactTypes
    <2>2. QED BY <2>1, FS_Interval
  <1>5. \A S \in SUBSET DOMAIN resolved : IsFiniteSet(S) /\ Cardinality(S) \in Nat
    BY <1>4, FS_Subset, FS_CardinalityType
  <1>6. TicketsMetric(k, d) \in Nat \X Nat
    <2>1. TicketsCreated(d) \in Nat \X Nat
      BY <1>1, RatioType DEF TicketsCreated
    <2>2. TicketsOpen(d) \in Nat \X Nat
      <3>1. {t \in Tickets :
                /\ tickets[t].created # Null /\ tickets[t].created < DayEnd(d)
                /\ tickets[t].closed = Null \/ tickets[t].closed >= DayEnd(d)} \in SUBSET Tickets
        OBVIOUS
      <3>2. QED BY <1>1, <3>1, RatioType DEF TicketsOpen
    <2>3. QED BY <2>1, <2>2 DEF TicketsMetric
  <1>7. /\ TicketsResolved(d) \in Nat \X Nat /\ AvgResolution(d) \in Nullable(Nat \X Nat)
        /\ Compliance(d) \in Nullable(Nat \X Nat)
    <2>1. \A T : ResolvedOn(d, T) \in SUBSET DOMAIN resolved
      BY DEF ResolvedOn
    <2>2. TicketsResolved(d) \in Nat \X Nat
      BY <1>5, <2>1, RatioType DEF TicketsResolved
    <2>3. Compliance(d) \in Nullable(Nat \X Nat)
      <3> DEFINE E == ResolvedOn(d, {t \in Tickets : tickets[t].due # Null})
      <3>1. E \in SUBSET DOMAIN resolved /\ {e \in E : Compliant(e)} \in SUBSET DOMAIN resolved
        BY <2>1
      <3>2. Compliance(d) = Ratio(Cardinality({e \in E : Compliant(e)}), Cardinality(E))
        BY DEF Compliance
      <3> HIDE DEF E
      <3>3. QED BY <1>5, <3>1, <3>2, RatioType
    <2>4. AvgResolution(d) \in Nullable(Nat \X Nat)
      <3> DEFINE E == ResolvedOn(d, NotEscalated)
                 f == [e \in E |-> Hours(e)]
      <3>1. E \in SUBSET DOMAIN resolved
        BY <2>1
      <3>2. ASSUME NEW e \in E
            PROVE  Hours(e) \in Nat
        <4>1. e \in DOMAIN resolved /\ resolved[e] \in Tickets \X Instants
          BY <3>1 DEF FactTypes
        <4>2. resolved[e][2] \in Nat
          BY <4>1, RollupConstants
        <4>3. /\ tickets[resolved[e][1]].created \in Nat
              /\ tickets[resolved[e][1]].created <= resolved[e][2]
          BY <4>1, RollupConstants DEF EventsFollow
        <4>4. QED BY <4>2, <4>3 DEF Hours
      <3>3. SumFunction(f) \in Nat
        <4>1. DOMAIN f = E /\ \A e \in E : f[e] \in Nat
          BY <3>2
        <4> HIDE DEF f
        <4>2. QED BY <1>5, <3>1, <4>1, SumIsNatural
      <3>4. AvgResolution(d) = Ratio(SumFunction(f), Cardinality(E))
        BY DEF AvgResolution
      <3> HIDE DEF E, f
      <3>5. QED BY <1>5, <3>1, <3>3, <3>4, RatioType
    <2>5. QED BY <2>2, <2>3, <2>4
  <1>8. /\ SessionsStarted(d) \in Nat \X Nat /\ EscalationRate(d) \in Nullable(Nat \X Nat)
        /\ ToTicketRate(d) \in Nullable(Nat \X Nat)
    <2>1. /\ Started(d) \in SUBSET Chats
          /\ {c \in Started(d) : chats[c].escalated} \in SUBSET Chats
          /\ {c \in Started(d) : chats[c].ticket # Null} \in SUBSET Chats
      BY DEF Started
    <2>2. QED BY <1>2, <2>1, RatioType DEF SessionsStarted, EscalationRate, ToTicketRate
  <1>9. Accuracy(d) \in Nullable(Nat \X Nat) /\ FallbackRate(d) \in Nullable(Nat \X Nat)
    <2>1. /\ Labelled(d) \in SUBSET Tickets
          /\ {t \in Labelled(d) : ~labels[t].corrected} \in SUBSET Tickets
          /\ {t \in Labelled(d) : labels[t].fallback} \in SUBSET Tickets
      BY DEF Labelled
    <2>2. QED BY <1>1, <2>1, RatioType DEF Accuracy, FallbackRate
  <1>10. UsageRate(d) \in Nullable(Nat \X Nat)
    BY <1>3, RatioType DEF UsageRate
  <1>11. Metric(k, d) \in Nullable(Nat \X Nat)
    BY <1>6, <1>7, <1>8, <1>9, <1>10
       DEF Metric, SlaMetric, ChatMetric, ClassifierMetric, Keys, Nullable
  <1>12. Metric("tickets_created", d) = TicketsCreated(d)
    BY DEF Metric, TicketsMetric, Keys
  <1>13. Cardinality({t \in Tickets : OnDay(tickets[t].created, d)}) \in Nat
    BY <1>1
  <1>14. TicketsCreated(d) \in Nat \X Nat
    BY <1>13, RatioType DEF TicketsCreated
  <1>15. QED BY <1>11, <1>12, <1>14, RollupConstants DEF TicketsCreated, Count, CreatedOn
-----------------------------------------------------------------------------

\* A row is replaced by one of its type.
LEMMA RowReplaced ==
    ASSUME NEW S, NEW R, NEW f \in [S -> R], NEW x \in S, NEW r \in R
    PROVE  /\ [f EXCEPT ![x] = r] \in [S -> R]
           /\ [f EXCEPT ![x] = r][x] = r
           /\ \A y \in S : y # x => [f EXCEPT ![x] = r][y] = f[y]
  OBVIOUS

\* What every commit of the application does.
Commits ==
    /\ FactTypes' /\ EventsFollow'
    /\ \A t \in Tickets : tickets[t].created # Null => tickets'[t].created = tickets[t].created
    /\ \E i : Change(i)

\* A step that leaves the events alone and no ticket's creation changes once it is set.
LEMMA EventsStay ==
    ASSUME FactTypes, EventsFollow, resolved' = resolved,
           \A t \in Tickets : tickets[t].created # Null => tickets'[t].created = tickets[t].created
    PROVE  EventsFollow'
  <1>1. ASSUME NEW e \in DOMAIN resolved
        PROVE  tickets'[resolved[e][1]].created = tickets[resolved[e][1]].created
    <2>1. resolved[e] \in Tickets \X Instants
      BY DEF FactTypes
    <2>2. tickets[resolved[e][1]].created # Null
      BY RollupConstants DEF EventsFollow
    <2>3. QED BY <2>1, <2>2
  <1>2. QED BY <1>1 DEF EventsFollow

\* Each commit of the application, one by one.
LEMMA CreateTicketCommits ==
    ASSUME FactTypes, EventsFollow, NEW t \in Tickets, NEW i \in Instants, CreateTicket(t, i)
    PROVE  Commits
  <1>1. /\ tickets[t].created = Null /\ UNCHANGED <<resolved, chats, labels, drafts>> /\ Change(i)
        /\ tickets' = [tickets EXCEPT ![t] = [status |-> "open", created |-> i, closed |-> Null,
                                              due |-> Null]]
    BY DEF CreateTicket
  <1>2. FactTypes'
    BY <1>1 DEF FactTypes, TicketRow, ChatRow, Nullable
  <1>3. \A u \in Tickets : tickets[u].created # Null => tickets'[u].created = tickets[u].created
    BY <1>1 DEF FactTypes
  <1>4. EventsFollow'
    BY <1>1, <1>3, EventsStay
  <1>5. QED BY <1>1, <1>2, <1>3, <1>4 DEF Commits

LEMMA PatchStatusCommits ==
    ASSUME FactTypes, EventsFollow, NEW t \in Tickets, NEW i \in Instants,
           NEW st \in {"open", "resolved", "closed"}, PatchStatus(t, st, i)
    PROVE  Commits
  <1>1. /\ tickets[t].created # Null /\ tickets[t].created <= i
        /\ UNCHANGED <<chats, labels, drafts>> /\ Change(i)
        /\ tickets' = [tickets EXCEPT ![t].status = st,
                                      ![t].closed = IF st = "closed" THEN i ELSE Null]
        /\ resolved' = resolved \/ resolved' = Append(resolved, <<t, i>>)
    BY DEF PatchStatus
  <1>2. /\ tickets' \in [Tickets -> TicketRow]
        /\ \A u \in Tickets : tickets'[u].created = tickets[u].created
    <2> DEFINE r == [tickets[t] EXCEPT !.status = st, !.closed = IF st = "closed" THEN i ELSE Null]
    <2>1. r \in TicketRow /\ r.created = tickets[t].created
      BY DEF FactTypes, TicketRow, Nullable
    <2>2. tickets' = [tickets EXCEPT ![t] = r]
      BY <1>1
    <2> HIDE DEF r
    <2>3. QED BY <2>1, <2>2, RowReplaced DEF FactTypes
  <1>3. CASE resolved' = resolved
    <2>1. FactTypes'
      BY <1>1, <1>2, <1>3 DEF FactTypes
    <2>2. EventsFollow'
      BY <1>2, <1>3, EventsStay
    <2>3. QED BY <1>1, <1>2, <2>1, <2>2 DEF Commits
  <1>4. CASE resolved' = Append(resolved, <<t, i>>)
    <2> DEFINE n == Len(resolved)
    <2>1. resolved \in Seq(Tickets \X Instants) /\ n \in Nat /\ DOMAIN resolved = 1..n
      BY DEF FactTypes
    <2>2. /\ resolved' \in Seq(Tickets \X Instants) /\ DOMAIN resolved' = 1..(n + 1)
          /\ \A e \in 1..n : resolved'[e] = resolved[e] /\ resolved'[n + 1] = <<t, i>>
      BY <1>4, <2>1
    <2>3. resolved'[n + 1] = <<t, i>>
      BY <1>4, <2>1
    <2>4. FactTypes'
      BY <1>1, <1>2, <2>2 DEF FactTypes
    <2>5. ASSUME NEW e \in DOMAIN resolved'
          PROVE  LET created == tickets'[resolved'[e][1]].created
                 IN  created \in Instants /\ created <= resolved'[e][2]
      <3>1. CASE e \in 1..n
        <4>1. resolved'[e] = resolved[e] /\ resolved[e][1] \in Tickets
          BY <2>1, <2>2, <3>1
        <4>2. /\ tickets[resolved[e][1]].created \in Instants
              /\ tickets[resolved[e][1]].created <= resolved[e][2]
          BY <2>1, <3>1 DEF EventsFollow
        <4>3. QED BY <1>2, <4>1, <4>2
      <3>2. CASE e = n + 1
        <4>1. tickets'[t].created \in Instants /\ tickets'[t].created <= i
          BY <1>1, <1>2 DEF FactTypes, TicketRow, Nullable
        <4>2. QED BY <2>3, <3>2, <4>1
      <3>3. QED BY <2>1, <2>2, <3>1, <3>2
    <2>6. EventsFollow'
      BY <2>5 DEF EventsFollow
    <2>7. QED BY <1>1, <1>2, <2>4, <2>6 DEF Commits
  <1>5. QED BY <1>1, <1>3, <1>4

\* Setting a due date leaves the creation of the tickets alone.
LEMMA DueReplaced ==
    ASSUME FactTypes, NEW t \in Tickets, NEW due \in Instants,
           tickets' = [tickets EXCEPT ![t].due = due]
    PROVE  /\ tickets' \in [Tickets -> TicketRow]
           /\ \A u \in Tickets : tickets'[u].created = tickets[u].created
  <1> DEFINE r == [tickets[t] EXCEPT !.due = due]
  <1>1. r \in TicketRow /\ r.created = tickets[t].created
    BY DEF FactTypes, TicketRow, Nullable
  <1>2. tickets' = [tickets EXCEPT ![t] = r]
    OBVIOUS
  <1> HIDE DEF r
  <1>3. QED BY <1>1, <1>2, RowReplaced DEF FactTypes

LEMMA ClassifyCommits ==
    ASSUME FactTypes, EventsFollow, NEW t \in Tickets, NEW i \in Instants,
           NEW due \in Dues, NEW b \in BOOLEAN, Classify(t, due, b, i)
    PROVE  Commits
  <1>1. /\ UNCHANGED <<resolved, chats, drafts>> /\ Change(i) /\ due \in Instants
        /\ tickets' = [tickets EXCEPT ![t].due = due]
        /\ labels' = [labels EXCEPT ![t] = [created |-> i, corrected |-> FALSE, fallback |-> b]]
    BY RollupConstants DEF Classify
  <1>2. /\ tickets' \in [Tickets -> TicketRow]
        /\ \A u \in Tickets : tickets'[u].created = tickets[u].created
    BY <1>1, DueReplaced
  <1>3. labels' \in [Tickets -> LabelRow]
    BY <1>1 DEF FactTypes, LabelRow, Nullable
  <1>4. FactTypes'
    BY <1>1, <1>2, <1>3 DEF FactTypes
  <1>5. EventsFollow'
    BY <1>1, <1>2, EventsStay
  <1>6. QED BY <1>1, <1>2, <1>4, <1>5 DEF Commits

LEMMA RecategoriseCommits ==
    ASSUME FactTypes, EventsFollow, NEW t \in Tickets, NEW due \in Dues, Recategorise(t, due)
    PROVE  Commits
  <1>1. /\ UNCHANGED <<resolved, chats, drafts>> /\ Change(now) /\ due \in Instants
        /\ tickets' = [tickets EXCEPT ![t].due = due]
        /\ labels' = [labels EXCEPT ![t].corrected = labels[t].created # Null]
    BY RollupConstants DEF Recategorise
  <1>2. /\ tickets' \in [Tickets -> TicketRow]
        /\ \A u \in Tickets : tickets'[u].created = tickets[u].created
    BY <1>1, DueReplaced
  <1>3. labels' \in [Tickets -> LabelRow]
    BY <1>1 DEF FactTypes, LabelRow, Nullable
  <1>4. FactTypes'
    BY <1>1, <1>2, <1>3 DEF FactTypes
  <1>5. EventsFollow'
    BY <1>1, <1>2, EventsStay
  <1>6. QED BY <1>1, <1>2, <1>4, <1>5 DEF Commits

LEMMA TicketNextCommits ==
    ASSUME FactTypes, EventsFollow, TicketNext
    PROVE  Commits
  BY CreateTicketCommits, PatchStatusCommits, ClassifyCommits, RecategoriseCommits DEF TicketNext

LEMMA StartChatCommits ==
    ASSUME FactTypes, EventsFollow, NEW c \in Chats, NEW i \in Instants, StartChat(c, i)
    PROVE  Commits
  <1>1. /\ UNCHANGED <<tickets, resolved, labels, drafts>> /\ Change(i)
        /\ chats' = [chats EXCEPT ![c].created = i]
    BY DEF StartChat
  <1>2. FactTypes'
    BY <1>1 DEF FactTypes, TicketRow, ChatRow, Nullable
  <1>3. EventsFollow'
    BY <1>1 DEF EventsFollow
  <1>4. QED BY <1>1, <1>2, <1>3 DEF Commits

LEMMA ChatTicketCommits ==
    ASSUME FactTypes, EventsFollow, NEW c \in Chats, NEW t \in Tickets, NEW i \in Instants,
           ChatTicket(c, t, i)
    PROVE  Commits
  <1>1. /\ tickets[t].created = Null /\ UNCHANGED <<resolved, labels, drafts>> /\ Change(i)
        /\ tickets' = [tickets EXCEPT ![t] = [status |-> "open", created |-> i, closed |-> Null,
                                              due |-> Null]]
        /\ chats' = [chats EXCEPT ![c].ticket = t]
    BY DEF ChatTicket
  <1>2. tickets' \in [Tickets -> TicketRow]
    BY <1>1 DEF FactTypes, TicketRow, Nullable
  <1>3. chats' \in [Chats -> ChatRow]
    BY <1>1 DEF FactTypes, ChatRow, Nullable
  <1>4. FactTypes'
    BY <1>1, <1>2, <1>3 DEF FactTypes
  <1>5. \A u \in Tickets : tickets[u].created # Null => tickets'[u].created = tickets[u].created
    BY <1>1 DEF FactTypes
  <1>6. EventsFollow'
    BY <1>1, <1>5, EventsStay
  <1>7. QED BY <1>1, <1>4, <1>5, <1>6 DEF Commits

LEMMA EscalateChatCommits ==
    ASSUME FactTypes, EventsFollow, NEW c \in Chats, EscalateChat(c)
    PROVE  Commits
  <1> DEFINE t == chats[c].ticket
  <1>1. /\ UNCHANGED <<resolved, labels, drafts>> /\ Change(now)
        /\ chats' = [chats EXCEPT ![c].escalated = TRUE]
        /\ tickets' = IF t = Null THEN tickets ELSE [tickets EXCEPT ![t].status = "escalated"]
    BY DEF EscalateChat
  <1>2. /\ tickets' \in [Tickets -> TicketRow]
        /\ \A u \in Tickets : tickets'[u].created = tickets[u].created
    <2>1. CASE t = Null
      BY <1>1, <2>1 DEF FactTypes
    <2>2. CASE t # Null
      <3> DEFINE r == [tickets[t] EXCEPT !.status = "escalated"]
      <3>1. t \in Tickets
        BY <2>2 DEF FactTypes, ChatRow, Nullable
      <3>2. r \in TicketRow /\ r.created = tickets[t].created
        BY <3>1 DEF FactTypes, TicketRow
      <3>3. tickets' = [tickets EXCEPT ![t] = r]
        BY <1>1, <2>2
      <3> HIDE DEF r, t
      <3>4. QED BY <3>1, <3>2, <3>3, RowReplaced DEF FactTypes
    <2>3. QED BY <2>1, <2>2
  <1>3. FactTypes'
    BY <1>1, <1>2 DEF FactTypes, ChatRow
  <1>4. EventsFollow'
    BY <1>1, <1>2, EventsStay
  <1>5. QED BY <1>1, <1>2, <1>3, <1>4 DEF Commits

LEMMA ChatNextCommits ==
    ASSUME FactTypes, EventsFollow, ChatNext
    PROVE  Commits
  BY StartChatCommits, ChatTicketCommits, EscalateChatCommits DEF ChatNext

LEMMA DraftNextCommits ==
    ASSUME FactTypes, EventsFollow, DraftNext
    PROVE  Commits
  <1>1. PICK s \in Suggested, i \in Instants : Draft(s, i) \/ UseDraft(s, i)
    BY DEF DraftNext
  <1>2. /\ UNCHANGED <<tickets, resolved, chats, labels>> /\ Change(i)
        /\ \/ drafts' = [drafts EXCEPT ![s].created = i]
           \/ drafts' = [drafts EXCEPT ![s].used = @ \cup {i}]
    BY <1>1 DEF Draft, UseDraft
  <1>3. drafts' \in [Suggested -> DraftRow]
    BY <1>2 DEF FactTypes, DraftRow, Nullable
  <1>4. FactTypes'
    BY <1>2, <1>3 DEF FactTypes
  <1>5. EventsFollow'
    BY <1>2 DEF EventsFollow
  <1>6. QED BY <1>2, <1>4, <1>5 DEF Commits

-----------------------------------------------------------------------------

\* The metrics of the days that are over.
Completed == {dk \in Days \X METRIC_KEYS : dk[1] < LocalDay(now)}

\* No more tickets than were created on the day.
Counted(rows) ==
    \A dk \in DOMAIN rows :
        dk[2] = "tickets_created" => rows[dk][1] <= Cardinality(CreatedOn(dk[1]))

\* A pass has all its fields, runs at one instant and writes only while it runs.
PassShape ==
    /\ job = [phase |-> job.phase, tries |-> job.tries, at |-> job.at, pos |-> job.pos,
              wrote |-> job.wrote, ok |-> job.ok]
    /\ job.phase = "running" => job.at = now
    /\ job.phase # "running" => job.wrote = <<>> /\ job.ok = {}

\* The types of the rest.
PassTypes ==
    /\ offset \in Offsets /\ now \in Instants
    /\ IsTable(metrics) /\ IsTable(job.wrote)
    /\ job.phase \in {"none", "queued", "running", "done"} /\ job.tries \in 0..PassTries
    /\ job.at \in Instants /\ job.pos \in 0..Units /\ job.ok \subseteq stale
    /\ changes \in 0..MaxChanges /\ failures \in 0..MaxFailures
    /\ stale \subseteq Days \X METRIC_KEYS
    /\ night \in Nat /\ missed \in Nat /\ late \in BOOLEAN

\* Nothing is stored of a day that is not over.
DaysAreOver == DOMAIN metrics \cup DOMAIN job.wrote \cup stale \subseteq Completed

\* What the running pass has computed is exact, unless the facts changed since; and of
\* the stale metrics it has computed since they changed it has the rows.
PassIsExact ==
    /\ \A dk \in DOMAIN job.wrote :
          (dk \notin stale \/ dk \in job.ok) /\ Metric(dk[2], dk[1]) # Null
              => job.wrote[dk] = Metric(dk[2], dk[1])
    /\ \A dk \in job.ok : Metric(dk[2], dk[1]) # Null => dk \in DOMAIN job.wrote

\* The inductive invariant.
RollupInv ==
    /\ FactTypes /\ EventsFollow /\ PassTypes /\ PassShape
    /\ DaysAreOver
    /\ StoredIsExact /\ PassIsExact
    /\ Counted(metrics) /\ Counted(job.wrote)

\* The parts of the invariant are those of the type invariant, and more.
LEMMA RollupTypesHold == RollupInv => RollupTypeOK
  BY DEF RollupInv, FactTypes, PassTypes, RollupTypeOK, TicketRow, ChatRow, LabelRow, DraftRow

\* A pass that has written nothing has an empty table.
LEMMA EmptyTable == DOMAIN <<>> = {} /\ IsTable(<<>>)
  BY DEF IsTable

\* A day gains tickets and loses none.
LEMMA CreatedGrows ==
    ASSUME offset' = offset, FactTypes, NEW d,
           \A t \in Tickets : tickets[t].created # Null => tickets'[t].created = tickets[t].created
    PROVE  /\ Cardinality(CreatedOn(d)) \in Nat /\ Cardinality(CreatedOn(d)') \in Nat
           /\ Cardinality(CreatedOn(d)) <= Cardinality(CreatedOn(d)')
  <1>1. CreatedOn(d) \subseteq CreatedOn(d)'
    BY DEF CreatedOn, OnDay, DayStart, DayEnd
  <1>2. CreatedOn(d) \subseteq Tickets /\ CreatedOn(d)' \subseteq Tickets
    BY DEF CreatedOn
  <1>3. IsFiniteSet(CreatedOn(d)) /\ IsFiniteSet(CreatedOn(d)')
    BY <1>2, RollupConstants, FS_Subset
  <1>4. QED BY <1>1, <1>3, FS_Subset, FS_CardinalityType

\* The count of a table stays a bound, if no ticket leaves its day.
LEMMA CountedStays ==
    ASSUME offset' = offset, FactTypes, NEW rows, IsTable(rows), Counted(rows),
           \A t \in Tickets : tickets[t].created # Null => tickets'[t].created = tickets[t].created
    PROVE  \A dk \in DOMAIN rows :
               dk[2] = "tickets_created" => rows[dk][1] <= Cardinality(CreatedOn(dk[1])')
  <1> SUFFICES ASSUME NEW dk \in DOMAIN rows, dk[2] = "tickets_created"
               PROVE  rows[dk][1] <= Cardinality(CreatedOn(dk[1])')
    OBVIOUS
  <1>1. rows[dk][1] \in Nat /\ rows[dk][1] <= Cardinality(CreatedOn(dk[1]))
    BY DEF IsTable, Counted
  <1> DEFINE d == dk[1]
  <1>2. /\ Cardinality(CreatedOn(d)) \in Nat /\ Cardinality(CreatedOn(d)') \in Nat
        /\ Cardinality(CreatedOn(d)) <= Cardinality(CreatedOn(d)')
    <2> HIDE DEF d
    <2>1. QED BY CreatedGrows
  <1>3. QED BY <1>1, <1>2

\* A commit of the application, also in the middle of a pass: what it changes is stale,
\* and no longer counts as computed.
LEMMA CommitKeeps ==
    ASSUME RollupInv, Commits
    PROVE  RollupInv'
  <1> DEFINE changed == {dk \in Days \X METRIC_KEYS :
                            dk[1] < LocalDay(now) /\ Metric(dk[2], dk[1])' # Metric(dk[2], dk[1])}
  <1>1. /\ changes < MaxChanges /\ changes' = changes + 1
        /\ UNCHANGED <<offset, now, metrics, failures, night, missed, late>>
        /\ stale' = stale \cup changed
        /\ job' = [job EXCEPT !.ok = @ \ changed]
    BY DEF Commits, Change
  <1>2. ASSUME NEW dk \in Completed, dk \notin changed
        PROVE  Metric(dk[2], dk[1])' = Metric(dk[2], dk[1])
    BY <1>2 DEF Completed
  <1>3. changed \subseteq Completed /\ Completed' = Completed
    BY <1>1 DEF Completed, LocalDay
  <1>4. /\ FactTypes /\ EventsFollow /\ PassTypes /\ PassShape /\ DaysAreOver
        /\ StoredIsExact /\ PassIsExact /\ Counted(metrics) /\ Counted(job.wrote)
    BY DEF RollupInv
  <1> HIDE DEF changed
  <1>5. /\ job' = [phase |-> job.phase, tries |-> job.tries, at |-> job.at, pos |-> job.pos,
                   wrote |-> job.wrote, ok |-> job.ok \ changed]
        /\ job'.phase = job.phase /\ job'.tries = job.tries /\ job'.at = job.at
        /\ job'.pos = job.pos /\ job'.wrote = job.wrote /\ job'.ok = job.ok \ changed
    BY <1>1, <1>4 DEF PassShape
  <1>6. PassShape'
    BY <1>1, <1>4, <1>5 DEF PassShape
  <1>7. PassTypes'
    <2>1. changes' \in 0..MaxChanges
      <3>1. changes \in 0..MaxChanges /\ MaxChanges \in Nat
        BY <1>4, RollupAssumption DEF PassTypes
      <3>2. QED BY <1>1, <3>1
    <2>2. job'.ok \subseteq stale' /\ stale' \subseteq Days \X METRIC_KEYS
      BY <1>1, <1>3, <1>4, <1>5 DEF PassTypes, Completed
    <2>3. QED BY <1>1, <1>4, <1>5, <2>1, <2>2 DEF PassTypes, IsTable, Units
  <1>8. DaysAreOver'
    BY <1>1, <1>3, <1>4, <1>5 DEF DaysAreOver
  <1>9. StoredIsExact'
    <2> SUFFICES ASSUME NEW dk \in DOMAIN metrics', dk \notin stale', Metric(dk[2], dk[1])' # Null
                 PROVE  metrics'[dk] = Metric(dk[2], dk[1])'
      BY DEF StoredIsExact
    <2>1. dk \in DOMAIN metrics /\ dk \in Completed /\ dk \notin stale /\ dk \notin changed
      BY <1>1, <1>4 DEF DaysAreOver
    <2>2. Metric(dk[2], dk[1])' = Metric(dk[2], dk[1])
      BY <1>2, <2>1
    <2>3. QED BY <1>1, <1>4, <2>1, <2>2 DEF StoredIsExact
  <1>10. PassIsExact'
    <2>1. ASSUME NEW dk \in DOMAIN job'.wrote, dk \notin stale' \/ dk \in job'.ok,
                 Metric(dk[2], dk[1])' # Null
          PROVE  job'.wrote[dk] = Metric(dk[2], dk[1])'
      <3>1. dk \in DOMAIN job.wrote /\ dk \in Completed /\ dk \notin changed
        BY <1>1, <1>4, <1>5, <2>1 DEF DaysAreOver
      <3>2. Metric(dk[2], dk[1])' = Metric(dk[2], dk[1])
        BY <1>2, <3>1
      <3>3. QED BY <1>1, <1>4, <1>5, <2>1, <3>1, <3>2 DEF PassIsExact
    <2>2. ASSUME NEW dk \in job'.ok, Metric(dk[2], dk[1])' # Null
          PROVE  dk \in DOMAIN job'.wrote
      <3>1. dk \in job.ok /\ dk \in Completed /\ dk \notin changed
        BY <1>1, <1>4, <1>5, <2>2 DEF DaysAreOver, PassTypes
      <3>2. Metric(dk[2], dk[1])' = Metric(dk[2], dk[1])
        BY <1>2, <3>1
      <3>3. QED BY <1>4, <1>5, <2>2, <3>1, <3>2 DEF PassIsExact
    <2>3. QED BY <2>1, <2>2 DEF PassIsExact
  <1>11. Counted(metrics)' /\ Counted(job.wrote)'
    <2>1. \A t \in Tickets : tickets[t].created # Null => tickets'[t].created = tickets[t].created
      BY DEF Commits
    <2>2. IsTable(metrics) /\ IsTable(job.wrote)
      BY <1>4 DEF PassTypes
    <2>3. \A dk \in DOMAIN metrics :
              dk[2] = "tickets_created" => metrics[dk][1] <= Cardinality(CreatedOn(dk[1])')
      BY <1>1, <1>4, <2>1, <2>2, CountedStays
    <2>4. \A dk \in DOMAIN job.wrote :
              dk[2] = "tickets_created" => job.wrote[dk][1] <= Cardinality(CreatedOn(dk[1])')
      BY <1>1, <1>4, <2>1, <2>2, CountedStays
    <2>5. QED BY <1>1, <1>5, <2>3, <2>4 DEF Counted
  <1>12. FactTypes' /\ EventsFollow'
    BY DEF Commits
  <1>13. QED BY <1>6, <1>7, <1>8, <1>9, <1>10, <1>11, <1>12 DEF RollupInv

\* Local days follow the clock.
LEMMA DayGrows ==
    ASSUME NEW i \in Int, NEW j \in Int, NEW o \in Int, i <= j
    PROVE  (i + o) \div DayLen <= (j + o) \div DayLen
  <1>1. i + o \in Int /\ j + o \in Int /\ i + o <= j + o
    OBVIOUS
  <1>2. QED BY <1>1, RollupConstants, DivMono

\* A step of the pass that leaves facts, rows and stale metrics alone, and whose pass
\* has written the same as before, or nothing.
LEMMA QuietKeeps ==
    ASSUME RollupInv, UNCHANGED <<offset, facts, metrics, stale>>, now <= now',
           PassTypes', PassShape',
           \/ job'.wrote = <<>> /\ job'.ok = {}
           \/ job'.wrote = job.wrote /\ job'.ok = job.ok
    PROVE  RollupInv'
  <1>1. /\ FactTypes /\ EventsFollow /\ PassTypes /\ PassShape /\ DaysAreOver
        /\ StoredIsExact /\ PassIsExact /\ Counted(metrics) /\ Counted(job.wrote)
    BY DEF RollupInv
  <1>2. /\ tickets' = tickets /\ resolved' = resolved /\ chats' = chats /\ labels' = labels
        /\ drafts' = drafts /\ offset' = offset /\ metrics' = metrics /\ stale' = stale
    BY DEF facts
  <1>3. FactTypes' /\ EventsFollow'
    BY <1>1, <1>2 DEF FactTypes, EventsFollow
  <1>4. \A dk : Metric(dk[2], dk[1])' = Metric(dk[2], dk[1])
    BY MetricStays
  <1>5. Completed \subseteq Completed'
    <2>1. offset \in Int /\ now \in Int /\ now' \in Int
      BY <1>1, RollupConstants DEF PassTypes
    <2>2. (now + offset) \div DayLen <= (now' + offset) \div DayLen
      BY <2>1, DayGrows
    <2>3. LocalDay(now) <= LocalDay(now)' /\ LocalDay(now) \in Int /\ LocalDay(now)' \in Int
      BY <1>2, <2>1, <2>2, RollupConstants DEF LocalDay
    <2>4. QED BY <2>3, RollupAssumption DEF Completed, Days
  <1>6. DOMAIN job'.wrote \subseteq DOMAIN job.wrote
    BY EmptyTable
  <1>7. DaysAreOver'
    BY <1>1, <1>2, <1>5, <1>6 DEF DaysAreOver
  <1>8. StoredIsExact'
    BY <1>1, <1>2, <1>4 DEF StoredIsExact
  <1>9. PassIsExact'
    <2>1. CASE job'.wrote = <<>> /\ job'.ok = {}
      BY <2>1, EmptyTable DEF PassIsExact
    <2>2. CASE job'.wrote = job.wrote /\ job'.ok = job.ok
      BY <1>1, <1>2, <1>4, <2>2 DEF PassIsExact
    <2>3. QED BY <2>1, <2>2
  <1>10. \A d : CreatedOn(d)' = CreatedOn(d)
    BY <1>2 DEF CreatedOn, OnDay, DayStart, DayEnd
  <1>11. Counted(metrics)'
    BY <1>1, <1>2, <1>10 DEF Counted
  <1>12. Counted(job.wrote)'
    <2>1. CASE job'.wrote = <<>>
      BY <2>1, EmptyTable DEF Counted
    <2>2. CASE job'.wrote = job.wrote
      BY <1>1, <1>10, <2>2 DEF Counted
    <2>3. QED BY <2>1, <2>2
  <1>13. QED BY <1>3, <1>7, <1>8, <1>9, <1>11, <1>12 DEF RollupInv

\* A night is a number.
LEMMA NightFacts ==
    ASSUME NEW i \in Instants
    PROVE  Night(i) \in Nat /\ i % DayLen \in Int
  <1>1. i \in Nat /\ DayLen \in Nat /\ DayLen > 0
    BY RollupConstants
  <1>2. i \div DayLen \in Int /\ 0 \div DayLen <= i \div DayLen
    BY <1>1, DivMono
  <1>3. 0 \div DayLen = 0
    BY <1>1, DivIs
  <1>4. QED BY <1>1, <1>2, <1>3, DivMod DEF Night

\* The greater of two numbers.
LEMMA MaxOfTwo ==
    ASSUME NEW a \in Nat, NEW b \in Nat
    PROVE  Max({a, b}) \in Nat /\ Max({a, b}) >= a /\ Max({a, b}) >= b
  <1>1. CASE a >= b
    <2>1. a \in {a, b} /\ \A y \in {a, b} : a >= y
      BY <1>1
    <2>2. Max({a, b}) \in {a, b} /\ \A y \in {a, b} : Max({a, b}) >= y
      BY <2>1 DEF Max
    <2>3. QED BY <2>2
  <1>2. CASE b >= a
    <2>1. b \in {a, b} /\ \A y \in {a, b} : b >= y
      BY <1>2
    <2>2. Max({a, b}) \in {a, b} /\ \A y \in {a, b} : Max({a, b}) >= y
      BY <2>1 DEF Max
    <2>3. QED BY <2>2
  <1>3. QED BY <1>1, <1>2

\* The steps of the pass, one by one.
LEMMA TickKeeps ==
    ASSUME RollupInv, Tick
    PROVE  RollupInv' /\ now' = now + 1 /\ missed' \in Nat /\ missed' >= missed
           /\ missed' >= MissedBy(Night(now'))
  <1>1. /\ now' = now + 1 /\ now' \in Instants /\ job.phase # "running"
        /\ job' = [NoPass EXCEPT !.phase = "queued"] \/ job' = job
        /\ missed' = Max({missed, MissedBy(Night(now'))})
        /\ UNCHANGED <<offset, facts, metrics, changes, failures, stale, night, late>>
    BY DEF Tick
  <1>2. PassTypes /\ PassShape
    BY DEF RollupInv
  <1>3. MissedBy(Night(now')) \in Nat
    BY <1>1, <1>2, NightFacts DEF MissedBy, PassTypes
  <1>4. missed' \in Nat /\ missed' >= missed /\ missed' >= MissedBy(Night(now'))
    BY <1>1, <1>2, <1>3, MaxOfTwo DEF PassTypes
  <1>5. /\ PassShape'
        /\ \/ job'.wrote = <<>> /\ job'.ok = {}
           \/ job'.wrote = job.wrote /\ job'.ok = job.ok
        /\ job'.phase \in {"none", "queued", "running", "done"} /\ job'.tries \in 0..PassTries
        /\ job'.at \in Instants /\ job'.pos \in 0..Units
    <2>1. 0 \in 0..PassTries /\ 0 \in Instants /\ 0 \in 0..Units
      BY RollupAssumption, RollupConstants DEF Units
    <2>2. QED BY <1>1, <1>2, <2>1 DEF PassTypes, PassShape, NoPass
  <1>6. PassTypes'
    BY <1>1, <1>2, <1>4, <1>5, EmptyTable DEF PassTypes, Units
  <1>7. now <= now'
    BY <1>1, <1>2, RollupConstants DEF PassTypes
  <1>8. QED BY <1>1, <1>4, <1>5, <1>6, <1>7, QuietKeeps

LEMMA BeginPassKeeps ==
    ASSUME RollupInv, BeginPass
    PROVE  RollupInv'
  <1>1. /\ job.phase = "queued" /\ job.tries < PassTries
        /\ job' = [phase |-> "running", tries |-> job.tries + 1, at |-> now,
                   pos |-> 0, wrote |-> <<>>, ok |-> {}]
        /\ UNCHANGED <<offset, now, facts, metrics, changes, failures, stale, night, missed, late>>
    BY DEF BeginPass
  <1>2. PassTypes /\ PassShape
    BY DEF RollupInv
  <1>3. job.tries + 1 \in 0..PassTries /\ 0 \in 0..Units
    BY <1>1, <1>2, RollupAssumption DEF Units, PassTypes
  <1>4. /\ job'.phase = "running" /\ job'.tries = job.tries + 1 /\ job'.at = now
        /\ job'.pos = 0 /\ job'.wrote = <<>> /\ job'.ok = {}
    BY <1>1
  <1>5. PassShape'
    BY <1>1, <1>4 DEF PassShape
  <1>6. PassTypes'
    BY <1>1, <1>2, <1>3, <1>4, EmptyTable DEF PassTypes, Units
  <1>7. now <= now'
    BY <1>1, <1>2, RollupConstants DEF PassTypes
  <1>8. QED BY <1>1, <1>4, <1>5, <1>6, <1>7, QuietKeeps

LEMMA PassStopsKeeps ==
    ASSUME RollupInv, CrashPass \/ EndPass
    PROVE  RollupInv'
  <1>1. /\ \/ job' = [NoPass EXCEPT !.phase = "queued", !.tries = job.tries]
           \/ job' = NoPass
        /\ UNCHANGED <<offset, now, facts, metrics, changes, failures, stale, night, missed, late>>
    BY DEF CrashPass, EndPass
  <1>2. PassTypes /\ PassShape
    BY DEF RollupInv
  <1>3. 0 \in 0..PassTries /\ 0 \in Instants /\ 0 \in 0..Units
    BY RollupAssumption, RollupConstants DEF Units
  <1>4. /\ job'.phase \in {"none", "queued"} /\ job'.tries \in 0..PassTries /\ job'.at = 0
        /\ job'.pos = 0 /\ job'.wrote = <<>> /\ job'.ok = {}
    <2>1. job.tries \in 0..PassTries
      BY <1>2 DEF PassTypes
    <2>2. CASE job' = NoPass
      BY <1>3, <2>2 DEF NoPass
    <2>3. CASE job' = [NoPass EXCEPT !.phase = "queued", !.tries = job.tries]
      BY <1>3, <2>1, <2>3 DEF NoPass
    <2>4. QED BY <1>1, <2>2, <2>3
  <1>5. PassShape'
    BY <1>1, <1>4 DEF PassShape, NoPass
  <1>6. PassTypes'
    BY <1>1, <1>2, <1>3, <1>4, EmptyTable DEF PassTypes, Units
  <1>7. now <= now'
    BY <1>1, <1>2, RollupConstants DEF PassTypes
  <1>8. QED BY <1>1, <1>4, <1>5, <1>6, <1>7, QuietKeeps

\* The unit a running pass is at: one of the days before today, and a family.
LEMMA UnitFacts ==
    ASSUME PassTypes, PassShape, job.phase = "running", job.pos < Units
    PROVE  /\ UnitDay \in Int /\ UnitDay < LocalDay(now) /\ job.pos + 1 \in 0..Units
           /\ UnitFamily \in Range(Families) /\ UnitFamily \in DOMAIN Keys
           /\ Keys[UnitFamily] \subseteq METRIC_KEYS
  <1> DEFINE F == Len(Families)
             p == job.pos
  <1>1. Families \in Seq(DOMAIN Keys) /\ F \in Nat /\ DOMAIN Families = 1..F /\ Lookback \in Nat
    BY RollupAssumption
  <1>2. p \in Nat /\ p < Lookback * F /\ p + 1 \in 0..Units
    BY <1>1, RollupAssumption DEF PassTypes, Units
  <1>3. F > 0
    <2>1. F = 0 => Lookback * F = 0
      BY <1>1
    <2> HIDE DEF F, p
    <2>2. QED BY <1>1, <1>2, <2>1
  <1> HIDE DEF F, p
  <1>4. p \div F \in Int /\ 0 <= p \div F /\ p % F \in 0..(F - 1)
    <2>1. F \in Nat \ {0} /\ p \in Int /\ 0 \in Int /\ 0 <= p
      BY <1>1, <1>2, <1>3
    <2>2. 0 \div F <= p \div F
      BY <2>1, DivMono
    <2>3. 0 \div F = 0
      BY <2>1, DivIs
    <2>4. QED BY <2>1, <2>2, <2>3, DivMod
  <1>5. LocalDay(now) \in Int
    BY RollupConstants DEF PassTypes, LocalDay
  <1>6. UnitDay = LocalDay(now) - ((p \div F) + 1)
    BY DEF UnitDay, CompletedDay, PassShape, p, F
  <1>7. (p % F) + 1 \in 1..F /\ UnitFamily = Families[(p % F) + 1]
    BY <1>1, <1>4 DEF UnitFamily, p, F
  <1>8. UnitFamily \in Range(Families) /\ UnitFamily \in DOMAIN Keys
    BY <1>1, <1>7 DEF Range
  <1>9. UnitDay \in Int /\ UnitDay < LocalDay(now)
    BY <1>4, <1>5, <1>6
  <1>10. QED BY <1>2, <1>8, <1>9 DEF METRIC_KEYS, p

\* The rows of a family are those of its metrics that are defined, and exact.
LEMMA RowsFacts ==
    ASSUME RollupInv, NEW d \in Days, NEW f \in DOMAIN Keys, Keys[f] \subseteq METRIC_KEYS
    PROVE  /\ DOMAIN Rows(d, f) = {d} \X {k \in Keys[f] : Metric(k, d) # Null}
           /\ \A dk \in DOMAIN Rows(d, f) :
                 /\ dk \in Days \X METRIC_KEYS /\ dk[1] = d /\ dk[2] \in Keys[f]
                 /\ Rows(d, f)[dk] = Metric(dk[2], dk[1]) /\ Rows(d, f)[dk] \in Nat \X Nat
                 /\ dk[2] = "tickets_created" =>
                        Rows(d, f)[dk][1] <= Cardinality(CreatedOn(dk[1]))
  <1> DEFINE R == Rows(d, f)
             D == {d} \X {k \in Keys[f] : Metric(k, d) # Null}
  <1>1. R = [dk \in D |-> Metric(dk[2], d)]
    BY DEF Rows
  <1>2. FactTypes /\ EventsFollow
    BY DEF RollupInv
  <1> HIDE DEF R
  <1>3. DOMAIN R = D
    BY <1>1
  <1>4. ASSUME NEW dk \in D
        PROVE  /\ dk \in Days \X METRIC_KEYS /\ dk[1] = d /\ dk[2] \in Keys[f]
               /\ R[dk] = Metric(dk[2], dk[1]) /\ R[dk] \in Nat \X Nat
               /\ dk[2] = "tickets_created" => R[dk][1] <= Cardinality(CreatedOn(dk[1]))
    <2>1. /\ dk \in Days \X METRIC_KEYS /\ dk[1] = d /\ dk[2] \in Keys[f]
          /\ Metric(dk[2], d) # Null
      OBVIOUS
    <2>2. R[dk] = Metric(dk[2], dk[1])
      BY <1>1, <2>1
    <2> DEFINE k == dk[2]
    <2>3. k \in UNION {Keys[g] : g \in DOMAIN Keys}
      BY <2>1
    <2> HIDE DEF k
    <2>4. /\ Metric(k, d) \in Nullable(Nat \X Nat)
          /\ Metric("tickets_created", d) = <<Cardinality(CreatedOn(d)), 1>>
      BY <1>2, <2>3, MetricType
    <2>5. R[dk] \in Nat \X Nat
      BY <2>1, <2>2, <2>4 DEF k, Nullable
    <2>6. ASSUME k = "tickets_created"
          PROVE  R[dk][1] <= Cardinality(CreatedOn(d))
      <3>1. R[dk] = <<Cardinality(CreatedOn(d)), 1>>
        BY <2>1, <2>2, <2>4, <2>6 DEF k
      <3>2. R[dk][1] = Cardinality(CreatedOn(d)) /\ R[dk][1] \in Nat
        BY <2>5, <3>1
      <3>3. QED BY <3>2
    <2>7. QED BY <2>1, <2>2, <2>5, <2>6 DEF k
  <1>5. QED BY <1>3, <1>4 DEF R

\* The rows of an upsert: the new ones, and the old ones without a new one.
LEMMA UpsertFacts ==
    ASSUME NEW new, NEW old
    PROVE  /\ DOMAIN Upsert(new, old) = DOMAIN new \cup DOMAIN old
           /\ \A dk \in DOMAIN new : Upsert(new, old)[dk] = new[dk]
           /\ \A dk \in DOMAIN old : dk \notin DOMAIN new => Upsert(new, old)[dk] = old[dk]
  BY DEF Upsert

\* One family of one day is computed.
LEMMA RollupFamilyKeeps ==
    ASSUME RollupInv, RollupFamily
    PROVE  RollupInv'
  <1> DEFINE d == UnitDay
             f == UnitFamily
             R == Rows(d, f)
             new == stale \cap ({d} \X Keys[f])
             wrote == IF d \in Days THEN Upsert(R, job.wrote) ELSE job.wrote
  <1>1. /\ FactTypes /\ EventsFollow /\ PassTypes /\ PassShape /\ DaysAreOver
        /\ StoredIsExact /\ PassIsExact /\ Counted(metrics) /\ Counted(job.wrote)
    BY DEF RollupInv
  <1>2. /\ job.phase = "running" /\ job.pos < Units
        /\ job' = [job EXCEPT !.pos = @ + 1, !.wrote = wrote, !.ok = @ \cup new]
        /\ UNCHANGED <<offset, now, facts, metrics, changes, failures, stale, night, missed, late>>
    BY DEF RollupFamily
  <1>3. /\ d \in Int /\ d < LocalDay(now) /\ job.pos + 1 \in 0..Units
        /\ f \in DOMAIN Keys /\ Keys[f] \subseteq METRIC_KEYS
    BY <1>1, <1>2, UnitFacts
  <1>4. \A dk : Metric(dk[2], dk[1])' = Metric(dk[2], dk[1])
    BY <1>2, MetricStays
  <1> HIDE DEF d, f, R, new, wrote
  <1>5. /\ job' = [phase |-> job.phase, tries |-> job.tries, at |-> job.at, pos |-> job.pos + 1,
                   wrote |-> wrote, ok |-> job.ok \cup new]
        /\ job'.phase = job.phase /\ job'.tries = job.tries /\ job'.at = job.at
        /\ job'.pos = job.pos + 1 /\ job'.wrote = wrote /\ job'.ok = job.ok \cup new
    BY <1>1, <1>2 DEF PassShape
  <1>6. PassShape'
    BY <1>1, <1>2, <1>5 DEF PassShape
  \* A row of the new table is of this unit, or was there before.
  <1>7. ASSUME NEW dk \in DOMAIN wrote
        PROVE  \/ /\ dk \in Completed /\ wrote[dk] \in Nat \X Nat
                  /\ wrote[dk] = Metric(dk[2], dk[1])
                  /\ dk[2] = "tickets_created" => wrote[dk][1] <= Cardinality(CreatedOn(dk[1]))
               \/ /\ dk \in DOMAIN job.wrote /\ wrote[dk] = job.wrote[dk]
                  /\ dk \in new => Metric(dk[2], dk[1]) = Null
    <2>1. CASE d \notin Days
      <3>1. wrote = job.wrote /\ new = {}
        BY <1>1, <2>1 DEF wrote, new, PassTypes
      <3>2. QED BY <3>1
    <2>2. CASE d \in Days
      <3>1. wrote = Upsert(R, job.wrote)
        BY <2>2 DEF wrote
      <3>2. /\ DOMAIN R = {d} \X {k \in Keys[f] : Metric(k, d) # Null}
            /\ \A e \in DOMAIN R :
                  /\ e \in Days \X METRIC_KEYS /\ e[1] = d /\ e[2] \in Keys[f]
                  /\ R[e] = Metric(e[2], e[1]) /\ R[e] \in Nat \X Nat
                  /\ e[2] = "tickets_created" => R[e][1] <= Cardinality(CreatedOn(e[1]))
        BY <1>3, <2>2, RowsFacts DEF R
      <3> DEFINE old == job.wrote
      <3> HIDE DEF old
      <3>6. /\ DOMAIN Upsert(R, old) = DOMAIN R \cup DOMAIN old
            /\ \A e \in DOMAIN R : Upsert(R, old)[e] = R[e]
            /\ \A e \in DOMAIN old : e \notin DOMAIN R => Upsert(R, old)[e] = old[e]
        BY UpsertFacts
      <3>3. CASE dk \in DOMAIN R
        <4>1. wrote[dk] = R[dk]
          BY <3>1, <3>3, <3>6 DEF old
        <4>2. dk \in Completed
          BY <1>3, <3>2, <3>3 DEF Completed
        <4>3. QED BY <3>2, <3>3, <4>1, <4>2
      <3>4. CASE dk \notin DOMAIN R
        <4>1. dk \in DOMAIN job.wrote /\ wrote[dk] = job.wrote[dk]
          BY <3>1, <3>4, <3>6 DEF old
        <4>2. dk \in new => Metric(dk[2], dk[1]) = Null
          BY <3>2, <3>4 DEF new
        <4>3. QED BY <4>1, <4>2
      <3>5. QED BY <3>3, <3>4
    <2>3. QED BY <2>1, <2>2
  <1>8. ASSUME NEW dk \in new, Metric(dk[2], dk[1]) # Null
        PROVE  dk \in DOMAIN wrote
    <2>1. d \in Days /\ dk[1] = d /\ dk[2] \in Keys[f] /\ dk = <<d, dk[2]>>
      BY <1>1 DEF new, PassTypes
    <2>2. DOMAIN R = {d} \X {k \in Keys[f] : Metric(k, d) # Null}
      BY <1>3, <2>1, RowsFacts DEF R
    <2> DEFINE k == dk[2]
    <2>3. k \in Keys[f] /\ Metric(k, d) # Null /\ dk = <<d, k>>
      BY <1>8, <2>1
    <2> HIDE DEF k
    <2>4. dk \in DOMAIN R
      BY <2>2, <2>3
    <2>5. DOMAIN Upsert(R, job.wrote) = DOMAIN R \cup DOMAIN job.wrote
      BY UpsertFacts
    <2>6. QED BY <2>1, <2>4, <2>5 DEF wrote
  <1>9. \A dk \in DOMAIN job.wrote : dk \in DOMAIN wrote
    <2>1. DOMAIN Upsert(R, job.wrote) = DOMAIN R \cup DOMAIN job.wrote
      BY UpsertFacts
    <2>2. QED BY <2>1 DEF wrote
  <1>10. PassTypes'
    <2>1. IsTable(wrote)
      <3>1. \A dk \in DOMAIN wrote : dk \in Days \X METRIC_KEYS
        BY <1>1, <1>7 DEF Completed, PassTypes, IsTable
      <3>2. \A dk \in DOMAIN wrote : wrote[dk] \in Nat \X Nat
        BY <1>1, <1>7 DEF PassTypes, IsTable
      <3>3. QED BY <3>1, <3>2 DEF IsTable
    <2>2. job.ok \cup new \subseteq stale
      BY <1>1 DEF PassTypes, new
    <2>3. QED BY <1>1, <1>2, <1>3, <1>5, <2>1, <2>2 DEF PassTypes, Units, IsTable
  <1>11. FactTypes' /\ EventsFollow' /\ Completed' = Completed /\ StoredIsExact'
    <2>1. /\ tickets' = tickets /\ resolved' = resolved /\ chats' = chats /\ labels' = labels
          /\ drafts' = drafts /\ offset' = offset /\ now' = now
          /\ metrics' = metrics /\ stale' = stale
      BY <1>2 DEF facts
    <2>2. FactTypes' /\ EventsFollow' /\ Completed' = Completed
      BY <1>1, <2>1 DEF FactTypes, EventsFollow, Completed, LocalDay
    <2>3. StoredIsExact'
      BY <1>1, <1>4, <2>1 DEF StoredIsExact
    <2>4. QED BY <2>2, <2>3
  <1>12. DaysAreOver'
    <2>1. DOMAIN wrote \subseteq Completed
      BY <1>1, <1>7 DEF DaysAreOver
    <2>2. QED BY <1>1, <1>2, <1>5, <1>11, <2>1 DEF DaysAreOver
  <1>13. PassIsExact'
    <2>1. ASSUME NEW dk \in DOMAIN job'.wrote, dk \notin stale' \/ dk \in job'.ok,
                 Metric(dk[2], dk[1])' # Null
          PROVE  job'.wrote[dk] = Metric(dk[2], dk[1])'
      <3>1. Metric(dk[2], dk[1])' = Metric(dk[2], dk[1]) /\ dk \in DOMAIN wrote
        BY <1>4, <1>5
      <3>2. dk \notin stale \/ dk \in job.ok \/ dk \in new
        BY <1>2, <1>5, <2>1
      <3>3. wrote[dk] = Metric(dk[2], dk[1])
        BY <1>1, <1>7, <2>1, <3>1, <3>2 DEF PassIsExact
      <3>4. QED BY <1>5, <3>1, <3>3
    <2>2. ASSUME NEW dk \in job'.ok, Metric(dk[2], dk[1])' # Null
          PROVE  dk \in DOMAIN job'.wrote
      <3>1. Metric(dk[2], dk[1]) # Null /\ (dk \in job.ok \/ dk \in new)
        BY <1>4, <1>5, <2>2
      <3>2. QED BY <1>1, <1>5, <1>8, <1>9, <3>1 DEF PassIsExact
    <2>3. QED BY <2>1, <2>2 DEF PassIsExact
  <1>14. Counted(metrics)' /\ Counted(job.wrote)'
    <2>1. \A e : CreatedOn(e)' = CreatedOn(e)
      BY <1>2 DEF CreatedOn, OnDay, DayStart, DayEnd, facts
    <2>2. Counted(metrics)'
      BY <1>1, <1>2, <2>1 DEF Counted
    <2>3. \A dk \in DOMAIN wrote :
              dk[2] = "tickets_created" => wrote[dk][1] <= Cardinality(CreatedOn(dk[1]))
      BY <1>1, <1>7 DEF Counted
    <2>4. QED BY <1>5, <2>1, <2>2, <2>3 DEF Counted
  <1>15. QED BY <1>6, <1>10, <1>11, <1>12, <1>13, <1>14 DEF RollupInv

LEMMA FailFamilyKeeps ==
    ASSUME RollupInv, FailFamily
    PROVE  RollupInv'
  <1>1. /\ job.phase = "running" /\ job.pos < Units
        /\ failures < MaxFailures /\ failures' = failures + 1
        /\ job' = [job EXCEPT !.pos = @ + 1]
        /\ UNCHANGED <<offset, now, facts, metrics, changes, stale, night, missed, late>>
    BY DEF FailFamily
  <1>2. PassTypes /\ PassShape
    BY DEF RollupInv
  <1>3. /\ job' = [phase |-> job.phase, tries |-> job.tries, at |-> job.at, pos |-> job.pos + 1,
                   wrote |-> job.wrote, ok |-> job.ok]
        /\ job'.phase = job.phase /\ job'.tries = job.tries /\ job'.at = job.at
        /\ job'.pos = job.pos + 1 /\ job'.wrote = job.wrote /\ job'.ok = job.ok
    BY <1>1, <1>2 DEF PassShape
  <1>4. job.pos + 1 \in 0..Units
    BY <1>1, <1>2, UnitFacts
  <1>5. failures + 1 \in 0..MaxFailures
    <2>1. failures \in 0..MaxFailures /\ MaxFailures \in Nat
      BY <1>2, RollupAssumption DEF PassTypes
    <2>2. QED BY <1>1, <2>1
  <1>6. PassShape'
    BY <1>1, <1>2, <1>3 DEF PassShape
  <1>7. PassTypes'
    BY <1>1, <1>2, <1>3, <1>4, <1>5 DEF PassTypes, Units, IsTable
  <1>8. now <= now'
    BY <1>1, <1>2, RollupConstants DEF PassTypes
  <1>9. QED BY <1>1, <1>3, <1>6, <1>7, <1>8, QuietKeeps

\* The pass is committed: its rows replace the stored ones.
LEMMA CommitPassKeeps ==
    ASSUME RollupInv, CommitPass
    PROVE  RollupInv'
  <1> DEFINE wrote == job.wrote
             rows == metrics
             ok == job.ok
  <1>1. /\ FactTypes /\ EventsFollow /\ PassTypes /\ PassShape /\ DaysAreOver
        /\ StoredIsExact /\ PassIsExact /\ Counted(metrics) /\ Counted(job.wrote)
    BY DEF RollupInv
  <1>2. /\ job.phase = "running" /\ job.pos = Units
        /\ metrics' = Upsert(wrote, rows)
        /\ job' = [NoPass EXCEPT !.phase = "done", !.tries = job.tries]
        /\ stale' = stale \ ok /\ night' = Night(job.at) /\ late' = (late \/ job.at % DayLen # 0)
        /\ UNCHANGED <<offset, now, facts, changes, failures, missed>>
    BY DEF CommitPass
  <1>3. \A dk : Metric(dk[2], dk[1])' = Metric(dk[2], dk[1])
    BY <1>2, MetricStays
  <1>4. /\ job'.phase = "done" /\ job'.tries = job.tries /\ job'.at = 0
        /\ job'.pos = 0 /\ job'.wrote = <<>> /\ job'.ok = {}
    BY <1>2 DEF NoPass
  <1>5. PassShape'
    BY <1>2, <1>4 DEF PassShape, NoPass
  <1>6. /\ DOMAIN Upsert(wrote, rows) = DOMAIN wrote \cup DOMAIN rows
        /\ \A dk \in DOMAIN wrote : Upsert(wrote, rows)[dk] = wrote[dk]
        /\ \A dk \in DOMAIN rows : dk \notin DOMAIN wrote => Upsert(wrote, rows)[dk] = rows[dk]
    <2> HIDE DEF wrote, rows
    <2>1. QED BY UpsertFacts
  <1> HIDE DEF wrote, rows, ok
  <1>7. DOMAIN metrics' = DOMAIN wrote \cup DOMAIN rows
    BY <1>2, <1>6
  <1>8. ASSUME NEW dk \in DOMAIN metrics'
        PROVE  \/ dk \in DOMAIN wrote /\ metrics'[dk] = wrote[dk]
               \/ dk \in DOMAIN rows /\ dk \notin DOMAIN wrote /\ metrics'[dk] = rows[dk]
    BY <1>2, <1>6, <1>7
  <1>9. PassTypes'
    <2>1. 0 \in Instants /\ 0 \in 0..Units /\ job.tries \in 0..PassTries
      BY <1>1, RollupAssumption, RollupConstants DEF Units, PassTypes
    <2>2. IsTable(metrics')
      <3>1. \A dk \in DOMAIN metrics' : dk \in Days \X METRIC_KEYS
        BY <1>1, <1>7 DEF IsTable, PassTypes, rows, wrote
      <3>2. \A dk \in DOMAIN metrics' : metrics'[dk] \in Nat \X Nat
        BY <1>1, <1>8 DEF IsTable, PassTypes, rows, wrote
      <3>3. QED BY <3>1, <3>2 DEF IsTable
    <2>3. night' \in Nat /\ late' \in BOOLEAN
      BY <1>1, <1>2, NightFacts DEF PassTypes
    <2>4. IsTable(job.wrote)'
      BY <1>4, EmptyTable
    <2>5. stale' \subseteq Days \X METRIC_KEYS /\ job'.ok \subseteq stale'
      BY <1>1, <1>2, <1>4 DEF PassTypes
    <2>6. job'.phase \in {"none", "queued", "running", "done"} /\ job'.tries \in 0..PassTries
          /\ job'.at \in Instants /\ (job.pos \in 0..Units)'
      BY <1>4, <2>1 DEF Units
    <2>7. IsTable(metrics)'
      BY <2>2 DEF IsTable
    <2>8. /\ offset' \in Offsets /\ now' \in Instants /\ changes' \in 0..MaxChanges
          /\ failures' \in 0..MaxFailures /\ missed' \in Nat
      BY <1>1, <1>2 DEF PassTypes
    <2>9. QED BY <2>3, <2>4, <2>5, <2>6, <2>7, <2>8 DEF PassTypes
  <1>10. FactTypes' /\ EventsFollow' /\ Completed' = Completed
    <2>1. /\ tickets' = tickets /\ resolved' = resolved /\ chats' = chats /\ labels' = labels
          /\ drafts' = drafts /\ offset' = offset /\ now' = now
      BY <1>2 DEF facts
    <2>2. QED BY <1>1, <2>1 DEF FactTypes, EventsFollow, Completed, LocalDay
  <1>11. DaysAreOver'
    <2>1. DOMAIN metrics' \subseteq Completed /\ stale' \subseteq Completed
      BY <1>1, <1>2, <1>7 DEF DaysAreOver, wrote, rows
    <2>2. DOMAIN job'.wrote = {}
      BY <1>4, EmptyTable
    <2>3. QED BY <1>10, <2>1, <2>2 DEF DaysAreOver
  \* The rows the pass has written are exact, but for what changed since it read them;
  \* of what was stale before only what it has computed again is not stale now.
  <1>12. StoredIsExact'
    <2> SUFFICES ASSUME NEW dk \in DOMAIN metrics', dk \notin stale', Metric(dk[2], dk[1])' # Null
                 PROVE  metrics'[dk] = Metric(dk[2], dk[1])'
      BY DEF StoredIsExact
    <2>1. Metric(dk[2], dk[1])' = Metric(dk[2], dk[1]) /\ Metric(dk[2], dk[1]) # Null
      BY <1>3
    <2>2. dk \notin stale \/ dk \in ok
      BY <1>2
    <2>3. CASE dk \in DOMAIN wrote /\ metrics'[dk] = wrote[dk]
      BY <1>1, <2>1, <2>2, <2>3 DEF PassIsExact, wrote, ok
    <2>4. CASE dk \in DOMAIN rows /\ dk \notin DOMAIN wrote /\ metrics'[dk] = rows[dk]
      <3>1. dk \notin ok
        BY <1>1, <2>1, <2>4 DEF PassIsExact, wrote, ok
      <3>2. QED BY <1>1, <2>1, <2>2, <2>4, <3>1 DEF StoredIsExact, rows
    <2>5. QED BY <1>8, <2>3, <2>4
  <1>13. PassIsExact'
    BY <1>4, EmptyTable DEF PassIsExact
  <1>14. Counted(metrics)' /\ Counted(job.wrote)'
    <2>1. \A e : CreatedOn(e)' = CreatedOn(e)
      BY <1>2 DEF CreatedOn, OnDay, DayStart, DayEnd, facts
    <2>2. \A dk \in DOMAIN metrics' :
              dk[2] = "tickets_created" => metrics'[dk][1] <= Cardinality(CreatedOn(dk[1]))
      BY <1>1, <1>8 DEF Counted, wrote, rows
    <2>3. DOMAIN job'.wrote = {}
      BY <1>4, EmptyTable
    <2>4. QED BY <2>1, <2>2, <2>3 DEF Counted
  <1>15. QED BY <1>5, <1>9, <1>10, <1>11, <1>12, <1>13, <1>14 DEF RollupInv

LEMMA RollupStep == RollupInv /\ [RollupNext]_rollupVars => RollupInv'
  <1> SUFFICES ASSUME RollupInv, [RollupNext]_rollupVars
               PROVE  RollupInv'
    OBVIOUS
  <1>1. FactTypes /\ EventsFollow /\ PassTypes /\ PassShape
    BY DEF RollupInv
  <1>2. CASE TicketNext
    BY <1>1, <1>2, TicketNextCommits, CommitKeeps
  <1>3. CASE ChatNext
    BY <1>1, <1>3, ChatNextCommits, CommitKeeps
  <1>4. CASE DraftNext
    BY <1>1, <1>4, DraftNextCommits, CommitKeeps
  <1>5. CASE PassNext
    BY <1>5, TickKeeps, BeginPassKeeps, RollupFamilyKeeps, FailFamilyKeeps, CommitPassKeeps,
       PassStopsKeeps DEF PassNext
  <1>6. CASE UNCHANGED rollupVars
    <2>1. /\ UNCHANGED <<offset, facts, metrics, stale>> /\ now' = now /\ job' = job
          /\ UNCHANGED <<changes, failures, night, missed, late>>
      BY <1>6 DEF rollupVars, facts
    <2>2. PassTypes' /\ PassShape'
      BY <1>1, <2>1 DEF PassTypes, PassShape, IsTable, Units
    <2>3. now <= now'
      BY <1>1, <2>1, RollupConstants DEF PassTypes
    <2>4. QED BY <2>1, <2>2, <2>3, QuietKeeps
  <1>7. QED BY <1>2, <1>3, <1>4, <1>5, <1>6 DEF RollupNext

LEMMA RollupStart == RollupInit => RollupInv
  <1> SUFFICES ASSUME RollupInit
               PROVE  RollupInv
    OBVIOUS
  <1>1. FactTypes
    BY DEF RollupInit, FactTypes, TicketRow, ChatRow, LabelRow, DraftRow, Nullable
  <1>2. EventsFollow
    BY DEF RollupInit, EventsFollow
  <1>3. /\ job.phase = "none" /\ job.tries = 0 /\ job.at = 0 /\ job.pos = 0
        /\ job.wrote = <<>> /\ job.ok = {} /\ PassShape
    BY DEF RollupInit, NoPass, PassShape
  <1>4. 0 \in 0..PassTries /\ 0 \in Instants /\ 0 \in 0..Units /\ 0 \in 0..MaxChanges
        /\ 0 \in 0..MaxFailures
    BY RollupAssumption, RollupConstants DEF Units
  <1>5. PassTypes
    BY <1>3, <1>4, EmptyTable DEF RollupInit, PassTypes
  <1>6. DOMAIN metrics = {} /\ DOMAIN job.wrote = {} /\ stale = {}
    BY <1>3, EmptyTable DEF RollupInit
  <1>7. DaysAreOver /\ StoredIsExact /\ PassIsExact /\ Counted(metrics) /\ Counted(job.wrote)
    BY <1>3, <1>6 DEF DaysAreOver, StoredIsExact, PassIsExact, Counted
  <1>8. QED BY <1>1, <1>2, <1>3, <1>5, <1>7 DEF RollupInv

\* What the pass has computed, what it has stored and what changed since fit together
\* at every moment (rollup_daily_metrics, upsert_daily_metrics).
THEOREM RollupInvariant == RollupSpec => []RollupInv
  BY RollupStart, RollupStep, PTL DEF RollupSpec

\* Facts, rows and the pass keep their types: an average that is stored is a pair of
\* natural numbers, so no ticket is resolved before it is created.
THEOREM RollupTypes == RollupSpec => []RollupTypeOK
  BY RollupInvariant, RollupTypesHold, PTL

\* A stored figure is the one its day has now, unless the facts changed after the day
\* was over and no pass has run since: whatever commits, fails or crashes in the middle
\* of one, in every zone.
THEOREM StoredFiguresAreExact == RollupSpec => []StoredIsExact
  <1>1. RollupInv => StoredIsExact
    BY DEF RollupInv
  <1>2. QED BY <1>1, RollupInvariant, PTL

-----------------------------------------------------------------------------

\* The bounds of a day's query are those of the local date.
LEMMA OnDayIsLocalDay ==
    ASSUME NEW i \in Int, i # Null, NEW d \in Int, offset \in Int
    PROVE  OnDay(i, d) <=> LocalDay(i) = d
  <1>1. DayLen \in Nat /\ DayLen > 0 /\ DayLen * d \in Int /\ d * DayLen = DayLen * d
    BY RollupConstants
  <1>2. OnDay(i, d) <=> DayLen * d <= i + offset /\ i + offset < DayLen * d + DayLen
    BY <1>1 DEF OnDay, DayStart, DayEnd
  <1>3. ASSUME OnDay(i, d) PROVE LocalDay(i) = d
    BY <1>1, <1>2, <1>3, DivIs DEF LocalDay
  <1>4. ASSUME LocalDay(i) = d PROVE OnDay(i, d)
    <2>1. (i + offset) \div DayLen = d /\ i + offset \in Int
      BY <1>4 DEF LocalDay
    <2>2. /\ (i + offset) % DayLen \in 0..(DayLen - 1)
          /\ i + offset = DayLen * d + ((i + offset) % DayLen)
      BY <1>1, <2>1, DivMod
    <2>3. QED BY <1>1, <1>2, <2>1, <2>2
  <1>5. QED BY <1>3, <1>4

\* The stored counts are those of disjoint sets of tickets.
LEMMA CountedOnce == RollupInv => EachCountedOnce
  <1> SUFFICES ASSUME RollupInv
               PROVE  EachCountedOnce
    OBVIOUS
  <1> DEFINE days == {d \in Days : <<d, "tickets_created">> \in DOMAIN metrics}
             f == [d \in days |-> metrics[<<d, "tickets_created">>][1]]
             C == [d \in days |-> CreatedOn(d)]
             before == {t \in Tickets : tickets[t].created # Null
                              /\ LocalDay(tickets[t].created) \in 0..(LocalDay(now) - 1)}
             all == UNION {C[d] : d \in days}
             fresh == \A d \in 0..(LocalDay(now) - 1) :
                          d \in days /\ <<d, "tickets_created">> \notin stale
  <1>1. /\ FactTypes /\ EventsFollow /\ PassTypes /\ DaysAreOver /\ StoredIsExact
        /\ Counted(metrics)
    BY DEF RollupInv
  <1>2. MaxDay \in Nat /\ Days \subseteq Nat /\ IsFiniteSet(Days)
    BY RollupAssumption, FS_Interval DEF Days
  <1>3. IsFiniteSet(days) /\ days \subseteq Nat
    BY <1>2, FS_Subset
  <1>4. offset \in Int /\ now \in Int /\ LocalDay(now) \in Int
    BY <1>1, RollupConstants DEF PassTypes, LocalDay
  <1>5. ASSUME NEW d \in days
        PROVE  /\ d < LocalDay(now)
               /\ f[d] = metrics[<<d, "tickets_created">>][1]
               /\ f[d] \in Nat /\ f[d] <= Cardinality(C[d])
               /\ C[d] = CreatedOn(d) /\ C[d] \subseteq Tickets
    <2> DEFINE dk == <<d, "tickets_created">>
    <2>1. dk \in DOMAIN metrics /\ dk[1] = d /\ dk[2] = "tickets_created"
      OBVIOUS
    <2>2. f[d] = metrics[dk][1] /\ C[d] = CreatedOn(d)
      OBVIOUS
    <2> HIDE DEF dk, f, C
    <2>3. metrics[dk] \in Nat \X Nat /\ dk \in Completed
      BY <1>1, <2>1 DEF PassTypes, IsTable, DaysAreOver
    <2>4. metrics[dk][1] \in Nat /\ metrics[dk][1] <= Cardinality(CreatedOn(d))
      BY <1>1, <2>1, <2>3 DEF Counted
    <2>5. d < LocalDay(now) /\ CreatedOn(d) \subseteq Tickets
      BY <2>1, <2>3 DEF Completed, CreatedOn
    <2>6. QED BY <2>2, <2>4, <2>5 DEF dk
  <1>6. ASSUME NEW t \in Tickets, NEW d \in Nat
        PROVE  t \in CreatedOn(d) <=>
                   tickets[t].created # Null /\ LocalDay(tickets[t].created) = d
    <2> DEFINE i == tickets[t].created
    <2>1. i \in Instants \cup {Null}
      BY <1>1 DEF FactTypes, TicketRow, Nullable
    <2>2. CASE i = Null
      BY <2>2 DEF CreatedOn, OnDay
    <2>3. CASE i # Null
      <3>1. i \in Int /\ i # Null /\ d \in Int
        <4>1. i \in Instants
          BY <2>1, <2>3
        <4>2. \A j \in Instants : j \in Int
          BY RollupConstants
        <4> HIDE DEF i
        <4>3. QED BY <2>3, <4>1, <4>2
      <3> HIDE DEF i
      <3>2. OnDay(i, d) <=> LocalDay(i) = d
        BY <1>4, <3>1, OnDayIsLocalDay
      <3>3. QED BY <3>1, <3>2 DEF CreatedOn, i
    <2>4. QED BY <2>2, <2>3
  <1>7. \A d, e \in days : d # e => C[d] \cap C[e] = {}
    <2> SUFFICES ASSUME NEW d \in days, NEW e \in days, NEW t \in C[d] \cap C[e], d # e
                 PROVE  FALSE
      OBVIOUS
    <2>1. t \in Tickets /\ t \in CreatedOn(d) /\ t \in CreatedOn(e) /\ d \in Nat /\ e \in Nat
      BY <1>3, <1>5
    <2>2. QED BY <1>6, <2>1
  <1>8. all \subseteq before
    <2> SUFFICES ASSUME NEW d \in days, NEW t \in C[d]
                 PROVE  t \in before
      OBVIOUS
    <2>1. /\ d \in Nat /\ d < LocalDay(now) /\ t \in CreatedOn(d) /\ t \in Tickets
      BY <1>3, <1>5
    <2>2. tickets[t].created # Null /\ LocalDay(tickets[t].created) = d
      BY <1>6, <2>1
    <2>3. QED BY <1>4, <2>1, <2>2
  <1>9. fresh => before \subseteq all
    <2> SUFFICES ASSUME fresh, NEW t \in before
                 PROVE  t \in all
      OBVIOUS
    <2> DEFINE d == LocalDay(tickets[t].created)
    <2>1. d \in 0..(LocalDay(now) - 1) /\ tickets[t].created # Null /\ t \in Tickets
      OBVIOUS
    <2>2. d \in days /\ d \in Nat
      BY <1>3, <2>1
    <2>3. t \in CreatedOn(d)
      BY <1>6, <2>1, <2>2
    <2> HIDE DEF d
    <2>4. C[d] = CreatedOn(d)
      BY <2>2
    <2>5. QED BY <2>2, <2>3, <2>4
  <1>10. fresh => \A d \in days : f[d] = Cardinality(C[d])
    <2> SUFFICES ASSUME fresh, NEW d \in days
                 PROVE  f[d] = Cardinality(C[d])
      OBVIOUS
    <2> DEFINE dk == <<d, "tickets_created">>
    <2>1. d \in Nat /\ d < LocalDay(now) /\ f[d] = metrics[dk][1] /\ C[d] = CreatedOn(d)
      BY <1>3, <1>5
    <2>2. d \in 0..(LocalDay(now) - 1)
      BY <1>4, <2>1
    <2>3. dk \in DOMAIN metrics /\ dk \notin stale /\ dk[1] = d /\ dk[2] = "tickets_created"
      BY <2>2
    <2>4. "tickets_created" \in UNION {Keys[g] : g \in DOMAIN Keys}
      BY DEF Keys
    <2>5. /\ Metric("tickets_created", d) = <<Cardinality(CreatedOn(d)), 1>>
          /\ Metric("tickets_created", d) # Null
      BY <1>1, <2>4, MetricType
    <2> HIDE DEF dk, f, C, fresh
    <2>6. metrics[dk] = Metric("tickets_created", d)
      BY <1>1, <2>3, <2>5 DEF StoredIsExact
    <2>7. metrics[dk][1] = Cardinality(CreatedOn(d))
      BY <2>5, <2>6
    <2>8. QED BY <2>1, <2>7
  <1>11. /\ SumFunction(f) \in Nat
         /\ SumFunction(f) <= Cardinality(all)
         /\ (\A d \in days : f[d] = Cardinality(C[d])) => SumFunction(f) = Cardinality(all)
    <2>1. DOMAIN f = days
      OBVIOUS
    <2>2. IsFiniteSet(Tickets)
      BY RollupConstants
    <2> HIDE DEF days, f, C
    <2>3. /\ \A d \in days : f[d] \in Nat /\ f[d] <= Cardinality(C[d])
          /\ \A d \in days : C[d] \subseteq Tickets
      BY <1>5
    <2>4. IsFiniteSet(days)
      BY <1>3
    <2>5. QED BY <1>7, <2>1, <2>2, <2>3, <2>4, SumCounts
  <1>12. /\ Cardinality(all) \in Nat /\ Cardinality(before) \in Nat
         /\ Cardinality(all) <= Cardinality(before)
    <2>1. IsFiniteSet(before)
      BY RollupConstants, FS_Subset
    <2> HIDE DEF all, before
    <2>2. QED BY <1>8, <2>1, FS_Subset, FS_CardinalityType
  <1>13. fresh => all = before
    BY <1>8, <1>9
  <1>14. /\ SumFunction(f) <= Cardinality(before)
         /\ fresh => SumFunction(f) = Cardinality(before)
    <2> HIDE DEF all, before, f, C, days, fresh
    <2>1. QED BY <1>10, <1>11, <1>12, <1>13
  <1>15. QED BY <1>14 DEF EachCountedOnce

\* The stored days never count a ticket twice, and once all of them are fresh they count
\* each ticket created before today once (local_day_utc_bounds, _completed_local_days).
THEOREM TicketsCountedOnce == RollupSpec => []EachCountedOnce
  BY RollupInvariant, CountedOnce, PTL

-----------------------------------------------------------------------------

\* At instant i the local day is that of the night's first slot, or the next.
LEMMA LocalDayOfNight ==
    ASSUME NEW i \in Instants, offset \in Offsets
    PROVE  LET n == Night(i)
               c == LocalDay(0)
           IN  /\ n \in Nat /\ c \in Int /\ c <= 0
               /\ LocalDay(i) \in {n + c, n + c + 1}
               /\ i % DayLen = 0 => LocalDay(i) = n + c
               /\ LocalDay(DayLen * n) = n + c
  <1> DEFINE L == DayLen
             n == Night(i)
             c == LocalDay(0)
             a == i % L
             r == offset % L
  <1>1. L \in Nat \ {0} /\ i \in Nat /\ offset \in Int /\ offset < L
    BY RollupConstants, RollupAssumption
  <1>2. n \in Nat /\ c \in Int /\ a \in 0..(L - 1) /\ r \in 0..(L - 1)
        /\ i = L * n + a /\ offset = L * c + r
    BY <1>1, NightFacts, DivMod DEF Night, LocalDay
  <1> HIDE DEF n, c, a, r
  <1>3. /\ L * (n + c) = L * n + L * c /\ L * (n + c + 1) = L * n + L * c + L
        /\ L * n \in Int /\ L * c \in Int /\ n + c \in Int /\ n + c + 1 \in Int
    BY <1>1, <1>2
  <1>4. i + offset = L * (n + c) + (a + r)
    BY <1>1, <1>2, <1>3
  <1>5. ASSUME NEW q \in {n + c, n + c + 1}, L * q <= i + offset, i + offset < L * q + L
        PROVE  LocalDay(i) = q
    <2>1. q \in Int /\ i + offset \in Int /\ L \in Nat \ {0}
      BY <1>1, <1>3
    <2>2. (i + offset) \div L = q
      BY <1>5, <2>1, DivIs
    <2>3. QED BY <2>2 DEF LocalDay, L
  <1>6. a + r < L => LocalDay(i) = n + c
    <2>1. a + r < L => L * (n + c) <= i + offset /\ i + offset < L * (n + c) + L
      BY <1>1, <1>2, <1>3, <1>4
    <2>2. QED BY <1>5, <2>1
  <1>7. ~(a + r < L) => LocalDay(i) = n + c + 1
    <2>1. ~(a + r < L) => L * (n + c + 1) <= i + offset /\ i + offset < L * (n + c + 1) + L
      BY <1>1, <1>2, <1>3, <1>4
    <2>2. QED BY <1>5, <2>1
  <1>8. LocalDay(L * n) = n + c
    <2> DEFINE z == L * n + offset
    <2>1. z \in Int /\ L * (n + c) <= z /\ z < L * (n + c) + L
      BY <1>1, <1>2, <1>3
    <2> HIDE DEF z
    <2>2. z \div L = n + c
      BY <1>1, <1>3, <2>1, DivIs
    <2>3. QED BY <2>2 DEF LocalDay, L, z
  <1>9. c <= 0
    <2>1. L * 1 = L
      BY <1>1
    <2>2. 0 < c => L * 0 + L <= L * c
      BY <1>1, <1>2, MulLess
    <2>3. QED BY <1>1, <1>2, <1>3, <2>2
  <1>10. a = 0 => LocalDay(i) = n + c
    BY <1>1, <1>2, <1>6
  <1> HIDE DEF L
  <1>11. QED BY <1>2, <1>6, <1>7, <1>8, <1>9, <1>10 DEF n, c, a, L

\* No family has failed, and the passes have been as NoGap asks.
OnTime == failures = 0 /\ (missed = 0 \/ (~late /\ missed < Lookback))

\* The day and the family of the q-th unit of the running pass.
DayOf(q) == CompletedDay(job.at, (q \div Len(Families)) + 1)

FamilyOf(q) == Families[(q % Len(Families)) + 1]

\* The last pass left rows of every day before its own, and the running one has those
\* of the units it is through with.
GapInv ==
    /\ night <= Night(now) /\ MissedBy(Night(now)) <= missed
    /\ OnTime => \A d \in Days :
           d < night + LocalDay(0) => <<d, "tickets_created">> \in DOMAIN metrics
    /\ job.phase = "running" /\ failures = 0 => \A q \in 0..(job.pos - 1) :
           DayOf(q) \in Days /\ FamilyOf(q) = "tickets"
               => <<DayOf(q), "tickets_created">> \in DOMAIN job.wrote

\* Nights follow the clock.
LEMMA NightGrows ==
    ASSUME NEW i \in Instants, NEW j \in Instants, i <= j
    PROVE  Night(i) <= Night(j)
  <1>1. i \in Int /\ j \in Int /\ DayLen \in Nat \ {0}
    BY RollupConstants
  <1>2. QED BY <1>1, DivMono DEF Night

\* A step that leaves the clock, the nights, the rows and the pass as they are.
LEMMA GapStays ==
    ASSUME GapInv, UNCHANGED <<offset, now, metrics, failures, night, missed, late>>,
           \/ /\ job'.phase = job.phase /\ job'.at = job.at /\ job'.pos = job.pos
              /\ job'.wrote = job.wrote
           \/ job'.phase # "running" \/ job'.pos = 0
    PROVE  GapInv'
  <1>1. LocalDay(0)' = LocalDay(0) /\ Night(now)' = Night(now)
        /\ MissedBy(Night(now))' = MissedBy(Night(now)) /\ OnTime' = OnTime
    BY DEF LocalDay, Night, MissedBy, OnTime
  <1>2. /\ (night <= Night(now) /\ MissedBy(Night(now)) <= missed)'
        /\ (OnTime => \A d \in Days :
                d < night + LocalDay(0) => <<d, "tickets_created">> \in DOMAIN metrics)'
    BY <1>1 DEF GapInv
  <1>3. ASSUME job'.phase = "running", failures' = 0, NEW q \in 0..(job'.pos - 1),
               DayOf(q)' \in Days, FamilyOf(q) = "tickets"
        PROVE  <<DayOf(q)', "tickets_created">> \in DOMAIN job'.wrote
    <2>1. CASE /\ job'.phase = job.phase /\ job'.at = job.at /\ job'.pos = job.pos
               /\ job'.wrote = job.wrote
      <3>1. DayOf(q)' = DayOf(q)
        BY <2>1 DEF DayOf, CompletedDay, LocalDay
      <3>2. QED BY <1>3, <2>1, <3>1 DEF GapInv
    <2>2. CASE job'.pos = 0
      BY <1>3, <2>2
    <2>3. QED BY <1>3, <2>1, <2>2
  <1>4. QED BY <1>2, <1>3 DEF GapInv, FamilyOf

\* Every day of the window and every family has its unit.
LEMMA UnitOf ==
    ASSUME NEW j \in 1..Lookback, NEW i \in 1..Len(Families)
    PROVE  \E q \in 0..(Units - 1) :
               q \div Len(Families) = j - 1 /\ q % Len(Families) = i - 1
  <1> DEFINE F == Len(Families)
             q == F * (j - 1) + (i - 1)
  <1>1. F \in Nat \ {0} /\ Lookback \in Nat
    BY RollupAssumption
  <1>2. Units = Lookback * F /\ Lookback * F = F * Lookback /\ F * Lookback \in Int
    BY <1>1 DEF Units
  <1> HIDE DEF F
  <1>3. F * (j - 1) \in Nat /\ j - 1 \in Int /\ i \in 1..F
    BY <1>1 DEF F
  <1>4. j - 1 < Lookback
    BY <1>1
  <1>5. F * (j - 1) + F <= F * Lookback
    BY <1>1, <1>3, <1>4, MulLess
  <1>6. q \in 0..(Units - 1)
    BY <1>1, <1>2, <1>3, <1>5
  <1>7. q \div F = j - 1
    <2>1. q \in Int /\ F * (j - 1) <= q /\ q < F * (j - 1) + F
      BY <1>1, <1>3
    <2> HIDE DEF q
    <2>2. QED BY <1>1, <1>3, <2>1, DivIs
  <1>8. q % F = i - 1
    <2>1. q \in Int
      BY <1>6, <1>1, <1>2, <1>3
    <2> HIDE DEF q
    <2>5. \A x \in Int : x = F * (x \div F) + (x % F) /\ x % F \in Int
      <3> SUFFICES ASSUME NEW x \in Int
                   PROVE  x = F * (x \div F) + (x % F) /\ x % F \in Int
        OBVIOUS
      <3>1. x % F \in 0..(F - 1) /\ x = F * (x \div F) + (x % F)
        BY <1>1, DivMod
      <3>2. QED BY <1>1, <3>1
    <2>2. q = F * (j - 1) + (q % F) /\ q % F \in Int
      BY <1>7, <2>1, <2>5
    <2>3. q = F * (j - 1) + (i - 1)
      BY DEF q
    <2>4. QED BY <1>1, <1>3, <2>2, <2>3
  <1> HIDE DEF q
  <1>9. QED BY <1>6, <1>7, <1>8 DEF F

\* A pass that is committed covers the days since the last one, if it is on time.
LEMMA CommitPassCovers ==
    ASSUME RollupInv, GapInv, CommitPass, Lookback > 1, "tickets" \in Range(Families)
    PROVE  GapInv'
  <1> DEFINE n == Night(now)
             c == LocalDay(0)
             D == LocalDay(now)
  <1>1. PassTypes /\ PassShape
    BY DEF RollupInv
  <1>2. /\ job.phase = "running" /\ job.pos = Units /\ job.at = now
        /\ metrics' = Upsert(job.wrote, metrics)
        /\ night' = n /\ late' = (late \/ now % DayLen # 0)
        /\ UNCHANGED <<offset, now, failures, missed>> /\ job'.phase # "running"
    BY <1>1 DEF CommitPass, PassShape, NoPass
  <1>3. /\ n \in Nat /\ c \in Int /\ D \in {n + c, n + c + 1}
        /\ now % DayLen = 0 => D = n + c
    BY <1>1, LocalDayOfNight DEF PassTypes
  <1>4. /\ LocalDay(0)' = c /\ Night(now)' = n /\ MissedBy(Night(now))' = 0
    BY <1>2, <1>3 DEF LocalDay, Night, MissedBy
  <1>5. DOMAIN metrics' = DOMAIN job.wrote \cup DOMAIN metrics
    BY <1>2, UpsertFacts
  <1>6. ASSUME OnTime', NEW d \in Days, d < n + c
        PROVE  <<d, "tickets_created">> \in DOMAIN metrics'
    <2>1. OnTime /\ failures = 0 /\ (missed = 0 \/ (now % DayLen = 0 /\ missed < Lookback))
      BY <1>2, <1>6 DEF OnTime
    <2>2. CASE d < night + c
      BY <1>5, <2>1, <2>2 DEF GapInv
    <2>3. CASE ~(d < night + c)
      <3>1. d \in Nat /\ night \in Nat /\ missed \in Nat /\ Lookback \in Nat
        BY <1>1, RollupAssumption DEF Days, PassTypes
      <3>2. n <= night + 1 + missed
        <4>1. MissedBy(n) <= missed
          BY DEF GapInv
        <4>2. QED BY <1>3, <3>1, <4>1 DEF MissedBy
      <3> HIDE DEF n, c, D
      <3> DEFINE j == D - d
      <3>3. j \in 1..Lookback
        <4>1. D \in Int /\ j \in Int /\ j >= 1
          BY <1>3, <1>6, <3>1
        <4>2. CASE missed = 0
          BY <1>3, <2>3, <3>1, <3>2, <4>1, <4>2
        <4>3. CASE now % DayLen = 0 /\ missed < Lookback
          BY <1>3, <2>3, <3>1, <3>2, <4>1, <4>3
        <4>4. QED BY <2>1, <4>2, <4>3
      <3> HIDE DEF j
      <3>4. PICK i \in 1..Len(Families) : Families[i] = "tickets"
        BY RollupAssumption DEF Range
      <3>5. PICK q \in 0..(Units - 1) :
                q \div Len(Families) = j - 1 /\ q % Len(Families) = i - 1
        BY <3>3, UnitOf
      <3>6. DayOf(q) = d
        <4>1. DayOf(q) = D - ((q \div Len(Families)) + 1)
          BY <1>2 DEF DayOf, CompletedDay, D
        <4>2. D \in Int
          BY <1>3
        <4>3. QED BY <3>1, <3>3, <3>5, <4>1, <4>2 DEF j
      <3>7. FamilyOf(q) = "tickets"
        <4>1. (q % Len(Families)) + 1 = i
          BY <3>4, <3>5
        <4>2. QED BY <3>4, <4>1 DEF FamilyOf
      <3>8. <<d, "tickets_created">> \in DOMAIN job.wrote
        BY <1>2, <2>1, <3>6, <3>7 DEF GapInv
      <3>9. QED BY <1>5, <3>8
    <2>4. QED BY <2>2, <2>3
  <1>7. (night <= Night(now) /\ MissedBy(Night(now)) <= missed)'
    <2>1. missed \in Nat
      BY <1>1 DEF PassTypes
    <2> HIDE DEF n, c, D
    <2>2. QED BY <1>2, <1>3, <1>4, <2>1
  <1> HIDE DEF n, c, D
  <1>8. QED BY <1>2, <1>4, <1>6, <1>7 DEF GapInv

\* A family that succeeds has its rows.
LEMMA RollupFamilyCovers ==
    ASSUME RollupInv, GapInv, RollupFamily
    PROVE  GapInv'
  <1> DEFINE R == Rows(UnitDay, UnitFamily)
  <1>1. FactTypes /\ EventsFollow /\ PassTypes /\ PassShape
    BY DEF RollupInv
  <1>2. /\ job.phase = "running" /\ job.pos < Units
        /\ job'.phase = job.phase /\ job'.at = job.at /\ job'.pos = job.pos + 1
        /\ job'.wrote = IF UnitDay \in Days THEN Upsert(R, job.wrote) ELSE job.wrote
        /\ UNCHANGED <<offset, now, metrics, failures, night, missed, late>>
    BY <1>1 DEF RollupFamily, PassShape
  <1>3. UnitFamily \in DOMAIN Keys /\ Keys[UnitFamily] \subseteq METRIC_KEYS
    BY <1>1, <1>2, UnitFacts
  <1>4. DOMAIN Upsert(R, job.wrote) = DOMAIN R \cup DOMAIN job.wrote
    BY UpsertFacts
  <1>5. LocalDay(0)' = LocalDay(0) /\ Night(now)' = Night(now)
        /\ MissedBy(Night(now))' = MissedBy(Night(now)) /\ OnTime' = OnTime
    BY <1>2 DEF LocalDay, Night, MissedBy, OnTime
  <1>6. /\ (night <= Night(now) /\ MissedBy(Night(now)) <= missed)'
        /\ (OnTime => \A d \in Days :
                d < night + LocalDay(0) => <<d, "tickets_created">> \in DOMAIN metrics)'
    BY <1>2, <1>5 DEF GapInv
  <1>7. \A q : DayOf(q)' = DayOf(q)
    BY <1>2 DEF DayOf, CompletedDay, LocalDay
  <1> HIDE DEF R
  <1>8. ASSUME failures = 0, NEW q \in 0..job.pos, DayOf(q) \in Days, FamilyOf(q) = "tickets"
        PROVE  <<DayOf(q), "tickets_created">> \in DOMAIN job'.wrote
    <2>1. CASE q = job.pos
      <3>1. UnitDay = DayOf(q) /\ UnitFamily = "tickets"
        BY <1>8, <2>1 DEF UnitDay, UnitFamily, DayOf, FamilyOf
      <3> DEFINE d == UnitDay
                 dk == <<d, "tickets_created">>
      <3>2. d \in Days /\ "tickets_created" \in Keys["tickets"]
        BY <1>8, <3>1 DEF Keys
      <3>3. "tickets_created" \in UNION {Keys[g] : g \in DOMAIN Keys}
        BY DEF Keys
      <3> HIDE DEF d
      <3>4. Metric("tickets_created", d) # Null
        BY <1>1, <3>3, MetricType
      <3>5. DOMAIN R = {d} \X {k \in Keys[UnitFamily] : Metric(k, d) # Null}
        BY <1>3, <3>2, RowsFacts DEF R, d
      <3>6. dk \in DOMAIN R
        BY <3>1, <3>2, <3>4, <3>5
      <3>7. QED BY <1>2, <1>4, <3>1, <3>2, <3>6 DEF d
    <2>2. CASE q # job.pos
      <3>1. q \in 0..(job.pos - 1)
        BY <1>1, <2>2 DEF PassTypes, Units
      <3>2. <<DayOf(q), "tickets_created">> \in DOMAIN job.wrote
        BY <1>2, <1>8, <3>1 DEF GapInv
      <3>3. QED BY <1>2, <1>4, <3>2
    <2>3. QED BY <2>1, <2>2
  <1>9. (job.pos + 1) - 1 = job.pos
    BY <1>1, RollupAssumption DEF PassTypes, Units
  <1>10. QED BY <1>2, <1>6, <1>7, <1>8, <1>9 DEF GapInv, FamilyOf

\* A slot passes: the nights without a pass are counted.
LEMMA TickWaits ==
    ASSUME RollupInv, GapInv, Tick
    PROVE  GapInv'
  <1>1. PassTypes
    BY DEF RollupInv
  <1>2. /\ now' = now + 1 /\ now' \in Instants /\ missed' \in Nat /\ missed' >= missed
        /\ missed' >= MissedBy(Night(now'))
        /\ UNCHANGED <<offset, metrics, failures, night, late>> /\ job'.phase # "running"
    BY TickKeeps DEF Tick, NoPass
  <1>3. now \in Instants /\ now <= now' /\ night \in Nat /\ missed \in Nat
    BY <1>1, <1>2, RollupConstants DEF PassTypes
  <1>4. Night(now) <= Night(now') /\ Night(now) \in Nat /\ Night(now') \in Nat
    BY <1>2, <1>3, NightGrows, NightFacts
  <1>5. (night <= Night(now) /\ MissedBy(Night(now)) <= missed)'
    <2>1. night <= Night(now) /\ MissedBy(Night(now')) \in Nat
      BY <1>3, <1>4 DEF GapInv, MissedBy
    <2>2. Night(now)' = Night(now') /\ MissedBy(Night(now))' = MissedBy(Night(now'))
      BY <1>2 DEF Night, MissedBy
    <2>3. QED BY <1>2, <1>3, <1>4, <2>1, <2>2
  <1>6. OnTime' => OnTime
    <2>1. Lookback \in Nat
      BY RollupConstants
    <2>2. QED BY <1>2, <1>3, <2>1 DEF OnTime
  <1>7. LocalDay(0)' = LocalDay(0)
    BY <1>2 DEF LocalDay
  <1>8. QED BY <1>2, <1>5, <1>6, <1>7 DEF GapInv

LEMMA GapStep ==
    ASSUME Lookback > 1, "tickets" \in Range(Families), RollupInv, GapInv,
           [RollupNext]_rollupVars
    PROVE  GapInv'
  <1>1. FactTypes /\ EventsFollow /\ PassTypes /\ PassShape
    BY DEF RollupInv
  <1>2. CASE TicketNext \/ ChatNext \/ DraftNext
    <2>1. Commits
      BY <1>1, <1>2, TicketNextCommits, ChatNextCommits, DraftNextCommits
    <2>2. PICK i : Change(i)
      BY <2>1 DEF Commits
    <2>3. /\ UNCHANGED <<offset, now, metrics, failures, night, missed, late>>
          /\ job'.phase = job.phase /\ job'.at = job.at /\ job'.pos = job.pos
          /\ job'.wrote = job.wrote
      BY <1>1, <2>2 DEF Change, PassShape
    <2>4. QED BY <2>3, GapStays
  <1>3. CASE Tick
    BY <1>3, TickWaits
  <1>4. CASE BeginPass
    <2>1. UNCHANGED <<offset, now, metrics, failures, night, missed, late>> /\ job'.pos = 0
      BY <1>4 DEF BeginPass
    <2>2. QED BY <2>1, GapStays
  <1>5. CASE RollupFamily
    BY <1>5, RollupFamilyCovers
  <1>6. CASE FailFamily
    <2>1. /\ UNCHANGED <<offset, now, metrics, night, missed, late>>
          /\ failures' = failures + 1 /\ failures \in 0..MaxFailures
      BY <1>1, <1>6 DEF FailFamily, PassTypes
    <2>2. failures' # 0
      BY <2>1
    <2>3. Night(now)' = Night(now) /\ MissedBy(Night(now))' = MissedBy(Night(now))
      BY <2>1 DEF Night, MissedBy
    <2>4. QED BY <2>1, <2>2, <2>3 DEF GapInv, OnTime
  <1>7. CASE CommitPass
    BY <1>7, CommitPassCovers
  <1>8. CASE CrashPass \/ EndPass
    <2>3. /\ UNCHANGED <<offset, now, metrics, failures, night, missed, late>>
          /\ \/ job' = [NoPass EXCEPT !.phase = "queued", !.tries = job.tries]
             \/ job' = NoPass
      BY <1>8 DEF CrashPass, EndPass
    <2>1. job'.phase # "running"
      <3>1. CASE job' = NoPass
        BY <3>1 DEF NoPass
      <3>2. CASE job' = [NoPass EXCEPT !.phase = "queued", !.tries = job.tries]
        BY <3>2 DEF NoPass
      <3>3. QED BY <2>3, <3>1, <3>2
    <2>2. QED BY <2>1, <2>3, GapStays
  <1>9. CASE UNCHANGED rollupVars
    <2>1. UNCHANGED <<offset, now, metrics, failures, night, missed, late>> /\ job' = job
      BY <1>9 DEF rollupVars
    <2>2. QED BY <2>1, GapStays
  <1>10. QED BY <1>2, <1>3, <1>4, <1>5, <1>6, <1>7, <1>8, <1>9 DEF RollupNext, PassNext

LEMMA GapStart == RollupInit => GapInv
  <1> SUFFICES ASSUME RollupInit
               PROVE  GapInv
    OBVIOUS
  <1>1. /\ offset \in Offsets /\ now = 0 /\ night = 0 /\ missed = 0 /\ job.phase = "none"
        /\ 0 \in Instants
    BY RollupConstants DEF RollupInit, NoPass
  <1>2. Night(0) \in Nat /\ LocalDay(0) \in Int /\ LocalDay(0) <= 0
    BY <1>1, LocalDayOfNight
  <1>3. Night(0) = 0
    <2>1. DayLen \in Nat \ {0} /\ DayLen * 0 = 0
      BY RollupConstants
    <2>2. QED BY <2>1, DivIs DEF Night
  <1>4. MissedBy(Night(now)) = 0
    BY <1>1, <1>3 DEF MissedBy
  <1>5. \A d \in Days : ~(d < night + LocalDay(0))
    BY <1>1, <1>2, RollupAssumption DEF Days
  <1>6. QED BY <1>1, <1>3, <1>4, <1>5 DEF GapInv

\* The days that left the window are before those of the last pass.
LEMMA GapImplies == RollupInv /\ GapInv => NoGap
  <1> SUFFICES ASSUME RollupInv, GapInv, OnTime, NEW d \in Days,
                      d + Lookback < LocalDay(DayLen * Night(now))
               PROVE  <<d, "tickets_created">> \in DOMAIN metrics
    BY DEF NoGap, OnTime
  <1> DEFINE n == Night(now)
             c == LocalDay(0)
  <1>1. PassTypes
    BY DEF RollupInv
  <1>2. n \in Nat /\ c \in Int /\ LocalDay(DayLen * n) = n + c
    BY <1>1, LocalDayOfNight DEF PassTypes
  <1>3. d \in Nat /\ night \in Nat /\ missed \in Nat /\ Lookback \in Nat /\ Lookback > 0
    BY <1>1, RollupAssumption DEF Days, PassTypes
  <1>4. n <= night + 1 + missed
    <2>1. MissedBy(n) <= missed
      BY DEF GapInv
    <2>2. QED BY <1>2, <1>3, <2>1 DEF MissedBy
  <1>5. missed = 0 \/ missed < Lookback
    BY DEF OnTime
  <1>6. d < night + c
    <2> HIDE DEF n, c
    <2>1. d + Lookback < n + c
      BY <1>2 DEF n
    <2>2. QED BY <1>2, <1>3, <1>4, <1>5, <2>1
  <1>7. QED BY <1>6 DEF GapInv

\* LOOKBACK_DAYS: with a window of two days or more, no completed day is left without
\* its rows, under the condition NoGap states.  (With a window of one day a late pass
\* would leave one.)
THEOREM DaysHaveNoGap ==
    ASSUME Lookback > 1, "tickets" \in Range(Families)
    PROVE  RollupSpec => []NoGap
  <1>1. RollupInit => RollupInv /\ GapInv
    BY RollupStart, GapStart
  <1>2. RollupInv /\ GapInv /\ [RollupNext]_rollupVars => (RollupInv /\ GapInv)'
    BY RollupStep, GapStep
  <1>3. RollupInv /\ GapInv => NoGap
    BY GapImplies
  <1>4. QED BY <1>1, <1>2, <1>3, PTL DEF RollupSpec

=============================================================================
