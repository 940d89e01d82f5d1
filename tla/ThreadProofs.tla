----------------------------- MODULE ThreadProofs -----------------------------
(* Theorems about what a ticket's conversation goes through: the drafts of    *)
(* Suggestions, the embedding of Summaries and the mails of Email, for any    *)
(* number of requests, jobs, messages, mails and tickets.                     *)
EXTENDS Summaries, Email, FiniteSetTheorems, TLAPS

\* FOR UPDATE is exclusive: one request at a time drafts.
OneDrafter ==
    \A r, s \in Requests :
        requests[r].phase = "drafting" /\ requests[s].phase = "drafting" => r = s

\* FOR KEY SHARE and FOR UPDATE exclude each other.
NoInsertBesideDraft ==
    Drafting => \A p \in Posts : posts[p].phase # "inserted"

\* Every stored suggestion is stale for the request that drafts the next one.
AllAreStale ==
    \A r \in Requests : requests[r].phase = "drafting" =>
        \A i \in DOMAIN drafts : \E h \in requests[r].thread : h > drafts[i].at

\* The inductive invariant: what the row lock of the ticket protects.
LockInv ==
    /\ SuggestionTypeOK
    /\ OneDrafter
    /\ NoInsertBesideDraft
    /\ ThreadStandsStill
    /\ AllAreStale
    /\ DraftsAreJustified

-----------------------------------------------------------------------------

\* A step that starts no draft, commits no message and stores no suggestion,
\* and that inserts a message only while nobody drafts, keeps the lock's promise.
LEMMA QuietStep ==
    ASSUME LockInv, SuggestionTypeOK',
           humans' = humans, drafts' = drafts,
           \A r \in Requests : requests'[r].phase = "drafting" => requests'[r] = requests[r],
           \A p \in Posts : posts'[p].phase = "inserted" =>
                                posts[p].phase = "inserted" \/ ~Drafting
    PROVE  LockInv'
  <1>1. OneDrafter'
    BY DEF LockInv, OneDrafter
  <1>2. NoInsertBesideDraft'
    BY DEF LockInv, NoInsertBesideDraft, Drafting
  <1>3. ThreadStandsStill'
    BY DEF LockInv, ThreadStandsStill
  <1>4. AllAreStale'
    BY DEF LockInv, AllAreStale
  <1>5. DraftsAreJustified'
    BY DEF LockInv, DraftsAreJustified
  <1>6. QED BY <1>1, <1>2, <1>3, <1>4, <1>5 DEF LockInv

\* A closed post is a post record.
LEMMA NoPostType == NoPost \in Post /\ NoPost.phase = "idle"
  BY SuggestionsAssumption DEF NoPost, Post, Instants

\* The steps of create_message keep the types.
LEMMA PostTypes ==
    ASSUME SuggestionTypeOK, NEW p \in Posts,
           OpenPost(p) \/ InsertPost(p) \/ CommitPost(p) \/ AbortPost(p)
    PROVE  SuggestionTypeOK'
  <1>1. CASE OpenPost(p)
    BY <1>1, SuggestionsAssumption DEF OpenPost, SuggestionTypeOK, Post, Instants
  <1>2. CASE InsertPost(p)
    BY <1>2 DEF InsertPost, SuggestionTypeOK, Post
  <1>3. CASE CommitPost(p)
    <2>1. humans \cup {posts[p].at} \in SUBSET Instants
      BY DEF SuggestionTypeOK, Post
    <2>2. QED BY <1>3, <2>1, NoPostType DEF CommitPost, SuggestionTypeOK
  <1>4. CASE AbortPost(p)
    BY <1>4, NoPostType DEF AbortPost, SuggestionTypeOK
  <1>5. QED BY <1>1, <1>2, <1>3, <1>4

\* A closed request is a request record.
LEMMA NoRequestType == NoRequest \in Request /\ NoRequest.phase = "idle"
  BY SuggestionsAssumption DEF NoRequest, Request, Instants

\* The steps of suggest_response keep the types.
LEMMA RequestTypes ==
    ASSUME SuggestionTypeOK, NEW r \in Requests,
           \/ OpenRequest(r) \/ Hit(r) \/ Miss(r) \/ HitUnderLock(r)
           \/ ReadThread(r) \/ CommitDraft(r) \/ EndWithoutDraft(r)
    PROVE  SuggestionTypeOK'
  <1>1. CASE OpenRequest(r)
    BY <1>1, SuggestionsAssumption DEF OpenRequest, SuggestionTypeOK, Request, Instants
  <1>2. CASE Hit(r) \/ HitUnderLock(r) \/ EndWithoutDraft(r)
    BY <1>2, NoRequestType DEF Hit, HitUnderLock, EndWithoutDraft, SuggestionTypeOK
  <1>3. CASE Miss(r)
    BY <1>3 DEF Miss, SuggestionTypeOK, Request
  <1>4. CASE ReadThread(r)
    BY <1>4 DEF ReadThread, SuggestionTypeOK, Request
  <1>5. CASE CommitDraft(r)
    <2>1. [at |-> requests[r].at, thread |-> requests[r].thread] \in Draft
      BY DEF SuggestionTypeOK, Request, Draft
    <2>2. QED BY <1>5, <2>1, NoRequestType DEF CommitDraft, SuggestionTypeOK
  <1>6. QED BY <1>1, <1>2, <1>3, <1>4, <1>5

\* Appending keeps the earlier suggestions where they were.
LEMMA AppendFacts ==
    ASSUME NEW d \in Draft, drafts \in Seq(Draft), drafts' = Append(drafts, d)
    PROVE  /\ DOMAIN drafts = 1..Len(drafts)
           /\ DOMAIN drafts' = 1..(Len(drafts) + 1)
           /\ Len(drafts) \in Nat
           /\ \A i \in DOMAIN drafts : drafts'[i] = drafts[i]
           /\ drafts'[Len(drafts) + 1] = d
  OBVIOUS

-----------------------------------------------------------------------------

\* Every step keeps the inductive invariant: the lock's conflicts keep the
\* conversation still, and the re-check under it justifies the draft.
LEMMA LockStep == LockInv /\ [SuggestionNext]_suggestionVars => LockInv'
  <1> SUFFICES ASSUME LockInv, [SuggestionNext]_suggestionVars
               PROVE  LockInv'
    OBVIOUS
  <1>0. SuggestionTypeOK
    BY DEF LockInv
  <1>1. ASSUME NEW p \in Posts, OpenPost(p) \/ InsertPost(p) \/ AbortPost(p)
        PROVE  LockInv'
    <2>1. SuggestionTypeOK'
      BY <1>0, <1>1, PostTypes
    <2>2. \A q \in Posts : posts'[q].phase = "inserted" =>
                               posts[q].phase = "inserted" \/ ~Drafting
      BY <1>0, <1>1 DEF OpenPost, InsertPost, AbortPost, NoPost, SuggestionTypeOK
    <2>3. humans' = humans /\ drafts' = drafts /\ requests' = requests
      BY <1>1 DEF OpenPost, InsertPost, AbortPost
    <2>4. QED BY <2>1, <2>2, <2>3, QuietStep
  <1>2. ASSUME NEW p \in Posts, CommitPost(p)
        PROVE  LockInv'
    <2>1. SuggestionTypeOK'
      BY <1>0, <1>2, PostTypes
    <2>2. ~Drafting
      BY <1>2 DEF CommitPost, LockInv, NoInsertBesideDraft
    <2>3. drafts' = drafts /\ requests' = requests
      BY <1>2 DEF CommitPost
    <2>4. QED
      BY <2>1, <2>2, <2>3
      DEF LockInv, OneDrafter, NoInsertBesideDraft, ThreadStandsStill, AllAreStale,
          DraftsAreJustified, Drafting
  <1>3. ASSUME NEW r \in Requests,
               OpenRequest(r) \/ Hit(r) \/ Miss(r) \/ HitUnderLock(r) \/ EndWithoutDraft(r)
        PROVE  LockInv'
    <2>1. SuggestionTypeOK'
      BY <1>0, <1>3, RequestTypes
    <2>2. \A s \in Requests : requests'[s].phase = "drafting" => requests'[s] = requests[s]
      BY <1>0, <1>3, NoRequestType
      DEF OpenRequest, Hit, Miss, HitUnderLock, EndWithoutDraft, SuggestionTypeOK
    <2>3. humans' = humans /\ drafts' = drafts /\ posts' = posts
      BY <1>3 DEF OpenRequest, Hit, Miss, HitUnderLock, EndWithoutDraft
    <2>4. QED BY <2>1, <2>2, <2>3, QuietStep
  <1>4. ASSUME NEW r \in Requests, ReadThread(r)
        PROVE  LockInv'
    <2>1. SuggestionTypeOK'
      BY <1>0, <1>4, RequestTypes
    <2>2. /\ humans' = humans /\ drafts' = drafts /\ posts' = posts
          /\ requests'[r].phase = "drafting" /\ requests'[r].thread = humans
          /\ \A s \in Requests : s # r => requests'[s].phase # "drafting"
      BY <1>0, <1>4 DEF ReadThread, SuggestionTypeOK, LockFree, Drafting
    <2>3. \A i \in DOMAIN drafts : \E h \in humans : h > drafts[i].at
      <3> SUFFICES ASSUME NEW i \in DOMAIN drafts
                   PROVE  \E h \in humans : h > drafts[i].at
        OBVIOUS
      <3>1. PICK h \in humans : ~(h <= drafts[i].at)
        BY <1>4 DEF ReadThread, Fresh
      <3>2. h \in Int /\ drafts[i].at \in Int
        <4>1. h \in Instants /\ drafts[i] \in Draft
          BY <1>0 DEF SuggestionTypeOK
        <4>2. QED BY <4>1, SuggestionsAssumption DEF Draft, Instants
      <3>3. QED BY <3>1, <3>2
    <2>4. OneDrafter' /\ ThreadStandsStill' /\ AllAreStale'
      BY <2>2, <2>3 DEF OneDrafter, ThreadStandsStill, AllAreStale
    <2>5. NoInsertBesideDraft'
      BY <1>4, <2>2 DEF ReadThread, LockFree, NoInsertBesideDraft
    <2>6. DraftsAreJustified'
      BY <2>2 DEF LockInv, DraftsAreJustified
    <2>7. QED BY <2>1, <2>4, <2>5, <2>6 DEF LockInv
  <1>5. ASSUME NEW r \in Requests, CommitDraft(r)
        PROVE  LockInv'
    <2> DEFINE d == [at |-> requests[r].at, thread |-> requests[r].thread]
    <2>1. SuggestionTypeOK'
      BY <1>0, <1>5, RequestTypes
    <2>2. \A s \in Requests : requests'[s].phase # "drafting"
      BY <1>0, <1>5, NoRequestType DEF CommitDraft, SuggestionTypeOK, LockInv, OneDrafter
    <2>3. OneDrafter' /\ NoInsertBesideDraft' /\ ThreadStandsStill' /\ AllAreStale'
      BY <2>2 DEF OneDrafter, NoInsertBesideDraft, ThreadStandsStill, AllAreStale, Drafting
    <2>4. DraftsAreJustified'
      <3>1. d \in Draft /\ d.thread = requests[r].thread
        BY <1>0 DEF SuggestionTypeOK, Request, Draft
      <3> HIDE DEF d
      <3>2. drafts' = Append(drafts, d) /\ drafts \in Seq(Draft)
        BY <1>0, <1>5 DEF CommitDraft, d, SuggestionTypeOK
      <3>3. /\ DOMAIN drafts = 1..Len(drafts)
            /\ DOMAIN drafts' = 1..(Len(drafts) + 1)
            /\ Len(drafts) \in Nat
            /\ \A i \in DOMAIN drafts : drafts'[i] = drafts[i]
            /\ drafts'[Len(drafts) + 1] = d
        BY <3>1, <3>2, AppendFacts
      <3>4. \A i \in DOMAIN drafts : \E h \in d.thread : h > drafts[i].at
        BY <1>5, <3>1 DEF CommitDraft, LockInv, AllAreStale
      <3> SUFFICES ASSUME NEW i \in DOMAIN drafts', NEW j \in DOMAIN drafts', i < j
                   PROVE  \E h \in drafts'[j].thread : h > drafts'[i].at
        BY DEF DraftsAreJustified
      <3>5. i \in DOMAIN drafts
        BY <3>3
      <3>6. CASE j \in DOMAIN drafts
        BY <3>3, <3>5, <3>6 DEF LockInv, DraftsAreJustified
      <3>7. CASE j = Len(drafts) + 1
        BY <3>3, <3>4, <3>5, <3>7
      <3>8. QED BY <3>3, <3>6, <3>7
    <2>5. QED BY <2>1, <2>3, <2>4 DEF LockInv
  <1>6. ASSUME UNCHANGED suggestionVars
        PROVE  LockInv'
    BY <1>6
    DEF suggestionVars, LockInv, SuggestionTypeOK, OneDrafter, NoInsertBesideDraft, ThreadStandsStill,
        AllAreStale, DraftsAreJustified, Drafting
  <1>7. QED BY <1>1, <1>2, <1>3, <1>4, <1>5, <1>6 DEF SuggestionNext

\* The row lock and the foreign key's lock together protect the conversation a
\* draft is made from (services/rag.py, suggest_response).
THEOREM LockInvariant == SuggestionSpec => []LockInv
  <1>1. SuggestionInit => LockInv
    <2>1. SuggestionInit => SuggestionTypeOK
      BY SuggestionsAssumption, NoRequestType DEF SuggestionInit, SuggestionTypeOK, Instants, NoPost, Post
    <2>2. SuggestionInit => \A r \in Requests : requests[r].phase # "drafting"
      BY NoRequestType DEF SuggestionInit
    <2>3. SuggestionInit => DOMAIN drafts = {}
      BY DEF SuggestionInit
    <2>4. QED
      BY <2>1, <2>2, <2>3
      DEF LockInv, OneDrafter, NoInsertBesideDraft, ThreadStandsStill, AllAreStale,
          DraftsAreJustified, Drafting
  <1>2. QED BY <1>1, LockStep, PTL DEF SuggestionSpec

\* The rows and the open transactions keep their types.
THEOREM SuggestionTypes == SuggestionSpec => []SuggestionTypeOK
  BY LockInvariant, PTL DEF LockInv

\* No message is committed while a draft is being made from the thread.
THEOREM ThreadStable == SuggestionSpec => []ThreadStandsStill
  BY LockInvariant, PTL DEF LockInv

\* A suggestion is stored only after the conversation outran all earlier ones.
THEOREM DraftsJustified == SuggestionSpec => []DraftsAreJustified
  BY LockInvariant, PTL DEF LockInv

-----------------------------------------------------------------------------
(* Summaries. *)

\* The ticket has at most one embedding.
OneEmbedding == embedding = {} \/ \E seen \in SUBSET Instants : embedding = {seen}

\* What was said before a resolution is still in the thread.
BeforeIsInThread == \A e \in Embeds : embeds[e].before \subseteq Thread

OneLoaded ==
    \A e, f \in Embeds : embeds[e].phase = "loaded" /\ embeds[f].phase = "loaded" => e = f

\* The job that runs has read all that was said before its own resolution, and
\* before every one whose job has stored a summary.
LoadedCovers ==
    \A e \in Embeds : embeds[e].phase = "loaded" =>
        \A f \in Embeds : f = e \/ embeds[f].stored => embeds[f].before \subseteq embeds[e].seen

\* The inductive invariant of the jobs.
SummaryInv ==
    /\ SuggestionTypeOK
    /\ together \in BOOLEAN
    /\ embeds \in [Embeds -> Embed]
    /\ OneEmbedding
    /\ BeforeIsInThread
    /\ ~together => OneLoaded /\ LoadedCovers
    /\ SummaryCoversResolutions

\* The thread only grows: messages are committed and suggestions stored, nothing goes.
LEMMA ThreadGrows ==
    ASSUME SuggestionTypeOK, [SuggestionNext]_suggestionVars
    PROVE  Thread \subseteq Thread'
  <1>1. humans \subseteq humans'
    BY DEF SuggestionNext, suggestionVars, OpenPost, InsertPost, CommitPost, AbortPost, OpenRequest,
           Hit, Miss, HitUnderLock, ReadThread, CommitDraft, EndWithoutDraft
  <1>2. \A i \in DOMAIN drafts : i \in DOMAIN drafts' /\ drafts'[i] = drafts[i]
    <2>1. CASE \E r \in Requests : CommitDraft(r)
      <3>1. PICK r \in Requests : CommitDraft(r)
        BY <2>1
      <3> DEFINE d == [at |-> requests[r].at, thread |-> requests[r].thread]
      <3>2. d \in Draft
        BY DEF SuggestionTypeOK, Request, Draft
      <3>3. drafts' = Append(drafts, d) /\ drafts \in Seq(Draft)
        BY <3>1 DEF CommitDraft, SuggestionTypeOK
      <3> HIDE DEF d
      <3>4. QED BY <3>2, <3>3, AppendFacts
    <2>2. CASE drafts' = drafts
      BY <2>2
    <2>3. QED
      BY <2>1, <2>2
      DEF SuggestionNext, suggestionVars, OpenPost, InsertPost, CommitPost, AbortPost, OpenRequest,
          Hit, Miss, HitUnderLock, ReadThread, EndWithoutDraft
  <1>3. QED BY <1>1, <1>2 DEF Thread

\* Instants are all a thread holds.
LEMMA ThreadType == SuggestionTypeOK => Thread \in SUBSET Instants
  <1>1. SuggestionTypeOK => \A i \in DOMAIN drafts : drafts[i].at \in Instants
    <2> SUFFICES ASSUME SuggestionTypeOK, NEW i \in DOMAIN drafts
                 PROVE  drafts[i].at \in Instants
      OBVIOUS
    <2>1. drafts[i] \in Draft
      BY DEF SuggestionTypeOK
    <2>2. QED BY <2>1 DEF Draft
  <1>2. QED BY <1>1 DEF SuggestionTypeOK, Thread

\* A step of the conversation leaves the jobs alone.
LEMMA ConversationStep ==
    ASSUME SummaryInv, [SuggestionNext]_suggestionVars, UNCHANGED summaryVars
    PROVE  SummaryInv'
  <1>1. SuggestionTypeOK'
    <2>1. SuggestionTypeOK
      BY DEF SummaryInv
    <2>2. CASE SuggestionNext
      BY <2>1, <2>2, PostTypes, RequestTypes DEF SuggestionNext
    <2>3. CASE UNCHANGED suggestionVars
      BY <2>1, <2>3 DEF SuggestionTypeOK, suggestionVars
    <2>4. QED BY <2>2, <2>3
  <1>2. Thread \subseteq Thread'
    BY ThreadGrows DEF SummaryInv
  <1>3. together' = together /\ embeds' = embeds /\ embedding' = embedding
    BY DEF summaryVars
  <1>4. BeforeIsInThread'
    BY <1>2, <1>3 DEF SummaryInv, BeforeIsInThread
  <1>5. OneEmbedding' /\ SummaryCoversResolutions'
    BY <1>3 DEF SummaryInv, OneEmbedding, SummaryCoversResolutions
  <1>6. ~together' => OneLoaded' /\ LoadedCovers'
    BY <1>3 DEF SummaryInv, OneLoaded, LoadedCovers
  <1>7. QED BY <1>1, <1>3, <1>4, <1>5, <1>6 DEF SummaryInv

\* A step of a job that does not store a summary keeps the invariant: a job that
\* becomes loaded is the only one, or reads the thread as it is now.
LEMMA JobStep ==
    ASSUME SummaryInv, UNCHANGED <<together, embedding, suggestionVars>>,
           NEW e \in Embeds, embeds' \in [Embeds -> Embed],
           \A f \in Embeds : f # e => embeds'[f] = embeds[f],
           embeds'[e].stored => embeds[e].stored,
           \/ embeds'[e].before = embeds[e].before
           \/ ~embeds'[e].stored /\ embeds'[e].before \subseteq Thread,
           embeds'[e].phase = "loaded" => MayLoad /\ embeds'[e].seen = Thread
    PROVE  SummaryInv'
  <1>1. SuggestionTypeOK' /\ Thread' = Thread
    BY DEF SummaryInv, SuggestionTypeOK, suggestionVars, Thread
  <1>2. together' \in BOOLEAN /\ embeds' \in [Embeds -> Embed] /\ OneEmbedding'
    BY DEF SummaryInv, OneEmbedding
  <1>4. BeforeIsInThread'
    BY <1>1 DEF SummaryInv, BeforeIsInThread
  <1>5. SummaryCoversResolutions'
    BY DEF SummaryInv, SummaryCoversResolutions
  <1>6. ASSUME ~together PROVE OneLoaded' /\ LoadedCovers'
    <2>1. OneLoaded /\ LoadedCovers
      BY <1>6 DEF SummaryInv
    <2>2. OneLoaded'
      BY <1>6, <2>1 DEF OneLoaded, MayLoad
    <2>3. ASSUME NEW g \in Embeds, embeds'[g].phase = "loaded",
                 NEW f \in Embeds, f = g \/ embeds'[f].stored
          PROVE  embeds'[f].before \subseteq embeds'[g].seen
      <3>1. CASE g = e
        BY <1>1, <1>4, <2>3, <3>1 DEF BeforeIsInThread
      <3>2. CASE g # e
        BY <2>1, <2>3, <3>2 DEF LoadedCovers
      <3>3. QED BY <3>1, <3>2
    <2>4. QED BY <2>2, <2>3 DEF LoadedCovers
  <1>7. QED BY <1>1, <1>2, <1>4, <1>5, <1>6 DEF SummaryInv, suggestionVars

\* PATCHes, tries that begin, fail or crash: what each makes of the job's record.
LEMMA TriesStep ==
    ASSUME SummaryInv, NEW e \in Embeds,
           \/ \E b \in BOOLEAN : Resolve(e, b)
           \/ LoadThread(e) \/ RetryEmbed(e) \/ RefuseEmbed(e) \/ CrashEmbed(e)
    PROVE  SummaryInv'
  <1>1. /\ embeds \in [Embeds -> Embed] /\ embeds[e] \in Embed
        /\ Thread \in SUBSET Instants /\ EmbedTries \in Nat
    BY ThreadType, SummariesAssumption DEF SummaryInv
  <1>2. CASE \E b \in BOOLEAN : Resolve(e, b)
    <2>1. PICK b \in BOOLEAN : Resolve(e, b)
      BY <1>2
    <2>2. Enqueued(b) \in Embed
      BY <1>1 DEF Enqueued, Embed
    <2>3. Enqueued(b).phase # "loaded" /\ Enqueued(b).before = Thread /\ ~Enqueued(b).stored
      BY DEF Enqueued
    <2>5. embeds'[e] = Enqueued(b) /\ embeds' \in [Embeds -> Embed]
          /\ \A f \in Embeds : f # e => embeds'[f] = embeds[f]
      BY <1>1, <2>1, <2>2 DEF Resolve
    <2>6. QED BY <2>1, <2>3, <2>5, JobStep DEF Resolve
  <1>3. CASE LoadThread(e)
    <2>1. /\ embeds' \in [Embeds -> Embed]
          /\ \A f \in Embeds : f # e => embeds'[f] = embeds[f]
          /\ embeds'[e].seen = Thread /\ embeds'[e].before = embeds[e].before
          /\ embeds'[e].stored = embeds[e].stored
      BY <1>1, <1>3 DEF LoadThread, Embed
    <2>2. QED BY <1>3, <2>1, JobStep DEF LoadThread
  <1>4. CASE RetryEmbed(e) \/ RefuseEmbed(e) \/ CrashEmbed(e)
    <2>1. PICK p \in {"queued", "done"} :
              Leave(e, p) /\ UNCHANGED <<together, embedding, suggestionVars>>
      BY <1>4 DEF RetryEmbed, RefuseEmbed, CrashEmbed
    <2>2. /\ embeds' \in [Embeds -> Embed]
          /\ \A f \in Embeds : f # e => embeds'[f] = embeds[f]
          /\ embeds'[e].phase = p /\ embeds'[e].before = embeds[e].before
          /\ embeds'[e].stored = embeds[e].stored
      BY <1>1, <2>1 DEF Leave, Embed
    <2>3. QED BY <2>1, <2>2, JobStep
  <1>5. QED BY <1>2, <1>3, <1>4

\* The upsert: the summary stored covers what was said before every resolution whose
\* job has stored one, this job's included.
LEMMA StoreStep ==
    ASSUME SummaryInv, NEW e \in Embeds, StoreSummary(e)
    PROVE  SummaryInv'
  <1>1. embeds \in [Embeds -> Embed] /\ embeds[e] \in Embed
    BY DEF SummaryInv
  <1>5. /\ embeds' \in [Embeds -> Embed]
        /\ \A f \in Embeds : f # e => embeds'[f] = embeds[f]
        /\ embeds'[e].phase = "done" /\ embeds'[e].before = embeds[e].before
    BY <1>1 DEF StoreSummary, Embed
  <1>6. SuggestionTypeOK' /\ Thread' = Thread /\ together' = together
    BY DEF StoreSummary, SummaryInv, SuggestionTypeOK, suggestionVars, Thread
  <1>7. embedding' = {embeds[e].seen} /\ embeds[e].seen \in SUBSET Instants
    BY <1>1 DEF StoreSummary, Upserted, Embed
  <1>8. embeds' \in [Embeds -> Embed] /\ OneEmbedding'
    BY <1>5, <1>7 DEF SummaryInv, OneEmbedding
  <1>9. BeforeIsInThread'
    BY <1>5, <1>6 DEF SummaryInv, BeforeIsInThread
  <1>10. ASSUME ~together
         PROVE  OneLoaded' /\ LoadedCovers' /\ SummaryCoversResolutions'
    <2>1. OneLoaded /\ LoadedCovers
      BY <1>10 DEF SummaryInv
    <2>2. embeds[e].phase = "loaded"
      BY DEF StoreSummary
    <2>3. \A f \in Embeds : embeds'[f].phase # "loaded"
      BY <1>5, <2>1, <2>2 DEF OneLoaded
    <2>4. ASSUME NEW f \in Embeds, embeds'[f].stored
          PROVE  embeds'[f].before \subseteq embeds[e].seen
      BY <1>5, <2>1, <2>2, <2>4 DEF LoadedCovers
    <2>5. QED BY <1>7, <2>3, <2>4 DEF OneLoaded, LoadedCovers, SummaryCoversResolutions
  <1>11. SummaryCoversResolutions'
    BY <1>6, <1>10 DEF SummaryCoversResolutions
  <1>12. QED BY <1>6, <1>8, <1>9, <1>10, <1>11 DEF SummaryInv, StoreSummary

\* Every step of the conversation beside the jobs keeps their invariant.
LEMMA SummaryStep ==
    SummaryInv /\ [SummaryNext]_<<suggestionVars, summaryVars>> => SummaryInv'
  <1> SUFFICES ASSUME SummaryInv, [SummaryNext]_<<suggestionVars, summaryVars>>
               PROVE  SummaryInv'
    OBVIOUS
  <1>1. CASE SuggestionNext /\ UNCHANGED summaryVars
    BY <1>1, ConversationStep
  <1>2. CASE EmbedNext
    BY <1>2, TriesStep, StoreStep DEF EmbedNext
  <1>3. CASE UNCHANGED <<suggestionVars, summaryVars>>
    BY <1>3, ConversationStep
  <1>4. QED BY <1>1, <1>2, <1>3 DEF SummaryNext

\* One running job at a time has read everything said before every resolution that is
\* summarised already (workers/rag.py, embed_resolved_ticket).
THEOREM SummaryInvariant == SummarySpec => []SummaryInv
  <1>1. SummaryInit => SummaryInv
    <2> SUFFICES ASSUME SummaryInit
                 PROVE  SummaryInv
      OBVIOUS
    <2>1. SuggestionTypeOK
      BY SuggestionsAssumption, NoRequestType
      DEF SummaryInit, SuggestionInit, SuggestionTypeOK, Instants, NoPost, Post
    <2>2. embeds \in [Embeds -> Embed]
      BY SummariesAssumption DEF SummaryInit, Embed
    <2>3. \A e \in Embeds : embeds[e].before = {} /\ ~embeds[e].stored
                               /\ embeds[e].phase # "loaded"
      BY DEF SummaryInit
    <2>4. QED
      BY <2>1, <2>2, <2>3
      DEF SummaryInit, SummaryInv, OneEmbedding, BeforeIsInThread, OneLoaded, LoadedCovers,
          SummaryCoversResolutions
  <1>2. QED BY <1>1, SummaryStep, PTL DEF SummarySpec

\* A ticket has at most one embedding, and its jobs keep their types.
THEOREM SummaryTypes == SummarySpec => []SummaryTypeOK
  <1>1. SummaryInv => SummaryTypeOK
    <2> SUFFICES ASSUME SummaryInv
                 PROVE  SummaryTypeOK
      OBVIOUS
    <2>1. embedding \in SUBSET SUBSET Instants /\ Cardinality(embedding) <= 1
      <3>1. CASE embedding = {}
        BY <3>1, FS_EmptySet
      <3>2. CASE \E seen \in SUBSET Instants : embedding = {seen}
        <4>1. PICK seen \in SUBSET Instants : embedding = {seen}
          BY <3>2
        <4>2. Cardinality({seen}) = 1
          BY FS_Singleton
        <4>3. QED BY <4>1, <4>2
      <3>3. QED BY <3>1, <3>2 DEF SummaryInv, OneEmbedding
    <2>2. QED BY <2>1 DEF SummaryInv, SummaryTypeOK
  <1>2. QED BY <1>1, SummaryInvariant, PTL

\* A stored summary covers everything said before its resolution, in whatever order
\* the jobs of the ticket were retried, crashed and ran again.
THEOREM SummariesCover == SummarySpec => []SummaryCoversResolutions
  BY SummaryInvariant, PTL DEF SummaryInv

\* The jobs do not disturb the drafts: with them the conversation is still one of
\* Suggestions, so that its theorems hold of it.
THEOREM SummariesKeepTheThread == SummarySpec => SuggestionSpec /\ []ThreadStandsStill
                                                 /\ []DraftsAreJustified
  <1>1. SummaryInit => SuggestionInit
    BY DEF SummaryInit
  <1>2. [SummaryNext]_<<suggestionVars, summaryVars>> => [SuggestionNext]_suggestionVars
    BY DEF SummaryNext, EmbedNext, Resolve, LoadThread, RetryEmbed, RefuseEmbed, StoreSummary,
           CrashEmbed
  <1>3. QED BY <1>1, <1>2, ThreadStable, DraftsJustified, PTL DEF SummarySpec, SuggestionSpec

-----------------------------------------------------------------------------
(* Email: the threads of the tickets' channel_metadata. *)

\* A ticket that is committed.
Exists(t) == t \in Tickets /\ tickets[t].status # "none"

\* A Message-ID of ticket t: a reply posted on it, or a mail filed on it.
OfThread(x, t) ==
    \/ x \in Replies /\ jobs[x].phase # "none" /\ jobs[x].ticket = t
    \/ x \in Mails /\ filed[x][t] > 0

\* Message-IDs of ticket t which begin with the mail that opened it.
RefsOf(ids, t) ==
    /\ ids # <<>> /\ ids[1] = tickets[t].meta.ids[1]
    /\ \A i \in DOMAIN ids : OfThread(ids[i], t)

\* A version of the ticket's channel_metadata, stored or loaded, older or newer.
VersionOf(meta, t) == RefsOf(meta.ids, t) /\ (meta.last # None => OfThread(meta.last, t))

\* The ticket is in the scan of user u.
Sees(u, t) == users[u] = "staff" \/ (users[u] = "tenant" /\ tickets[t].sender = u)

TicketSound(t) ==
    Exists(t) =>
        /\ tickets[t].sender \in Senders /\ tickets[t].subject \in Subjects
        /\ users[tickets[t].sender] \in {"tenant", "staff", "owner"}
        /\ VersionOf(tickets[t].meta, t)

MailHookSound(q) ==
    q.phase = "open" =>
        /\ q.mail \in Mails /\ q.ticket \in Tickets /\ letters[q.mail] # None
        /\ users[letters[q.mail].from] # "elsewhere"
        /\ q.new => ~Exists(q.ticket) /\ q.meta = NoMeta
        /\ ~q.new => /\ Exists(q.ticket) /\ VersionOf(q.meta, q.ticket)
                     /\ Sees(letters[q.mail].from, q.ticket)

ReplyJobSound(q) ==
    /\ q.phase # "none" => Exists(q.ticket)
    /\ q.phase \in {"loaded", "sent"} => VersionOf(q.meta, q.ticket)

MailedSound(o) ==
    \A i \in DOMAIN mailed[o] : jobs[o].phase # "none" /\ RefsOf(mailed[o][i], jobs[o].ticket)

\* An answer names its ticket in its tag, and in its headers if its client kept them.
LetterSound(l) ==
    l # None /\ l.answers # None =>
        LET t == jobs[l.answers].ticket
        IN  /\ jobs[l.answers].phase # "none"
            /\ l.from = tickets[t].sender /\ l.tag = t
            /\ l.parent = None => l.refs = <<>>
            /\ l.parent # None => RefsOf(l.refs, t) /\ OfThread(l.parent, t)

FiledSound(m, t) ==
    filed[m][t] > 0 =>
        /\ letters[m] # None /\ Exists(t)
        /\ users[letters[m].from] = "owner" \/ Sees(letters[m].from, t)

\* Only one request at a time opens a given ticket.
FreshTickets ==
    \A h, g \in Hooks : /\ hooks[h].phase = "open" /\ hooks[h].new
                        /\ hooks[g].ticket = hooks[h].ticket
                        => g = h

\* Rows, requests, jobs and mails fit together.
EmailSound ==
    /\ \A t \in Tickets : TicketSound(t)
    /\ \A h \in Hooks : MailHookSound(hooks[h])
    /\ \A o \in Replies : ReplyJobSound(jobs[o]) /\ MailedSound(o)
    /\ \A m \in Mails : LetterSound(letters[m])
    /\ \A m \in Mails, t \in Tickets : FiledSound(m, t)
    /\ FreshTickets

NeverTwice == \A m \in Mails, t, s \in Tickets : filed[m][t] > 0 /\ filed[m][s] > 0 => s = t

\* Mail m may be filed on ticket t: if it is an answer that can be told, it is one to t.
Belongs(m, t) ==
    LET l == letters[m]
    IN  users[l.from] # "owner" /\ l.answers # None /\ (l.parent # None \/ ~clash)
            => t = jobs[l.answers].ticket

AnswersBelong ==
    /\ \A m \in Mails, t \in Tickets : filed[m][t] > 0 => Belongs(m, t)
    /\ \A h \in Hooks : hooks[h].phase = "open" => Belongs(hooks[h].mail, hooks[h].ticket)

Writing(o) == jobs[o].phase \in {"loaded", "sent"}

\* One request per mail, and one request or job per ticket.
OneMailWriter ==
    /\ \A h, g \in Hooks : /\ hooks[h].phase = "open" /\ hooks[g].phase = "open"
                           /\ hooks[h].ticket = hooks[g].ticket \/ hooks[h].mail = hooks[g].mail
                           => h = g
    /\ \A o, p \in Replies : Writing(o) /\ Writing(p) /\ jobs[o].ticket = jobs[p].ticket => o = p
    /\ \A h \in Hooks, o \in Replies :
           hooks[h].phase = "open" /\ Writing(o) => hooks[h].ticket # jobs[o].ticket

\* What the writer has loaded is what is stored.
LoadedIsStored ==
    /\ \A h \in Hooks : hooks[h].phase = "open" /\ ~hooks[h].new =>
           hooks[h].meta = tickets[hooks[h].ticket].meta
    /\ \A o \in Replies : Writing(o) => jobs[o].meta = tickets[jobs[o].ticket].meta

ThreadsKept ==
    /\ \A m \in Mails, t \in Tickets : filed[m][t] > 0 => Contains(tickets[t].meta.ids, m)
    /\ \A o \in Replies : jobs[o].phase = "recorded" => SentBefore(o)

\* A mail under way has not been filed yet, a filed one has been once.
FiledAtMostOnce ==
    /\ \A m \in Mails, t, s \in Tickets : filed[m][t] > 0 /\ users[letters[m].from] # "owner" =>
           filed[m][t] = 1 /\ (filed[m][s] > 0 => s = t)
    /\ \A h \in Hooks : hooks[h].phase = "open" /\ users[letters[hooks[h].mail].from] # "owner" =>
           \A t \in Tickets : filed[hooks[h].mail][t] = 0

\* Before it sends, a job has no mail to its name but those it could not record.
CopiesCounted ==
    \A o \in Replies :
        /\ Len(mailed[o]) <= missed[o] + 1
        /\ jobs[o].phase \in {"none", "posted"} => mailed[o] = <<>>
        /\ jobs[o].phase = "loaded" => Len(mailed[o]) <= missed[o]
        /\ jobs[o].phase = "queued" => Len(mailed[o]) <= missed[o] \/ SentBefore(o)

Alone == OneMailWriter /\ LoadedIsStored /\ ThreadsKept /\ FiledAtMostOnce /\ CopiesCounted

\* The inductive invariant.
EmailInv ==
    /\ TypeOK
    /\ EmailSound
    /\ NeverTwice => AnswersBelong
    /\ ~overlap => Alone

-----------------------------------------------------------------------------

\* The empty records have their types.
LEMMA EmptyMail ==
    /\ NoMeta \in Metadata /\ NoMeta.ids = <<>> /\ NoMeta.last = None
    /\ NoTicket \in TicketRow /\ NoTicket.status = "none"
    /\ NoHook \in Hook /\ NoHook.phase = "idle" /\ NoHook.ticket = None /\ None \notin Tickets
    /\ 0 \in 0..MaxDeliveries /\ 0 \in 0..MaxTries
  <1>1. NoMeta \in Metadata /\ NoMeta.ids = <<>> /\ NoMeta.last = None
    BY DEF NoMeta, Metadata
  <1>2. 0 \in 0..MaxDeliveries /\ 0 \in 0..MaxTries /\ None \notin Tickets
    BY EmailAssumption
  <1>3. NoTicket \in TicketRow /\ NoTicket.status = "none"
    BY <1>1, <1>2 DEF NoTicket, TicketRow
  <1>4. NoHook \in Hook /\ NoHook.phase = "idle" /\ NoHook.ticket = None
    BY <1>1, <1>2 DEF NoHook, Hook
  <1>5. QED BY <1>1, <1>2, <1>3, <1>4

\* with_appended: the list begins as it did and has one more id.
LEMMA RecordedList ==
    ASSUME NEW ids \in Seq(Ids), NEW x \in Ids
    PROVE  /\ Append(ids, x) \in Seq(Ids) /\ Append(ids, x) # <<>>
           /\ ids # <<>> => Append(ids, x)[1] = ids[1]
           /\ \A i \in DOMAIN Append(ids, x) :
                  Append(ids, x)[i] = x \/ \E j \in DOMAIN ids : Append(ids, x)[i] = ids[j]
           /\ Contains(Append(ids, x), x)
           /\ \A k : Contains(ids, k) => Contains(Append(ids, x), k)
  <1> DEFINE longer == Append(ids, x)
             n == Len(ids)
  <1>1. /\ n \in Nat /\ DOMAIN ids = 1..n /\ DOMAIN longer = 1..(n + 1) /\ Len(longer) = n + 1
        /\ longer[n + 1] = x /\ (\A i \in 1..n : longer[i] = ids[i])
        /\ longer \in Seq(Ids) /\ longer # <<>> /\ (ids # <<>> => n >= 1)
    OBVIOUS
  <1> HIDE DEF longer, n
  <1>2. /\ ids # <<>> => longer[1] = ids[1]
        /\ \A i \in DOMAIN longer : longer[i] = x \/ \E j \in DOMAIN ids : longer[i] = ids[j]
    BY <1>1
  <1>3. Contains(longer, x) /\ \A k : Contains(ids, k) => Contains(longer, k)
    BY <1>1 DEF Contains, n
  <1>4. QED BY <1>1, <1>2, <1>3 DEF longer

-----------------------------------------------------------------------------

\* What no step takes back.
Grows ==
    /\ \A t \in Tickets : tickets[t].status # "none" =>
           /\ tickets'[t].status # "none"
           /\ tickets'[t].sender = tickets[t].sender /\ tickets'[t].subject = tickets[t].subject
           /\ tickets'[t].meta.ids[1] = tickets[t].meta.ids[1]
    /\ \A u \in Senders : users'[u] = users[u] \/ (users[u] = "none" /\ users'[u] = "tenant")
    /\ \A m \in Mails : letters[m] # None => letters'[m] = letters[m]
    /\ \A o \in Replies : jobs[o].phase # "none" =>
           jobs'[o].phase # "none" /\ jobs'[o].ticket = jobs[o].ticket
    /\ \A m \in Mails, t \in Tickets : filed[m][t] > 0 => filed'[m][t] > 0
    /\ UNCHANGED <<overlap, clash>>

LEMMA ExistsStays ==
    ASSUME Grows, NEW t, Exists(t)
    PROVE  Exists(t)'
  BY DEF Grows, Exists

LEMMA OfThreadStays ==
    ASSUME Grows, NEW x, NEW t \in Tickets, OfThread(x, t)
    PROVE  OfThread(x, t)'
  BY DEF Grows, OfThread

LEMMA RefsStay ==
    ASSUME Grows, NEW ids, NEW t, Exists(t), RefsOf(ids, t)
    PROVE  RefsOf(ids, t)'
  <1>1. \A i \in DOMAIN ids : OfThread(ids[i], t)'
    BY OfThreadStays DEF RefsOf, Exists
  <1>2. tickets'[t].meta.ids[1] = tickets[t].meta.ids[1]
    BY DEF Grows, Exists
  <1>3. QED BY <1>1, <1>2 DEF RefsOf

LEMMA VersionStays ==
    ASSUME Grows, NEW meta, NEW t, Exists(t), VersionOf(meta, t)
    PROVE  VersionOf(meta, t)'
  BY RefsStay, OfThreadStays DEF VersionOf, Exists

LEMMA SeesStays ==
    ASSUME Grows, NEW u \in Senders, NEW t, Exists(t), Sees(u, t)
    PROVE  Sees(u, t)'
  BY DEF Grows, Sees, Exists

\* A request keeps what it holds, as long as the ticket it opens is not opened.
LEMMA MailHookStays ==
    ASSUME TypeOK, Grows, NEW q, MailHookSound(q),
           q.phase = "open" /\ q.new => ~Exists(q.ticket)'
    PROVE  MailHookSound(q)'
  <1> SUFFICES ASSUME q.phase = "open"
               PROVE  MailHookSound(q)'
    BY DEF MailHookSound
  <1>1. /\ q.mail \in Mails /\ q.ticket \in Tickets /\ letters[q.mail] # None
        /\ letters'[q.mail] = letters[q.mail]
        /\ letters[q.mail].from \in Senders
    BY DEF MailHookSound, Grows, TypeOK, Letter
  <1>2. (users[letters[q.mail].from] # "elsewhere")'
    BY <1>1 DEF MailHookSound, Grows
  <1>3. ASSUME ~q.new
        PROVE  (/\ Exists(q.ticket) /\ VersionOf(q.meta, q.ticket)
                /\ Sees(letters[q.mail].from, q.ticket))'
    <2> DEFINE u == letters[q.mail].from
    <2>1. Exists(q.ticket) /\ VersionOf(q.meta, q.ticket) /\ Sees(u, q.ticket)
      BY <1>3 DEF MailHookSound
    <2>2. u' = u /\ u \in Senders
      BY <1>1
    <2> HIDE DEF u
    <2>3. Exists(q.ticket)' /\ VersionOf(q.meta, q.ticket)' /\ users'[u] = users[u]
          /\ tickets'[q.ticket].sender = tickets[q.ticket].sender
      BY <2>1, <2>2, ExistsStays, VersionStays DEF Grows, Sees, Exists
    <2>4. Sees(u, q.ticket)'
      BY <2>1, <2>2, <2>3 DEF Sees
    <2>5. QED BY <2>3, <2>4 DEF u
  <1>4. QED BY <1>1, <1>2, <1>3 DEF MailHookSound

LEMMA ReplyJobStays ==
    ASSUME Grows, NEW q, ReplyJobSound(q)
    PROVE  ReplyJobSound(q)'
  BY ExistsStays, VersionStays DEF ReplyJobSound

\* An answer keeps naming its ticket.
LEMMA LetterStays ==
    ASSUME TypeOK, Grows, \A o \in Replies : ReplyJobSound(jobs[o]),
           NEW l \in Letter \cup {None}, LetterSound(l)
    PROVE  LetterSound(l)'
  <1> SUFFICES ASSUME l # None, l.answers # None
               PROVE  LetterSound(l)'
    BY DEF LetterSound
  <1>1. l.answers \in Replies
    BY DEF Letter
  <1>2. PICK t : t = jobs[l.answers].ticket
    OBVIOUS
  <1>3. /\ jobs[l.answers].phase # "none"
        /\ l.from = tickets[t].sender /\ l.tag = t
        /\ l.parent = None => l.refs = <<>>
        /\ l.parent # None => RefsOf(l.refs, t) /\ OfThread(l.parent, t)
    BY <1>2 DEF LetterSound
  <1>4. Exists(t) /\ t \in Tickets
    BY <1>1, <1>2, <1>3 DEF ReplyJobSound, Exists
  <1>5. jobs'[l.answers].phase # "none" /\ jobs'[l.answers].ticket = t
        /\ tickets'[t].sender = tickets[t].sender
    BY <1>1, <1>2, <1>3, <1>4 DEF Grows, Exists
  <1>6. l.parent # None => RefsOf(l.refs, t)' /\ OfThread(l.parent, t)'
    BY <1>3, <1>4, RefsStay, OfThreadStays
  <1>7. QED BY <1>3, <1>5, <1>6 DEF LetterSound

LEMMA FiledStays ==
    ASSUME TypeOK, Grows, NEW m \in Mails, NEW t \in Tickets,
           FiledSound(m, t), filed[m][t] > 0
    PROVE  FiledSound(m, t)'
  <1> DEFINE u == letters[m].from
  <1>1. letters[m] # None /\ letters'[m] = letters[m] /\ u \in Senders /\ u' = u
        /\ Exists(t) /\ (users[u] = "owner" \/ Sees(u, t))
    BY DEF FiledSound, Grows, TypeOK, Letter
  <1> HIDE DEF u
  <1>2. Exists(t)' /\ (users'[u] = "owner" \/ Sees(u, t)')
    BY <1>1, ExistsStays, SeesStays DEF Grows
  <1>3. (users[u] = "owner" \/ Sees(u, t))'
    BY <1>1, <1>2 DEF Sees
  <1>4. QED BY <1>1, <1>2, <1>3 DEF FiledSound, u

\* An answer belongs to the same ticket all the time.
LEMMA BelongsStays ==
    ASSUME TypeOK, Grows, NEW m \in Mails, NEW t, letters[m] # None, LetterSound(letters[m]),
           Belongs(m, t)
    PROVE  Belongs(m, t)'
  <1>1. letters'[m] = letters[m] /\ letters[m] \in Letter
    BY DEF Grows, TypeOK
  <1>2. letters[m].from \in Senders /\ letters[m].answers \in Replies \cup {None}
    BY <1>1 DEF Letter
  <1>3. users'[letters[m].from] = "owner" <=> users[letters[m].from] = "owner"
    BY <1>2 DEF Grows
  <1>4. letters[m].answers # None => jobs'[letters[m].answers].ticket = jobs[letters[m].answers].ticket
    BY <1>2 DEF LetterSound, Grows
  <1>5. QED BY <1>1, <1>3, <1>4 DEF Belongs, Grows

LEMMA TicketStays ==
    ASSUME Grows, NEW t \in Tickets, TicketSound(t),
           Exists(t)' => Exists(t), tickets'[t].meta = tickets[t].meta
    PROVE  TicketSound(t)'
  <1> SUFFICES ASSUME Exists(t), Exists(t)'
               PROVE  TicketSound(t)'
    BY DEF TicketSound
  <1>1. PICK meta : meta = tickets[t].meta
    OBVIOUS
  <1>2. tickets'[t].meta = meta /\ VersionOf(meta, t)
    BY <1>1 DEF TicketSound
  <1>3. VersionOf(meta, t)'
    BY <1>2, VersionStays
  <1>4. /\ tickets'[t].sender = tickets[t].sender /\ tickets'[t].subject = tickets[t].subject
        /\ users'[tickets[t].sender] = users[tickets[t].sender]
    BY DEF Grows, Exists, TicketSound
  <1>5. QED BY <1>2, <1>3, <1>4 DEF TicketSound

LEMMA MailedStays ==
    ASSUME Grows, NEW o \in Replies, ReplyJobSound(jobs[o]), MailedSound(o),
           mailed'[o] = mailed[o]
    PROVE  MailedSound(o)'
  <1> SUFFICES ASSUME NEW i \in DOMAIN mailed[o]
               PROVE  (jobs[o].phase # "none" /\ RefsOf(mailed[o][i], jobs[o].ticket))'
    BY DEF MailedSound
  <1>1. PICK refs, t : refs = mailed[o][i] /\ t = jobs[o].ticket
    OBVIOUS
  <1>2. jobs[o].phase # "none" /\ Exists(t) /\ RefsOf(refs, t)
    BY <1>1 DEF MailedSound, ReplyJobSound
  <1>3. jobs'[o].phase # "none" /\ jobs'[o].ticket = t /\ mailed'[o][i] = refs
    BY <1>1, <1>2 DEF Grows
  <1>4. RefsOf(refs, t)'
    BY <1>2, RefsStay
  <1>5. QED BY <1>3, <1>4

\* What a step does not touch stays sound.
LEMMA EmailSoundKeeps ==
    ASSUME TypeOK, EmailSound, Grows,
           \A t \in Tickets : \/ (Exists(t)' => Exists(t)) /\ tickets'[t].meta = tickets[t].meta
                              \/ TicketSound(t)',
           \A h \in Hooks : \/ /\ hooks'[h] = hooks[h]
                               /\ hooks[h].phase = "open" /\ hooks[h].new => ~Exists(hooks[h].ticket)'
                            \/ MailHookSound(hooks[h])',
           \A o \in Replies : jobs'[o] = jobs[o] \/ ReplyJobSound(jobs[o])',
           \A o \in Replies : mailed'[o] = mailed[o] \/ MailedSound(o)',
           \A m \in Mails : letters'[m] = letters[m] \/ LetterSound(letters[m])',
           \A m \in Mails, t \in Tickets : filed'[m][t] = filed[m][t] \/ FiledSound(m, t)',
           FreshTickets'
    PROVE  EmailSound'
  <1>1. \A t \in Tickets : TicketSound(t)'
    BY TicketStays DEF EmailSound
  <1>2. ASSUME NEW h \in Hooks
        PROVE  MailHookSound(hooks[h])'
    <2>1. CASE MailHookSound(hooks[h])'
      BY <2>1
    <2>2. CASE /\ hooks'[h] = hooks[h]
               /\ hooks[h].phase = "open" /\ hooks[h].new => ~Exists(hooks[h].ticket)'
      <3>1. PICK q : q = hooks[h]
        OBVIOUS
      <3>2. MailHookSound(q) /\ hooks'[h] = q /\ (q.phase = "open" /\ q.new => ~Exists(q.ticket)')
        BY <2>2, <3>1 DEF EmailSound, Exists
      <3>3. MailHookSound(q)'
        BY <3>2, MailHookStays
      <3>4. QED BY <3>2, <3>3
    <2>3. QED BY <2>1, <2>2
  <1>3. ASSUME NEW o \in Replies
        PROVE  ReplyJobSound(jobs[o])'
    <2>1. CASE jobs'[o] = jobs[o]
      <3>1. PICK q : q = jobs[o]
        OBVIOUS
      <3>2. ReplyJobSound(q)'
        BY <3>1, ReplyJobStays DEF EmailSound
      <3>3. QED BY <2>1, <3>1, <3>2
    <2>2. QED BY <2>1
  <1>4. \A o \in Replies : MailedSound(o)'
    BY MailedStays DEF EmailSound
  <1>5. ASSUME NEW m \in Mails
        PROVE  LetterSound(letters[m])'
    <2>1. CASE letters'[m] = letters[m]
      <3>1. PICK l : l = letters[m]
        OBVIOUS
      <3>2. l \in Letter \cup {None} /\ LetterSound(l)
        BY <3>1 DEF TypeOK, EmailSound
      <3>3. LetterSound(l)'
        BY <3>2, LetterStays DEF EmailSound
      <3>4. QED BY <2>1, <3>1, <3>3
    <2>2. QED BY <2>1
  <1>6. ASSUME NEW m \in Mails, NEW t \in Tickets
        PROVE  FiledSound(m, t)'
    <2>1. CASE filed'[m][t] = filed[m][t] /\ filed[m][t] > 0
      BY <2>1, FiledStays DEF EmailSound
    <2>2. CASE filed'[m][t] = filed[m][t] /\ ~(filed[m][t] > 0)
      BY <2>2 DEF FiledSound
    <2>3. QED BY <2>1, <2>2
  <1>7. QED BY <1>1, <1>2, <1>3, <1>4, <1>5, <1>6 DEF EmailSound

\* An answer that is under way, or filed, was matched when its request was taken up.
LEMMA BelongKeeps ==
    ASSUME TypeOK, EmailSound, NeverTwice => AnswersBelong, Grows,
           \A m \in Mails, t \in Tickets : filed'[m][t] > 0 =>
               \/ filed[m][t] > 0
               \/ \E h \in Hooks : hooks[h].phase = "open" /\ hooks[h].mail = m /\ hooks[h].ticket = t,
           \A h \in Hooks : hooks'[h].phase = "open" =>
               \/ hooks'[h] = hooks[h]
               \/ NeverTwice => Belongs(hooks[h].mail, hooks[h].ticket)'
    PROVE  NeverTwice' => AnswersBelong'
  <1> SUFFICES ASSUME NeverTwice'
               PROVE  AnswersBelong'
    OBVIOUS
  <1>1. NeverTwice /\ AnswersBelong
    BY DEF NeverTwice, Grows
  <1>2. ASSUME NEW m \in Mails, NEW t \in Tickets, filed'[m][t] > 0
        PROVE  Belongs(m, t)'
    <2>1. Belongs(m, t) /\ letters[m] # None
      <3>1. CASE filed[m][t] > 0
        BY <1>1, <3>1 DEF AnswersBelong, EmailSound, FiledSound
      <3>2. CASE \E h \in Hooks : hooks[h].phase = "open" /\ hooks[h].mail = m /\ hooks[h].ticket = t
        BY <1>1, <3>2 DEF AnswersBelong, EmailSound, MailHookSound
      <3>3. QED BY <1>2, <3>1, <3>2
    <2>2. QED BY <2>1, BelongsStays DEF EmailSound
  <1>3. ASSUME NEW h \in Hooks, hooks'[h].phase = "open"
        PROVE  Belongs(hooks[h].mail, hooks[h].ticket)'
    <2>1. CASE hooks'[h] = hooks[h]
      <3>1. PICK m, t : m = hooks[h].mail /\ t = hooks[h].ticket
        OBVIOUS
      <3>2. m \in Mails /\ letters[m] # None /\ Belongs(m, t)
        BY <1>1, <1>3, <2>1, <3>1 DEF AnswersBelong, EmailSound, MailHookSound
      <3>3. Belongs(m, t)'
        BY <3>2, BelongsStays DEF EmailSound
      <3>4. QED BY <2>1, <3>1, <3>3
    <2>2. QED BY <1>1, <1>3, <2>1
  <1>4. QED BY <1>2, <1>3 DEF AnswersBelong

-----------------------------------------------------------------------------

\* A step that writes a letter, or moves only the clock, or nothing at all.
NothingElse == UNCHANGED <<overlap, clash, users, tickets, hooks, jobs, delivered, cutoff,
                           filed, mailed, missed>>

\* A new mail, or an answer: what it names is the ticket whose mail it answers.
LEMMA LetterShape ==
    ASSUME TypeOK, EmailSound, NEW m \in Mails,
           \/ \E u \in Senders, subj \in Subjects : Write(m, u, subj)
           \/ \E o \in Replies, i \in 1..MaxTries, k \in BOOLEAN : Answer(m, o, i, k)
    PROVE  TypeOK' /\ EmailSound' /\ Grows /\ NothingElse
  <1>1. NothingElse /\ letters[m] = None
    BY DEF Write, Answer, NothingElse, Unwritten
  <1>2. PICK l \in Letter : LetterSound(l) /\ letters' = [letters EXCEPT ![m] = l]
    <2>1. CASE \E u \in Senders, subj \in Subjects : Write(m, u, subj)
      <3>1. PICK u \in Senders, subj \in Subjects : Write(m, u, subj)
        BY <2>1
      <3> DEFINE l == [from |-> u, subject |-> subj, tag |-> None, parent |-> None,
                       refs |-> <<>>, answers |-> None]
      <3>2. l \in Letter /\ l.answers = None
        BY DEF Letter
      <3>3. letters' = [letters EXCEPT ![m] = l]
        BY <3>1 DEF Write
      <3>4. LetterSound(l)
        BY <3>2 DEF LetterSound
      <3> HIDE DEF l
      <3>5. QED BY <3>2, <3>3, <3>4
    <2>2. CASE \E o \in Replies, i \in 1..MaxTries, k \in BOOLEAN : Answer(m, o, i, k)
      <3>1. PICK o \in Replies, i \in 1..MaxTries, k \in BOOLEAN : Answer(m, o, i, k)
        BY <2>2
      <3> DEFINE t == jobs[o].ticket
                 refs == IF k THEN Append(mailed[o][i], o) ELSE <<>>
                 l == [from |-> tickets[t].sender, subject |-> tickets[t].subject, tag |-> t,
                       parent |-> IF k THEN o ELSE None, refs |-> refs, answers |-> o]
      <3>2. i \in DOMAIN mailed[o] /\ letters' = [letters EXCEPT ![m] = l]
        BY <3>1 DEF Answer
      <3>3. /\ mailed[o][i] \in Seq(Ids) /\ jobs[o].phase # "none" /\ RefsOf(mailed[o][i], t)
            /\ Exists(t) /\ t \in Tickets
        BY <3>2 DEF TypeOK, EmailSound, MailedSound, ReplyJobSound, Exists
      <3>4. tickets[t].sender \in Senders /\ tickets[t].subject \in Subjects
        BY <3>3 DEF EmailSound, TicketSound
      <3>5. o \in Ids /\ OfThread(o, t)
        BY <3>3 DEF OfThread, Ids
      <3>6. refs \in Seq(Ids) /\ (k => RefsOf(refs, t))
        BY <3>3, <3>5, RecordedList DEF RefsOf
      <3> HIDE DEF refs
      <3>7. l \in Letter
        BY <3>3, <3>4, <3>6, <3>5 DEF Letter, Ids
      <3>8. /\ l.answers = o /\ l.from = tickets[t].sender /\ l.tag = t /\ l.refs = refs
            /\ l.parent = IF k THEN o ELSE None
        OBVIOUS
      <3>9. ~k => refs = <<>>
        BY DEF refs
      <3>10. o # None
        BY EmailAssumption
      <3> HIDE DEF l
      <3>11. LetterSound(l)
        BY <3>3, <3>5, <3>6, <3>8, <3>9, <3>10 DEF LetterSound
      <3>12. QED BY <3>2, <3>7, <3>11
    <2>3. QED BY <2>1, <2>2
  <1>3. TypeOK' /\ letters'[m] = l /\ \A n \in Mails : n # m => letters'[n] = letters[n]
    BY <1>1, <1>2 DEF TypeOK, NothingElse
  <1>4. Grows
    <2>1. \A n \in Mails : letters[n] # None => letters'[n] = letters[n]
      BY <1>1, <1>3
    <2>2. UNCHANGED <<overlap, clash>>
      BY <1>1 DEF NothingElse
    <2>3. users' = users /\ tickets' = tickets /\ jobs' = jobs /\ filed' = filed
      BY <1>1 DEF NothingElse
    <2>4. QED BY <2>1, <2>2, <2>3 DEF Grows
  <1>5. LetterSound(l)'
    BY <1>2, <1>4, LetterStays DEF EmailSound
  <1>6. FreshTickets'
    BY <1>1 DEF EmailSound, FreshTickets, NothingElse
  <1>7. \A h \in Hooks : hooks[h].phase = "open" /\ hooks[h].new => ~Exists(hooks[h].ticket)'
    BY <1>1 DEF EmailSound, MailHookSound, Exists, NothingElse
  <1>8. \A t \in Tickets : Exists(t)' => Exists(t)
    BY <1>1 DEF Exists, NothingElse
  <1>9. EmailSound'
    BY <1>1, <1>3, <1>4, <1>5, <1>6, <1>7, <1>8, EmailSoundKeeps DEF NothingElse
  <1>10. QED BY <1>1, <1>3, <1>4, <1>9

-----------------------------------------------------------------------------
(* The matching ladder. *)

\* What the scan finds is in the scan.
LEMMA MatchedIsSeen ==
    ASSUME NEW l, NEW t \in Matched(l)
    PROVE  Exists(t) /\ Sees(l.from, t)
  <1>1. \A u, id : Holding(u, id) \subseteq Candidates(u)
    BY DEF Holding
  <1>2. ByReference(l) \subseteq Candidates(l.from)
    BY <1>1 DEF ByReference
  <1>3. ByTag(l) \subseteq Candidates(l.from)
    BY DEF ByTag, TagMatches
  <1>4. BySubject(l) \subseteq Candidates(l.from)
    BY DEF BySubject, Eligible
  <1>5. t \in Candidates(l.from)
    BY <1>2, <1>3, <1>4 DEF Matched
  <1>6. QED BY <1>5 DEF Candidates, Exists, Sees

\* A non-empty set of natural numbers has a least one: the finite sets are well-founded
\* by strict inclusion, and the set's initial segments are finite.
LEMMA LeastNatural ==
    ASSUME NEW S \in SUBSET Nat, S # {}
    PROVE  \E x \in S : \A y \in S : x <= y
  <1> DEFINE T == {S \cap (0..i) : i \in S}
             R == StrictSubsetOrdering(S)
  <1>1. \A i \in S : IsFiniteSet(S \cap (0..i))
    <2> SUFFICES ASSUME NEW i \in S
                 PROVE  IsFiniteSet(S \cap (0..i))
      OBVIOUS
    <2>1. IsFiniteSet(0..i)
      BY FS_Interval
    <2>2. QED BY <2>1, FS_Subset
  <1>2. T \subseteq FiniteSubsetsOf(S) /\ T # {}
    BY <1>1 DEF FiniteSubsetsOf
  <1>3. IsWellFoundedOn(R, FiniteSubsetsOf(S))
    BY FS_StrictSubsetOrderingWellFounded
  <1>4. PICK X \in T : \A Y \in T : <<Y, X>> \notin R
    <2> HIDE DEF T, R
    <2>1. QED BY <1>2, <1>3, WFMin
  <1>5. PICK i \in S : X = S \cap (0..i)
    BY <1>4
  <1>6. ASSUME NEW j \in S, ~(i <= j)
        PROVE  FALSE
    <2> DEFINE Y == S \cap (0..j)
    <2>1. Y \in T /\ i \notin Y /\ i \in X /\ Y \subseteq X
      BY <1>5, <1>6
    <2>2. <<Y, X>> \in R
      BY <1>5, <2>1 DEF StrictSubsetOrdering
    <2>3. QED BY <1>4, <2>1, <2>2
  <1>7. QED BY <1>6

LEMMA LeastIsMin ==
    ASSUME NEW S \in SUBSET Nat, S # {}
    PROVE  Min(S) \in S
  BY LeastNatural DEF Min

\* The ids of an answer that kept its headers: its parent, and the thread back to the
\* mail that opened the ticket.
LEMMA ReferenceIdsFacts ==
    ASSUME NEW l \in Letter
    PROVE  LET ids == ReferenceIds(l)
               n == Len(l.refs)
           IN  /\ l.parent # None =>
                      /\ ids \in Seq(Ids) /\ Len(ids) = n + 1
                      /\ \A i \in DOMAIN ids : ids[i] = l.parent \/ \E j \in DOMAIN l.refs : ids[i] = l.refs[j]
                      /\ l.refs # <<>> => ids[n + 1] = l.refs[1]
               /\ l.parent = None /\ l.refs = <<>> => DOMAIN ids = {}
  <1> DEFINE refs == l.refs
             n == Len(refs)
             back == Reverse(refs)
             ids == ReferenceIds(l)
  <1>1. refs \in Seq(Ids) /\ n \in Nat /\ DOMAIN refs = 1..n /\ l.parent \in Ids \cup {None}
    BY DEF Letter
  <1>2. back = [i \in 1..n |-> refs[(n - i) + 1]]
    BY DEF Reverse
  <1>3. \A i \in 1..n : (n - i) + 1 \in 1..n
    BY <1>1
  <1>4. /\ back \in Seq(Ids) /\ Len(back) = n
        /\ \A i \in 1..n : back[i] = refs[(n - i) + 1]
    BY <1>1, <1>2, <1>3
  <1>5. ids = (IF l.parent = None THEN <<>> ELSE <<l.parent>>) \o back
    BY DEF ReferenceIds
  <1> HIDE DEF back, ids, refs
  <1>6. ASSUME l.parent # None
        PROVE  /\ ids \in Seq(Ids) /\ Len(ids) = n + 1
               /\ \A i \in DOMAIN ids : ids[i] = l.parent \/ \E j \in DOMAIN refs : ids[i] = refs[j]
               /\ refs # <<>> => ids[n + 1] = refs[1]
    <2>1. l.parent \in Ids /\ <<l.parent>> \in Seq(Ids) /\ ids = <<l.parent>> \o back
      BY <1>1, <1>5, <1>6
    <2>2. /\ ids \in Seq(Ids) /\ Len(ids) = n + 1 /\ DOMAIN ids = 1..(n + 1)
          /\ ids[1] = l.parent /\ \A i \in 2..(n + 1) : ids[i] = back[i - 1]
      BY <1>1, <1>4, <2>1
    <2>3. ASSUME NEW i \in 2..(n + 1)
          PROVE  \E j \in DOMAIN refs : ids[i] = refs[j]
      <3>1. PICK k \in 1..n : ids[i] = back[k]
        <4>1. i - 1 \in 1..n /\ ids[i] = back[i - 1]
          BY <1>1, <2>2
        <4>2. QED BY <4>1
      <3>2. PICK j : j = (n - k) + 1
        OBVIOUS
      <3>3. j \in DOMAIN refs
        BY <1>1, <1>3, <3>2
      <3>4. back[k] = refs[j]
        BY <1>4, <3>2
      <3>5. QED BY <3>1, <3>3, <3>4
    <2>4. refs # <<>> => ids[n + 1] = refs[1]
      <3> SUFFICES ASSUME refs # <<>>
                   PROVE  ids[n + 1] = refs[1]
        OBVIOUS
      <3>1. n >= 1
        BY <1>1
      <3>2. ids[n + 1] = back[n] /\ back[n] = refs[(n - n) + 1]
        BY <1>1, <1>4, <2>2, <3>1
      <3>3. QED BY <1>1, <3>2
    <2>5. QED BY <1>1, <2>2, <2>3, <2>4
  <1>7. ASSUME l.parent = None, refs = <<>>
        PROVE  DOMAIN ids = {}
    <2>1. n = 0 /\ Len(back) = 0 /\ ids = <<>> \o back
      BY <1>1, <1>4, <1>5, <1>7
    <2>2. QED BY <1>4, <2>1
  <1>8. QED BY <1>6, <1>7 DEF ids, refs

\* While no mail was filed twice, an id of a ticket's thread is in no other ticket.
LEMMA HeldByItsTicket ==
    ASSUME TypeOK, EmailSound, NeverTwice, NEW u, NEW id, NEW t \in Tickets, OfThread(id, t)
    PROVE  Holding(u, id) \subseteq {t}
  <1> SUFFICES ASSUME NEW s \in Holding(u, id)
               PROVE  s = t
    OBVIOUS
  <1>1. s \in Tickets /\ Exists(s) /\ Contains(tickets[s].meta.ids, id)
    BY DEF Holding, Candidates, Exists
  <1>2. VersionOf(tickets[s].meta, s)
    BY <1>1 DEF EmailSound, TicketSound
  <1>3. OfThread(id, s)
    <2> DEFINE ids == tickets[s].meta.ids
    <2>1. \A i \in DOMAIN ids : OfThread(ids[i], s)
      BY <1>2 DEF VersionOf, RefsOf
    <2>2. PICK i \in 1..Len(ids) : ids[i] = id
      BY <1>1 DEF Contains
    <2>3. DOMAIN ids = 1..Len(ids)
      BY <1>1 DEF TypeOK, TicketRow, Metadata
    <2>4. QED BY <2>1, <2>2, <2>3
  <1>4. QED BY <1>1, <1>3, EmailAssumption DEF OfThread, NeverTwice

\* An answer that kept its headers, or whose tag is unambiguous, is matched with the
\* ticket of the mail it answers, and with nothing else.
LEMMA AnswerMatched ==
    ASSUME TypeOK, EmailSound, NeverTwice, NEW m \in Mails, letters[m] # None,
           users[letters[m].from] # "owner", letters[m].answers # None,
           letters[m].parent # None \/ ~clash
    PROVE  Matched(letters[m]) = {jobs[letters[m].answers].ticket}
  <1> DEFINE l == letters[m]
             t == jobs[l.answers].ticket
             ids == ReferenceIds(l)
             hits == {i \in DOMAIN ids : Holding(l.from, ids[i]) # {}}
  <1>1. l \in Letter /\ l.answers \in Replies
    BY DEF TypeOK, Letter
  <1>2. /\ jobs[l.answers].phase # "none" /\ l.from = tickets[t].sender /\ l.tag = t
        /\ l.parent = None => l.refs = <<>>
        /\ l.parent # None => RefsOf(l.refs, t) /\ OfThread(l.parent, t)
    BY DEF EmailSound, LetterSound
  <1>3. Exists(t) /\ t \in Tickets
    BY <1>1, <1>2 DEF EmailSound, ReplyJobSound, Exists
  <1>4. t \in Candidates(l.from)
    BY <1>2, <1>3 DEF EmailSound, TicketSound, Candidates, Exists
  <1>5. VersionOf(tickets[t].meta, t) /\ tickets[t].meta.ids \in Seq(Ids)
    BY <1>3 DEF EmailSound, TicketSound, TypeOK, TicketRow, Metadata
  <1>6. ByReference(l) = IF hits = {} THEN {} ELSE Holding(l.from, ids[Min(hits)])
    BY DEF ByReference
  <1>7. CASE l.parent # None
    <2> DEFINE n == Len(l.refs)
    <2>1. /\ ids \in Seq(Ids) /\ Len(ids) = n + 1 /\ n \in Nat /\ l.refs \in Seq(Ids)
          /\ \A i \in DOMAIN ids : ids[i] = l.parent \/ \E j \in DOMAIN l.refs : ids[i] = l.refs[j]
          /\ ids[n + 1] = l.refs[1]
      BY <1>1, <1>2, <1>7, ReferenceIdsFacts DEF Letter, RefsOf
    <2>2. \A i \in DOMAIN ids : OfThread(ids[i], t)
      BY <1>2, <1>7, <2>1 DEF RefsOf
    <2>3. \A i \in DOMAIN ids : Holding(l.from, ids[i]) \subseteq {t}
      BY <1>3, <2>2, HeldByItsTicket
    <2>4. ids[n + 1] = tickets[t].meta.ids[1]
      BY <1>2, <1>7, <2>1 DEF RefsOf
    <2>5. Contains(tickets[t].meta.ids, ids[n + 1])
      <3> DEFINE thread == tickets[t].meta.ids
      <3>1. thread \in Seq(Ids) /\ thread # <<>>
        BY <1>5 DEF VersionOf, RefsOf
      <3> HIDE DEF thread
      <3>2. 1 \in 1..Len(thread)
        BY <3>1
      <3>3. Contains(thread, thread[1])
        BY <3>2 DEF Contains
      <3>4. QED BY <2>4, <3>3 DEF thread
    <2>6. t \in Holding(l.from, ids[n + 1])
      BY <1>4, <2>5 DEF Holding
    <2>7. n + 1 \in DOMAIN ids /\ DOMAIN ids \subseteq Nat
      BY <2>1
    <2> HIDE DEF l, t, ids, n
    <2>8. hits \in SUBSET Nat /\ hits # {}
      BY <2>6, <2>7
    <2>9. Min(hits) \in hits
      BY <2>8, LeastIsMin
    <2>10. Holding(l.from, ids[Min(hits)]) = {t}
      BY <2>3, <2>9
    <2>11. ByReference(l) = {t}
      BY <1>6, <2>8, <2>10
    <2>12. QED BY <2>11 DEF Matched, l, t
  <1>8. CASE l.parent = None
    <2>1. DOMAIN ids = {}
      BY <1>1, <1>2, <1>8, ReferenceIdsFacts
    <2>2. ByReference(l) = {}
      BY <1>6, <2>1
    <2>3. TagMatches(l) = {t}
      BY <1>2, <1>3, <1>4, <1>8, EmailAssumption DEF TagMatches
    <2>4. ByTag(l) = {t}
      BY <2>3, FS_Singleton DEF ByTag
    <2>5. QED BY <2>2, <2>4 DEF Matched
  <1>9. QED BY <1>7, <1>8

-----------------------------------------------------------------------------

\* What taking up a mail does: one idle request opens with a ticket it may append to,
\* and the stored version of its thread, or with an id for a new one.
Takes(h, m, t, q) ==
    /\ hooks[h].phase = "idle" /\ hooks' = [hooks EXCEPT ![h] = q]
    /\ q \in Hook /\ q.phase = "open" /\ q.mail = m /\ q.ticket = t
    /\ letters[m] # None /\ letters[m].from \in Senders /\ users[letters[m].from] # "elsewhere"
    /\ MayWrite(letters[m].from) /\ ~Replay(m)
    /\ \/ /\ ~q.new /\ t \in Matched(letters[m]) /\ q.meta = tickets[t].meta
          /\ MayWrite(tickets[t].sender)
       \/ /\ q.new /\ Matched(letters[m]) = {} /\ q.meta = NoMeta
          /\ tickets[t].status = "none" /\ \A g \in Hooks : hooks[g].ticket # t
    /\ delivered' \in 0..MaxDeliveries
    /\ UNCHANGED <<overlap, clash, users, letters, tickets, jobs, cutoff, filed, mailed, missed>>

LEMMA IngestTakes ==
    ASSUME TypeOK, NEW h \in Hooks, NEW m \in Mails, NEW t \in Tickets,
           IngestInto(h, m, t) \/ IngestNew(h, m, t)
    PROVE  \E q \in Hook : Takes(h, m, t, q)
  <1>1. /\ hooks[h].phase = "idle" /\ letters[m] # None /\ users[letters[m].from] # "elsewhere"
        /\ MayWrite(letters[m].from) /\ ~Replay(m)
        /\ delivered' = delivered + 1 /\ delivered < MaxDeliveries
    BY DEF IngestInto, IngestNew, Accept
  <1>2. delivered' \in 0..MaxDeliveries /\ letters[m].from \in Senders
    BY <1>1, EmailAssumption DEF TypeOK, Letter
  <1>3. UNCHANGED <<overlap, clash, users, letters, tickets, jobs, cutoff, filed, mailed, missed>>
    BY DEF IngestInto, IngestNew
  <1>4. tickets[t].meta \in Metadata /\ tickets[t].created \in 0..MaxDeliveries
    BY DEF TypeOK, TicketRow
  <1>5. CASE IngestInto(h, m, t)
    <2> DEFINE q == [phase |-> "open", mail |-> m, ticket |-> t, new |-> FALSE,
                     created |-> tickets[t].created, meta |-> tickets[t].meta]
    <2>1. /\ hooks' = [hooks EXCEPT ![h] = q]
          /\ t \in Matched(letters[m]) /\ MayWrite(tickets[t].sender)
      BY <1>5 DEF IngestInto
    <2>2. q \in Hook /\ q.phase = "open" /\ q.mail = m /\ q.ticket = t /\ ~q.new
          /\ q.meta = tickets[t].meta
      BY <1>4 DEF Hook
    <2> HIDE DEF q
    <2>3. Takes(h, m, t, q)
      BY <1>1, <1>2, <1>3, <2>1, <2>2 DEF Takes
    <2>4. QED BY <2>2, <2>3
  <1>6. CASE IngestNew(h, m, t)
    <2> DEFINE q == [phase |-> "open", mail |-> m, ticket |-> t, new |-> TRUE,
                     created |-> delivered', meta |-> NoMeta]
    <2>1. /\ hooks' = [hooks EXCEPT ![h] = q]
          /\ Matched(letters[m]) = {} /\ tickets[t].status = "none"
          /\ \A g \in Hooks : hooks[g].ticket # t
      BY <1>6 DEF IngestNew
    <2>2. q \in Hook /\ q.phase = "open" /\ q.mail = m /\ q.ticket = t /\ q.new
          /\ q.meta = NoMeta
      BY <1>2, EmptyMail DEF Hook
    <2> HIDE DEF q
    <2>3. Takes(h, m, t, q)
      BY <1>1, <1>2, <1>3, <2>1, <2>2 DEF Takes
    <2>4. QED BY <2>2, <2>3
  <1>7. QED BY <1>5, <1>6

LEMMA TakesShape ==
    ASSUME TypeOK, EmailSound, NeverTwice => AnswersBelong,
           NEW h \in Hooks, NEW m \in Mails, NEW t \in Tickets, NEW q \in Hook, Takes(h, m, t, q)
    PROVE  TypeOK' /\ EmailSound' /\ Grows /\ (NeverTwice' => AnswersBelong')
  <1>1. hooks'[h] = q /\ \A g \in Hooks : g # h => hooks'[g] = hooks[g]
    BY DEF Takes, TypeOK
  <1>2. TypeOK'
    BY DEF Takes, TypeOK
  <1>3. Grows
    BY DEF Takes, Grows
  <1>4. MailHookSound(q)
    <2>1. CASE ~q.new
      <3>1. t \in Matched(letters[m]) /\ q.meta = tickets[t].meta
        BY <2>1 DEF Takes
      <3>2. Exists(t) /\ Sees(letters[m].from, t)
        BY <3>1, MatchedIsSeen
      <3>3. VersionOf(q.meta, t)
        BY <3>1, <3>2 DEF EmailSound, TicketSound
      <3>4. QED BY <2>1, <3>2, <3>3 DEF Takes, MailHookSound
    <2>2. CASE q.new
      BY <2>2 DEF Takes, MailHookSound, Exists
    <2>3. QED BY <2>1, <2>2
  <1>5. MailHookSound(hooks[h])'
    BY <1>1, <1>4 DEF MailHookSound, Takes, Exists, VersionOf, RefsOf, OfThread, Sees
  <1>6. \A s \in Tickets : Exists(s)' => Exists(s)
    BY DEF Exists, Takes
  <1>7. \A g \in Hooks : hooks[g].phase = "open" /\ hooks[g].new => ~Exists(hooks[g].ticket)'
    BY DEF EmailSound, MailHookSound, Exists, Takes
  <1>8. FreshTickets'
    <2> SUFFICES ASSUME NEW g \in Hooks, NEW k \in Hooks,
                        hooks'[g].phase = "open", hooks'[g].new,
                        hooks'[k].ticket = hooks'[g].ticket
                 PROVE  k = g
      BY DEF FreshTickets
    <2>1. CASE g = h
      BY <1>1, <2>1 DEF Takes
    <2>2. CASE g # h /\ k = h
      <3>1. hooks[g].phase = "open" /\ hooks[g].new /\ hooks[g].ticket = t
        BY <1>1, <2>2 DEF Takes
      <3>2. ~Exists(t)
        BY <3>1 DEF EmailSound, MailHookSound
      <3>3. CASE q.new
        BY <3>1, <3>3 DEF Takes
      <3>4. CASE ~q.new
        BY <3>2, <3>4, MatchedIsSeen DEF Takes
      <3>5. QED BY <3>3, <3>4
    <2>3. CASE g # h /\ k # h
      BY <1>1, <2>3 DEF EmailSound, FreshTickets
    <2>4. QED BY <2>1, <2>2, <2>3
  <1>9. EmailSound'
    <2>1. \A s \in Tickets : tickets'[s].meta = tickets[s].meta
      BY DEF Takes
    <2>2. jobs' = jobs /\ mailed' = mailed /\ letters' = letters /\ filed' = filed
      BY DEF Takes
    <2>3. QED BY <1>1, <1>3, <1>5, <1>6, <1>7, <1>8, <2>1, <2>2, EmailSoundKeeps
  <1>10. NeverTwice => Belongs(m, t)
    <2> SUFFICES ASSUME NeverTwice, users[letters[m].from] # "owner", letters[m].answers # None,
                        letters[m].parent # None \/ ~clash
                 PROVE  t = jobs[letters[m].answers].ticket
      BY DEF Belongs
    <2>1. Matched(letters[m]) = {jobs[letters[m].answers].ticket}
      BY AnswerMatched DEF Takes
    <2>2. QED BY <2>1 DEF Takes
  <1>11. NeverTwice => Belongs(hooks[h].mail, hooks[h].ticket)'
    BY <1>1, <1>10 DEF Takes, Belongs
  <1>12. NeverTwice' => AnswersBelong'
    BY <1>1, <1>3, <1>11, BelongKeeps DEF Takes
  <1>13. QED BY <1>2, <1>3, <1>9, <1>12

\* What the commit of a request does.
CommitsMail(h) ==
    LET q == hooks[h]
        m == q.mail
        t == q.ticket
        l == letters[m]
    IN  /\ q.phase = "open" /\ m \in Mails /\ t \in Tickets /\ l \in Letter /\ l # None
        /\ users'[l.from] \in {"tenant", "staff", "owner"}
        /\ \A u \in Senders : \/ users'[u] = users[u]
                              \/ users[u] = "none" /\ users'[u] = "tenant"
        /\ tickets'[t].status # "none"
        /\ tickets'[t].sender = (IF q.new THEN l.from ELSE tickets[t].sender)
        /\ tickets'[t].subject = (IF q.new THEN l.subject ELSE tickets[t].subject)
        /\ tickets'[t].meta.ids = Append(q.meta.ids, m)
        /\ tickets'[t].meta.last = q.meta.last
        /\ \A s \in Tickets : s # t => tickets'[s] = tickets[s]
        /\ hooks'[h] = NoHook /\ \A g \in Hooks : g # h => hooks'[g] = hooks[g]
        /\ filed'[m][t] = filed[m][t] + 1
        /\ \A n \in Mails, s \in Tickets : n # m \/ s # t => filed'[n][s] = filed[n][s]
        /\ UNCHANGED <<overlap, clash, letters, jobs, mailed, missed>>

LEMMA CommitHookCommitsMail ==
    ASSUME TypeOK, EmailSound, NEW h \in Hooks, CommitHook(h)
    PROVE  CommitsMail(h) /\ TypeOK'
  <1> DEFINE q == hooks[h]
             m == q.mail
             t == q.ticket
             l == letters[m]
             meta == [ids |-> Append(q.meta.ids, m), last |-> q.meta.last]
             row == [status |-> IF q.new THEN "open" ELSE tickets[t].status,
                     sender |-> IF q.new THEN l.from ELSE tickets[t].sender,
                     subject |-> IF q.new THEN l.subject ELSE tickets[t].subject,
                     created |-> q.created, meta |-> meta]
             role == IF users[l.from] = "none" THEN "tenant" ELSE users[l.from]
  <1>1. /\ q \in Hook /\ q.phase = "open" /\ m \in Mails /\ t \in Tickets
        /\ l # None /\ users[l.from] # "elsewhere" /\ (~q.new => Exists(t))
    BY DEF CommitHook, TypeOK, EmailSound, MailHookSound
  <1>2. l \in Letter /\ l.from \in Senders /\ l.subject \in Subjects
    BY <1>1 DEF TypeOK, Letter
  <1>3. /\ users' = [users EXCEPT ![l.from] = role]
        /\ tickets' = [tickets EXCEPT ![t] = row]
        /\ hooks' = [hooks EXCEPT ![h] = NoHook]
        /\ filed' = [filed EXCEPT ![m][t] = filed[m][t] + 1]
        /\ UNCHANGED <<overlap, clash, letters, jobs, delivered, cutoff, mailed, missed>>
    BY DEF CommitHook, Recorded
  <1>4. meta \in Metadata /\ meta.ids = Append(q.meta.ids, m) /\ meta.last = q.meta.last
    <2>1. q.meta \in Metadata /\ m \in Ids
      BY <1>1 DEF Hook, Ids
    <2>2. q.meta.ids \in Seq(Ids) /\ q.meta.last \in Replies \cup {None}
      BY <2>1 DEF Metadata
    <2>3. Append(q.meta.ids, m) \in Seq(Ids)
      BY <2>1, <2>2, RecordedList
    <2>4. QED BY <2>2, <2>3 DEF Metadata
  <1> HIDE DEF meta
  <1>5. /\ row \in TicketRow /\ row.status # "none" /\ row.meta = meta
        /\ row.sender = (IF q.new THEN l.from ELSE tickets[t].sender)
        /\ row.subject = (IF q.new THEN l.subject ELSE tickets[t].subject)
    <2>1. tickets[t] \in TicketRow /\ q.created \in 0..MaxDeliveries /\ (~q.new => tickets[t].status # "none")
      BY <1>1 DEF TypeOK, Hook, Exists
    <2>2. QED BY <1>2, <1>4, <2>1 DEF TicketRow
  <1> HIDE DEF row
  <1>6. /\ users' \in [Senders -> Roles] /\ users'[l.from] \in {"tenant", "staff", "owner"}
        /\ \A u \in Senders : \/ users'[u] = users[u]
                              \/ users[u] = "none" /\ users'[u] = "tenant"
    <2>1. users \in [Senders -> Roles]
      BY DEF TypeOK
    <2>2. role \in Roles /\ role \in {"tenant", "staff", "owner"}
      BY <1>1, <1>2, <2>1 DEF Roles
    <2>3. \A u \in Senders : users'[u] = IF u = l.from THEN role ELSE users[u]
      BY <1>2, <1>3, <2>1
    <2>4. QED BY <1>2, <1>3, <2>1, <2>2, <2>3
  <1>7. /\ tickets' \in [Tickets -> TicketRow] /\ tickets'[t] = row
        /\ \A s \in Tickets : s # t => tickets'[s] = tickets[s]
    BY <1>1, <1>3, <1>5 DEF TypeOK
  <1>8. /\ hooks' \in [Hooks -> Hook] /\ hooks'[h] = NoHook
        /\ \A g \in Hooks : g # h => hooks'[g] = hooks[g]
    BY <1>3, EmptyMail DEF TypeOK
  <1>9. /\ filed' \in [Mails -> [Tickets -> Nat]] /\ filed'[m][t] = filed[m][t] + 1
        /\ \A n \in Mails, s \in Tickets : n # m \/ s # t => filed'[n][s] = filed[n][s]
    <2>1. filed \in [Mails -> [Tickets -> Nat]]
      BY DEF TypeOK
    <2>2. QED BY <1>1, <1>3, <2>1
  <1>10. TypeOK'
    BY <1>3, <1>6, <1>7, <1>8, <1>9 DEF TypeOK
  <1>11. CommitsMail(h)
    BY <1>1, <1>2, <1>3, <1>4, <1>5, <1>6, <1>7, <1>8, <1>9 DEF CommitsMail
  <1>12. QED BY <1>10, <1>11

LEMMA CommitsMailShape ==
    ASSUME TypeOK, EmailSound, NeverTwice => AnswersBelong, NEW h \in Hooks, CommitsMail(h)
    PROVE  EmailSound' /\ Grows /\ (NeverTwice' => AnswersBelong')
  <1>1. PICK q, m, t, l : q = hooks[h] /\ m = q.mail /\ t = q.ticket /\ l = letters[m]
    OBVIOUS
  <1>2. /\ q.phase = "open" /\ m \in Mails /\ t \in Tickets /\ l \in Letter /\ l # None
        /\ l.from \in Senders /\ l.subject \in Subjects
        /\ users'[l.from] \in {"tenant", "staff", "owner"}
    BY <1>1 DEF CommitsMail, Letter
  <1>3. /\ \A u \in Senders : \/ users'[u] = users[u]
                              \/ users[u] = "none" /\ users'[u] = "tenant"
        /\ tickets'[t].status # "none"
        /\ tickets'[t].sender = (IF q.new THEN l.from ELSE tickets[t].sender)
        /\ tickets'[t].subject = (IF q.new THEN l.subject ELSE tickets[t].subject)
        /\ tickets'[t].meta.ids = Append(q.meta.ids, m)
        /\ tickets'[t].meta.last = q.meta.last
        /\ \A s \in Tickets : s # t => tickets'[s] = tickets[s]
    BY <1>1 DEF CommitsMail
  <1>4. /\ hooks'[h] = NoHook /\ \A g \in Hooks : g # h => hooks'[g] = hooks[g]
        /\ filed'[m][t] = filed[m][t] + 1
        /\ \A n \in Mails, s \in Tickets : n # m \/ s # t => filed'[n][s] = filed[n][s]
        /\ UNCHANGED <<overlap, clash, letters, jobs, mailed, missed>>
    BY <1>1 DEF CommitsMail
  <1>5. filed[m][t] \in Nat /\ filed'[m][t] > 0
    <2>1. filed[m][t] \in Nat
      BY <1>2 DEF TypeOK
    <2>2. QED BY <1>4, <2>1
  <1>6. /\ q.new => ~Exists(t) /\ q.meta.ids = <<>> /\ q.meta.last = None
        /\ ~q.new => Exists(t) /\ VersionOf(q.meta, t) /\ Sees(l.from, t)
        /\ q.meta.ids \in Seq(Ids) /\ m \in Ids
    BY <1>1, <1>2, EmptyMail DEF EmailSound, MailHookSound, TypeOK, Hook, Metadata, Ids
  <1>7. Grows
    <2>1. ASSUME Exists(t)
          PROVE  /\ tickets'[t].sender = tickets[t].sender /\ tickets'[t].subject = tickets[t].subject
                 /\ tickets'[t].meta.ids[1] = tickets[t].meta.ids[1]
      <3>1. ~q.new /\ q.meta.ids # <<>> /\ q.meta.ids[1] = tickets[t].meta.ids[1]
        BY <1>6, <2>1 DEF VersionOf, RefsOf
      <3>2. Append(q.meta.ids, m)[1] = q.meta.ids[1]
        BY <1>6, <3>1, RecordedList
      <3>3. QED BY <1>3, <3>1, <3>2
    <2>2. \A s \in Tickets : tickets[s].status # "none" =>
              /\ tickets'[s].status # "none"
              /\ tickets'[s].sender = tickets[s].sender /\ tickets'[s].subject = tickets[s].subject
              /\ tickets'[s].meta.ids[1] = tickets[s].meta.ids[1]
      BY <1>3, <2>1 DEF Exists
    <2>3. \A n \in Mails, s \in Tickets : filed[n][s] > 0 => filed'[n][s] > 0
      BY <1>4, <1>5
    <2>4. letters' = letters /\ jobs' = jobs /\ UNCHANGED <<overlap, clash>>
      BY <1>4
    <2>5. QED BY <1>3, <2>2, <2>3, <2>4 DEF Grows
  <1>8. Exists(t)'
    BY <1>2, <1>3 DEF Exists
  <1>9. OfThread(m, t)'
    BY <1>2, <1>5 DEF OfThread
  <1>10. /\ \A i \in DOMAIN q.meta.ids : OfThread(q.meta.ids[i], t)'
         /\ q.meta.last # None => OfThread(q.meta.last, t)'
    <2>1. CASE q.new
      BY <1>6, <2>1
    <2>2. CASE ~q.new
      BY <1>2, <1>6, <1>7, <2>2, OfThreadStays DEF VersionOf, RefsOf
    <2>3. QED BY <2>1, <2>2
  <1>11. VersionOf(tickets[t].meta, t)'
    <2>1. PICK ids : ids = Append(q.meta.ids, m)
      OBVIOUS
    <2>2. ids # <<>> /\ \A i \in DOMAIN ids : OfThread(ids[i], t)'
      BY <1>6, <1>9, <1>10, <2>1, RecordedList
    <2>3. tickets'[t].meta.ids = ids
      BY <1>3, <2>1
    <2>4. RefsOf(tickets[t].meta.ids, t)'
      BY <2>2, <2>3 DEF RefsOf
    <2>5. QED BY <1>3, <1>10, <2>4 DEF VersionOf
  <1>12. TicketSound(t)'
    <2>1. tickets'[t].sender \in Senders /\ tickets'[t].subject \in Subjects
          /\ users'[tickets'[t].sender] \in {"tenant", "staff", "owner"}
      <3>1. CASE q.new
        BY <1>2, <1>3, <3>1
      <3>2. CASE ~q.new
        <4>1. /\ tickets[t].sender \in Senders /\ tickets[t].subject \in Subjects
              /\ users[tickets[t].sender] \in {"tenant", "staff", "owner"}
          BY <1>2, <1>6, <3>2 DEF EmailSound, TicketSound
        <4>2. tickets'[t].sender = tickets[t].sender /\ tickets'[t].subject = tickets[t].subject
          BY <1>3, <3>2
        <4>3. users'[tickets[t].sender] = users[tickets[t].sender]
          BY <1>3, <4>1
        <4>4. QED BY <4>1, <4>2, <4>3
      <3>3. QED BY <3>1, <3>2
    <2>2. QED BY <1>11, <2>1 DEF TicketSound
  <1>13. FiledSound(m, t)'
    <2>1. users'[l.from] = "owner" \/ users'[l.from] = "staff"
          \/ (users'[l.from] = "tenant" /\ tickets'[t].sender = l.from)
      <3>1. CASE q.new
        BY <1>2, <1>3, <3>1
      <3>2. CASE ~q.new
        <4>1. Sees(l.from, t) /\ tickets'[t].sender = tickets[t].sender
          BY <1>3, <1>6, <3>2
        <4>2. users'[l.from] = users[l.from]
          BY <1>2, <1>3, <4>1 DEF Sees
        <4>3. QED BY <4>1, <4>2 DEF Sees
      <3>3. QED BY <3>1, <3>2
    <2>2. letters'[m] = l
      BY <1>1, <1>4
    <2>3. QED BY <1>2, <1>8, <2>1, <2>2 DEF FiledSound, Sees
  <1>14. \A g \in Hooks : g # h /\ hooks[g].phase = "open" /\ hooks[g].new => ~Exists(hooks[g].ticket)'
    <2> SUFFICES ASSUME NEW g \in Hooks, g # h, hooks[g].phase = "open", hooks[g].new
                 PROVE  ~Exists(hooks[g].ticket)'
      OBVIOUS
    <2>1. hooks[g].ticket # t
      BY <1>1 DEF EmailSound, FreshTickets
    <2>2. ~Exists(hooks[g].ticket) /\ hooks'[g] = hooks[g]
      BY <1>4 DEF EmailSound, MailHookSound
    <2>3. QED BY <1>3, <2>1, <2>2 DEF Exists
  <1>15. MailHookSound(hooks[h])'
    BY <1>4, EmptyMail DEF MailHookSound
  <1>16. FreshTickets'
    <2> SUFFICES ASSUME NEW g \in Hooks, NEW k \in Hooks,
                        hooks'[g].phase = "open", hooks'[g].new,
                        hooks'[k].ticket = hooks'[g].ticket
                 PROVE  k = g
      BY DEF FreshTickets
    <2>1. g # h /\ hooks'[g] = hooks[g]
      BY <1>4, EmptyMail
    <2>2. hooks[g].ticket \in Tickets
      BY <2>1 DEF EmailSound, MailHookSound
    <2>3. k # h
      BY <1>4, <2>1, <2>2, EmptyMail
    <2>4. QED BY <1>4, <2>1, <2>3 DEF EmailSound, FreshTickets
  <1>17. EmailSound'
    <2>1. \A s \in Tickets : \/ (Exists(s)' => Exists(s)) /\ tickets'[s].meta = tickets[s].meta
                             \/ TicketSound(s)'
      BY <1>3, <1>12 DEF Exists
    <2>2. \A g \in Hooks : \/ /\ hooks'[g] = hooks[g]
                              /\ hooks[g].phase = "open" /\ hooks[g].new => ~Exists(hooks[g].ticket)'
                           \/ MailHookSound(hooks[g])'
      BY <1>4, <1>14, <1>15
    <2>3. \A n \in Mails, s \in Tickets : filed'[n][s] = filed[n][s] \/ FiledSound(n, s)'
      BY <1>4, <1>13
    <2>4. jobs' = jobs /\ mailed' = mailed /\ letters' = letters
      BY <1>4
    <2>5. QED BY <1>7, <1>16, <2>1, <2>2, <2>3, <2>4, EmailSoundKeeps
  <1>18. NeverTwice' => AnswersBelong'
    <2>1. \A n \in Mails, s \in Tickets : filed'[n][s] > 0 =>
              \/ filed[n][s] > 0
              \/ \E g \in Hooks : hooks[g].phase = "open" /\ hooks[g].mail = n /\ hooks[g].ticket = s
      BY <1>1, <1>2, <1>4
    <2>2. \A g \in Hooks : hooks'[g].phase = "open" => hooks'[g] = hooks[g]
      BY <1>4, EmptyMail
    <2>3. QED BY <1>7, <2>1, <2>2, BelongKeeps
  <1>19. QED BY <1>7, <1>17, <1>18

-----------------------------------------------------------------------------

\* A request that fails is gone.
LEMMA AbortHookShape ==
    ASSUME TypeOK, EmailSound, NeverTwice => AnswersBelong, NEW h \in Hooks, AbortHook(h)
    PROVE  TypeOK' /\ EmailSound' /\ Grows /\ (NeverTwice' => AnswersBelong')
  <1>1. /\ hooks' = [hooks EXCEPT ![h] = NoHook]
        /\ UNCHANGED <<overlap, clash, users, letters, tickets, jobs, delivered, cutoff,
                       filed, mailed, missed>>
    BY DEF AbortHook
  <1>2. /\ hooks' \in [Hooks -> Hook] /\ hooks'[h] = NoHook
        /\ \A g \in Hooks : g # h => hooks'[g] = hooks[g]
    BY <1>1, EmptyMail DEF TypeOK
  <1>3. TypeOK'
    BY <1>1, <1>2 DEF TypeOK
  <1>4. Grows
    BY <1>1 DEF Grows
  <1>5. MailHookSound(hooks[h])'
    BY <1>2, EmptyMail DEF MailHookSound
  <1>6. \A g \in Hooks : hooks[g].phase = "open" /\ hooks[g].new /\ g # h => ~Exists(hooks[g].ticket)'
    BY <1>1, <1>2 DEF EmailSound, MailHookSound, Exists
  <1>7. FreshTickets'
    <2> SUFFICES ASSUME NEW g \in Hooks, NEW k \in Hooks,
                        hooks'[g].phase = "open", hooks'[g].new,
                        hooks'[k].ticket = hooks'[g].ticket
                 PROVE  k = g
      BY DEF FreshTickets
    <2>1. g # h /\ hooks'[g] = hooks[g] /\ hooks[g].ticket \in Tickets
      BY <1>2, EmptyMail DEF EmailSound, MailHookSound
    <2>2. k # h
      BY <1>2, <2>1, EmptyMail
    <2>3. QED BY <1>2, <2>1, <2>2 DEF EmailSound, FreshTickets
  <1>8. EmailSound'
    <2>1. \A s \in Tickets : (Exists(s)' => Exists(s)) /\ tickets'[s].meta = tickets[s].meta
      BY <1>1 DEF Exists
    <2>2. \A g \in Hooks : \/ /\ hooks'[g] = hooks[g]
                              /\ hooks[g].phase = "open" /\ hooks[g].new => ~Exists(hooks[g].ticket)'
                           \/ MailHookSound(hooks[g])'
      BY <1>2, <1>5, <1>6
    <2>3. jobs' = jobs /\ mailed' = mailed /\ letters' = letters /\ filed' = filed
      BY <1>1
    <2>4. QED BY <1>4, <1>7, <2>1, <2>2, <2>3, EmailSoundKeeps
  <1>9. \A g \in Hooks : hooks'[g].phase = "open" => hooks'[g] = hooks[g]
    BY <1>2, EmptyMail
  <1>10. filed' = filed
    BY <1>1
  <1>11. NeverTwice' => AnswersBelong'
    BY <1>4, <1>9, <1>10, BelongKeeps
  <1>12. QED BY <1>3, <1>4, <1>8, <1>11

\* A step that changes neither requests nor mails nor what is filed keeps the answers
\* where they belong.
LEMMA BelongStays ==
    ASSUME TypeOK, EmailSound, NeverTwice => AnswersBelong, Grows,
           UNCHANGED <<hooks, filed>>
    PROVE  NeverTwice' => AnswersBelong'
  <1>1. filed' = filed /\ hooks' = hooks
    OBVIOUS
  <1>2. QED BY <1>1, BelongKeeps

\* update_ticket and the days that go by.
LEMMA StatusShape ==
    ASSUME TypeOK, EmailSound, NeverTwice => AnswersBelong,
           \/ \E t \in Tickets, c \in BOOLEAN : SetStatus(t, c)
           \/ Age
    PROVE  /\ TypeOK' /\ EmailSound' /\ Grows /\ (NeverTwice' => AnswersBelong')
           /\ \A t \in Tickets : tickets'[t].meta = tickets[t].meta
           /\ UNCHANGED <<overlap, users, letters, hooks, jobs, filed, mailed, missed>>
  <1>1. UNCHANGED <<overlap, clash, users, letters, hooks, jobs, delivered, filed, mailed, missed>>
    BY DEF SetStatus, Age
  <1>2. /\ tickets' \in [Tickets -> TicketRow] /\ cutoff' \in 0..MaxDeliveries
        /\ \A t \in Tickets : /\ tickets'[t].meta = tickets[t].meta
                              /\ tickets'[t].sender = tickets[t].sender
                              /\ tickets'[t].subject = tickets[t].subject
                              /\ tickets'[t].status # "none" <=> tickets[t].status # "none"
    <2>1. CASE Age
      BY <2>1 DEF Age, TypeOK
    <2>2. CASE \E t \in Tickets, c \in BOOLEAN : SetStatus(t, c)
      <3>1. PICK t \in Tickets, c \in BOOLEAN : SetStatus(t, c)
        BY <2>2
      <3>2. PICK status \in {"open", "closed"} : /\ tickets' = [tickets EXCEPT ![t].status = status]
                                                /\ tickets[t].status # "none" /\ cutoff' = cutoff
        BY <3>1 DEF SetStatus
      <3>3. tickets \in [Tickets -> TicketRow] /\ cutoff \in 0..MaxDeliveries
        BY DEF TypeOK
      <3>4. QED BY <3>2, <3>3 DEF TicketRow
    <2>3. QED BY <2>1, <2>2
  <1>3. TypeOK'
    BY <1>1, <1>2 DEF TypeOK
  <1>4. Grows
    BY <1>1, <1>2 DEF Grows
  <1>5. \A h \in Hooks : hooks[h].phase = "open" /\ hooks[h].new => ~Exists(hooks[h].ticket)'
    BY <1>1, <1>2 DEF EmailSound, MailHookSound, Exists
  <1>6. FreshTickets'
    BY <1>1 DEF EmailSound, FreshTickets
  <1>7. EmailSound'
    <2>1. \A t \in Tickets : (Exists(t)' => Exists(t)) /\ tickets'[t].meta = tickets[t].meta
      BY <1>2 DEF Exists
    <2>2. hooks' = hooks /\ jobs' = jobs /\ mailed' = mailed /\ letters' = letters /\ filed' = filed
      BY <1>1
    <2>3. QED BY <1>4, <1>5, <1>6, <2>1, <2>2, EmailSoundKeeps
  <1>8. NeverTwice' => AnswersBelong'
    BY <1>1, <1>4, BelongStays
  <1>9. QED BY <1>1, <1>2, <1>3, <1>4, <1>7, <1>8

-----------------------------------------------------------------------------

\* build_reply_headers: References begins with the mail that opened the ticket and
\* names mails and replies of its thread only.
LEMMA ReferencesOfThread ==
    ASSUME TypeOK, EmailSound, NEW o \in Replies, jobs[o].phase = "loaded"
    PROVE  References(o) \in Seq(Ids) /\ RefsOf(References(o), jobs[o].ticket)
  <1> DEFINE meta == jobs[o].meta
             t == jobs[o].ticket
             ids == meta.ids
             parent == IF meta.last # None THEN meta.last ELSE Last(ids)
  <1>1. VersionOf(meta, t) /\ ids \in Seq(Ids) /\ meta.last \in Replies \cup {None}
    BY DEF EmailSound, ReplyJobSound, TypeOK, Job, Metadata
  <1>2. ids # <<>> /\ ids[1] = tickets[t].meta.ids[1] /\ \A i \in DOMAIN ids : OfThread(ids[i], t)
    BY <1>1 DEF VersionOf, RefsOf
  <1>3. Len(ids) \in DOMAIN ids /\ ids[Len(ids)] \in Ids
    BY <1>1, <1>2
  <1>4. parent \in Ids /\ OfThread(parent, t)
    BY <1>1, <1>2, <1>3 DEF VersionOf, Last, Ids
  <1>5. References(o) = IF Contains(ids, parent) THEN ids ELSE Append(ids, parent)
    BY DEF References
  <1> HIDE DEF ids, parent, t
  <1>6. RefsOf(Append(ids, parent), t) /\ Append(ids, parent) \in Seq(Ids)
    BY <1>1, <1>2, <1>4, RecordedList DEF RefsOf, ids
  <1>7. RefsOf(ids, t) /\ ids \in Seq(Ids)
    BY <1>1, <1>2 DEF RefsOf, ids
  <1>8. QED BY <1>5, <1>6, <1>7 DEF t

\* What a step of a staff reply's job does, the commit of its record aside.
JobGoes(o, q) ==
    LET p == jobs[o]
    IN  /\ q \in Job /\ q.phase \notin {"none", "recorded"}
        /\ jobs' = [jobs EXCEPT ![o] = q]
        /\ p.phase = "none" => Exists(q.ticket) /\ q.phase = "posted"
        /\ p.phase # "none" => q.ticket = p.ticket /\ q.phase # "posted"
        /\ \/ q.phase \notin {"loaded", "sent"}
           \/ p.phase \in {"loaded", "sent"} /\ q.meta = p.meta
           \/ /\ p.phase = "queued" /\ q.phase = "loaded" /\ ~SentBefore(o)
              /\ q.meta = tickets[q.ticket].meta /\ MayWrite(tickets[q.ticket].sender)
        /\ UNCHANGED <<overlap, clash, users, letters, tickets, hooks, delivered, cutoff, filed>>

\* How the mails taken and the mails missed are counted along the job's phases.
JobCounts(o) ==
    LET from == jobs[o].phase
        to == jobs'[o].phase
    IN  \/ /\ UNCHANGED <<mailed, missed>>
           /\ \/ to \in {"posted", "ended"} /\ from # "sent"
              \/ to = "queued" /\ from \in {"posted", "loaded", "recorded"}
              \/ to = "loaded" /\ from = "queued"
        \/ from = "loaded" /\ to = "sent" /\ Taken(o) /\ UNCHANGED missed
        \/ from = "loaded" /\ to = "queued" /\ Taken(o) /\ Unrecorded(o)
        \/ from = "sent" /\ to \in {"queued", "ended"} /\ Unrecorded(o) /\ UNCHANGED mailed

LEMMA GotoGoes ==
    ASSUME TypeOK, EmailSound, NEW o \in Replies, jobs[o].phase # "none",
           NEW phase \in {"queued", "sent", "ended"}, phase = "sent" => jobs[o].phase = "loaded",
           Goto(o, phase), OnlyJobs
    PROVE  /\ \E q \in Job : JobGoes(o, q) /\ q.phase = phase
           /\ jobs'[o].phase = phase
  <1> DEFINE p == jobs[o]
             meta == IF phase \in {"loaded", "sent"} THEN p.meta ELSE NoMeta
             q == [phase |-> phase, ticket |-> p.ticket, tries |-> p.tries, meta |-> meta]
  <1>1. p \in Job /\ jobs' = [jobs EXCEPT ![o] = q]
    BY DEF TypeOK, Goto
  <1>2. meta \in Metadata /\ (phase = "sent" => meta = p.meta)
    BY <1>1, EmptyMail DEF Job
  <1> HIDE DEF meta
  <1>3. q \in Job /\ q.phase = phase /\ q.ticket = p.ticket /\ q.meta = meta
    BY <1>1, <1>2 DEF Job
  <1> HIDE DEF q
  <1>4. JobGoes(o, q)
    BY <1>1, <1>2, <1>3 DEF JobGoes, OnlyJobs
  <1>5. jobs'[o] = q
    BY <1>1 DEF TypeOK
  <1>6. QED BY <1>3, <1>4, <1>5

LEMMA JobStepGoes ==
    ASSUME TypeOK, EmailSound, NEW o \in Replies,
           \/ \E t \in Tickets : PostReply(o, t)
           \/ LoadJob(o) \/ GiveUp(o) \/ SendMail(o) \/ RefuseMail(o)
           \/ FailJob(o) \/ CrashJob(o) \/ EndJob(o)
           \/ \E b \in BOOLEAN : EnqueueReply(o, b) \/ RetryMail(o, b)
    PROVE  (\E q \in Job : JobGoes(o, q)) /\ JobCounts(o)
  <1>1. CASE \E t \in Tickets : PostReply(o, t)
    <2>1. PICK t \in Tickets : PostReply(o, t)
      BY <1>1
    <2> DEFINE q == [phase |-> "posted", ticket |-> t, tries |-> 0, meta |-> NoMeta]
    <2>2. /\ jobs[o].phase = "none" /\ Exists(t) /\ jobs' = [jobs EXCEPT ![o] = q]
          /\ UNCHANGED <<overlap, clash, users, letters, tickets, hooks, delivered, cutoff,
                         filed, mailed, missed>>
      BY <2>1 DEF PostReply, Exists
    <2>3. q \in Job /\ q.phase = "posted" /\ q.ticket = t
      BY EmptyMail DEF Job
    <2> HIDE DEF q
    <2>4. JobGoes(o, q) /\ jobs'[o] = q
      BY <2>2, <2>3 DEF JobGoes, TypeOK
    <2>5. JobCounts(o)
      BY <2>2, <2>3, <2>4 DEF JobCounts
    <2>6. QED BY <2>3, <2>4, <2>5
  <1>2. CASE LoadJob(o)
    <2> DEFINE p == jobs[o]
               row == tickets[p.ticket]
               q == [phase |-> IF SentBefore(o) THEN "ended" ELSE "loaded", ticket |-> p.ticket,
                     tries |-> p.tries + 1, meta |-> IF SentBefore(o) THEN NoMeta ELSE row.meta]
    <2>1. /\ p.phase = "queued" /\ p.tries < MaxTries /\ MayWrite(row.sender)
          /\ jobs' = [jobs EXCEPT ![o] = q] /\ OnlyJobs /\ UNCHANGED <<mailed, missed>>
      BY <1>2 DEF LoadJob
    <2>2. p \in Job /\ p.ticket \in Tickets /\ row.meta \in Metadata
      BY <2>1 DEF TypeOK, EmailSound, ReplyJobSound, Exists, TicketRow
    <2>3. p.tries + 1 \in 0..MaxTries
      BY <2>1, <2>2, EmailAssumption DEF Job
    <2>4. q \in Job /\ q.ticket = p.ticket
          /\ q.phase = (IF SentBefore(o) THEN "ended" ELSE "loaded")
          /\ q.meta = (IF SentBefore(o) THEN NoMeta ELSE row.meta)
      BY <2>2, <2>3, EmptyMail DEF Job
    <2> HIDE DEF q
    <2>5. JobGoes(o, q) /\ jobs'[o] = q
      BY <2>1, <2>4 DEF JobGoes, OnlyJobs, TypeOK
    <2>6. JobCounts(o)
      BY <2>1, <2>4, <2>5 DEF JobCounts
    <2>7. QED BY <2>4, <2>5, <2>6
  <1>3. CASE \E b \in BOOLEAN : EnqueueReply(o, b)
    BY <1>3, GotoGoes DEF EnqueueReply, JobCounts
  <1>4. CASE GiveUp(o)
    BY <1>4, GotoGoes DEF GiveUp, JobCounts
  <1>5. CASE SendMail(o)
    BY <1>5, GotoGoes DEF SendMail, JobCounts
  <1>6. CASE \E b \in BOOLEAN : RetryMail(o, b)
    BY <1>6, GotoGoes DEF RetryMail, JobCounts
  <1>7. CASE RefuseMail(o)
    BY <1>7, GotoGoes DEF RefuseMail, JobCounts
  <1>8. CASE FailJob(o)
    BY <1>8, GotoGoes DEF FailJob, JobCounts
  <1>9. CASE CrashJob(o)
    BY <1>9, GotoGoes DEF CrashJob, JobCounts
  <1>10. CASE EndJob(o)
    BY <1>10, GotoGoes DEF EndJob, JobCounts
  <1>11. QED BY <1>1, <1>2, <1>3, <1>4, <1>5, <1>6, <1>7, <1>8, <1>9, <1>10

LEMMA JobGoesShape ==
    ASSUME TypeOK, EmailSound, NeverTwice => AnswersBelong,
           NEW o \in Replies, NEW q \in Job, JobGoes(o, q), JobCounts(o)
    PROVE  /\ TypeOK' /\ EmailSound' /\ Grows /\ (NeverTwice' => AnswersBelong')
           /\ jobs'[o] = q /\ \A p \in Replies : p # o => jobs'[p] = jobs[p]
           /\ \A p \in Replies : p # o => mailed'[p] = mailed[p] /\ missed'[p] = missed[p]
  <1> DEFINE refs == References(o)
  <1>1. /\ jobs' \in [Replies -> Job] /\ jobs'[o] = q
        /\ \A p \in Replies : p # o => jobs'[p] = jobs[p]
    BY DEF JobGoes, TypeOK
  <1>2. UNCHANGED <<overlap, clash, users, letters, tickets, hooks, delivered, cutoff, filed>>
    BY DEF JobGoes
  <1>3. /\ missed' \in [Replies -> Nat]
        /\ \A p \in Replies : p # o => missed'[p] = missed[p]
    <2>1. missed \in [Replies -> Nat]
      BY DEF TypeOK
    <2>2. missed' = missed \/ missed' = [missed EXCEPT ![o] = missed[o] + 1]
      BY DEF JobCounts, Unrecorded
    <2>3. QED BY <2>1, <2>2
  <1>4. \/ mailed' = mailed
        \/ /\ jobs[o].phase = "loaded" /\ mailed' = [mailed EXCEPT ![o] = Append(mailed[o], refs)]
    BY DEF JobCounts, Taken
  <1>5. /\ mailed' \in [Replies -> Seq(Seq(Ids))]
        /\ \A p \in Replies : p # o => mailed'[p] = mailed[p]
    <2>1. mailed \in [Replies -> Seq(Seq(Ids))]
      BY DEF TypeOK
    <2>2. jobs[o].phase = "loaded" => refs \in Seq(Ids)
      BY ReferencesOfThread
    <2>3. jobs[o].phase = "loaded" => Append(mailed[o], refs) \in Seq(Seq(Ids))
      BY <2>1, <2>2
    <2> HIDE DEF refs
    <2>4. QED BY <1>4, <2>1, <2>3
  <1>6. TypeOK'
    BY <1>1, <1>2, <1>3, <1>5 DEF TypeOK
  <1>7. Grows
    <2>1. ASSUME NEW p \in Replies, jobs[p].phase # "none"
          PROVE  jobs'[p].phase # "none" /\ jobs'[p].ticket = jobs[p].ticket
      BY <1>1, <2>1 DEF JobGoes
    <2>2. users' = users /\ letters' = letters /\ tickets' = tickets /\ filed' = filed
          /\ UNCHANGED <<overlap, clash>>
      BY <1>2
    <2>3. QED BY <2>1, <2>2 DEF Grows
  <1>8. q.phase # "none" /\ Exists(q.ticket)
    BY DEF JobGoes, EmailSound, ReplyJobSound
  <1>9. q.phase \in {"loaded", "sent"} => VersionOf(q.meta, q.ticket)
    BY <1>8 DEF JobGoes, EmailSound, ReplyJobSound, TicketSound, Exists
  <1>10. ReplyJobSound(q)
    BY <1>8, <1>9 DEF ReplyJobSound
  <1>11. ReplyJobSound(jobs[o])'
    <2>1. ReplyJobSound(q)'
      BY <1>7, <1>10, ReplyJobStays
    <2>2. QED BY <1>1, <2>1
  <1>12. mailed'[o] = mailed[o] \/ MailedSound(o)'
    <2>1. CASE mailed' = mailed
      BY <2>1
    <2>2. CASE jobs[o].phase = "loaded" /\ mailed' = [mailed EXCEPT ![o] = Append(mailed[o], refs)]
      <3>1. PICK r, t : r = refs /\ t = q.ticket
        OBVIOUS
      <3>2. r \in Seq(Ids) /\ RefsOf(r, t) /\ q.ticket = jobs[o].ticket
        BY <2>2, <3>1, ReferencesOfThread DEF JobGoes
      <3>3. mailed[o] \in Seq(Seq(Ids)) /\ mailed'[o] = Append(mailed[o], r)
        BY <2>2, <3>1 DEF TypeOK
      <3> SUFFICES ASSUME NEW i \in DOMAIN mailed'[o]
                   PROVE  jobs'[o].phase # "none" /\ RefsOf(mailed[o][i], jobs[o].ticket)'
        BY DEF MailedSound
      <3>4. PICK x : x = mailed'[o][i]
        OBVIOUS
      <3>5. x = r \/ \E j \in DOMAIN mailed[o] : x = mailed[o][j]
        BY <3>2, <3>3, <3>4
      <3>6. RefsOf(x, t)
        BY <3>1, <3>2, <3>5 DEF EmailSound, MailedSound
      <3>7. RefsOf(x, t)'
        BY <1>7, <1>8, <3>1, <3>6, RefsStay
      <3>8. jobs'[o].ticket = t
        BY <1>1, <3>1
      <3>9. QED BY <1>1, <1>8, <3>4, <3>7, <3>8
    <2>3. QED BY <1>4, <2>1, <2>2
  <1>13. EmailSound'
    <2>1. tickets' = tickets /\ hooks' = hooks /\ letters' = letters /\ filed' = filed
      BY <1>2
    <2>2. \A t \in Tickets : (Exists(t)' => Exists(t)) /\ tickets'[t].meta = tickets[t].meta
      BY <2>1 DEF Exists
    <2>3. \A h \in Hooks : hooks[h].phase = "open" /\ hooks[h].new => ~Exists(hooks[h].ticket)'
      BY <2>1 DEF EmailSound, MailHookSound, Exists
    <2>4. FreshTickets'
      BY <2>1 DEF EmailSound, FreshTickets
    <2>5. \A p \in Replies : jobs'[p] = jobs[p] \/ ReplyJobSound(jobs[p])'
      BY <1>1, <1>11
    <2>6. \A p \in Replies : mailed'[p] = mailed[p] \/ MailedSound(p)'
      BY <1>5, <1>12
    <2>7. QED BY <1>7, <2>1, <2>2, <2>3, <2>4, <2>5, <2>6, EmailSoundKeeps
  <1>14. NeverTwice' => AnswersBelong'
    BY <1>2, <1>7, BelongStays
  <1>15. QED BY <1>1, <1>3, <1>5, <1>6, <1>7, <1>13, <1>14

\* What the commit of a job's record does.
RecordsReply(o) ==
    LET p == jobs[o]
        t == p.ticket
    IN  /\ p.phase = "sent" /\ Exists(t)
        /\ jobs'[o].phase = "recorded" /\ jobs'[o].ticket = t
        /\ \A r \in Replies : r # o => jobs'[r] = jobs[r]
        /\ tickets'[t].meta.ids = Append(p.meta.ids, o) /\ tickets'[t].meta.last = o
        /\ tickets'[t].status = tickets[t].status
        /\ tickets'[t].sender = tickets[t].sender /\ tickets'[t].subject = tickets[t].subject
        /\ \A s \in Tickets : s # t => tickets'[s] = tickets[s]
        /\ UNCHANGED <<overlap, clash, users, letters, hooks, filed, mailed, missed>>

LEMMA CommitJobRecords ==
    ASSUME TypeOK, EmailSound, NEW o \in Replies, CommitJob(o)
    PROVE  RecordsReply(o) /\ TypeOK'
  <1> DEFINE p == jobs[o]
             t == p.ticket
             meta == [ids |-> Append(p.meta.ids, o), last |-> o]
             q == [phase |-> "recorded", ticket |-> t, tries |-> p.tries, meta |-> NoMeta]
  <1>1. p \in Job /\ p.phase = "sent" /\ Exists(t) /\ t \in Tickets
    BY DEF CommitJob, TypeOK, EmailSound, ReplyJobSound, Exists
  <1>2. /\ tickets' = [tickets EXCEPT ![t].meta = meta] /\ jobs' = [jobs EXCEPT ![o] = q]
        /\ UNCHANGED <<overlap, clash, users, letters, hooks, delivered, cutoff,
                       filed, mailed, missed>>
    BY DEF CommitJob, Goto, Recorded
  <1>3. meta \in Metadata /\ meta.ids = Append(p.meta.ids, o) /\ meta.last = o
    <2>1. p.meta.ids \in Seq(Ids) /\ o \in Ids
      BY <1>1 DEF Job, Metadata, Ids
    <2>2. Append(p.meta.ids, o) \in Seq(Ids)
      BY <2>1
    <2>3. QED BY <2>2 DEF Metadata
  <1>4. q \in Job /\ q.phase = "recorded" /\ q.ticket = t
    BY <1>1, EmptyMail DEF Job
  <1> HIDE DEF meta, q
  <1>5. /\ tickets' \in [Tickets -> TicketRow]
        /\ tickets'[t].meta = meta /\ tickets'[t].status = tickets[t].status
        /\ tickets'[t].sender = tickets[t].sender /\ tickets'[t].subject = tickets[t].subject
        /\ \A s \in Tickets : s # t => tickets'[s] = tickets[s]
    <2> DEFINE row == [tickets[t] EXCEPT !.meta = meta]
    <2>1. tickets \in [Tickets -> TicketRow] /\ tickets[t] \in TicketRow
      BY <1>1 DEF TypeOK
    <2>2. /\ row \in TicketRow /\ row.meta = meta /\ row.status = tickets[t].status
          /\ row.sender = tickets[t].sender /\ row.subject = tickets[t].subject
      BY <1>3, <2>1 DEF TicketRow
    <2>3. tickets' = [tickets EXCEPT ![t] = row]
      BY <1>2
    <2> HIDE DEF row
    <2>4. QED BY <1>1, <2>1, <2>2, <2>3
  <1>6. /\ jobs' \in [Replies -> Job] /\ jobs'[o] = q
        /\ \A r \in Replies : r # o => jobs'[r] = jobs[r]
    BY <1>2, <1>4 DEF TypeOK
  <1>7. TypeOK'
    BY <1>2, <1>5, <1>6 DEF TypeOK
  <1>8. RecordsReply(o)
    BY <1>1, <1>2, <1>3, <1>4, <1>5, <1>6 DEF RecordsReply
  <1>9. QED BY <1>7, <1>8

LEMMA RecordsReplyShape ==
    ASSUME TypeOK, EmailSound, NeverTwice => AnswersBelong,
           NEW o \in Replies, RecordsReply(o)
    PROVE  EmailSound' /\ Grows /\ (NeverTwice' => AnswersBelong')
  <1>1. PICK p, t : p = jobs[o] /\ t = p.ticket
    OBVIOUS
  <1>2. /\ p.phase = "sent" /\ Exists(t) /\ t \in Tickets
        /\ jobs'[o].phase = "recorded" /\ jobs'[o].ticket = t
        /\ \A r \in Replies : r # o => jobs'[r] = jobs[r]
        /\ tickets'[t].meta.ids = Append(p.meta.ids, o) /\ tickets'[t].meta.last = o
        /\ tickets'[t].status = tickets[t].status
        /\ tickets'[t].sender = tickets[t].sender /\ tickets'[t].subject = tickets[t].subject
        /\ \A s \in Tickets : s # t => tickets'[s] = tickets[s]
        /\ UNCHANGED <<overlap, clash, users, letters, hooks, filed, mailed, missed>>
    BY <1>1 DEF RecordsReply, Exists
  <1>3. VersionOf(p.meta, t) /\ p.meta.ids \in Seq(Ids) /\ o \in Ids
    BY <1>1, <1>2 DEF EmailSound, ReplyJobSound, TypeOK, Job, Metadata, Ids
  <1>4. PICK ids : ids = Append(p.meta.ids, o)
    OBVIOUS
  <1>5. /\ ids # <<>> /\ ids[1] = tickets[t].meta.ids[1]
        /\ \A i \in DOMAIN ids : ids[i] = o \/ OfThread(ids[i], t)
    BY <1>3, <1>4, RecordedList DEF VersionOf, RefsOf
  <1>6. Grows
    <2>1. \A s \in Tickets : tickets[s].status # "none" =>
              /\ tickets'[s].status # "none"
              /\ tickets'[s].sender = tickets[s].sender /\ tickets'[s].subject = tickets[s].subject
              /\ tickets'[s].meta.ids[1] = tickets[s].meta.ids[1]
      BY <1>2, <1>4, <1>5
    <2>2. \A r \in Replies : jobs[r].phase # "none" =>
              jobs'[r].phase # "none" /\ jobs'[r].ticket = jobs[r].ticket
      BY <1>1, <1>2
    <2>3. users' = users /\ letters' = letters /\ filed' = filed /\ UNCHANGED <<overlap, clash>>
      BY <1>2
    <2>4. QED BY <2>1, <2>2, <2>3 DEF Grows
  <1>7. OfThread(o, t)'
    BY <1>2 DEF OfThread
  <1>8. \A i \in DOMAIN ids : OfThread(ids[i], t)'
    BY <1>2, <1>5, <1>6, <1>7, OfThreadStays
  <1>9. VersionOf(tickets[t].meta, t)'
    <2>1. tickets'[t].meta.ids = ids /\ tickets'[t].meta.last = o
      BY <1>2, <1>4
    <2>2. QED BY <1>5, <1>7, <1>8, <2>1 DEF VersionOf, RefsOf
  <1>10. TicketSound(t)'
    <2>1. /\ tickets[t].sender \in Senders /\ tickets[t].subject \in Subjects
          /\ users[tickets[t].sender] \in {"tenant", "staff", "owner"}
      BY <1>2 DEF EmailSound, TicketSound
    <2>2. users' = users
      BY <1>2
    <2>3. QED BY <1>2, <1>9, <2>1, <2>2 DEF TicketSound
  <1>11. ReplyJobSound(jobs[o])'
    <2>1. Exists(t)'
      BY <1>2, <1>6, ExistsStays
    <2>2. QED BY <1>2, <2>1 DEF ReplyJobSound
  <1>12. EmailSound'
    <2>1. hooks' = hooks /\ letters' = letters /\ filed' = filed /\ mailed' = mailed
      BY <1>2
    <2>2. \A s \in Tickets : \/ (Exists(s)' => Exists(s)) /\ tickets'[s].meta = tickets[s].meta
                             \/ TicketSound(s)'
      BY <1>2, <1>10 DEF Exists
    <2>3. \A h \in Hooks : hooks[h].phase = "open" /\ hooks[h].new => ~Exists(hooks[h].ticket)'
      BY <1>2, <2>1 DEF EmailSound, MailHookSound, Exists
    <2>4. FreshTickets'
      BY <2>1 DEF EmailSound, FreshTickets
    <2>5. \A r \in Replies : jobs'[r] = jobs[r] \/ ReplyJobSound(jobs[r])'
      BY <1>2, <1>11
    <2>6. QED BY <1>6, <2>1, <2>2, <2>3, <2>4, <2>5, EmailSoundKeeps
  <1>13. NeverTwice' => AnswersBelong'
    BY <1>2, <1>6, BelongStays
  <1>14. QED BY <1>6, <1>12, <1>13

-----------------------------------------------------------------------------
(* While the writers of one sender's threads do not overlap. *)

\* No thread loses an id.
IdsGrow == \A t \in Tickets, x \in Ids : Exists(t) /\ Contains(tickets[t].meta.ids, x) =>
               Contains(tickets'[t].meta.ids, x)

LEMMA OwnerStays ==
    ASSUME Grows, NEW u \in Senders
    PROVE  users'[u] = "owner" <=> users[u] = "owner"
  BY DEF Grows

LEMMA SameIdsGrow ==
    ASSUME \A t \in Tickets : tickets'[t].meta = tickets[t].meta
    PROVE  IdsGrow
  BY DEF IdsGrow

\* What is filed or recorded stays in threads that do not lose ids.
LEMMA ThreadsKeptStays ==
    ASSUME TypeOK, EmailSound, Grows, IdsGrow, ThreadsKept,
           \A m \in Mails, t \in Tickets : filed'[m][t] > 0 =>
               filed[m][t] > 0 \/ Contains(tickets'[t].meta.ids, m),
           \A o \in Replies : jobs'[o].phase = "recorded" => jobs'[o] = jobs[o] \/ SentBefore(o)'
    PROVE  ThreadsKept'
  <1>1. ASSUME NEW m \in Mails, NEW t \in Tickets, filed'[m][t] > 0
        PROVE  Contains(tickets'[t].meta.ids, m)
    <2>1. CASE filed[m][t] > 0
      <3>1. Exists(t) /\ Contains(tickets[t].meta.ids, m) /\ m \in Ids
        BY <2>1 DEF EmailSound, FiledSound, ThreadsKept, Ids
      <3>2. QED BY <3>1 DEF IdsGrow
    <2>2. QED BY <1>1, <2>1
  <1>2. ASSUME NEW o \in Replies, jobs'[o].phase = "recorded", jobs'[o] = jobs[o]
        PROVE  SentBefore(o)'
    <2>1. SentBefore(o) /\ Exists(jobs[o].ticket) /\ o \in Ids
      BY <1>2 DEF EmailSound, ReplyJobSound, ThreadsKept, Ids
    <2>2. QED BY <1>2, <2>1 DEF IdsGrow, SentBefore, Exists
  <1>3. \A o \in Replies : (jobs[o].phase = "recorded" => SentBefore(o))'
    BY <1>2
  <1>4. QED BY <1>1, <1>3 DEF ThreadsKept

\* A request that opens does so for a mail that was not filed.
LEMMA FiledOnceStays ==
    ASSUME TypeOK, EmailSound, Grows, FiledAtMostOnce, filed' = filed,
           \A h \in Hooks : hooks'[h].phase = "open" =>
               \/ hooks'[h] = hooks[h]
               \/ users[letters[hooks'[h].mail].from] # "owner" =>
                      \A t \in Tickets : filed[hooks'[h].mail][t] = 0,
           \A h \in Hooks : hooks'[h].phase = "open" =>
               hooks'[h].mail \in Mails /\ letters[hooks'[h].mail] # None
    PROVE  FiledAtMostOnce'
  <1>1. \A m \in Mails : letters[m] # None =>
            /\ letters'[m] = letters[m]
            /\ users'[letters[m].from] = "owner" <=> users[letters[m].from] = "owner"
    BY OwnerStays DEF Grows, TypeOK, Letter
  <1>2. \A m \in Mails, t, s \in Tickets :
            (filed[m][t] > 0 /\ users[letters[m].from] # "owner" =>
                 filed[m][t] = 1 /\ (filed[m][s] > 0 => s = t))'
    BY <1>1 DEF EmailSound, FiledSound, FiledAtMostOnce
  <1>3. ASSUME NEW h \in Hooks, hooks'[h].phase = "open",
               users'[letters'[hooks'[h].mail].from] # "owner"
        PROVE  \A t \in Tickets : filed[hooks'[h].mail][t] = 0
    <2>1. PICK m : m = hooks'[h].mail
      OBVIOUS
    <2>2. m \in Mails /\ users[letters[m].from] # "owner"
      BY <1>1, <1>3, <2>1
    <2>3. CASE hooks'[h] = hooks[h]
      BY <1>3, <2>1, <2>2, <2>3 DEF FiledAtMostOnce
    <2>4. QED BY <1>3, <2>1, <2>2, <2>3
  <1>4. QED BY <1>2, <1>3 DEF FiledAtMostOnce

\* A mail is written, a request fails, a ticket is closed, days go by: no writer moves.
LEMMA QuietAlone ==
    ASSUME TypeOK, EmailSound, Grows, Alone,
           \A t \in Tickets : tickets'[t].meta = tickets[t].meta,
           \A h \in Hooks : hooks'[h].phase = "open" => hooks'[h] = hooks[h],
           UNCHANGED <<jobs, filed, mailed, missed>>
    PROVE  Alone'
  <1>1. jobs' = jobs /\ filed' = filed /\ mailed' = mailed /\ missed' = missed
    OBVIOUS
  <1>2. IdsGrow
    BY SameIdsGrow
  <1>3. \A h \in Hooks : hooks[h].phase = "open" =>
            hooks[h].mail \in Mails /\ hooks[h].ticket \in Tickets /\ letters[hooks[h].mail] # None
    BY DEF EmailSound, MailHookSound
  <1>4. \A o \in Replies : jobs[o].phase # "none" => jobs[o].ticket \in Tickets
    BY DEF EmailSound, ReplyJobSound, Exists
  <1>5. OneMailWriter'
    <2>1. \A o \in Replies : Writing(o)' <=> Writing(o)
      BY <1>1 DEF Writing
    <2>2. QED BY <1>1, <2>1 DEF Alone, OneMailWriter
  <1>6. LoadedIsStored'
    <2>1. \A h \in Hooks : (hooks[h].phase = "open" /\ ~hooks[h].new =>
              hooks[h].meta = tickets[hooks[h].ticket].meta)'
      BY <1>3 DEF Alone, LoadedIsStored
    <2>2. \A o \in Replies : (Writing(o) => jobs[o].meta = tickets[jobs[o].ticket].meta)'
      BY <1>1, <1>4 DEF Alone, LoadedIsStored, Writing
    <2>3. QED BY <2>1, <2>2 DEF LoadedIsStored
  <1>7. ThreadsKept'
    BY <1>1, <1>2, ThreadsKeptStays DEF Alone
  <1>8. FiledAtMostOnce'
    BY <1>1, <1>3, FiledOnceStays DEF Alone
  <1>9. CopiesCounted'
    <2>1. \A o \in Replies : jobs[o].phase # "none" => (SentBefore(o)' <=> SentBefore(o))
      BY <1>1, <1>4 DEF SentBefore
    <2>2. QED BY <1>1, <2>1 DEF Alone, CopiesCounted
  <1>10. QED BY <1>5, <1>6, <1>7, <1>8, <1>9 DEF Alone

\* A request is taken up when nobody else writes to the thread, and for a mail that no
\* candidate has.
LEMMA TakesAlone ==
    ASSUME TypeOK, EmailSound, Grows, ~overlap, Alone,
           NEW h \in Hooks, NEW m \in Mails, NEW t \in Tickets, NEW q \in Hook, Takes(h, m, t, q)
    PROVE  Alone'
  <1> DEFINE u == letters[m].from
  <1>1. /\ hooks'[h] = q /\ \A g \in Hooks : g # h => hooks'[g] = hooks[g]
        /\ q.phase = "open" /\ q.mail = m /\ q.ticket = t /\ letters[m] # None /\ u \in Senders
    BY DEF Takes, TypeOK
  <1>2. jobs' = jobs /\ filed' = filed /\ mailed' = mailed /\ missed' = missed
        /\ tickets' = tickets /\ letters' = letters /\ users' = users
    BY DEF Takes
  <1>3. ~Busy(u) /\ ~Replay(m)
    BY DEF Takes, MayWrite
  <1>4. \A g \in Hooks : hooks[g].phase = "open" => hooks[g].mail # m
    BY <1>3 DEF Busy
  <1>5. /\ \A g \in Hooks : hooks[g].phase = "open" => hooks[g].ticket # t
        /\ \A o \in Replies : Writing(o) => jobs[o].ticket # t
    <2>1. CASE ~q.new
      <3>1. ~Busy(tickets[t].sender)
        BY <2>1 DEF Takes, MayWrite
      <3>2. QED BY <3>1 DEF Busy, Writing
    <2>2. CASE q.new
      <3>1. ~Exists(t) /\ \A g \in Hooks : hooks[g].ticket # t
        BY <2>2 DEF Takes, Exists
      <3>2. \A o \in Replies : Writing(o) => Exists(jobs[o].ticket)
        BY DEF Writing, EmailSound, ReplyJobSound
      <3>3. QED BY <3>1, <3>2
    <2>3. QED BY <2>1, <2>2
  <1>6. \A o \in Replies : Writing(o)' <=> Writing(o)
    BY <1>2 DEF Writing
  <1>7. OneMailWriter'
    <2>1. \A g, k \in Hooks : (/\ hooks[g].phase = "open" /\ hooks[k].phase = "open"
                               /\ hooks[g].ticket = hooks[k].ticket \/ hooks[g].mail = hooks[k].mail
                               => g = k)'
      BY <1>1, <1>4, <1>5 DEF Alone, OneMailWriter
    <2>2. \A g \in Hooks, o \in Replies :
              (hooks[g].phase = "open" /\ Writing(o) => hooks[g].ticket # jobs[o].ticket)'
      BY <1>1, <1>2, <1>5, <1>6 DEF Alone, OneMailWriter
    <2>3. \A o, p \in Replies : (Writing(o) /\ Writing(p) /\ jobs[o].ticket = jobs[p].ticket => o = p)'
      BY <1>2, <1>6 DEF Alone, OneMailWriter
    <2>4. QED BY <2>1, <2>2, <2>3 DEF OneMailWriter
  <1>8. LoadedIsStored'
    <2>1. \A g \in Hooks : (hooks[g].phase = "open" /\ ~hooks[g].new =>
              hooks[g].meta = tickets[hooks[g].ticket].meta)'
      <3>1. ~q.new => q.meta = tickets[t].meta
        BY DEF Takes
      <3>2. QED BY <1>1, <1>2, <3>1 DEF Alone, LoadedIsStored
    <2>2. \A o \in Replies : (Writing(o) => jobs[o].meta = tickets[jobs[o].ticket].meta)'
      BY <1>2, <1>6 DEF Alone, LoadedIsStored
    <2>3. QED BY <2>1, <2>2 DEF LoadedIsStored
  <1>9. ThreadsKept'
    BY <1>2, SameIdsGrow, ThreadsKeptStays DEF Alone
  <1>10. users[u] # "owner" => \A s \in Tickets : filed[m][s] = 0
    <2> SUFFICES ASSUME users[u] # "owner", NEW s \in Tickets, filed[m][s] # 0
                 PROVE  FALSE
      OBVIOUS
    <2>1. filed[m][s] > 0
      BY DEF TypeOK
    <2>2. Exists(s) /\ Sees(u, s) /\ Contains(tickets[s].meta.ids, m)
      BY <2>1 DEF EmailSound, FiledSound, Alone, ThreadsKept
    <2>3. s \in Candidates(u)
      BY <2>2 DEF Exists, Sees, Candidates
    <2>4. s \in Holding(u, m)
      BY <2>2, <2>3 DEF Holding
    <2>5. QED BY <1>3, <2>4 DEF Replay
  <1>11. FiledAtMostOnce'
    <2>1. \A g \in Hooks : hooks'[g].phase = "open" =>
              hooks'[g].mail \in Mails /\ letters[hooks'[g].mail] # None
      BY <1>1 DEF EmailSound, MailHookSound
    <2>2. QED BY <1>1, <1>2, <1>10, <2>1, FiledOnceStays DEF Alone
  <1>12. CopiesCounted'
    BY <1>2 DEF Alone, CopiesCounted, SentBefore
  <1>13. QED BY <1>7, <1>8, <1>9, <1>11, <1>12 DEF Alone

\* A commit writes the only loaded copy of the thread, which is the stored one, with one
\* more id.
LEMMA CommitsMailAlone ==
    ASSUME TypeOK, EmailSound, Grows, Alone, NEW h \in Hooks, CommitsMail(h)
    PROVE  Alone'
  <1>1. PICK q, m, t, l : q = hooks[h] /\ m = q.mail /\ t = q.ticket /\ l = letters[m]
    OBVIOUS
  <1>2. /\ q.phase = "open" /\ m \in Mails /\ t \in Tickets /\ l \in Letter /\ l # None
        /\ l.from \in Senders /\ q.meta.ids \in Seq(Ids) /\ m \in Ids
        /\ tickets'[t].meta.ids = Append(q.meta.ids, m)
        /\ \A s \in Tickets : s # t => tickets'[s] = tickets[s]
    BY <1>1 DEF CommitsMail, Letter, TypeOK, Hook, Metadata, Ids
  <1>3. /\ hooks'[h] = NoHook /\ \A g \in Hooks : g # h => hooks'[g] = hooks[g]
        /\ filed'[m][t] = filed[m][t] + 1
        /\ \A n \in Mails, s \in Tickets : n # m \/ s # t => filed'[n][s] = filed[n][s]
        /\ letters' = letters /\ jobs' = jobs /\ mailed' = mailed /\ missed' = missed
    BY <1>1 DEF CommitsMail
  <1>4. \A g \in Hooks : hooks'[g].phase = "open" =>
            /\ g # h /\ hooks'[g] = hooks[g] /\ hooks[g].ticket \in Tickets /\ hooks[g].mail \in Mails
            /\ hooks[g].ticket # t /\ hooks[g].mail # m /\ letters[hooks[g].mail] # None
    <2>1. \A g \in Hooks : hooks'[g].phase = "open" => g # h /\ hooks'[g] = hooks[g]
      BY <1>3, EmptyMail
    <2>2. \A g \in Hooks : hooks'[g].phase = "open" =>
              /\ hooks[g].ticket \in Tickets /\ hooks[g].mail \in Mails
              /\ letters[hooks[g].mail] # None
      BY <2>1 DEF EmailSound, MailHookSound
    <2>3. \A g \in Hooks : hooks'[g].phase = "open" => hooks[g].ticket # t /\ hooks[g].mail # m
      BY <1>1, <1>2, <2>1 DEF Alone, OneMailWriter
    <2>4. QED BY <2>1, <2>2, <2>3
  <1>5. \A o \in Replies : /\ Writing(o)' <=> Writing(o)
                           /\ Writing(o) => jobs[o].ticket # t
                           /\ jobs[o].phase # "none" => Exists(jobs[o].ticket)
    BY <1>1, <1>2, <1>3 DEF Writing, Alone, OneMailWriter, EmailSound, ReplyJobSound
  <1>6. Exists(t) => q.meta = tickets[t].meta
    BY <1>1, <1>2 DEF Alone, LoadedIsStored, EmailSound, MailHookSound
  <1>7. IdsGrow
    <2>1. \A x \in Ids : Exists(t) /\ Contains(tickets[t].meta.ids, x) =>
              Contains(tickets'[t].meta.ids, x)
      BY <1>2, <1>6, RecordedList
    <2>2. QED BY <1>2, <2>1 DEF IdsGrow
  <1>8. OneMailWriter'
    BY <1>3, <1>4, <1>5 DEF Alone, OneMailWriter
  <1>9. LoadedIsStored'
    <2>1. \A g \in Hooks : (hooks[g].phase = "open" /\ ~hooks[g].new =>
              hooks[g].meta = tickets[hooks[g].ticket].meta)'
      BY <1>2, <1>4 DEF Alone, LoadedIsStored
    <2>2. \A o \in Replies : (Writing(o) => jobs[o].meta = tickets[jobs[o].ticket].meta)'
      <3> SUFFICES ASSUME NEW o \in Replies, Writing(o)
                   PROVE  jobs[o].meta = tickets'[jobs[o].ticket].meta
        BY <1>3, <1>5
      <3>1. jobs[o].ticket \in Tickets /\ jobs[o].ticket # t
        BY <1>5 DEF Writing, Exists
      <3>2. QED BY <1>2, <3>1 DEF Alone, LoadedIsStored
    <2>3. QED BY <2>1, <2>2 DEF LoadedIsStored
  <1>10. ThreadsKept'
    <2>1. Contains(tickets'[t].meta.ids, m)
      BY <1>2, RecordedList
    <2>2. \A n \in Mails, s \in Tickets : filed'[n][s] > 0 =>
              filed[n][s] > 0 \/ Contains(tickets'[s].meta.ids, n)
      BY <1>3, <2>1
    <2>3. QED BY <1>3, <1>7, <2>2, ThreadsKeptStays DEF Alone
  <1>11. FiledAtMostOnce'
    <2>1. \A n \in Mails : letters[n] # None =>
              (users'[letters[n].from] = "owner" <=> users[letters[n].from] = "owner")
      BY OwnerStays DEF TypeOK, Letter
    <2>2. users[l.from] # "owner" => \A s \in Tickets : filed[m][s] = 0
      BY <1>1, <1>2 DEF Alone, FiledAtMostOnce
    <2>3. ASSUME NEW n \in Mails, NEW s \in Tickets, NEW r \in Tickets,
                 filed'[n][s] > 0, users'[letters'[n].from] # "owner"
          PROVE  filed'[n][s] = 1 /\ (filed'[n][r] > 0 => r = s)
      <3>1. CASE n # m
        <4>1. filed'[n][s] = filed[n][s] /\ filed'[n][r] = filed[n][r] /\ letters'[n] = letters[n]
          BY <1>2, <1>3, <3>1
        <4>2. letters[n] # None
          BY <2>3, <4>1 DEF EmailSound, FiledSound
        <4>3. QED BY <2>1, <2>3, <4>1, <4>2 DEF Alone, FiledAtMostOnce
      <3>2. CASE n = m
        <4>1. users[l.from] # "owner"
          BY <1>1, <1>2, <1>3, <2>1, <2>3, <3>2
        <4>2. filed[m][t] = 0 /\ filed[m][s] = 0 /\ filed[m][r] = 0
          BY <1>2, <2>2, <4>1
        <4>3. QED BY <1>2, <1>3, <2>3, <3>2, <4>2
      <3>3. QED BY <3>1, <3>2
    <2>4. ASSUME NEW g \in Hooks, hooks'[g].phase = "open",
                 users'[letters'[hooks'[g].mail].from] # "owner"
          PROVE  \A s \in Tickets : filed'[hooks'[g].mail][s] = 0
      <3>1. PICK n : n = hooks[g].mail
        OBVIOUS
      <3>2. n \in Mails /\ n # m /\ hooks[g].phase = "open" /\ hooks'[g].mail = n /\ letters[n] # None
        BY <1>4, <2>4, <3>1
      <3>3. users[letters[n].from] # "owner"
        BY <1>3, <2>1, <2>4, <3>2
      <3>4. \A s \in Tickets : filed[n][s] = 0
        BY <3>1, <3>2, <3>3 DEF Alone, FiledAtMostOnce
      <3>5. QED BY <1>3, <3>2, <3>4
    <2>5. QED BY <2>3, <2>4 DEF FiledAtMostOnce
  <1>12. CopiesCounted'
    <2>1. \A o \in Replies : jobs[o].phase = "queued" /\ SentBefore(o) => SentBefore(o)'
      BY <1>3, <1>5, <1>7 DEF IdsGrow, SentBefore, Ids, Exists
    <2>2. QED BY <1>3, <2>1 DEF Alone, CopiesCounted
  <1>13. QED BY <1>8, <1>9, <1>10, <1>11, <1>12 DEF Alone

\* A job loads the thread when nobody else writes to it; a mail taken is recorded or
\* counted as missed.
LEMMA JobGoesAlone ==
    ASSUME TypeOK, TypeOK', EmailSound, Grows, ~overlap, Alone,
           NEW o \in Replies, NEW q \in Job, JobGoes(o, q), JobCounts(o),
           \A p \in Replies : p # o => mailed'[p] = mailed[p] /\ missed'[p] = missed[p]
    PROVE  Alone'
  <1>1. PICK p, t : p = jobs[o] /\ t = q.ticket
    OBVIOUS
  <1>2. /\ jobs'[o] = q /\ \A r \in Replies : r # o => jobs'[r] = jobs[r]
        /\ hooks' = hooks /\ tickets' = tickets /\ filed' = filed
        /\ letters' = letters /\ users' = users
    BY DEF JobGoes, TypeOK
  <1>3. p.phase # "none" => q.ticket = p.ticket /\ Exists(p.ticket)
    BY <1>1 DEF JobGoes, EmailSound, ReplyJobSound
  <1>4. \/ q.phase \notin {"loaded", "sent"}
        \/ p.phase \in {"loaded", "sent"} /\ q.meta = p.meta
        \/ /\ p.phase = "queued" /\ q.phase = "loaded" /\ ~SentBefore(o)
           /\ q.meta = tickets[t].meta /\ ~Busy(tickets[t].sender)
    BY <1>1 DEF JobGoes, MayWrite
  <1>5. /\ \A r \in Replies : r # o => (Writing(r)' <=> Writing(r))
        /\ Writing(o)' <=> q.phase \in {"loaded", "sent"}
        /\ Writing(o) <=> p.phase \in {"loaded", "sent"}
    BY <1>1, <1>2 DEF Writing
  <1>6. OneMailWriter'
    <2>1. Writing(o)' => /\ \A r \in Replies : r # o /\ Writing(r) => jobs[r].ticket # t
                         /\ \A h \in Hooks : hooks[h].phase = "open" => hooks[h].ticket # t
      <3>1. CASE Writing(o)
        BY <1>1, <1>3, <1>5, <3>1 DEF Alone, OneMailWriter
      <3>2. CASE Writing(o)' /\ ~Writing(o)
        BY <1>4, <1>5, <3>2 DEF Busy, Writing
      <3>3. QED BY <3>1, <3>2
    <2>2. \A h, g \in Hooks : (/\ hooks[h].phase = "open" /\ hooks[g].phase = "open"
                               /\ hooks[h].ticket = hooks[g].ticket \/ hooks[h].mail = hooks[g].mail
                               => h = g)'
      BY <1>2 DEF Alone, OneMailWriter
    <2>3. \A r, s \in Replies : (Writing(r) /\ Writing(s) /\ jobs[r].ticket = jobs[s].ticket => r = s)'
      BY <1>1, <1>2, <1>5, <2>1 DEF Alone, OneMailWriter
    <2>4. \A h \in Hooks, r \in Replies :
              (hooks[h].phase = "open" /\ Writing(r) => hooks[h].ticket # jobs[r].ticket)'
      BY <1>1, <1>2, <1>5, <2>1 DEF Alone, OneMailWriter
    <2>5. QED BY <2>2, <2>3, <2>4 DEF OneMailWriter
  <1>7. LoadedIsStored'
    <2>1. Writing(o)' => q.meta = tickets[t].meta
      BY <1>1, <1>3, <1>4, <1>5 DEF Alone, LoadedIsStored
    <2>2. \A r \in Replies : (Writing(r) => jobs[r].meta = tickets[jobs[r].ticket].meta)'
      BY <1>1, <1>2, <1>5, <2>1 DEF Alone, LoadedIsStored
    <2>3. \A h \in Hooks : (hooks[h].phase = "open" /\ ~hooks[h].new =>
              hooks[h].meta = tickets[hooks[h].ticket].meta)'
      BY <1>2 DEF Alone, LoadedIsStored
    <2>4. QED BY <2>2, <2>3 DEF LoadedIsStored
  <1>8. ThreadsKept'
    <2>1. \A r \in Replies : jobs'[r].phase = "recorded" => jobs'[r] = jobs[r]
      BY <1>2 DEF JobGoes
    <2>2. QED BY <1>2, <2>1, SameIdsGrow, ThreadsKeptStays DEF Alone
  <1>9. FiledAtMostOnce'
    BY <1>2 DEF Alone, FiledAtMostOnce
  <1>10. CopiesCounted'
    <2> DEFINE n == Len(mailed[o])
               k == missed[o]
    <2>1. ASSUME NEW r \in Replies, r # o
          PROVE  /\ jobs'[r] = jobs[r] /\ mailed'[r] = mailed[r] /\ missed'[r] = missed[r]
                 /\ SentBefore(r)' <=> SentBefore(r)
      BY <1>2, <2>1 DEF SentBefore
    <2>2. p.phase # "none" => (SentBefore(o)' <=> SentBefore(o))
      BY <1>1, <1>2, <1>3 DEF SentBefore
    <2>3. /\ mailed \in [Replies -> Seq(Seq(Ids))] /\ missed \in [Replies -> Nat]
          /\ mailed'[o] \in Seq(Seq(Ids)) /\ missed'[o] \in Nat
      BY DEF TypeOK
    <2>4. n \in Nat /\ k \in Nat
      BY <2>3
    <2>5. /\ n <= k + 1
          /\ p.phase \in {"none", "posted"} => mailed[o] = <<>> /\ n = 0
          /\ p.phase = "loaded" => n <= k
          /\ p.phase = "queued" => n <= k \/ SentBefore(o)
          /\ p.phase = "recorded" => SentBefore(o)
      BY <1>1, <2>3 DEF Alone, CopiesCounted, ThreadsKept
    <2>6. Taken(o) => Len(mailed'[o]) = n + 1
      <3>1. mailed[o] \in Seq(Seq(Ids))
        BY <2>3
      <3>2. ASSUME Taken(o)
            PROVE  mailed'[o] = Append(mailed[o], References(o))
        BY <2>3, <3>2 DEF Taken
      <3>3. ASSUME p.phase = "loaded"
            PROVE  Len(Append(mailed[o], References(o))) = n + 1
        BY <1>1, <3>1, <3>3, ReferencesOfThread
      <3>4. Taken(o) => p.phase = "loaded" \/ mailed' = mailed
        BY <1>1 DEF JobCounts
      <3>5. ~(Taken(o) /\ mailed' = mailed)
        BY <3>1, <3>2
      <3>6. QED BY <3>2, <3>3, <3>4, <3>5
    <2>7. Unrecorded(o) => missed'[o] = k + 1
      BY <2>3 DEF Unrecorded
    <2> HIDE DEF n, k
    <2>8. \/ /\ mailed' = mailed /\ missed' = missed
             /\ \/ q.phase \in {"posted", "ended"} /\ p.phase # "sent"
                \/ q.phase = "queued" /\ p.phase \in {"posted", "loaded", "recorded"}
                \/ q.phase = "loaded" /\ p.phase = "queued"
          \/ p.phase = "loaded" /\ q.phase = "sent" /\ Taken(o) /\ missed' = missed
          \/ p.phase = "loaded" /\ q.phase = "queued" /\ Taken(o) /\ Unrecorded(o)
          \/ p.phase = "sent" /\ q.phase \in {"queued", "ended"} /\ Unrecorded(o) /\ mailed' = mailed
      BY <1>1, <1>2 DEF JobCounts
    <2>9. /\ p.phase = "queued" /\ q.phase = "loaded" => ~SentBefore(o)
          /\ q.phase = "posted" => p.phase = "none"
          /\ q.phase # "none"
      BY <1>1 DEF JobGoes
    <2>10. /\ Len(mailed'[o]) <= missed'[o] + 1
           /\ q.phase = "posted" => mailed'[o] = <<>>
           /\ q.phase = "loaded" => Len(mailed'[o]) <= missed'[o]
           /\ q.phase = "queued" => Len(mailed'[o]) <= missed'[o] \/ SentBefore(o)'
      <3>1. CASE mailed' = mailed /\ missed' = missed
        <4>1. Len(mailed'[o]) = n /\ missed'[o] = k
          BY <3>1 DEF n, k
        <4>2. q.phase = "posted" => mailed'[o] = <<>>
          BY <2>5, <2>9, <3>1
        <4>3. q.phase = "loaded" => n <= k
          BY <2>4, <2>5, <2>6, <2>7, <2>8, <2>9, <4>1
        <4>4. q.phase = "queued" => n <= k \/ SentBefore(o)'
          BY <2>2, <2>4, <2>5, <2>6, <2>7, <2>8, <4>1
        <4>5. QED BY <2>5, <4>1, <4>2, <4>3, <4>4
      <3>2. CASE p.phase = "loaded" /\ q.phase = "sent" /\ Taken(o) /\ missed' = missed
        BY <2>4, <2>5, <2>6, <3>2 DEF k
      <3>3. CASE p.phase = "loaded" /\ q.phase = "queued" /\ Taken(o) /\ Unrecorded(o)
        BY <2>4, <2>5, <2>6, <2>7, <3>3
      <3>4. CASE p.phase = "sent" /\ q.phase \in {"queued", "ended"} /\ Unrecorded(o) /\ mailed' = mailed
        <4>1. Len(mailed'[o]) = n /\ missed'[o] = k + 1
          BY <2>7, <3>4 DEF n
        <4>2. QED BY <2>4, <2>5, <3>4, <4>1
      <3>5. QED BY <2>8, <3>1, <3>2, <3>3, <3>4
    <2>11. QED BY <1>2, <2>1, <2>9, <2>10 DEF Alone, CopiesCounted
  <1>11. QED BY <1>6, <1>7, <1>8, <1>9, <1>10 DEF Alone

\* The record of a reply is written over the stored thread, which it keeps.
LEMMA RecordsReplyAlone ==
    ASSUME TypeOK, EmailSound, Grows, Alone, NEW o \in Replies, RecordsReply(o)
    PROVE  Alone'
  <1>1. PICK p, t : p = jobs[o] /\ t = p.ticket
    OBVIOUS
  <1>2. /\ p.phase = "sent" /\ Exists(t) /\ t \in Tickets
        /\ jobs'[o].phase = "recorded" /\ jobs'[o].ticket = t
        /\ \A r \in Replies : r # o => jobs'[r] = jobs[r]
        /\ tickets'[t].meta.ids = Append(p.meta.ids, o)
        /\ \A s \in Tickets : s # t => tickets'[s] = tickets[s]
        /\ hooks' = hooks /\ letters' = letters /\ users' = users /\ filed' = filed
        /\ mailed' = mailed /\ missed' = missed
    BY <1>1 DEF RecordsReply, Exists
  <1>3. p.meta.ids \in Seq(Ids) /\ o \in Ids
    BY <1>1 DEF TypeOK, Job, Metadata, Ids
  <1>4. Writing(o) /\ p.meta = tickets[t].meta
    BY <1>1, <1>2 DEF Writing, Alone, LoadedIsStored
  <1>5. /\ \A r \in Replies : r # o => /\ Writing(r)' <=> Writing(r)
                                       /\ Writing(r) => jobs[r].ticket # t
        /\ ~Writing(o)'
        /\ \A h \in Hooks : hooks[h].phase = "open" => hooks[h].ticket # t
    BY <1>1, <1>2, <1>4 DEF Writing, Alone, OneMailWriter
  <1>6. IdsGrow
    <2>1. \A x \in Ids : Contains(tickets[t].meta.ids, x) => Contains(tickets'[t].meta.ids, x)
      BY <1>2, <1>3, <1>4, RecordedList
    <2>2. QED BY <1>2, <2>1 DEF IdsGrow
  <1>7. SentBefore(o)'
    <2>1. Contains(tickets'[t].meta.ids, o)
      BY <1>2, <1>3, RecordedList
    <2>2. QED BY <1>2, <2>1 DEF SentBefore
  <1>8. OneMailWriter'
    <2>1. \A r, s \in Replies : (Writing(r) /\ Writing(s) /\ jobs[r].ticket = jobs[s].ticket => r = s)'
      BY <1>2, <1>5 DEF Alone, OneMailWriter
    <2>2. \A h \in Hooks, r \in Replies :
              (hooks[h].phase = "open" /\ Writing(r) => hooks[h].ticket # jobs[r].ticket)'
      BY <1>2, <1>5 DEF Alone, OneMailWriter
    <2>3. \A h, g \in Hooks : (/\ hooks[h].phase = "open" /\ hooks[g].phase = "open"
                               /\ hooks[h].ticket = hooks[g].ticket \/ hooks[h].mail = hooks[g].mail
                               => h = g)'
      BY <1>2 DEF Alone, OneMailWriter
    <2>4. QED BY <2>1, <2>2, <2>3 DEF OneMailWriter
  <1>9. LoadedIsStored'
    <2>1. ASSUME NEW h \in Hooks, hooks[h].phase = "open", ~hooks[h].new
          PROVE  hooks[h].meta = tickets'[hooks[h].ticket].meta
      <3>1. hooks[h].ticket \in Tickets /\ hooks[h].ticket # t
        BY <1>5, <2>1 DEF EmailSound, MailHookSound
      <3>2. QED BY <1>2, <2>1, <3>1 DEF Alone, LoadedIsStored
    <2>2. ASSUME NEW r \in Replies, r # o, Writing(r)
          PROVE  jobs[r].meta = tickets'[jobs[r].ticket].meta
      <3>1. jobs[r].ticket \in Tickets /\ jobs[r].ticket # t
        BY <1>5, <2>2 DEF Writing, EmailSound, ReplyJobSound, Exists
      <3>2. QED BY <1>2, <2>2, <3>1 DEF Alone, LoadedIsStored
    <2>3. \A r \in Replies : (Writing(r) => jobs[r].meta = tickets[jobs[r].ticket].meta)'
      BY <1>2, <1>5, <2>2
    <2>4. QED BY <1>2, <2>1, <2>3 DEF LoadedIsStored
  <1>10. ThreadsKept'
    <2>1. \A r \in Replies : jobs'[r].phase = "recorded" => jobs'[r] = jobs[r] \/ SentBefore(r)'
      BY <1>2, <1>7
    <2>2. QED BY <1>2, <1>6, <2>1, ThreadsKeptStays DEF Alone
  <1>11. FiledAtMostOnce'
    BY <1>2 DEF Alone, FiledAtMostOnce
  <1>12. CopiesCounted'
    <2>1. \A r \in Replies : r # o /\ jobs[r].phase = "queued" /\ SentBefore(r) => SentBefore(r)'
      <3> SUFFICES ASSUME NEW r \in Replies, r # o, jobs[r].phase = "queued", SentBefore(r)
                   PROVE  SentBefore(r)'
        OBVIOUS
      <3>1. Exists(jobs[r].ticket) /\ r \in Ids /\ jobs'[r] = jobs[r]
        BY <1>2 DEF EmailSound, ReplyJobSound, Ids
      <3>2. QED BY <1>6, <3>1 DEF IdsGrow, SentBefore, Exists
    <2>2. QED BY <1>2, <2>1 DEF Alone, CopiesCounted
  <1>13. QED BY <1>8, <1>9, <1>10, <1>11, <1>12 DEF Alone

-----------------------------------------------------------------------------

LEMMA EmailInit ==
    ASSUME Init
    PROVE  EmailInv
  <1> USE EmailAssumption, EmptyMail
  <1>1. /\ overlap \in BOOLEAN /\ clash \in BOOLEAN /\ delivered = 0 /\ cutoff = 0
        /\ users \in [Senders -> Roles]
    BY DEF Init
  <1>2. /\ letters = [m \in Mails |-> None] /\ tickets = [t \in Tickets |-> NoTicket]
        /\ hooks = [h \in Hooks |-> NoHook]
        /\ filed = [m \in Mails |-> [t \in Tickets |-> 0]]
        /\ mailed = [o \in Replies |-> <<>>] /\ missed = [o \in Replies |-> 0]
    BY DEF Init
  <1>3. PICK none : /\ none = [phase |-> "none", ticket |-> None, tries |-> 0, meta |-> NoMeta]
                    /\ jobs = [o \in Replies |-> none]
    BY DEF Init
  <1>4. none \in Job /\ none.phase = "none"
    BY <1>3 DEF Job
  <1>5. TypeOK
    BY <1>1, <1>2, <1>3, <1>4 DEF TypeOK
  <1>6. /\ \A t \in Tickets : tickets[t].status = "none"
        /\ \A h \in Hooks : hooks[h].phase = "idle"
        /\ \A o \in Replies : jobs[o].phase = "none" /\ mailed[o] = <<>> /\ missed[o] = 0
        /\ \A m \in Mails : letters[m] = None
        /\ \A m \in Mails, t \in Tickets : filed[m][t] = 0
    BY <1>2, <1>3, <1>4
  <1>7. EmailSound
    BY <1>6 DEF EmailSound, TicketSound, MailHookSound, ReplyJobSound, MailedSound, LetterSound,
               FiledSound, FreshTickets, Exists
  <1>8. AnswersBelong
    BY <1>6 DEF AnswersBelong
  <1>9. Alone
    <2>1. OneMailWriter /\ LoadedIsStored /\ ThreadsKept /\ FiledAtMostOnce
      BY <1>6 DEF OneMailWriter, LoadedIsStored, ThreadsKept, FiledAtMostOnce, Writing
    <2>2. CopiesCounted
      BY <1>6 DEF CopiesCounted
    <2>3. QED BY <2>1, <2>2 DEF Alone
  <1>10. QED BY <1>5, <1>7, <1>8, <1>9 DEF EmailInv

LEMMA EmailStep ==
    ASSUME EmailInv, [Next]_vars
    PROVE  EmailInv'
  <1>1. TypeOK /\ EmailSound /\ (NeverTwice => AnswersBelong) /\ (~overlap => Alone)
    BY DEF EmailInv
  <1> SUFFICES /\ TypeOK' /\ EmailSound' /\ Grows /\ (NeverTwice' => AnswersBelong')
               /\ ~overlap => Alone'
    BY DEF EmailInv, Grows
  <1> USE <1>1
  <1>2. CASE \E m \in Mails :
                 \/ \E u \in Senders, subj \in Subjects : Write(m, u, subj)
                 \/ \E o \in Replies, i \in 1..MaxTries, k \in BOOLEAN : Answer(m, o, i, k)
    <2>1. TypeOK' /\ EmailSound' /\ Grows /\ NothingElse
      BY <1>2, LetterShape
    <2>2. NeverTwice' => AnswersBelong'
      BY <2>1, BelongStays DEF NothingElse
    <2>3. /\ \A t \in Tickets : tickets'[t].meta = tickets[t].meta
          /\ hooks' = hooks /\ jobs' = jobs /\ filed' = filed /\ mailed' = mailed /\ missed' = missed
      BY <2>1 DEF NothingElse
    <2>4. ~overlap => Alone'
      BY <2>1, <2>3, QuietAlone
    <2>5. QED BY <2>1, <2>2, <2>4
  <1>3. ASSUME NEW h \in Hooks, CommitHook(h)
        PROVE  /\ TypeOK' /\ EmailSound' /\ Grows /\ (NeverTwice' => AnswersBelong')
               /\ ~overlap => Alone'
    <2>1. TypeOK' /\ CommitsMail(h)
      BY <1>3, CommitHookCommitsMail
    <2>2. EmailSound' /\ Grows /\ (NeverTwice' => AnswersBelong')
      BY <2>1, CommitsMailShape
    <2>3. ~overlap => Alone'
      BY <2>1, <2>2, CommitsMailAlone
    <2>4. QED BY <2>1, <2>2, <2>3
  <1>4. ASSUME NEW h \in Hooks, AbortHook(h)
        PROVE  /\ TypeOK' /\ EmailSound' /\ Grows /\ (NeverTwice' => AnswersBelong')
               /\ ~overlap => Alone'
    <2>1. TypeOK' /\ EmailSound' /\ Grows /\ (NeverTwice' => AnswersBelong')
      BY <1>4, AbortHookShape
    <2>2. /\ tickets' = tickets /\ jobs' = jobs /\ filed' = filed /\ mailed' = mailed
          /\ missed' = missed
      BY <1>4 DEF AbortHook
    <2>3. \A g \in Hooks : hooks'[g].phase = "open" => hooks'[g] = hooks[g]
      <3>1. hooks' = [hooks EXCEPT ![h] = NoHook] /\ hooks \in [Hooks -> Hook]
        BY <1>4 DEF AbortHook, TypeOK
      <3>2. QED BY <3>1, EmptyMail
    <2>4. ~overlap => Alone'
      BY <2>1, <2>2, <2>3, QuietAlone
    <2>5. QED BY <2>1, <2>4
  <1>5. ASSUME NEW h \in Hooks, NEW m \in Mails, NEW t \in Tickets,
               IngestInto(h, m, t) \/ IngestNew(h, m, t)
        PROVE  /\ TypeOK' /\ EmailSound' /\ Grows /\ (NeverTwice' => AnswersBelong')
               /\ ~overlap => Alone'
    <2>1. PICK q \in Hook : Takes(h, m, t, q)
      BY <1>5, IngestTakes
    <2>2. TypeOK' /\ EmailSound' /\ Grows /\ (NeverTwice' => AnswersBelong')
      BY <2>1, TakesShape
    <2>3. ~overlap => Alone'
      BY <2>1, <2>2, TakesAlone
    <2>4. QED BY <2>2, <2>3
  <1>6. CASE (\E t \in Tickets, c \in BOOLEAN : SetStatus(t, c)) \/ Age
    <2>1. /\ TypeOK' /\ EmailSound' /\ Grows /\ (NeverTwice' => AnswersBelong')
          /\ \A t \in Tickets : tickets'[t].meta = tickets[t].meta
          /\ UNCHANGED <<overlap, users, letters, hooks, jobs, filed, mailed, missed>>
      BY <1>6, StatusShape
    <2>2. hooks' = hooks /\ jobs' = jobs /\ filed' = filed /\ mailed' = mailed /\ missed' = missed
      BY <2>1
    <2>3. ~overlap => Alone'
      BY <2>1, <2>2, QuietAlone
    <2>4. QED BY <2>1, <2>3
  <1>7. ASSUME NEW o \in Replies,
               \/ \E t \in Tickets : PostReply(o, t)
               \/ LoadJob(o) \/ GiveUp(o) \/ SendMail(o) \/ RefuseMail(o)
               \/ FailJob(o) \/ CrashJob(o) \/ EndJob(o)
               \/ \E b \in BOOLEAN : EnqueueReply(o, b) \/ RetryMail(o, b)
        PROVE  /\ TypeOK' /\ EmailSound' /\ Grows /\ (NeverTwice' => AnswersBelong')
               /\ ~overlap => Alone'
    <2>1. JobCounts(o) /\ \E q \in Job : JobGoes(o, q)
      BY <1>7, JobStepGoes
    <2>2. PICK q \in Job : JobGoes(o, q)
      BY <2>1
    <2>3. /\ TypeOK' /\ EmailSound' /\ Grows /\ (NeverTwice' => AnswersBelong')
          /\ \A p \in Replies : p # o => mailed'[p] = mailed[p] /\ missed'[p] = missed[p]
      BY <2>1, <2>2, JobGoesShape
    <2>4. ~overlap => Alone'
      BY <2>1, <2>2, <2>3, JobGoesAlone
    <2>5. QED BY <2>3, <2>4
  <1>8. ASSUME NEW o \in Replies, CommitJob(o)
        PROVE  /\ TypeOK' /\ EmailSound' /\ Grows /\ (NeverTwice' => AnswersBelong')
               /\ ~overlap => Alone'
    <2>1. TypeOK' /\ RecordsReply(o)
      BY <1>8, CommitJobRecords
    <2>2. EmailSound' /\ Grows /\ (NeverTwice' => AnswersBelong')
      BY <2>1, RecordsReplyShape
    <2>3. ~overlap => Alone'
      BY <2>1, <2>2, RecordsReplyAlone
    <2>4. QED BY <2>1, <2>2, <2>3
  <1>9. CASE UNCHANGED vars
    <2>1. /\ overlap' = overlap /\ clash' = clash /\ users' = users /\ letters' = letters
          /\ tickets' = tickets /\ hooks' = hooks /\ jobs' = jobs /\ delivered' = delivered
          /\ cutoff' = cutoff /\ filed' = filed /\ mailed' = mailed /\ missed' = missed
      BY <1>9 DEF vars
    <2>2. TypeOK'
      BY <2>1 DEF TypeOK
    <2>3. Grows
      BY <2>1 DEF Grows
    <2>4. EmailSound'
      <3>1. FreshTickets'
        BY <2>1 DEF EmailSound, FreshTickets
      <3>2. \A h \in Hooks : hooks[h].phase = "open" /\ hooks[h].new => ~Exists(hooks[h].ticket)'
        BY <2>1 DEF EmailSound, MailHookSound, Exists
      <3>3. \A t \in Tickets : Exists(t)' => Exists(t)
        BY <2>1 DEF Exists
      <3>4. QED BY <2>1, <2>3, <3>1, <3>2, <3>3, EmailSoundKeeps
    <2>5. NeverTwice' => AnswersBelong'
      BY <2>1, <2>3, BelongStays
    <2>6. ~overlap => Alone'
      BY <2>1, <2>3, QuietAlone
    <2>7. QED BY <2>2, <2>3, <2>4, <2>5, <2>6
  <1>10. QED BY <1>2, <1>3, <1>4, <1>5, <1>6, <1>7, <1>8, <1>9 DEF Next

\* The inductive invariant of the e-mail channel: rows, requests, jobs and mails fit
\* together (ingest_inbound_email and send_ticket_email_reply load and write whole values
\* of channel_metadata of one ticket), answers are under way to the ticket they name, and
\* without overlap there is one writer per thread, which has loaded what is stored.
THEOREM EmailInvariant == Spec => []EmailInv
  <1>1. Spec => []EmailInv
    BY EmailInit, EmailStep, PTL DEF Spec
  <1>2. QED BY <1>1

\* Tickets, requests and jobs keep their types: the thread stays a list of Message-IDs
\* through every append of the webhook and of the job.
THEOREM EmailTypes == Spec => []TypeOK
  <1>1. EmailInv => TypeOK
    BY DEF EmailInv
  <1>2. QED BY <1>1, EmailInvariant, PTL

\* A mail is filed once, however often the provider delivers it (_find_replay, and the
\* rollback of a request that fails), while the writers of a sender's threads do not
\* overlap.
THEOREM MailIsFiledOnce == Spec => []FiledOnce
  <1>1. EmailInv => FiledOnce
    BY DEF EmailInv, Alone, FiledAtMostOnce, FiledOnce
  <1>2. QED BY <1>1, EmailInvariant, PTL

\* with_appended keeps what the other writer has written: every mail filed on a ticket and
\* every reply recorded on it stay in message_ids, without overlap.
THEOREM ThreadsAreKept == Spec => []ThreadKeepsAll
  <1>1. EmailInv => ThreadKeepsAll
    BY DEF EmailInv, Alone, ThreadsKept, ThreadKeepsAll, SentBefore
  <1>2. QED BY <1>1, EmailInvariant, PTL

\* The ladder of ingest_inbound_email files a customer's answer on the ticket of the mail
\* it answers, also over lost records and overlapping writers: the first Message-ID of a
\* thread survives every write, and build_reply_headers puts it into every mail.
THEOREM AnswersStay == Spec => []AnswersStayInThread
  <1>1. EmailInv => AnswersStayInThread
    BY DEF EmailInv, NeverTwice, AnswersBelong, Belongs, AnswersStayInThread
  <1>2. QED BY <1>1, EmailInvariant, PTL

\* send_ticket_email_reply sends a second copy of a reply only after a try that lost the
\* record of a mail taken, without overlap.
THEOREM CopiesExplained == Spec => []CopiesAreExplained
  <1>1. EmailInv => CopiesAreExplained
    BY DEF EmailInv, Alone, CopiesCounted, CopiesAreExplained
  <1>2. QED BY <1>1, EmailInvariant, PTL

=============================================================================
