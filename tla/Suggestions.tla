----------------------------- MODULE Suggestions -----------------------------
(***************************************************************************)
(* GET /tickets/{id}/suggested-response on one ticket: the cache of AI     *)
(* drafts in `messages`, concurrent requests for a draft, and the people   *)
(* who go on talking meanwhile.                                            *)
(*                                                                         *)
(* created_at of a message is now(), the START of the transaction that     *)
(* inserts it, whenever it commits.  The foreign key of an inserted        *)
(* message holds FOR KEY SHARE on the ticket until its commit, which       *)
(* SELECT ... FOR UPDATE of suggest_response waits for, and the other way  *)
(* round.                                                                  *)
(***************************************************************************)
EXTENDS Integers, Sequences

CONSTANTS
    Requests,  \* suggested-response requests open at the same time
    Posts,     \* transactions that insert a message into the thread
    MaxClock   \* bound on the transactions ever begun

ASSUME SuggestionsAssumption == MaxClock \in Nat

Instants == 0..MaxClock

\* An is_ai_suggestion row: its created_at and the messages it was drafted from.
Draft == [at: Instants, thread: SUBSET Instants]

VARIABLES
    clock,     \* start of the latest transaction
    humans,    \* created_at of the committed messages that are not suggestions
    drafts,    \* the committed suggestions, in the order of their commits
    requests,  \* suggest_response
    posts      \* create_message

suggestionVars == <<clock, humans, drafts, requests, posts>>

Request == [phase: {"idle", "open", "missed", "drafting"}, at: Instants,
            thread: SUBSET Instants]

Post == [phase: {"idle", "open", "inserted"}, at: Instants]

NoRequest == [phase |-> "idle", at |-> 0, thread |-> {}]

NoPost == [phase |-> "idle", at |-> 0]

SuggestionInit ==
    /\ clock = 0
    /\ humans = {}
    /\ drafts = <<>>
    /\ requests = [r \in Requests |-> NoRequest]
    /\ posts = [p \in Posts |-> NoPost]

-----------------------------------------------------------------------------
(* Messages of the thread: tenants, agents, inbound mail, chat tools. *)

Drafting == \E r \in Requests : requests[r].phase = "drafting"

OpenPost(p) ==
    /\ posts[p].phase = "idle" /\ clock < MaxClock
    /\ clock' = clock + 1
    /\ posts' = [posts EXCEPT ![p] = [phase |-> "open", at |-> clock + 1]]
    /\ UNCHANGED <<humans, drafts, requests>>

\* Mutant: the insert does not touch the ticket's row.
InsertWithoutKey(p) ==
    /\ posts[p].phase = "open"
    /\ posts' = [posts EXCEPT ![p] = [phase |-> "inserted", at |-> posts[p].at]]
    /\ UNCHANGED <<clock, humans, drafts, requests>>

\* The flush of create_message waits for the ticket's FOR UPDATE lock.
InsertPost(p) ==
    /\ posts[p].phase = "open"
    /\ ~Drafting
    /\ posts' = [posts EXCEPT ![p] = [phase |-> "inserted", at |-> posts[p].at]]
    /\ UNCHANGED <<clock, humans, drafts, requests>>

CommitPost(p) ==
    /\ posts[p].phase = "inserted"
    /\ humans' = humans \cup {posts[p].at}
    /\ posts' = [posts EXCEPT ![p] = NoPost]
    /\ UNCHANGED <<clock, drafts, requests>>

\* The request fails and get_session rolls back.
AbortPost(p) ==
    /\ posts[p].phase # "idle"
    /\ posts' = [posts EXCEPT ![p] = NoPost]
    /\ UNCHANGED <<clock, humans, drafts, requests>>

-----------------------------------------------------------------------------
(* suggest_response. *)

\* No message sorts after the latest suggestion (that is, after some suggestion).
Fresh == \E i \in DOMAIN drafts : \A h \in humans : h <= drafts[i].at

OpenRequest(r) ==
    /\ requests[r].phase = "idle" /\ clock < MaxClock
    /\ clock' = clock + 1
    /\ requests' = [requests EXCEPT ![r] =
            [phase |-> "open", at |-> clock + 1, thread |-> {}]]
    /\ UNCHANGED <<humans, drafts, posts>>

\* The unlocked fast path answers from the cache.
Hit(r) ==
    /\ requests[r].phase = "open" /\ Fresh
    /\ requests' = [requests EXCEPT ![r] = NoRequest]
    /\ UNCHANGED <<clock, humans, drafts, posts>>

Miss(r) ==
    /\ requests[r].phase = "open" /\ ~Fresh
    /\ requests' = [requests EXCEPT ![r] =
            [phase |-> "missed", at |-> requests[r].at, thread |-> {}]]
    /\ UNCHANGED <<clock, humans, drafts, posts>>

\* FOR UPDATE is granted: no other draft in the making, no insert not committed.
LockFree == ~Drafting /\ \A p \in Posts : posts[p].phase # "inserted"

\* The re-check under the lock: "a concurrent request won".
HitUnderLock(r) ==
    /\ requests[r].phase = "missed" /\ LockFree /\ Fresh
    /\ requests' = [requests EXCEPT ![r] = NoRequest]
    /\ UNCHANGED <<clock, humans, drafts, posts>>

\* Mutant: no re-check under the lock.
ReadThreadUnchecked(r) ==
    /\ requests[r].phase = "missed" /\ LockFree
    /\ requests' = [requests EXCEPT ![r] =
            [phase |-> "drafting", at |-> requests[r].at, thread |-> humans]]
    /\ UNCHANGED <<clock, humans, drafts, posts>>

\* Still stale: the thread is read and embedded.
ReadThread(r) ==
    /\ requests[r].phase = "missed" /\ LockFree /\ ~Fresh
    /\ requests' = [requests EXCEPT ![r] =
            [phase |-> "drafting", at |-> requests[r].at, thread |-> humans]]
    /\ UNCHANGED <<clock, humans, drafts, posts>>

\* There is a source and the LLM answers: the suggestion is committed.
CommitDraft(r) ==
    /\ requests[r].phase = "drafting"
    /\ drafts' = Append(drafts, [at |-> requests[r].at,
                                 thread |-> requests[r].thread])
    /\ requests' = [requests EXCEPT ![r] = NoRequest]
    /\ UNCHANGED <<clock, humans, posts>>

\* No grounded source, an empty answer, a failure of a provider, a client that
\* went away: nothing is stored and the lock is gone.
EndWithoutDraft(r) ==
    /\ requests[r].phase # "idle"
    /\ requests' = [requests EXCEPT ![r] = NoRequest]
    /\ UNCHANGED <<clock, humans, drafts, posts>>

-----------------------------------------------------------------------------
SuggestionNext ==
    \/ \E p \in Posts : OpenPost(p) \/ InsertPost(p) \/ CommitPost(p) \/ AbortPost(p)
    \/ \E r \in Requests : \/ OpenRequest(r) \/ Hit(r) \/ Miss(r)
                           \/ HitUnderLock(r) \/ ReadThread(r)
                           \/ CommitDraft(r) \/ EndWithoutDraft(r)

SuggestionSpec == SuggestionInit /\ [][SuggestionNext]_suggestionVars

-----------------------------------------------------------------------------
(* Properties. *)

\* The rows and the open transactions keep their types.
SuggestionTypeOK ==
    /\ clock \in Instants
    /\ humans \in SUBSET Instants
    /\ drafts \in Seq(Draft)
    /\ requests \in [Requests -> Request]
    /\ posts \in [Posts -> Post]

\* While suggest_response drafts, which takes seconds, the conversation it has
\* read is the whole conversation: no message is committed behind its back.
ThreadStandsStill ==
    \A r \in Requests :
        requests[r].phase = "drafting" => requests[r].thread = humans

\* A suggestion is drafted only when the conversation went on after every
\* suggestion there was: among the messages it was drafted from, one was begun
\* later than each earlier suggestion.
DraftsAreJustified ==
    \A i, j \in DOMAIN drafts :
        i < j => \E h \in drafts[j].thread : h > drafts[i].at

-----------------------------------------------------------------------------
(* What the code's documentation says and the code does not do. *)

\* Module docstring: "two concurrent requests for the same ticket never both
\* regenerate and insert two suggestion rows".
OneDraftPerThread ==
    \A i, j \in DOMAIN drafts :
        i # j => drafts[i].thread # drafts[j].thread

\* _is_fresh: stale iff "the human/agent conversation moved on since this
\* suggestion was generated".
FreshHasSeenAll ==
    Fresh => \E i \in DOMAIN drafts : drafts[i].thread = humans

=============================================================================
