----------------------------- MODULE AuthTokens -----------------------------
(***************************************************************************)
(* Accounts, invitations and refresh tokens: invite_user, reissue_invite,  *)
(* accept_invite, disable_user, login, refresh and logout.                 *)
(*                                                                         *)
(* A refresh locks the row of the presented token; logout locks the        *)
(* presented token too and then revokes the family with one UPDATE, which  *)
(* sees the rows committed when it starts, waits for those that are        *)
(* locked, and looks at them again before it writes.  get_session commits  *)
(* when the handler returns and rolls back when it raises, also when it    *)
(* raises the HTTPException of a 401.                                      *)
(*                                                                         *)
(* A family is named by the token it began with.  The ids of tokens and    *)
(* invitations are the bound of the model.                                 *)
(***************************************************************************)
EXTENDS Integers, FiniteSets

CONSTANTS
    Users,     \* accounts
    Tokens,    \* refresh tokens that may be issued
    Invites,   \* invitations that may be issued
    Sessions,  \* requests that may be open at the same time
    None       \* nothing

Opt(S) == S \cup {None}

ASSUME AuthAssumption ==
    None \notin Users /\ None \notin Tokens /\ None \notin Invites

\* An id without a row has no user.
TokenRow == [user: Opt(Users), family: Opt(Tokens), revoked: BOOLEAN,
             expired: BOOLEAN]

InviteRow == [user: Opt(Users), used: BOOLEAN, revoked: BOOLEAN,
              expired: BOOLEAN]

NoToken == [user |-> None, family |-> None, revoked |-> FALSE,
            expired |-> FALSE]

NoInvite == [user |-> None, used |-> FALSE, revoked |-> FALSE,
             expired |-> FALSE]

\* token, invite: the row locked FOR UPDATE; tokens, invites: the rows the
\* running UPDATE found.
Session == [op: {"idle", "refresh", "reuse", "logout", "accept", "reissue"},
            user: Opt(Users), token: Opt(Tokens), invite: Opt(Invites),
            tokens: SUBSET Tokens, invites: SUBSET Invites]

NoSession == [op |-> "idle", user |-> None, token |-> None, invite |-> None,
              tokens |-> {}, invites |-> {}]

VARIABLES
    status,          \* users.status, "absent" without a row
    refresh_tokens,  \* the table
    invite_tokens,   \* the table
    sessions,        \* open requests
    reused,          \* history: families for which a reuse was detected
    logged_out       \* history: families for which a logout succeeded

vars == <<status, refresh_tokens, invite_tokens, sessions, reused, logged_out>>

Init ==
    /\ status = [u \in Users |-> "absent"]
    /\ refresh_tokens = [k \in Tokens |-> NoToken]
    /\ invite_tokens = [i \in Invites |-> NoInvite]
    /\ sessions = [s \in Sessions |-> NoSession]
    /\ reused = {}
    /\ logged_out = {}

Issued(k) == refresh_tokens[k].user # None

Live(k) == Issued(k) /\ ~refresh_tokens[k].revoked

\* The rows of a family that revoke_family finds.
LiveFamily(f) == {k \in Tokens : Live(k) /\ refresh_tokens[k].family = f}

Outstanding(i) == /\ invite_tokens[i].user # None
                  /\ ~invite_tokens[i].used /\ ~invite_tokens[i].revoked

OutstandingOf(u) == {i \in Invites : Outstanding(i) /\ invite_tokens[i].user = u}

\* The row of a new token; a login begins a family.
NewToken(u, f) == [user |-> u, family |-> f, revoked |-> FALSE,
                   expired |-> FALSE]

TokenLocked(k, s) == \E o \in Sessions \ {s} : sessions[o].token = k

InviteLocked(i, s) == \E o \in Sessions \ {s} : sessions[o].invite = i

-----------------------------------------------------------------------------
(* Accounts. *)

NewInvite(u) == [user |-> u, used |-> FALSE, revoked |-> FALSE,
                 expired |-> FALSE]

InviteUser(u, i) ==
    /\ status[u] = "absent"
    /\ invite_tokens[i].user = None
    /\ status' = [status EXCEPT ![u] = "pending"]
    /\ invite_tokens' = [invite_tokens EXCEPT ![i] = NewInvite(u)]
    /\ UNCHANGED <<refresh_tokens, sessions, reused, logged_out>>

\* reissue_invite reads the user and starts revoke_unused_for_user.
ReissueRead(s, u) ==
    /\ sessions[s].op = "idle"
    /\ status[u] = "pending"
    /\ sessions' = [sessions EXCEPT ![s] =
            [op |-> "reissue", user |-> u, token |-> None, invite |-> None,
             tokens |-> {}, invites |-> OutstandingOf(u)]]
    /\ UNCHANGED <<status, refresh_tokens, invite_tokens, reused, logged_out>>

\* The UPDATE has its rows, looks at them again, the new invitation goes in
\* unless ix_invite_tokens_user_id_single_outstanding refuses it.
ReissueCommit(s, i) ==
    LET q == sessions[s] IN
    /\ q.op = "reissue"
    /\ \A x \in q.invites : ~InviteLocked(x, s)
    /\ OutstandingOf(q.user) \subseteq q.invites
    /\ invite_tokens[i].user = None
    /\ invite_tokens' = [x \in Invites |->
            IF x = i THEN NewInvite(q.user)
            ELSE IF x \in q.invites /\ Outstanding(x)
                   THEN [user |-> q.user, used |-> FALSE, revoked |-> TRUE,
                         expired |-> invite_tokens[x].expired]
                   ELSE invite_tokens[x]]
    /\ sessions' = [sessions EXCEPT ![s] = NoSession]
    /\ UNCHANGED <<status, refresh_tokens, reused, logged_out>>

\* Mutant: accept_invite does not look at used_at and the user's status.
AcceptLockUnchecked(s, i) ==
    /\ sessions[s].op = "idle"
    /\ invite_tokens[i].user # None /\ ~InviteLocked(i, s)
    /\ ~invite_tokens[i].expired
    /\ sessions' = [sessions EXCEPT ![s] =
            [op |-> "accept", user |-> invite_tokens[i].user, token |-> None,
             invite |-> i, tokens |-> {}, invites |-> {}]]
    /\ UNCHANGED <<status, refresh_tokens, invite_tokens, reused, logged_out>>

\* accept_invite locks the invitation; every other answer is an error.
AcceptLock(s, i) ==
    /\ sessions[s].op = "idle"
    /\ Outstanding(i) /\ ~InviteLocked(i, s)
    /\ ~invite_tokens[i].expired
    /\ status[invite_tokens[i].user] = "pending"
    /\ sessions' = [sessions EXCEPT ![s] =
            [op |-> "accept", user |-> invite_tokens[i].user, token |-> None,
             invite |-> i, tokens |-> {}, invites |-> {}]]
    /\ UNCHANGED <<status, refresh_tokens, invite_tokens, reused, logged_out>>

\* status, used_at and the first token pair; `users` is not locked.
AcceptCommit(s, k) ==
    LET q == sessions[s] IN
    /\ q.op = "accept"
    /\ ~Issued(k)
    /\ status' = [status EXCEPT ![q.user] = "active"]
    /\ invite_tokens' = [invite_tokens EXCEPT ![q.invite] =
            [user |-> q.user, used |-> TRUE, revoked |-> @.revoked,
             expired |-> @.expired]]
    /\ refresh_tokens' = [refresh_tokens EXCEPT ![k] = NewToken(q.user, k)]
    /\ sessions' = [sessions EXCEPT ![s] = NoSession]
    /\ UNCHANGED <<reused, logged_out>>

DisableUser(u) ==
    /\ status[u] \in {"pending", "active"}
    /\ status' = [status EXCEPT ![u] = "disabled"]
    /\ UNCHANGED <<refresh_tokens, invite_tokens, sessions, reused, logged_out>>

Login(u, k) ==
    /\ status[u] = "active"
    /\ ~Issued(k)
    /\ refresh_tokens' = [refresh_tokens EXCEPT ![k] = NewToken(u, k)]
    /\ UNCHANGED <<status, invite_tokens, sessions, reused, logged_out>>

-----------------------------------------------------------------------------
(* Refresh tokens. *)

\* Mutant: rotate without FOR UPDATE.
RefreshUnlocked(s, k) ==
    /\ sessions[s].op = "idle"
    /\ Live(k) /\ ~refresh_tokens[k].expired
    /\ status[refresh_tokens[k].user] = "active"
    /\ sessions' = [sessions EXCEPT ![s] =
            [op |-> "refresh", user |-> refresh_tokens[k].user, token |-> k,
             invite |-> None, tokens |-> {}, invites |-> {}]]
    /\ UNCHANGED <<status, refresh_tokens, invite_tokens, reused, logged_out>>

\* refresh: the presented token is locked, live, not expired, its user active.
Refresh(s, k) ==
    /\ sessions[s].op = "idle"
    /\ Live(k) /\ ~TokenLocked(k, s)
    /\ ~refresh_tokens[k].expired
    /\ status[refresh_tokens[k].user] = "active"
    /\ sessions' = [sessions EXCEPT ![s] =
            [op |-> "refresh", user |-> refresh_tokens[k].user, token |-> k,
             invite |-> None, tokens |-> {}, invites |-> {}]]
    /\ UNCHANGED <<status, refresh_tokens, invite_tokens, reused, logged_out>>

\* Mutant: the old token is not revoked.
RefreshCommitKeepsOld(s, n) ==
    LET q == sessions[s] IN
    /\ q.op = "refresh"
    /\ ~Issued(n)
    /\ refresh_tokens' = [refresh_tokens EXCEPT
            ![n] = NewToken(q.user, refresh_tokens[q.token].family)]
    /\ sessions' = [sessions EXCEPT ![s] = NoSession]
    /\ UNCHANGED <<status, invite_tokens, reused, logged_out>>

\* The old token is revoked, the new one continues its family.
RefreshCommit(s, n) ==
    LET q == sessions[s]  f == refresh_tokens[q.token].family IN
    /\ q.op = "refresh"
    /\ ~Issued(n)
    /\ refresh_tokens' = [x \in Tokens |->
            IF x = n THEN NewToken(q.user, f)
            ELSE IF x = q.token
                   THEN [user |-> q.user, family |-> f, revoked |-> TRUE,
                         expired |-> refresh_tokens[x].expired]
                   ELSE refresh_tokens[x]]
    /\ sessions' = [sessions EXCEPT ![s] = NoSession]
    /\ UNCHANGED <<status, invite_tokens, reused, logged_out>>

\* refresh with a revoked token starts revoke_family ...
DetectReuse(s, k) ==
    /\ sessions[s].op = "idle"
    /\ Issued(k) /\ refresh_tokens[k].revoked /\ ~TokenLocked(k, s)
    /\ sessions' = [sessions EXCEPT ![s] =
            [op |-> "reuse", user |-> None, token |-> k, invite |-> None,
             tokens |-> LiveFamily(refresh_tokens[k].family),
             invites |-> {}]]
    /\ UNCHANGED <<status, refresh_tokens, invite_tokens, reused, logged_out>>

Waits(s) == \E x \in sessions[s].tokens : TokenLocked(x, s)

\* ... then raises AuthenticationError: the answer is 401, and get_session rolls
\* the UPDATE back.
RejectReuse(s) ==
    LET q == sessions[s] IN
    /\ q.op = "reuse" /\ ~Waits(s)
    /\ reused' = reused \cup {refresh_tokens[q.token].family}
    /\ sessions' = [sessions EXCEPT ![s] = NoSession]
    /\ UNCHANGED <<status, refresh_tokens, invite_tokens, logged_out>>

\* logout locks the presented token, whatever its state, and starts the UPDATE.
Logout(s, k) ==
    /\ sessions[s].op = "idle"
    /\ Issued(k) /\ ~TokenLocked(k, s)
    /\ sessions' = [sessions EXCEPT ![s] =
            [op |-> "logout", user |-> None, token |-> k, invite |-> None,
             tokens |-> LiveFamily(refresh_tokens[k].family),
             invites |-> {}]]
    /\ UNCHANGED <<status, refresh_tokens, invite_tokens, reused, logged_out>>

LogoutCommit(s) ==
    LET q == sessions[s] IN
    /\ q.op = "logout" /\ ~Waits(s)
    /\ refresh_tokens' = [x \in Tokens |->
            IF x \in q.tokens
              THEN [user |-> refresh_tokens[x].user,
                    family |-> refresh_tokens[x].family, revoked |-> TRUE,
                    expired |-> refresh_tokens[x].expired]
              ELSE refresh_tokens[x]]
    /\ logged_out' = logged_out \cup {refresh_tokens[q.token].family}
    /\ sessions' = [sessions EXCEPT ![s] = NoSession]
    /\ UNCHANGED <<status, invite_tokens, reused>>

\* An error, a deadlock victim, or a dead process.
Rollback(s) ==
    /\ sessions[s].op # "idle"
    /\ sessions' = [sessions EXCEPT ![s] = NoSession]
    /\ UNCHANGED <<status, refresh_tokens, invite_tokens, reused, logged_out>>

\* Time passes.
ExpireToken(k) ==
    /\ Issued(k) /\ ~refresh_tokens[k].expired
    /\ refresh_tokens' = [refresh_tokens EXCEPT ![k] =
            [user |-> @.user, family |-> @.family, revoked |-> @.revoked,
             expired |-> TRUE]]
    /\ UNCHANGED <<status, invite_tokens, sessions, reused, logged_out>>

ExpireInvite(i) ==
    /\ invite_tokens[i].user # None /\ ~invite_tokens[i].expired
    /\ invite_tokens' = [invite_tokens EXCEPT ![i] =
            [user |-> @.user, used |-> @.used, revoked |-> @.revoked,
             expired |-> TRUE]]
    /\ UNCHANGED <<status, refresh_tokens, sessions, reused, logged_out>>

-----------------------------------------------------------------------------
Next ==
    \/ \E u \in Users : DisableUser(u)
    \/ \E u \in Users, i \in Invites : InviteUser(u, i)
    \/ \E u \in Users, k \in Tokens : Login(u, k)
    \/ \E k \in Tokens : ExpireToken(k)
    \/ \E i \in Invites : ExpireInvite(i)
    \/ \E s \in Sessions :
          \/ \E u \in Users : ReissueRead(s, u)
          \/ \E i \in Invites : ReissueCommit(s, i) \/ AcceptLock(s, i)
          \/ \E k \in Tokens : \/ AcceptCommit(s, k) \/ Refresh(s, k)
                               \/ RefreshCommit(s, k) \/ DetectReuse(s, k)
                               \/ Logout(s, k)
          \/ RejectReuse(s) \/ LogoutCommit(s) \/ Rollback(s)

Spec == Init /\ [][Next]_vars

-----------------------------------------------------------------------------
(* Properties. *)

\* Every variable keeps the shape of its table.
TypeOK ==
    /\ status \in [Users -> {"absent", "pending", "active", "disabled"}]
    /\ refresh_tokens \in [Tokens -> TokenRow]
    /\ invite_tokens \in [Invites -> InviteRow]
    /\ sessions \in [Sessions -> Session]
    /\ reused \subseteq Tokens
    /\ logged_out \subseteq Tokens

\* Rotation never forks: a family has at most one token that is not revoked,
\* however many refreshes of the same token run at the same time.
OneLivePerFamily ==
    \A k, n \in Tokens :
        (Live(k) /\ Live(n) /\ refresh_tokens[k].family = refresh_tokens[n].family)
            => k = n

\* A user is activated by one invitation: reissued, raced and repeated
\* accept_invite calls never consume two.
OneUsedInvite ==
    \A i, x \in Invites :
        (invite_tokens[i].used /\ invite_tokens[x].used
             /\ invite_tokens[i].user = invite_tokens[x].user) => i = x

\* The UPDATE of a family never waits for a request that waits for it: refresh,
\* reuse detection and logout cannot deadlock.
NoWaitCycle ==
    \A s, o \in Sessions :
        ~ /\ s # o
          /\ sessions[o].token \in sessions[s].tokens
          /\ sessions[s].token \in sessions[o].tokens

-----------------------------------------------------------------------------
(* What the code's documentation says and the code does not do. *)

\* test_auth_flow_pg: replaying a rotated token triggers reuse detection, "every
\* row in the family gets revoked".
ReuseRevokesFamily ==
    \A f \in reused : LiveFamily(f) = {}

\* logout: "Revoke the entire token family of the presented refresh token."
LogoutRevokesFamily ==
    \A f \in logged_out : LiveFamily(f) = {}

\* accept_invite: "a token whose user is no longer `pending`" raises
\* InviteAcceptError.
OnlyPendingIsActivated ==
    [][\A u \in Users : (status[u] # "active" /\ status'[u] = "active")
                            => status[u] = "pending"]_vars

=============================================================================
