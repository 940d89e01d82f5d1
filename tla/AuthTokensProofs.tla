-------------------------- MODULE AuthTokensProofs --------------------------
(* Theorems about AuthTokens, for every number of users, tokens, invitations  *)
(* and requests that are open at the same time.                               *)
EXTENDS AuthTokens, TLAPS

\* Every family began with a token that was issued.
FamiliesGrounded ==
    \A k \in Tokens : Issued(k) =>
        refresh_tokens[k].family \in Tokens /\ Issued(refresh_tokens[k].family)

\* What the request q holds and knows: a refresh holds a live token; the UPDATE of
\* a family that found another token than the presented one found it because the
\* presented one is revoked.
Holds(q) ==
    /\ q.op = "refresh" =>
        /\ q.token \in Tokens /\ Live(q.token)
        /\ q.user = refresh_tokens[q.token].user
    /\ q.op \in {"reuse", "logout"} => q.token \in Tokens /\ Issued(q.token)
    /\ q.op = "accept" => q.user \in Users
    /\ q.op \notin {"refresh", "reuse", "logout"} => q.token = None
    /\ q.op \notin {"reuse", "logout"} => q.tokens = {}
    /\ \A x \in q.tokens : x # q.token => refresh_tokens[q.token].revoked

\* FOR UPDATE: a token is locked by one request.
OneLocker ==
    \A s, o \in Sessions : s # o /\ sessions[s].token # None =>
        sessions[s].token # sessions[o].token

\* The inductive invariant of the families.
FamilyInv ==
    /\ TypeOK
    /\ FamiliesGrounded
    /\ \A s \in Sessions : Holds(sessions[s])
    /\ OneLocker
    /\ OneLivePerFamily
    /\ NoWaitCycle

\* Invitations are for users that exist, used ones for users that were activated.
InvitesGrounded ==
    \A i \in Invites : invite_tokens[i].user # None =>
        /\ status[invite_tokens[i].user] # "absent"
        /\ invite_tokens[i].used => status[invite_tokens[i].user] # "pending"

\* ix_invite_tokens_user_id_single_outstanding
OneOutstanding ==
    \A i, x \in Invites :
        Outstanding(i) /\ Outstanding(x) /\ invite_tokens[i].user = invite_tokens[x].user
            => i = x

\* What the request q holds and knows: an accept holds the outstanding invitation
\* of a user who has used none; a reissue knows outstanding ones of its user.
Knows(q) ==
    /\ q.op = "accept" =>
        /\ q.user \in Users /\ q.invite \in Invites /\ Outstanding(q.invite)
        /\ invite_tokens[q.invite].user = q.user
        /\ \A x \in Invites : invite_tokens[x].used => invite_tokens[x].user # q.user
    /\ q.op = "reissue" =>
        /\ q.user \in Users /\ status[q.user] # "absent"
        /\ \A x \in q.invites : invite_tokens[x].user = q.user
    /\ q.op # "accept" => q.invite = None

\* FOR UPDATE: an invitation is locked by one request.
OneAccepter ==
    \A s, o \in Sessions : s # o /\ sessions[s].invite # None =>
        sessions[s].invite # sessions[o].invite

\* The inductive invariant of the invitations.
InviteInv ==
    /\ TypeOK
    /\ InvitesGrounded
    /\ OneOutstanding
    /\ \A s \in Sessions : Knows(sessions[s])
    /\ OneAccepter
    /\ OneUsedInvite

-----------------------------------------------------------------------------

\* Rows and requests that are not there.
LEMMA EmptyTypes ==
    /\ NoToken \in TokenRow /\ NoToken.user = None
    /\ NoInvite \in InviteRow /\ NoInvite.user = None /\ ~NoInvite.used
    /\ NoSession \in Session /\ NoSession.op = "idle" /\ NoSession.token = None
    /\ NoSession.invite = None /\ NoSession.tokens = {} /\ NoSession.invites = {}
  BY DEF NoToken, TokenRow, NoInvite, InviteRow, NoSession, Session, Opt

\* The row of a new token.
LEMMA NewTokenType ==
    ASSUME NEW u \in Opt(Users), NEW f \in Opt(Tokens)
    PROVE  /\ NewToken(u, f) \in TokenRow /\ NewToken(u, f).user = u
           /\ NewToken(u, f).family = f /\ ~NewToken(u, f).revoked
  BY DEF NewToken, TokenRow

\* The row of a new invitation.
LEMMA NewInviteType ==
    ASSUME NEW u \in Opt(Users)
    PROVE  /\ NewInvite(u) \in InviteRow /\ NewInvite(u).user = u
           /\ ~NewInvite(u).used /\ ~NewInvite(u).revoked
  BY DEF NewInvite, InviteRow

\* A step that opens request s as q.
Opens(s, q) ==
    /\ sessions' = [sessions EXCEPT ![s] = q]
    /\ UNCHANGED <<status, refresh_tokens, invite_tokens, reused, logged_out>>

\* The requests about tokens that a step may open.
LEMMA TokenOpenings ==
    ASSUME TypeOK, NEW s \in Sessions, NEW k \in Tokens,
           Refresh(s, k) \/ DetectReuse(s, k) \/ Logout(s, k)
    PROVE  \E q \in Session :
             /\ Opens(s, q) /\ q.token = k /\ q.invite = None
             /\ q.op \in {"refresh", "reuse", "logout"}
             /\ Issued(k) /\ ~TokenLocked(k, s)
             /\ q.op = "refresh" =>
                   Live(k) /\ q.user = refresh_tokens[k].user /\ q.tokens = {}
             /\ q.op # "refresh" => q.tokens = LiveFamily(refresh_tokens[k].family)
  <1>0. refresh_tokens[k].user \in Opt(Users)
    BY DEF TypeOK, TokenRow
  <1>1. CASE Refresh(s, k)
    <2> DEFINE q == [op |-> "refresh", user |-> refresh_tokens[k].user, token |-> k,
                     invite |-> None, tokens |-> {}, invites |-> {}]
    <2>1. q \in Session
      BY <1>0 DEF Session, Opt
    <2>2. QED BY <1>1, <2>1 DEF Refresh, Opens, Live
  <1>2. ASSUME NEW op \in {"reuse", "logout"},
               Opens(s, [op |-> op, user |-> None, token |-> k, invite |-> None,
                         tokens |-> LiveFamily(refresh_tokens[k].family), invites |-> {}]),
               Issued(k), ~TokenLocked(k, s)
        PROVE  \E q \in Session :
             /\ Opens(s, q) /\ q.token = k /\ q.invite = None
             /\ q.op \in {"refresh", "reuse", "logout"}
             /\ Issued(k) /\ ~TokenLocked(k, s)
             /\ q.op = "refresh" =>
                   Live(k) /\ q.user = refresh_tokens[k].user /\ q.tokens = {}
             /\ q.op # "refresh" => q.tokens = LiveFamily(refresh_tokens[k].family)
    <2> DEFINE q == [op |-> op, user |-> None, token |-> k, invite |-> None,
                     tokens |-> LiveFamily(refresh_tokens[k].family), invites |-> {}]
    <2>1. LiveFamily(refresh_tokens[k].family) \in SUBSET Tokens
      BY DEF LiveFamily
    <2>2. q \in Session
      BY <2>1 DEF Session, Opt
    <2>3. QED BY <1>2, <2>2
  <1>3. CASE DetectReuse(s, k)
    BY <1>2, <1>3 DEF DetectReuse, Opens
  <1>4. CASE Logout(s, k)
    BY <1>2, <1>4 DEF Logout, Opens
  <1>5. QED BY <1>1, <1>3, <1>4

\* Every step keeps the shape of the tables and requests.
LEMMA TypesStep == FamilyInv /\ [Next]_vars => TypeOK'
  <1> SUFFICES ASSUME FamilyInv, [Next]_vars
               PROVE  TypeOK'
    OBVIOUS
  <1>0. TypeOK /\ FamiliesGrounded /\ \A s \in Sessions : Holds(sessions[s])
    BY DEF FamilyInv
  <1>types. /\ status \in [Users -> {"absent", "pending", "active", "disabled"}]
        /\ refresh_tokens \in [Tokens -> TokenRow]
        /\ invite_tokens \in [Invites -> InviteRow]
        /\ sessions \in [Sessions -> Session]
        /\ reused \subseteq Tokens /\ logged_out \subseteq Tokens
    BY <1>0 DEF TypeOK
  <1>1. ASSUME NEW u \in Users, NEW i \in Invites, InviteUser(u, i)
        PROVE  TypeOK'
    BY <1>types, <1>1, NewInviteType DEF InviteUser, TypeOK, Opt
  <1>2. ASSUME NEW u \in Users, DisableUser(u)
        PROVE  TypeOK'
    BY <1>types, <1>2 DEF DisableUser, TypeOK
  <1>3. ASSUME NEW u \in Users, NEW k \in Tokens, Login(u, k)
        PROVE  TypeOK'
    BY <1>types, <1>3, NewTokenType DEF Login, TypeOK, Opt
  <1>4. ASSUME NEW k \in Tokens, ExpireToken(k)
        PROVE  TypeOK'
    BY <1>types, <1>4 DEF ExpireToken, TypeOK, TokenRow
  <1>5. ASSUME NEW i \in Invites, ExpireInvite(i)
        PROVE  TypeOK'
    BY <1>types, <1>5 DEF ExpireInvite, TypeOK, InviteRow
  <1>6. ASSUME NEW s \in Sessions, NEW u \in Users, ReissueRead(s, u)
        PROVE  TypeOK'
    <2>1. OutstandingOf(u) \in SUBSET Invites
      BY DEF OutstandingOf
    <2>2. QED BY <1>types, <1>6, <2>1 DEF ReissueRead, TypeOK, Session, Opt
  <1>7. ASSUME NEW s \in Sessions, NEW i \in Invites, ReissueCommit(s, i)
        PROVE  TypeOK'
    <2>1. sessions[s].user \in Opt(Users) /\ NewInvite(sessions[s].user) \in InviteRow
      BY <1>types, NewInviteType DEF Session
    <2>2. \A x \in Invites : invite_tokens'[x] \in InviteRow
      BY <1>types, <1>7, <2>1 DEF ReissueCommit, InviteRow
    <2>3. invite_tokens' \in [Invites -> InviteRow]
      BY <1>7, <2>2 DEF ReissueCommit
    <2>4. QED BY <1>types, <1>7, <2>3, EmptyTypes DEF ReissueCommit, TypeOK
  <1>8. ASSUME NEW s \in Sessions, NEW i \in Invites, AcceptLock(s, i)
        PROVE  TypeOK'
    BY <1>types, <1>8 DEF AcceptLock, TypeOK, Session, InviteRow, Opt
  <1>9. ASSUME NEW s \in Sessions, NEW k \in Tokens, AcceptCommit(s, k)
        PROVE  TypeOK'
    <2>1. sessions[s].user \in Opt(Users)
      BY <1>types DEF Session
    <2>2. refresh_tokens' \in [Tokens -> TokenRow]
      BY <1>types, <1>9, <2>1, NewTokenType DEF AcceptCommit, Opt
    <2>3. invite_tokens' \in [Invites -> InviteRow]
      BY <1>types, <1>9, <2>1 DEF AcceptCommit, InviteRow
    <2>4. status' \in [Users -> {"absent", "pending", "active", "disabled"}]
      BY <1>types, <1>9 DEF AcceptCommit
    <2>5. QED BY <1>types, <1>9, <2>2, <2>3, <2>4, EmptyTypes DEF AcceptCommit, TypeOK
  <1>10. ASSUME NEW s \in Sessions, NEW k \in Tokens,
                Refresh(s, k) \/ DetectReuse(s, k) \/ Logout(s, k)
         PROVE  TypeOK'
    <2>1. PICK q \in Session : Opens(s, q)
      BY <1>0, <1>10, TokenOpenings
    <2>2. QED BY <1>types, <2>1 DEF Opens, TypeOK
  <1>11. ASSUME NEW s \in Sessions, NEW n \in Tokens, RefreshCommit(s, n)
         PROVE  TypeOK'
    <2> DEFINE q == sessions[s]
               f == refresh_tokens[q.token].family
    <2>1. q.user \in Opt(Users) /\ q.token \in Tokens
      BY <1>0, <1>types, <1>11 DEF RefreshCommit, Session, Holds
    <2>2. f \in Opt(Tokens)
      BY <1>types, <2>1 DEF TokenRow
    <2>3. NewToken(q.user, f) \in TokenRow
      BY <2>1, <2>2, NewTokenType
    <2>4. \A x \in Tokens : refresh_tokens'[x] \in TokenRow
      BY <1>types, <1>11, <2>1, <2>2, <2>3 DEF RefreshCommit, TokenRow
    <2>5. refresh_tokens' \in [Tokens -> TokenRow]
      BY <1>11, <2>4 DEF RefreshCommit
    <2>6. QED BY <1>types, <1>11, <2>5, EmptyTypes DEF RefreshCommit, TypeOK
  <1>12. ASSUME NEW s \in Sessions, RejectReuse(s)
         PROVE  TypeOK'
    <2>1. refresh_tokens[sessions[s].token].family \in Tokens
      BY <1>0, <1>12 DEF RejectReuse, Holds, FamiliesGrounded
    <2>2. QED BY <1>types, <1>12, <2>1, EmptyTypes DEF RejectReuse, TypeOK
  <1>13. ASSUME NEW s \in Sessions, LogoutCommit(s)
         PROVE  TypeOK'
    <2>1. refresh_tokens[sessions[s].token].family \in Tokens
      BY <1>0, <1>13 DEF LogoutCommit, Holds, FamiliesGrounded
    <2>2. \A x \in Tokens : refresh_tokens'[x] \in TokenRow
      BY <1>types, <1>13 DEF LogoutCommit, TokenRow
    <2>3. refresh_tokens' \in [Tokens -> TokenRow]
      BY <1>13, <2>2 DEF LogoutCommit
    <2>4. QED BY <1>types, <1>13, <2>1, <2>3, EmptyTypes DEF LogoutCommit, TypeOK
  <1>14. ASSUME NEW s \in Sessions, Rollback(s)
         PROVE  TypeOK'
    BY <1>types, <1>14, EmptyTypes DEF Rollback, TypeOK
  <1>15. CASE UNCHANGED vars
    BY <1>types, <1>15 DEF vars, TypeOK
  <1>16. QED
    BY <1>1, <1>2, <1>3, <1>4, <1>5, <1>6, <1>7, <1>8, <1>9, <1>10, <1>11, <1>12, <1>13,
       <1>14, <1>15
    DEF Next

-----------------------------------------------------------------------------
(* Families of tokens. *)

\* A step on one request that writes no token keeps the invariant if what the
\* request holds then is free, and its UPDATE waits for nobody who waits for it.
LEMMA FamilyOpens ==
    ASSUME FamilyInv, TypeOK', refresh_tokens' = refresh_tokens,
           NEW s \in Sessions, NEW q \in Session,
           sessions' = [sessions EXCEPT ![s] = q],
           Holds(q),
           q.token # None => ~TokenLocked(q.token, s),
           \A o \in Sessions \ {s} :
               ~(sessions[o].token \in q.tokens /\ q.token \in sessions[o].tokens)
    PROVE  FamilyInv'
  <1>0. sessions \in [Sessions -> Session]
    BY DEF FamilyInv, TypeOK
  <1>1. FamiliesGrounded' /\ OneLivePerFamily'
    BY DEF FamilyInv, FamiliesGrounded, OneLivePerFamily, Issued, Live
  <1>2. \A o \in Sessions : Holds(sessions[o])'
    <2> SUFFICES ASSUME NEW o \in Sessions
                 PROVE  Holds(sessions[o])'
      OBVIOUS
    <2>1. CASE o = s
      BY <1>0, <2>1 DEF Holds, Live, Issued
    <2>2. CASE o # s
      BY <1>0, <2>2 DEF FamilyInv, Holds, Live, Issued
    <2>3. QED BY <2>1, <2>2
  <1>3. OneLocker'
    BY <1>0 DEF FamilyInv, OneLocker, TokenLocked
  <1>4. NoWaitCycle'
    BY <1>0 DEF FamilyInv, NoWaitCycle
  <1>5. QED BY <1>1, <1>2, <1>3, <1>4 DEF FamilyInv

\* A step that writes tokens keeps the invariant if it takes no row back, leaves
\* locked tokens live and forks no family.
LEMMA FamilyTable ==
    ASSUME FamilyInv, TypeOK',
           \A k \in Tokens : Issued(k) =>
               /\ refresh_tokens'[k].user = refresh_tokens[k].user
               /\ refresh_tokens'[k].family = refresh_tokens[k].family
               /\ refresh_tokens[k].revoked => refresh_tokens'[k].revoked,
           \A s \in Sessions : sessions'[s] = sessions[s] \/ sessions'[s] = NoSession,
           \A s \in Sessions : sessions'[s].op = "refresh" =>
               ~refresh_tokens'[sessions'[s].token].revoked,
           FamiliesGrounded', OneLivePerFamily'
    PROVE  FamilyInv'
  <1>0. sessions \in [Sessions -> Session]
    BY DEF FamilyInv, TypeOK
  <1>1. \A s \in Sessions : Holds(sessions[s])'
    <2> SUFFICES ASSUME NEW s \in Sessions
                 PROVE  Holds(sessions[s])'
      OBVIOUS
    <2>1. CASE sessions'[s] = NoSession
      BY <2>1, EmptyTypes DEF Holds
    <2>2. CASE sessions'[s] = sessions[s]
      <3>1. Holds(sessions[s]) /\ sessions[s] \in Session
        BY <1>0 DEF FamilyInv
      <3>2. \A x \in sessions[s].tokens : x # sessions[s].token =>
                refresh_tokens'[sessions[s].token].revoked
        BY <3>1 DEF Holds, Session, Live
      <3>3. sessions[s].op \in {"refresh", "reuse", "logout"} =>
                /\ Issued(sessions[s].token) /\ sessions[s].token \in Tokens
        BY <3>1 DEF Holds, Live
      <3>4. sessions[s].op \in {"refresh", "reuse", "logout"} =>
                /\ refresh_tokens'[sessions[s].token].user
                     = refresh_tokens[sessions[s].token].user
                /\ refresh_tokens'[sessions[s].token].user # None
        BY <3>3 DEF Issued
      <3>5. sessions[s].op = "refresh" => ~refresh_tokens'[sessions[s].token].revoked
        BY <2>2
      <3> DEFINE p == sessions[s]
      <3>6. sessions[s]' = p
        BY <2>2
      <3> HIDE DEF p
      <3>7. QED BY <3>1, <3>2, <3>3, <3>4, <3>5, <3>6 DEF Holds, Live, Issued, p
    <2>3. QED BY <2>1, <2>2
  <1>2. OneLocker'
    BY <1>0, EmptyTypes DEF FamilyInv, OneLocker
  <1>3. NoWaitCycle'
    BY <1>0, EmptyTypes DEF FamilyInv, NoWaitCycle
  <1>4. QED BY <1>1, <1>2, <1>3 DEF FamilyInv

\* A new token that begins a family: nobody else is in it.
LEMMA BeginsFamily ==
    ASSUME FamilyInv, TypeOK', NEW u \in Users, NEW k \in Tokens, ~Issued(k),
           refresh_tokens' = [refresh_tokens EXCEPT ![k] = NewToken(u, k)],
           \A s \in Sessions : sessions'[s] = sessions[s] \/ sessions'[s] = NoSession
    PROVE  FamilyInv'
  <1>0. /\ refresh_tokens \in [Tokens -> TokenRow] /\ u # None
        /\ FamiliesGrounded /\ OneLivePerFamily /\ \A s \in Sessions : Holds(sessions[s])
    BY AuthAssumption DEF FamilyInv, TypeOK
  <1>1. /\ refresh_tokens'[k].user = u /\ refresh_tokens'[k].family = k
        /\ ~refresh_tokens'[k].revoked
        /\ \A x \in Tokens \ {k} : refresh_tokens'[x] = refresh_tokens[x]
    BY <1>0, NewTokenType DEF Opt
  <1>2. FamiliesGrounded'
    BY <1>0, <1>1 DEF FamiliesGrounded, Issued
  <1>3. OneLivePerFamily'
    <2>1. \A x \in Tokens \ {k} : Issued(x) => refresh_tokens[x].family # k
      BY <1>0 DEF FamiliesGrounded
    <2>2. QED BY <1>0, <1>1, <2>1 DEF OneLivePerFamily, Live, Issued
  <1>4. \A s \in Sessions : sessions'[s].op = "refresh" =>
               ~refresh_tokens'[sessions'[s].token].revoked
    BY <1>0, <1>1, EmptyTypes DEF Holds, Live
  <1>5. QED BY <1>0, <1>1, <1>2, <1>3, <1>4, FamilyTable

\* Rotation: the new token takes the place of the one that is locked and live.
LEMMA Rotates ==
    ASSUME FamilyInv, TypeOK', NEW s \in Sessions, NEW n \in Tokens, RefreshCommit(s, n)
    PROVE  FamilyInv'
  <1> DEFINE q == sessions[s]
             f == refresh_tokens[q.token].family
  <1>0. /\ refresh_tokens \in [Tokens -> TokenRow] /\ sessions \in [Sessions -> Session]
        /\ FamiliesGrounded /\ OneLivePerFamily /\ OneLocker
        /\ \A o \in Sessions : Holds(sessions[o])
    BY DEF FamilyInv, TypeOK
  <1>1. /\ q.op = "refresh" /\ q.token \in Tokens /\ Live(q.token) /\ ~Issued(n)
        /\ q.user = refresh_tokens[q.token].user /\ q.user \in Users /\ q.user # None
    BY <1>0, AuthAssumption DEF RefreshCommit, Holds, Live, Issued, TokenRow, Opt
  <1>2. f \in Tokens /\ Issued(f) /\ n # q.token
    BY <1>0, <1>1 DEF FamiliesGrounded, Live
  <1>3. /\ refresh_tokens'[n] = NewToken(q.user, f)
        /\ refresh_tokens'[q.token] = [user |-> q.user, family |-> f, revoked |-> TRUE,
                                       expired |-> refresh_tokens[q.token].expired]
        /\ \A x \in Tokens \ {n, q.token} : refresh_tokens'[x] = refresh_tokens[x]
        /\ sessions' = [sessions EXCEPT ![s] = NoSession]
    BY <1>1, <1>2 DEF RefreshCommit
  <1>4. /\ refresh_tokens'[n].user = q.user /\ refresh_tokens'[n].family = f
        /\ ~refresh_tokens'[n].revoked
    BY <1>1, <1>2, <1>3, NewTokenType DEF Opt
  <1> HIDE DEF q, f
  <1>5. /\ refresh_tokens'[q.token].user = q.user /\ refresh_tokens'[q.token].family = f
        /\ refresh_tokens'[q.token].revoked
        /\ refresh_tokens[q.token].family = f
    BY <1>3 DEF f
  <1>6. FamiliesGrounded'
    BY <1>0, <1>1, <1>2, <1>3, <1>4, <1>5 DEF FamiliesGrounded, Issued
  <1>7. OneLivePerFamily'
    BY <1>0, <1>1, <1>2, <1>3, <1>4, <1>5 DEF OneLivePerFamily, Live, Issued
  <1>8. \A o \in Sessions : sessions'[o].op = "refresh" =>
               ~refresh_tokens'[sessions'[o].token].revoked
    <2> SUFFICES ASSUME NEW o \in Sessions, sessions'[o].op = "refresh"
                 PROVE  ~refresh_tokens'[sessions'[o].token].revoked
      OBVIOUS
    <2>1. o # s /\ sessions'[o] = sessions[o]
      BY <1>0, <1>3, EmptyTypes
    <2>2. sessions[o].token \in Tokens /\ Live(sessions[o].token)
      BY <1>0, <2>1 DEF Holds
    <2>3. sessions[o].token # q.token
      BY <1>0, <1>1, <2>1, AuthAssumption DEF OneLocker, q
    <2>4. sessions[o].token # n
      BY <1>1, <2>2 DEF Live
    <2>5. QED BY <1>3, <2>1, <2>2, <2>3, <2>4 DEF Live
  <1>9. \A k \in Tokens : Issued(k) =>
               /\ refresh_tokens'[k].user = refresh_tokens[k].user
               /\ refresh_tokens'[k].family = refresh_tokens[k].family
               /\ refresh_tokens[k].revoked => refresh_tokens'[k].revoked
    BY <1>1, <1>3, <1>5
  <1>10. \A o \in Sessions : sessions'[o] = sessions[o] \/ sessions'[o] = NoSession
    BY <1>0, <1>3
  <1>11. QED BY <1>6, <1>7, <1>8, <1>9, <1>10, FamilyTable

\* Logout: the UPDATE waits for locked tokens, so that it revokes none of them.
LEMMA LogsOut ==
    ASSUME FamilyInv, TypeOK', NEW s \in Sessions, LogoutCommit(s)
    PROVE  FamilyInv'
  <1>0. /\ refresh_tokens \in [Tokens -> TokenRow] /\ sessions \in [Sessions -> Session]
        /\ FamiliesGrounded /\ OneLivePerFamily
        /\ \A o \in Sessions : Holds(sessions[o])
    BY DEF FamilyInv, TypeOK
  <1>1. sessions' = [sessions EXCEPT ![s] = NoSession]
    BY DEF LogoutCommit
  <1>2. \A k \in Tokens :
            /\ refresh_tokens'[k].user = refresh_tokens[k].user
            /\ refresh_tokens'[k].family = refresh_tokens[k].family
            /\ refresh_tokens[k].revoked => refresh_tokens'[k].revoked
            /\ k \notin sessions[s].tokens => refresh_tokens'[k] = refresh_tokens[k]
    BY DEF LogoutCommit
  <1>3. \A o \in Sessions : sessions'[o].op = "refresh" =>
               ~refresh_tokens'[sessions'[o].token].revoked
    <2> SUFFICES ASSUME NEW o \in Sessions, sessions'[o].op = "refresh"
                 PROVE  ~refresh_tokens'[sessions'[o].token].revoked
      OBVIOUS
    <2>1. o # s /\ sessions'[o] = sessions[o]
      BY <1>0, <1>1, EmptyTypes
    <2>2. sessions[o].token \in Tokens /\ Live(sessions[o].token)
      BY <1>0, <2>1 DEF Holds
    <2>3. sessions[o].token \notin sessions[s].tokens
      BY <2>1 DEF LogoutCommit, Waits, TokenLocked
    <2>4. QED BY <1>2, <2>1, <2>2, <2>3 DEF Live
  <1>4. FamiliesGrounded' /\ OneLivePerFamily'
    BY <1>0, <1>2 DEF FamiliesGrounded, OneLivePerFamily, Live, Issued
  <1>5. \A o \in Sessions : sessions'[o] = sessions[o] \/ sessions'[o] = NoSession
    BY <1>0, <1>1
  <1>6. QED BY <1>2, <1>3, <1>4, <1>5, FamilyTable

\* Refresh, reuse detection and logout begin with the lock of the presented token.
\* The UPDATE finds another token only if the presented one is revoked, and then no
\* other UPDATE finds the presented one.
LEMMA LocksToken ==
    ASSUME FamilyInv, TypeOK', NEW s \in Sessions, NEW k \in Tokens,
           Refresh(s, k) \/ DetectReuse(s, k) \/ Logout(s, k)
    PROVE  FamilyInv'
  <1>0. /\ TypeOK /\ OneLivePerFamily /\ refresh_tokens \in [Tokens -> TokenRow]
        /\ \A o \in Sessions : Holds(sessions[o]) /\ sessions[o] \in Session
    BY DEF FamilyInv, TypeOK
  <1>1. PICK q \in Session :
             /\ Opens(s, q) /\ q.token = k
             /\ q.op \in {"refresh", "reuse", "logout"}
             /\ Issued(k) /\ ~TokenLocked(k, s)
             /\ q.op = "refresh" =>
                   Live(k) /\ q.user = refresh_tokens[k].user /\ q.tokens = {}
             /\ q.op # "refresh" => q.tokens = LiveFamily(refresh_tokens[k].family)
    BY <1>0, TokenOpenings
  <1>2. \A x \in q.tokens : Live(x) /\ x \in Tokens
                            /\ refresh_tokens[x].family = refresh_tokens[k].family
    BY <1>1 DEF LiveFamily
  <1>3. \A x \in q.tokens : x # k => refresh_tokens[k].revoked
    BY <1>0, <1>1, <1>2 DEF OneLivePerFamily, Live
  <1>4. Holds(q)
    BY <1>1, <1>3 DEF Holds
  <1>5. ASSUME NEW o \in Sessions \ {s}, sessions[o].token \in q.tokens,
               k \in sessions[o].tokens
        PROVE  FALSE
    <2>1. sessions[o].token # k
      BY <1>1, <1>5 DEF TokenLocked
    <2>2. refresh_tokens[sessions[o].token].revoked
      BY <1>0, <1>5, <2>1 DEF Holds
    <2>3. QED BY <1>2, <1>5, <2>2 DEF Live
  <1>6. QED BY <1>1, <1>4, <1>5, FamilyOpens DEF Opens

\* Every step keeps the invariant of the families.
LEMMA FamilyStep == FamilyInv /\ [Next]_vars => FamilyInv'
  <1> SUFFICES ASSUME FamilyInv, [Next]_vars
               PROVE  FamilyInv'
    OBVIOUS
  <1>1. TypeOK' /\ TypeOK
    BY TypesStep DEF FamilyInv
  <1>2. ASSUME NEW s \in Sessions, NEW q \in Session,
               refresh_tokens' = refresh_tokens, sessions' = [sessions EXCEPT ![s] = q],
               q.op \in {"idle", "accept", "reissue"}, q.token = None, q.tokens = {},
               q.op = "accept" => q.user \in Users
        PROVE  FamilyInv'
    BY <1>1, <1>2, FamilyOpens DEF Holds
  <1>3. ASSUME NEW s \in Sessions, RejectReuse(s) \/ Rollback(s)
        PROVE  FamilyInv'
    BY <1>2, <1>3, EmptyTypes DEF RejectReuse, Rollback
  <1>4. ASSUME NEW s \in Sessions, NEW i \in Invites, ReissueCommit(s, i)
        PROVE  FamilyInv'
    BY <1>2, <1>4, EmptyTypes DEF ReissueCommit
  <1>5. ASSUME NEW s \in Sessions, NEW u \in Users, ReissueRead(s, u)
        PROVE  FamilyInv'
    <2>1. OutstandingOf(u) \in SUBSET Invites
      BY DEF OutstandingOf
    <2> DEFINE q == [op |-> "reissue", user |-> u, token |-> None, invite |-> None,
                     tokens |-> {}, invites |-> OutstandingOf(u)]
    <2>2. q \in Session
      BY <2>1 DEF Session, Opt
    <2>3. QED BY <1>2, <1>5, <2>2 DEF ReissueRead
  <1>6. ASSUME NEW s \in Sessions, NEW i \in Invites, AcceptLock(s, i)
        PROVE  FamilyInv'
    <2> DEFINE q == [op |-> "accept", user |-> invite_tokens[i].user, token |-> None,
                     invite |-> i, tokens |-> {}, invites |-> {}]
    <2>1. invite_tokens[i].user \in Users
      BY <1>1, <1>6 DEF AcceptLock, Outstanding, TypeOK, InviteRow, Opt
    <2>2. q \in Session
      BY <2>1 DEF Session, Opt
    <2>3. QED BY <1>2, <1>6, <2>1, <2>2 DEF AcceptLock
  <1>7. ASSUME NEW s \in Sessions, NEW k \in Tokens, AcceptCommit(s, k)
        PROVE  FamilyInv'
    <2>1. sessions[s].user \in Users
      BY <1>7 DEF AcceptCommit, FamilyInv, Holds
    <2>2. \A o \in Sessions : sessions'[o] = sessions[o] \/ sessions'[o] = NoSession
      BY <1>1, <1>7 DEF AcceptCommit, TypeOK
    <2>3. QED BY <1>1, <1>7, <2>1, <2>2, BeginsFamily DEF AcceptCommit
  <1>8. ASSUME NEW u \in Users, NEW k \in Tokens, Login(u, k)
        PROVE  FamilyInv'
    BY <1>1, <1>8, BeginsFamily DEF Login
  <1>9. ASSUME NEW k \in Tokens, ExpireToken(k)
        PROVE  FamilyInv'
    <2>1. /\ sessions' = sessions
          /\ \A x \in Tokens : /\ refresh_tokens'[x].user = refresh_tokens[x].user
                               /\ refresh_tokens'[x].family = refresh_tokens[x].family
                               /\ refresh_tokens'[x].revoked = refresh_tokens[x].revoked
      BY <1>1, <1>9 DEF ExpireToken, TypeOK
    <2>2. FamiliesGrounded' /\ OneLivePerFamily'
      BY <2>1 DEF FamilyInv, FamiliesGrounded, OneLivePerFamily, Live, Issued
    <2>3. \A s \in Sessions : sessions'[s].op = "refresh" =>
               ~refresh_tokens'[sessions'[s].token].revoked
      BY <2>1 DEF FamilyInv, Holds, Live
    <2>4. QED BY <1>1, <2>1, <2>2, <2>3, FamilyTable
  <1>10. ASSUME UNCHANGED <<refresh_tokens, sessions>>
         PROVE  FamilyInv'
    BY <1>1, <1>10
    DEF FamilyInv, FamiliesGrounded, Holds, OneLocker, OneLivePerFamily, NoWaitCycle, Live,
        Issued
  <1>11. ASSUME NEW u \in Users, NEW i \in Invites, InviteUser(u, i)
         PROVE  FamilyInv'
    BY <1>10, <1>11 DEF InviteUser
  <1>12. ASSUME NEW u \in Users, DisableUser(u)
         PROVE  FamilyInv'
    BY <1>10, <1>12 DEF DisableUser
  <1>13. ASSUME NEW i \in Invites, ExpireInvite(i)
         PROVE  FamilyInv'
    BY <1>10, <1>13 DEF ExpireInvite
  <1>14. CASE UNCHANGED vars
    BY <1>10, <1>14 DEF vars
  <1>15. QED
    BY <1>1, <1>3, <1>4, <1>5, <1>6, <1>7, <1>8, <1>9, <1>11, <1>12, <1>13, <1>14,
       Rotates, LogsOut, LocksToken
    DEF Next

\* At the start there are no tokens and no requests.
LEMMA FamilyInit == Init => FamilyInv
  <1> SUFFICES ASSUME Init
               PROVE  FamilyInv
    OBVIOUS
  <1>1. TypeOK
    BY EmptyTypes DEF Init, TypeOK
  <1>2. FamiliesGrounded /\ OneLivePerFamily
    BY EmptyTypes DEF Init, FamiliesGrounded, OneLivePerFamily, Live, Issued
  <1>3. OneLocker /\ NoWaitCycle /\ \A s \in Sessions : Holds(sessions[s])
    BY EmptyTypes DEF Init, OneLocker, NoWaitCycle, Holds
  <1>4. QED BY <1>1, <1>2, <1>3 DEF FamilyInv

-----------------------------------------------------------------------------
(* Invitations. *)

\* What a step that writes users or invitations has to keep.  A user who has a row
\* keeps one, an invitation keeps its user, and what an open request knows stays
\* true.
LEMMA InviteTable ==
    ASSUME InviteInv, TypeOK', InvitesGrounded', OneOutstanding', OneUsedInvite',
           \A u \in Users : status[u] # "absent" => status'[u] # "absent",
           \A i \in Invites : invite_tokens[i].user # None =>
               invite_tokens'[i].user = invite_tokens[i].user,
           \A s \in Sessions : sessions'[s] = sessions[s] \/ sessions'[s] = NoSession,
           \A s \in Sessions : sessions'[s].op = "accept" =>
               /\ invite_tokens'[sessions[s].invite] = invite_tokens[sessions[s].invite]
               /\ \A x \in Invites : invite_tokens'[x].used =>
                      invite_tokens'[x].user # sessions[s].user
    PROVE  InviteInv'
  <1>0. sessions \in [Sessions -> Session] /\ invite_tokens \in [Invites -> InviteRow]
    BY DEF InviteInv, TypeOK
  <1>1. OneAccepter'
    BY <1>0, EmptyTypes DEF InviteInv, OneAccepter
  <1>2. \A s \in Sessions : Knows(sessions[s])'
    <2> SUFFICES ASSUME NEW s \in Sessions
                 PROVE  Knows(sessions[s])'
      OBVIOUS
    <2>1. CASE sessions'[s] = NoSession
      BY <2>1, EmptyTypes DEF Knows
    <2>2. CASE sessions'[s] = sessions[s]
      <3> DEFINE p == sessions[s]
      <3>1. Knows(p) /\ p \in Session
        BY <1>0 DEF InviteInv
      <3>2. p.op = "accept" =>
                /\ invite_tokens'[p.invite] = invite_tokens[p.invite]
                /\ \A x \in Invites : invite_tokens'[x].used => invite_tokens'[x].user # p.user
        BY <2>2
      <3>3. sessions[s]' = p
        BY <2>2
      <3> HIDE DEF p
      <3>4. p.op = "reissue" => \A x \in p.invites :
                x \in Invites /\ invite_tokens'[x].user = p.user
        BY <1>0, <3>1, AuthAssumption DEF Knows, Session
      <3>5. QED BY <3>1, <3>2, <3>3, <3>4 DEF Knows, Outstanding
    <2>3. QED BY <2>1, <2>2
  <1>3. QED BY <1>1, <1>2 DEF InviteInv

\* A step on one request that writes neither users nor invitations.
LEMMA InviteOpens ==
    ASSUME InviteInv, TypeOK', UNCHANGED <<status, invite_tokens>>,
           NEW s \in Sessions, NEW q \in Session,
           sessions' = [sessions EXCEPT ![s] = q],
           Knows(q), q.invite # None => ~InviteLocked(q.invite, s)
    PROVE  InviteInv'
  <1>0. sessions \in [Sessions -> Session]
    BY DEF InviteInv, TypeOK
  <1>1. InvitesGrounded' /\ OneOutstanding' /\ OneUsedInvite'
    BY DEF InviteInv, InvitesGrounded, OneOutstanding, OneUsedInvite, Outstanding
  <1>2. \A o \in Sessions : Knows(sessions[o])'
    <2> SUFFICES ASSUME NEW o \in Sessions
                 PROVE  Knows(sessions[o])'
      OBVIOUS
    <2>1. CASE o = s
      BY <1>0, <2>1 DEF Knows, Outstanding
    <2>2. CASE o # s
      BY <1>0, <2>2 DEF InviteInv, Knows, Outstanding
    <2>3. QED BY <2>1, <2>2
  <1>3. OneAccepter'
    BY <1>0 DEF InviteInv, OneAccepter, InviteLocked
  <1>4. QED BY <1>1, <1>2, <1>3 DEF InviteInv

\* reissue_invite: its UPDATE waits for accepts, revokes every outstanding
\* invitation of the user, or the unique index refuses the new one.
LEMMA Reissues ==
    ASSUME InviteInv, TypeOK', NEW s \in Sessions, NEW i \in Invites, ReissueCommit(s, i)
    PROVE  InviteInv'
  <1> DEFINE q == sessions[s]
  <1>0. /\ sessions \in [Sessions -> Session] /\ invite_tokens \in [Invites -> InviteRow]
        /\ InvitesGrounded /\ OneOutstanding /\ OneUsedInvite
        /\ \A o \in Sessions : Knows(sessions[o])
    BY DEF InviteInv, TypeOK
  <1>1. /\ q.op = "reissue" /\ OutstandingOf(q.user) \subseteq q.invites
        /\ \A x \in q.invites : ~InviteLocked(x, s)
        /\ invite_tokens[i].user = None
        /\ sessions' = [sessions EXCEPT ![s] = NoSession]
        /\ status' = status
    BY DEF ReissueCommit
  <1>2. /\ q.user \in Users /\ q.user # None /\ status[q.user] # "absent"
        /\ \A x \in q.invites : x \in Invites /\ invite_tokens[x].user = q.user
    BY <1>0, <1>1, AuthAssumption DEF Knows, Session
  <1>3. /\ invite_tokens'[i] = NewInvite(q.user)
        /\ \A x \in Invites \ {i} :
              IF x \in q.invites /\ Outstanding(x)
              THEN invite_tokens'[x] = [user |-> q.user, used |-> FALSE, revoked |-> TRUE,
                                        expired |-> invite_tokens[x].expired]
              ELSE invite_tokens'[x] = invite_tokens[x]
    BY DEF ReissueCommit
  <1>4. /\ invite_tokens'[i].user = q.user /\ ~invite_tokens'[i].used
        /\ ~invite_tokens'[i].revoked
    BY <1>2, <1>3, NewInviteType DEF Opt
  <1> HIDE DEF q
  <1>5. \A x \in Invites \ {i} :
            /\ invite_tokens'[x].user = invite_tokens[x].user
            /\ invite_tokens'[x].used = invite_tokens[x].used
            /\ IF x \in q.invites /\ Outstanding(x) THEN invite_tokens'[x].revoked
               ELSE invite_tokens'[x] = invite_tokens[x]
    <2> SUFFICES ASSUME NEW x \in Invites \ {i}
                 PROVE  /\ invite_tokens'[x].user = invite_tokens[x].user
                        /\ invite_tokens'[x].used = invite_tokens[x].used
                        /\ IF x \in q.invites /\ Outstanding(x) THEN invite_tokens'[x].revoked
                           ELSE invite_tokens'[x] = invite_tokens[x]
      OBVIOUS
    <2>1. CASE x \in q.invites /\ Outstanding(x)
      <3>1. invite_tokens[x].user = q.user /\ invite_tokens[x].used = FALSE
        BY <1>0, <1>2, <2>1 DEF Outstanding, InviteRow
      <3>2. invite_tokens'[x] = [user |-> q.user, used |-> FALSE, revoked |-> TRUE,
                                 expired |-> invite_tokens[x].expired]
        BY <1>3, <2>1
      <3>3. /\ invite_tokens'[x].user = q.user /\ invite_tokens'[x].used = FALSE
            /\ invite_tokens'[x].revoked = TRUE
        BY <3>2
      <3>4. invite_tokens'[x].revoked
        BY <3>3, Zenon
      <3>5. QED BY <2>1, <3>1, <3>3, <3>4, Zenon
    <2>2. CASE ~(x \in q.invites /\ Outstanding(x))
      BY <1>3, <2>2
    <2>3. QED BY <2>1, <2>2
  <1>6. InvitesGrounded'
    BY <1>0, <1>1, <1>2, <1>4, <1>5 DEF InvitesGrounded
  <1>7. \A x \in Invites \ {i} : invite_tokens[x].user = q.user =>
            invite_tokens'[x].used \/ invite_tokens'[x].revoked
    BY <1>1, <1>2, <1>5 DEF OutstandingOf, Outstanding
  <1>8. OneOutstanding'
    BY <1>0, <1>4, <1>5, <1>7 DEF OneOutstanding, Outstanding
  <1>9. OneUsedInvite'
    BY <1>0, <1>4, <1>5 DEF OneUsedInvite
  <1>10. ASSUME NEW o \in Sessions, sessions'[o].op = "accept"
         PROVE  /\ invite_tokens'[sessions[o].invite] = invite_tokens[sessions[o].invite]
                /\ \A x \in Invites : invite_tokens'[x].used =>
                       invite_tokens'[x].user # sessions[o].user
    <2>1. o # s /\ sessions'[o] = sessions[o]
      BY <1>0, <1>1, <1>10, EmptyTypes
    <2>2. /\ sessions[o].invite \in Invites /\ Outstanding(sessions[o].invite)
          /\ \A x \in Invites : invite_tokens[x].used =>
                 invite_tokens[x].user # sessions[o].user
      BY <1>0, <1>10, <2>1 DEF Knows
    <2>3. sessions[o].invite \notin q.invites
      BY <1>1, <2>1 DEF InviteLocked
    <2>4. sessions[o].invite # i
      BY <1>1, <2>2 DEF Outstanding
    <2>5. QED BY <1>4, <1>5, <2>2, <2>3, <2>4
  <1>11. \A o \in Sessions : sessions'[o] = sessions[o] \/ sessions'[o] = NoSession
    BY <1>0, <1>1
  <1>12. \A x \in Invites : invite_tokens[x].user # None =>
               invite_tokens'[x].user = invite_tokens[x].user
    BY <1>1, <1>5
  <1>13. QED BY <1>1, <1>6, <1>8, <1>9, <1>10, <1>11, <1>12, InviteTable

\* accept_invite: the invitation it holds is the only outstanding one of a user who
\* has used none; no other accept holds one of the same user.
LEMMA Accepts ==
    ASSUME InviteInv, TypeOK', NEW s \in Sessions, NEW k \in Tokens, AcceptCommit(s, k)
    PROVE  InviteInv'
  <1> DEFINE q == sessions[s]
             i == q.invite
  <1>0. /\ sessions \in [Sessions -> Session] /\ invite_tokens \in [Invites -> InviteRow]
        /\ status \in [Users -> {"absent", "pending", "active", "disabled"}]
        /\ InvitesGrounded /\ OneOutstanding /\ OneUsedInvite /\ OneAccepter
        /\ \A o \in Sessions : Knows(sessions[o])
    BY DEF InviteInv, TypeOK
  <1>1. /\ q.op = "accept"
        /\ sessions' = [sessions EXCEPT ![s] = NoSession]
        /\ status' = [status EXCEPT ![q.user] = "active"]
    BY DEF AcceptCommit
  <1>2. /\ q.user \in Users /\ q.user # None /\ i \in Invites /\ Outstanding(i) /\ i # None
        /\ invite_tokens[i].user = q.user
        /\ \A x \in Invites : invite_tokens[x].used => invite_tokens[x].user # q.user
    BY <1>0, <1>1, AuthAssumption DEF Knows
  <1>3. /\ invite_tokens'[i].user = q.user /\ invite_tokens'[i].used
        /\ \A x \in Invites \ {i} : invite_tokens'[x] = invite_tokens[x]
    BY <1>0, <1>2 DEF AcceptCommit
  <1> HIDE DEF q, i
  <1>4. InvitesGrounded'
    BY <1>0, <1>1, <1>2, <1>3 DEF InvitesGrounded, InviteRow, Opt
  <1>5. OneOutstanding'
    BY <1>0, <1>3 DEF OneOutstanding, Outstanding
  <1>6. OneUsedInvite'
    BY <1>0, <1>2, <1>3 DEF OneUsedInvite
  <1>7. ASSUME NEW o \in Sessions, sessions'[o].op = "accept"
        PROVE  /\ invite_tokens'[sessions[o].invite] = invite_tokens[sessions[o].invite]
               /\ \A x \in Invites : invite_tokens'[x].used =>
                      invite_tokens'[x].user # sessions[o].user
    <2>1. o # s /\ sessions'[o] = sessions[o]
      BY <1>0, <1>1, <1>7, EmptyTypes
    <2>2. /\ sessions[o].invite \in Invites /\ Outstanding(sessions[o].invite)
          /\ invite_tokens[sessions[o].invite].user = sessions[o].user
          /\ \A x \in Invites : invite_tokens[x].used =>
                 invite_tokens[x].user # sessions[o].user
      BY <1>0, <1>7, <2>1 DEF Knows
    <2>3. sessions[o].invite # i
      BY <1>0, <1>2, <2>1 DEF OneAccepter, i, q
    <2>4. sessions[o].user # q.user
      BY <1>0, <1>2, <2>2, <2>3 DEF OneOutstanding
    <2>5. QED BY <1>3, <2>2, <2>3, <2>4
  <1>8. \A o \in Sessions : sessions'[o] = sessions[o] \/ sessions'[o] = NoSession
    BY <1>0, <1>1
  <1>9. \A x \in Invites : invite_tokens[x].user # None =>
               invite_tokens'[x].user = invite_tokens[x].user
    BY <1>2, <1>3
  <1>10. \A u \in Users : status[u] # "absent" => status'[u] # "absent"
    BY <1>0, <1>1, <1>2
  <1>11. QED BY <1>4, <1>5, <1>6, <1>7, <1>8, <1>9, <1>10, InviteTable

\* Every step keeps the invariant of the invitations.
LEMMA InviteStep == InviteInv /\ FamilyInv /\ [Next]_vars => InviteInv'
  <1> SUFFICES ASSUME InviteInv, FamilyInv, [Next]_vars
               PROVE  InviteInv'
    OBVIOUS
  <1>1. /\ TypeOK' /\ TypeOK
        /\ status \in [Users -> {"absent", "pending", "active", "disabled"}]
        /\ invite_tokens \in [Invites -> InviteRow] /\ sessions \in [Sessions -> Session]
    BY TypesStep DEF FamilyInv, TypeOK
  <1>2. ASSUME NEW s \in Sessions, sessions' = [sessions EXCEPT ![s] = NoSession],
               UNCHANGED <<status, invite_tokens>>
        PROVE  InviteInv'
    BY <1>1, <1>2, EmptyTypes, InviteOpens DEF Knows
  <1>3. ASSUME NEW s \in Sessions,
               \/ RejectReuse(s) \/ LogoutCommit(s) \/ Rollback(s)
               \/ \E n \in Tokens : RefreshCommit(s, n)
        PROVE  InviteInv'
    BY <1>2, <1>3 DEF RejectReuse, LogoutCommit, Rollback, RefreshCommit
  <1>4. ASSUME NEW s \in Sessions, NEW k \in Tokens,
               Refresh(s, k) \/ DetectReuse(s, k) \/ Logout(s, k)
        PROVE  InviteInv'
    <2>1. PICK q \in Session :
             Opens(s, q) /\ q.invite = None /\ q.op \in {"refresh", "reuse", "logout"}
      BY <1>1, <1>4, TokenOpenings
    <2>2. Knows(q)
      BY <2>1 DEF Knows
    <2>3. QED BY <1>1, <2>1, <2>2, InviteOpens DEF Opens
  <1>5. ASSUME NEW s \in Sessions, NEW u \in Users, ReissueRead(s, u)
        PROVE  InviteInv'
    <2> DEFINE q == [op |-> "reissue", user |-> u, token |-> None, invite |-> None,
                     tokens |-> {}, invites |-> OutstandingOf(u)]
    <2>1. OutstandingOf(u) \in SUBSET Invites
          /\ \A x \in OutstandingOf(u) : invite_tokens[x].user = u
      BY DEF OutstandingOf
    <2>2. q \in Session
      BY <2>1 DEF Session, Opt
    <2>3. Knows(q)
      BY <1>5, <2>1 DEF ReissueRead, Knows
    <2>4. QED BY <1>1, <1>5, <2>2, <2>3, InviteOpens DEF ReissueRead
  <1>6. ASSUME NEW s \in Sessions, NEW i \in Invites, AcceptLock(s, i)
        PROVE  InviteInv'
    <2> DEFINE q == [op |-> "accept", user |-> invite_tokens[i].user, token |-> None,
                     invite |-> i, tokens |-> {}, invites |-> {}]
    <2>1. invite_tokens[i].user \in Users /\ invite_tokens[i].user # None
      BY <1>1, <1>6 DEF AcceptLock, Outstanding, InviteRow, Opt
    <2>2. q \in Session
      BY <2>1 DEF Session, Opt
    <2>3. \A x \in Invites : invite_tokens[x].used =>
                invite_tokens[x].user # invite_tokens[i].user
      BY <1>6, <2>1 DEF AcceptLock, InviteInv, InvitesGrounded
    <2>4. Knows(q)
      BY <1>6, <2>1, <2>3 DEF AcceptLock, Knows
    <2>5. QED BY <1>1, <1>6, <2>2, <2>4, InviteOpens DEF AcceptLock
  <1>7. ASSUME NEW u \in Users, NEW i \in Invites, InviteUser(u, i)
        PROVE  InviteInv'
    <2>1. /\ invite_tokens' = [invite_tokens EXCEPT ![i] = NewInvite(u)]
          /\ status' = [status EXCEPT ![u] = "pending"] /\ sessions' = sessions
          /\ status[u] = "absent" /\ invite_tokens[i].user = None /\ u # None
      BY <1>7, AuthAssumption DEF InviteUser
    <2>2. /\ invite_tokens'[i].user = u /\ ~invite_tokens'[i].used
          /\ \A x \in Invites \ {i} : invite_tokens'[x] = invite_tokens[x]
      BY <1>1, <2>1, NewInviteType DEF Opt
    <2>3. \A x \in Invites : invite_tokens[x].user # u
      BY <2>1 DEF InviteInv, InvitesGrounded
    <2>4. InvitesGrounded'
      BY <1>1, <2>1, <2>2, <2>3 DEF InviteInv, InvitesGrounded, InviteRow, Opt
    <2>5. OneOutstanding' /\ OneUsedInvite'
      BY <2>2, <2>3 DEF InviteInv, OneOutstanding, OneUsedInvite, Outstanding
    <2>6. ASSUME NEW s \in Sessions, sessions[s].op = "accept"
          PROVE  /\ invite_tokens'[sessions[s].invite] = invite_tokens[sessions[s].invite]
                 /\ \A x \in Invites : invite_tokens'[x].used =>
                        invite_tokens'[x].user # sessions[s].user
      <3>1. /\ sessions[s].invite \in Invites /\ sessions[s].invite # i
            /\ \A x \in Invites : invite_tokens[x].used =>
                   invite_tokens[x].user # sessions[s].user
        BY <2>1, <2>6 DEF InviteInv, Knows, Outstanding
      <3>2. QED BY <2>2, <3>1
    <2>7. /\ \A v \in Users : status[v] # "absent" => status'[v] # "absent"
          /\ \A x \in Invites : invite_tokens[x].user # None =>
               invite_tokens'[x].user = invite_tokens[x].user
      BY <1>1, <2>1, <2>2
    <2>8. QED BY <1>1, <2>1, <2>4, <2>5, <2>6, <2>7, InviteTable
  <1>8. ASSUME NEW u \in Users, DisableUser(u)
        PROVE  InviteInv'
    <2>1. /\ status' = [status EXCEPT ![u] = "disabled"]
          /\ invite_tokens' = invite_tokens /\ sessions' = sessions
      BY <1>8 DEF DisableUser
    <2>2. InvitesGrounded' /\ OneOutstanding' /\ OneUsedInvite'
      BY <1>1, <2>1
      DEF InviteInv, InvitesGrounded, OneOutstanding, OneUsedInvite, Outstanding, InviteRow, Opt
    <2>3. /\ \A v \in Users : status[v] # "absent" => status'[v] # "absent"
          /\ \A s \in Sessions : sessions'[s].op = "accept" =>
               \A x \in Invites : invite_tokens[x].used =>
                   invite_tokens[x].user # sessions[s].user
      BY <1>1, <2>1 DEF InviteInv, Knows
    <2>4. QED BY <1>1, <2>1, <2>2, <2>3, InviteTable
  <1>9. ASSUME NEW i \in Invites, ExpireInvite(i)
        PROVE  InviteInv'
    <2>1. /\ status' = status /\ sessions' = sessions
          /\ \A x \in Invites : /\ invite_tokens'[x].user = invite_tokens[x].user
                                /\ invite_tokens'[x].used = invite_tokens[x].used
                                /\ invite_tokens'[x].revoked = invite_tokens[x].revoked
      BY <1>1, <1>9 DEF ExpireInvite
    <2>2. QED
      BY <1>1, <2>1, AuthAssumption
      DEF InviteInv, InvitesGrounded, OneOutstanding, OneUsedInvite, OneAccepter, Outstanding,
          Knows, Session
  <1>10. ASSUME UNCHANGED <<status, invite_tokens, sessions>>
         PROVE  InviteInv'
    BY <1>1, <1>10
    DEF InviteInv, InvitesGrounded, OneOutstanding, OneUsedInvite, OneAccepter, Outstanding,
        Knows
  <1>11. ASSUME NEW u \in Users, NEW k \in Tokens, Login(u, k)
         PROVE  InviteInv'
    BY <1>10, <1>11 DEF Login
  <1>12. ASSUME NEW k \in Tokens, ExpireToken(k)
         PROVE  InviteInv'
    BY <1>10, <1>12 DEF ExpireToken
  <1>13. CASE UNCHANGED vars
    BY <1>10, <1>13 DEF vars
  <1>14. QED
    BY <1>1, <1>3, <1>4, <1>5, <1>6, <1>7, <1>8, <1>9, <1>11, <1>12, <1>13, Reissues, Accepts
    DEF Next

\* At the start there are no users and no invitations.
LEMMA InviteInit == Init => InviteInv
  <1> SUFFICES ASSUME Init
               PROVE  InviteInv
    OBVIOUS
  <1>1. TypeOK
    BY FamilyInit DEF FamilyInv
  <1>2. InvitesGrounded /\ OneOutstanding /\ OneUsedInvite
    BY EmptyTypes DEF Init, InvitesGrounded, OneOutstanding, OneUsedInvite, Outstanding
  <1>3. OneAccepter /\ \A s \in Sessions : Knows(sessions[s])
    BY EmptyTypes DEF Init, OneAccepter, Knows
  <1>4. QED BY <1>1, <1>2, <1>3 DEF InviteInv

-----------------------------------------------------------------------------

\* Every table and every request keeps its shape.
THEOREM AuthTypes == Spec => []TypeOK
  <1>1. FamilyInv => TypeOK
    BY DEF FamilyInv
  <1>2. QED BY <1>1, FamilyInit, FamilyStep, PTL DEF Spec

\* (services/auth_service.py, refresh) Rotation never forks: a family has at most
\* one token that is not revoked, however many requests present it at once.
THEOREM RotationNeverForks == Spec => []OneLivePerFamily
  <1>1. FamilyInv => OneLivePerFamily
    BY DEF FamilyInv
  <1>2. QED BY <1>1, FamilyInit, FamilyStep, PTL DEF Spec

\* (services/auth_service.py, refresh and logout) The UPDATE of a family waits for
\* no request that waits for it: of two tokens of a family one is revoked, and the
\* UPDATE does not look for revoked ones.
THEOREM FamiliesNeverDeadlock == Spec => []NoWaitCycle
  <1>1. FamilyInv => NoWaitCycle
    BY DEF FamilyInv
  <1>2. QED BY <1>1, FamilyInit, FamilyStep, PTL DEF Spec

\* (services/auth_service.py, accept_invite and reissue_invite) Reissued, raced and
\* repeated accepts never consume two invitations of one user.
THEOREM OneInvitationIsUsed == Spec => []OneUsedInvite
  <1>1. InviteInv => OneUsedInvite
    BY DEF InviteInv
  <1>2. QED
    BY <1>1, FamilyInit, FamilyStep, InviteInit, InviteStep, PTL DEF Spec

\* (services/auth_service.py, rotate) A refresh holds a live token of the user it
\* answers until it ends: nobody revokes or rotates a token under it.
THEOREM LockedTokensStayLive ==
    Spec => [](\A s \in Sessions : sessions[s].op = "refresh" => Live(sessions[s].token))
  <1>1. FamilyInv => \A s \in Sessions : sessions[s].op = "refresh" => Live(sessions[s].token)
    BY DEF FamilyInv, Holds
  <1>2. QED BY <1>1, FamilyInit, FamilyStep, PTL DEF Spec

=============================================================================
