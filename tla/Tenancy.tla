------------------------------- MODULE Tenancy -------------------------------
(***************************************************************************)
(* Several organizations in one database: their users, properties,         *)
(* contracts and the parties of their tickets.                             *)
(*                                                                         *)
(* Nothing but the repositories keeps the organizations apart.  A request  *)
(* loads its principal, freezes organization, user and role in an OrgScope *)
(* and runs every query under it; contracts and tickets have no foreign    *)
(* key that would compare organizations.  No row is locked: the principal  *)
(* is read, later the rows the request refers to, later the new values are *)
(* flushed and committed, and other requests commit in between.            *)
(*                                                                         *)
(* A request that is refused (401, 403, 404, 422) ends before it writes.   *)
(* What the ORM flushes is the columns that differ from the loaded ones.   *)
(* Names, addresses, property types and dates are not kept, so that the    *)
(* PATCH of a property changes nothing here, and of the taxonomy, the      *)
(* status and the messages of a ticket see TicketLifecycle and Taxonomy.   *)
(***************************************************************************)
CONSTANTS
    Orgs,        \* organizations
    Users,       \* users with an organization; a super-admin has no scope
    Home,        \* users.organization_id, which no operation changes
    StartRole,   \* their roles at the start
    Properties,  \* ids of properties
    Contracts,   \* ids of contracts
    Tickets,     \* ids of tickets
    Requests,    \* requests and jobs that may run at the same time
    UserEdits,   \* the PATCHes and DELETEs of users the admins send
    None         \* SQL NULL, an absent row

Roles == {"tenant", "owner", "agent", "admin"}

STAFF_ROLES == {"agent", "admin"}

\* EXPIRED and TERMINATED are treated alike everywhere.
ContractStatus == {"active", "terminated"}

ASSUME TenancyAssumption ==
    /\ Home \in [Users -> Orgs]
    /\ StartRole \in [Users -> Roles]
    /\ UserEdits \subseteq [user: Users, to: Roles \cup {"disabled"}]
    /\ None \notin Orgs \cup Users \cup Properties \cup Contracts \cup Tickets

Opt(S) == S \cup {None}

UserRow == [role: Roles, active: BOOLEAN]

PropertyRow == [org: Orgs, owner: Users, deleted: BOOLEAN]

ContractRow == [property: Properties, tenant: Users, status: ContractStatus]

TicketRow == [org: Orgs, user: Users, property: Opt(Properties),
              contract: Opt(Contracts), agent: Opt(Users)]

OrgScope == [org: Orgs, user: Users, role: Roles]

(* What a request has decided to write: a new row, or one column of a row. *)
Write ==
         [op: {"add_property"}, id: Properties, value: PropertyRow]
    \cup [op: {"delete_property"}, id: Properties, value: {TRUE}]
    \cup [op: {"add_contract"}, id: Contracts, value: ContractRow]
    \cup [op: {"contract_status"}, id: Contracts, value: ContractStatus]
    \cup [op: {"user_role"}, id: Users, value: Roles]
    \cup [op: {"disable_user"}, id: Users, value: {FALSE}]
    \cup [op: {"add_ticket"}, id: Tickets, value: TicketRow]
    \cup [op: {"assign_agent"}, id: Tickets, value: Users]

(* via: where the request came in; scope: its OrgScope; write: what it will do. *)
Request == [via: {"idle", "api", "chat", "mail"}, scope: Opt(OrgScope),
            write: Opt(Write)]

\* NULL is no row of a table, no scope and no write.
ASSUME NoneAssumption ==
    None \notin PropertyRow \cup ContractRow \cup TicketRow \cup OrgScope \cup Write

NoRequest == [via |-> "idle", scope |-> None, write |-> None]

VARIABLES
    users,       \* role and status of each user
    properties,  \* the table
    contracts,   \* the table
    tickets,     \* the table: organization and parties of each ticket
    requests     \* what runs at the moment

vars == <<users, properties, contracts, tickets, requests>>

Init ==
    /\ users = [u \in Users |-> [role |-> StartRole[u], active |-> TRUE]]
    /\ properties = [p \in Properties |-> None]
    /\ contracts = [c \in Contracts |-> None]
    /\ tickets = [t \in Tickets |-> None]
    /\ requests = [r \in Requests |-> NoRequest]

-----------------------------------------------------------------------------
(* What a scope reaches: the select() of the repositories. *)

\* from_principal
Principal(u) == [org |-> Home[u], user |-> u, role |-> users[u].role]

\* UserRepository
UserInScope(s, u) == Home[u] = s.org

\* PropertyRepository: not the soft-deleted ones.
PropertyInScope(s, p) ==
    /\ properties[p] # None
    /\ properties[p].org = s.org
    /\ ~properties[p].deleted

\* ContractRepository: through the property, deleted or not.
ContractInScope(s, c) ==
    /\ contracts[c] # None
    /\ properties[contracts[c].property].org = s.org

\* Mutant: an owner no longer reaches a property that is deleted.
OwnsLive(s, p) == properties[p].owner = s.user /\ ~properties[p].deleted

\* The owner's clause of TicketRepository.select.
Owns(s, p) == properties[p].owner = s.user

\* TicketRepository: Rule C, for a row that may be one's own uncommitted one.
Sees(s, row) ==
    /\ row.org = s.org
    /\ \/ s.role \in STAFF_ROLES
       \/ /\ s.role = "tenant"
          /\ \/ row.user = s.user
             \/ /\ row.contract # None
                /\ contracts[row.contract].tenant = s.user
       \/ /\ s.role = "owner"
          /\ row.property # None
          /\ Owns(s, row.property)

\* The contracts from which the chatbot's create_ticket picks.
ActiveContractsForCaller(s) ==
    {c \in Contracts : /\ ContractInScope(s, c)
                       /\ contracts[c].tenant = s.user
                       /\ contracts[c].status = "active"}

-----------------------------------------------------------------------------
(* A request finds out who its caller is. *)

Identify(r, via, s) ==
    /\ requests[r].via = "idle"
    /\ requests' = [requests EXCEPT ![r] = [via |-> via, scope |-> s, write |-> None]]
    /\ UNCHANGED <<users, properties, contracts, tickets>>

\* The Bearer token of an API request.
GetPrincipal(r, u) == users[u].active /\ Identify(r, "api", Principal(u))

\* A chat turn with a Bearer token.
ResolveBearerScope(r, u) == users[u].active /\ Identify(r, "chat", Principal(u))

\* The claims of the token that create_chat_session returns: the widget of any
\* organization o opens a session for whoever is signed in.
ChatClaims(u, o) == [org |-> o, user |-> u, role |-> "tenant"]

\* A chat turn with an X-Chat-Session token.  The claims are taken as they were
\* when the session was opened (every user is active at the start), u is not loaded.
ResolveChatTokenScope(r, u, o) == Identify(r, "chat", ChatClaims(u, o))

\* A WhatsApp turn: the user of the session, whatever their status.
ProcessWhatsAppMessage(r, u) == Identify(r, "chat", Principal(u))

\* A mail: its sender, whatever their status.  A sender who is known in another
\* organization is refused (CrossOrgSenderConflict).
IngestInboundEmail(r, u) == Identify(r, "mail", Principal(u))

-----------------------------------------------------------------------------
(* The request reads what it refers to and decides what to write. *)

Decide(r, op, id, value) ==
    /\ requests[r].via # "idle" /\ requests[r].write = None
    /\ requests' = [requests EXCEPT ![r].write =
                        [op |-> op, id |-> id, value |-> value]]
    /\ UNCHANGED <<users, properties, contracts, tickets>>

\* require_org_admin
RequireOrgAdmin(r) ==
    requests[r].via = "api" /\ requests[r].scope.role = "admin"

\* An id that no row and no open transaction has.
Unused(op, id) ==
    \A r \in Requests : requests[r].write # None =>
        ~(requests[r].write.op = op /\ requests[r].write.id = id)

CreateProperty(r, p, u) ==
    LET s == requests[r].scope IN
    /\ UserInScope(s, u) /\ users[u].role = "owner"
    /\ properties[p] = None /\ Unused("add_property", p)
    /\ Decide(r, "add_property", p, [org |-> s.org, owner |-> u, deleted |-> FALSE])

DeleteProperty(r, p) ==
    /\ PropertyInScope(requests[r].scope, p)
    /\ Decide(r, "delete_property", p, TRUE)

CreateContract(r, c, p, u) ==
    LET s == requests[r].scope IN
    /\ PropertyInScope(s, p)
    /\ UserInScope(s, u) /\ users[u].role = "tenant"
    /\ contracts[c] = None /\ Unused("add_contract", c)
    /\ Decide(r, "add_contract", c,
              [property |-> p, tenant |-> u, status |-> "active"])

UpdateContract(r, c, status) ==
    /\ ContractInScope(requests[r].scope, c)
    /\ contracts[c].status # status
    /\ Decide(r, "contract_status", c, status)

UpdateUser(r, e) ==
    /\ UserInScope(requests[r].scope, e.user)
    /\ e.to \in Roles \ {users[e.user].role}
    /\ Decide(r, "user_role", e.user, e.to)

DisableUser(r, e) ==
    /\ UserInScope(requests[r].scope, e.user)
    /\ e.to = "disabled" /\ users[e.user].active
    /\ Decide(r, "disable_user", e.user, FALSE)

AddTicket(r, t, p, c) ==
    /\ tickets[t] = None /\ Unused("add_ticket", t)
    /\ Decide(r, "add_ticket", t,
              [org |-> requests[r].scope.org, user |-> requests[r].scope.user,
               property |-> p, contract |-> c, agent |-> None])

\* Mutant: Rule A without step 3.
RuleAAnyContract(s, p, c) ==
    /\ PropertyInScope(s, p)
    /\ ContractInScope(s, c)
    /\ contracts[c].status = "active"
    /\ s.role = "tenant" => contracts[c].tenant = s.user

\* Steps 1-4 and 7 of Rule A, the two ids supplied.
RuleA(s, p, c) ==
    /\ PropertyInScope(s, p)
    /\ ContractInScope(s, c)
    /\ contracts[c].property = p
    /\ contracts[c].status = "active"
    /\ s.role = "tenant" => contracts[c].tenant = s.user

\* create_ticket with both ids.
CreateTicket(r, t, p, c) ==
    /\ RuleA(requests[r].scope, p, c)
    /\ AddTicket(r, t, p, c)

\* The chatbot's create_ticket: the one active contract of the caller.
ChatCreateTicket(r, t, c) ==
    /\ ActiveContractsForCaller(requests[r].scope) = {c}
    /\ CreateTicket(r, t, contracts[c].property, c)

\* The chatbot's escalate_to_human for a session without a ticket: the ticket it
\* has just created is looked up again to set its status.
EscalateToHuman(r, t) ==
    /\ Sees(requests[r].scope, [org |-> requests[r].scope.org,
                                user |-> requests[r].scope.user,
                                property |-> None, contract |-> None])
    /\ AddTicket(r, t, None, None)

\* An inbound mail that starts a ticket.
CreateNewTicket(r, t) == AddTicket(r, t, None, None)

\* PATCH /tickets with agent_id: Rule B.
AssignAgent(r, t, u) ==
    LET s == requests[r].scope IN
    /\ s.role \in STAFF_ROLES
    /\ tickets[t] # None /\ Sees(s, tickets[t])
    /\ UserInScope(s, u) /\ users[u].role \in STAFF_ROLES
    /\ tickets[t].agent # u
    /\ Decide(r, "assign_agent", t, u)

-----------------------------------------------------------------------------
(* The flush and the commit, or the end without one. *)

Commit(r) ==
    LET w == requests[r].write
        Is(op) == w.op = op
    IN
    /\ w # None
    /\ properties' =
          CASE Is("add_property") -> [properties EXCEPT ![w.id] = w.value]
            [] Is("delete_property") -> [properties EXCEPT ![w.id].deleted = TRUE]
            [] OTHER -> properties
    /\ contracts' =
          CASE Is("add_contract") -> [contracts EXCEPT ![w.id] = w.value]
            [] Is("contract_status") -> [contracts EXCEPT ![w.id].status = w.value]
            [] OTHER -> contracts
    /\ tickets' =
          CASE Is("add_ticket") -> [tickets EXCEPT ![w.id] = w.value]
            [] Is("assign_agent") -> [tickets EXCEPT ![w.id].agent = w.value]
            [] OTHER -> tickets
    /\ users' =
          CASE Is("user_role") -> [users EXCEPT ![w.id].role = w.value]
            [] Is("disable_user") -> [users EXCEPT ![w.id].active = FALSE]
            [] OTHER -> users
    /\ requests' = [requests EXCEPT ![r] = NoRequest]

\* An error, or a request that only reads.
End(r) ==
    /\ requests[r].via # "idle"
    /\ requests' = [requests EXCEPT ![r] = NoRequest]
    /\ UNCHANGED <<users, properties, contracts, tickets>>

-----------------------------------------------------------------------------
(* The routers: who may ask for what. *)

PropertyRoutes(r) ==
    /\ RequireOrgAdmin(r)
    /\ \E p \in Properties :
        DeleteProperty(r, p) \/ \E u \in Users : CreateProperty(r, p, u)

ContractRoutes(r) ==
    /\ RequireOrgAdmin(r)
    /\ \E c \in Contracts :
        \/ \E p \in Properties, u \in Users : CreateContract(r, c, p, u)
        \/ \E status \in ContractStatus : UpdateContract(r, c, status)

UserRoutes(r) ==
    /\ RequireOrgAdmin(r)
    /\ \E e \in UserEdits : UpdateUser(r, e) \/ DisableUser(r, e)

\* require_org_member: any role.
TicketRoutes(r) ==
    /\ requests[r].via = "api"
    /\ \E t \in Tickets :
        \/ \E p \in Properties, c \in Contracts : CreateTicket(r, t, p, c)
        \/ \E u \in Users : AssignAgent(r, t, u)

\* What the model of a chat turn may call.
ToolHandlers(r) ==
    /\ requests[r].via = "chat"
    /\ \E t \in Tickets :
        EscalateToHuman(r, t) \/ \E c \in Contracts : ChatCreateTicket(r, t, c)

Mails(r) ==
    /\ requests[r].via = "mail"
    /\ \E t \in Tickets : CreateNewTicket(r, t)

Next ==
    \E r \in Requests :
        \/ \E u \in Users :
            \/ GetPrincipal(r, u) \/ ResolveBearerScope(r, u)
            \/ ProcessWhatsAppMessage(r, u) \/ IngestInboundEmail(r, u)
            \/ \E o \in Orgs : ResolveChatTokenScope(r, u, o)
        \/ PropertyRoutes(r) \/ ContractRoutes(r) \/ UserRoutes(r)
        \/ TicketRoutes(r) \/ ToolHandlers(r) \/ Mails(r)
        \/ Commit(r) \/ End(r)

Spec == Init /\ [][Next]_vars

-----------------------------------------------------------------------------
(* Properties. *)

TypeOK ==
    /\ users \in [Users -> UserRow]
    /\ properties \in [Properties -> Opt(PropertyRow)]
    /\ contracts \in [Contracts -> Opt(ContractRow)]
    /\ tickets \in [Tickets -> Opt(TicketRow)]
    /\ requests \in [Requests -> Request]

\* (repositories/base.py:102-129, services/ticket_service.py:192-203) Whatever is
\* committed between a request's reads and its commit, the parties of a row belong
\* to the row's organization: the owner of a property, the tenant of a contract,
\* the agent of a ticket; and a ticket is on a contract of its own property.
OrganizationsStayApart ==
    /\ \A p \in Properties : properties[p] # None =>
            Home[properties[p].owner] = properties[p].org
    /\ \A c \in Contracts : contracts[c] # None =>
            /\ properties[contracts[c].property] # None
            /\ Home[contracts[c].tenant] = properties[contracts[c].property].org
    /\ \A t \in Tickets : tickets[t] # None =>
        LET row == tickets[t] IN
            /\ row.agent # None => Home[row.agent] = row.org
            /\ row.property # None => properties[row.property].org = row.org
            /\ row.contract # None => contracts[row.contract].property = row.property

\* (repositories/ticket_repository.py:6-16) A user whose role stays the same never
\* loses sight of a ticket: not by the end of a contract, not by the deletion of a
\* property, not by an assignment, and not by what a stale request writes.
SightIsKept ==
    [][\A u \in Users, t \in Tickets :
          (/\ tickets[t] # None
           /\ Sees(Principal(u), tickets[t])
           /\ users'[u].role = users[u].role)
          => Sees(Principal(u), tickets[t])']_vars

\* (services/ticket_service.py:150-151) A ticket is filed on an active contract.
\* Not kept: the contract may end between the look and the commit.
FiledOnActiveContract ==
    [][\A t \in Tickets :
          tickets[t] = None /\ tickets'[t] # None /\ tickets'[t].contract # None
          => contracts[tickets'[t].contract].status = "active"]_vars
=============================================================================
