---------------------------- MODULE TenancyProofs ----------------------------
(* Theorems about Tenancy, for every number of organizations, users, rows and *)
(* requests that run at the same time.                                        *)
EXTENDS Tenancy, TLAPS

\* A request that runs has a scope.
Scoped ==
    \A r \in Requests :
        /\ requests[r].via # "idle" => requests[r].scope \in OrgScope
        /\ requests[r].via = "idle" => requests[r].write = None

\* The row a ticket refers to is there.
Referenced ==
    \A t \in Tickets : tickets[t] # None =>
        /\ tickets[t].property # None => properties[tickets[t].property] # None
        /\ tickets[t].contract # None => contracts[tickets[t].contract] # None

\* What a request decided to write on the strength of what it read still holds
\* of the tables, however much was committed since.
SoundWrite(w) ==
    /\ w.op = "add_property" =>
        /\ properties[w.id] = None
        /\ Home[w.value.owner] = w.value.org
    /\ w.op = "delete_property" => properties[w.id] # None
    /\ w.op = "add_contract" =>
        /\ contracts[w.id] = None
        /\ properties[w.value.property] # None
        /\ Home[w.value.tenant] = properties[w.value.property].org
    /\ w.op = "contract_status" => contracts[w.id] # None
    /\ w.op = "add_ticket" =>
        /\ tickets[w.id] = None
        /\ w.value.agent = None
        /\ w.value.property # None =>
            /\ properties[w.value.property] # None
            /\ properties[w.value.property].org = w.value.org
        /\ w.value.contract # None =>
            /\ contracts[w.value.contract] # None
            /\ contracts[w.value.contract].property = w.value.property
    /\ w.op = "assign_agent" =>
        /\ tickets[w.id] # None
        /\ Home[w.value] = tickets[w.id].org

SoundWrites ==
    \A r \in Requests : requests[r].write # None => SoundWrite(requests[r].write)

\* An INSERT takes an id that no other open transaction inserts.
FreshIds ==
    \A r, s \in Requests :
        /\ r # s
        /\ requests[r].write # None /\ requests[s].write # None
        /\ requests[r].write.op \in {"add_property", "add_contract", "add_ticket"}
        => ~(/\ requests[r].write.op = requests[s].write.op
             /\ requests[r].write.id = requests[s].write.id)

\* The inductive invariant.
ApartInv ==
    /\ TypeOK
    /\ Scoped
    /\ Referenced
    /\ SoundWrites
    /\ FreshIds
    /\ OrganizationsStayApart

-----------------------------------------------------------------------------

\* An idle request is a request record.
LEMMA NoRequestType == NoRequest \in Request /\ NoRequest.via = "idle" /\ NoRequest.write = None
  BY DEF NoRequest, Request, Opt

\* A request that is identified has a scope and no write yet.
LEMMA IdentifyKeeps ==
    ASSUME ApartInv, NEW r \in Requests, NEW via \in {"api", "chat", "mail"},
           NEW s \in OrgScope, Identify(r, via, s)
    PROVE  ApartInv'
  <1> DEFINE q == [via |-> via, scope |-> s, write |-> None]
  <1>1. q \in Request /\ q.write = None /\ q.via # "idle" /\ q.scope \in OrgScope
    BY DEF Request, Opt
  <1> HIDE DEF q
  <1>2. requests' = [requests EXCEPT ![r] = q]
    BY DEF Identify, q
  <1>3. TypeOK'
    BY <1>1, <1>2 DEF Identify, ApartInv, TypeOK
  <1>4. Scoped'
    BY <1>1, <1>2 DEF ApartInv, TypeOK, Scoped
  <1>5. SoundWrites'
    BY <1>1, <1>2 DEF Identify, ApartInv, TypeOK, SoundWrites, SoundWrite
  <1>6. FreshIds'
    BY <1>1, <1>2 DEF ApartInv, TypeOK, FreshIds
  <1>7. Referenced' /\ OrganizationsStayApart'
    BY DEF Identify, ApartInv, Referenced, OrganizationsStayApart
  <1>8. QED BY <1>3, <1>4, <1>5, <1>6, <1>7 DEF ApartInv

\* A request decides on a write that is sound now and whose id is free.
LEMMA DecideKeeps ==
    ASSUME ApartInv, NEW r \in Requests, NEW op, NEW id, NEW value,
           Decide(r, op, id, value),
           [op |-> op, id |-> id, value |-> value] \in Write,
           SoundWrite([op |-> op, id |-> id, value |-> value]),
           op \in {"add_property", "add_contract", "add_ticket"} => Unused(op, id)
    PROVE  ApartInv'
  <1> DEFINE w == [op |-> op, id |-> id, value |-> value]
             q == [requests[r] EXCEPT !.write = w]
  <1>0. requests[r] \in Request
    BY DEF ApartInv, TypeOK
  <1>1. /\ q \in Request /\ q.write = w /\ q.via = requests[r].via
        /\ q.scope = requests[r].scope
    <2> HIDE DEF w
    <2>1. w \in Write
      BY DEF w
    <2>2. QED BY <1>0, <2>1 DEF Request, Opt
  <1>2. w.op = op /\ w.id = id
    OBVIOUS
  <1>3. requests' = [requests EXCEPT ![r] = q]
    BY DEF Decide
  <1>4. w \in Write /\ SoundWrite(w) /\ requests[r].via # "idle" /\ requests[r].write = None
    BY DEF Decide
  <1> HIDE DEF q, w
  <1>5. TypeOK'
    BY <1>1, <1>3 DEF Decide, ApartInv, TypeOK
  <1>6. Scoped'
    BY <1>1, <1>3, <1>4 DEF ApartInv, TypeOK, Scoped
  <1>7. SoundWrites'
    BY <1>1, <1>3, <1>4 DEF Decide, ApartInv, TypeOK, SoundWrites, SoundWrite
  <1>8. FreshIds'
    BY <1>1, <1>2, <1>3, <1>4 DEF ApartInv, TypeOK, FreshIds, Unused
  <1>9. Referenced' /\ OrganizationsStayApart'
    BY DEF Decide, ApartInv, Referenced, OrganizationsStayApart
  <1>10. QED BY <1>5, <1>6, <1>7, <1>8, <1>9 DEF ApartInv

-----------------------------------------------------------------------------

\* Which column each kind of write touches.
LEMMA CommitWrites ==
    ASSUME NEW r \in Requests, Commit(r)
    PROVE  LET w == requests[r].write IN
           /\ IF w.op = "add_property"
              THEN properties' = [properties EXCEPT ![w.id] = w.value]
              ELSE IF w.op = "delete_property"
              THEN properties' = [properties EXCEPT ![w.id].deleted = TRUE]
              ELSE properties' = properties
           /\ IF w.op = "add_contract"
              THEN contracts' = [contracts EXCEPT ![w.id] = w.value]
              ELSE IF w.op = "contract_status"
              THEN contracts' = [contracts EXCEPT ![w.id].status = w.value]
              ELSE contracts' = contracts
           /\ IF w.op = "add_ticket"
              THEN tickets' = [tickets EXCEPT ![w.id] = w.value]
              ELSE IF w.op = "assign_agent"
              THEN tickets' = [tickets EXCEPT ![w.id].agent = w.value]
              ELSE tickets' = tickets
           /\ IF w.op = "user_role"
              THEN users' = [users EXCEPT ![w.id].role = w.value]
              ELSE IF w.op = "disable_user"
              THEN users' = [users EXCEPT ![w.id].active = FALSE]
              ELSE users' = users
  BY DEF Commit

\* What a write holds, by its kind.
LEMMA WriteTypes ==
    ASSUME NEW w \in Write
    PROVE  /\ w.op = "add_property" => w.id \in Properties /\ w.value \in PropertyRow
           /\ w.op = "delete_property" => w.id \in Properties
           /\ w.op = "add_contract" => w.id \in Contracts /\ w.value \in ContractRow
           /\ w.op = "contract_status" => w.id \in Contracts /\ w.value \in ContractStatus
           /\ w.op = "user_role" => w.id \in Users /\ w.value \in Roles
           /\ w.op = "disable_user" => w.id \in Users
           /\ w.op = "add_ticket" => w.id \in Tickets /\ w.value \in TicketRow
           /\ w.op = "assign_agent" => w.id \in Tickets /\ w.value \in Users
  BY DEF Write

\* The tables of organizations: a row that is there keeps its organization and
\* its parties, except for the agent of a ticket.
ColumnsKept ==
    /\ \A p \in Properties : properties[p] # None =>
        /\ properties'[p] # None
        /\ properties'[p].org = properties[p].org
        /\ properties'[p].owner = properties[p].owner
    /\ \A c \in Contracts : contracts[c] # None =>
        /\ contracts'[c] # None
        /\ contracts'[c].property = contracts[c].property
        /\ contracts'[c].tenant = contracts[c].tenant
    /\ \A t \in Tickets : tickets[t] # None =>
        /\ tickets'[t] # None
        /\ tickets'[t].org = tickets[t].org
        /\ tickets'[t].user = tickets[t].user
        /\ tickets'[t].property = tickets[t].property
        /\ tickets'[t].contract = tickets[t].contract

\* A commit writes what its request decided: a new row, or a new agent.
Written(w) ==
    /\ \A p \in Properties : properties[p] = None /\ properties'[p] # None =>
          w.op = "add_property" /\ w.id = p /\ properties'[p] = w.value
    /\ \A c \in Contracts : contracts[c] = None /\ contracts'[c] # None =>
          w.op = "add_contract" /\ w.id = c /\ contracts'[c] = w.value
    /\ \A t \in Tickets : tickets[t] = None /\ tickets'[t] # None =>
          w.op = "add_ticket" /\ w.id = t /\ tickets'[t] = w.value
    /\ \A t \in Tickets : tickets[t] # None /\ tickets'[t].agent # tickets[t].agent =>
          w.op = "assign_agent" /\ w.id = t /\ tickets'[t].agent = w.value

\* The commit keeps the types, keeps the columns and writes only its own row.
LEMMA CommitTables ==
    ASSUME ApartInv, NEW r \in Requests, Commit(r)
    PROVE  TypeOK' /\ ColumnsKept /\ Written(requests[r].write)
  <1> DEFINE w == requests[r].write
  <1>0. /\ requests[r] \in Request /\ w # None /\ SoundWrite(w)
        /\ properties \in [Properties -> Opt(PropertyRow)]
        /\ contracts \in [Contracts -> Opt(ContractRow)]
        /\ tickets \in [Tickets -> Opt(TicketRow)]
        /\ users \in [Users -> UserRow]
    BY DEF ApartInv, TypeOK, SoundWrites, Commit
  <1>1. w \in Write
    BY <1>0 DEF Request, Opt
  <1>2. /\ None \notin PropertyRow /\ None \notin ContractRow /\ None \notin TicketRow
    BY NoneAssumption
  <1> HIDE DEF w
  <1>3. /\ properties' \in [Properties -> Opt(PropertyRow)]
        /\ \A p \in Properties : properties[p] # None =>
            /\ properties'[p] # None
            /\ properties'[p].org = properties[p].org
            /\ properties'[p].owner = properties[p].owner
        /\ \A p \in Properties : properties[p] = None /\ properties'[p] # None =>
            w.op = "add_property" /\ w.id = p /\ properties'[p] = w.value
    <2>1. CASE w.op = "add_property"
      <3>1. properties' = [properties EXCEPT ![w.id] = w.value]
        BY <2>1, CommitWrites DEF w
      <3>2. w.id \in Properties /\ w.value \in PropertyRow /\ properties[w.id] = None
        BY <1>0, <1>1, <2>1, WriteTypes DEF SoundWrite
      <3>3. QED BY <1>0, <2>1, <3>1, <3>2 DEF Opt
    <2>2. CASE w.op = "delete_property"
      <3>1. properties' = [properties EXCEPT ![w.id].deleted = TRUE]
        BY <2>2, CommitWrites DEF w
      <3>2. w.id \in Properties /\ properties[w.id] \in PropertyRow
        BY <1>0, <1>1, <2>2, WriteTypes DEF SoundWrite, Opt
      <3>3. [properties[w.id] EXCEPT !.deleted = TRUE] \in PropertyRow
        BY <3>2 DEF PropertyRow
      <3>4. QED BY <1>0, <1>2, <3>1, <3>2, <3>3 DEF Opt, PropertyRow
    <2>3. CASE w.op \notin {"add_property", "delete_property"}
      <3>1. properties' = properties
        BY <2>3, CommitWrites DEF w
      <3>2. QED BY <1>0, <3>1
    <2>4. QED BY <2>1, <2>2, <2>3
  <1>4. /\ contracts' \in [Contracts -> Opt(ContractRow)]
        /\ \A c \in Contracts : contracts[c] # None =>
            /\ contracts'[c] # None
            /\ contracts'[c].property = contracts[c].property
            /\ contracts'[c].tenant = contracts[c].tenant
        /\ \A c \in Contracts : contracts[c] = None /\ contracts'[c] # None =>
            w.op = "add_contract" /\ w.id = c /\ contracts'[c] = w.value
    <2>1. CASE w.op = "add_contract"
      <3>1. contracts' = [contracts EXCEPT ![w.id] = w.value]
        BY <2>1, CommitWrites DEF w
      <3>2. w.id \in Contracts /\ w.value \in ContractRow /\ contracts[w.id] = None
        BY <1>0, <1>1, <2>1, WriteTypes DEF SoundWrite
      <3>3. QED BY <1>0, <2>1, <3>1, <3>2 DEF Opt
    <2>2. CASE w.op = "contract_status"
      <3>1. contracts' = [contracts EXCEPT ![w.id].status = w.value]
        BY <2>2, CommitWrites DEF w
      <3>2. /\ w.id \in Contracts /\ contracts[w.id] \in ContractRow
            /\ w.value \in ContractStatus
        BY <1>0, <1>1, <2>2, WriteTypes DEF SoundWrite, Opt
      <3>3. [contracts[w.id] EXCEPT !.status = w.value] \in ContractRow
        BY <3>2 DEF ContractRow
      <3>4. QED BY <1>0, <1>2, <3>1, <3>2, <3>3 DEF Opt, ContractRow
    <2>3. CASE w.op \notin {"add_contract", "contract_status"}
      <3>1. contracts' = contracts
        BY <2>3, CommitWrites DEF w
      <3>2. QED BY <1>0, <3>1
    <2>4. QED BY <2>1, <2>2, <2>3
  <1>5. /\ tickets' \in [Tickets -> Opt(TicketRow)]
        /\ \A t \in Tickets : tickets[t] # None =>
            /\ tickets'[t] # None
            /\ tickets'[t].org = tickets[t].org
            /\ tickets'[t].user = tickets[t].user
            /\ tickets'[t].property = tickets[t].property
            /\ tickets'[t].contract = tickets[t].contract
        /\ \A t \in Tickets : tickets[t] = None /\ tickets'[t] # None =>
            w.op = "add_ticket" /\ w.id = t /\ tickets'[t] = w.value
        /\ \A t \in Tickets : tickets[t] # None /\ tickets'[t].agent # tickets[t].agent =>
            w.op = "assign_agent" /\ w.id = t /\ tickets'[t].agent = w.value
    <2>1. CASE w.op = "add_ticket"
      <3>1. tickets' = [tickets EXCEPT ![w.id] = w.value]
        BY <2>1, CommitWrites DEF w
      <3>2. w.id \in Tickets /\ w.value \in TicketRow /\ tickets[w.id] = None
        BY <1>0, <1>1, <2>1, WriteTypes DEF SoundWrite
      <3>3. QED BY <1>0, <2>1, <3>1, <3>2 DEF Opt
    <2>2. CASE w.op = "assign_agent"
      <3>1. tickets' = [tickets EXCEPT ![w.id].agent = w.value]
        BY <2>2, CommitWrites DEF w
      <3>2. w.id \in Tickets /\ tickets[w.id] \in TicketRow /\ w.value \in Users
        BY <1>0, <1>1, <2>2, WriteTypes DEF SoundWrite, Opt
      <3>3. [tickets[w.id] EXCEPT !.agent = w.value] \in TicketRow
        BY <3>2 DEF TicketRow, Opt
      <3>4. QED BY <1>0, <1>2, <2>2, <3>1, <3>2, <3>3 DEF Opt, TicketRow
    <2>3. CASE w.op \notin {"add_ticket", "assign_agent"}
      <3>1. tickets' = tickets
        BY <2>3, CommitWrites DEF w
      <3>2. QED BY <1>0, <3>1
    <2>4. QED BY <2>1, <2>2, <2>3
  <1>6. users' \in [Users -> UserRow]
    <2>1. CASE w.op = "user_role"
      <3>1. users' = [users EXCEPT ![w.id].role = w.value]
        BY <2>1, CommitWrites DEF w
      <3>2. w.id \in Users /\ w.value \in Roles
        BY <1>1, <2>1, WriteTypes
      <3>3. QED BY <1>0, <3>1, <3>2 DEF UserRow
    <2>2. CASE w.op = "disable_user"
      <3>1. users' = [users EXCEPT ![w.id].active = FALSE]
        BY <2>2, CommitWrites DEF w
      <3>2. w.id \in Users
        BY <1>1, <2>2, WriteTypes
      <3>3. QED BY <1>0, <3>1, <3>2 DEF UserRow
    <2>3. CASE w.op \notin {"user_role", "disable_user"}
      BY <1>0, <2>3, CommitWrites DEF w
    <2>4. QED BY <2>1, <2>2, <2>3
  <1>7. requests' \in [Requests -> Request]
    BY NoRequestType DEF Commit, ApartInv, TypeOK
  <1>8. TypeOK'
    BY <1>3, <1>4, <1>5, <1>6, <1>7 DEF TypeOK
  <1>9. QED BY <1>3, <1>4, <1>5, <1>8 DEF ColumnsKept, Written, w

\* What another request has decided survives the commit: the rows it refers to
\* keep their columns, and the row it inserts is not the one just inserted.
LEMMA SoundWriteSurvives ==
    ASSUME ColumnsKept, NEW v, NEW w \in Write, SoundWrite(w), Written(v),
           w.op \in {"add_property", "add_contract", "add_ticket"} =>
               ~(v.op = w.op /\ v.id = w.id),
           TypeOK
    PROVE  SoundWrite(w)'
  <1>1. w.op = "add_property" => properties'[w.id] = None
    BY WriteTypes DEF SoundWrite, Written
  <1>2. w.op = "delete_property" => properties'[w.id] # None
    BY WriteTypes DEF SoundWrite, ColumnsKept
  <1>3. w.op = "add_contract" =>
        /\ contracts'[w.id] = None
        /\ properties'[w.value.property] # None
        /\ Home[w.value.tenant] = properties'[w.value.property].org
    BY WriteTypes DEF SoundWrite, Written, ColumnsKept, ContractRow
  <1>4. w.op = "contract_status" => contracts'[w.id] # None
    BY WriteTypes DEF SoundWrite, ColumnsKept
  <1>5. w.op = "add_ticket" =>
        /\ tickets'[w.id] = None
        /\ w.value.property # None =>
            /\ properties'[w.value.property] # None
            /\ properties'[w.value.property].org = w.value.org
        /\ w.value.contract # None =>
            /\ contracts'[w.value.contract] # None
            /\ contracts'[w.value.contract].property = w.value.property
    BY WriteTypes DEF SoundWrite, Written, ColumnsKept, TicketRow, Opt
  <1>6. w.op = "assign_agent" =>
        tickets'[w.id] # None /\ Home[w.value] = tickets'[w.id].org
    BY WriteTypes DEF SoundWrite, ColumnsKept
  <1>7. QED BY <1>1, <1>2, <1>3, <1>4, <1>5, <1>6 DEF SoundWrite

\* The commit keeps the invariant.
LEMMA CommitKeeps ==
    ASSUME ApartInv, NEW r \in Requests, Commit(r)
    PROVE  ApartInv'
  <1> DEFINE w == requests[r].write
  <1>1. TypeOK' /\ ColumnsKept /\ Written(w)
    BY CommitTables
  <1>2. TypeOK /\ w # None /\ w \in Write /\ SoundWrite(w)
    BY DEF ApartInv, TypeOK, Request, Opt, SoundWrites, Commit
  <1>3. requests' = [requests EXCEPT ![r] = NoRequest]
    BY DEF Commit
  <1> HIDE DEF w
  <1>4. Scoped'
    BY <1>2, <1>3, NoRequestType DEF ApartInv, TypeOK, Scoped
  <1>5. SoundWrites'
    <2> SUFFICES ASSUME NEW s \in Requests, requests'[s].write # None
                 PROVE  SoundWrite(requests[s].write)'
      BY DEF SoundWrites
    <2>1. s # r /\ requests'[s] = requests[s]
      BY <1>2, <1>3, NoRequestType DEF TypeOK
    <2>2. requests[s].write \in Write /\ SoundWrite(requests[s].write)
      BY <1>2, <2>1 DEF ApartInv, TypeOK, Request, Opt, SoundWrites
    <2>3. requests[s].write.op \in {"add_property", "add_contract", "add_ticket"} =>
               ~(w.op = requests[s].write.op /\ w.id = requests[s].write.id)
      BY <1>2, <2>1 DEF ApartInv, FreshIds, w
    <2>4. SoundWrite(requests[s].write)'
      <3> DEFINE v == requests[s].write
      <3>1. v \in Write /\ SoundWrite(v)
        BY <2>2
      <3>2. v.op \in {"add_property", "add_contract", "add_ticket"} =>
               ~(w.op = v.op /\ w.id = v.id)
        BY <2>3
      <3>3. v' = v
        BY <2>1
      <3> HIDE DEF v
      <3>4. QED
        BY <1>1, <1>2, <3>1, <3>2, <3>3, SoundWriteSurvives DEF v
    <2>5. QED BY <2>4
  <1>6. FreshIds'
    BY <1>2, <1>3, NoRequestType DEF ApartInv, TypeOK, FreshIds
  <1>7. /\ \A p \in Properties : properties'[p] # None =>
            Home[properties'[p].owner] = properties'[p].org
    BY <1>1, <1>2 DEF ApartInv, OrganizationsStayApart, ColumnsKept, Written, SoundWrite
  <1>8. \A c \in Contracts : contracts'[c] # None =>
            /\ properties'[contracts'[c].property] # None
            /\ Home[contracts'[c].tenant] = properties'[contracts'[c].property].org
    <2> SUFFICES ASSUME NEW c \in Contracts, contracts'[c] # None
                 PROVE  /\ properties'[contracts'[c].property] # None
                        /\ Home[contracts'[c].tenant] = properties'[contracts'[c].property].org
      OBVIOUS
    <2>1. contracts'[c] \in ContractRow
      BY <1>1 DEF TypeOK, Opt
    <2>2. CASE contracts[c] # None
      BY <1>1, <2>1, <2>2 DEF ApartInv, OrganizationsStayApart, ColumnsKept, ContractRow
    <2>3. CASE contracts[c] = None
      BY <1>1, <1>2, <2>1, <2>3 DEF Written, SoundWrite, ColumnsKept, ContractRow
    <2>4. QED BY <2>2, <2>3
  <1>9. ASSUME NEW t \in Tickets, tickets'[t] # None
        PROVE  LET row == tickets'[t] IN
               /\ row.agent # None => Home[row.agent] = row.org
               /\ row.property # None =>
                    properties'[row.property] # None /\ properties'[row.property].org = row.org
               /\ row.contract # None =>
                    /\ contracts'[row.contract] # None
                    /\ contracts'[row.contract].property = row.property
    <2>1. tickets'[t] \in TicketRow
      BY <1>1, <1>9 DEF TypeOK, Opt
    <2>2. CASE tickets[t] # None
      <3>1. /\ tickets'[t].org = tickets[t].org
            /\ tickets'[t].property = tickets[t].property
            /\ tickets'[t].contract = tickets[t].contract
        BY <1>1, <2>2 DEF ColumnsKept
      <3>2. tickets'[t].agent # None => Home[tickets'[t].agent] = tickets'[t].org
        BY <1>1, <1>2, <2>2, <3>1 DEF ApartInv, OrganizationsStayApart, Written, SoundWrite
      <3>3. QED
        BY <1>1, <2>1, <2>2, <3>1, <3>2
        DEF ApartInv, OrganizationsStayApart, Referenced, ColumnsKept, TicketRow, Opt
    <2>3. CASE tickets[t] = None
      BY <1>1, <1>2, <1>9, <2>1, <2>3 DEF Written, SoundWrite, ColumnsKept, TicketRow, Opt
    <2>4. QED BY <2>2, <2>3
  <1>10. Referenced' /\ OrganizationsStayApart'
    BY <1>7, <1>8, <1>9 DEF Referenced, OrganizationsStayApart
  <1>11. QED BY <1>1, <1>4, <1>5, <1>6, <1>10 DEF ApartInv

-----------------------------------------------------------------------------

\* A principal is a scope.
LEMMA PrincipalType ==
    ASSUME TypeOK, NEW u \in Users
    PROVE  Principal(u) \in OrgScope
  BY TenancyAssumption DEF TypeOK, Principal, OrgScope, UserRow

\* So are the claims of a chat session.
LEMMA ChatClaimsType ==
    ASSUME NEW u \in Users, NEW o \in Orgs
    PROVE  ChatClaims(u, o) \in OrgScope
  BY DEF ChatClaims, OrgScope, Roles

\* create_ticket, in the API and in the chat, and the tickets without a property:
\* what Rule A compared is what the new row will hold.
LEMMA AddTicketKeeps ==
    ASSUME ApartInv, NEW r \in Requests, NEW t \in Tickets,
           NEW p \in Opt(Properties), NEW c \in Opt(Contracts),
           AddTicket(r, t, p, c),
           p # None => PropertyInScope(requests[r].scope, p),
           c # None => contracts[c] # None /\ contracts[c].property = p
    PROVE  ApartInv'
  <1> DEFINE row == [org |-> requests[r].scope.org, user |-> requests[r].scope.user,
                     property |-> p, contract |-> c, agent |-> None]
  <1>1. requests[r].scope \in OrgScope
    BY DEF AddTicket, Decide, ApartInv, Scoped
  <1>2. row \in TicketRow
    BY <1>1 DEF TicketRow, OrgScope, Opt
  <1>3. [op |-> "add_ticket", id |-> t, value |-> row] \in Write
    BY <1>2 DEF Write
  <1>4. SoundWrite([op |-> "add_ticket", id |-> t, value |-> row])
    BY DEF SoundWrite, AddTicket, PropertyInScope
  <1>5. Decide(r, "add_ticket", t, row) /\ Unused("add_ticket", t)
    BY DEF AddTicket
  <1> HIDE DEF row
  <1>6. QED BY <1>3, <1>4, <1>5, DecideKeeps

\* Rule A supplies what AddTicket needs.
LEMMA CreateTicketKeeps ==
    ASSUME ApartInv, NEW r \in Requests, NEW t \in Tickets,
           NEW p \in Properties, NEW c \in Contracts, CreateTicket(r, t, p, c)
    PROVE  ApartInv'
  <1>1. /\ AddTicket(r, t, p, c) /\ PropertyInScope(requests[r].scope, p)
        /\ contracts[c] # None /\ contracts[c].property = p
    BY DEF CreateTicket, RuleA, ContractInScope
  <1>2. p \in Opt(Properties) /\ c \in Opt(Contracts)
    BY DEF Opt
  <1>3. QED BY <1>1, <1>2, AddTicketKeeps

\* The parties of a row belong to its organization, and a ticket is on a contract
\* of its own property: every step keeps the inductive invariant.
LEMMA ApartStep == ApartInv /\ [Next]_vars => ApartInv'
  <1> SUFFICES ASSUME ApartInv, [Next]_vars
               PROVE  ApartInv'
    OBVIOUS
  <1>0. TypeOK /\ Scoped
    BY DEF ApartInv
  <1>1. ASSUME NEW r \in Requests, NEW u \in Users,
               \/ GetPrincipal(r, u) \/ ResolveBearerScope(r, u)
               \/ ProcessWhatsAppMessage(r, u) \/ IngestInboundEmail(r, u)
        PROVE  ApartInv'
    <2>1. PICK via \in {"api", "chat", "mail"} : Identify(r, via, Principal(u))
      BY <1>1 DEF GetPrincipal, ResolveBearerScope, ProcessWhatsAppMessage,
                  IngestInboundEmail
    <2>2. QED BY <1>0, <2>1, PrincipalType, IdentifyKeeps
  <1>2. ASSUME NEW r \in Requests, NEW u \in Users, NEW o \in Orgs,
               ResolveChatTokenScope(r, u, o)
        PROVE  ApartInv'
    BY <1>2, ChatClaimsType, IdentifyKeeps DEF ResolveChatTokenScope
  <1>3. ASSUME NEW r \in Requests, NEW p \in Properties, NEW u \in Users,
               CreateProperty(r, p, u)
        PROVE  ApartInv'
    <2> DEFINE row == [org |-> requests[r].scope.org, owner |-> u, deleted |-> FALSE]
    <2>1. requests[r].scope \in OrgScope
      BY <1>0, <1>3 DEF CreateProperty, Decide, Scoped
    <2>2. row \in PropertyRow
      BY <2>1 DEF PropertyRow, OrgScope
    <2>3. [op |-> "add_property", id |-> p, value |-> row] \in Write
      BY <2>2 DEF Write
    <2>4. SoundWrite([op |-> "add_property", id |-> p, value |-> row])
      BY <1>3 DEF SoundWrite, CreateProperty, UserInScope
    <2>5. Decide(r, "add_property", p, row) /\ Unused("add_property", p)
      BY <1>3 DEF CreateProperty
    <2> HIDE DEF row
    <2>6. QED BY <2>3, <2>4, <2>5, DecideKeeps
  <1>4. ASSUME NEW r \in Requests, NEW p \in Properties, DeleteProperty(r, p)
        PROVE  ApartInv'
    <2>1. [op |-> "delete_property", id |-> p, value |-> TRUE] \in Write
      BY DEF Write
    <2>2. SoundWrite([op |-> "delete_property", id |-> p, value |-> TRUE])
      BY <1>4 DEF SoundWrite, DeleteProperty, PropertyInScope
    <2>3. Decide(r, "delete_property", p, TRUE)
      BY <1>4 DEF DeleteProperty
    <2>4. QED BY <2>1, <2>2, <2>3, DecideKeeps
  <1>5. ASSUME NEW r \in Requests, NEW c \in Contracts, NEW p \in Properties,
               NEW u \in Users, CreateContract(r, c, p, u)
        PROVE  ApartInv'
    <2> DEFINE row == [property |-> p, tenant |-> u, status |-> "active"]
    <2>1. row \in ContractRow
      BY DEF ContractRow, ContractStatus
    <2>2. [op |-> "add_contract", id |-> c, value |-> row] \in Write
      BY <2>1 DEF Write
    <2>3. SoundWrite([op |-> "add_contract", id |-> c, value |-> row])
      BY <1>5 DEF SoundWrite, CreateContract, PropertyInScope, UserInScope
    <2>4. Decide(r, "add_contract", c, row) /\ Unused("add_contract", c)
      BY <1>5 DEF CreateContract
    <2> HIDE DEF row
    <2>5. QED BY <2>2, <2>3, <2>4, DecideKeeps
  <1>6. ASSUME NEW r \in Requests, NEW c \in Contracts, NEW status \in ContractStatus,
               UpdateContract(r, c, status)
        PROVE  ApartInv'
    <2>1. [op |-> "contract_status", id |-> c, value |-> status] \in Write
      BY DEF Write
    <2>2. SoundWrite([op |-> "contract_status", id |-> c, value |-> status])
      BY <1>6 DEF SoundWrite, UpdateContract, ContractInScope
    <2>3. Decide(r, "contract_status", c, status)
      BY <1>6 DEF UpdateContract
    <2>4. QED BY <2>1, <2>2, <2>3, DecideKeeps
  <1>7. ASSUME NEW r \in Requests, NEW e \in UserEdits,
               UpdateUser(r, e) \/ DisableUser(r, e)
        PROVE  ApartInv'
    <2>1. e.user \in Users
      BY TenancyAssumption
    <2>2. CASE UpdateUser(r, e)
      <3>1. [op |-> "user_role", id |-> e.user, value |-> e.to] \in Write
        BY <2>1, <2>2 DEF UpdateUser, Write
      <3>2. SoundWrite([op |-> "user_role", id |-> e.user, value |-> e.to])
        BY DEF SoundWrite
      <3>3. Decide(r, "user_role", e.user, e.to)
        BY <2>2 DEF UpdateUser
      <3>4. QED BY <3>1, <3>2, <3>3, DecideKeeps
    <2>3. CASE DisableUser(r, e)
      <3>1. [op |-> "disable_user", id |-> e.user, value |-> FALSE] \in Write
        BY <2>1 DEF Write
      <3>2. SoundWrite([op |-> "disable_user", id |-> e.user, value |-> FALSE])
        BY DEF SoundWrite
      <3>3. Decide(r, "disable_user", e.user, FALSE)
        BY <2>3 DEF DisableUser
      <3>4. QED BY <3>1, <3>2, <3>3, DecideKeeps
    <2>4. QED BY <1>7, <2>2, <2>3
  <1>8. ASSUME NEW r \in Requests, NEW t \in Tickets, NEW p \in Properties,
               NEW c \in Contracts, CreateTicket(r, t, p, c)
        PROVE  ApartInv'
    BY <1>8, CreateTicketKeeps
  <1>9. ASSUME NEW r \in Requests, NEW t \in Tickets, NEW c \in Contracts,
               ChatCreateTicket(r, t, c)
        PROVE  ApartInv'
    <2>1. c \in ActiveContractsForCaller(requests[r].scope)
      BY <1>9 DEF ChatCreateTicket
    <2>2. contracts[c] \in ContractRow
      BY <1>0, <2>1 DEF ActiveContractsForCaller, ContractInScope, TypeOK, Opt
    <2>3. contracts[c].property \in Properties
      BY <2>2 DEF ContractRow
    <2>4. QED BY <1>9, <2>3, CreateTicketKeeps DEF ChatCreateTicket
  <1>10. ASSUME NEW r \in Requests, NEW t \in Tickets,
                EscalateToHuman(r, t) \/ CreateNewTicket(r, t)
         PROVE  ApartInv'
    <2>1. AddTicket(r, t, None, None)
      BY <1>10 DEF EscalateToHuman, CreateNewTicket
    <2>2. None \in Opt(Properties) /\ None \in Opt(Contracts)
      BY DEF Opt
    <2>3. QED BY <2>1, <2>2, AddTicketKeeps
  <1>11. ASSUME NEW r \in Requests, NEW t \in Tickets, NEW u \in Users,
                AssignAgent(r, t, u)
         PROVE  ApartInv'
    <2>1. [op |-> "assign_agent", id |-> t, value |-> u] \in Write
      BY DEF Write
    <2>2. SoundWrite([op |-> "assign_agent", id |-> t, value |-> u])
      BY <1>11 DEF SoundWrite, AssignAgent, Sees, UserInScope
    <2>3. Decide(r, "assign_agent", t, u)
      BY <1>11 DEF AssignAgent
    <2>4. QED BY <2>1, <2>2, <2>3, DecideKeeps
  <1>12. ASSUME NEW r \in Requests, End(r)
         PROVE  ApartInv'
    <2>1. requests' = [requests EXCEPT ![r] = NoRequest]
      BY <1>12 DEF End
    <2>2. TypeOK' /\ Scoped' /\ FreshIds'
      BY <1>0, <1>12, <2>1, NoRequestType DEF End, TypeOK, Scoped, ApartInv, FreshIds
    <2>3. SoundWrites'
      BY <1>0, <1>12, <2>1, NoRequestType DEF End, TypeOK, ApartInv, SoundWrites, SoundWrite
    <2>4. Referenced' /\ OrganizationsStayApart'
      BY <1>12 DEF End, ApartInv, Referenced, OrganizationsStayApart
    <2>5. QED BY <2>2, <2>3, <2>4 DEF ApartInv
  <1>13. CASE UNCHANGED vars
    BY <1>13 DEF vars, ApartInv, TypeOK, Scoped, Referenced, SoundWrites, SoundWrite,
                 FreshIds, OrganizationsStayApart
  <1>14. QED
    BY <1>1, <1>2, <1>3, <1>4, <1>5, <1>6, <1>7, <1>8, <1>9, <1>10, <1>11, <1>12, <1>13,
       CommitKeeps
    DEF Next, PropertyRoutes, ContractRoutes, UserRoutes, TicketRoutes, ToolHandlers, Mails

\* The tables start empty and no request runs.
LEMMA ApartInit == Init => ApartInv
  <1> SUFFICES ASSUME Init
               PROVE  ApartInv
    OBVIOUS
  <1>1. TypeOK
    BY TenancyAssumption, NoRequestType DEF Init, TypeOK, UserRow, Opt
  <1>2. Scoped /\ SoundWrites /\ FreshIds
    BY NoRequestType DEF Init, Scoped, SoundWrites, FreshIds
  <1>3. Referenced /\ OrganizationsStayApart
    BY DEF Init, Referenced, OrganizationsStayApart
  <1>4. QED BY <1>1, <1>2, <1>3 DEF ApartInv

-----------------------------------------------------------------------------

\* Every row, scope and pending write keeps its shape.
THEOREM TenancyTypes == Spec => []TypeOK
  <1>1. ApartInv => TypeOK
    BY DEF ApartInv
  <1>2. QED BY <1>1, ApartInit, ApartStep, PTL DEF Spec

\* (services/ticket_service.py:192-203, repositories/base.py:102-129) No
\* interleaving of reads and commits mixes two organizations in one row, or a
\* ticket's property with another property's contract, although nothing is locked
\* and no foreign key compares organizations.
THEOREM Apart == Spec => []OrganizationsStayApart
  <1>1. ApartInv => OrganizationsStayApart
    BY DEF ApartInv
  <1>2. QED BY <1>1, ApartInit, ApartStep, PTL DEF Spec

\* What was decided on the strength of a stale read is still sound when it is
\* committed: the reason why no lock is needed.
THEOREM StaleWritesAreSound == Spec => []SoundWrites
  <1>1. ApartInv => SoundWrites
    BY DEF ApartInv
  <1>2. QED BY <1>1, ApartInit, ApartStep, PTL DEF Spec

\* The columns that decide who sees a row are never written again.
LEMMA StepKeepsColumns ==
    ASSUME ApartInv, [Next]_vars
    PROVE  ColumnsKept
  <1>1. CASE \E r \in Requests : Commit(r)
    BY <1>1, CommitTables
  <1>2. CASE UNCHANGED <<properties, contracts, tickets>>
    BY <1>2 DEF ColumnsKept
  <1>3. ASSUME NEW r \in Requests, NEW op, NEW id, NEW value, Decide(r, op, id, value)
        PROVE  UNCHANGED <<properties, contracts, tickets>>
    BY <1>3 DEF Decide
  <1>4. ASSUME NEW r \in Requests, NEW via, NEW s, Identify(r, via, s)
        PROVE  UNCHANGED <<properties, contracts, tickets>>
    BY <1>4 DEF Identify
  <1>5. ASSUME NEW r \in Requests,
               \/ End(r)
               \/ \E u \in Users :
                    \/ GetPrincipal(r, u) \/ ResolveBearerScope(r, u)
                    \/ ProcessWhatsAppMessage(r, u) \/ IngestInboundEmail(r, u)
                    \/ \E o \in Orgs : ResolveChatTokenScope(r, u, o)
        PROVE  UNCHANGED <<properties, contracts, tickets>>
    BY <1>4, <1>5 DEF GetPrincipal, ResolveBearerScope, ProcessWhatsAppMessage,
                      IngestInboundEmail, ResolveChatTokenScope, End
  <1>6. ASSUME NEW r \in Requests, PropertyRoutes(r) \/ ContractRoutes(r) \/ UserRoutes(r)
        PROVE  UNCHANGED <<properties, contracts, tickets>>
    BY <1>3, <1>6 DEF PropertyRoutes, ContractRoutes, UserRoutes, CreateProperty,
                      DeleteProperty, CreateContract, UpdateContract, UpdateUser, DisableUser
  <1>7. ASSUME NEW r \in Requests, TicketRoutes(r) \/ ToolHandlers(r) \/ Mails(r)
        PROVE  UNCHANGED <<properties, contracts, tickets>>
    BY <1>3, <1>7 DEF TicketRoutes, ToolHandlers, Mails, CreateTicket, ChatCreateTicket,
                      EscalateToHuman, CreateNewTicket, AddTicket, AssignAgent
  <1>8. QED
    BY <1>1, <1>2, <1>5, <1>6, <1>7 DEF vars, Next

\* (repositories/ticket_repository.py:6-16) A user whose role stays the same never
\* loses sight of a ticket: Rule C reads only columns that no step changes.
THEOREM SightKept == Spec => SightIsKept
  <1>1. ASSUME ApartInv, [Next]_vars,
               NEW u \in Users, NEW t \in Tickets,
               tickets[t] # None, Sees(Principal(u), tickets[t]),
               users'[u].role = users[u].role
        PROVE  Sees(Principal(u), tickets[t])'
    <2>1. ColumnsKept
      BY <1>1, StepKeepsColumns
    <2>2. tickets[t] \in TicketRow
      BY <1>1 DEF ApartInv, TypeOK, Opt
    <2>3. /\ tickets'[t].org = tickets[t].org
          /\ tickets'[t].user = tickets[t].user
          /\ tickets'[t].property = tickets[t].property
          /\ tickets'[t].contract = tickets[t].contract
      BY <1>1, <2>1 DEF ColumnsKept
    <2>4. tickets[t].contract # None =>
            contracts'[tickets[t].contract].tenant = contracts[tickets[t].contract].tenant
      BY <1>1, <2>1, <2>2 DEF ColumnsKept, ApartInv, Referenced, TicketRow, Opt
    <2>5. tickets[t].property # None =>
            properties'[tickets[t].property].owner = properties[tickets[t].property].owner
      BY <1>1, <2>1, <2>2 DEF ColumnsKept, ApartInv, Referenced, TicketRow, Opt
    <2>6. QED
      BY <1>1, <2>3, <2>4, <2>5 DEF Sees, Principal, Owns
  <1>2. ApartInv /\ [Next]_vars =>
          [\A u \in Users, t \in Tickets :
              (/\ tickets[t] # None
               /\ Sees(Principal(u), tickets[t])
               /\ users'[u].role = users[u].role)
              => Sees(Principal(u), tickets[t])']_vars
    BY <1>1
  <1>3. QED BY <1>2, ApartInit, ApartStep, PTL DEF Spec, SightIsKept

=============================================================================
