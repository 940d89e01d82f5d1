SPECIFICATION Spec
CONSTANTS
    None = None
    o1 = o1
    o2 = o2
    admin1 = admin1
    tenant1 = tenant1
    owner1 = owner1
    admin2 = admin2
    owner2 = owner2
    Orgs = {o1, o2}
    Users <- MCUsers
    Home <- MCHome
    StartRole <- MCRole
    Properties = {p1, p2}
    Contracts = {c1}
    Tickets = {k1}
    Requests = {r1, r2}
    UserEdits <- MCEdits
INVARIANTS OrganizationsStayApart
PROPERTIES SightIsKept
SYMMETRY Symmetry
