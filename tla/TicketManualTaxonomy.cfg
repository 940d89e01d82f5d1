SPECIFICATION Spec
CONSTANTS
    None = None
    c1 = c1
    c2 = c2
    u1 = u1
    u2 = u2
    a1 = a1
    Tickets = {t1}
    Categories = {c1, c2}
    Urgencies = {u1, u2}
    Hours = {1}
    Agents = {a1}
    Requests = {r1}
    Jobs = {j1}
    Payloads <- FewBodies
    MaxTries = 1
    MaxResolved = 1
PROPERTY ManualTaxonomyBypassesWorker
