SPECIFICATION Spec
CONSTANTS
    None = None
    c1 = c1
    c2 = c2
    u1 = u1
    u2 = u2
    a1 = a1
    Tickets = {t1}
    Categories = {c1}
    Urgencies = {u1}
    Hours = {1}
    Agents = {a1}
    Requests = {r1, r2}
    Jobs = {j1}
    Payloads <- StatusBodies
    MaxTries = 1
    MaxResolved = 2
INVARIANT StatusWritesMatchClosedCheck
