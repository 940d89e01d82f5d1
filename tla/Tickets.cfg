SPECIFICATION FairSpec
CONSTANTS
    None = None
    c1 = c1
    c2 = c2
    u1 = u1
    u2 = u2
    a1 = a1
    Tickets = {t1}
    Categories = {c1, c2}
    Urgencies = {u1}
    Hours = {1, 2}
    Agents = {a1}
    Requests = {r1, r2}
    Jobs = {j1, j2}
    Payloads <- ClosingBody
    MaxTries = 2
    MaxResolved = 1
CONSTRAINT AtMostThreeAtOnce
ACTION_CONSTRAINT HoursOnlyRise
INVARIANTS ClassifiedIffPredicted NoLockCycle PatchNeverUnclassifies DeadlineIffUrgency TerminalIsRecorded
PROPERTIES ClassifiesOnce PendingGetsClassified
