\* NoDuplicateTurn against the code.
CONSTANTS
    m1 = m1  m2 = m2  s1 = s1  s2 = s2  h1 = h1  h2 = h2  j1 = j1  j2 = j2  r1 = r1  r2 = r2
    Messages = {m1, m2}
    Sessions = {s1, s2}
    Hooks = {h1, h2}
    Jobs = {j1}
    Replies = {r1}
    RingCap = 2
    DeferredCap = 1
    Limit = 1
    IdleAfter = 0
    WindowAfter = 1
    MaxNow = 2
    MaxDeliveries = 3
    MaxDeferrals = 2
    Nothing = Nothing
SPECIFICATION WhatsAppSpec
SYMMETRY WhatsAppSymmetry
INVARIANT NoDuplicateTurn
CHECK_DEADLOCK FALSE
