\* A revoked token is presented while its family is live.
CONSTANTS
    u1 = u1  k1 = k1  k2 = k2  k3 = k3  i1 = i1  i2 = i2  s1 = s1  s2 = s2
    None = None
    Users = {u1}
    Tokens = {k1, k2, k3}
    Invites = {i1, i2}
    Sessions = {s1, s2}
SPECIFICATION Spec
INVARIANT ReuseRevokesFamily
CHECK_DEADLOCK FALSE
