\* One user, two invitations, three tokens (a family that rotates twice, or two
\* families), two concurrent requests.  The ids run out.
CONSTANTS
    u1 = u1  k1 = k1  k2 = k2  k3 = k3  i1 = i1  i2 = i2  s1 = s1  s2 = s2
    None = None
    Users = {u1}
    Tokens = {k1, k2, k3}
    Invites = {i1, i2}
    Sessions = {s1, s2}
SPECIFICATION Spec
SYMMETRY AuthSymmetry
INVARIANTS OneLivePerFamily OneUsedInvite NoWaitCycle
CHECK_DEADLOCK FALSE
