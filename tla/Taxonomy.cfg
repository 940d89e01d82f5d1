\* Two DELETEs and two writers over two tickets: enough for every cycle of waits.
\* The run ends when every row is deleted and every ticket classified.
CONSTANTS
    c1 = c1  c2 = c2  t1 = t1  t2 = t2  a1 = a1  a2 = a2  w1 = w1  w2 = w2
    None = None
    Rows = {c1, c2}
    Seeded = {}
    Tickets = {t1, t2}
    Admins = {a1, a2}
    Writers = {w1, w2}
SPECIFICATION Spec
SYMMETRY Symmetry
INVARIANTS NoDangling RequestsNeverDeadlock
PROPERTY DeactivationHolds
CHECK_DEADLOCK FALSE
