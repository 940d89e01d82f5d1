\* Two turns at a time, four in all, up to three tickets.
CONSTANTS
    t1 = t1  t2 = t2  k1 = k1  k2 = k2  k3 = k3
    Turns = {t1, t2}
    Tickets = {k1, k2, k3}
    MaxClock = 4
    None = None
SPECIFICATION Spec
SYMMETRY ChatSymmetry
INVARIANTS EscalatedHasTicket StreakIsTrailing
PROPERTIES StaleTurnsUndoNothing EscalatesOnce
CHECK_DEADLOCK FALSE
