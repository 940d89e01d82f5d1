\* The deadline moves between 10 and 12 under two passes that overlap, fail and
\* crash: at instant 10 the one is breached, the other only warned of.
CONSTANTS
    t1 = t1  t2 = t2  admin = admin  p1 = p1  p2 = p2
    None = None
    Tickets = {t1}
    Users = {admin}
    Admins = {admin}
    Deadlines = {10, 12}
    Instants = {0, 10}
    Passes = {p1, p2}
SPECIFICATION FairSpec
INVARIANTS NotifiedOnce AdminsAreTold
PROPERTIES EventsAreFinal OverdueGetsBreached
