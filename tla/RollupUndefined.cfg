\* A counterexample: the average of a day becomes undefined and keeps its row.
CONSTANTS
    t1 = t1  t2 = t2  c1 = c1  s1 = s1  s2 = s2
    Tickets = {t1}
    Chats = {c1}
    Suggested = {}
    Families <- SlaFamily
    Dues = {}
    Offsets <- East
    Lookback = 2
    DayLen = 2
    Delay = 0
    PassTries = 1
    MaxDay = 3
    MaxChanges = 4
    MaxFailures = 0
    Fragile = {}
    Null = Null
SPECIFICATION RollupSpec
INVARIANT UndefinedIsNotStored
CHECK_DEADLOCK FALSE
