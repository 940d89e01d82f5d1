\* A counterexample: two suggestions used on a day that made one of them.
CONSTANTS
    t1 = t1  t2 = t2  c1 = c1  s1 = s1  s2 = s2
    Tickets = {}
    Chats = {}
    Suggested = {s1, s2}
    Families <- RagFamily
    Dues = {}
    Offsets <- East
    Lookback = 2
    DayLen = 2
    Delay = 0
    PassTries = 1
    MaxDay = 3
    MaxChanges = 4
    MaxFailures = 0
    Fragile = {}
    Null = Null
SPECIFICATION RollupSpec
INVARIANT UsageIsAFraction
CHECK_DEADLOCK FALSE
