\* One ticket, one chat, one suggestion; two commits and one failed family in three days.
CONSTANTS
    t1 = t1  t2 = t2  c1 = c1  s1 = s1  s2 = s2
    Tickets = {t1}
    Chats = {c1}
    Suggested = {s1}
    Families <- AllFamilies
    Dues = {3}
    Offsets <- WestAndEast
    Lookback = 2
    DayLen = 2
    Delay = 1
    PassTries = 1
    MaxDay = 3
    MaxChanges = 2
    MaxFailures = 1
    Fragile = {"chat"}
    Null = Null
SPECIFICATION RollupSpec
INVARIANTS StoredIsExact EachCountedOnce NoGap
CHECK_DEADLOCK FALSE
