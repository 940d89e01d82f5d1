\* The afternoon window is listed before the morning one.
CONSTANTS
    DayLength = 5
    WeekLength = 1
    MaxWalkDays = 8
    Changes <- NoChange
    Schedules <- AfternoonFirst
    Starts = {0, 1, 2, 3, 4}
    SlaTicks = {1, 2, 3}
SPECIFICATION ClockSpec
INVARIANT DueIsExact
CHECK_DEADLOCK FALSE
