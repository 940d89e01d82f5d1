\* A window ends inside the repeated hour (two ticks of half an hour).
CONSTANTS
    DayLength = 8
    WeekLength = 1
    MaxWalkDays = 8
    Changes <- FallBackTwoTicks
    Schedules <- HalfHours
    Starts = {0, 1, 2, 3, 4}
    SlaTicks = {1, 2, 3}
SPECIFICATION ClockSpec
INVARIANT DueIsExact
CHECK_DEADLOCK FALSE
