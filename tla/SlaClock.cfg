\* Every week of two three-tick days with sorted windows; on day 1 the clock
\* skips or repeats a tick.
CONSTANTS
    DayLength = 3
    WeekLength = 2
    MaxWalkDays = 8
    Changes <- SpringAndFall
    Schedules <- SortedWeeks
    Starts = {0, 1, 2, 3, 4, 5}
    SlaTicks = {1, 2, 3, 4}
SPECIFICATION ClockSpec
INVARIANTS NothingLostOnTheWay DueIsExact
CHECK_DEADLOCK FALSE
