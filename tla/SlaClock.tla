------------------------------ MODULE SlaClock ------------------------------
(***************************************************************************)
(* compute_sla_due_at: the walk over an organization's business hours that *)
(* turns sla_hours into the instant a ticket is due, one window or one     *)
(* midnight per step, checked against a definition by counting.            *)
(*                                                                         *)
(* An instant is a number of ticks since UTC midnight of day 0, a local    *)
(* time a day, a wall-clock tick and a fold.  The zone has offset 0 until  *)
(* one DST change: on day change.day, at wall time change.at, the wall     *)
(* clock jumps by change.by ticks, forwards (a gap) or backwards (the      *)
(* ticks before `at` are repeated, with fold 1).  As in Python, times of   *)
(* one zone are compared by their wall clocks, a wall time in the gap is   *)
(* read with the offset before the change, and datetime.combine makes      *)
(* fold 0.                                                                 *)
(***************************************************************************)
EXTENDS Integers, Sequences, FiniteSets

CONSTANTS
    DayLength,    \* ticks of a day
    WeekLength,   \* days of a week
    MaxWalkDays,  \* MAX_WALK_DAYS
    Changes,      \* DST changes of the organizations' zones: [day, at, by]
    Schedules,    \* business_hours: for each day of the week, its windows
    Starts,       \* values of from_timestamp
    SlaTicks      \* values of sla_hours

Weekdays == 0..WeekLength - 1

\* Times of day are ticks of the day, and a change starts and ends on one day.
ASSUME ClockAssumption ==
    /\ DayLength \in Nat \ {0} /\ WeekLength \in Nat \ {0}
    /\ MaxWalkDays \in Nat \ {0}
    /\ \A c \in Changes : /\ c.day \in Nat /\ c.at \in 0..DayLength
                          /\ c.by \in Int /\ c.at + c.by \in 0..DayLength
    /\ Schedules \subseteq [Weekdays -> Seq((0..DayLength) \X (0..DayLength))]
    /\ Starts \subseteq Nat /\ SlaTicks \subseteq Nat \ {0}

Overlap(a, b) == a[1] < b[2] /\ b[1] < a[2]

\* parse_business_hours accepts the schedule.
Accepted(s) ==
    /\ \A d \in Weekdays : \A i \in 1..Len(s[d]) :
          /\ s[d][i][1] < s[d][i][2]
          /\ \A j \in i + 1..Len(s[d]) : ~Overlap(s[d][i], s[d][j])
    /\ \E d \in Weekdays : s[d] # <<>>

VARIABLES
    schedule, change,                \* the organization's hours and zone
    respects, start, sla,            \* the other arguments
    day, wall, fold,                 \* cursor
    window,                          \* next window of the day
    walked,                          \* days walked so far
    remaining,                       \* ticks still to accrue
    outcome,                         \* "walking", "due" or "exhausted"
    dueAt                            \* the result, 0 before there is one

clockVars == <<schedule, change, respects, start, sla, day, wall, fold, window, walked,
          remaining, outcome, dueAt>>

arguments == <<schedule, change, respects, start, sla>>

-----------------------------------------------------------------------------
(* Time zones (zoneinfo). *)

ChangeInstant == change.day * DayLength + change.at

\* Wall times from here on, on the day of the change, are unambiguously after it.
AfterChange(d, w) ==
    \/ d > change.day
    \/ d = change.day /\ w >= change.at + (IF change.by > 0 THEN change.by ELSE 0)

\* astimezone(UTC)
Utc(d, w, f) ==
    d * DayLength + w - (IF AfterChange(d, w) \/ f = 1 THEN change.by ELSE 0)

\* Ticks of local time since local midnight of day 0.
Local(x) == IF x < ChangeInstant THEN x ELSE x + change.by

LocalDay(x) == Local(x) \div DayLength

LocalWall(x) == Local(x) % DayLength

LocalFold(x) ==
    IF /\ x >= ChangeInstant
       /\ ~AfterChange(LocalDay(x), LocalWall(x))
      THEN 1 ELSE 0

-----------------------------------------------------------------------------
(* The walk. *)

Windows(d) == schedule[d % WeekLength]

ClockInit ==
    /\ schedule \in {s \in Schedules : Accepted(s)}
    /\ change \in Changes
    /\ respects \in BOOLEAN
    /\ start \in Starts /\ sla \in SlaTicks
    /\ day = LocalDay(start) /\ wall = LocalWall(start) /\ fold = LocalFold(start)
    /\ window = 1 /\ walked = 0
    /\ remaining = sla
    /\ outcome = "walking" /\ dueAt = 0

\* not respects_business_hours
Continuous ==
    /\ outcome = "walking" /\ ~respects
    /\ outcome' = "due" /\ dueAt' = start + sla
    /\ UNCHANGED <<arguments, day, wall, fold, window, walked, remaining>>

\* cursor >= window_end
Over(end) == wall >= end

\* Mutant: the cursor loses its fold.
EffectiveStartFold0(begin) == Utc(day, IF wall >= begin THEN wall ELSE begin, 0)

\* effective_start: the later wall clock, the cursor in case of a tie.
EffectiveStart(begin) ==
    IF wall >= begin THEN Utc(day, wall, fold) ELSE Utc(day, begin, 0)

\* Mutant: nominal wall-clock duration instead of real time.
AvailableNominal(begin, end) == end - (IF wall >= begin THEN wall ELSE begin)

Available(begin, end) == Utc(day, end, 0) - EffectiveStart(begin)

Fits(begin, end) == remaining <= Available(begin, end)

\* One iteration of the loop over the windows of the cursor's day.
WalkWindow ==
    LET begin == Windows(day)[window][1]  end == Windows(day)[window][2] IN
    /\ outcome = "walking" /\ respects /\ walked < MaxWalkDays
    /\ window <= Len(Windows(day))
    /\ \/ /\ Over(end)
          /\ window' = window + 1
          /\ UNCHANGED <<wall, fold, remaining, outcome, dueAt>>
       \/ /\ ~Over(end) /\ Fits(begin, end)
          /\ outcome' = "due" /\ dueAt' = EffectiveStart(begin) + remaining
          /\ UNCHANGED <<wall, fold, window, remaining>>
       \/ /\ ~Over(end) /\ ~Fits(begin, end)
          /\ remaining' = remaining - Available(begin, end)
          /\ wall' = end /\ fold' = 0
          /\ window' = window + 1
          /\ UNCHANGED <<outcome, dueAt>>
    /\ UNCHANGED <<arguments, day, walked>>

\* The next local midnight, an iteration of the outer loop.
NextDay ==
    /\ outcome = "walking" /\ respects /\ walked < MaxWalkDays
    /\ window > Len(Windows(day))
    /\ day' = day + 1 /\ wall' = 0 /\ fold' = 0
    /\ window' = 1
    /\ walked' = walked + 1
    /\ UNCHANGED <<arguments, remaining, outcome, dueAt>>

\* BusinessHoursExhaustedError
Exhaust ==
    /\ outcome = "walking" /\ respects /\ walked = MaxWalkDays
    /\ outcome' = "exhausted"
    /\ UNCHANGED <<arguments, day, wall, fold, window, walked, remaining, dueAt>>

ClockNext == Continuous \/ WalkWindow \/ NextDay \/ Exhaust

ClockSpec == ClockInit /\ [][ClockNext]_clockVars

-----------------------------------------------------------------------------
(* Properties. *)

\* The organization is open at instant x.
Open(x) ==
    \E i \in 1..Len(Windows(LocalDay(x))) :
        /\ Windows(LocalDay(x))[i][1] <= LocalWall(x)
        /\ LocalWall(x) < Windows(LocalDay(x))[i][2]

Accrued(a, b) == Cardinality({x \in a..b - 1 : Open(x)})

\* The variables keep their types, and the cursor is a time of its day.
ClockTypeOK ==
    /\ day \in Nat /\ wall \in 0..DayLength /\ fold \in {0, 1}
    /\ window \in Nat \ {0} /\ walked \in 0..MaxWalkDays
    /\ remaining \in 1..sla
    /\ outcome \in {"walking", "due", "exhausted"} /\ dueAt \in Nat

\* At every step of the walk, what is left to accrue and the real open time
\* between from_timestamp and the cursor make up sla_hours.
NothingLostOnTheWay ==
    (respects /\ outcome = "walking") =>
        remaining + Accrued(start, Utc(day, wall, fold)) = sla

\* "until `sla_hours` of REAL elapsed time ... has accrued": the due instant is
\* the first at which the organization has been open for sla_hours, also when
\* the clock changes in between.
DueIsExact ==
    (respects /\ outcome = "due") =>
        /\ Accrued(start, dueAt) = sla
        /\ Open(dueAt - 1)

-----------------------------------------------------------------------------
(* What the code's documentation says and the code does not do.  (DueIsExact    *)
(* is another case, for windows that are not sorted.)                           *)

\* MAX_WALK_DAYS: the bound "should be unreachable in practice" once
\* parse_business_hours has accepted the schedule.
NeverExhausted == outcome # "exhausted"

=============================================================================
