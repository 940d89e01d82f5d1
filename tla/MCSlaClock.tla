----------------------------- MODULE MCSlaClock -----------------------------
(* Instances of SlaClock for TLC. *)
EXTENDS SlaClock

Span(n) == {w \in (0..n) \X (0..n) : w[1] < w[2]}

\* Days with up to two windows.
ShortDays(n) ==
    {<<>>} \cup {<<w>> : w \in Span(n)}
           \cup {<<v, w>> : v, w \in Span(n)}

\* The windows of a day in the order of their begin.
InOrder(s) == \A d \in Weekdays : Len(s[d]) = 2 => s[d][1][1] <= s[d][2][1]

\* Two-day weeks of three-tick days.
SortedWeeks == {s \in [Weekdays -> ShortDays(DayLength)] : InOrder(s)}

\* One day of the week with the afternoon written before the morning.
AfternoonFirst == {[d \in Weekdays |-> <<<<3, 4>>, <<1, 2>>>>]}

\* Windows that end on the half of the repeated hour.
HalfHours == {[d \in Weekdays |-> <<<<0, 2>>, <<4, 6>>>>]}

\* Open for one hour on one day of the week.
OneHourAWeek == {[d \in Weekdays |-> IF d = 0 THEN <<<<9, 10>>>> ELSE <<>>]}

\* DST changes.
NoChange == {[day |-> 0, at |-> 0, by |-> 0]}
SpringAndFall == {[day |-> 1, at |-> 1, by |-> 1], [day |-> 1, at |-> 2, by |-> -1]}
FallBackTwoTicks == {[day |-> 0, at |-> 3, by |-> -2]}

=============================================================================
