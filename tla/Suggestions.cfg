\* Two requests and two messages at a time, three transactions in all, while the
\* ticket is resolved twice.
CONSTANTS
    r1 = r1  r2 = r2  p1 = p1  p2 = p2  e1 = e1  e2 = e2
    Requests = {r1, r2}
    Posts = {p1, p2}
    MaxClock = 3
    Embeds = {e1, e2}
    EmbedTries = 2
SPECIFICATION SummarySpec
SYMMETRY SuggestionsSymmetry
INVARIANTS ThreadStandsStill DraftsAreJustified SummaryCoversResolutions
CHECK_DEADLOCK FALSE
