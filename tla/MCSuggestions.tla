---------------------------- MODULE MCSuggestions ----------------------------
(* Instances of Suggestions and Summaries for TLC. *)
EXTENDS Summaries, TLC

CONSTANTS r1, r2, p1, p2, e1, e2

SuggestionsSymmetry ==
    Permutations({r1, r2}) \cup Permutations({p1, p2}) \cup Permutations({e1, e2})

=============================================================================
