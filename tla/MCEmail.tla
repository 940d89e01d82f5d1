------------------------------ MODULE MCEmail ------------------------------
(* Instances of Email for TLC. *)
EXTENDS Email

CONSTANTS m1, m2, m3, t1, t2, o1, o2, h1, h2

EmailSymmetry ==
    Permutations({m1, m2, m3}) \cup Permutations({t1, t2}) \cup Permutations({o1, o2})
        \cup Permutations({h1, h2})

=============================================================================
