----------------------------- MODULE MCWhatsApp -----------------------------
(* Instances of WhatsApp for TLC. *)
EXTENDS WhatsApp, TLC

CONSTANTS m1, m2, s1, s2, h1, h2, j1, j2, r1, r2

WhatsAppSymmetry ==
    Permutations({m1, m2}) \cup Permutations({s1, s2}) \cup Permutations({h1, h2})
        \cup Permutations({j1, j2}) \cup Permutations({r1, r2})

=============================================================================
