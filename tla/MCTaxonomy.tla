----------------------------- MODULE MCTaxonomy -----------------------------
(* Instances of Taxonomy for TLC. *)
EXTENDS Taxonomy, TLC

CONSTANTS c1, c2, t1, t2, a1, a2, w1, w2

Symmetry == Permutations({c1, c2}) \cup Permutations({t1, t2})
              \cup Permutations({a1, a2}) \cup Permutations({w1, w2})

=============================================================================
