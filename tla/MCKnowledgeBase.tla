--------------------------- MODULE MCKnowledgeBase ---------------------------
(* Instances of KnowledgeBase for TLC. *)
EXTENDS KnowledgeBase, TLC

CONSTANTS a1, short, long, r1, r2, j1, j2

\* A text of one chunk and one of two.
ChunkCounts == short :> 1 @@ long :> 2

KbSymmetry == Permutations({r1, r2}) \cup Permutations({j1, j2})

=============================================================================
