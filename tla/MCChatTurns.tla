----------------------------- MODULE MCChatTurns -----------------------------
(* Instances of ChatTurns for TLC. *)
EXTENDS ChatTurns, TLC

CONSTANTS t1, t2, k1, k2, k3

ChatSymmetry == Permutations({t1, t2}) \cup Permutations({k1, k2, k3})

=============================================================================
