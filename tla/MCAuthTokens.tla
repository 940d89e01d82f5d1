---------------------------- MODULE MCAuthTokens ----------------------------
(* Instances of AuthTokens for TLC. *)
EXTENDS AuthTokens, TLC

CONSTANTS u1, k1, k2, k3, i1, i2, s1, s2

AuthSymmetry == Permutations({k1, k2, k3}) \cup Permutations({i1, i2})
                    \cup Permutations({s1, s2})

=============================================================================
