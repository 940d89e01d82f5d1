------------------------------ MODULE MCTenancy ------------------------------
(* TLC instances of Tenancy. *)
EXTENDS Tenancy, TLC

CONSTANTS o1, o2, admin1, tenant1, owner1, admin2, owner2

MCUsers == {admin1, tenant1, owner1, admin2, owner2}

MCHome == [u \in MCUsers |-> IF u \in {admin2, owner2} THEN o2 ELSE o1]

MCRole == [u \in MCUsers |-> IF u \in {admin1, admin2} THEN "admin"
                             ELSE IF u = tenant1 THEN "tenant" ELSE "owner"]

\* An owner becomes a tenant, an admin is disabled, while requests of theirs run.
MCEdits == {[user |-> owner1, to |-> "tenant"], [user |-> admin1, to |-> "disabled"]}

Symmetry == Permutations(Requests) \cup Permutations(Properties)
=============================================================================
