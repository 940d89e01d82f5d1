----------------------------- MODULE MCRollup -----------------------------
(* Instances of Rollup for TLC. *)
EXTENDS Rollup, TLC

CONSTANTS t1, t2, c1, s1, s2

WestAndEast == {-1, 1}

East == {1}

SlaFamily == <<"sla">>

RagFamily == <<"rag">>

AllFamilies == <<"tickets", "sla", "chat", "classifier", "rag">>

=============================================================================
