-------------------------- MODULE MCTicketLifecycle --------------------------
(* TLC instances of TicketLifecycle. *)
EXTENDS TicketLifecycle, TLC

CONSTANTS c1, c2, u1, u2, a1

Body(s, a, c, u) == [status |-> s, agent |-> a, category |-> c, urgency |-> u]

\* Status changes into, between and out of the terminal statuses.
StatusBodies == {Body("open", None, None, None), Body("resolved", None, None, None),
                 Body("closed", None, None, None), Body(None, a1, None, None)}

\* A category alone, an urgency with a terminal status, the other terminal one.
MixedBodies == {Body(None, None, c1, None), Body("resolved", None, None, u1),
                Body("closed", a1, None, None)}

\* Everything at once, next to the chatbot's escalations.
ClosingBody == {Body("closed", a1, c1, u1)}

\* One manual classification and one assignment.
FewBodies == {Body(None, None, c1, u1), Body("closed", a1, None, None)}

\* Bounds of Tickets.cfg.  Two requests and a job, or a request and two jobs; the
\* hours of an urgency level change at most once, at any time.
AtMostThreeAtOnce ==
    Cardinality({r \in Requests : requests[r].phase # "idle"})
        + Cardinality({j \in Jobs : jobs[j].state # "free"}) <= 3

HoursOnlyRise == \A u \in Urgencies : sla_hours'[u] >= sla_hours[u]

Symmetry == Permutations(Requests) \cup Permutations(Jobs)
=============================================================================
