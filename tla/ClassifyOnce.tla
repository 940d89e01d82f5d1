---------------------------- MODULE ClassifyOnce ----------------------------
(***************************************************************************)
(* What asynchronous classification promises about a ticket, whatever the  *)
(* queue loses or delivers twice: the classifier's verdict is decided at   *)
(* most once, it is stored together with the ticket's taxonomy in one      *)
(* step, and afterwards only staff recategorise the ticket and never back  *)
(* to an empty taxonomy.  Fair behaviours decide every ticket.             *)
(***************************************************************************)
CONSTANTS Tickets, Categories, Urgencies, None

Taxonomy == [category: Categories \cup {None}, urgency: Urgencies \cup {None}]

Verdict(c, u) == [category |-> c, urgency |-> u]

Undecided == Verdict(None, None)

VARIABLES
    known,      \* tickets that exist
    verdict,    \* what the classifier said, Undecided before
    taxonomy    \* the ticket's own category and urgency

vars == <<known, verdict, taxonomy>>

Init ==
    /\ known = {}
    /\ verdict = [t \in Tickets |-> Undecided]
    /\ taxonomy = [t \in Tickets |-> Undecided]

\* The ticket is reported, with or without a taxonomy.
Report(t) ==
    /\ t \notin known
    /\ known' = known \cup {t}
    /\ \E x \in Taxonomy : taxonomy' = [taxonomy EXCEPT ![t] = x]
    /\ UNCHANGED verdict

\* The one decision of the classifier.
Decide(t) ==
    /\ t \in known
    /\ verdict[t] = Undecided
    /\ \E c \in Categories, u \in Urgencies :
          /\ verdict' = [verdict EXCEPT ![t] = Verdict(c, u)]
          /\ taxonomy' = [taxonomy EXCEPT ![t] = Verdict(c, u)]
    /\ UNCHANGED known

\* A staff member chooses another taxonomy.
Recategorise(t) ==
    /\ t \in known
    /\ \E x \in Taxonomy :
          /\ verdict[t] # Undecided => x.category # None /\ x.urgency # None
          /\ taxonomy' = [taxonomy EXCEPT ![t] = x]
    /\ UNCHANGED <<known, verdict>>

Next == \E t \in Tickets : Report(t) \/ Decide(t) \/ Recategorise(t)

Spec == Init /\ [][Next]_vars

FairSpec == Spec /\ \A t \in Tickets : WF_vars(Decide(t))

=============================================================================
