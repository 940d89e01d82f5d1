\* Three mails delivered three times in all, two tickets, one reply with two tries.
CONSTANTS
    m1 = m1  m2 = m2  m3 = m3  t1 = t1  t2 = t2  o1 = o1  o2 = o2  h1 = h1  h2 = h2

    Mails = {m1, m2, m3}
    Replies = {o1}
    Tickets = {t1, t2}
    Senders = {"ann"}
    Subjects = {"leak"}
    Known = {"none", "owner", "elsewhere"}
    Hooks = {h1, h2}
    MaxTries = 2
    MaxDeliveries = 3
    None = None
SPECIFICATION Spec
SYMMETRY EmailSymmetry
INVARIANTS FiledOnce ThreadKeepsAll AnswersStayInThread CopiesAreExplained
CHECK_DEADLOCK FALSE
