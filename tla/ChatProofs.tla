--------------------------- MODULE ChatProofs --------------------------------
(* Theorems about ChatTurns, for any number of turns, overlapping or not, and *)
(* about WhatsApp, for any number of messages, requests, jobs and replies.     *)
EXTENDS ChatTurns, WhatsApp, FiniteSetTheorems, TLAPS

\* A ticket that is committed.
Real(k) == k \in Tickets /\ tickets[k] # "none"

\* What the row `older` has is not missing from the row `newer`.
Kept(older, newer) ==
    /\ older.status = "escalated" => newer.status = "escalated"
    /\ older.ticket # None => newer.ticket # None
    /\ older.escalatedAt # None => newer.escalatedAt # None

\* Only an escalation stamps a row.
StampedByEscalation(row) == row.escalatedAt # None => row.status = "escalated"

\* What is true of an open turn q at place t, however stale the row it loaded is.
TurnSound(t, q) ==
    /\ q.phase = "open" /\ q.at \in Instants
    /\ Kept(q.loaded, session) /\ Kept(q.loaded, q.mine)
    /\ q.loaded.escalatedAt # None => q.mine.escalatedAt = q.loaded.escalatedAt
    /\ StampedByEscalation(q.loaded) /\ StampedByEscalation(q.mine)
    /\ q.mine.ticket # None => q.mine.ticket \in q.created \/ Real(q.mine.ticket)
    /\ \A k \in q.created : /\ tickets[k] = "none"
                            /\ \A s \in Turns \ {t} : k \notin turns[s].created
    /\ \A k \in q.raised : k \in q.created \/ Real(k)
    /\ identified /\ q.mine.status = "escalated" =>
          /\ q.mine.ticket # None
          /\ q.raised # {} \/ q.loaded.status = "escalated"
    /\ q.filed # {} => identified /\ q.loaded.ticket = None
    /\ ~overlap => q.loaded = session

\* Open turns are sound and have not touched the streak; without overlap there is
\* one at a time.
TurnsSound ==
    /\ \A t \in Turns :
        \/ turns[t] = NoTurn
        \/ TurnSound(t, turns[t]) /\ turns[t].mine.streak = turns[t].loaded.streak
    /\ ~overlap => \A s, t \in Turns :
                      turns[s].phase = "open" /\ turns[t].phase = "open" => s = t

\* The stored row: its ticket exists, only an escalation stamped it.
SessionSound ==
    /\ StampedByEscalation(session)
    /\ session.ticket # None => Real(session.ticket)
    /\ EscalatedHasTicket

\* The inductive invariant.
ChatInv == TypeOK /\ TurnsSound /\ SessionSound

-----------------------------------------------------------------------------

\* The record of a turn that is not under way.
LEMMA NoTurnType ==
    /\ NewSession \in SessionRow /\ NoTurn \in Turn
    /\ NoTurn.phase = "idle" /\ NoTurn.created = {}
  BY DEF NewSession, SessionRow, NoTurn, Turn, Opt

\* The columns an escalation writes and the tickets it takes.
LEMMA EscalateColumns ==
    ASSUME NEW q \in Turn, NEW k \in Tickets, q.at \in Instants
    PROVE  LET e == Escalate(q, k)
               new == identified /\ q.mine.ticket = None
               ticket == IF new THEN k ELSE q.mine.ticket
           IN  /\ e \in Turn
               /\ e.phase = q.phase /\ e.at = q.at /\ e.loaded = q.loaded
               /\ e.mine \in SessionRow
               /\ e.mine.status = "escalated" /\ e.mine.ticket = ticket
               /\ e.mine.streak = q.mine.streak
               /\ e.mine.escalatedAt = IF q.mine.escalatedAt = None THEN q.at
                                       ELSE q.mine.escalatedAt
               /\ e.created = IF new THEN q.created \cup {k} ELSE q.created
               /\ e.filed = IF new THEN q.filed \cup {k} ELSE q.filed
               /\ e.raised = IF identified THEN q.raised \cup {ticket} ELSE q.raised
  <1> DEFINE new == identified /\ q.mine.ticket = None
             ticket == IF new THEN k ELSE q.mine.ticket
             row == Stamp(q.mine, q.at)
             mine == [row EXCEPT !.status = "escalated", !.ticket = ticket]
  <1>0. /\ q.mine \in SessionRow /\ q.created \in SUBSET Tickets
        /\ q.filed \in SUBSET Tickets /\ q.raised \in SUBSET Tickets
        /\ q.mine.ticket \in Opt(Tickets)
    BY DEF Turn, SessionRow
  <1>1. /\ row \in SessionRow /\ row.streak = q.mine.streak
        /\ row.escalatedAt = IF q.mine.escalatedAt = None THEN q.at ELSE q.mine.escalatedAt
    BY <1>0 DEF Stamp, SessionRow, Opt
  <1>2. ticket \in Opt(Tickets) /\ (identified => ticket \in Tickets)
    BY <1>0 DEF Opt
  <1> HIDE DEF row, ticket
  <1>3. /\ mine \in SessionRow /\ mine.status = "escalated" /\ mine.ticket = ticket
        /\ mine.streak = row.streak /\ mine.escalatedAt = row.escalatedAt
    BY <1>1, <1>2 DEF SessionRow
  <1> HIDE DEF mine
  <1>4. Escalate(q, k) = [q EXCEPT !.mine = mine,
                  !.created = IF new THEN @ \cup {k} ELSE @,
                  !.filed = IF new THEN @ \cup {k} ELSE @,
                  !.raised = IF identified THEN @ \cup {ticket} ELSE @]
    BY DEF Escalate, mine, row, ticket
  <1> DEFINE created == IF new THEN q.created \cup {k} ELSE q.created
             files == IF new THEN q.filed \cup {k} ELSE q.filed
             raised == IF identified THEN q.raised \cup {ticket} ELSE q.raised
  <1>5. created \in SUBSET Tickets /\ files \in SUBSET Tickets /\ raised \in SUBSET Tickets
    BY <1>0, <1>2
  <1>6. Escalate(q, k) = [q EXCEPT !.mine = mine, !.created = created, !.filed = files,
                                   !.raised = raised]
    BY <1>4 DEF Turn
  <1> HIDE DEF created, files, raised
  <1>7. LET e == Escalate(q, k) IN
        /\ e \in Turn
        /\ e.phase = q.phase /\ e.at = q.at /\ e.loaded = q.loaded
        /\ e.mine = mine /\ e.created = created /\ e.filed = files /\ e.raised = raised
    BY <1>3, <1>5, <1>6 DEF Turn
  <1>8. QED
    BY <1>1, <1>3, <1>7 DEF created, files, raised, ticket

\* An escalation of a sound turn leaves it sound.
LEMMA EscalateSound ==
    ASSUME TypeOK, NEW t \in Turns, NEW q \in Turn, TurnSound(t, q), NEW k \in Tickets,
           identified /\ q.mine.ticket = None =>
               tickets[k] = "none" /\ \A s \in Turns \ {t} : k \notin turns[s].created
    PROVE  TurnSound(t, Escalate(q, k))
  <1> DEFINE e == Escalate(q, k)
  <1>1. q.at \in Instants /\ q.at # None /\ k # None
    BY ChatTurnsAssumption DEF TurnSound, Instants
  <1>2. LET new == identified /\ q.mine.ticket = None
            ticket == IF new THEN k ELSE q.mine.ticket
        IN  /\ e.phase = q.phase /\ e.at = q.at /\ e.loaded = q.loaded
            /\ e.mine.status = "escalated" /\ e.mine.ticket = ticket
            /\ e.mine.escalatedAt = IF q.mine.escalatedAt = None THEN q.at
                                    ELSE q.mine.escalatedAt
            /\ e.created = IF new THEN q.created \cup {k} ELSE q.created
            /\ e.filed = IF new THEN q.filed \cup {k} ELSE q.filed
            /\ e.raised = IF identified THEN q.raised \cup {ticket} ELSE q.raised
    BY <1>1, EscalateColumns
  <1> HIDE DEF e
  <1>3. /\ e.phase = "open" /\ e.at \in Instants
        /\ Kept(e.loaded, session) /\ Kept(e.loaded, e.mine)
        /\ e.loaded.escalatedAt # None => e.mine.escalatedAt = e.loaded.escalatedAt
        /\ StampedByEscalation(e.loaded) /\ StampedByEscalation(e.mine)
        /\ ~overlap => e.loaded = session
    BY <1>1, <1>2 DEF TurnSound, Kept, StampedByEscalation
  <1>4. /\ e.mine.ticket # None => e.mine.ticket \in e.created \/ Real(e.mine.ticket)
        /\ \A i \in e.created : /\ tickets[i] = "none"
                                /\ \A s \in Turns \ {t} : i \notin turns[s].created
        /\ \A i \in e.raised : i \in e.created \/ Real(i)
    BY <1>1, <1>2 DEF TurnSound
  <1>5. /\ identified => e.mine.ticket # None /\ e.raised # {}
        /\ e.filed # {} => identified /\ e.loaded.ticket = None
    BY <1>1, <1>2 DEF TurnSound, Kept
  <1>6. QED BY <1>3, <1>4, <1>5 DEF TurnSound, e

\* The record that a commit writes back: sound, and its streak is the loaded one
\* plus one, or zero.
LEMMA AnswerSound ==
    ASSUME TypeOK, NEW t \in Turns, NEW q \in Turn, TurnSound(t, q),
           NEW k \in Tickets, NEW low \in BOOLEAN,
           identified /\ q.mine.ticket = None =>
               tickets[k] = "none" /\ \A s \in Turns \ {t} : k \notin turns[s].created
    PROVE  /\ Answer(q, low, k) \in Turn
           /\ TurnSound(t, Answer(q, low, k))
           /\ Answer(q, low, k).mine.streak = IF low /\ q.mine.streak = 0 THEN 1 ELSE 0
  <1> DEFINE streak == IF low THEN q.mine.streak + 1 ELSE 0
  <1>0. q.mine \in SessionRow /\ q.mine.streak \in 0..1
    BY DEF Turn, SessionRow
  <1>1. CASE streak >= 2
    <2> DEFINE e == Escalate(q, k)
               a == [e EXCEPT !.mine.streak = 0]
    <2>1. q.at \in Instants
      BY DEF TurnSound
    <2>2. e \in Turn /\ TurnSound(t, e)
      BY <2>1, EscalateColumns, EscalateSound
    <2> HIDE DEF e
    <2>3. e.mine \in SessionRow
      BY <2>2 DEF Turn
    <2>4. /\ a \in Turn /\ a.phase = e.phase /\ a.at = e.at /\ a.loaded = e.loaded
          /\ a.mine.status = e.mine.status /\ a.mine.ticket = e.mine.ticket
          /\ a.mine.escalatedAt = e.mine.escalatedAt /\ a.mine.streak = 0
          /\ a.created = e.created /\ a.filed = e.filed /\ a.raised = e.raised
      BY <2>2, <2>3 DEF Turn, SessionRow
    <2>5. Answer(q, low, k) = a
      BY <1>1 DEF Answer, e
    <2> HIDE DEF a
    <2>6. TurnSound(t, a)
      BY <2>2, <2>4 DEF TurnSound, Kept, StampedByEscalation
    <2>7. QED BY <1>0, <1>1, <2>4, <2>5, <2>6
  <1>2. CASE ~(streak >= 2)
    <2> DEFINE a == [q EXCEPT !.mine.streak = streak]
    <2>1. streak \in 0..1
      BY <1>0, <1>2
    <2> HIDE DEF streak
    <2>2. /\ a \in Turn /\ a.phase = q.phase /\ a.at = q.at /\ a.loaded = q.loaded
          /\ a.mine.status = q.mine.status /\ a.mine.ticket = q.mine.ticket
          /\ a.mine.escalatedAt = q.mine.escalatedAt /\ a.mine.streak = streak
          /\ a.created = q.created /\ a.filed = q.filed /\ a.raised = q.raised
      BY <1>0, <2>1 DEF Turn, SessionRow
    <2>3. Answer(q, low, k) = a
      BY <1>2 DEF Answer, streak
    <2> HIDE DEF a
    <2>4. TurnSound(t, a)
      BY <2>2 DEF TurnSound, Kept, StampedByEscalation
    <2>5. QED BY <1>0, <1>2, <2>2, <2>3, <2>4 DEF streak
  <1>3. QED BY <1>1, <1>2

-----------------------------------------------------------------------------

\* A step of one turn that commits nothing keeps the invariant if the turn ends or
\* stays sound, and overlaps another only where turns may overlap.
LEMMA TurnKeeps ==
    ASSUME ChatInv, NEW t \in Turns, NEW q \in Turn,
           UNCHANGED <<fixed, session, tickets, filed, history>>,
           clock' \in 0..MaxClock,
           turns' = [turns EXCEPT ![t] = q],
           q = NoTurn \/ (TurnSound(t, q) /\ q.mine.streak = q.loaded.streak),
           ~overlap /\ q.phase = "open" => \A s \in Turns \ {t} : turns[s].phase # "open"
    PROVE  ChatInv'
  <1>0. /\ turns \in [Turns -> Turn] /\ TypeOK /\ TurnsSound
        /\ q.phase = "open" \/ q = NoTurn
    BY DEF ChatInv, TypeOK, TurnSound
  <1>1. TypeOK'
    BY <1>0 DEF TypeOK, fixed
  <1>2. SessionSound'
    BY DEF ChatInv, SessionSound, EscalatedHasTicket, StampedByEscalation, Real, fixed
  <1>3. ASSUME NEW s \in Turns
        PROVE  \/ turns'[s] = NoTurn
               \/ /\ TurnSound(s, turns[s])'
                  /\ turns'[s].mine.streak = turns'[s].loaded.streak
    <2>1. CASE s = t
      BY <1>0, <2>1 DEF TurnSound, Kept, StampedByEscalation, Real, fixed
    <2>2. CASE s # t
      BY <1>0, <2>2, NoTurnType
      DEF TurnsSound, TurnSound, Kept, StampedByEscalation, Real, fixed
    <2>3. QED BY <2>1, <2>2
  <1>4. ~overlap' => \A s, v \in Turns :
            turns'[s].phase = "open" /\ turns'[v].phase = "open" => s = v
    BY <1>0, NoTurnType DEF TurnsSound, fixed
  <1>5. TurnsSound'
    BY <1>3, <1>4 DEF TurnsSound
  <1>6. QED BY <1>1, <1>2, <1>5 DEF ChatInv

\* What a commit leaves: the row never loses a column, an existing ticket never
\* goes away, and the tickets other turns will create are untouched.
LEMMA CommitFacts ==
    ASSUME ChatInv, NEW t \in Turns, NEW low \in BOOLEAN, NEW k \in Tickets,
           Commit(t, low, k)
    PROVE  LET q == Answer(turns[t], low, k) IN
           /\ q \in Turn /\ TurnSound(t, q)
           /\ q.mine.streak = IF low /\ turns[t].mine.streak = 0 THEN 1 ELSE 0
           /\ Kept(session, session') /\ session' \in SessionRow
           /\ tickets' \in [Tickets -> {"none", "open", "escalated"}]
           /\ \A i \in Tickets : tickets[i] # "none" => tickets'[i] # "none"
           /\ \A i \in Tickets : tickets[i] = "escalated" => tickets'[i] = "escalated"
           /\ \A i \in q.raised : tickets'[i] = "escalated"
           /\ \A i \in q.created : tickets'[i] # "none"
           /\ \A i \in Tickets : tickets[i] = "none" /\ i \notin q.created =>
                  tickets'[i] = "none"
  <1> DEFINE q == Answer(turns[t], low, k)
  <1>0. /\ TypeOK /\ turns[t] \in Turn /\ turns[t].phase = "open" /\ TurnSound(t, turns[t])
        /\ turns[t].mine.streak = turns[t].loaded.streak
    BY NoTurnType DEF ChatInv, TypeOK, TurnsSound, Commit
  <1>1. /\ identified /\ turns[t].mine.ticket = None =>
               tickets[k] = "none" /\ \A s \in Turns \ {t} : k \notin turns[s].created
    BY DEF Commit, WouldFile, Unused
  <1>2. /\ q \in Turn /\ TurnSound(t, q)
        /\ q.mine.streak = IF low /\ turns[t].mine.streak = 0 THEN 1 ELSE 0
    BY <1>0, <1>1, AnswerSound
  <1>3. /\ session' =
             [status |-> Flushed(q.mine.status, q.loaded.status, session.status),
              ticket |-> Flushed(q.mine.ticket, q.loaded.ticket, session.ticket),
              streak |-> Flushed(q.mine.streak, q.loaded.streak, session.streak),
              escalatedAt |-> Flushed(q.mine.escalatedAt, q.loaded.escalatedAt,
                                      session.escalatedAt)]
        /\ tickets' = [i \in Tickets |-> IF i \in q.raised THEN "escalated"
                                         ELSE IF i \in q.created THEN "open" ELSE tickets[i]]
    BY DEF Commit
  <1> HIDE DEF q
  <1>4. /\ q.mine \in SessionRow /\ q.loaded \in SessionRow /\ session \in SessionRow
        /\ q.raised \in SUBSET Tickets /\ q.created \in SUBSET Tickets
        /\ tickets \in [Tickets -> {"none", "open", "escalated"}]
    BY <1>0, <1>2 DEF Turn, TypeOK
  <1>5. session' \in SessionRow
    BY <1>3, <1>4 DEF SessionRow, Flushed
  <1>6. Kept(session, session')
    BY <1>2, <1>3, <1>4 DEF TurnSound, Kept, Flushed, SessionRow
  <1>7. /\ tickets' \in [Tickets -> {"none", "open", "escalated"}]
        /\ \A i \in q.raised : tickets'[i] = "escalated"
        /\ \A i \in q.created : tickets'[i] # "none"
    BY <1>3, <1>4
  <1>8. /\ \A i \in Tickets : tickets[i] # "none" => tickets'[i] # "none"
        /\ \A i \in Tickets : tickets[i] = "escalated" => tickets'[i] = "escalated"
        /\ \A i \in Tickets : tickets[i] = "none" /\ i \notin q.created =>
               tickets'[i] = "none"
    BY <1>2, <1>3, <1>4 DEF TurnSound, Real
  <1>9. QED BY <1>2, <1>5, <1>6, <1>7, <1>8 DEF q

\* A commit keeps the invariant.
LEMMA CommitKeeps ==
    ASSUME ChatInv, NEW t \in Turns, NEW low \in BOOLEAN, NEW k \in Tickets,
           Commit(t, low, k)
    PROVE  ChatInv'
  <1> DEFINE q == Answer(turns[t], low, k)
  <1>1. /\ q \in Turn /\ TurnSound(t, q)
        /\ Kept(session, session') /\ session' \in SessionRow
        /\ tickets' \in [Tickets -> {"none", "open", "escalated"}]
        /\ \A i \in Tickets : tickets[i] # "none" => tickets'[i] # "none"
        /\ \A i \in Tickets : tickets[i] = "escalated" => tickets'[i] = "escalated"
        /\ \A i \in q.raised : tickets'[i] = "escalated"
        /\ \A i \in q.created : tickets'[i] # "none"
        /\ \A i \in Tickets : tickets[i] = "none" /\ i \notin q.created =>
               tickets'[i] = "none"
    BY CommitFacts
  <1>2. /\ session'.status = Flushed(q.mine.status, q.loaded.status, session.status)
        /\ session'.ticket = Flushed(q.mine.ticket, q.loaded.ticket, session.ticket)
        /\ session'.escalatedAt = Flushed(q.mine.escalatedAt, q.loaded.escalatedAt,
                                          session.escalatedAt)
        /\ filed' = filed \cup q.filed
        /\ turns' = [turns EXCEPT ![t] = NoTurn]
        /\ history' = Append(history, IF ~low THEN "grounded"
                                      ELSE IF turns[t].mine.streak = 1 THEN "auto" ELSE "low")
        /\ UNCHANGED <<fixed, clock>>
    BY DEF Commit
  <1>3. TypeOK /\ TurnsSound /\ SessionSound /\ turns \in [Turns -> Turn]
    BY DEF ChatInv, TypeOK
  <1> HIDE DEF q
  <1>4. q.filed \in SUBSET Tickets /\ q.mine \in SessionRow /\ q.loaded \in SessionRow
    BY <1>1 DEF Turn
  <1>5. TypeOK'
    <2>1. history' \in Seq({"low", "grounded", "auto"})
      BY <1>2, <1>3 DEF TypeOK
    <2>2. QED BY <1>1, <1>2, <1>3, <1>4, <2>1, NoTurnType DEF TypeOK, fixed
  <1>6. TurnsSound'
    <2>1. ASSUME NEW s \in Turns, s # t, turns[s] # NoTurn
          PROVE  /\ TurnSound(s, turns[s])'
                 /\ turns'[s].mine.streak = turns'[s].loaded.streak
      <3> DEFINE p == turns[s]
      <3>1. turns'[s] = p /\ TurnSound(s, p) /\ p.mine.streak = p.loaded.streak
        BY <1>2, <1>3, <2>1 DEF TurnsSound
      <3>2. p \in Turn /\ p.created \in SUBSET Tickets /\ p.raised \in SUBSET Tickets
        BY <1>3 DEF Turn
      <3>3. /\ p.phase = "open" /\ p.at \in Instants
            /\ Kept(p.loaded, session') /\ Kept(p.loaded, p.mine)
        BY <1>1, <3>1 DEF TurnSound, Kept
      <3>4. overlap
        <4>1. turns[t].phase = "open"
          BY DEF Commit
        <4>2. QED BY <1>3, <2>1, <3>1, <4>1 DEF TurnsSound, TurnSound
      <3>5. \A i \in p.created : /\ tickets'[i] = "none"
                                 /\ \A v \in Turns \ {s} : i \notin turns'[v].created
        BY <1>1, <1>2, <1>3, <2>1, <3>1, <3>2, NoTurnType DEF TurnSound
      <3>6. /\ p.mine.ticket # None =>
                 \/ p.mine.ticket \in p.created
                 \/ p.mine.ticket \in Tickets /\ tickets'[p.mine.ticket] # "none"
            /\ \A i \in p.raised : i \in p.created \/ (i \in Tickets /\ tickets'[i] # "none")
        BY <1>1, <3>1, <3>2 DEF TurnSound, Real
      <3>7. identified' = identified /\ overlap' = overlap
        BY <1>2 DEF fixed
      <3> HIDE DEF p
      <3>8. turns[s]' = p
        BY <3>1
      <3>9. QED
        BY <3>1, <3>3, <3>4, <3>5, <3>6, <3>7, <3>8
        DEF TurnSound, Kept, StampedByEscalation, Real
    <2>2. turns'[t] = NoTurn
      BY <1>2, <1>3
    <2>3. \A s \in Turns : turns[s] = NoTurn => turns'[s] = NoTurn
      BY <1>2, <1>3
    <2>4. ~overlap' => \A s, v \in Turns :
            turns'[s].phase = "open" /\ turns'[v].phase = "open" => s = v
      BY <1>2, <1>3, NoTurnType DEF TurnsSound, fixed
    <2>5. QED BY <2>1, <2>2, <2>3, <2>4 DEF TurnsSound
  <1>7. SessionSound'
    <2>1. StampedByEscalation(session)'
      BY <1>1, <1>2, <1>3, <1>4
      DEF SessionSound, StampedByEscalation, TurnSound, Kept, Flushed
    <2>2. session'.ticket # None =>
            session'.ticket \in Tickets /\ tickets'[session'.ticket] # "none"
      BY <1>1, <1>2, <1>3, <1>4
      DEF SessionSound, Real, TurnSound, Flushed, SessionRow, Turn, Opt
    <2>3. ASSUME session'.status = "escalated", identified
          PROVE  session'.ticket # None /\ \E i \in Tickets : tickets'[i] = "escalated"
      <3>1. CASE session.status = "escalated"
        BY <1>1, <1>3, <2>3, <3>1, ChatTurnsAssumption
        DEF SessionSound, EscalatedHasTicket, Kept
      <3>2. CASE session.status # "escalated"
        <4>1. q.mine.status = "escalated" /\ q.loaded.status # "escalated"
          BY <1>1, <1>2, <1>4, <2>3, <3>2 DEF Flushed, TurnSound, Kept, SessionRow
        <4>2. q.mine.ticket # None /\ q.raised # {}
          BY <1>1, <2>3, <4>1 DEF TurnSound
        <4>3. \E i \in Tickets : tickets'[i] = "escalated"
          BY <1>1, <4>2 DEF Turn
        <4>4. session'.ticket # None
          BY <1>1, <1>2, <4>2 DEF Flushed, TurnSound, Kept
        <4>5. QED BY <4>3, <4>4
      <3>3. QED BY <3>1, <3>2
    <2>4. identified' = identified
      BY <1>2 DEF fixed
    <2>5. QED BY <2>1, <2>2, <2>3, <2>4 DEF SessionSound, Real, EscalatedHasTicket
  <1>8. QED BY <1>5, <1>6, <1>7 DEF ChatInv

-----------------------------------------------------------------------------

\* A conversation starts with an active session and no ticket.
LEMMA ChatInit == Init => ChatInv
  <1> SUFFICES ASSUME Init
               PROVE  ChatInv
    OBVIOUS
  <1>1. TypeOK
    BY NoTurnType, ChatTurnsAssumption DEF Init, TypeOK
  <1>2. TurnsSound
    BY NoTurnType DEF Init, TurnsSound
  <1>3. SessionSound
    BY DEF Init, NewSession, SessionSound, StampedByEscalation, EscalatedHasTicket
  <1>4. QED BY <1>1, <1>2, <1>3 DEF ChatInv

\* Every step keeps the invariant.
LEMMA ChatStep == ChatInv /\ [Next]_vars => ChatInv'
  <1> SUFFICES ASSUME ChatInv, [Next]_vars
               PROVE  ChatInv'
    OBVIOUS
  <1>0. /\ TypeOK /\ TurnsSound /\ SessionSound
        /\ turns \in [Turns -> Turn] /\ clock \in 0..MaxClock /\ MaxClock \in Nat
    BY ChatTurnsAssumption DEF ChatInv, TypeOK
  <1>1. ASSUME NEW t \in Turns, OpenTurn(t)
        PROVE  ChatInv'
    <2> DEFINE q == [phase |-> "open", at |-> clock + 1, loaded |-> session, mine |-> session,
                     created |-> {}, filed |-> {}, raised |-> {}]
    <2>1. /\ turns' = [turns EXCEPT ![t] = q]
          /\ clock' = clock + 1 /\ clock < MaxClock
          /\ UNCHANGED <<fixed, session, tickets, filed, history>>
          /\ overlap \/ \A s \in Turns : turns[s].phase = "idle"
      BY <1>1 DEF OpenTurn
    <2>2. clock + 1 \in Instants
      BY <1>0, <2>1 DEF Instants
    <2>3. /\ q \in Turn /\ q.phase = "open" /\ q.at \in Instants
          /\ q.loaded = session /\ q.mine = session
          /\ q.created = {} /\ q.filed = {} /\ q.raised = {}
      BY <1>0, <2>2 DEF TypeOK, Turn, Opt
    <2> HIDE DEF q
    <2>4. TurnSound(t, q)
      <3>1. session.status = "escalated" /\ identified => session.ticket # None
        BY <1>0, ChatTurnsAssumption DEF SessionSound, EscalatedHasTicket
      <3>2. QED
        BY <1>0, <2>3, <3>1 DEF TurnSound, SessionSound, Kept
    <2>5. clock' \in 0..MaxClock
      BY <1>0, <2>1
    <2>6. QED BY <1>0, <2>1, <2>3, <2>4, <2>5, TurnKeeps
  <1>2. ASSUME NEW t \in Turns, Fail(t)
        PROVE  ChatInv'
    BY <1>0, <1>2, NoTurnType, TurnKeeps DEF Fail
  <1>3. ASSUME NEW t \in Turns, NEW k \in Tickets, CallCreateTicket(t, k)
        PROVE  ChatInv'
    <2> DEFINE p == turns[t]
               q == [p EXCEPT !.mine.ticket = k, !.created = @ \cup {k}]
    <2>1. /\ p \in Turn /\ TurnSound(t, p) /\ p.mine.streak = p.loaded.streak
          /\ p.phase = "open" /\ identified
          /\ tickets[k] = "none" /\ \A s \in Turns : k \notin turns[s].created
      BY <1>0, <1>3, NoTurnType DEF CallCreateTicket, TurnsSound, Unused
    <2>2. turns' = [turns EXCEPT ![t] = q]
      BY <1>0, <1>3 DEF CallCreateTicket, Turn
    <2>3. p.mine \in SessionRow /\ p.created \cup {k} \in SUBSET Tickets
      BY <2>1 DEF Turn
    <2> HIDE DEF p
    <2>4. /\ q \in Turn /\ q.phase = p.phase /\ q.at = p.at /\ q.loaded = p.loaded
          /\ q.mine.status = p.mine.status /\ q.mine.ticket = k
          /\ q.mine.streak = p.mine.streak /\ q.mine.escalatedAt = p.mine.escalatedAt
          /\ q.created = p.created \cup {k} /\ q.filed = p.filed /\ q.raised = p.raised
      BY <2>1, <2>3 DEF Turn, SessionRow, Opt
    <2> HIDE DEF q
    <2>5. TurnSound(t, q)
      BY <2>1, <2>4, ChatTurnsAssumption DEF TurnSound, Kept, StampedByEscalation
    <2>6. ~overlap => \A s \in Turns \ {t} : turns[s].phase # "open"
      BY <1>0, <2>1 DEF TurnsSound, p
    <2>7. UNCHANGED <<fixed, session, tickets, filed, history>> /\ clock' \in 0..MaxClock
      BY <1>0, <1>3 DEF CallCreateTicket
    <2>8. QED BY <2>1, <2>2, <2>4, <2>5, <2>6, <2>7, TurnKeeps
  <1>4. ASSUME NEW t \in Turns, NEW k \in Tickets, CallEscalate(t, k)
        PROVE  ChatInv'
    <2> DEFINE p == turns[t]
    <2>1. /\ p \in Turn /\ TurnSound(t, p) /\ p.mine.streak = p.loaded.streak
          /\ p.phase = "open" /\ p.at \in Instants
          /\ identified /\ p.mine.ticket = None =>
                tickets[k] = "none" /\ \A s \in Turns : k \notin turns[s].created
      BY <1>0, <1>4, NoTurnType DEF CallEscalate, TurnsSound, TurnSound, Unused, WouldFile
    <2>2. turns' = [turns EXCEPT ![t] = Escalate(p, k)]
      BY <1>4 DEF CallEscalate
    <2> HIDE DEF p
    <2>3. /\ Escalate(p, k) \in Turn /\ TurnSound(t, Escalate(p, k))
          /\ Escalate(p, k).mine.streak = Escalate(p, k).loaded.streak
      BY <1>0, <2>1, EscalateColumns, EscalateSound
    <2>4. ~overlap => \A s \in Turns \ {t} : turns[s].phase # "open"
      BY <1>0, <2>1 DEF TurnsSound, p
    <2>5. UNCHANGED <<fixed, session, tickets, filed, history>> /\ clock' \in 0..MaxClock
      BY <1>0, <1>4 DEF CallEscalate
    <2>6. QED BY <2>2, <2>3, <2>4, <2>5, TurnKeeps
  <1>5. CASE UNCHANGED vars
    BY <1>0, <1>5
    DEF vars, fixed, ChatInv, TypeOK, TurnsSound, TurnSound, Kept, StampedByEscalation, Real,
        SessionSound, EscalatedHasTicket
  <1>6. QED
    BY <1>1, <1>2, <1>3, <1>4, <1>5, CommitKeeps DEF Next

\* Only a commit touches what is stored.
LEMMA OthersStoreNothing ==
    ASSUME [Next]_vars,
           ~\E t \in Turns, k \in Tickets, low \in BOOLEAN : Commit(t, low, k)
    PROVE  UNCHANGED <<overlap, session, filed, history>>
  BY DEF Next, vars, fixed, OpenTurn, Fail, CallCreateTicket, CallEscalate

-----------------------------------------------------------------------------

\* The row, the tickets and the turns keep their types.
THEOREM ChatTypes == Spec => []TypeOK
  <1>1. ChatInv => TypeOK
    BY DEF ChatInv
  <1>2. QED BY <1>1, ChatInit, ChatStep, PTL DEF Spec

\* (services/chat_tools.py, escalate_to_human) An escalated session of an
\* identified visitor has a ticket that exists, although no turn locks the row it
\* reads and every column is flushed on its own.
THEOREM EscalatedSessionsHaveTickets == Spec => []EscalatedHasTicket
  <1>1. ChatInv => EscalatedHasTicket
    BY DEF ChatInv, SessionSound
  <1>2. QED BY <1>1, ChatInit, ChatStep, PTL DEF Spec

\* (workers/whatsapp.py, api/v1/chat.py) A turn that loaded the row before another
\* turn escalated it or linked a ticket never takes that back, because the flush
\* leaves out the columns the turn did not change.
THEOREM StaleTurnsAreHarmless == Spec => StaleTurnsUndoNothing
  <1>1. ASSUME ChatInv, [Next]_vars
        PROVE  Kept(session, session')
    <2>1. CASE UNCHANGED session
      BY <2>1 DEF Kept
    <2>2. CASE \E t \in Turns, k \in Tickets, low \in BOOLEAN : Commit(t, low, k)
      BY <1>1, <2>2, CommitFacts
    <2>3. QED BY <1>1, <2>1, <2>2, OthersStoreNothing
  <1>2. ChatInv /\ [Next]_vars =>
          [/\ session.status = "escalated" => session'.status = "escalated"
           /\ session.ticket # None => session'.ticket # None
           /\ session.escalatedAt # None => session'.escalatedAt # None]_vars
    BY <1>1 DEF Kept
  <1>3. QED BY <1>2, ChatInit, ChatStep, PTL DEF Spec, StaleTurnsUndoNothing

\* (services/chat_tools.py, escalate_to_human) Where the visitor waits for the
\* answer, a stamped session is never stamped again and files no second ticket.
THEOREM EscalationsHappenOnce == Spec => EscalatesOnce
  <1>1. ASSUME ChatInv, [Next]_vars, ~overlap, session.escalatedAt # None
        PROVE  session'.escalatedAt = session.escalatedAt /\ filed' = filed
    <2>1. ASSUME NEW t \in Turns, NEW k \in Tickets, NEW low \in BOOLEAN, Commit(t, low, k)
          PROVE  session'.escalatedAt = session.escalatedAt /\ filed' = filed
      <3> DEFINE q == Answer(turns[t], low, k)
      <3>1. q \in Turn /\ TurnSound(t, q)
        BY <1>1, <2>1, CommitFacts
      <3>2. /\ session'.escalatedAt =
                  Flushed(q.mine.escalatedAt, q.loaded.escalatedAt, session.escalatedAt)
            /\ filed' = filed \cup q.filed
        BY <2>1 DEF Commit
      <3> HIDE DEF q
      <3>3. q.loaded = session
        BY <1>1, <3>1 DEF TurnSound
      <3>4. session'.escalatedAt = session.escalatedAt
        BY <1>1, <3>1, <3>2, <3>3 DEF TurnSound, Flushed
      <3>5. identified => session.ticket # None
        BY <1>1, ChatTurnsAssumption
        DEF ChatInv, SessionSound, StampedByEscalation, EscalatedHasTicket
      <3>6. q.filed = {}
        BY <3>1, <3>3, <3>5 DEF TurnSound
      <3>7. QED BY <3>2, <3>4, <3>6
    <2>2. QED BY <1>1, <2>1, OthersStoreNothing
  <1>2. ChatInv /\ [Next]_vars =>
          [~overlap /\ session.escalatedAt # None =>
              session'.escalatedAt = session.escalatedAt /\ filed' = filed]_vars
    BY <1>1
  <1>3. QED BY <1>2, ChatInit, ChatStep, PTL DEF Spec, EscalatesOnce

-----------------------------------------------------------------------------

\* The places of the low-confidence turns that the history h ends with.
Trailing(h) == {i \in DOMAIN h : \A j \in i..Len(h) : h[j] = "low"}

\* One more low-confidence turn lengthens the run, any other ends it.
LEMMA TrailingAppend ==
    ASSUME NEW S, NEW h \in Seq(S), NEW x \in S
    PROVE  Trailing(Append(h, x)) =
               IF x = "low" THEN Trailing(h) \cup {Len(h) + 1} ELSE {}
  <1> DEFINE g == Append(h, x)
             n == Len(h)
  <1>1. /\ n \in Nat /\ Len(g) = n + 1 /\ DOMAIN g = 1..(n + 1) /\ DOMAIN h = 1..n
        /\ g[n + 1] = x /\ \A i \in 1..n : g[i] = h[i]
    OBVIOUS
  <1> HIDE DEF g, n
  <1>2. Trailing(g) = IF x = "low" THEN Trailing(h) \cup {n + 1} ELSE {}
    <2>1. CASE x = "low"
      <3>1. ASSUME NEW i \in 1..n
            PROVE  i \in Trailing(g) <=> i \in Trailing(h)
        BY <1>1, <2>1 DEF Trailing, n
      <3>2. n + 1 \in Trailing(g)
        BY <1>1, <2>1 DEF Trailing
      <3>3. Trailing(g) \subseteq 1..(n + 1) /\ Trailing(h) \subseteq 1..n
        BY <1>1 DEF Trailing
      <3>4. QED BY <1>1, <2>1, <3>1, <3>2, <3>3
    <2>2. CASE x # "low"
      BY <1>1, <2>2 DEF Trailing
    <2>3. QED BY <2>1, <2>2
  <1>3. QED BY <1>2 DEF g, n

\* The run is a finite set.
LEMMA TrailingFinite ==
    ASSUME NEW S, NEW h \in Seq(S)
    PROVE  IsFiniteSet(Trailing(h)) /\ Cardinality(Trailing(h)) \in Nat
  <1>1. Trailing(h) \subseteq 1..Len(h) /\ Len(h) \in Nat
    BY DEF Trailing
  <1>2. IsFiniteSet(1..Len(h))
    BY <1>1, FS_Interval
  <1>3. QED BY <1>1, <1>2, FS_Subset, FS_CardinalityType

\* (services/chat_service.py, send_message) Turn by turn, low_confidence_streak is
\* the length of the run of low-confidence turns that the conversation ends with,
\* counted from the last grounded answer or automatic escalation; and as it is at
\* most one, two consecutive ones never go by without an escalation.
THEOREM StreaksAreTrailing == Spec => []StreakIsTrailing
  <1>1. Init => StreakIsTrailing
    <2> SUFFICES ASSUME Init
                 PROVE  StreakIsTrailing
      OBVIOUS
    <2>1. Trailing(history) = {}
      BY DEF Init, Trailing
    <2>2. TrailingLow = 0
      BY <2>1, FS_EmptySet DEF TrailingLow, Trailing
    <2>3. QED BY <2>2 DEF Init, NewSession, StreakIsTrailing
  <1>2. ChatInv /\ StreakIsTrailing /\ [Next]_vars => StreakIsTrailing'
    <2> SUFFICES ASSUME ChatInv, StreakIsTrailing, [Next]_vars, ~overlap'
                 PROVE  session'.streak = TrailingLow'
      BY DEF StreakIsTrailing
    <2>1. CASE UNCHANGED <<overlap, session, filed, history>>
      BY <2>1 DEF StreakIsTrailing, TrailingLow
    <2>2. ASSUME NEW t \in Turns, NEW k \in Tickets, NEW low \in BOOLEAN, Commit(t, low, k)
          PROVE  session'.streak = TrailingLow'
      <3> DEFINE q == Answer(turns[t], low, k)
                 n == session.streak
                 x == IF ~low THEN "grounded" ELSE IF n = 1 THEN "auto" ELSE "low"
      <3>1. /\ TurnSound(t, turns[t]) /\ turns[t].mine.streak = turns[t].loaded.streak
            /\ ~overlap /\ n \in 0..1 /\ history \in Seq({"low", "grounded", "auto"})
        BY <2>2, NoTurnType DEF ChatInv, TypeOK, SessionRow, TurnsSound, Commit, fixed
      <3>2. /\ TurnSound(t, q)
            /\ q.mine.streak = IF low /\ turns[t].mine.streak = 0 THEN 1 ELSE 0
        BY <2>2, CommitFacts
      <3>3. session'.streak = Flushed(q.mine.streak, q.loaded.streak, session.streak)
        BY <2>2 DEF Commit
      <3> HIDE DEF q
      <3>4. turns[t].mine.streak = n /\ q.loaded = session
        BY <3>1, <3>2 DEF TurnSound
      <3>5. session'.streak = IF low /\ n = 0 THEN 1 ELSE 0
        BY <3>2, <3>3, <3>4 DEF Flushed
      <3>6. history' = Append(history, x)
        BY <2>2, <3>4 DEF Commit
      <3>7. n = Cardinality(Trailing(history))
        BY <3>1 DEF StreakIsTrailing, TrailingLow, Trailing
      <3>8. TrailingLow' = Cardinality(Trailing(history'))
        BY DEF TrailingLow, Trailing
      <3> HIDE DEF n
      <3>9. x \in {"low", "grounded", "auto"}
        OBVIOUS
      <3>10. Trailing(history') =
                IF x = "low" THEN Trailing(history) \cup {Len(history) + 1} ELSE {}
        BY <3>1, <3>6, <3>9, TrailingAppend
      <3>11. CASE low /\ n = 0
        <4>1. Trailing(history) = {}
          BY <3>1, <3>7, <3>11, TrailingFinite, FS_EmptySet
        <4>2. Trailing(history') = {Len(history) + 1}
          BY <3>10, <3>11, <4>1
        <4>3. QED BY <3>5, <3>8, <3>11, <4>2, FS_Singleton
      <3>12. CASE ~(low /\ n = 0)
        <4>1. Trailing(history') = {}
          BY <3>1, <3>10, <3>12
        <4>2. QED BY <3>5, <3>8, <3>12, <4>1, FS_EmptySet
      <3>13. QED BY <3>11, <3>12
    <2>3. QED BY <2>1, <2>2, OthersStoreNothing
  <1>3. QED BY <1>1, <1>2, ChatInit, ChatStep, PTL DEF Spec

-----------------------------------------------------------------------------
(* WhatsApp. *)

\* A row that exists.
Live(s) == s \in Sessions /\ sessions[s].status # "none"

\* The types, but for the bound on the turns.
WhatsAppRows ==
    /\ racing \in BOOLEAN /\ now \in Moments /\ user \in BOOLEAN
    /\ sessions \in [Sessions -> WhatsAppSession]
    /\ hits \in [Sessions -> 0..(Limit + 1)]
    /\ hooks \in [Hooks -> Hook]
    /\ jobs \in [Jobs -> Job]
    /\ replies \in [Replies -> Reply]
    /\ delivered \in 0..MaxDeliveries
    /\ recorded \in [Sessions -> SUBSET Messages]
    /\ queued \in [Sessions -> [Messages -> Nat]]
    /\ turned \in [Sessions -> Nat]
    /\ put \in [Sessions -> Seq(Replies)]

\* What a request holds: only a new session has no row yet.
HookSound(q) ==
    /\ q.phase = "idle" => ~q.counted
    /\ q.phase # "idle" => q.msg \in Messages /\ q.session \in Sessions
    /\ q.phase = "enqueue" => q.outcome = "queue"
    /\ q.phase = "enqueue" \/ (q.phase = "open" /\ ~q.new) => Live(q.session)

\* Requests, jobs and replies refer to messages and rows that exist.
Referenced ==
    /\ \A h \in Hooks : HookSound(hooks[h])
    /\ \A j \in Jobs : jobs[j].phase # "idle" => Live(jobs[j].session)
    /\ \A r \in Replies : replies[r].phase # "idle" => Live(replies[r].session)

\* The requests that will queue a turn of session s and were counted this hour.
Counting(s) == {h \in Hooks : /\ hooks[h].counted
                              /\ hooks[h].session = s
                              /\ hooks[h].outcome = "queue"}

\* Every turn of this hour, queued or about to be, has its own INCR behind it, and
\* that one did not exceed the limit.
Quota ==
    \A s \in Sessions :
        /\ IsFiniteSet(Counting(s))
        /\ turned[s] + Cardinality(Counting(s)) <= hits[s]
        /\ turned[s] + Cardinality(Counting(s)) <= Limit

Distinct(seq) == \A i, j \in DOMAIN seq : seq[i] = seq[j] => i = j

\* A version of channel_metadata whose ring has all that session s was committed with.
Keeps(meta, s) ==
    /\ Distinct(meta.ring)
    /\ \A m \in recorded[s] : Contains(meta.ring, m)

\* A version with the newest deferrals of session s.
KeepsDeferred(meta, s) == Newest(meta.deferred, put[s], DeferredCap)

OneWriter ==
    /\ \A h, g \in Hooks : hooks[h].phase = "open" /\ hooks[g].phase = "open" => h = g
    /\ \A q, r \in Replies : replies[q].phase = "loaded" /\ replies[r].phase = "loaded" => q = r
    /\ \A h \in Hooks, r \in Replies : ~(hooks[h].phase = "open" /\ replies[r].phase = "loaded")

\* The stored versions and the ones that will be written have the newest deferrals.
DeferralsKept ==
    /\ \A s \in Sessions : KeepsDeferred(sessions[s].meta, s)
    /\ \A s \in Sessions : sessions[s].status = "none" => put[s] = <<>>
    /\ \A h \in Hooks : hooks[h].phase = "open" =>
            KeepsDeferred(hooks[h].meta, hooks[h].session)
    /\ \A r \in Replies : replies[r].phase = "loaded" =>
            KeepsDeferred(replies[r].meta, replies[r].session)

\* They have every message committed before, in a ring with room.
AllKept ==
    /\ \A s \in Sessions : Keeps(sessions[s].meta, s)
    /\ \A s \in Sessions : sessions[s].status = "none" => recorded[s] = {}
    /\ \A h \in Hooks : hooks[h].phase = "open" =>
            /\ Keeps(hooks[h].meta, hooks[h].session)
            /\ Contains(hooks[h].meta.ring, hooks[h].msg)
            /\ hooks[h].msg \notin recorded[hooks[h].session]
    /\ \A r \in Replies : replies[r].phase = "loaded" =>
            Keeps(replies[r].meta, replies[r].session)

\* A message of a session is queued once, after its commit, by one request.
QueuedOnce ==
    /\ \A s \in Sessions, m \in Messages : queued[s][m] <= 1
    /\ \A s \in Sessions, m \in Messages : queued[s][m] = 1 => m \in recorded[s]
    /\ \A h \in Hooks : hooks[h].phase = "enqueue" =>
            /\ hooks[h].msg \in recorded[hooks[h].session]
            /\ queued[hooks[h].session][hooks[h].msg] = 0
    /\ \A h, g \in Hooks :
            /\ hooks[h].phase = "enqueue" /\ hooks[g].phase = "enqueue"
            /\ hooks[h].msg = hooks[g].msg /\ hooks[h].session = hooks[g].session
            => h = g

\* No two writers of channel_metadata at a time, and a ring with room for every message.
Calm == ~racing /\ Cardinality(Messages) <= RingCap

\* The inductive invariant.
WhatsAppInv ==
    /\ WhatsAppRows
    /\ Referenced
    /\ Quota
    /\ ~racing => OneWriter /\ DeferralsKept
    /\ Calm => AllKept /\ QueuedOnce

-----------------------------------------------------------------------------

\* The empty records have their types.
LEMMA EmptyRecords ==
    /\ NoMeta \in Metadata /\ NoHook \in Hook /\ NoJob \in Job /\ NoReply \in Reply
    /\ NoHook.phase = "idle" /\ ~NoHook.counted
    /\ NoJob.phase = "idle" /\ NoReply.phase = "idle"
    /\ 0 \in Moments
  <1>1. 0 \in Moments
    BY WhatsAppAssumption DEF Moments
  <1>2. NoMeta \in Metadata
    BY <1>1 DEF NoMeta, Metadata
  <1>3. NoHook \in Hook /\ NoHook.phase = "idle" /\ ~NoHook.counted
    BY <1>1, <1>2 DEF NoHook, Hook, Outcomes
  <1>4. NoJob \in Job /\ NoJob.phase = "idle"
    BY DEF NoJob, Job
  <1>5. NoReply \in Reply /\ NoReply.phase = "idle"
    BY <1>2 DEF NoReply, Reply
  <1>6. QED BY <1>1, <1>2, <1>3, <1>4, <1>5

\* with_appended gives a list of the same kind, which begins as it was when there is room.
LEMMA AppendedType ==
    ASSUME NEW S, NEW seq \in Seq(S), NEW x \in S, NEW cap \in Nat \ {0}
    PROVE  /\ Appended(seq, x, cap) \in Seq(S)
           /\ Len(seq) < cap => Appended(seq, x, cap) = Append(seq, x)
  <1> DEFINE longer == Append(seq, x)
  <1>1. longer \in Seq(S) /\ Len(longer) = Len(seq) + 1 /\ Len(seq) \in Nat
    OBVIOUS
  <1>2. longer # <<>>
    BY <1>1
  <1>3. Tail(longer) \in Seq(S)
    BY <1>1, <1>2
  <1>4. Appended(seq, x, cap) = IF Len(longer) > cap THEN Tail(longer) ELSE longer
    BY DEF Appended
  <1> HIDE DEF longer
  <1>5. Appended(seq, x, cap) \in Seq(S)
    BY <1>1, <1>3, <1>4
  <1>6. ASSUME Len(seq) < cap PROVE Appended(seq, x, cap) = longer
    BY <1>1, <1>4, <1>6
  <1>7. QED BY <1>5, <1>6 DEF longer

\* An empty list is what is left of an empty one.
LEMMA NewestOfNone == Newest(<<>>, <<>>, DeferredCap)
  <1>1. Len(<<>>) = 0 /\ DeferredCap \in Nat
    BY WhatsAppAssumption
  <1>2. QED BY <1>1 DEF Newest

\* with_appended on the newest deferrals gives the newest after one more: the list
\* grows until it is full, and then its oldest item makes room.
LEMMA NewestAppended ==
    ASSUME NEW S, NEW last \in Seq(S), NEW seq \in Seq(S), NEW x \in S,
           NEW cap \in Nat \ {0}, Newest(last, seq, cap)
    PROVE  Newest(Appended(last, x, cap), Append(seq, x), cap)
  <1> DEFINE n == Len(seq)
             k == Len(last)
             longer == Append(last, x)
             all == Append(seq, x)
             new == Appended(last, x, cap)
  <1>1. /\ n \in Nat /\ k \in Nat
        /\ all \in Seq(S) /\ Len(all) = n + 1 /\ all[n + 1] = x
        /\ \A i \in 1..n : all[i] = seq[i]
        /\ longer \in Seq(S) /\ Len(longer) = k + 1 /\ longer[k + 1] = x
        /\ \A i \in 1..k : longer[i] = last[i]
    OBVIOUS
  <1>2. /\ k = IF n > cap THEN cap ELSE n
        /\ \A i \in 1..k : last[i] = seq[n - k + i]
    BY DEF Newest
  <1>3. new = IF Len(longer) > cap THEN Tail(longer) ELSE longer
    BY DEF Appended
  <1>4. longer # <<>>
    BY <1>1
  <1>5. /\ Tail(longer) \in Seq(S) /\ Len(Tail(longer)) = k
        /\ \A i \in 1..k : Tail(longer)[i] = longer[i + 1]
    BY <1>1, <1>4
  <1> HIDE DEF n, k, longer, all, new
  <1>6. CASE n < cap
    <2>1. k = n /\ new = longer /\ Len(new) = n + 1
      BY <1>1, <1>2, <1>3, <1>6
    <2>2. Len(new) = IF Len(all) > cap THEN cap ELSE Len(all)
      BY <1>1, <1>6, <2>1
    <2>3. ASSUME NEW i \in 1..Len(new) PROVE new[i] = all[Len(all) - Len(new) + i]
      <3>1. i \in 1..(n + 1) /\ i \in Int /\ Len(all) - Len(new) + i = i
        <4>1. i \in 1..(n + 1)
          BY <2>1, <2>3
        <4>2. i \in Int
          BY <1>1, <4>1
        <4>3. Len(all) = n + 1 /\ Len(new) = n + 1 /\ n \in Int
          BY <1>1, <2>1
        <4>4. (n + 1) - (n + 1) + i = i
          BY <4>2, <4>3
        <4> HIDE DEF n
        <4>5. QED BY <4>1, <4>2, <4>3, <4>4
      <3>2. CASE i = n + 1
        BY <1>1, <2>1, <3>1, <3>2
      <3>3. CASE i # n + 1
        <4>1. i \in 1..n
          BY <1>1, <3>1, <3>3
        <4>2. i \in 1..k /\ n - k + i = i
          BY <1>1, <2>1, <3>1, <4>1
        <4>3. QED BY <1>1, <1>2, <2>1, <3>1, <4>1, <4>2
      <3>4. QED BY <3>2, <3>3
    <2>4. QED BY <2>2, <2>3 DEF Newest, all, new
  <1>7. CASE n >= cap
    <2>1. k = cap /\ new = Tail(longer) /\ Len(new) = cap
      BY <1>1, <1>2, <1>3, <1>5, <1>7
    <2>2. Len(new) = IF Len(all) > cap THEN cap ELSE Len(all)
      BY <1>1, <1>7, <2>1
    <2>3. ASSUME NEW i \in 1..Len(new) PROVE new[i] = all[Len(all) - Len(new) + i]
      <3>1. /\ i \in 1..k /\ i \in Int /\ new[i] = longer[i + 1]
            /\ Len(all) - Len(new) + i = n - k + (i + 1)
        <4>1. i \in 1..k
          BY <2>1, <2>3
        <4>2. i \in Int
          BY <1>1, <4>1
        <4>3. new[i] = longer[i + 1]
          BY <1>5, <2>1, <4>1
        <4>4. Len(all) = n + 1 /\ Len(new) = k /\ n \in Int /\ k \in Int
          BY <1>1, <2>1
        <4>5. (n + 1) - k + i = n - k + (i + 1)
          BY <4>2, <4>4
        <4>6. QED BY <4>1, <4>2, <4>3, <4>4, <4>5
      <3>2. CASE i = k
        <4>1. n - k + (i + 1) = n + 1
          BY <1>1, <3>1, <3>2
        <4>2. QED BY <1>1, <3>1, <3>2, <4>1
      <3>3. CASE i # k
        <4>1. i + 1 \in 1..k /\ n - k + (i + 1) \in 1..n
          BY <1>1, <1>7, <2>1, <3>1, <3>3
        <4>2. last[i + 1] = seq[n - k + (i + 1)]
          BY <1>2, <4>1
        <4>3. QED BY <1>1, <3>1, <4>1, <4>2
      <3>4. QED BY <3>2, <3>3
    <2>4. QED BY <2>2, <2>3 DEF Newest, all, new
  <1>8. QED BY <1>1, <1>6, <1>7

\* A list without repetitions that lacks a message is shorter than the messages are many.
LEMMA DistinctIsShort ==
    ASSUME NEW seq \in Seq(Messages), Distinct(seq), NEW m \in Messages, ~Contains(seq, m)
    PROVE  Len(seq) < Cardinality(Messages)
  <1>1. IsFiniteSet(Messages) /\ Cardinality(Messages) \in Nat
    BY WhatsAppAssumption, FS_CardinalityType
  <1> DEFINE n == Len(seq)
             rest == Messages \ {m}
  <1>2. n \in Nat /\ DOMAIN seq = 1..n
    OBVIOUS
  <1>3. IsFiniteSet(rest) /\ Cardinality(rest) = Cardinality(Messages) - 1
    BY <1>1, FS_RemoveElement
  <1>4. seq \in [1..n -> rest]
    BY <1>2 DEF Contains
  <1>5. seq \in Injection(1..n, rest)
    BY <1>2, <1>4 DEF Distinct, Injection, IsInjective
  <1>6. Cardinality(1..n) <= Cardinality(rest)
    BY <1>3, <1>5, FS_Injection
  <1>7. Cardinality(1..n) = n
    BY <1>2, FS_Interval
  <1>8. QED BY <1>1, <1>2, <1>3, <1>6, <1>7

\* An appended list has what it had and the new element, and repeats nothing.
LEMMA AppendKeeps ==
    ASSUME NEW seq \in Seq(Messages), NEW m \in Messages
    PROVE  /\ Contains(Append(seq, m), m)
           /\ \A k : Contains(seq, k) => Contains(Append(seq, m), k)
           /\ Distinct(seq) /\ ~Contains(seq, m) => Distinct(Append(seq, m))
  <1> DEFINE longer == Append(seq, m)
             n == Len(seq)
  <1>1. /\ n \in Nat /\ DOMAIN seq = 1..n /\ DOMAIN longer = 1..(n + 1)
        /\ longer[n + 1] = m /\ \A i \in 1..n : longer[i] = seq[i]
    OBVIOUS
  <1> HIDE DEF longer, n
  <1>2. Contains(longer, m)
    BY <1>1 DEF Contains
  <1>3. \A k : Contains(seq, k) => Contains(longer, k)
    BY <1>1 DEF Contains
  <1>4. ASSUME Distinct(seq), ~Contains(seq, m) PROVE Distinct(longer)
    <2> SUFFICES ASSUME NEW i \in 1..(n + 1), NEW j \in 1..(n + 1), longer[i] = longer[j]
                 PROVE  i = j
      BY <1>1 DEF Distinct
    <2>1. CASE i \in 1..n /\ j \in 1..n
      BY <1>1, <1>4, <2>1 DEF Distinct
    <2>2. CASE i = n + 1 /\ j \in 1..n
      BY <1>1, <1>4, <2>2 DEF Contains
    <2>3. CASE j = n + 1 /\ i \in 1..n
      BY <1>1, <1>4, <2>3 DEF Contains
    <2>4. QED BY <1>1, <2>1, <2>2, <2>3
  <1>5. QED BY <1>2, <1>3, <1>4 DEF longer

-----------------------------------------------------------------------------

\* What taking up a message does: one idle request opens, with the metadata of the
\* row and the message appended, or with a new row's.
Opens(h, m, s, q) ==
    /\ hooks[h].phase = "idle" /\ hooks' = [hooks EXCEPT ![h] = q]
    /\ q \in Hook /\ q.phase = "open" /\ q.msg = m /\ q.session = s
    /\ MayWrite
    /\ hits' \in [Sessions -> 0..(Limit + 1)] /\ hits'[s] >= hits[s]
    /\ \A r \in Sessions : r # s => hits'[r] = hits[r]
    /\ q.counted /\ q.outcome = "queue" => hits'[s] = hits[s] + 1 /\ hits'[s] <= Limit
    /\ \/ /\ ~q.new /\ Live(s)
          /\ ~Contains(sessions[s].meta.ring, m)
          /\ q.meta.ring = Appended(sessions[s].meta.ring, m, RingCap)
          /\ q.meta.deferred = sessions[s].meta.deferred
       \/ /\ q.new /\ sessions[s].status = "none"
          /\ q.meta.ring = <<m>> /\ q.meta.deferred = <<>>
    /\ delivered' \in 0..MaxDeliveries
    /\ UNCHANGED <<racing, now, user, sessions, jobs, replies, recorded, queued, turned, put>>

\* check_and_increment counts one more, or stays beyond the limit.
LEMMA CountFacts ==
    ASSUME WhatsAppRows, NEW s \in Sessions
    PROVE  /\ Count(s) \in 0..(Limit + 1) /\ Count(s) >= hits[s]
           /\ ~Exceeds(s) => Count(s) = hits[s] + 1 /\ Count(s) <= Limit
           /\ hits[s] = 0 => ~Exceeds(s)
  <1>1. hits[s] \in 0..(Limit + 1) /\ Limit \in Nat \ {0}
    BY WhatsAppAssumption DEF WhatsAppRows
  <1>2. QED BY <1>1 DEF Count, Exceeds

\* A delivery is counted.
LEMMA DeliverFacts ==
    ASSUME WhatsAppRows, NEW h \in Hooks, Deliver(h)
    PROVE  hooks[h].phase = "idle" /\ MayWrite /\ delivered' \in 0..MaxDeliveries
  BY WhatsAppAssumption DEF Deliver, WhatsAppRows

LEMMA IngestIntoOpens ==
    ASSUME WhatsAppRows, NEW h \in Hooks, NEW m \in Messages, NEW s \in Sessions,
           IngestInto(h, m, s)
    PROVE  \E q \in Hook : Opens(h, m, s, q)
  <1> DEFINE row == sessions[s]
             escalated == row.status = "escalated"
             ring == Appended(row.meta.ring, m, RingCap)
             outcome == IF escalated THEN "append" ELSE IF Exceeds(s) THEN "limited" ELSE "queue"
             meta == [ring |-> ring, inbound |-> now, deferred |-> row.meta.deferred]
             q == [phase |-> "open", msg |-> m, session |-> s, outcome |-> outcome,
                   new |-> FALSE, activity |-> now, meta |-> meta, counted |-> ~escalated]
  <1>1. row \in WhatsAppSession /\ row.meta \in Metadata /\ now \in Moments
    BY DEF WhatsAppRows, WhatsAppSession
  <1>2. ring \in Seq(Messages)
    BY <1>1, AppendedType, WhatsAppAssumption DEF Metadata
  <1>3. row.meta.deferred \in Seq(Replies)
    BY <1>1 DEF Metadata
  <1> HIDE DEF ring
  <1>4. meta \in Metadata /\ meta.ring = ring /\ meta.deferred = row.meta.deferred
    BY <1>1, <1>2, <1>3 DEF Metadata
  <1>5. outcome \in Outcomes
    BY DEF Outcomes
  <1>6. hooks' = [hooks EXCEPT ![h] = q]
        /\ hits' = [hits EXCEPT ![s] = IF escalated THEN hits[s] ELSE Count(s)]
    BY DEF IngestInto, ring
  <1>7. /\ hooks[h].phase = "idle" /\ MayWrite /\ delivered' \in 0..MaxDeliveries
        /\ ~Contains(row.meta.ring, m) /\ row.status # "none"
        /\ UNCHANGED <<racing, now, user, sessions, jobs, replies, recorded, queued, turned, put>>
    BY DeliverFacts DEF IngestInto, Latest, ledger
  <1> HIDE DEF meta, outcome
  <1>8. /\ q \in Hook /\ q.phase = "open" /\ q.msg = m /\ q.session = s /\ q.new = FALSE
        /\ q.meta = meta /\ q.outcome = outcome /\ q.counted = ~escalated
    BY <1>1, <1>4, <1>5 DEF Hook
  <1>9. /\ hits' \in [Sessions -> 0..(Limit + 1)] /\ hits'[s] >= hits[s]
        /\ \A r \in Sessions : r # s => hits'[r] = hits[r]
    <2>1. hits \in [Sessions -> 0..(Limit + 1)] /\ Limit \in Nat
      BY WhatsAppAssumption DEF WhatsAppRows
    <2>2. QED BY <1>6, <2>1, CountFacts
  <1>10. ~escalated /\ outcome = "queue" => hits'[s] = hits[s] + 1 /\ hits'[s] <= Limit
    BY <1>6, CountFacts DEF outcome, WhatsAppRows
  <1> HIDE DEF q
  <1>11. Opens(h, m, s, q)
    BY <1>4, <1>6, <1>7, <1>8, <1>9, <1>10 DEF Opens, Live, ring
  <1>12. QED BY <1>8, <1>11

LEMMA IngestNewOpens ==
    ASSUME WhatsAppRows, NEW h \in Hooks, NEW m \in Messages, NEW s \in Sessions,
           IngestNew(h, m, s)
    PROVE  \E q \in Hook : Opens(h, m, s, q)
  <1> DEFINE meta == [ring |-> <<m>>, inbound |-> now, deferred |-> <<>>]
             q == [phase |-> "open", msg |-> m, session |-> s, outcome |-> "queue",
                   new |-> TRUE, activity |-> now, meta |-> meta, counted |-> TRUE]
  <1>1. now \in Moments /\ <<m>> \in Seq(Messages)
    BY DEF WhatsAppRows
  <1>2. meta \in Metadata /\ meta.ring = <<m>> /\ meta.deferred = <<>>
    BY <1>1 DEF Metadata
  <1>3. hooks' = [hooks EXCEPT ![h] = q] /\ hits' = [hits EXCEPT ![s] = Count(s)] /\ hits[s] = 0
    BY DEF IngestNew
  <1>4. /\ hooks[h].phase = "idle" /\ MayWrite /\ delivered' \in 0..MaxDeliveries
        /\ sessions[s].status = "none"
        /\ UNCHANGED <<racing, now, user, sessions, jobs, replies, recorded, queued, turned, put>>
    BY DeliverFacts DEF IngestNew, ledger
  <1> HIDE DEF meta
  <1>5. /\ q \in Hook /\ q.phase = "open" /\ q.msg = m /\ q.session = s /\ q.new = TRUE
        /\ q.meta = meta
    BY <1>1, <1>2 DEF Hook, Outcomes
  <1>6. /\ hits' \in [Sessions -> 0..(Limit + 1)] /\ hits'[s] >= hits[s]
        /\ \A r \in Sessions : r # s => hits'[r] = hits[r]
        /\ hits'[s] = hits[s] + 1 /\ hits'[s] <= Limit
    <2>1. hits \in [Sessions -> 0..(Limit + 1)] /\ Limit \in Nat
      BY WhatsAppAssumption DEF WhatsAppRows
    <2>2. QED BY <1>3, <2>1, CountFacts
  <1> HIDE DEF q
  <1>7. Opens(h, m, s, q)
    BY <1>2, <1>3, <1>4, <1>5, <1>6 DEF Opens
  <1>8. QED BY <1>5, <1>7

-----------------------------------------------------------------------------

\* Rows are never deleted.
RowsStay == \A s \in Sessions : sessions[s].status # "none" => sessions'[s].status # "none"

\* What refers to rows that stay still refers to rows.
LEMMA LiveStays ==
    ASSUME RowsStay, NEW s, Live(s)
    PROVE  Live(s)'
  BY DEF RowsStay, Live

LEMMA SoundStays ==
    ASSUME RowsStay, NEW q, HookSound(q)
    PROVE  HookSound(q)'
  BY LiveStays DEF HookSound

\* A request opens.
LEMMA OpensShape ==
    ASSUME WhatsAppRows, Referenced, NEW h \in Hooks, NEW m \in Messages, NEW s \in Sessions,
           NEW q \in Hook, Opens(h, m, s, q)
    PROVE  WhatsAppRows' /\ Referenced'
  <1>1. WhatsAppRows'
    BY DEF WhatsAppRows, Opens
  <1>2. RowsStay
    BY DEF RowsStay, Opens
  <1>3. HookSound(q)
    BY DEF HookSound, Opens
  <1>4. hooks'[h] = q /\ \A g \in Hooks : g # h => hooks'[g] = hooks[g]
    BY DEF Opens, WhatsAppRows
  <1>5. \A g \in Hooks : HookSound(hooks'[g])
    BY <1>3, <1>4 DEF Referenced
  <1>6. \A g \in Hooks : HookSound(hooks[g])'
    BY <1>2, <1>5, SoundStays
  <1>7. \A j \in Jobs : (jobs[j].phase # "idle" => Live(jobs[j].session))'
    BY DEF Referenced, Opens, Live
  <1>8. \A r \in Replies : (replies[r].phase # "idle" => Live(replies[r].session))'
    BY DEF Referenced, Opens, Live
  <1>9. QED BY <1>1, <1>6, <1>7, <1>8 DEF Referenced

\* What a commit of the webhook does.
Commits(h) ==
    LET q == hooks[h]
        s == q.session
    IN  /\ q.phase = "open" /\ q.msg \in Messages /\ s \in Sessions
        /\ sessions'[s].meta = q.meta /\ sessions'[s].status # "none"
        /\ \A r \in Sessions : r # s => sessions'[r] = sessions[r]
        /\ recorded'[s] = recorded[s] \cup {q.msg}
        /\ \A r \in Sessions : r # s => recorded'[r] = recorded[r]
        /\ \A g \in Hooks : g # h => hooks'[g] = hooks[g]
        /\ \/ /\ hooks'[h].phase = "enqueue" /\ q.outcome = "queue" /\ hooks'[h].outcome = "queue"
              /\ hooks'[h].msg = q.msg /\ hooks'[h].session = s
              /\ hooks'[h].counted = q.counted
           \/ hooks'[h] = NoHook /\ q.outcome # "queue"
        /\ UNCHANGED <<racing, now, hits, jobs, replies, delivered, queued, turned, put>>

LEMMA CommitHookCommits ==
    ASSUME WhatsAppRows, Referenced, NEW h \in Hooks, CommitHook(h)
    PROVE  Commits(h) /\ WhatsAppRows'
  <1> DEFINE q == hooks[h]
             s == q.session
             row == [status |-> IF q.new THEN "active" ELSE sessions[s].status,
                     activity |-> q.activity, meta |-> q.meta]
             end == IF q.outcome = "queue" THEN [q EXCEPT !.phase = "enqueue"] ELSE NoHook
  <1>1. q \in Hook /\ HookSound(q)
    BY DEF WhatsAppRows, Referenced
  <1>2. q.phase = "open" /\ q.msg \in Messages /\ s \in Sessions /\ (~q.new => Live(s))
    BY <1>1 DEF CommitHook, HookSound
  <1>3. /\ user' = TRUE /\ sessions' = [sessions EXCEPT ![s] = row]
        /\ hooks' = [hooks EXCEPT ![h] = end]
        /\ recorded' = [recorded EXCEPT ![s] = recorded[s] \cup {q.msg}]
        /\ UNCHANGED <<racing, now, hits, jobs, replies, delivered, queued, turned, put>>
    BY DEF CommitHook
  <1>4. sessions \in [Sessions -> WhatsAppSession] /\ sessions[s] \in WhatsAppSession
    BY <1>2 DEF WhatsAppRows
  <1>5. row \in WhatsAppSession /\ row.status # "none" /\ row.meta = q.meta
    BY <1>1, <1>2, <1>4 DEF Hook, WhatsAppSession, Live
  <1>6. /\ end \in Hook
        /\ \/ /\ end.phase = "enqueue" /\ q.outcome = "queue" /\ end.outcome = "queue"
              /\ end.msg = q.msg /\ end.session = s /\ end.counted = q.counted
           \/ end = NoHook /\ q.outcome # "queue"
    BY <1>1, EmptyRecords DEF Hook
  <1> HIDE DEF row, end
  <1>7. sessions' \in [Sessions -> WhatsAppSession] /\ sessions'[s] = row
        /\ \A r \in Sessions : r # s => sessions'[r] = sessions[r]
    BY <1>2, <1>3, <1>4, <1>5
  <1>8. hooks' \in [Hooks -> Hook] /\ hooks'[h] = end
        /\ \A g \in Hooks : g # h => hooks'[g] = hooks[g]
    BY <1>3, <1>6 DEF WhatsAppRows
  <1>9. /\ recorded' \in [Sessions -> SUBSET Messages]
        /\ recorded'[s] = recorded[s] \cup {q.msg}
        /\ \A r \in Sessions : r # s => recorded'[r] = recorded[r]
    BY <1>2, <1>3 DEF WhatsAppRows
  <1>10. WhatsAppRows'
    BY <1>3, <1>7, <1>8, <1>9 DEF WhatsAppRows
  <1>11. Commits(h)
    BY <1>2, <1>3, <1>5, <1>6, <1>7, <1>8, <1>9 DEF Commits
  <1>12. QED BY <1>10, <1>11

LEMMA CommitsShape ==
    ASSUME WhatsAppRows, Referenced, NEW h \in Hooks, Commits(h)
    PROVE  RowsStay /\ Referenced'
  <1>1. RowsStay
    BY DEF RowsStay, Commits
  <1>2. HookSound(hooks[h])'
    BY EmptyRecords DEF Commits, HookSound, Live
  <1>3. \A g \in Hooks : g # h => HookSound(hooks[g])'
    <2> SUFFICES ASSUME NEW g \in Hooks, g # h
                 PROVE  HookSound(hooks[g])'
      OBVIOUS
    <2>1. HookSound(hooks[g]) /\ hooks'[g] = hooks[g]
      BY DEF Referenced, Commits
    <2>2. QED BY <1>1, <2>1 DEF HookSound, Live, RowsStay
  <1>4. \A j \in Jobs : (jobs[j].phase # "idle" => Live(jobs[j].session))'
    BY <1>1 DEF Referenced, Commits, Live, RowsStay
  <1>5. \A r \in Replies : (replies[r].phase # "idle" => Live(replies[r].session))'
    BY <1>1 DEF Referenced, Commits, Live, RowsStay
  <1>6. QED BY <1>1, <1>2, <1>3, <1>4, <1>5 DEF Referenced

-----------------------------------------------------------------------------

\* A step that neither reads nor writes channel_metadata and queues no turn: requests
\* and loaded replies may only go.
Quiet ==
    /\ RowsStay
    /\ \A s \in Sessions : sessions'[s].meta = sessions[s].meta
    /\ \A h \in Hooks : hooks'[h].phase # "idle" =>
            /\ hooks'[h].phase = hooks[h].phase /\ hooks'[h].msg = hooks[h].msg
            /\ hooks'[h].session = hooks[h].session /\ hooks'[h].meta = hooks[h].meta
    /\ \A r \in Replies : replies'[r].phase = "loaded" => replies'[r] = replies[r]
    /\ UNCHANGED <<racing, recorded, queued, put>>

\* A step that counts nothing and queues no turn.
CountsNothing ==
    /\ \A h \in Hooks : hooks'[h].counted =>
            /\ hooks[h].counted /\ hooks'[h].session = hooks[h].session
            /\ hooks'[h].outcome = hooks[h].outcome
    /\ UNCHANGED <<hits, turned>>

LEMMA HookEndsShape ==
    ASSUME WhatsAppRows, Referenced, NEW h \in Hooks, AbortHook(h) \/ LoseTurn(h)
    PROVE  WhatsAppRows' /\ Referenced' /\ Quiet /\ CountsNothing
  <1>1. /\ hooks' = [hooks EXCEPT ![h] = NoHook]
        /\ UNCHANGED <<racing, now, user, sessions, hits, jobs, replies, delivered,
                       recorded, queued, turned, put>>
    BY DEF AbortHook, LoseTurn, ledger
  <1>2. /\ hooks' \in [Hooks -> Hook] /\ hooks'[h] = NoHook
        /\ \A g \in Hooks : g # h => hooks'[g] = hooks[g]
    BY <1>1, EmptyRecords DEF WhatsAppRows
  <1>3. WhatsAppRows'
    BY <1>1, <1>2 DEF WhatsAppRows
  <1>4. \A g \in Hooks : HookSound(hooks[g])'
    BY <1>1, <1>2, EmptyRecords DEF Referenced, HookSound, Live
  <1>5. Referenced'
    BY <1>1, <1>4 DEF Referenced, Live
  <1>6. Quiet
    BY <1>1, <1>2, EmptyRecords DEF Quiet, RowsStay
  <1>7. CountsNothing
    BY <1>1, <1>2, EmptyRecords DEF CountsNothing
  <1>8. QED BY <1>3, <1>5, <1>6, <1>7

\* The steps of process_whatsapp_message.
LEMMA TurnJobShape ==
    ASSUME WhatsAppRows, Referenced, NEW j \in Jobs,
           \/ \E e \in BOOLEAN : RunTurn(j, e)
           \/ \E r \in Replies : EnqueueReply(j, r)
           \/ RedeliverTurn(j) \/ DropTurn(j)
    PROVE  WhatsAppRows' /\ Referenced' /\ Quiet /\ CountsNothing
  <1>1. UNCHANGED <<racing, now, user, hits, hooks, delivered, recorded, queued, turned, put>>
    BY DEF RunTurn, EnqueueReply, RedeliverTurn, DropTurn, ledger
  <1>2. jobs[j] \in Job /\ jobs[j].phase # "idle" /\ Live(jobs[j].session)
    BY DEF RunTurn, EnqueueReply, RedeliverTurn, DropTurn, WhatsAppRows, Referenced
  <1>3. /\ jobs' \in [Jobs -> Job] /\ \A i \in Jobs : i # j => jobs'[i] = jobs[i]
        /\ jobs'[j].phase # "idle" => jobs'[j].session = jobs[j].session
    <2>1. CASE jobs' = [jobs EXCEPT ![j] = NoJob]
      BY <1>2, <2>1, EmptyRecords DEF WhatsAppRows
    <2>2. CASE \E p \in {"queued", "ran"} : jobs' = [jobs EXCEPT ![j].phase = p]
      <3>1. PICK p \in {"queued", "ran"} : jobs' = [jobs EXCEPT ![j] = [jobs[j] EXCEPT !.phase = p]]
        BY <2>2
      <3>2. [jobs[j] EXCEPT !.phase = p] \in Job /\ jobs \in [Jobs -> Job]
        BY <1>2 DEF WhatsAppRows, Job
      <3>3. [jobs[j] EXCEPT !.phase = p].session = jobs[j].session
        BY <1>2 DEF Job
      <3>4. QED BY <3>1, <3>2, <3>3
    <2>3. QED BY <2>1, <2>2 DEF RunTurn, EnqueueReply, RedeliverTurn, DropTurn
  <1>4. /\ sessions' \in [Sessions -> WhatsAppSession] /\ RowsStay
        /\ \A s \in Sessions : sessions'[s].meta = sessions[s].meta
    <2>1. CASE \E e \in BOOLEAN : RunTurn(j, e)
      <3>1. PICK e \in BOOLEAN : RunTurn(j, e)
        BY <2>1
      <3> DEFINE s == jobs[j].session
                 status == IF e THEN "escalated" ELSE sessions[s].status
      <3>2. sessions' = [sessions EXCEPT ![s].status = status, ![s].activity = now]
        BY <3>1 DEF RunTurn
      <3>3. s \in Sessions /\ status \in {"none", "active", "escalated"} /\ status # "none"
        BY <1>2 DEF Live, WhatsAppRows, WhatsAppSession
      <3>4. now \in Moments /\ sessions \in [Sessions -> WhatsAppSession]
        BY DEF WhatsAppRows
      <3> HIDE DEF s, status
      <3>5. QED BY <3>2, <3>3, <3>4 DEF WhatsAppSession, RowsStay
    <2>2. CASE sessions' = sessions
      BY <2>2 DEF WhatsAppRows, RowsStay
    <2>3. QED BY <2>1, <2>2 DEF EnqueueReply, RedeliverTurn, DropTurn
  <1>5. /\ replies' \in [Replies -> Reply]
        /\ \A r \in Replies : replies'[r].phase = "loaded" => replies'[r] = replies[r]
        /\ \A r \in Replies : replies'[r] = replies[r] \/ Live(replies'[r].session)
    <2>1. CASE \E r \in Replies : EnqueueReply(j, r)
      <3>1. PICK r \in Replies : EnqueueReply(j, r)
        BY <2>1
      <3> DEFINE q == [phase |-> "queued", session |-> jobs[j].session, outside |-> FALSE,
                       meta |-> NoMeta]
      <3>2. replies' = [replies EXCEPT ![r] = q]
        BY <3>1 DEF EnqueueReply
      <3>3. q \in Reply /\ q.phase = "queued" /\ q.session = jobs[j].session
        BY <1>2, EmptyRecords DEF Reply, Job
      <3> HIDE DEF q
      <3>4. QED BY <1>2, <3>2, <3>3 DEF WhatsAppRows
    <2>2. CASE replies' = replies
      BY <2>2 DEF WhatsAppRows
    <2>3. QED BY <2>1, <2>2 DEF RunTurn, RedeliverTurn, DropTurn
  <1>6. WhatsAppRows'
    BY <1>1, <1>3, <1>4, <1>5 DEF WhatsAppRows
  <1>7. \A h \in Hooks : HookSound(hooks[h])'
    BY <1>1, <1>4 DEF Referenced, HookSound, Live, RowsStay
  <1>8. \A i \in Jobs : (jobs[i].phase # "idle" => Live(jobs[i].session))'
    BY <1>2, <1>3, <1>4 DEF Referenced, Live, RowsStay
  <1>9. \A r \in Replies : (replies[r].phase # "idle" => Live(replies[r].session))'
    BY <1>4, <1>5 DEF Referenced, Live, RowsStay
  <1>10. Quiet /\ CountsNothing
    BY <1>1, <1>4, <1>5 DEF Quiet, CountsNothing
  <1>11. QED BY <1>6, <1>7, <1>8, <1>9, <1>10 DEF Referenced

\* What a step of send_whatsapp_reply that writes nothing does to the reply's record.
ReplyGoes(r, q) ==
    /\ q \in Reply /\ q.session = replies[r].session /\ q.phase # "idle"
    /\ replies[r].phase # "idle"
    /\ replies' = [replies EXCEPT ![r] = q]

LEMMA EndedType ==
    ASSUME NEW q \in Reply
    PROVE  /\ Ended(q) \in Reply /\ Ended(q).phase = "done" /\ Ended(q).session = q.session
           /\ [phase |-> "queued", session |-> q.session, outside |-> FALSE,
               meta |-> NoMeta] \in Reply
  BY EmptyRecords DEF Ended, Reply

LEMMA ReplyGoesShape ==
    ASSUME WhatsAppRows, Referenced, NEW r \in Replies, NEW q \in Reply, ReplyGoes(r, q),
           UNCHANGED <<racing, now, user, hits, hooks, jobs, delivered, recorded, queued, turned>>,
           sessions' \in [Sessions -> WhatsAppSession], RowsStay,
           put' \in [Sessions -> Seq(Replies)]
    PROVE  WhatsAppRows' /\ Referenced' /\ CountsNothing
  <1>1. replies' \in [Replies -> Reply] /\ replies'[r] = q
        /\ \A p \in Replies : p # r => replies'[p] = replies[p]
    BY DEF ReplyGoes, WhatsAppRows
  <1>2. WhatsAppRows'
    BY <1>1 DEF WhatsAppRows
  <1>3. \A h \in Hooks : HookSound(hooks[h])'
    BY DEF Referenced, HookSound, Live, RowsStay
  <1>4. \A i \in Jobs : (jobs[i].phase # "idle" => Live(jobs[i].session))'
    BY DEF Referenced, Live, RowsStay
  <1>5. \A p \in Replies : (replies[p].phase # "idle" => Live(replies[p].session))'
    BY <1>1 DEF Referenced, Live, RowsStay, ReplyGoes
  <1>6. CountsNothing
    BY DEF CountsNothing
  <1>7. QED BY <1>2, <1>3, <1>4, <1>5, <1>6 DEF Referenced

\* EndReply and RetryReply let go of what was loaded.
LEMMA ReplyEndsShape ==
    ASSUME WhatsAppRows, Referenced, NEW r \in Replies, EndReply(r) \/ RetryReply(r)
    PROVE  WhatsAppRows' /\ Referenced' /\ Quiet /\ CountsNothing
  <1>1. replies[r] \in Reply
    BY DEF WhatsAppRows
  <1>2. PICK q \in Reply : ReplyGoes(r, q) /\ q.phase # "loaded"
    <2>1. CASE EndReply(r)
      BY <1>1, <2>1, EndedType DEF EndReply, ReplyGoes
    <2>2. CASE RetryReply(r)
      BY <1>1, <2>2, EndedType DEF RetryReply, ReplyGoes
    <2>3. QED BY <2>1, <2>2
  <1>3. UNCHANGED <<racing, now, user, sessions, hits, hooks, jobs, delivered,
                    recorded, queued, turned, put>>
    BY DEF EndReply, RetryReply, ledger
  <1>4. RowsStay
    BY <1>3 DEF RowsStay
  <1>5. WhatsAppRows' /\ Referenced' /\ CountsNothing
    BY <1>2, <1>3, <1>4, ReplyGoesShape DEF WhatsAppRows
  <1>6. Quiet
    BY <1>2, <1>3, <1>4 DEF Quiet, ReplyGoes, WhatsAppRows
  <1>7. QED BY <1>5, <1>6

\* LoadReply takes the version that is stored, while nobody else writes one.
LEMMA LoadReplyShape ==
    ASSUME WhatsAppRows, Referenced, NEW r \in Replies, LoadReply(r)
    PROVE  /\ WhatsAppRows' /\ Referenced' /\ CountsNothing
           /\ MayWrite
           /\ replies'[r].session = replies[r].session /\ replies[r].session \in Sessions
           /\ replies'[r].meta = sessions[replies[r].session].meta
           /\ \A p \in Replies : p # r => replies'[p] = replies[p]
           /\ UNCHANGED <<racing, sessions, hooks, recorded, queued, put>>
  <1> DEFINE s == replies[r].session
             q == [phase |-> "loaded", session |-> s,
                   outside |-> now - sessions[s].meta.inbound > WindowAfter,
                   meta |-> sessions[s].meta]
  <1>1. replies[r] \in Reply /\ replies[r].phase = "queued" /\ s \in Sessions /\ MayWrite
    BY DEF LoadReply, WhatsAppRows, Referenced, Live
  <1>2. sessions[s].meta \in Metadata
    BY <1>1 DEF WhatsAppRows, WhatsAppSession
  <1>3. replies' = [replies EXCEPT ![r] = q]
    BY DEF LoadReply
  <1>4. q \in Reply /\ q.phase = "loaded" /\ q.session = s /\ q.meta = sessions[s].meta
    BY <1>1, <1>2 DEF Reply
  <1> HIDE DEF q
  <1>5. UNCHANGED <<racing, now, user, sessions, hits, hooks, jobs, delivered,
                    recorded, queued, turned, put>>
    BY DEF LoadReply, ledger
  <1>6. ReplyGoes(r, q)
    BY <1>1, <1>3, <1>4 DEF ReplyGoes
  <1>7. RowsStay
    BY <1>5 DEF RowsStay
  <1>8. WhatsAppRows' /\ Referenced' /\ CountsNothing
    BY <1>4, <1>5, <1>6, <1>7, ReplyGoesShape DEF WhatsAppRows
  <1>9. replies'[r] = q /\ \A p \in Replies : p # r => replies'[p] = replies[p]
    BY <1>3 DEF WhatsAppRows
  <1>10. QED BY <1>1, <1>4, <1>5, <1>8, <1>9

\* DeferReply writes what it loaded and itself.
LEMMA DeferReplyShape ==
    ASSUME WhatsAppRows, Referenced, NEW r \in Replies, DeferReply(r)
    PROVE  LET s == replies[r].session
               meta == replies[r].meta
           IN  /\ WhatsAppRows' /\ Referenced' /\ CountsNothing /\ RowsStay
               /\ s \in Sessions /\ replies[r].phase = "loaded" /\ replies'[r].phase = "done"
               /\ sessions'[s].meta.ring = meta.ring
               /\ sessions'[s].meta.deferred = Appended(meta.deferred, r, DeferredCap)
               /\ meta.deferred \in Seq(Replies) /\ put[s] \in Seq(Replies)
               /\ \A t \in Sessions : t # s => sessions'[t] = sessions[t]
               /\ put'[s] = Append(put[s], r) /\ \A t \in Sessions : t # s => put'[t] = put[t]
               /\ \A p \in Replies : p # r => replies'[p] = replies[p]
               /\ UNCHANGED <<racing, hooks, recorded, queued>>
  <1> DEFINE s == replies[r].session
             old == replies[r].meta
             meta == [ring |-> old.ring, inbound |-> old.inbound,
                      deferred |-> Appended(old.deferred, r, DeferredCap)]
  <1>1. replies[r] \in Reply /\ replies[r].phase = "loaded" /\ Live(s) /\ s \in Sessions
    BY DEF DeferReply, WhatsAppRows, Referenced, Live
  <1>2. old \in Metadata /\ old.deferred \in Seq(Replies) /\ put[s] \in Seq(Replies)
    BY <1>1 DEF Reply, Metadata, WhatsAppRows
  <1>3. /\ meta \in Metadata /\ meta.ring = old.ring
        /\ meta.deferred = Appended(old.deferred, r, DeferredCap)
    <2>1. Appended(old.deferred, r, DeferredCap) \in Seq(Replies)
      BY <1>2, AppendedType, WhatsAppAssumption
    <2>2. QED BY <1>2, <2>1 DEF Metadata
  <1>4. /\ sessions' = [sessions EXCEPT ![s].meta = meta]
        /\ replies' = [replies EXCEPT ![r] = Ended(replies[r])]
        /\ put' = [put EXCEPT ![s] = Append(put[s], r)]
        /\ UNCHANGED <<racing, now, user, hits, hooks, jobs, delivered, recorded, queued, turned>>
    BY DEF DeferReply
  <1> HIDE DEF meta
  <1>5. /\ sessions' \in [Sessions -> WhatsAppSession]
        /\ sessions'[s].meta = meta /\ sessions'[s].status = sessions[s].status
        /\ \A t \in Sessions : t # s => sessions'[t] = sessions[t]
    BY <1>1, <1>3, <1>4 DEF WhatsAppRows, WhatsAppSession
  <1>6. RowsStay
    BY <1>5 DEF RowsStay
  <1>7. /\ put' \in [Sessions -> Seq(Replies)] /\ put'[s] = Append(put[s], r)
        /\ \A t \in Sessions : t # s => put'[t] = put[t]
    <2>1. Append(put[s], r) \in Seq(Replies) /\ put \in [Sessions -> Seq(Replies)]
      BY <1>2 DEF WhatsAppRows
    <2>2. QED BY <1>1, <1>4, <2>1
  <1>8. ReplyGoes(r, Ended(replies[r])) /\ Ended(replies[r]) \in Reply
    BY <1>1, <1>4, EndedType DEF ReplyGoes
  <1>9. WhatsAppRows' /\ Referenced' /\ CountsNothing
    BY <1>4, <1>5, <1>6, <1>7, <1>8, ReplyGoesShape
  <1>10. replies'[r] = Ended(replies[r]) /\ \A p \in Replies : p # r => replies'[p] = replies[p]
    BY <1>4 DEF WhatsAppRows
  <1>11. replies'[r].phase = "done"
    BY <1>1, <1>10, EndedType
  <1>12. QED BY <1>1, <1>2, <1>3, <1>4, <1>5, <1>6, <1>7, <1>9, <1>10, <1>11

\* EnqueueTurn: the request ends, and its message has been queued once more.
LEMMA EnqueueTurnShape ==
    ASSUME WhatsAppRows, Referenced, NEW h \in Hooks, NEW j \in Jobs, EnqueueTurn(h, j)
    PROVE  LET q == hooks[h]
               s == q.session
           IN  /\ WhatsAppRows' /\ Referenced'
               /\ q.phase = "enqueue" /\ q.outcome = "queue" /\ q.msg \in Messages /\ s \in Sessions
               /\ hooks'[h] = NoHook /\ \A g \in Hooks : g # h => hooks'[g] = hooks[g]
               /\ queued'[s][q.msg] = queued[s][q.msg] + 1
               /\ \A t \in Sessions, m \in Messages :
                      t # s \/ m # q.msg => queued'[t][m] = queued[t][m]
               /\ turned'[s] = IF q.counted THEN turned[s] + 1 ELSE turned[s]
               /\ \A t \in Sessions : t # s => turned'[t] = turned[t]
               /\ UNCHANGED <<racing, sessions, hits, replies, recorded, put>>
  <1> DEFINE q == hooks[h]
             s == q.session
             job == [phase |-> "queued", session |-> s]
  <1>1. /\ q \in Hook /\ q.phase = "enqueue" /\ q.outcome = "queue" /\ q.msg \in Messages
        /\ s \in Sessions /\ Live(s)
    BY DEF EnqueueTurn, WhatsAppRows, Referenced, HookSound
  <1>2. /\ jobs' = [jobs EXCEPT ![j] = job]
        /\ hooks' = [hooks EXCEPT ![h] = NoHook]
        /\ queued' = [queued EXCEPT ![s][q.msg] = queued[s][q.msg] + 1]
        /\ turned' = [turned EXCEPT ![s] = IF q.counted THEN turned[s] + 1 ELSE turned[s]]
        /\ UNCHANGED <<racing, now, user, sessions, hits, replies, delivered, recorded, put>>
    BY DEF EnqueueTurn
  <1>3. job \in Job /\ job.session = s
    BY <1>1 DEF Job
  <1> HIDE DEF job
  <1>4. jobs' \in [Jobs -> Job] /\ jobs'[j] = job /\ \A i \in Jobs : i # j => jobs'[i] = jobs[i]
    BY <1>2, <1>3 DEF WhatsAppRows
  <1>5. hooks' \in [Hooks -> Hook] /\ hooks'[h] = NoHook
        /\ \A g \in Hooks : g # h => hooks'[g] = hooks[g]
    BY <1>2, EmptyRecords DEF WhatsAppRows
  <1>6. /\ queued' \in [Sessions -> [Messages -> Nat]]
        /\ queued'[s][q.msg] = queued[s][q.msg] + 1
        /\ \A t \in Sessions, m \in Messages :
               t # s \/ m # q.msg => queued'[t][m] = queued[t][m]
    <2>1. queued \in [Sessions -> [Messages -> Nat]]
      BY DEF WhatsAppRows
    <2>2. QED BY <1>1, <1>2, <2>1
  <1>7. /\ turned' \in [Sessions -> Nat]
        /\ turned'[s] = IF q.counted THEN turned[s] + 1 ELSE turned[s]
        /\ \A t \in Sessions : t # s => turned'[t] = turned[t]
    <2>1. turned \in [Sessions -> Nat]
      BY DEF WhatsAppRows
    <2>2. QED BY <1>1, <1>2, <2>1
  <1>8. WhatsAppRows'
    BY <1>2, <1>4, <1>5, <1>6, <1>7 DEF WhatsAppRows
  <1>9. \A g \in Hooks : HookSound(hooks[g])'
    BY <1>2, <1>5, EmptyRecords DEF Referenced, HookSound, Live
  <1>10. \A i \in Jobs : (jobs[i].phase # "idle" => Live(jobs[i].session))'
    BY <1>1, <1>2, <1>3, <1>4 DEF Referenced, Live
  <1>11. \A r \in Replies : (replies[r].phase # "idle" => Live(replies[r].session))'
    BY <1>2 DEF Referenced, Live
  <1>12. QED BY <1>1, <1>2, <1>5, <1>6, <1>7, <1>8, <1>9, <1>10, <1>11 DEF Referenced

\* The clock, and nothing at all.
LEMMA TickShape ==
    ASSUME WhatsAppRows, Referenced, Tick \/ UNCHANGED whatsAppVars
    PROVE  WhatsAppRows' /\ Referenced' /\ Quiet /\ CountsNothing
  <1>1. /\ now' \in Moments
        /\ UNCHANGED <<racing, user, sessions, hits, hooks, jobs, replies, delivered,
                       recorded, queued, turned, put>>
    BY WhatsAppAssumption DEF Tick, WhatsAppRows, Moments, ledger, whatsAppVars
  <1>2. WhatsAppRows'
    BY <1>1 DEF WhatsAppRows
  <1>3. Referenced'
    BY <1>1 DEF Referenced, HookSound, Live
  <1>4. Quiet /\ CountsNothing
    BY <1>1 DEF Quiet, CountsNothing, RowsStay
  <1>5. QED BY <1>2, <1>3, <1>4

\* A new hour: nothing is counted in it yet.
LEMMA NextHourShape ==
    ASSUME WhatsAppRows, Referenced, NextHour
    PROVE  /\ WhatsAppRows' /\ Referenced' /\ Quiet
           /\ \A h \in Hooks : ~hooks'[h].counted
           /\ \A s \in Sessions : hits'[s] = 0 /\ turned'[s] = 0
  <1>1. /\ hits' = [s \in Sessions |-> 0] /\ turned' = [s \in Sessions |-> 0]
        /\ hooks' = [h \in Hooks |-> [hooks[h] EXCEPT !.counted = FALSE]]
        /\ UNCHANGED <<racing, now, user, sessions, jobs, replies, delivered,
                       recorded, queued, put>>
    BY DEF NextHour
  <1>2. hits' \in [Sessions -> 0..(Limit + 1)] /\ turned' \in [Sessions -> Nat]
    BY <1>1, WhatsAppAssumption
  <1>3. \A h \in Hooks : /\ hooks'[h] \in Hook /\ hooks'[h].counted = FALSE
                         /\ hooks'[h].phase = hooks[h].phase /\ hooks'[h].msg = hooks[h].msg
                         /\ hooks'[h].session = hooks[h].session
                         /\ hooks'[h].meta = hooks[h].meta /\ hooks'[h].new = hooks[h].new
                         /\ hooks'[h].outcome = hooks[h].outcome
    <2> SUFFICES ASSUME NEW h \in Hooks
                 PROVE  /\ hooks'[h] \in Hook /\ hooks'[h].counted = FALSE
                        /\ hooks'[h].phase = hooks[h].phase /\ hooks'[h].msg = hooks[h].msg
                        /\ hooks'[h].session = hooks[h].session
                        /\ hooks'[h].meta = hooks[h].meta /\ hooks'[h].new = hooks[h].new
                        /\ hooks'[h].outcome = hooks[h].outcome
      OBVIOUS
    <2>1. hooks[h] \in Hook /\ hooks'[h] = [hooks[h] EXCEPT !.counted = FALSE]
      BY <1>1 DEF WhatsAppRows
    <2>2. QED BY <2>1 DEF Hook
  <1>4. hooks' \in [Hooks -> Hook]
    BY <1>1, <1>3
  <1>5. WhatsAppRows'
    BY <1>1, <1>2, <1>4 DEF WhatsAppRows
  <1>6. \A h \in Hooks : HookSound(hooks[h])'
    BY <1>1, <1>3 DEF Referenced, HookSound, Live
  <1>7. Referenced'
    BY <1>1, <1>6 DEF Referenced, Live
  <1>8. Quiet
    BY <1>1, <1>3 DEF Quiet, RowsStay
  <1>9. QED BY <1>1, <1>3, <1>5, <1>7, <1>8

-----------------------------------------------------------------------------

\* A part of a finite set is finite and not larger.
LEMMA Smaller ==
    ASSUME NEW S, NEW T, IsFiniteSet(S), T \subseteq S
    PROVE  /\ IsFiniteSet(T) /\ Cardinality(T) \in Nat /\ Cardinality(S) \in Nat
           /\ Cardinality(T) <= Cardinality(S)
  BY FS_Subset, FS_CardinalityType

\* A step that counts nothing keeps the quota.
LEMMA QuotaFalls ==
    ASSUME WhatsAppRows, Quota, CountsNothing
    PROVE  Quota'
  <1> SUFFICES ASSUME NEW s \in Sessions
               PROVE  /\ IsFiniteSet(Counting(s)')
                      /\ turned'[s] + Cardinality(Counting(s)') <= hits'[s]
                      /\ turned'[s] + Cardinality(Counting(s)') <= Limit
    BY DEF Quota
  <1>1. Counting(s)' \subseteq Counting(s)
    BY DEF Counting, CountsNothing
  <1> DEFINE before == Counting(s)
             after == Counting(s)'
  <1>2. /\ IsFiniteSet(before) /\ turned[s] + Cardinality(before) <= hits[s]
        /\ turned[s] + Cardinality(before) <= Limit
    BY DEF Quota
  <1>3. turned[s] \in Nat /\ hits[s] \in Nat /\ Limit \in Nat
        /\ turned'[s] = turned[s] /\ hits'[s] = hits[s]
    BY WhatsAppAssumption DEF WhatsAppRows, CountsNothing
  <1> HIDE DEF before, after
  <1>4. IsFiniteSet(after) /\ Cardinality(after) \in Nat /\ Cardinality(before) \in Nat
        /\ Cardinality(after) <= Cardinality(before)
    BY <1>1, <1>2, Smaller DEF before, after
  <1>5. /\ IsFiniteSet(after) /\ turned'[s] + Cardinality(after) <= hits'[s]
        /\ turned'[s] + Cardinality(after) <= Limit
    BY <1>2, <1>3, <1>4
  <1>6. QED BY <1>5 DEF after

\* A request that opens has been counted, within the limit if it will queue a turn.
LEMMA OpensQuota ==
    ASSUME WhatsAppRows, Referenced, Quota,
           NEW h \in Hooks, NEW m \in Messages, NEW s \in Sessions, NEW q \in Hook,
           Opens(h, m, s, q)
    PROVE  Quota'
  <1> SUFFICES ASSUME NEW r \in Sessions
               PROVE  /\ IsFiniteSet(Counting(r)')
                      /\ turned'[r] + Cardinality(Counting(r)') <= hits'[r]
                      /\ turned'[r] + Cardinality(Counting(r)') <= Limit
    BY DEF Quota
  <1> DEFINE before == Counting(r)
             after == Counting(r)'
  <1>1. hooks'[h] = q /\ \A g \in Hooks : g # h => hooks'[g] = hooks[g]
    BY DEF Opens, WhatsAppRows
  <1>2. /\ IsFiniteSet(before) /\ turned[r] + Cardinality(before) <= hits[r]
        /\ turned[r] + Cardinality(before) <= Limit
    BY DEF Quota
  <1>3. /\ turned[r] \in Nat /\ hits[r] \in Nat /\ hits'[r] \in Nat /\ Limit \in Nat
        /\ turned'[r] = turned[r] /\ hits'[r] >= hits[r]
    <2>1. /\ hits[r] \in 0..(Limit + 1) /\ hits'[r] \in 0..(Limit + 1) /\ Limit \in Nat
          /\ turned[r] \in Nat /\ turned'[r] = turned[r]
      BY WhatsAppAssumption DEF WhatsAppRows, Opens
    <2>2. hits'[r] = hits[r] \/ hits'[r] >= hits[r]
      BY DEF Opens
    <2>3. QED BY <2>1, <2>2
  <1>4. h \notin before
    BY DEF Counting, Referenced, HookSound, Opens
  <1>5. CASE r = s /\ q.counted /\ q.outcome = "queue"
    <2>1. hits'[r] = hits[r] + 1 /\ hits'[r] <= Limit
      BY <1>5 DEF Opens
    <2>2. after = before \cup {h}
      BY <1>1, <1>4, <1>5 DEF Counting, Opens
    <2> HIDE DEF before, after
    <2>3. /\ IsFiniteSet(after) /\ Cardinality(after) = Cardinality(before) + 1
          /\ Cardinality(before) \in Nat
      BY <1>2, <1>4, <2>2, FS_AddElement, FS_CardinalityType
    <2>4. /\ IsFiniteSet(after) /\ turned'[r] + Cardinality(after) <= hits'[r]
          /\ turned'[r] + Cardinality(after) <= Limit
      BY <1>2, <1>3, <2>1, <2>3
    <2>5. QED BY <2>4 DEF after
  <1>6. CASE ~(r = s /\ q.counted /\ q.outcome = "queue")
    <2>1. after \subseteq before
      BY <1>1, <1>6 DEF Counting, Opens
    <2> HIDE DEF before, after
    <2>2. IsFiniteSet(after) /\ Cardinality(after) \in Nat /\ Cardinality(before) \in Nat
          /\ Cardinality(after) <= Cardinality(before)
      BY <1>2, <2>1, Smaller
    <2>3. /\ IsFiniteSet(after) /\ turned'[r] + Cardinality(after) <= hits'[r]
          /\ turned'[r] + Cardinality(after) <= Limit
      BY <1>2, <1>3, <2>2
    <2>4. QED BY <2>3 DEF after
  <1>7. QED BY <1>5, <1>6

\* A commit changes nothing of what is counted.
LEMMA CommitsCountsNothing ==
    ASSUME NEW h \in Hooks, Commits(h)
    PROVE  CountsNothing
  BY EmptyRecords DEF Commits, CountsNothing

\* A turn that is queued takes the place of the request that was counted for it.
LEMMA EnqueueTurnQuota ==
    ASSUME WhatsAppRows, Referenced, Quota, NEW h \in Hooks, NEW j \in Jobs, EnqueueTurn(h, j)
    PROVE  Quota'
  <1> DEFINE q == hooks[h]
             s == q.session
  <1>1. /\ s \in Sessions /\ q.outcome = "queue"
        /\ hooks'[h] = NoHook /\ \A g \in Hooks : g # h => hooks'[g] = hooks[g]
        /\ turned'[s] = IF q.counted THEN turned[s] + 1 ELSE turned[s]
        /\ \A t \in Sessions : t # s => turned'[t] = turned[t]
        /\ hits' = hits
    BY EnqueueTurnShape
  <1> SUFFICES ASSUME NEW r \in Sessions
               PROVE  /\ IsFiniteSet(Counting(r)')
                      /\ turned'[r] + Cardinality(Counting(r)') <= hits'[r]
                      /\ turned'[r] + Cardinality(Counting(r)') <= Limit
    BY DEF Quota
  <1> DEFINE before == Counting(r)
             after == Counting(r)'
  <1>2. /\ IsFiniteSet(before) /\ turned[r] + Cardinality(before) <= hits[r]
        /\ turned[r] + Cardinality(before) <= Limit
    BY DEF Quota
  <1>3. turned[r] \in Nat /\ hits[r] \in Nat /\ Limit \in Nat /\ hits'[r] = hits[r]
    BY <1>1, WhatsAppAssumption DEF WhatsAppRows
  <1>4. CASE r = s /\ q.counted
    <2>1. h \in before /\ after = before \ {h}
      BY <1>1, <1>4, EmptyRecords DEF Counting
    <2>2. turned'[r] = turned[r] + 1
      BY <1>1, <1>4
    <2> HIDE DEF before, after
    <2>3. /\ IsFiniteSet(after) /\ Cardinality(after) = Cardinality(before) - 1
          /\ Cardinality(before) \in Nat
      BY <1>2, <2>1, FS_RemoveElement, FS_CardinalityType
    <2>4. /\ IsFiniteSet(after) /\ turned'[r] + Cardinality(after) <= hits'[r]
          /\ turned'[r] + Cardinality(after) <= Limit
      BY <1>2, <1>3, <2>2, <2>3
    <2>5. QED BY <2>4 DEF after
  <1>5. CASE ~(r = s /\ q.counted)
    <2>1. after \subseteq before
      BY <1>1, EmptyRecords DEF Counting
    <2>2. turned'[r] = turned[r]
      BY <1>1, <1>5
    <2> HIDE DEF before, after
    <2>3. IsFiniteSet(after) /\ Cardinality(after) \in Nat /\ Cardinality(before) \in Nat
          /\ Cardinality(after) <= Cardinality(before)
      BY <1>2, <2>1, Smaller
    <2>4. /\ IsFiniteSet(after) /\ turned'[r] + Cardinality(after) <= hits'[r]
          /\ turned'[r] + Cardinality(after) <= Limit
      BY <1>2, <1>3, <2>2, <2>3
    <2>5. QED BY <2>4 DEF after
  <1>6. QED BY <1>4, <1>5

\* In a new hour nothing is counted.
LEMMA NextHourQuota ==
    ASSUME WhatsAppRows, Referenced, NextHour
    PROVE  Quota'
  <1>1. /\ \A h \in Hooks : ~hooks'[h].counted
        /\ \A s \in Sessions : hits'[s] = 0 /\ turned'[s] = 0
    BY NextHourShape
  <1>2. \A s \in Sessions : Counting(s)' = {}
    BY <1>1 DEF Counting
  <1>3. Limit \in Nat
    BY WhatsAppAssumption
  <1>4. ASSUME NEW s \in Sessions
        PROVE  /\ IsFiniteSet(Counting(s)')
               /\ turned'[s] + Cardinality(Counting(s)') <= hits'[s]
               /\ turned'[s] + Cardinality(Counting(s)') <= Limit
    <2>1. Counting(s)' = {} /\ IsFiniteSet(Counting(s)') /\ Cardinality(Counting(s)') = 0
      BY <1>2, FS_EmptySet
    <2>2. hits'[s] = 0 /\ turned'[s] = 0
      BY <1>1
    <2>3. turned'[s] + Cardinality(Counting(s)') = 0
      BY <2>1, <2>2
    <2>4. QED BY <1>3, <2>1, <2>2, <2>3
  <1>5. QED BY <1>4 DEF Quota

-----------------------------------------------------------------------------

\* A step that is quiet about channel_metadata leaves its writer and the deferrals.
LEMMA QuietInTurn ==
    ASSUME Quiet, OneWriter, DeferralsKept
    PROVE  OneWriter' /\ DeferralsKept'
  <1>1. OneWriter'
    BY DEF Quiet, OneWriter
  <1>2. /\ \A s \in Sessions : KeepsDeferred(sessions[s].meta, s)'
        /\ \A s \in Sessions : (sessions[s].status = "none" => put[s] = <<>>)'
    BY DEF Quiet, DeferralsKept, KeepsDeferred, RowsStay
  <1>3. /\ \A h \in Hooks : (hooks[h].phase = "open" =>
                KeepsDeferred(hooks[h].meta, hooks[h].session))'
        /\ \A r \in Replies : (replies[r].phase = "loaded" =>
                KeepsDeferred(replies[r].meta, replies[r].session))'
    BY DEF Quiet, DeferralsKept, KeepsDeferred
  <1>4. QED BY <1>1, <1>2, <1>3 DEF DeferralsKept

\* A request that opens becomes the only writer, with the deferrals of the row.
LEMMA OpensInTurn ==
    ASSUME WhatsAppRows, ~racing, DeferralsKept,
           NEW h \in Hooks, NEW m \in Messages, NEW s \in Sessions, NEW q \in Hook,
           Opens(h, m, s, q)
    PROVE  OneWriter' /\ DeferralsKept'
  <1>1. /\ hooks'[h] = q /\ \A g \in Hooks : g # h => hooks'[g] = hooks[g]
        /\ q.phase = "open" /\ q.session = s
        /\ UNCHANGED <<sessions, replies, put>>
    BY DEF Opens, WhatsAppRows
  <1>2. /\ \A g \in Hooks : hooks[g].phase # "open"
        /\ \A r \in Replies : replies[r].phase # "loaded"
    BY DEF Opens, MayWrite, MetadataIsFree
  <1>3. OneWriter'
    BY <1>1, <1>2 DEF OneWriter
  <1>4. KeepsDeferred(q.meta, s)
    <2>1. CASE q.meta.deferred = sessions[s].meta.deferred
      BY <2>1 DEF DeferralsKept, KeepsDeferred
    <2>2. CASE sessions[s].status = "none" /\ q.meta.deferred = <<>>
      BY <2>2, NewestOfNone DEF DeferralsKept, KeepsDeferred
    <2>3. QED BY <2>1, <2>2 DEF Opens
  <1>5. /\ \A t \in Sessions : KeepsDeferred(sessions[t].meta, t)'
        /\ \A t \in Sessions : (sessions[t].status = "none" => put[t] = <<>>)'
    BY <1>1 DEF DeferralsKept, KeepsDeferred
  <1>6. /\ \A g \in Hooks : (hooks[g].phase = "open" =>
                KeepsDeferred(hooks[g].meta, hooks[g].session))'
        /\ \A r \in Replies : (replies[r].phase = "loaded" =>
                KeepsDeferred(replies[r].meta, replies[r].session))'
    BY <1>1, <1>2, <1>4 DEF KeepsDeferred
  <1>7. QED BY <1>3, <1>5, <1>6 DEF DeferralsKept

\* The only writer commits the deferrals it took from the row, which nobody has
\* changed since.
LEMMA CommitsInTurn ==
    ASSUME OneWriter, DeferralsKept, NEW h \in Hooks, Commits(h)
    PROVE  OneWriter' /\ DeferralsKept'
  <1> DEFINE q == hooks[h]
             s == q.session
  <1>1. /\ q.phase = "open" /\ s \in Sessions
        /\ sessions'[s].meta = q.meta /\ sessions'[s].status # "none"
        /\ \A t \in Sessions : t # s => sessions'[t] = sessions[t]
        /\ \A g \in Hooks : g # h => hooks'[g] = hooks[g]
        /\ UNCHANGED <<replies, put>>
    BY DEF Commits
  <1>2. hooks'[h].phase # "open"
    BY EmptyRecords DEF Commits
  <1>3. /\ \A g \in Hooks : g # h => hooks[g].phase # "open"
        /\ \A r \in Replies : replies[r].phase # "loaded"
    BY <1>1 DEF OneWriter
  <1>4. KeepsDeferred(q.meta, s)
    BY <1>1 DEF DeferralsKept
  <1> HIDE DEF q, s
  <1>5. \A g \in Hooks : hooks'[g].phase # "open"
    BY <1>1, <1>2, <1>3
  <1>6. OneWriter'
    BY <1>1, <1>3, <1>5 DEF OneWriter
  <1>7. ASSUME NEW t \in Sessions
        PROVE  /\ KeepsDeferred(sessions[t].meta, t)'
               /\ (sessions[t].status = "none" => put[t] = <<>>)'
    <2>1. CASE t = s
      BY <1>1, <1>4, <2>1 DEF KeepsDeferred
    <2>2. CASE t # s
      BY <1>1, <2>2 DEF DeferralsKept, KeepsDeferred
    <2>3. QED BY <2>1, <2>2
  <1>8. QED BY <1>1, <1>3, <1>5, <1>6, <1>7 DEF DeferralsKept

\* LoadReply becomes the only writer, with the version that is stored.
LEMMA LoadReplyInTurn ==
    ASSUME WhatsAppRows, Referenced, ~racing, DeferralsKept, NEW r \in Replies, LoadReply(r)
    PROVE  OneWriter' /\ DeferralsKept'
  <1> DEFINE s == replies[r].session
  <1>1. /\ MayWrite /\ replies'[r].session = s /\ s \in Sessions
        /\ replies'[r].meta = sessions[s].meta
        /\ \A p \in Replies : p # r => replies'[p] = replies[p]
        /\ UNCHANGED <<racing, sessions, hooks, put>>
    BY LoadReplyShape
  <1>2. /\ \A g \in Hooks : hooks[g].phase # "open"
        /\ \A p \in Replies : replies[p].phase # "loaded"
    BY <1>1 DEF MayWrite, MetadataIsFree
  <1> HIDE DEF s
  <1>3. OneWriter'
    BY <1>1, <1>2 DEF OneWriter
  <1>4. /\ \A t \in Sessions : KeepsDeferred(sessions[t].meta, t)'
        /\ \A t \in Sessions : (sessions[t].status = "none" => put[t] = <<>>)'
    BY <1>1 DEF DeferralsKept, KeepsDeferred
  <1>5. \A p \in Replies : (replies[p].phase = "loaded" =>
            KeepsDeferred(replies[p].meta, replies[p].session))'
    BY <1>1, <1>2, <1>4
  <1>6. QED BY <1>1, <1>2, <1>3, <1>4, <1>5 DEF DeferralsKept

\* DeferReply adds itself to the version it loaded; the oldest deferral of a full list
\* goes.
LEMMA DeferReplyInTurn ==
    ASSUME WhatsAppRows, Referenced, OneWriter, DeferralsKept, NEW r \in Replies, DeferReply(r)
    PROVE  OneWriter' /\ DeferralsKept'
  <1> DEFINE s == replies[r].session
             meta == replies[r].meta
  <1>1. /\ RowsStay /\ s \in Sessions
        /\ replies[r].phase = "loaded" /\ replies'[r].phase = "done"
        /\ sessions'[s].meta.deferred = Appended(meta.deferred, r, DeferredCap)
        /\ meta.deferred \in Seq(Replies) /\ put[s] \in Seq(Replies)
        /\ \A t \in Sessions : t # s => sessions'[t] = sessions[t]
        /\ put'[s] = Append(put[s], r) /\ \A t \in Sessions : t # s => put'[t] = put[t]
        /\ \A p \in Replies : p # r => replies'[p] = replies[p]
        /\ UNCHANGED hooks
    BY DeferReplyShape
  <1>2. sessions'[s].status # "none"
    BY <1>1 DEF Referenced, Live, RowsStay
  <1>3. /\ \A g \in Hooks : hooks[g].phase # "open"
        /\ \A p \in Replies : p # r => replies[p].phase # "loaded"
    BY <1>1 DEF OneWriter
  <1>4. Newest(meta.deferred, put[s], DeferredCap)
    BY <1>1 DEF DeferralsKept, KeepsDeferred
  <1> HIDE DEF s, meta
  <1>5. Newest(Appended(meta.deferred, r, DeferredCap), Append(put[s], r), DeferredCap)
    BY <1>1, <1>4, NewestAppended, WhatsAppAssumption
  <1>6. \A p \in Replies : replies'[p].phase # "loaded"
    BY <1>1, <1>3
  <1>7. OneWriter'
    BY <1>1, <1>3, <1>6 DEF OneWriter
  <1>8. ASSUME NEW t \in Sessions
        PROVE  /\ KeepsDeferred(sessions[t].meta, t)'
               /\ (sessions[t].status = "none" => put[t] = <<>>)'
    <2>1. CASE t = s
      BY <1>1, <1>2, <1>5, <2>1 DEF KeepsDeferred
    <2>2. CASE t # s
      BY <1>1, <2>2 DEF DeferralsKept, KeepsDeferred, RowsStay
    <2>3. QED BY <2>1, <2>2
  <1>9. QED BY <1>1, <1>3, <1>6, <1>7, <1>8 DEF DeferralsKept

\* EnqueueTurn ends a request that writes nothing any more.
LEMMA EnqueueTurnInTurn ==
    ASSUME WhatsAppRows, Referenced, OneWriter, DeferralsKept,
           NEW h \in Hooks, NEW j \in Jobs, EnqueueTurn(h, j)
    PROVE  OneWriter' /\ DeferralsKept'
  <1>1. /\ hooks'[h] = NoHook /\ \A g \in Hooks : g # h => hooks'[g] = hooks[g]
        /\ UNCHANGED <<sessions, replies, put>>
    BY EnqueueTurnShape
  <1>2. hooks'[h].phase = "idle"
    BY <1>1, EmptyRecords
  <1>3. OneWriter'
    BY <1>1, <1>2 DEF OneWriter
  <1>4. /\ \A t \in Sessions : KeepsDeferred(sessions[t].meta, t)'
        /\ \A t \in Sessions : (sessions[t].status = "none" => put[t] = <<>>)'
    BY <1>1 DEF DeferralsKept, KeepsDeferred
  <1>5. /\ \A g \in Hooks : (hooks[g].phase = "open" =>
                KeepsDeferred(hooks[g].meta, hooks[g].session))'
        /\ \A r \in Replies : (replies[r].phase = "loaded" =>
                KeepsDeferred(replies[r].meta, replies[r].session))'
    BY <1>1, <1>2 DEF DeferralsKept, KeepsDeferred
  <1>6. QED BY <1>3, <1>4, <1>5 DEF DeferralsKept

-----------------------------------------------------------------------------

\* A step that is quiet about channel_metadata disturbs nothing of it.
LEMMA QuietCalm ==
    ASSUME Quiet, AllKept, QueuedOnce
    PROVE  AllKept' /\ QueuedOnce'
  <1>2. \A s \in Sessions : Keeps(sessions[s].meta, s)'
    BY DEF Quiet, AllKept, Keeps
  <1>3. \A s \in Sessions : (sessions[s].status = "none" => recorded[s] = {})'
    BY DEF Quiet, AllKept, RowsStay
  <1>4. \A h \in Hooks : (hooks[h].phase = "open" =>
            /\ Keeps(hooks[h].meta, hooks[h].session)
            /\ Contains(hooks[h].meta.ring, hooks[h].msg)
            /\ hooks[h].msg \notin recorded[hooks[h].session])'
    BY DEF Quiet, AllKept, Keeps
  <1>5. \A r \in Replies : (replies[r].phase = "loaded" =>
            Keeps(replies[r].meta, replies[r].session))'
    BY DEF Quiet, AllKept, Keeps
  <1>6. QueuedOnce'
    BY DEF Quiet, QueuedOnce
  <1>7. QED BY <1>2, <1>3, <1>4, <1>5, <1>6 DEF AllKept

\* A message taken up by the only writer is appended to a ring with room for it, and
\* has not been recorded: a recorded one would be in the ring.
LEMMA OpensCalm ==
    ASSUME WhatsAppRows, Referenced, Calm, AllKept, QueuedOnce,
           NEW h \in Hooks, NEW m \in Messages, NEW s \in Sessions, NEW q \in Hook,
           Opens(h, m, s, q)
    PROVE  AllKept' /\ QueuedOnce'
  <1>1. /\ hooks'[h] = q /\ \A g \in Hooks : g # h => hooks'[g] = hooks[g]
        /\ q.phase = "open" /\ q.msg = m /\ q.session = s
        /\ UNCHANGED <<sessions, replies, recorded, queued, put>>
    BY DEF Opens, WhatsAppRows
  <1>2. /\ \A g \in Hooks : hooks[g].phase # "open"
        /\ \A r \in Replies : replies[r].phase # "loaded"
    BY DEF Opens, Calm, MayWrite, MetadataIsFree
  <1>4. Keeps(q.meta, s) /\ Contains(q.meta.ring, m) /\ m \notin recorded[s]
    <2>1. CASE ~q.new
      <3> DEFINE ring == sessions[s].meta.ring
      <3>1. ~Contains(ring, m) /\ q.meta.ring = Appended(ring, m, RingCap)
        BY <2>1 DEF Opens
      <3>2. ring \in Seq(Messages)
        BY DEF WhatsAppRows, WhatsAppSession, Metadata
      <3>3. Distinct(ring) /\ (\A k \in recorded[s] : Contains(ring, k))
        BY DEF AllKept, Keeps
      <3> HIDE DEF ring
      <3>4. Len(ring) < RingCap
        <4>1. Len(ring) < Cardinality(Messages)
          BY <3>1, <3>2, <3>3, DistinctIsShort
        <4>2. Len(ring) \in Nat /\ Cardinality(Messages) \in Nat /\ RingCap \in Nat
          BY <3>2, WhatsAppAssumption, FS_CardinalityType
        <4>3. QED BY <4>1, <4>2 DEF Calm
      <3>5. q.meta.ring = Append(ring, m)
        BY <3>1, <3>2, <3>4, AppendedType, WhatsAppAssumption
      <3>6. /\ Contains(Append(ring, m), m) /\ Distinct(Append(ring, m))
            /\ \A k : Contains(ring, k) => Contains(Append(ring, m), k)
        BY <3>1, <3>2, <3>3, AppendKeeps
      <3>7. QED BY <3>1, <3>3, <3>5, <3>6 DEF Keeps
    <2>2. CASE q.new
      <3>1. sessions[s].status = "none" /\ q.meta.ring = <<m>>
        BY <2>2 DEF Opens
      <3>2. recorded[s] = {}
        BY <3>1 DEF AllKept
      <3>3. Distinct(<<m>>) /\ Contains(<<m>>, m)
        BY DEF Distinct, Contains
      <3>4. QED BY <3>1, <3>2, <3>3 DEF Keeps
    <2>3. QED BY <2>1, <2>2
  <1>5. \A t \in Sessions : Keeps(sessions[t].meta, t)'
    BY <1>1 DEF AllKept, Keeps
  <1>6. \A t \in Sessions : (sessions[t].status = "none" => recorded[t] = {})'
    BY <1>1 DEF AllKept
  <1>7. \A g \in Hooks : (hooks[g].phase = "open" =>
            /\ Keeps(hooks[g].meta, hooks[g].session)
            /\ Contains(hooks[g].meta.ring, hooks[g].msg)
            /\ hooks[g].msg \notin recorded[hooks[g].session])'
    BY <1>1, <1>2, <1>4 DEF Keeps
  <1>8. \A r \in Replies : (replies[r].phase = "loaded" =>
            Keeps(replies[r].meta, replies[r].session))'
    BY <1>1, <1>2
  <1>9. QueuedOnce'
    BY <1>1 DEF QueuedOnce
  <1>10. QED BY <1>5, <1>6, <1>7, <1>8, <1>9 DEF AllKept

\* The only writer of channel_metadata commits its version: it has everything, and its
\* message becomes recorded for the first time.
LEMMA CommitsCalm ==
    ASSUME WhatsAppRows, Referenced, OneWriter, AllKept, QueuedOnce,
           NEW h \in Hooks, Commits(h)
    PROVE  AllKept' /\ QueuedOnce'
  <1> DEFINE q == hooks[h]
             s == q.session
             m == q.msg
  <1>1. /\ q.phase = "open" /\ m \in Messages /\ s \in Sessions
        /\ sessions'[s].meta = q.meta /\ sessions'[s].status # "none"
        /\ \A r \in Sessions : r # s => sessions'[r] = sessions[r]
        /\ recorded'[s] = recorded[s] \cup {m}
        /\ \A r \in Sessions : r # s => recorded'[r] = recorded[r]
        /\ \A g \in Hooks : g # h => hooks'[g] = hooks[g]
        /\ UNCHANGED <<replies, queued, put>>
    BY DEF Commits
  <1>2. \/ hooks'[h].phase = "enqueue" /\ hooks'[h].msg = m /\ hooks'[h].session = s
        \/ hooks'[h].phase = "idle"
    BY EmptyRecords DEF Commits
  <1>3. /\ \A g \in Hooks : g # h => hooks[g].phase # "open"
        /\ \A r \in Replies : replies[r].phase # "loaded"
    BY <1>1 DEF OneWriter
  <1>4. Keeps(q.meta, s) /\ Contains(q.meta.ring, m) /\ m \notin recorded[s]
    BY <1>1 DEF AllKept
  <1> HIDE DEF q, s, m
  <1>5. \A g \in Hooks : hooks'[g].phase # "open"
    BY <1>1, <1>2, <1>3
  <1>7. \A t \in Sessions : Keeps(sessions[t].meta, t)'
    <2> SUFFICES ASSUME NEW t \in Sessions
                 PROVE  Keeps(sessions[t].meta, t)'
      OBVIOUS
    <2>1. CASE t = s
      BY <1>1, <1>4, <2>1 DEF Keeps
    <2>2. CASE t # s
      BY <1>1, <2>2 DEF AllKept, Keeps
    <2>3. QED BY <2>1, <2>2
  <1>8. \A t \in Sessions : (sessions[t].status = "none" => recorded[t] = {})'
    BY <1>1 DEF AllKept
  <1>9. AllKept'
    BY <1>1, <1>3, <1>5, <1>7, <1>8 DEF AllKept
  <1>10. queued[s][m] = 0
    <2>1. queued[s][m] \in Nat /\ queued[s][m] <= 1 /\ queued[s][m] # 1
      BY <1>1, <1>4 DEF QueuedOnce, WhatsAppRows
    <2>2. QED BY <2>1
  <1>11. \A g \in Hooks : g # h /\ hooks[g].phase = "enqueue" =>
             ~(hooks[g].msg = m /\ hooks[g].session = s)
    BY <1>4 DEF QueuedOnce
  <1>12. \A t \in Sessions : recorded[t] \subseteq recorded'[t]
    BY <1>1
  <1>13. /\ \A t \in Sessions, k \in Messages : (queued[t][k] <= 1)'
         /\ \A t \in Sessions, k \in Messages : (queued[t][k] = 1 => k \in recorded[t])'
    BY <1>1, <1>12 DEF QueuedOnce
  <1>14. \A g \in Hooks : (hooks[g].phase = "enqueue" =>
            /\ hooks[g].msg \in recorded[hooks[g].session]
            /\ queued[hooks[g].session][hooks[g].msg] = 0)'
    <2> SUFFICES ASSUME NEW g \in Hooks, hooks'[g].phase = "enqueue"
                 PROVE  /\ hooks'[g].msg \in recorded'[hooks'[g].session]
                        /\ queued'[hooks'[g].session][hooks'[g].msg] = 0
      OBVIOUS
    <2>1. CASE g = h
      BY <1>1, <1>2, <1>10, <2>1
    <2>2. CASE g # h
      <3>1. hooks'[g] = hooks[g] /\ hooks[g].session \in Sessions
        BY <1>1, <2>2 DEF Referenced, HookSound
      <3>2. QED BY <1>1, <1>12, <3>1 DEF QueuedOnce
    <2>3. QED BY <2>1, <2>2
  <1>15. \A g, k \in Hooks : (
            /\ hooks[g].phase = "enqueue" /\ hooks[k].phase = "enqueue"
            /\ hooks[g].msg = hooks[k].msg /\ hooks[g].session = hooks[k].session
            => g = k)'
    BY <1>1, <1>2, <1>11 DEF QueuedOnce
  <1>16. QED BY <1>9, <1>13, <1>14, <1>15 DEF QueuedOnce

\* LoadReply takes a version that has everything, and is the only writer.
LEMMA LoadReplyCalm ==
    ASSUME WhatsAppRows, Referenced, Calm, AllKept, QueuedOnce,
           NEW r \in Replies, LoadReply(r)
    PROVE  AllKept' /\ QueuedOnce'
  <1> DEFINE s == replies[r].session
  <1>1. /\ MayWrite /\ replies'[r].session = s /\ s \in Sessions
        /\ replies'[r].meta = sessions[s].meta
        /\ \A p \in Replies : p # r => replies'[p] = replies[p]
        /\ UNCHANGED <<racing, sessions, hooks, recorded, queued, put>>
    BY LoadReplyShape
  <1>2. /\ \A g \in Hooks : hooks[g].phase # "open"
        /\ \A p \in Replies : replies[p].phase # "loaded"
    BY <1>1 DEF Calm, MayWrite, MetadataIsFree
  <1> HIDE DEF s
  <1>4. \A t \in Sessions : Keeps(sessions[t].meta, t)'
    BY <1>1 DEF AllKept, Keeps
  <1>5. \A p \in Replies : (replies[p].phase = "loaded" =>
            Keeps(replies[p].meta, replies[p].session))'
    BY <1>1, <1>2, <1>4
  <1>6. AllKept'
    BY <1>1, <1>2, <1>4, <1>5 DEF AllKept
  <1>7. QueuedOnce'
    BY <1>1 DEF QueuedOnce
  <1>8. QED BY <1>6, <1>7

\* DeferReply writes the ring it loaded.
LEMMA DeferReplyCalm ==
    ASSUME WhatsAppRows, Referenced, OneWriter, AllKept, QueuedOnce,
           NEW r \in Replies, DeferReply(r)
    PROVE  AllKept' /\ QueuedOnce'
  <1> DEFINE s == replies[r].session
             meta == replies[r].meta
  <1>1. /\ RowsStay /\ s \in Sessions
        /\ replies[r].phase = "loaded" /\ replies'[r].phase = "done"
        /\ sessions'[s].meta.ring = meta.ring
        /\ \A t \in Sessions : t # s => sessions'[t] = sessions[t]
        /\ \A p \in Replies : p # r => replies'[p] = replies[p]
        /\ UNCHANGED <<racing, hooks, recorded, queued>>
    BY DeferReplyShape
  <1>2. sessions[s].status # "none"
    BY <1>1 DEF Referenced, Live
  <1>3. /\ \A g \in Hooks : hooks[g].phase # "open"
        /\ \A p \in Replies : p # r => replies[p].phase # "loaded"
    BY <1>1 DEF OneWriter
  <1>4. Keeps(meta, s)
    BY <1>1 DEF AllKept
  <1> HIDE DEF s, meta
  <1>5. \A p \in Replies : replies'[p].phase # "loaded"
    BY <1>1, <1>3
  <1>7. \A t \in Sessions : Keeps(sessions[t].meta, t)'
    <2> SUFFICES ASSUME NEW t \in Sessions
                 PROVE  Keeps(sessions[t].meta, t)'
      OBVIOUS
    <2>1. CASE t = s
      BY <1>1, <1>4, <2>1 DEF Keeps
    <2>2. CASE t # s
      BY <1>1, <2>2 DEF AllKept, Keeps
    <2>3. QED BY <2>1, <2>2
  <1>8. \A t \in Sessions : (sessions[t].status = "none" => recorded[t] = {})'
    BY <1>1, <1>2 DEF AllKept, RowsStay
  <1>9. AllKept'
    BY <1>1, <1>3, <1>5, <1>7, <1>8 DEF AllKept
  <1>10. QueuedOnce'
    BY <1>1 DEF QueuedOnce
  <1>11. QED BY <1>9, <1>10

\* The one request that holds a recorded message queues it, and is gone.
LEMMA EnqueueTurnCalm ==
    ASSUME WhatsAppRows, Referenced, AllKept, QueuedOnce,
           NEW h \in Hooks, NEW j \in Jobs, EnqueueTurn(h, j)
    PROVE  AllKept' /\ QueuedOnce'
  <1> DEFINE q == hooks[h]
             s == q.session
             m == q.msg
  <1>1. /\ q.phase = "enqueue" /\ m \in Messages /\ s \in Sessions
        /\ hooks'[h] = NoHook /\ \A g \in Hooks : g # h => hooks'[g] = hooks[g]
        /\ queued'[s][m] = queued[s][m] + 1
        /\ \A t \in Sessions, k \in Messages : t # s \/ k # m => queued'[t][k] = queued[t][k]
        /\ UNCHANGED <<racing, sessions, replies, recorded, put>>
    BY EnqueueTurnShape
  <1>2. hooks'[h].phase = "idle"
    BY <1>1, EmptyRecords
  <1>3. m \in recorded[s] /\ queued[s][m] = 0
    BY <1>1 DEF QueuedOnce
  <1>4. \A g \in Hooks : g # h /\ hooks[g].phase = "enqueue" =>
            hooks[g].msg # m \/ hooks[g].session # s
    BY <1>1 DEF QueuedOnce
  <1> HIDE DEF q, s, m
  <1>6. \A t \in Sessions : Keeps(sessions[t].meta, t)'
    BY <1>1 DEF AllKept, Keeps
  <1>7. \A r \in Replies : (replies[r].phase = "loaded" =>
            Keeps(replies[r].meta, replies[r].session))'
    BY <1>1 DEF AllKept, Keeps
  <1>8. \A g \in Hooks : (hooks[g].phase = "open" =>
            /\ Keeps(hooks[g].meta, hooks[g].session)
            /\ Contains(hooks[g].meta.ring, hooks[g].msg)
            /\ hooks[g].msg \notin recorded[hooks[g].session])'
    BY <1>1, <1>2 DEF AllKept, Keeps
  <1>9. AllKept'
    BY <1>1, <1>6, <1>7, <1>8 DEF AllKept
  <1>10. queued'[s][m] = 1
    BY <1>1, <1>3
  <1>11. /\ \A t \in Sessions, k \in Messages : (queued[t][k] <= 1)'
         /\ \A t \in Sessions, k \in Messages : (queued[t][k] = 1 => k \in recorded[t])'
    <2> SUFFICES ASSUME NEW t \in Sessions, NEW k \in Messages
                 PROVE  queued'[t][k] <= 1 /\ (queued'[t][k] = 1 => k \in recorded'[t])
      OBVIOUS
    <2>1. CASE t = s /\ k = m
      BY <1>1, <1>3, <1>10, <2>1
    <2>2. CASE t # s \/ k # m
      BY <1>1, <2>2 DEF QueuedOnce
    <2>3. QED BY <2>1, <2>2
  <1>12. \A g \in Hooks : (hooks[g].phase = "enqueue" =>
            /\ hooks[g].msg \in recorded[hooks[g].session]
            /\ queued[hooks[g].session][hooks[g].msg] = 0)'
    <2> SUFFICES ASSUME NEW g \in Hooks, hooks'[g].phase = "enqueue"
                 PROVE  /\ hooks'[g].msg \in recorded'[hooks'[g].session]
                        /\ queued'[hooks'[g].session][hooks'[g].msg] = 0
      OBVIOUS
    <2>1. g # h /\ hooks'[g] = hooks[g]
      BY <1>1, <1>2
    <2>2. hooks[g].session \in Sessions /\ hooks[g].msg \in Messages
      BY <2>1 DEF Referenced, HookSound
    <2>3. QED BY <1>1, <1>4, <2>1, <2>2 DEF QueuedOnce
  <1>13. \A g, k \in Hooks : (
            /\ hooks[g].phase = "enqueue" /\ hooks[k].phase = "enqueue"
            /\ hooks[g].msg = hooks[k].msg /\ hooks[g].session = hooks[k].session
            => g = k)'
    BY <1>1, <1>2 DEF QueuedOnce
  <1>14. QED BY <1>9, <1>11, <1>12, <1>13 DEF QueuedOnce

-----------------------------------------------------------------------------

\* At the start there is no session, and nothing is under way.
LEMMA WhatsAppStarts ==
    ASSUME WhatsAppInit
    PROVE  WhatsAppInv
  <1>1. \A s \in Sessions : /\ sessions[s].status = "none" /\ sessions[s].meta = NoMeta
                            /\ sessions[s] \in WhatsAppSession
    BY EmptyRecords DEF WhatsAppInit, WhatsAppSession
  <1>2. /\ sessions \in [Sessions -> WhatsAppSession]
        /\ hits \in [Sessions -> 0..(Limit + 1)] /\ delivered \in 0..MaxDeliveries
    BY <1>1, WhatsAppAssumption DEF WhatsAppInit
  <1>3. /\ hooks \in [Hooks -> Hook] /\ jobs \in [Jobs -> Job] /\ replies \in [Replies -> Reply]
        /\ now \in Moments
    BY EmptyRecords DEF WhatsAppInit
  <1>4. WhatsAppRows
    BY <1>2, <1>3 DEF WhatsAppInit, WhatsAppRows
  <1>5. /\ \A h \in Hooks : hooks[h].phase = "idle" /\ ~hooks[h].counted
        /\ \A j \in Jobs : jobs[j].phase = "idle"
        /\ \A r \in Replies : replies[r].phase = "idle"
    BY EmptyRecords DEF WhatsAppInit
  <1>6. Referenced
    BY <1>5 DEF Referenced, HookSound
  <1>7. \A s \in Sessions : Counting(s) = {}
    BY <1>5 DEF Counting
  <1>8. Quota
    <2>1. \A s \in Sessions : turned[s] = 0 /\ hits[s] = 0
      BY DEF WhatsAppInit
    <2>2. IsFiniteSet({}) /\ Cardinality({}) = 0
      BY FS_EmptySet
    <2>3. QED BY <1>7, <2>1, <2>2, WhatsAppAssumption DEF Quota
  <1>9. OneWriter
    BY <1>5 DEF OneWriter
  <1>10. \A s \in Sessions : recorded[s] = {} /\ put[s] = <<>> /\ \A m \in Messages : queued[s][m] = 0
    BY DEF WhatsAppInit
  <1>11. Distinct(NoMeta.ring) /\ NoMeta.deferred = <<>>
    BY DEF Distinct, NoMeta
  <1>12. AllKept
    BY <1>1, <1>5, <1>10, <1>11 DEF AllKept, Keeps
  <1>13. QueuedOnce
    BY <1>5, <1>10 DEF QueuedOnce
  <1>14. DeferralsKept
    BY <1>1, <1>5, <1>10, <1>11, NewestOfNone DEF DeferralsKept, KeepsDeferred
  <1>15. QED BY <1>4, <1>6, <1>8, <1>9, <1>12, <1>13, <1>14 DEF WhatsAppInv

\* Every step of the webhook, of the two jobs and of the clock keeps the invariant.
LEMMA WhatsAppStep ==
    ASSUME WhatsAppInv, [WhatsAppNext]_whatsAppVars
    PROVE  WhatsAppInv'
  <1>1. /\ WhatsAppRows /\ Referenced /\ Quota
        /\ ~racing => OneWriter /\ DeferralsKept
        /\ Calm => ~racing /\ OneWriter /\ AllKept /\ QueuedOnce
    BY DEF WhatsAppInv, Calm
  <1>2. CASE \E h \in Hooks, m \in Messages, s \in Sessions : IngestInto(h, m, s) \/ IngestNew(h, m, s)
    <2>1. PICK h \in Hooks, m \in Messages, s \in Sessions : IngestInto(h, m, s) \/ IngestNew(h, m, s)
      BY <1>2
    <2>2. PICK q \in Hook : Opens(h, m, s, q)
      BY <1>1, <2>1, IngestIntoOpens, IngestNewOpens
    <2>3. WhatsAppRows' /\ Referenced'
      BY <1>1, <2>2, OpensShape
    <2>4. Quota'
      BY <1>1, <2>2, OpensQuota
    <2>5. (~racing' => ~racing) /\ (Calm' => Calm)
      BY <2>2 DEF Opens, Calm
    <2>6. Calm => (AllKept /\ QueuedOnce)'
      BY <1>1, <2>2, OpensCalm
    <2>7. ~racing => (OneWriter /\ DeferralsKept)'
      BY <1>1, <2>2, OpensInTurn
    <2>8. QED BY <2>3, <2>4, <2>5, <2>6, <2>7 DEF WhatsAppInv
  <1>3. CASE \E h \in Hooks : CommitHook(h)
    <2>1. PICK h \in Hooks : CommitHook(h)
      BY <1>3
    <2>2. Commits(h) /\ WhatsAppRows'
      BY <1>1, <2>1, CommitHookCommits
    <2>3. Referenced'
      BY <1>1, <2>2, CommitsShape
    <2>4. Quota'
      BY <1>1, <2>2, CommitsCountsNothing, QuotaFalls
    <2>5. (~racing' => ~racing) /\ (Calm' => Calm)
      BY <2>2 DEF Commits, Calm
    <2>6. Calm => (AllKept /\ QueuedOnce)'
      BY <1>1, <2>2, CommitsCalm
    <2>7. ~racing => (OneWriter /\ DeferralsKept)'
      BY <1>1, <2>2, CommitsInTurn
    <2>8. QED BY <2>2, <2>3, <2>4, <2>5, <2>6, <2>7 DEF WhatsAppInv
  <1>4. CASE WhatsAppRows' /\ Referenced' /\ Quiet /\ CountsNothing
    <2>1. Quota'
      BY <1>1, <1>4, QuotaFalls
    <2>2. (~racing' => ~racing) /\ (Calm' => Calm)
      BY <1>4 DEF Quiet, Calm
    <2>3. Calm => (AllKept /\ QueuedOnce)'
      BY <1>1, <1>4, QuietCalm
    <2>4. ~racing => (OneWriter /\ DeferralsKept)'
      BY <1>1, <1>4, QuietInTurn
    <2>5. QED BY <1>4, <2>1, <2>2, <2>3, <2>4 DEF WhatsAppInv
  <1>5. CASE \E h \in Hooks : AbortHook(h) \/ LoseTurn(h)
    BY <1>1, <1>4, <1>5, HookEndsShape
  <1>6. CASE \E h \in Hooks, j \in Jobs : EnqueueTurn(h, j)
    <2>1. PICK h \in Hooks, j \in Jobs : EnqueueTurn(h, j)
      BY <1>6
    <2>2. WhatsAppRows' /\ Referenced' /\ racing' = racing
      BY <1>1, <2>1, EnqueueTurnShape
    <2>3. Quota'
      BY <1>1, <2>1, EnqueueTurnQuota
    <2>4. (~racing' => ~racing) /\ (Calm' => Calm)
      BY <2>2 DEF Calm
    <2>5. Calm => (AllKept /\ QueuedOnce)'
      BY <1>1, <2>1, EnqueueTurnCalm
    <2>6. ~racing => (OneWriter /\ DeferralsKept)'
      BY <1>1, <2>1, EnqueueTurnInTurn
    <2>7. QED BY <2>2, <2>3, <2>4, <2>5, <2>6 DEF WhatsAppInv
  <1>7. CASE \E j \in Jobs : \/ RedeliverTurn(j) \/ DropTurn(j)
                             \/ \E e \in BOOLEAN : RunTurn(j, e)
                             \/ \E r \in Replies : EnqueueReply(j, r)
    BY <1>1, <1>4, <1>7, TurnJobShape
  <1>8. CASE \E r \in Replies : LoadReply(r)
    <2>1. PICK r \in Replies : LoadReply(r)
      BY <1>8
    <2>2. WhatsAppRows' /\ Referenced' /\ CountsNothing /\ racing' = racing
      BY <1>1, <2>1, LoadReplyShape
    <2>3. Quota'
      BY <1>1, <2>2, QuotaFalls
    <2>4. (~racing' => ~racing) /\ (Calm' => Calm)
      BY <2>2 DEF Calm
    <2>5. Calm => (AllKept /\ QueuedOnce)'
      BY <1>1, <2>1, LoadReplyCalm
    <2>6. ~racing => (OneWriter /\ DeferralsKept)'
      BY <1>1, <2>1, LoadReplyInTurn
    <2>7. QED BY <2>2, <2>3, <2>4, <2>5, <2>6 DEF WhatsAppInv
  <1>9. CASE \E r \in Replies : DeferReply(r)
    <2>1. PICK r \in Replies : DeferReply(r)
      BY <1>9
    <2>2. WhatsAppRows' /\ Referenced' /\ CountsNothing /\ racing' = racing
      BY <1>1, <2>1, DeferReplyShape
    <2>3. Quota'
      BY <1>1, <2>2, QuotaFalls
    <2>4. (~racing' => ~racing) /\ (Calm' => Calm)
      BY <2>2 DEF Calm
    <2>5. Calm => (AllKept /\ QueuedOnce)'
      BY <1>1, <2>1, DeferReplyCalm
    <2>6. ~racing => (OneWriter /\ DeferralsKept)'
      BY <1>1, <2>1, DeferReplyInTurn
    <2>7. QED BY <2>2, <2>3, <2>4, <2>5, <2>6 DEF WhatsAppInv
  <1>10. CASE \E r \in Replies : EndReply(r) \/ RetryReply(r)
    BY <1>1, <1>4, <1>10, ReplyEndsShape
  <1>11. CASE Tick \/ UNCHANGED whatsAppVars
    BY <1>1, <1>4, <1>11, TickShape
  <1>12. CASE NextHour
    <2>1. WhatsAppRows' /\ Referenced' /\ Quiet
      BY <1>1, <1>12, NextHourShape
    <2>2. Quota'
      BY <1>1, <1>12, NextHourQuota
    <2>3. (~racing' => ~racing) /\ (Calm' => Calm)
      BY <2>1 DEF Quiet, Calm
    <2>4. Calm => (AllKept /\ QueuedOnce)'
      BY <1>1, <2>1, QuietCalm
    <2>5. ~racing => (OneWriter /\ DeferralsKept)'
      BY <1>1, <2>1, QuietInTurn
    <2>6. QED BY <2>1, <2>2, <2>3, <2>4, <2>5 DEF WhatsAppInv
  <1>13. QED
    BY <1>2, <1>3, <1>5, <1>6, <1>7, <1>8, <1>9, <1>10, <1>11, <1>12 DEF WhatsAppNext

-----------------------------------------------------------------------------

\* The strengthening that the theorems below rest on: the webhook, the turn job and the
\* reply job refer to rows that exist, every turn of the hour has its own increment in
\* Redis behind it, and, while channel_metadata has one writer at a time, whatever is
\* stored or about to be written has the newest deferred replies and, in a ring with
\* room, every message committed before.
THEOREM WhatsAppInvariant == WhatsAppSpec => []WhatsAppInv
  <1>1. WhatsAppInit => WhatsAppInv
    BY WhatsAppStarts
  <1>2. WhatsAppInv /\ [WhatsAppNext]_whatsAppVars => WhatsAppInv'
    BY WhatsAppStep
  <1>3. QED BY <1>1, <1>2, PTL DEF WhatsAppSpec

\* check_and_increment (api/v1/webhooks, the limiter): the turns of one session that
\* reach the queue within an hour are never more than chat_rate_limit_per_hour, the
\* requests still under way included, however many run at once, abort after the
\* increment or lose the job.
THEOREM QuotaIsKept == WhatsAppSpec => []QuotaHolds
  <1>1. WhatsAppInv => QuotaHolds
    BY DEF WhatsAppInv, Quota, QuotaHolds, Counting
  <1>2. QED BY <1>1, WhatsAppInvariant, PTL

\* The rows, the counters and the jobs keep their types; that `turned` stays within the
\* limit is the quota.
THEOREM WhatsAppTypes == WhatsAppSpec => []WhatsAppTypeOK
  <1>1. ASSUME WhatsAppInv PROVE turned \in [Sessions -> 0..Limit]
    <2>1. turned \in [Sessions -> Nat] /\ Limit \in Nat
      BY <1>1, WhatsAppAssumption DEF WhatsAppInv, WhatsAppRows
    <2>2. ASSUME NEW s \in Sessions PROVE turned[s] <= Limit
      <3> DEFINE c == Cardinality(Counting(s))
      <3>1. c \in Nat /\ turned[s] + c <= Limit
        BY <1>1, FS_CardinalityType DEF WhatsAppInv, Quota
      <3>2. turned[s] \in Nat
        BY <2>1
      <3> HIDE DEF c
      <3>3. QED BY <2>1, <3>1, <3>2
    <2>3. QED BY <2>1, <2>2
  <1>2. WhatsAppInv => WhatsAppTypeOK
    BY <1>1 DEF WhatsAppInv, WhatsAppRows, WhatsAppTypeOK
  <1>3. QED BY <1>2, WhatsAppInvariant, PTL

\* channel_metadata is loaded, changed and written back whole by the webhook and by
\* send_whatsapp_reply, and with_appended keeps the newest items of each list.  While
\* the two do not overlap, no message a session was committed with leaves a ring that
\* has room for all, and deferred_replies is exactly the newest _DEFERRED_REPLIES_CAP
\* deferrals in their order: nothing but the cap ever drops one.
THEOREM MetadataIsKept == WhatsAppSpec => []MetadataKeepsAll
  <1>1. WhatsAppInv => MetadataKeepsAll
    BY DEF WhatsAppInv, Calm, AllKept, Keeps, DeferralsKept, KeepsDeferred, MetadataKeepsAll
  <1>2. QED BY <1>1, WhatsAppInvariant, PTL

\* ingest_inbound_whatsapp_message skips what processed_message_ids has: for any number
\* of messages, deliveries, requests and sessions, a message is queued for a turn of a
\* session at most once.
THEOREM OneTurnEach == WhatsAppSpec => []OneTurnPerSession
  <1>1. WhatsAppInv => OneTurnPerSession
    BY DEF WhatsAppInv, Calm, QueuedOnce, OneTurnPerSession
  <1>2. QED BY <1>1, WhatsAppInvariant, PTL

=============================================================================
