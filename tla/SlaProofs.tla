----------------------------- MODULE SlaProofs -----------------------------
(* Theorems about SlaMonitor, for every number of tickets, users and passes    *)
(* that overlap and for all deadlines and readings of the clock, and about     *)
(* SlaClock, for days, weeks, schedules, zones and SLAs of every size.         *)
EXTENDS SlaMonitor, SlaClock, FiniteSetTheorems, TLAPS

\* Inserts with at most one notification per user and event, and none without it.
Once(i) ==
    \A t \in Tickets, e \in Events, u \in Users :
        i.notes[<<t, e, u>>] <= IF i.events[<<t, e>>] = None THEN 0 ELSE 1

\* Inserts whose events all have their notification for each user of W.
Told(i, W) ==
    \A t \in Tickets, e \in Events, u \in W :
        i.events[<<t, e>>] # None => i.notes[<<t, e, u>>] = 1

\* No event is among both.
Apart(i, k) ==
    \A x \in Tickets \X Events : i.events[x] = None \/ k.events[x] = None

\* The admins who have been active all along, so whom resolve_recipients finds.
Watchers == Admins \cap veterans

WatchersAreActive == \A u \in veterans : status[u] = "active"

\* A pass: its rows have a deadline until they are finished, each ticket is opened
\* once, a savepoint repeats no event of an earlier one, and between record_once and
\* fan_out there is an event without notifications.
PassSound(s) ==
    /\ \A t \in Tickets : t \in s.todo \/ t = s.current => s.rows[t].due \in Deadlines
    /\ s.current \notin s.todo
    /\ Once(s.done) /\ Once(s.own) /\ Apart(s.done, s.own)
    /\ s.notify => /\ s.current \in Tickets /\ s.step \in Events
                   /\ s.own.events[<<s.current, s.step>>] # None
                   /\ \A u \in Users : s.own.notes[<<s.current, s.step, u>>] = 0

\* Everything a pass has inserted has been announced, but for the event it stands at.
PassTold(s, W) ==
    /\ Told(s.done, W)
    /\ \A t \in Tickets, e \in Events, u \in W :
          /\ s.own.events[<<t, e>>] # None
          /\ ~(s.notify /\ t = s.current /\ e = s.step)
          => s.own.notes[<<t, e, u>>] = 1

\* An event has one transaction: it is committed, or one pass has inserted it.
Exclusive ==
    \A p \in Passes, x \in Tickets \X Events : Written(passes[p], x) =>
        /\ stored.events[x] = None
        /\ \A q \in Passes \ {p} : ~Written(passes[q], x)

\* The inductive invariant.
MonitorInv ==
    /\ TypeOK
    /\ WatchersAreActive
    /\ Once(stored)
    /\ Told(stored, Watchers)
    /\ Exclusive
    /\ \A p \in Passes : PassSound(passes[p]) /\ PassTold(passes[p], Watchers)

-----------------------------------------------------------------------------

\* No inserts at all are sound.
LEMMA NothingIsSound ==
    /\ Nothing \in Inserted
    /\ \A x \in Tickets \X Events : Nothing.events[x] = None
    /\ \A t \in Tickets, e \in Events, u \in Users : Nothing.notes[<<t, e, u>>] = 0
    /\ Once(Nothing)
    /\ \A W \in SUBSET Users : Told(Nothing, W)
    /\ \A i \in Inserted : Apart(i, Nothing)
  <1>1. /\ Nothing.events = [x \in Tickets \X Events |-> None]
        /\ Nothing.notes = [x \in Tickets \X Events \X Users |-> 0]
        /\ Nothing \in Inserted
    BY DEF Nothing, Inserted, Opt
  <1>2. /\ \A x \in Tickets \X Events : Nothing.events[x] = None
        /\ \A t \in Tickets, e \in Events, u \in Users : Nothing.notes[<<t, e, u>>] = 0
    BY <1>1
  <1>3. QED BY <1>1, <1>2 DEF Once, Told, Apart

\* What Merge makes of two sets of inserts, entry by entry.
LEMMA MergeEntries ==
    ASSUME NEW i \in Inserted, NEW k \in Inserted
    PROVE  /\ Merge(i, k) \in Inserted
           /\ \A x \in Tickets \X Events : Merge(i, k).events[x] =
                  IF k.events[x] # None THEN k.events[x] ELSE i.events[x]
           /\ \A t \in Tickets, e \in Events, u \in Users :
                  Merge(i, k).notes[<<t, e, u>>] =
                      i.notes[<<t, e, u>>] + k.notes[<<t, e, u>>]
  <1> DEFINE E == [x \in Tickets \X Events |->
                      IF k.events[x] # None THEN k.events[x] ELSE i.events[x]]
             N == [y \in Tickets \X Events \X Users |-> i.notes[y] + k.notes[y]]
  <1>1. Merge(i, k) = [events |-> E, notes |-> N]
    BY DEF Merge
  <1>2. /\ i.events \in [Tickets \X Events -> Opt(Deadlines)]
        /\ k.events \in [Tickets \X Events -> Opt(Deadlines)]
        /\ i.notes \in [Tickets \X Events \X Users -> Nat]
        /\ k.notes \in [Tickets \X Events \X Users -> Nat]
    BY DEF Inserted
  <1>3. E \in [Tickets \X Events -> Opt(Deadlines)]
    BY <1>2
  <1>4. N \in [Tickets \X Events \X Users -> Nat]
    BY <1>2
  <1>5. /\ \A x \in Tickets \X Events :
               E[x] = IF k.events[x] # None THEN k.events[x] ELSE i.events[x]
        /\ \A t \in Tickets, e \in Events, u \in Users :
               N[<<t, e, u>>] = i.notes[<<t, e, u>>] + k.notes[<<t, e, u>>]
    OBVIOUS
  <1> HIDE DEF E, N
  <1>6. Merge(i, k) \in Inserted /\ Merge(i, k).events = E /\ Merge(i, k).notes = N
    BY <1>1, <1>3, <1>4 DEF Inserted
  <1>7. QED BY <1>5, <1>6

\* Merging the inserts of two transactions that share no event doubles no
\* notification and forgets none.
LEMMA MergeSound ==
    ASSUME NEW i \in Inserted, NEW k \in Inserted, Once(i), Once(k), Apart(i, k)
    PROVE  /\ Once(Merge(i, k))
           /\ \A W \in SUBSET Users :
                  Told(i, W) /\ Told(k, W) => Told(Merge(i, k), W)
           /\ \A x \in Tickets \X Events :
                  i.events[x] # None => Merge(i, k).events[x] = i.events[x]
  <1> DEFINE m == Merge(i, k)
  <1>1. /\ \A x \in Tickets \X Events :
               m.events[x] = IF k.events[x] # None THEN k.events[x] ELSE i.events[x]
        /\ \A t \in Tickets, e \in Events, u \in Users :
               m.notes[<<t, e, u>>] = i.notes[<<t, e, u>>] + k.notes[<<t, e, u>>]
    BY MergeEntries
  <1>2. \A t \in Tickets, e \in Events, u \in Users :
            i.notes[<<t, e, u>>] \in Nat /\ k.notes[<<t, e, u>>] \in Nat
    BY DEF Inserted
  <1> HIDE DEF m
  <1>3. Once(m)
    <2> SUFFICES ASSUME NEW t \in Tickets, NEW e \in Events, NEW u \in Users
                 PROVE  m.notes[<<t, e, u>>] <= IF m.events[<<t, e>>] = None THEN 0 ELSE 1
      BY DEF Once
    <2>1. m.notes[<<t, e, u>>] = i.notes[<<t, e, u>>] + k.notes[<<t, e, u>>]
      BY <1>1
    <2>2. i.events[<<t, e>>] = None \/ k.events[<<t, e>>] = None
      BY DEF Apart
    <2>3. m.events[<<t, e>>] = IF k.events[<<t, e>>] # None THEN k.events[<<t, e>>]
                               ELSE i.events[<<t, e>>]
      BY <1>1
    <2>4. /\ i.notes[<<t, e, u>>] <= IF i.events[<<t, e>>] = None THEN 0 ELSE 1
          /\ k.notes[<<t, e, u>>] <= IF k.events[<<t, e>>] = None THEN 0 ELSE 1
      BY DEF Once
    <2>5. QED BY <1>2, <2>1, <2>2, <2>3, <2>4
  <1>4. ASSUME NEW W \in SUBSET Users, Told(i, W), Told(k, W)
        PROVE  Told(m, W)
    <2> SUFFICES ASSUME NEW t \in Tickets, NEW e \in Events, NEW u \in W,
                        m.events[<<t, e>>] # None
                 PROVE  m.notes[<<t, e, u>>] = 1
      BY DEF Told
    <2>1. m.notes[<<t, e, u>>] = i.notes[<<t, e, u>>] + k.notes[<<t, e, u>>]
      BY <1>1
    <2>2. i.events[<<t, e>>] = None \/ k.events[<<t, e>>] = None
      BY DEF Apart
    <2>3. m.events[<<t, e>>] = IF k.events[<<t, e>>] # None THEN k.events[<<t, e>>]
                               ELSE i.events[<<t, e>>]
      BY <1>1
    <2>4. /\ i.events[<<t, e>>] = None => i.notes[<<t, e, u>>] = 0
          /\ k.events[<<t, e>>] = None => k.notes[<<t, e, u>>] = 0
      BY <1>2 DEF Once
    <2>5. /\ i.events[<<t, e>>] # None => i.notes[<<t, e, u>>] = 1
          /\ k.events[<<t, e>>] # None => k.notes[<<t, e, u>>] = 1
      BY <1>4 DEF Told
    <2>6. QED BY <1>2, <2>1, <2>2, <2>3, <2>4, <2>5
  <1>5. \A x \in Tickets \X Events : i.events[x] # None => m.events[x] = i.events[x]
    BY <1>1 DEF Apart
  <1>6. QED BY <1>3, <1>4, <1>5 DEF m

\* A step of one pass that changes nothing else keeps the invariant, if the pass
\* stays sound and has no event of another transaction.
LEMMA PassKeeps ==
    ASSUME MonitorInv, NEW p \in Passes, NEW s \in Pass,
           UNCHANGED <<now, tickets, status, stored, veterans>>,
           passes' = [passes EXCEPT ![p] = s],
           PassSound(s), PassTold(s, Watchers),
           \A x \in Tickets \X Events : Written(s, x) =>
               /\ stored.events[x] = None
               /\ \A q \in Passes \ {p} : ~Written(passes[q], x)
    PROVE  MonitorInv'
  <1>1. /\ passes'[p] = s /\ \A q \in Passes \ {p} : passes'[q] = passes[q]
        /\ Watchers' = Watchers
    BY DEF MonitorInv, TypeOK, Watchers
  <1>2. TypeOK'
    BY DEF MonitorInv, TypeOK
  <1>3. WatchersAreActive' /\ Once(stored)' /\ Told(stored, Watchers)'
    BY <1>1 DEF MonitorInv, WatchersAreActive, Once, Told
  <1>4. Exclusive'
    <2> SUFFICES ASSUME NEW q \in Passes, NEW x \in Tickets \X Events,
                        Written(passes'[q], x)
                 PROVE  /\ stored.events[x] = None
                        /\ \A o \in Passes \ {q} : ~Written(passes'[o], x)
      BY DEF Exclusive, Written
    <2>1. CASE q = p
      BY <1>1, <2>1
    <2>2. CASE q # p
      BY <1>1, <2>2 DEF MonitorInv, Exclusive
    <2>3. QED BY <2>1, <2>2
  <1>5. \A q \in Passes : PassSound(passes'[q]) /\ PassTold(passes'[q], Watchers)
    BY <1>1 DEF MonitorInv
  <1>6. \A q \in Passes : PassSound(passes[q])' /\ PassTold(passes[q], Watchers)'
    <2> SUFFICES ASSUME NEW q \in Passes
                 PROVE  PassSound(passes[q])' /\ PassTold(passes[q], Watchers)'
      OBVIOUS
    <2>1. PassSound(passes[q])'
      <3>1. PassSound(passes'[q])
        BY <1>5
      <3>2. QED BY <3>1, Zenon DEF PassSound, Once, Apart
    <2>2. PassTold(passes[q], Watchers)'
      <3>1. PassTold(passes'[q], Watchers')
        BY <1>1, <1>5
      <3>2. QED BY <3>1, Zenon DEF PassTold, Told
    <2>3. QED BY <2>1, <2>2
  <1>7. QED BY <1>2, <1>3, <1>4, <1>6 DEF MonitorInv

\* A pass between two savepoints, or with one just opened.
LEMMA QuietPass ==
    ASSUME NEW n \in Pass, NEW W \in SUBSET Users, n.own = Nothing, ~n.notify,
           \A t \in Tickets : t \in n.todo \/ t = n.current => n.rows[t].due \in Deadlines,
           n.current \notin n.todo, Once(n.done), Told(n.done, W)
    PROVE  /\ PassSound(n) /\ PassTold(n, W)
           /\ \A x \in Tickets \X Events : Written(n, x) => n.done.events[x] # None
  <1>1. n.done \in Inserted
    BY DEF Pass
  <1>2. PassSound(n)
    BY <1>1, NothingIsSound DEF PassSound
  <1>3. PassTold(n, W)
    BY NothingIsSound DEF PassTold
  <1>4. QED BY <1>2, <1>3, NothingIsSound DEF Written

\* What the invariant says of one pass.
LEMMA PassFacts ==
    ASSUME MonitorInv, NEW p \in Passes
    PROVE  /\ passes[p] \in Pass /\ passes[p].done \in Inserted
           /\ passes[p].own \in Inserted
           /\ PassSound(passes[p]) /\ PassTold(passes[p], Watchers)
           /\ Watchers \in SUBSET Users
           /\ \A x \in Tickets \X Events : Written(passes[p], x) =>
                 /\ stored.events[x] = None
                 /\ \A q \in Passes \ {p} : ~Written(passes[q], x)
  <1>1. passes[p] \in Pass /\ Watchers \in SUBSET Users
    BY DEF MonitorInv, TypeOK, Watchers
  <1>2. QED BY <1>1 DEF MonitorInv, Exclusive, Pass

LEMMA IdlePassIsSound ==
    /\ IdlePass \in Pass /\ PassSound(IdlePass)
    /\ \A W \in SUBSET Users : PassTold(IdlePass, W)
    /\ \A x \in Tickets \X Events : ~Written(IdlePass, x)
  <1>1. /\ IdlePass \in Pass /\ IdlePass.own = Nothing /\ IdlePass.done = Nothing
        /\ IdlePass.notify = FALSE /\ IdlePass.todo = {} /\ IdlePass.current = None
    BY NothingIsSound, MonitorAssumption DEF IdlePass, Pass, NoRow, TicketRow, Opt
  <1>2. ~IdlePass.notify
    BY <1>1, Zenon
  <1>3. \A W \in SUBSET Users : PassSound(IdlePass) /\ PassTold(IdlePass, W)
    BY <1>1, <1>2, QuietPass, NothingIsSound, MonitorAssumption
  <1>4. QED BY <1>1, <1>3, NothingIsSound DEF Written

\* The SELECT loads rows that have a deadline.
LEMMA Begins ==
    ASSUME MonitorInv, NEW p \in Passes, BeginPass(p)
    PROVE  MonitorInv'
  <1> DEFINE n == [phase |-> "scanning", at |-> now,
                   rows |-> [t \in Tickets |-> IF Candidate(tickets[t])
                                                 THEN tickets[t] ELSE NoRow],
                   todo |-> {t \in Tickets : Candidate(tickets[t])},
                   current |-> None, step |-> "warning",
                   notify |-> FALSE, done |-> Nothing, own |-> Nothing]
  <1>1. /\ passes' = [passes EXCEPT ![p] = n]
        /\ UNCHANGED <<now, tickets, status, stored, veterans>>
    BY DEF BeginPass
  <1>2. tickets \in [Tickets -> TicketRow] /\ now \in Instants
    BY DEF MonitorInv, TypeOK
  <1>3. n \in Pass
    BY <1>2, NothingIsSound DEF Pass, NoRow, TicketRow, Opt
  <1>4. /\ n.own = Nothing /\ n.done = Nothing /\ n.notify = FALSE /\ n.current = None
        /\ \A t \in n.todo : t \in Tickets /\ n.rows[t].due \in Deadlines
    BY <1>2 DEF Candidate, TicketRow, Opt
  <1>5. None \notin n.todo
    BY MonitorAssumption
  <1> HIDE DEF n
  <1>6. ~n.notify
    BY <1>4, Zenon
  <1>7. /\ PassSound(n) /\ PassTold(n, Watchers)
        /\ \A x \in Tickets \X Events : ~Written(n, x)
    <2>1. \A r \in Tickets : r \in n.todo \/ r = n.current => n.rows[r].due \in Deadlines
      BY <1>4, MonitorAssumption
    <2>2. /\ Watchers \in SUBSET Users /\ n.current \notin n.todo
          /\ Once(n.done) /\ Told(n.done, Watchers)
      BY <1>4, <1>5, PassFacts, NothingIsSound
    <2>3. /\ PassSound(n) /\ PassTold(n, Watchers)
          /\ \A x \in Tickets \X Events : Written(n, x) => n.done.events[x] # None
      BY <1>3, <1>4, <1>6, <2>1, <2>2, QuietPass
    <2>4. QED BY <1>4, <2>3, NothingIsSound
  <1>8. QED BY <1>1, <1>3, <1>7, PassKeeps

LEMMA Opens ==
    ASSUME MonitorInv, NEW p \in Passes, NEW t \in Tickets, OpenSavepoint(p, t)
    PROVE  MonitorInv'
  <1> DEFINE s == passes[p]
             n == [phase |-> "scanning", at |-> s.at, rows |-> s.rows,
                   todo |-> s.todo \ {t}, current |-> t, step |-> "warning",
                   notify |-> FALSE, done |-> s.done, own |-> Nothing]
  <1>1. /\ passes' = [passes EXCEPT ![p] = n] /\ t \in s.todo
        /\ UNCHANGED <<now, tickets, status, stored, veterans>>
    BY DEF OpenSavepoint
  <1>2. s \in Pass /\ PassSound(s) /\ PassTold(s, Watchers)
    BY PassFacts
  <1>3. n \in Pass
    BY <1>2, NothingIsSound DEF Pass, Opt
  <1>4. /\ n.own = Nothing /\ n.done = s.done /\ n.notify = FALSE /\ n.current = t
        /\ n.todo = s.todo \ {t} /\ n.rows = s.rows
    OBVIOUS
  <1> HIDE DEF n
  <1>5. ~n.notify
    BY <1>4, Zenon
  <1>6. /\ PassSound(n) /\ PassTold(n, Watchers)
        /\ \A x \in Tickets \X Events : Written(n, x) => s.done.events[x] # None
    <2>1. \A r \in Tickets : r \in n.todo \/ r = n.current => n.rows[r].due \in Deadlines
      BY <1>1, <1>2, <1>4 DEF PassSound
    <2>2. n.current \notin n.todo /\ Once(n.done) /\ Told(n.done, Watchers)
      BY <1>2, <1>4 DEF PassSound, PassTold
    <2>3. QED BY <1>3, <1>4, <1>5, <2>1, <2>2, QuietPass, PassFacts
  <1>7. \A x \in Tickets \X Events : Written(n, x) => Written(s, x)
    BY <1>6 DEF Written
  <1>8. QED BY <1>1, <1>3, <1>6, <1>7, PassFacts, PassKeeps

\* A failing savepoint takes its events and notifications with it.
LEMMA SavepointsFail ==
    ASSUME MonitorInv, NEW p \in Passes, SavepointFails(p)
    PROVE  MonitorInv'
  <1> DEFINE s == passes[p]
             n == WithoutSavepoint(s)
  <1>1. /\ passes' = [passes EXCEPT ![p] = n] /\ s.current # None
        /\ UNCHANGED <<now, tickets, status, stored, veterans>>
    BY DEF SavepointFails
  <1>2. s \in Pass /\ PassSound(s) /\ PassTold(s, Watchers) /\ s.current \in Tickets
    BY <1>1, PassFacts DEF Pass, Opt
  <1>3. [s.rows EXCEPT ![s.current] = NoRow] \in [Tickets -> TicketRow]
    BY <1>2 DEF Pass, NoRow, TicketRow, Opt
  <1>4. /\ n.own = Nothing /\ n.done = s.done /\ n.notify = FALSE /\ n.current = None
        /\ n.todo = s.todo /\ n.rows = [s.rows EXCEPT ![s.current] = NoRow]
        /\ n \in Pass
    BY <1>2, <1>3, NothingIsSound DEF WithoutSavepoint, Pass, Opt
  <1> HIDE DEF n
  <1>5. ~n.notify
    BY <1>4, Zenon
  <1>6. /\ PassSound(n) /\ PassTold(n, Watchers)
        /\ \A x \in Tickets \X Events : Written(n, x) => s.done.events[x] # None
    <2>1. s.rows \in [Tickets -> TicketRow] /\ n.todo \subseteq Tickets
      BY <1>2, <1>4 DEF Pass
    <2>2. \A r \in Tickets : r \in n.todo \/ r = n.current => n.rows[r].due \in Deadlines
      BY <1>2, <1>4, <2>1, MonitorAssumption DEF PassSound
    <2>3. n.current \notin n.todo /\ Once(n.done) /\ Told(n.done, Watchers)
      BY <1>2, <1>4, <2>1, MonitorAssumption DEF PassSound, PassTold
    <2>4. QED BY <1>4, <1>5, <2>2, <2>3, QuietPass, PassFacts
  <1>7. \A x \in Tickets \X Events : Written(n, x) => Written(s, x)
    BY <1>6 DEF Written
  <1>8. QED BY <1>1, <1>4, <1>6, <1>7, PassFacts, PassKeeps

\* A released savepoint has announced all its events: it is not between record_once
\* and fan_out.
LEMMA Releases ==
    ASSUME MonitorInv, NEW p \in Passes, ReleaseSavepoint(p)
    PROVE  MonitorInv'
  <1> DEFINE s == passes[p]
             m == Merge(s.done, s.own)
             n == [phase |-> "scanning", at |-> s.at,
                   rows |-> [s.rows EXCEPT ![s.current] = NoRow],
                   todo |-> s.todo, current |-> None, step |-> "warning",
                   notify |-> FALSE, done |-> m, own |-> Nothing]
  <1>1. /\ passes' = [passes EXCEPT ![p] = n] /\ s.current # None /\ s.step = "release"
        /\ UNCHANGED <<now, tickets, status, stored, veterans>>
    BY DEF ReleaseSavepoint
  <1>2. /\ s \in Pass /\ PassSound(s) /\ PassTold(s, Watchers)
        /\ s.current \in Tickets /\ s.rows \in [Tickets -> TicketRow]
        /\ s.todo \subseteq Tickets /\ s.done \in Inserted /\ s.own \in Inserted
    BY <1>1, PassFacts DEF Pass, Opt
  <1>3. ~s.notify
    BY <1>1, <1>2 DEF PassSound, Events
  <1>4. Told(s.own, Watchers)
    BY <1>2, <1>3, Zenon DEF PassTold, Told
  <1>5. /\ m \in Inserted /\ Once(m) /\ Told(m, Watchers)
        /\ \A x \in Tickets \X Events : m.events[x] # None => Written(s, x)
    <2>1. Once(s.done) /\ Once(s.own) /\ Apart(s.done, s.own) /\ Told(s.done, Watchers)
      BY <1>2 DEF PassSound, PassTold
    <2>2. m \in Inserted /\ Once(m) /\ Told(m, Watchers)
      BY <1>2, <1>4, <2>1, MergeEntries, MergeSound, PassFacts
    <2>3. \A x \in Tickets \X Events : m.events[x] # None => Written(s, x)
      BY <1>2, MergeEntries DEF Written
    <2>4. QED BY <2>2, <2>3
  <1> HIDE DEF m
  <1>6. [s.rows EXCEPT ![s.current] = NoRow] \in [Tickets -> TicketRow]
    BY <1>2 DEF NoRow, TicketRow, Opt
  <1>7. n \in Pass
    BY <1>2, <1>5, <1>6, NothingIsSound DEF Pass, Opt
  <1>8. /\ n.own = Nothing /\ n.done = m /\ n.notify = FALSE /\ n.current = None
        /\ n.todo = s.todo /\ n.rows = [s.rows EXCEPT ![s.current] = NoRow]
    OBVIOUS
  <1> HIDE DEF n
  <1>9. ~n.notify
    BY <1>8, Zenon
  <1>10. /\ PassSound(n) /\ PassTold(n, Watchers)
         /\ \A x \in Tickets \X Events : Written(n, x) => m.events[x] # None
    <2>1. \A r \in Tickets : r \in n.todo \/ r = n.current => n.rows[r].due \in Deadlines
      BY <1>2, <1>8, MonitorAssumption DEF PassSound
    <2>2. n.current \notin n.todo
      BY <1>2, <1>8, MonitorAssumption
    <2>3. QED BY <1>5, <1>7, <1>8, <1>9, <2>1, <2>2, QuietPass, PassFacts
  <1>11. QED BY <1>1, <1>5, <1>7, <1>10, PassFacts, PassKeeps

\* record_once inserts nothing, there is nothing to insert, or there is a row.
LEMMA RecordsNothing ==
    ASSUME MonitorInv, NEW p \in Passes, Record(p), ~Fresh(passes[p])
    PROVE  MonitorInv'
  <1> DEFINE s == passes[p]
             x == <<s.current, s.step>>
             o == [events |-> [s.own.events EXCEPT ![x] = @], notes |-> s.own.notes]
             n == [phase |-> "scanning", at |-> s.at, rows |-> s.rows,
                   todo |-> s.todo, current |-> s.current,
                   step |-> AfterStep(s.step), notify |-> FALSE, done |-> s.done, own |-> o]
  <1>0. Fresh(s) = FALSE
    BY DEF Fresh
  <1>1. /\ passes' = [passes EXCEPT ![p] = n]
        /\ s.current # None /\ s.step # "release" /\ ~s.notify
        /\ UNCHANGED <<now, tickets, status, stored, veterans>>
    BY <1>0 DEF Record
  <1>2. s \in Pass /\ s.own \in Inserted /\ PassSound(s) /\ PassTold(s, Watchers)
    BY PassFacts
  <1>3. o \in Inserted /\ o.events = s.own.events /\ o.notes = s.own.notes
    BY <1>2 DEF Inserted
  <1> HIDE DEF o
  <1>4. n \in Pass
    BY <1>2, <1>3 DEF Pass, AfterStep
  <1>5. /\ n.own = o /\ n.done = s.done /\ n.notify = FALSE /\ n.current = s.current
        /\ n.todo = s.todo /\ n.rows = s.rows
    OBVIOUS
  <1> HIDE DEF n
  <1>6. ~n.notify
    BY <1>5, Zenon
  <1>7. PassSound(n)
    BY <1>2, <1>3, <1>5, <1>6 DEF PassSound, Once, Apart
  <1>8. PassTold(n, Watchers)
    <2>1. Told(n.done, Watchers)
      BY <1>2, <1>5 DEF PassTold
    <2>2. \A t \in Tickets, e \in Events, u \in Watchers :
              s.own.events[<<t, e>>] # None => s.own.notes[<<t, e, u>>] = 1
      BY <1>1, <1>2, Zenon DEF PassTold
    <2>3. QED BY <1>3, <1>5, <2>1, <2>2 DEF PassTold
  <1>9. \A y \in Tickets \X Events : Written(n, y) => Written(s, y)
    BY <1>3, <1>5 DEF Written
  <1>10. QED BY <1>1, <1>4, <1>7, <1>8, <1>9, PassFacts, PassKeeps

\* The INSERT of record_once returns a row: the unique index has made sure that no
\* other transaction has the event, and fan_out follows.
LEMMA RecordsFresh ==
    ASSUME MonitorInv, NEW p \in Passes, Record(p), Fresh(passes[p])
    PROVE  MonitorInv'
  <1> DEFINE s == passes[p]
             x == <<s.current, s.step>>
             due == s.rows[s.current].due
             o == [events |-> [s.own.events EXCEPT ![x] = due], notes |-> s.own.notes]
             n == [phase |-> "scanning", at |-> s.at, rows |-> s.rows,
                   todo |-> s.todo, current |-> s.current,
                   step |-> s.step, notify |-> TRUE, done |-> s.done, own |-> o]
  <1>0. Fresh(s) = TRUE
    BY DEF Fresh
  <1>1. /\ passes' = [passes EXCEPT ![p] = n]
        /\ s.current # None /\ s.step # "release" /\ ~s.notify
        /\ UNCHANGED <<now, tickets, status, stored, veterans>>
    BY <1>0 DEF Record
  <1>2. /\ s \in Pass /\ s.own \in Inserted /\ s.done \in Inserted
        /\ PassSound(s) /\ PassTold(s, Watchers) /\ Watchers \subseteq Users
    BY PassFacts
  <1>3. s.current \in Tickets /\ s.step \in Events /\ x \in Tickets \X Events
    BY <1>1, <1>2 DEF Pass, Opt, Events
  <1>4. due \in Deadlines /\ due # None
    BY <1>2, <1>3, MonitorAssumption DEF PassSound
  <1>5. /\ stored.events[x] = None /\ ~Written(s, x)
        /\ \A q \in Passes \ {p} : ~Written(passes[q], x)
    BY DEF Record, Fresh, WaitsFor
  <1>6. /\ o \in Inserted /\ o.notes = s.own.notes /\ o.events[x] = due
        /\ \A y \in Tickets \X Events : y # x => o.events[y] = s.own.events[y]
    BY <1>2, <1>3, <1>4 DEF Inserted, Opt
  <1> HIDE DEF o
  <1>7. n \in Pass
    BY <1>2, <1>6 DEF Pass
  <1>8. /\ n.own = o /\ n.done = s.done /\ n.notify /\ n.current = s.current
        /\ n.todo = s.todo /\ n.rows = s.rows /\ n.step = s.step
    OBVIOUS
  <1> HIDE DEF n, due
  <1>9. s.own.events[x] = None /\ s.done.events[x] = None
    BY <1>5 DEF Written
  <1>10. \A u \in Users : s.own.notes[<<s.current, s.step, u>>] = 0
    <2> SUFFICES ASSUME NEW u \in Users
                 PROVE  s.own.notes[<<s.current, s.step, u>>] = 0
      OBVIOUS
    <2>1. s.own.notes[<<s.current, s.step, u>>] \in Nat
      BY <1>2, <1>3 DEF Inserted
    <2>2. s.own.notes[<<s.current, s.step, u>>] <= 0
      BY <1>2, <1>3, <1>9 DEF PassSound, Once
    <2>3. QED BY <2>1, <2>2
  <1>11. Once(o)
    <2> SUFFICES ASSUME NEW t \in Tickets, NEW e \in Events, NEW u \in Users
                 PROVE  o.notes[<<t, e, u>>] <= IF o.events[<<t, e>>] = None THEN 0 ELSE 1
      BY DEF Once
    <2>1. CASE <<t, e>> = x
      BY <1>4, <1>6, <1>10, <2>1
    <2>2. CASE <<t, e>> # x
      BY <1>2, <1>6, <2>2 DEF PassSound, Once
    <2>3. QED BY <2>1, <2>2
  <1>12. Apart(s.done, o)
    BY <1>2, <1>6, <1>9 DEF PassSound, Apart
  <1>13. PassSound(n)
    <2>1. /\ \A r \in Tickets : r \in n.todo \/ r = n.current => n.rows[r].due \in Deadlines
          /\ n.current \notin n.todo /\ Once(n.done)
      BY <1>2, <1>8 DEF PassSound
    <2>2. Once(n.own) /\ Apart(n.done, n.own)
      BY <1>8, <1>11, <1>12
    <2>3. /\ n.current \in Tickets /\ n.step \in Events
          /\ n.own.events[<<n.current, n.step>>] # None
          /\ \A u \in Users : n.own.notes[<<n.current, n.step, u>>] = 0
      BY <1>3, <1>4, <1>6, <1>8, <1>10
    <2>4. QED BY <2>1, <2>2, <2>3, Zenon DEF PassSound
  <1>14. PassTold(n, Watchers)
    <2>1. Told(n.done, Watchers)
      BY <1>2, <1>8 DEF PassTold
    <2>2. \A t \in Tickets, e \in Events, u \in Watchers :
              s.own.events[<<t, e>>] # None => s.own.notes[<<t, e, u>>] = 1
      BY <1>1, <1>2, Zenon DEF PassTold
    <2>3. ASSUME NEW t \in Tickets, NEW e \in Events, NEW u \in Watchers,
                 n.own.events[<<t, e>>] # None,
                 ~(n.notify /\ t = n.current /\ e = n.step)
          PROVE  n.own.notes[<<t, e, u>>] = 1
      <3>1. <<t, e>> # x
        BY <1>8, <2>3
      <3>2. o.events[<<t, e>>] = s.own.events[<<t, e>>]
        BY <1>6, <3>1
      <3>3. QED BY <1>6, <1>8, <2>2, <2>3, <3>2
    <2>4. QED BY <2>1, <2>3 DEF PassTold
  <1>15. \A y \in Tickets \X Events : Written(n, y) => Written(s, y) \/ y = x
    BY <1>6, <1>8 DEF Written
  <1>16. \A y \in Tickets \X Events : Written(n, y) =>
             /\ stored.events[y] = None
             /\ \A q \in Passes \ {p} : ~Written(passes[q], y)
    <2>1. \A y \in Tickets \X Events : Written(s, y) =>
              /\ stored.events[y] = None
              /\ \A q \in Passes \ {p} : ~Written(passes[q], y)
      BY PassFacts
    <2> HIDE DEF s, x
    <2>2. QED BY <1>5, <1>15, <2>1
  <1>17. QED BY <1>1, <1>7, <1>13, <1>14, <1>16, PassKeeps

\* fan_out reads the users live, so it finds every watcher.
LEMMA FansOut ==
    ASSUME MonitorInv, NEW p \in Passes, FanOut(p)
    PROVE  MonitorInv'
  <1> DEFINE s == passes[p]
             R == Recipients(s.rows[s.current])
             N == [y \in Tickets \X Events \X Users |->
                      IF y[1] = s.current /\ y[2] = s.step /\ y[3] \in R
                        THEN s.own.notes[y] + 1 ELSE s.own.notes[y]]
             o == [events |-> s.own.events, notes |-> N]
             n == [phase |-> "scanning", at |-> s.at, rows |-> s.rows,
                   todo |-> s.todo, current |-> s.current,
                   step |-> AfterStep(s.step), notify |-> FALSE,
                   done |-> s.done, own |-> o]
  <1>1. /\ passes' = [passes EXCEPT ![p] = n] /\ s.notify
        /\ UNCHANGED <<now, tickets, status, stored, veterans>>
    BY DEF FanOut
  <1>2. /\ s \in Pass /\ s.own \in Inserted /\ s.done \in Inserted
        /\ PassSound(s) /\ PassTold(s, Watchers) /\ Watchers \subseteq Users
    BY PassFacts
  <1>3. /\ s.current \in Tickets /\ s.step \in Events
        /\ s.own.events[<<s.current, s.step>>] # None
        /\ \A u \in Users : s.own.notes[<<s.current, s.step, u>>] = 0
    BY <1>1, <1>2, Zenon DEF PassSound
  <1>4. Watchers \subseteq R
    BY <1>2 DEF Watchers, Recipients, MonitorInv, WatchersAreActive
  <1>5. /\ s.own.events \in [Tickets \X Events -> Opt(Deadlines)]
        /\ s.own.notes \in [Tickets \X Events \X Users -> Nat]
    BY <1>2 DEF Inserted
  <1> HIDE DEF R
  <1>6. N \in [Tickets \X Events \X Users -> Nat]
    BY <1>5
  <1>7. \A t \in Tickets, e \in Events, u \in Users : N[<<t, e, u>>] =
            IF t = s.current /\ e = s.step /\ u \in R
            THEN s.own.notes[<<t, e, u>>] + 1 ELSE s.own.notes[<<t, e, u>>]
    OBVIOUS
  <1> HIDE DEF N
  <1>8. o \in Inserted /\ o.events = s.own.events /\ o.notes = N
    BY <1>5, <1>6 DEF Inserted
  <1> HIDE DEF o
  <1>9. n \in Pass
    BY <1>2, <1>8 DEF Pass, AfterStep
  <1>10. /\ n.own = o /\ n.done = s.done /\ n.notify = FALSE /\ n.current = s.current
         /\ n.todo = s.todo /\ n.rows = s.rows
    OBVIOUS
  <1> HIDE DEF n
  <1>11. ~n.notify
    BY <1>10, Zenon
  <1>12. Once(o)
    <2> SUFFICES ASSUME NEW t \in Tickets, NEW e \in Events, NEW u \in Users
                 PROVE  o.notes[<<t, e, u>>] <= IF o.events[<<t, e>>] = None THEN 0 ELSE 1
      BY DEF Once
    <2>1. CASE t = s.current /\ e = s.step
      <3>1. s.own.notes[<<t, e, u>>] = 0 /\ s.own.events[<<t, e>>] # None
        BY <1>3, <2>1
      <3>2. N[<<t, e, u>>] = IF u \in R THEN s.own.notes[<<t, e, u>>] + 1
                             ELSE s.own.notes[<<t, e, u>>]
        BY <1>7, <2>1
      <3> HIDE DEF s
      <3>3. QED BY <1>8, <3>1, <3>2
    <2>2. CASE ~(t = s.current /\ e = s.step)
      BY <1>2, <1>7, <1>8, <2>2 DEF PassSound, Once
    <2>3. QED BY <2>1, <2>2
  <1>13. PassSound(n)
    <2>1. /\ \A r \in Tickets : r \in n.todo \/ r = n.current => n.rows[r].due \in Deadlines
          /\ n.current \notin n.todo /\ Once(n.done) /\ Apart(n.done, n.own)
      BY <1>2, <1>8, <1>10 DEF PassSound, Apart
    <2>2. QED BY <1>10, <1>11, <1>12, <2>1 DEF PassSound
  <1>14. PassTold(n, Watchers)
    <2>1. Told(n.done, Watchers)
      BY <1>2, <1>10 DEF PassTold
    <2>2. ASSUME NEW t \in Tickets, NEW e \in Events, NEW u \in Watchers,
                 n.own.events[<<t, e>>] # None
          PROVE  n.own.notes[<<t, e, u>>] = 1
      <3>1. CASE t = s.current /\ e = s.step
        <4>1. u \in Users /\ u \in R
          BY <1>2, <1>4
        <4>2. s.own.notes[<<t, e, u>>] = 0
          BY <1>3, <3>1, <4>1
        <4>3. N[<<t, e, u>>] = s.own.notes[<<t, e, u>>] + 1
          BY <1>7, <3>1, <4>1
        <4> HIDE DEF s
        <4>4. QED BY <1>8, <1>10, <4>2, <4>3
      <3>2. CASE ~(t = s.current /\ e = s.step)
        <4>1. s.own.notes[<<t, e, u>>] = 1
          BY <1>2, <1>8, <1>10, <2>2, <3>2 DEF PassTold
        <4>2. QED BY <1>2, <1>7, <1>8, <1>10, <3>2, <4>1
      <3>3. QED BY <3>1, <3>2
    <2>3. QED BY <2>1, <2>2 DEF PassTold
  <1>15. \A x \in Tickets \X Events : Written(n, x) => Written(s, x)
    BY <1>8, <1>10 DEF Written
  <1>16. QED BY <1>1, <1>9, <1>13, <1>14, <1>15, PassFacts, PassKeeps

\* A dead worker or a broken connection rolls the whole pass back.
LEMMA Crashes ==
    ASSUME MonitorInv, NEW p \in Passes, CrashPass(p)
    PROVE  MonitorInv'
  <1>1. /\ passes' = [passes EXCEPT ![p] = IdlePass]
        /\ UNCHANGED <<now, tickets, status, stored, veterans>>
    BY DEF CrashPass
  <1>2. QED BY <1>1, IdlePassIsSound, PassFacts, PassKeeps

\* The COMMIT: what it makes durable shares no event with what was there.
LEMMA Commits ==
    ASSUME MonitorInv, NEW p \in Passes, CommitPass(p)
    PROVE  /\ MonitorInv'
           /\ \A x \in Tickets \X Events :
                  stored.events[x] # None => stored'.events[x] = stored.events[x]
  <1> DEFINE d == passes[p].done
  <1>1. /\ stored' = Merge(stored, d)
        /\ passes' = [passes EXCEPT ![p] = IdlePass]
        /\ UNCHANGED <<now, tickets, status, veterans>>
    BY DEF CommitPass
  <1>2. /\ stored \in Inserted /\ d \in Inserted /\ Once(stored) /\ Once(d)
        /\ Told(stored, Watchers) /\ Told(d, Watchers) /\ Watchers \in SUBSET Users
    BY PassFacts DEF MonitorInv, TypeOK, PassSound, PassTold
  <1>3. Apart(stored, d)
    BY DEF MonitorInv, Exclusive, Written, Apart
  <1> HIDE DEF d
  <1>4. /\ stored' \in Inserted /\ Once(stored') /\ Told(stored', Watchers)
        /\ \A x \in Tickets \X Events :
               stored.events[x] # None => stored'.events[x] = stored.events[x]
    BY <1>1, <1>2, <1>3, MergeEntries, MergeSound
  <1>5. \A x \in Tickets \X Events : stored'.events[x] =
            IF d.events[x] # None THEN d.events[x] ELSE stored.events[x]
    BY <1>1, <1>2, MergeEntries
  <1>6. /\ passes'[p] = IdlePass /\ \A q \in Passes \ {p} : passes'[q] = passes[q]
        /\ Watchers' = Watchers
    BY <1>1 DEF MonitorInv, TypeOK, Watchers
  <1>7. TypeOK'
    BY <1>1, <1>4, IdlePassIsSound DEF MonitorInv, TypeOK
  <1>8. WatchersAreActive'
    BY <1>1 DEF MonitorInv, WatchersAreActive
  <1>9. Once(stored)'
    BY <1>4, Zenon DEF Once
  <1>10. Told(stored, Watchers)'
    <2>1. Told(stored', Watchers')
      BY <1>4, <1>6
    <2>2. QED BY <2>1, Zenon DEF Told
  <1>11. Exclusive'
    <2> SUFFICES ASSUME NEW q \in Passes, NEW x \in Tickets \X Events,
                        Written(passes'[q], x)
                 PROVE  /\ stored'.events[x] = None
                        /\ \A o \in Passes \ {q} : ~Written(passes'[o], x)
      BY DEF Exclusive, Written
    <2>1. q # p /\ Written(passes[q], x)
      BY <1>6, IdlePassIsSound
    <2>2. stored.events[x] = None /\ \A o \in Passes \ {q} : ~Written(passes[o], x)
      BY <2>1 DEF MonitorInv, Exclusive
    <2>3. d.events[x] = None
      BY <2>1, <2>2 DEF Written, d
    <2>4. stored'.events[x] = None
      BY <1>5, <2>2, <2>3
    <2>5. QED BY <1>6, <2>2, <2>4, IdlePassIsSound
  <1>12. ASSUME NEW q \in Passes
         PROVE  PassSound(passes[q])' /\ PassTold(passes[q], Watchers)'
    <2>1. PassSound(passes'[q]) /\ PassTold(passes'[q], Watchers')
      BY <1>2, <1>6, IdlePassIsSound DEF MonitorInv
    <2>2. PassSound(passes[q])'
      BY <2>1, Zenon DEF PassSound, Once, Apart
    <2>3. PassTold(passes[q], Watchers)'
      BY <2>1, Zenon DEF PassTold, Told
    <2>4. QED BY <2>2, <2>3
  <1>13. QED BY <1>4, <1>7, <1>8, <1>9, <1>10, <1>11, <1>12 DEF MonitorInv

\* Tickets, users and the clock may change under the passes.
LEMMA OthersKeep ==
    ASSUME MonitorInv, TypeOK', UNCHANGED <<stored, passes>>, WatchersAreActive',
           veterans' \subseteq veterans
    PROVE  MonitorInv'
  <1>1. Watchers' \subseteq Watchers
    BY DEF Watchers
  <1>2. Once(stored)' /\ Told(stored, Watchers)'
    BY <1>1 DEF MonitorInv, Once, Told
  <1>3. Exclusive'
    BY DEF MonitorInv, Exclusive, Written
  <1>4. ASSUME NEW p \in Passes
        PROVE  PassSound(passes[p])' /\ PassTold(passes[p], Watchers)'
    <2>1. PassSound(passes'[p]) /\ PassTold(passes'[p], Watchers)
      BY DEF MonitorInv
    <2>2. PassSound(passes[p])'
      BY <2>1, Zenon DEF PassSound, Once, Apart
    <2>3. PassTold(passes'[p], Watchers')
      BY <1>1, <2>1, Zenon DEF PassTold, Told
    <2>4. PassTold(passes[p], Watchers)'
      BY <2>3, Zenon DEF PassTold, Told
    <2>5. QED BY <2>2, <2>4
  <1>5. QED BY <1>2, <1>3, <1>4 DEF MonitorInv

LEMMA MonitorInit ==
    ASSUME Init
    PROVE  MonitorInv
  <1>1. /\ now = 0 /\ tickets = [t \in Tickets |-> NoRow]
        /\ status \in [Users -> {"pending", "active"}]
        /\ stored = Nothing /\ passes = [p \in Passes |-> IdlePass]
        /\ veterans = {u \in Users : status[u] = "active"}
    BY DEF Init
  <1>2. NoRow \in TicketRow
    BY DEF NoRow, TicketRow, Opt
  <1>3. TypeOK
    BY <1>1, <1>2, NothingIsSound, IdlePassIsSound, MonitorAssumption DEF TypeOK
  <1>4. WatchersAreActive /\ Watchers \in SUBSET Users
    BY <1>1 DEF WatchersAreActive, Watchers
  <1>5. Once(stored) /\ Told(stored, Watchers)
    BY <1>1, <1>4, NothingIsSound
  <1>6. \A p \in Passes : passes[p] = IdlePass
    BY <1>1
  <1>7. Exclusive /\ \A p \in Passes : PassSound(passes[p]) /\ PassTold(passes[p], Watchers)
    BY <1>4, <1>6, IdlePassIsSound DEF Exclusive
  <1>8. QED BY <1>3, <1>4, <1>5, <1>7 DEF MonitorInv

\* The steps of everyone but the monitor.
LEMMA OthersStep ==
    ASSUME MonitorInv,
           \/ \E i \in Instants : Advance(i)
           \/ \E t \in Tickets : \/ \E d \in Deadlines : SetDeadline(t, d)
                                 \/ \E u \in Users : Assign(t, u)
                                 \/ SetTerminal(t)
           \/ \E u \in Users : ActivateUser(u) \/ DisableUser(u)
           \/ UNCHANGED vars
    PROVE  MonitorInv' /\ stored' = stored
  <1>1. /\ now \in Instants /\ tickets \in [Tickets -> TicketRow]
        /\ status \in [Users -> {"pending", "active", "disabled"}]
        /\ stored \in Inserted /\ passes \in [Passes -> Pass]
        /\ veterans \in SUBSET Users /\ WatchersAreActive
    BY DEF MonitorInv, TypeOK
  <1>2. ASSUME UNCHANGED <<status, stored, passes, veterans>>,
               now' \in Instants, tickets' \in [Tickets -> TicketRow]
        PROVE  MonitorInv'
    BY <1>1, <1>2, OthersKeep DEF TypeOK, WatchersAreActive
  <1>3. ASSUME NEW i \in Instants, Advance(i)
        PROVE  MonitorInv' /\ stored' = stored
    BY <1>1, <1>2, <1>3 DEF Advance
  <1>4. ASSUME NEW t \in Tickets, NEW row \in TicketRow,
               tickets' = [tickets EXCEPT ![t] = row],
               UNCHANGED <<now, status, stored, passes, veterans>>
        PROVE  MonitorInv' /\ stored' = stored
    BY <1>1, <1>2, <1>4
  <1>5. ASSUME NEW t \in Tickets, NEW d \in Deadlines, SetDeadline(t, d)
        PROVE  MonitorInv' /\ stored' = stored
    <2> DEFINE row == [due |-> d, terminal |-> tickets[t].terminal,
                       agent |-> tickets[t].agent]
    <2>1. row \in TicketRow
      BY <1>1 DEF TicketRow, Opt
    <2>2. /\ tickets' = [tickets EXCEPT ![t] = row]
          /\ UNCHANGED <<now, status, stored, passes, veterans>>
      BY <1>5 DEF SetDeadline
    <2> HIDE DEF row
    <2>3. QED BY <1>4, <2>1, <2>2
  <1>6. ASSUME NEW t \in Tickets, NEW u \in Users, Assign(t, u)
        PROVE  MonitorInv' /\ stored' = stored
    <2> DEFINE row == [due |-> tickets[t].due, terminal |-> tickets[t].terminal,
                       agent |-> u]
    <2>1. row \in TicketRow
      BY <1>1 DEF TicketRow, Opt
    <2>2. /\ tickets' = [tickets EXCEPT ![t] = row]
          /\ UNCHANGED <<now, status, stored, passes, veterans>>
      BY <1>6 DEF Assign
    <2> HIDE DEF row
    <2>3. QED BY <1>4, <2>1, <2>2
  <1>7. ASSUME NEW t \in Tickets, SetTerminal(t)
        PROVE  MonitorInv' /\ stored' = stored
    <2> DEFINE row == [due |-> tickets[t].due, terminal |-> ~tickets[t].terminal,
                       agent |-> tickets[t].agent]
    <2>1. row \in TicketRow
      BY <1>1 DEF TicketRow, Opt
    <2>2. /\ tickets' = [tickets EXCEPT ![t] = row]
          /\ UNCHANGED <<now, status, stored, passes, veterans>>
      BY <1>7 DEF SetTerminal
    <2> HIDE DEF row
    <2>3. QED BY <1>4, <2>1, <2>2
  <1>8. ASSUME NEW u \in Users, ActivateUser(u) \/ DisableUser(u)
        PROVE  MonitorInv' /\ stored' = stored
    <2>1. /\ UNCHANGED <<now, tickets, stored, passes>>
          /\ status' \in [Users -> {"pending", "active", "disabled"}]
          /\ veterans' \in SUBSET Users /\ veterans' \subseteq veterans
      BY <1>1, <1>8 DEF ActivateUser, DisableUser
    <2>2. WatchersAreActive'
      BY <1>1, <1>8 DEF ActivateUser, DisableUser, WatchersAreActive
    <2>3. TypeOK'
      BY <1>1, <2>1 DEF TypeOK
    <2>4. QED BY <2>1, <2>2, <2>3, OthersKeep
  <1>9. CASE UNCHANGED vars
    BY <1>1, <1>2, <1>9 DEF vars
  <1>10. QED BY <1>3, <1>5, <1>6, <1>7, <1>8, <1>9

LEMMA MonitorStep ==
    ASSUME MonitorInv, [Next]_vars
    PROVE  /\ MonitorInv'
           /\ \A x \in Tickets \X Events :
                  stored.events[x] # None => stored'.events[x] = stored.events[x]
  <1>1. CASE \/ \E i \in Instants : Advance(i)
             \/ \E t \in Tickets : \/ \E d \in Deadlines : SetDeadline(t, d)
                                   \/ \E u \in Users : Assign(t, u)
                                   \/ SetTerminal(t)
             \/ \E u \in Users : ActivateUser(u) \/ DisableUser(u)
             \/ UNCHANGED vars
    BY <1>1, OthersStep
  <1>2. ASSUME NEW p \in Passes, BeginPass(p)
        PROVE  MonitorInv' /\ stored' = stored
    BY <1>2, Begins DEF BeginPass
  <1>3. ASSUME NEW p \in Passes, NEW t \in Tickets, OpenSavepoint(p, t)
        PROVE  MonitorInv' /\ stored' = stored
    BY <1>3, Opens DEF OpenSavepoint
  <1>4. ASSUME NEW p \in Passes, Record(p)
        PROVE  MonitorInv' /\ stored' = stored
    BY <1>4, RecordsNothing, RecordsFresh DEF Record
  <1>5. ASSUME NEW p \in Passes, FanOut(p)
        PROVE  MonitorInv' /\ stored' = stored
    BY <1>5, FansOut DEF FanOut
  <1>6. ASSUME NEW p \in Passes, ReleaseSavepoint(p)
        PROVE  MonitorInv' /\ stored' = stored
    BY <1>6, Releases DEF ReleaseSavepoint
  <1>7. ASSUME NEW p \in Passes, SavepointFails(p)
        PROVE  MonitorInv' /\ stored' = stored
    BY <1>7, SavepointsFail DEF SavepointFails
  <1>8. ASSUME NEW p \in Passes, CrashPass(p)
        PROVE  MonitorInv' /\ stored' = stored
    BY <1>8, Crashes DEF CrashPass
  <1>9. ASSUME NEW p \in Passes, CommitPass(p)
        PROVE  /\ MonitorInv'
               /\ \A x \in Tickets \X Events :
                      stored.events[x] # None => stored'.events[x] = stored.events[x]
    BY <1>9, Commits
  <1>10. QED
    BY <1>1, <1>2, <1>3, <1>4, <1>5, <1>6, <1>7, <1>8, <1>9 DEF Next

-----------------------------------------------------------------------------

\* Tickets, users, passes and what they insert keep the shape of their tables.
THEOREM MonitorTypes == Spec => []TypeOK
  <1>1. MonitorInv => TypeOK
    BY DEF MonitorInv
  <1>2. QED BY <1>1, MonitorInit, MonitorStep, PTL DEF Spec

\* (workers/sla.py, monitor_sla; services/sla_event_service.py, record_once) Whatever
\* passes overlap, crash, start over or break off at a ticket, nobody gets a second
\* notification of an event, nor one of an event that is not recorded.
THEOREM NobodyIsToldTwice == Spec => []NotifiedOnce
  <1>1. MonitorInv => NotifiedOnce
    BY DEF MonitorInv, Once, NotifiedOnce
  <1>2. QED BY <1>1, MonitorInit, MonitorStep, PTL DEF Spec

\* (workers/sla.py, _process_ticket) An event is never recorded without telling the
\* admins who have been active all along: the savepoint holds record_once and fan_out
\* together.
THEOREM EveryEventIsTold == Spec => []AdminsAreTold
  <1>1. MonitorInv => AdminsAreTold
    BY DEF MonitorInv, Told, Watchers, AdminsAreTold
  <1>2. QED BY <1>1, MonitorInit, MonitorStep, PTL DEF Spec

\* (services/sla_event_service.py, record_once) No later pass, and no PATCH of the
\* deadline, rewrites a recorded event.
THEOREM RecordedEventsAreFinal == Spec => EventsAreFinal
  <1>1. MonitorInv /\ [Next]_vars =>
            [\A x \in Tickets \X Events :
                stored.events[x] # None => stored'.events[x] = stored.events[x]]_vars
    BY MonitorStep
  <1>2. QED BY <1>1, MonitorInit, MonitorStep, PTL DEF Spec, EventsAreFinal

\* (ux_sla_events_ticket_event_once) An event that a pass has inserted and not
\* committed is nobody else's: neither stored nor inserted by a second pass, which the
\* unique index makes wait.
THEOREM EventsHaveOneWriter == Spec => []Exclusive
  <1>1. MonitorInv => Exclusive
    BY DEF MonitorInv
  <1>2. QED BY <1>1, MonitorInit, MonitorStep, PTL DEF Spec

-----------------------------------------------------------------------------
(* SlaClock. *)

\* A day's windows are listed in the order of their begin.
WindowsSorted ==
    \A s \in Schedules : \A d \in Weekdays : \A i, j \in 1..Len(s[d]) :
        i < j => s[d][i][1] <= s[d][j][1]

\* A wall time strictly inside the ticks that change c skips or repeats.
Inside(c, w) == \/ c.at < w /\ w < c.at + c.by
                \/ c.at + c.by < w /\ w < c.at

\* No window opens or closes there.
BoundsClearOfChange ==
    \A c \in Changes, s \in Schedules :
        \A i \in 1..Len(s[c.day % WeekLength]), n \in {1, 2} :
            ~Inside(c, s[c.day % WeekLength][i][n])

\* A local time as a number.
Mark(d, w) == d * DayLength + w

\* A wall time that may bound a window or a day.
Bound(d, w) == /\ d \in Nat /\ w \in 0..DayLength
               /\ d = change.day => ~Inside(change, w)

\* The instant of the cursor.
CursorTime == Utc(day, wall, fold)

\* The cursor is still from_timestamp, with its fold, or at such a bound.
CursorInv ==
    \/ CursorTime = start /\ Local(start) = Mark(day, wall) /\ wall < DayLength
    \/ fold = 0 /\ Bound(day, wall)

ArgumentsOK ==
    /\ schedule \in Schedules /\ Accepted(schedule) /\ change \in Changes
    /\ respects \in BOOLEAN /\ start \in Starts /\ sla \in SlaTicks

\* The windows before the next one are behind the cursor.
PassedInv ==
    \A j \in 1..Len(Windows(day)) : j < window => Windows(day)[j][2] <= wall

\* The inductive invariant.
ClockInv ==
    /\ ArgumentsOK
    /\ ClockTypeOK
    /\ CursorInv
    /\ PassedInv
    /\ start <= CursorTime
    /\ NothingLostOnTheWay
    /\ DueIsExact

-----------------------------------------------------------------------------

\* Days do not overlap.
LEMMA DayOrder ==
    ASSUME NEW p \in Int, NEW q \in Int, p < q
    PROVE  /\ p * DayLength \in Int /\ q * DayLength \in Int
           /\ p * DayLength + DayLength <= q * DayLength
  <1>1. DayLength \in Nat \ {0}
    BY ClockAssumption
  <1>2. \A n \in Nat : n * DayLength >= 0
    BY <1>1
  <1>3. (q - p) - 1 \in Nat
    OBVIOUS
  <1>4. ((q - p) - 1) * DayLength >= 0
    BY <1>2, <1>3
  <1>5. ((q - p) - 1) * DayLength = q * DayLength - p * DayLength - DayLength
    BY <1>1
  <1>6. p * DayLength \in Int /\ q * DayLength \in Int
    BY <1>1
  <1>7. QED BY <1>1, <1>4, <1>5, <1>6

\* A local time has one day and one wall time.
LEMMA DayOfMark ==
    ASSUME NEW l \in Int
    PROVE  /\ l \div DayLength \in Int /\ l % DayLength \in 0..DayLength - 1
           /\ l = (l \div DayLength) * DayLength + (l % DayLength)
           /\ \A d \in Int : d * DayLength <= l /\ l < d * DayLength + DayLength
                               => l \div DayLength = d
  <1>1. DayLength \in Nat \ {0}
    BY ClockAssumption
  <1> DEFINE q == l \div DayLength
             r == l % DayLength
  <1>2. q \in Int /\ r \in 0..DayLength - 1 /\ l = q * DayLength + r
    BY <1>1
  <1> HIDE DEF q, r
  <1>3. ASSUME NEW d \in Int, d * DayLength <= l, l < d * DayLength + DayLength
        PROVE  q = d
    <2>1. d * DayLength \in Int /\ q * DayLength \in Int
      BY <1>1, <1>2
    <2>2. ~(q < d)
      BY <1>1, <1>2, <1>3, <2>1, DayOrder
    <2>3. ~(d < q)
      BY <1>1, <1>2, <1>3, <2>1, DayOrder
    <2>4. QED BY <1>2, <2>2, <2>3
  <1>4. QED BY <1>2, <1>3 DEF q, r

\* The types of the conversions.
LEMMA ClockConversions ==
    ASSUME change \in Changes
    PROVE  /\ ChangeInstant \in Int
           /\ \A x \in Int : /\ Local(x) \in Int /\ LocalDay(x) \in Int
                             /\ LocalWall(x) \in 0..DayLength - 1
                             /\ Local(x) = Mark(LocalDay(x), LocalWall(x))
           /\ \A d, w \in Int, f \in {0, 1} : Utc(d, w, f) \in Int /\ Mark(d, w) \in Int
  <1>1. DayLength \in Nat \ {0} /\ change.day \in Nat /\ change.at \in Int /\ change.by \in Int
    BY ClockAssumption
  <1>2. \A d \in Int : d * DayLength \in Int
    BY <1>1
  <1>3. ChangeInstant \in Int
    BY <1>1, <1>2 DEF ChangeInstant
  <1>4. \A x \in Int : Local(x) \in Int
    BY <1>1, <1>3 DEF Local
  <1>5. \A d, w \in Int, f \in {0, 1} : Utc(d, w, f) \in Int /\ Mark(d, w) \in Int
    BY <1>1, <1>2 DEF Utc, Mark
  <1>6. QED BY <1>3, <1>4, <1>5, DayOfMark DEF LocalDay, LocalWall, Mark

\* AfterChange compares with the end of the skipped or repeated ticks.
LEMMA AfterIsOrder ==
    ASSUME change \in Changes, NEW d \in Int, NEW w \in 0..DayLength, change.by # 0
    PROVE  AfterChange(d, w) <=>
             Mark(d, w) >= ChangeInstant + (IF change.by > 0 THEN change.by ELSE 0)
  <1> DEFINE k == d * DayLength
             c == change.day * DayLength
  <1>1. /\ DayLength \in Nat \ {0} /\ change.day \in Nat /\ change.at \in 0..DayLength
        /\ change.by \in Int /\ change.at + change.by \in 0..DayLength
    BY ClockAssumption
  <1>2. k \in Int /\ c \in Int
    BY <1>1
  <1>3. d < change.day => k + DayLength <= c
    BY <1>1, DayOrder
  <1>4. d > change.day => c + DayLength <= k
    BY <1>1, DayOrder
  <1>5. d = change.day => k = c
    OBVIOUS
  <1>6. Mark(d, w) = k + w /\ ChangeInstant = c + change.at
    BY DEF Mark, ChangeInstant
  <1> HIDE DEF k, c
  <1>7. w \in Int
    OBVIOUS
  <1>8. CASE d < change.day
    BY <1>1, <1>2, <1>3, <1>6, <1>7, <1>8 DEF AfterChange
  <1>9. CASE d = change.day
    BY <1>1, <1>2, <1>5, <1>6, <1>7, <1>9 DEF AfterChange
  <1>10. CASE d > change.day
    BY <1>1, <1>2, <1>4, <1>6, <1>7, <1>10 DEF AfterChange
  <1>11. QED BY <1>1, <1>8, <1>9, <1>10


\* A local time before a bound is a time before the bound.
LEMMA BeforeBound ==
    ASSUME change \in Changes, NEW d, NEW w, Bound(d, w), NEW x \in Int
    PROVE  x < Utc(d, w, 0) <=> Local(x) < Mark(d, w)
  <1>1. d \in Nat /\ w \in 0..DayLength
    BY DEF Bound
  <1> DEFINE m == Mark(d, w)
             c == ChangeInstant
             by == change.by
  <1>2. m \in Int /\ c \in Int /\ by \in Int
    BY <1>1, ClockConversions, ClockAssumption
  <1>3. Local(x) = IF x < c THEN x ELSE x + by
    BY DEF Local
  <1>4. Utc(d, w, 0) = m - (IF AfterChange(d, w) THEN by ELSE 0)
    <2>1. d \in Int /\ w \in Int /\ DayLength \in Nat \ {0} /\ change.at \in Int
      BY <1>1, ClockAssumption
    <2>2. QED BY <1>2, <2>1 DEF Utc, Mark, AfterChange
  <1>5. by # 0 => (AfterChange(d, w) <=> m >= c + (IF by > 0 THEN by ELSE 0))
    BY <1>1, AfterIsOrder
  <1>6. ~(c < m /\ m < c + by) /\ ~(c + by < m /\ m < c)
    <2> DEFINE k == d * DayLength
               k0 == change.day * DayLength
    <2>1. /\ DayLength \in Nat \ {0} /\ change.day \in Nat /\ change.at \in 0..DayLength
          /\ change.at + by \in 0..DayLength
      BY ClockAssumption
    <2>2. k \in Int /\ k0 \in Int
      BY <1>1, <2>1
    <2>3. d < change.day => k + DayLength <= k0
      BY <1>1, <2>1, DayOrder
    <2>4. d > change.day => k0 + DayLength <= k
      BY <1>1, <2>1, DayOrder
    <2>5. d = change.day => k = k0 /\ ~Inside(change, w)
      BY DEF Bound
    <2>6. m = k + w /\ c = k0 + change.at
      BY DEF Mark, ChangeInstant
    <2> HIDE DEF k, k0, m, c
    <2>7. CASE d < change.day
      BY <1>1, <1>2, <2>1, <2>2, <2>3, <2>6, <2>7
    <2>8. CASE d = change.day
      BY <1>1, <1>2, <2>1, <2>2, <2>5, <2>6, <2>8 DEF Inside
    <2>9. CASE d > change.day
      BY <1>1, <1>2, <2>1, <2>2, <2>4, <2>6, <2>9
    <2>10. QED BY <1>1, <2>1, <2>7, <2>8, <2>9
  <1> HIDE DEF m, c, by
  <1>7. CASE by = 0
    BY <1>2, <1>3, <1>4, <1>7 DEF m
  <1>8. CASE by > 0
    BY <1>2, <1>3, <1>4, <1>5, <1>6, <1>8 DEF m
  <1>9. CASE by < 0
    BY <1>2, <1>3, <1>4, <1>5, <1>6, <1>9 DEF m
  <1>10. QED BY <1>2, <1>7, <1>8, <1>9

\* astimezone to the zone and back.
LEMMA ThereAndBack ==
    ASSUME change \in Changes, NEW x \in Nat
    PROVE  /\ Utc(LocalDay(x), LocalWall(x), LocalFold(x)) = x
           /\ LocalDay(x) \in Nat /\ LocalFold(x) \in {0, 1}
  <1> DEFINE d == LocalDay(x)
             w == LocalWall(x)
             c == ChangeInstant
             by == change.by
  <1>1. /\ d \in Int /\ w \in 0..DayLength - 1 /\ c \in Int /\ by \in Int
        /\ Local(x) \in Int /\ Local(x) = Mark(d, w)
    <2>1. x \in Int
      OBVIOUS
    <2>2. by \in Int
      BY ClockAssumption
    <2>3. QED BY <2>1, <2>2, ClockConversions
  <1>2. DayLength \in Nat \ {0} /\ w \in 0..DayLength /\ w \in Int
    BY <1>1, ClockAssumption
  <1>3. Local(x) = IF x < c THEN x ELSE x + by
    BY DEF Local
  <1>4. by # 0 => (AfterChange(d, w) <=> Mark(d, w) >= c + (IF by > 0 THEN by ELSE 0))
    BY <1>1, <1>2, AfterIsOrder
  <1>5. \A f \in {0, 1} : Utc(d, w, f) =
            Mark(d, w) - (IF AfterChange(d, w) \/ f = 1 THEN by ELSE 0)
    BY <1>1, <1>2 DEF Utc, Mark, AfterChange
  <1>6. LocalFold(x) = IF x >= c /\ ~AfterChange(d, w) THEN 1 ELSE 0
    BY DEF LocalFold
  <1>7. LocalFold(x) \in {0, 1}
    BY <1>6
  <1>8. Utc(d, w, LocalFold(x)) = x
    <2> HIDE DEF d, w, c, by
    <2>1. CASE x < c
      BY <1>1, <1>3, <1>4, <1>5, <1>6, <2>1
    <2>2. CASE ~(x < c)
      BY <1>1, <1>3, <1>4, <1>5, <1>6, <2>2
    <2>3. QED BY <2>1, <2>2
  <1>9. d \in Nat
    <2>1. Local(x) >= 0
      <3>1. change.day \in Nat /\ change.at + by \in Nat /\ change.at \in Int
        BY ClockAssumption
      <3>2. change.day * DayLength >= 0 /\ change.day * DayLength \in Int
        BY <1>2, <3>1
      <3>3. c + by >= 0
        BY <1>1, <3>1, <3>2 DEF ChangeInstant
      <3> HIDE DEF c, by
      <3>4. QED BY <1>1, <1>3, <3>3
    <2>2. d < 0 => d * DayLength + DayLength <= 0 * DayLength
      BY <1>1, DayOrder
    <2>3. d * DayLength \in Int
      BY <1>1, <1>2
    <2> HIDE DEF d, w
    <2>4. QED BY <1>1, <1>2, <2>1, <2>2, <2>3 DEF Mark
  <1>10. QED BY <1>7, <1>8, <1>9

\* Both local midnights of a day may bound it.
LEMMA MidnightIsBound ==
    ASSUME change \in Changes, NEW d \in Nat
    PROVE  Bound(d, 0)
  <1>1. change.at \in 0..DayLength /\ change.at + change.by \in 0..DayLength
        /\ DayLength \in Nat \ {0}
    BY ClockAssumption
  <1>2. QED BY <1>1 DEF Bound, Inside

\* The cursor is later than the bounds up to its wall time, and not later than those
\* that follow, nor than midnight.
LEMMA CursorAmongBounds ==
    ASSUME ArgumentsOK, CursorInv, day \in Nat, wall \in 0..DayLength, fold \in {0, 1}
    PROVE  /\ CursorTime \in Int /\ start \in Int
           /\ \A d, w : Bound(d, w) => 
                 /\ Utc(d, w, 0) \in Int /\ Mark(d, w) \in Int
                 /\ Mark(d, w) <= Mark(day, wall) => Utc(d, w, 0) <= CursorTime
                 /\ Mark(day, wall) < Mark(d, w) => CursorTime <= Utc(d, w, 0)
           /\ CursorTime <= Utc(day + 1, 0, 0)
  <1>1. change \in Changes /\ start \in Int /\ wall \in Int /\ day \in Int
        /\ DayLength \in Nat \ {0}
    BY ClockAssumption DEF ArgumentsOK
  <1>2. CursorTime \in Int /\ Mark(day, wall) \in Int
    BY <1>1, ClockConversions DEF CursorTime
  <1>3. \A d, w : Bound(d, w) => Utc(d, w, 0) \in Int /\ Mark(d, w) \in Int
    <2>1. ASSUME NEW d, NEW w, Bound(d, w)
          PROVE  d \in Int /\ w \in Int
      BY <1>1, <2>1 DEF Bound
    <2>2. QED BY <1>1, <2>1, ClockConversions
  <1>4. \A d, w : Bound(d, w) => \A x \in Int : x < Utc(d, w, 0) <=> Local(x) < Mark(d, w)
    BY <1>1, BeforeBound
  <1>5. \A x \in Int : Local(x) \in Int
    BY <1>1, ClockConversions
  <1>6. Bound(day + 1, 0)
    BY <1>1, MidnightIsBound
  <1>7. Mark(day, wall) <= Mark(day + 1, 0)
    <2>1. (day + 1) * DayLength = day * DayLength + DayLength /\ day * DayLength \in Int
      BY <1>1
    <2>2. QED BY <1>1, <2>1 DEF Mark
  <1>8. CASE CursorTime = start /\ Local(start) = Mark(day, wall) /\ wall < DayLength
    <2>1. ASSUME NEW d, NEW w, Bound(d, w)
          PROVE  /\ Mark(d, w) <= Mark(day, wall) => Utc(d, w, 0) <= CursorTime
                 /\ Mark(day, wall) < Mark(d, w) => CursorTime <= Utc(d, w, 0)
      BY <1>1, <1>2, <1>3, <1>4, <1>8, <2>1
    <2>2. Mark(day, wall) < Mark(day + 1, 0)
      <3>1. (day + 1) * DayLength = day * DayLength + DayLength /\ day * DayLength \in Int
        BY <1>1
      <3>2. QED BY <1>1, <1>8, <3>1 DEF Mark
    <2>3. QED BY <1>1, <1>2, <1>3, <1>6, <2>1, <2>2
  <1>9. CASE fold = 0 /\ Bound(day, wall)
    <2>1. CursorTime = Utc(day, wall, 0)
      BY <1>9 DEF CursorTime
    <2>2. ASSUME NEW d, NEW w, Bound(d, w)
          PROVE  /\ Mark(d, w) <= Mark(day, wall) => Utc(d, w, 0) <= CursorTime
                 /\ Mark(day, wall) <= Mark(d, w) => CursorTime <= Utc(d, w, 0)
      <3> DEFINE u == Utc(d, w, 0)
                 m == Mark(d, w)
                 n == Mark(day, wall)
      <3>1. u \in Int /\ m \in Int /\ n \in Int /\ Local(u) \in Int /\ Local(CursorTime) \in Int
        BY <1>2, <1>3, <1>5, <2>2
      <3>2. CursorTime < u <=> Local(CursorTime) < m
        BY <1>2, <1>4, <2>2
      <3>3. ~(Local(u) < m)
        BY <1>3, <1>4, <2>2
      <3>4. ~(Local(CursorTime) < n)
        BY <1>2, <1>4, <1>9, <2>1
      <3>5. u < CursorTime <=> Local(u) < n
        BY <1>3, <1>4, <1>9, <2>1, <2>2
      <3> HIDE DEF u, m, n
      <3>6. m <= n => u <= CursorTime
        BY <1>2, <3>1, <3>2, <3>4
      <3>7. n <= m => CursorTime <= u
        BY <1>2, <3>1, <3>3, <3>5
      <3>8. QED BY <3>6, <3>7 DEF u, m, n
    <2>3. QED BY <1>1, <1>2, <1>3, <1>6, <1>7, <2>2
  <1>10. QED BY <1>8, <1>9 DEF CursorInv


-----------------------------------------------------------------------------
(* Opening hours. *)

\* What parse_business_hours accepts, in order: a window ends before the next begins.
LEMMA WindowsOfDay ==
    ASSUME WindowsSorted, ArgumentsOK, NEW d \in Nat
    PROVE  /\ Windows(d) \in Seq((0..DayLength) \X (0..DayLength))
           /\ \A i \in 1..Len(Windows(d)) :
                 /\ Windows(d)[i][1] \in 0..DayLength /\ Windows(d)[i][2] \in 0..DayLength
                 /\ Windows(d)[i][1] < Windows(d)[i][2]
                 /\ \A j \in 1..Len(Windows(d)) :
                       i < j => Windows(d)[i][2] <= Windows(d)[j][1]
  <1> DEFINE k == d % WeekLength
             T == (0..DayLength) \X (0..DayLength)
             s == schedule[k]
  <1>1. k \in Weekdays
    BY ClockAssumption DEF Weekdays
  <1>2. schedule \in [Weekdays -> Seq(T)]
    BY ClockAssumption DEF ArgumentsOK
  <1>3. s \in Seq(T) /\ Windows(d) = s
    BY <1>1, <1>2 DEF Windows
  <1>4. Accepted(schedule) /\ \A i, j \in 1..Len(s) : i < j => s[i][1] <= s[j][1]
    BY <1>1 DEF WindowsSorted, ArgumentsOK
  <1>5. \A i \in 1..Len(s) : /\ s[i][1] < s[i][2]
                             /\ \A j \in i + 1..Len(s) : ~Overlap(s[i], s[j])
    BY <1>1, <1>4 DEF Accepted
  <1> HIDE DEF s
  <1>6. \A i \in 1..Len(s) : s[i] \in T
    BY <1>3
  <1>7. \A i \in 1..Len(s) : s[i][1] \in 0..DayLength /\ s[i][2] \in 0..DayLength
    BY <1>6
  <1>8. ASSUME NEW i \in 1..Len(s), NEW j \in 1..Len(s), i < j
        PROVE  s[i][2] <= s[j][1]
    <2>1. j \in i + 1..Len(s)
      BY <1>3, <1>8
    <2>2. ~(s[i][1] < s[j][2] /\ s[j][1] < s[i][2])
      BY <1>5, <2>1 DEF Overlap
    <2>3. s[i][1] <= s[j][1] /\ s[j][1] < s[j][2]
      BY <1>4, <1>5, <1>8
    <2> DEFINE p == s[i][1]
               q == s[i][2]
               u == s[j][1]
               v == s[j][2]
    <2>4. p \in Int /\ q \in Int /\ u \in Int /\ v \in Int
      BY <1>7, ClockAssumption
    <2> HIDE DEF p, q, u, v
    <2>5. QED BY <2>2, <2>3, <2>4 DEF p, q, u, v
  <1>9. QED BY <1>3, <1>5, <1>7, <1>8

\* The ends of a window may bound it.
LEMMA WindowIsBound ==
    ASSUME WindowsSorted, BoundsClearOfChange, ArgumentsOK, NEW d \in Nat,
           NEW i \in 1..Len(Windows(d)), NEW n \in {1, 2}
    PROVE  Bound(d, Windows(d)[i][n])
  <1>1. Windows(d)[i][n] \in 0..DayLength
    BY WindowsOfDay
  <1>2. ASSUME d = change.day
        PROVE  ~Inside(change, Windows(d)[i][n])
    <2>1. Windows(d) = schedule[change.day % WeekLength]
      BY <1>2 DEF Windows
    <2>2. change \in Changes /\ schedule \in Schedules
      BY DEF ArgumentsOK
    <2>3. QED BY <2>1, <2>2 DEF BoundsClearOfChange
  <1>3. QED BY <1>1, <1>2 DEF Bound

\* Open, for the instants whose local time is on day d.
LEMMA OpenOnDay ==
    ASSUME change \in Changes, NEW d \in Nat, NEW x \in Int,
           Mark(d, 0) <= Local(x), Local(x) < Mark(d + 1, 0)
    PROVE  Open(x) <=> \E i \in 1..Len(Windows(d)) :
                          /\ Windows(d)[i][1] <= Local(x) - Mark(d, 0)
                          /\ Local(x) - Mark(d, 0) < Windows(d)[i][2]
  <1>1. DayLength \in Nat \ {0} /\ d \in Int
    BY ClockAssumption
  <1>2. (d + 1) * DayLength = d * DayLength + DayLength /\ d * DayLength \in Int
    BY <1>1
  <1>3. Local(x) \in Int /\ Local(x) = Mark(LocalDay(x), LocalWall(x))
        /\ LocalWall(x) \in 0..DayLength - 1
    BY ClockConversions
  <1>4. LocalDay(x) = d
    <2>1. d * DayLength <= Local(x) /\ Local(x) < d * DayLength + DayLength
      BY <1>1, <1>2, <1>3 DEF Mark
    <2>2. QED BY <1>1, <1>3, <2>1, DayOfMark DEF LocalDay
  <1>5. LocalWall(x) = Local(x) - Mark(d, 0)
    BY <1>1, <1>2, <1>3, <1>4 DEF Mark
  <1>6. QED BY <1>4, <1>5 DEF Open

\* Open time is a finite number of ticks, and adds up over adjacent intervals.
LEMMA AccruedAdds ==
    ASSUME NEW a \in Int, NEW b \in Int, NEW c \in Int, a <= b, b <= c
    PROVE  /\ Accrued(a, b) \in Nat /\ Accrued(b, c) \in Nat
           /\ Accrued(a, c) = Accrued(a, b) + Accrued(b, c)
  <1> DEFINE A == {x \in a..b - 1 : Open(x)}
             B == {x \in b..c - 1 : Open(x)}
             C == {x \in a..c - 1 : Open(x)}
  <1>1. IsFiniteSet(a..b - 1) /\ IsFiniteSet(b..c - 1)
    BY FS_Interval
  <1>2. IsFiniteSet(A) /\ IsFiniteSet(B)
    BY <1>1, FS_Subset
  <1>3. A \cup B = C /\ A \cap B = {}
    OBVIOUS
  <1>4. Cardinality(A \cap B) = 0
    BY <1>3, FS_EmptySet
  <1> HIDE DEF A, B, C
  <1>5. /\ Cardinality(A) \in Nat /\ Cardinality(B) \in Nat
        /\ Cardinality(A \cup B) = Cardinality(A) + Cardinality(B) - Cardinality(A \cap B)
    BY <1>2, FS_Union, FS_CardinalityType
  <1>6. Cardinality(C) = Cardinality(A) + Cardinality(B)
    BY <1>3, <1>4, <1>5
  <1>7. QED BY <1>5, <1>6 DEF Accrued, A, B, C

\* Between two instants that are closed, and that are open.
LEMMA AccruedClosed ==
    ASSUME NEW a \in Int, NEW b \in Int, \A x \in a..b - 1 : ~Open(x)
    PROVE  Accrued(a, b) = 0
  <1>1. {x \in a..b - 1 : Open(x)} = {}
    OBVIOUS
  <1>2. QED BY <1>1, FS_EmptySet DEF Accrued

LEMMA AccruedOpen ==
    ASSUME NEW a \in Int, NEW b \in Int, a <= b, \A x \in a..b - 1 : Open(x)
    PROVE  Accrued(a, b) = b - a
  <1>1. {x \in a..b - 1 : Open(x)} = a..b - 1
    OBVIOUS
  <1>2. Cardinality(a..b - 1) = IF a > b - 1 THEN 0 ELSE (b - 1) - a + 1
    BY FS_Interval
  <1>3. Cardinality(a..b - 1) = b - a
    BY <1>2
  <1>4. QED BY <1>1, <1>3 DEF Accrued


\* What the lemmas about the cursor assume of a state.
WalkOK ==
    /\ ArgumentsOK /\ CursorInv /\ PassedInv
    /\ day \in Nat /\ wall \in 0..DayLength /\ fold \in {0, 1} /\ window \in Nat \ {0}

\* Marks of one day are in the order of their wall times.
LEMMA MarksOfDay ==
    ASSUME NEW d \in Nat
    PROVE  /\ Mark(d, 0) \in Int
           /\ \A w \in Int : Mark(d, w) \in Int /\ Mark(d, w) = Mark(d, 0) + w
           /\ \A v, w \in Int : /\ v < w => Mark(d, v) < Mark(d, w)
                                /\ v <= w => Mark(d, v) <= Mark(d, w)
           /\ Mark(d + 1, 0) = Mark(d, 0) + DayLength
  <1>1. DayLength \in Nat \ {0} /\ d * DayLength \in Int
        /\ (d + 1) * DayLength = d * DayLength + DayLength
    BY ClockAssumption
  <1>2. QED BY <1>1 DEF Mark

\* The organization is open from the begin of a window to its end, whatever the clock
\* does in between.
LEMMA OpenInWindow ==
    ASSUME WindowsSorted, BoundsClearOfChange, ArgumentsOK, NEW d \in Nat,
           NEW i \in 1..Len(Windows(d)), NEW x \in Int,
           Utc(d, Windows(d)[i][1], 0) <= x, x < Utc(d, Windows(d)[i][2], 0)
    PROVE  Open(x)
  <1> DEFINE b == Windows(d)[i][1]
             e == Windows(d)[i][2]
  <1>1. change \in Changes /\ DayLength \in Int
    BY ClockAssumption DEF ArgumentsOK
  <1>2. b \in 0..DayLength /\ e \in 0..DayLength
    BY WindowsOfDay
  <1>3. b \in Int /\ e \in Int /\ b >= 0 /\ e <= DayLength
    BY <1>1, <1>2
  <1>4. Bound(d, b) /\ Bound(d, e)
    BY WindowIsBound
  <1>5. Local(x) \in Int /\ Utc(d, b, 0) \in Int
    <2>1. d \in Int /\ 0 \in {0, 1}
      OBVIOUS
    <2>2. QED BY <1>1, <1>3, <2>1, ClockConversions
  <1>6. ~(Local(x) < Mark(d, b)) /\ Local(x) < Mark(d, e)
    <2>1. x < Utc(d, b, 0) <=> Local(x) < Mark(d, b)
      BY <1>1, <1>4, BeforeBound
    <2>2. x < Utc(d, e, 0) <=> Local(x) < Mark(d, e)
      BY <1>1, <1>4, BeforeBound
    <2>3. QED BY <1>5, <2>1, <2>2
  <1> HIDE DEF b, e
  <1>7. /\ Mark(d, 0) <= Local(x) /\ Local(x) < Mark(d + 1, 0)
        /\ b <= Local(x) - Mark(d, 0) /\ Local(x) - Mark(d, 0) < e
    <2>1. /\ Mark(d, 0) \in Int /\ Mark(d, b) = Mark(d, 0) + b
          /\ Mark(d, e) = Mark(d, 0) + e /\ Mark(d + 1, 0) = Mark(d, 0) + DayLength
      BY <1>3, MarksOfDay
    <2>2. QED BY <1>1, <1>3, <1>5, <1>6, <2>1
  <1>8. QED BY <1>1, <1>7, OpenOnDay DEF b, e

\* It is closed from the cursor on while every window is over or has not begun.
LEMMA ClosedAfterCursor ==
    ASSUME WindowsSorted, BoundsClearOfChange, WalkOK, NEW x \in Int,
           CursorTime <= x, Local(x) < Mark(day + 1, 0),
           \A j \in 1..Len(Windows(day)) : \/ Windows(day)[j][2] <= wall
                                           \/ Local(x) < Mark(day, Windows(day)[j][1])
    PROVE  ~Open(x)
  <1>1. /\ change \in Changes /\ DayLength \in Int /\ ArgumentsOK /\ CursorInv
        /\ day \in Nat /\ wall \in 0..DayLength /\ wall \in Int /\ fold \in {0, 1}
    BY ClockAssumption DEF WalkOK, ArgumentsOK
  <1>2. Local(x) \in Int /\ CursorTime \in Int
    BY <1>1, ClockConversions, CursorAmongBounds
  <1>3. ASSUME NEW w, Bound(day, w), w \in Int, w <= wall
        PROVE  Mark(day, w) <= Local(x)
    <2>1. Mark(day, w) <= Mark(day, wall) /\ Mark(day, w) \in Int
      <3>1. \A v, u \in Int : v <= u => Mark(day, v) <= Mark(day, u)
        BY <1>1, MarksOfDay
      <3>2. \A u \in Int : Mark(day, u) \in Int
        BY <1>1, MarksOfDay
      <3>3. QED BY <1>1, <1>3, <3>1, <3>2
    <2>2. Utc(day, w, 0) <= CursorTime /\ Utc(day, w, 0) \in Int
      BY <1>1, <1>3, <2>1, CursorAmongBounds
    <2>3. x < Utc(day, w, 0) <=> Local(x) < Mark(day, w)
      BY <1>1, <1>3, BeforeBound
    <2>4. QED BY <1>2, <2>1, <2>2, <2>3
  <1>4. Mark(day, 0) <= Local(x)
    BY <1>1, <1>3, MidnightIsBound
  <1>5. ASSUME NEW j \in 1..Len(Windows(day)),
               Windows(day)[j][1] <= Local(x) - Mark(day, 0),
               Local(x) - Mark(day, 0) < Windows(day)[j][2]
        PROVE  FALSE
    <2> DEFINE b == Windows(day)[j][1]
               e == Windows(day)[j][2]
    <2>1. b \in 0..DayLength /\ e \in 0..DayLength
      BY <1>1, WindowsOfDay
    <2>2. b \in Int /\ e \in Int
      BY <1>1, <2>1
    <2>3. Bound(day, e)
      BY <1>1, WindowIsBound
    <2>4. e <= wall \/ Local(x) < Mark(day, b)
      OBVIOUS
    <2>5. b <= Local(x) - Mark(day, 0) /\ Local(x) - Mark(day, 0) < e
      BY <1>5
    <2> HIDE DEF b, e
    <2>6. ~(Local(x) < Mark(day, b)) /\ Local(x) < Mark(day, e) /\ Mark(day, e) \in Int
      <3>1. /\ Mark(day, 0) \in Int /\ Mark(day, b) = Mark(day, 0) + b
            /\ Mark(day, e) = Mark(day, 0) + e
        BY <1>1, <2>2, MarksOfDay
      <3>2. QED BY <1>2, <2>2, <2>5, <3>1
    <2>7. Mark(day, e) <= Local(x)
      BY <1>3, <2>2, <2>3, <2>4, <2>6
    <2>8. QED BY <1>2, <2>6, <2>7
  <1>6. QED BY <1>1, <1>4, <1>5, OpenOnDay

\* The next window, when it is not over: closed until effective_start, then open.
LEMMA WindowAccrues ==
    ASSUME WindowsSorted, BoundsClearOfChange, WalkOK, window <= Len(Windows(day)),
           start <= CursorTime, ~Over(Windows(day)[window][2])
    PROVE  LET E == EffectiveStart(Windows(day)[window][1])
               Z == Utc(day, Windows(day)[window][2], 0)
           IN  /\ E \in Int /\ Z \in Int /\ start <= E /\ E <= Z
               /\ \A x \in E..Z - 1 : Open(x)
               /\ Accrued(start, CursorTime) \in Nat
               /\ \A y \in E..Z : Accrued(start, y) = Accrued(start, CursorTime) + (y - E)
  <1> DEFINE b == Windows(day)[window][1]
             e == Windows(day)[window][2]
             E == EffectiveStart(b)
             Z == Utc(day, e, 0)
             B == Utc(day, b, 0)
  <1>1. /\ change \in Changes /\ DayLength \in Int /\ ArgumentsOK /\ CursorInv
        /\ day \in Nat /\ wall \in 0..DayLength /\ wall \in Int /\ fold \in {0, 1}
        /\ window \in 1..Len(Windows(day))
    <2>1. ArgumentsOK /\ day \in Nat /\ window \in Nat \ {0}
      BY DEF WalkOK
    <2>2. Len(Windows(day)) \in Nat
      BY <2>1, WindowsOfDay
    <2>3. QED BY <2>1, <2>2, ClockAssumption DEF WalkOK, ArgumentsOK
  <1>2. /\ CursorTime \in Int /\ start \in Int
        /\ \A d, w : Bound(d, w) => 
              /\ Utc(d, w, 0) \in Int /\ Mark(d, w) \in Int
              /\ Mark(d, w) <= Mark(day, wall) => Utc(d, w, 0) <= CursorTime
              /\ Mark(day, wall) < Mark(d, w) => CursorTime <= Utc(d, w, 0)
    BY <1>1, CursorAmongBounds
  <1>3. b \in 0..DayLength /\ e \in 0..DayLength /\ b < e
    BY <1>1, WindowsOfDay
  <1>4. b \in Int /\ e \in Int
    BY <1>1, <1>3
  <1>5. Bound(day, b) /\ Bound(day, e)
    BY <1>1, WindowIsBound
  <1>6. B \in Int /\ Z \in Int
    BY <1>2, <1>5
  <1>7. wall < e
    BY <1>1, <1>4 DEF Over
  <1>8. E = IF wall >= b THEN CursorTime ELSE B
    BY DEF EffectiveStart, CursorTime
  <1>9. CursorTime <= Z
    <2> HIDE DEF e, Z
    <2>1. Mark(day, wall) < Mark(day, e)
      BY <1>1, <1>4, <1>7, MarksOfDay
    <2>2. QED BY <1>2, <1>5, <2>1 DEF Z
  <1>10. B <= Z
    <2>1. Mark(day, b) <= Local(B)
      <3>1. B < Utc(day, b, 0) <=> Local(B) < Mark(day, b)
        BY <1>1, <1>5, <1>6, BeforeBound
      <3>2. Local(B) \in Int /\ Mark(day, b) \in Int
        BY <1>1, <1>2, <1>5, <1>6, ClockConversions
      <3> HIDE DEF b, B
      <3>3. QED BY <1>6, <3>1, <3>2 DEF B
    <2>2. Z < Utc(day, b, 0) <=> Local(Z) < Mark(day, b)
      BY <1>1, <1>5, <1>6, BeforeBound
    <2>3. Z < Utc(day, e, 0) <=> Local(Z) < Mark(day, e)
      BY <1>1, <1>5, <1>6, BeforeBound
    <2>4. Local(Z) \in Int /\ Mark(day, b) < Mark(day, e) /\ Mark(day, b) \in Int
          /\ Mark(day, e) \in Int
      <3>1. Local(Z) \in Int
        BY <1>1, <1>6, ClockConversions
      <3> HIDE DEF b, e, Z
      <3>2. Mark(day, b) \in Int /\ Mark(day, e) \in Int
        BY <1>1, <1>4, MarksOfDay
      <3>3. Mark(day, b) < Mark(day, e)
        BY <1>1, <1>3, <1>4, MarksOfDay
      <3>4. QED BY <3>1, <3>2, <3>3
    <2> HIDE DEF b, e
    <2>5. QED BY <1>6, <2>2, <2>3, <2>4
  <1>11. E \in Int /\ CursorTime <= E /\ E <= Z
    <2>1. CASE wall >= b
      BY <1>2, <1>8, <1>9, <2>1
    <2>2. CASE wall < b
      <3>1. Mark(day, wall) < Mark(day, b)
        <4> HIDE DEF b
        <4>1. QED BY <1>1, <1>4, <2>2, MarksOfDay
      <3>2. CursorTime <= B
        BY <1>2, <1>5, <3>1
      <3>3. E = B
        <4> HIDE DEF b, B, E
        <4>1. QED BY <1>1, <1>4, <1>8, <2>2
      <3>4. QED BY <1>6, <1>10, <3>2, <3>3
    <2> HIDE DEF b
    <2>3. QED BY <1>1, <1>4, <2>1, <2>2
  <1>12. ASSUME NEW x \in E..Z - 1
         PROVE  Open(x)
    <2>1. x \in Int /\ E <= x /\ x < Z
      <3> HIDE DEF E, Z
      <3>1. QED BY <1>6, <1>11
    <2>2. B <= E
      <3>1. CASE wall >= b
        <4>1. Mark(day, b) <= Mark(day, wall)
          <5> HIDE DEF b
          <5>1. b <= wall
            BY <1>1, <1>4, <3>1
          <5>2. QED BY <1>1, <1>4, <5>1, MarksOfDay
        <4>2. B <= CursorTime
          BY <1>2, <1>5, <4>1
        <4>3. QED BY <1>8, <3>1, <4>2
      <3>2. CASE ~(wall >= b)
        <4> HIDE DEF b, B, E
        <4>1. QED BY <1>6, <1>8, <3>2
      <3>3. QED BY <3>1, <3>2
    <2>3. B <= x
      <3> HIDE DEF B, E
      <3>1. QED BY <1>6, <1>11, <2>1, <2>2
    <2>4. QED BY <1>1, <2>1, <2>3, OpenInWindow
  <1>13. ASSUME NEW x \in CursorTime..E - 1
         PROVE  ~Open(x)
    <2>1. x \in Int /\ CursorTime <= x /\ x < E
      <3> HIDE DEF E
      <3>1. QED BY <1>2, <1>11
    <2>2. E = B
      <3> HIDE DEF E, b, B
      <3>1. QED BY <1>2, <1>8, <2>1
    <2>3. Local(x) < Mark(day, b)
      <3>1. x < Utc(day, b, 0) <=> Local(x) < Mark(day, b)
        BY <1>1, <1>5, <2>1, BeforeBound
      <3>2. QED BY <2>1, <2>2, <3>1
    <2>4. Local(x) \in Int
      BY <1>1, <2>1, ClockConversions
    <2>5. Local(x) < Mark(day + 1, 0)
      <3>1. b <= DayLength
        <4> HIDE DEF b
        <4>1. QED BY <1>1, <1>3
      <3> HIDE DEF b
      <3>2. /\ Mark(day, 0) \in Int /\ Mark(day, b) = Mark(day, 0) + b
            /\ Mark(day + 1, 0) = Mark(day, 0) + DayLength
        BY <1>1, <1>4, MarksOfDay
      <3>3. QED BY <1>1, <1>4, <2>3, <2>4, <3>1, <3>2
    <2>6. ASSUME NEW j \in 1..Len(Windows(day))
          PROVE  Windows(day)[j][2] <= wall \/ Local(x) < Mark(day, Windows(day)[j][1])
      <3>1. j \in Int /\ window \in Int
        BY <1>1
      <3>2. CASE j < window
        BY <3>2 DEF WalkOK, PassedInv
      <3>3. CASE j = window
        BY <2>3, <3>3
      <3>4. CASE window < j
        <4> DEFINE bj == Windows(day)[j][1]
        <4>1. e <= bj /\ bj \in 0..DayLength
          BY <1>1, <3>4, WindowsOfDay
        <4>2. bj \in Int
          BY <1>1, <4>1
        <4> HIDE DEF b, e, bj
        <4>3. Local(x) < Mark(day, bj)
          <5>1. /\ Mark(day, 0) \in Int /\ Mark(day, b) = Mark(day, 0) + b
                /\ Mark(day, bj) = Mark(day, 0) + bj
            BY <1>1, <1>4, <4>2, MarksOfDay
          <5>2. QED BY <1>3, <1>4, <2>3, <2>4, <4>1, <4>2, <5>1
        <4>4. QED BY <4>3 DEF bj
      <3>5. QED BY <3>1, <3>2, <3>3, <3>4
    <2>7. QED BY <2>1, <2>5, <2>6, ClosedAfterCursor
  <1>14. ASSUME NEW y \in E..Z
         PROVE  Accrued(start, y) = Accrued(start, CursorTime) + (y - E)
    <2>1. y \in Int /\ E <= y /\ y <= Z
      <3> HIDE DEF E, Z
      <3>1. QED BY <1>6, <1>11
    <2>2. \A x \in E..y - 1 : Open(x)
      <3>1. \A x \in E..y - 1 : x \in E..Z - 1
        <4> HIDE DEF E, Z
        <4>1. QED BY <1>6, <1>11, <2>1
      <3> HIDE DEF E, Z
      <3>2. QED BY <1>12, <3>1
    <2> HIDE DEF E, Z, B, b, e
    <2>3. Accrued(E, y) = y - E
      BY <1>11, <2>1, <2>2, AccruedOpen
    <2>4. Accrued(CursorTime, E) = 0
      BY <1>2, <1>11, <1>13, AccruedClosed
    <2>5. start <= E
      BY <1>2, <1>11
    <2>6. /\ Accrued(start, E) = Accrued(start, CursorTime) + Accrued(CursorTime, E)
          /\ Accrued(start, CursorTime) \in Nat
      BY <1>2, <1>11, AccruedAdds
    <2>7. Accrued(start, y) = Accrued(start, E) + Accrued(E, y)
      BY <1>2, <1>11, <2>1, <2>5, AccruedAdds
    <2>8. QED BY <1>11, <2>1, <2>3, <2>4, <2>6, <2>7
  <1>15. start <= E /\ Accrued(start, CursorTime) \in Nat
    <2>1. CursorTime <= CursorTime
      BY <1>2
    <2>2. start <= CursorTime
      OBVIOUS
    <2>3. Accrued(start, CursorTime) \in Nat
      BY <1>2, <2>1, <2>2, AccruedAdds
    <2> HIDE DEF E
    <2>4. QED BY <1>2, <1>11, <2>2, <2>3
  <1> HIDE DEF E, Z
  <1>16. QED BY <1>6, <1>11, <1>12, <1>14, <1>15 DEF E, Z

\* No window is left on the day: closed until midnight.
LEMMA ClosedToMidnight ==
    ASSUME WindowsSorted, BoundsClearOfChange, WalkOK, window > Len(Windows(day)),
           start <= CursorTime
    PROVE  /\ Utc(day + 1, 0, 0) \in Int /\ CursorTime <= Utc(day + 1, 0, 0)
           /\ Accrued(start, Utc(day + 1, 0, 0)) = Accrued(start, CursorTime)
  <1> DEFINE M == Utc(day + 1, 0, 0)
  <1>1. /\ change \in Changes /\ ArgumentsOK /\ CursorInv /\ day \in Nat /\ day + 1 \in Nat
        /\ wall \in 0..DayLength /\ fold \in {0, 1} /\ window \in Nat \ {0}
    BY DEF WalkOK, ArgumentsOK
  <1>2. Bound(day + 1, 0)
    BY <1>1, MidnightIsBound
  <1>3. CursorTime \in Int /\ start \in Int /\ M \in Int /\ CursorTime <= M
    BY <1>1, <1>2, CursorAmongBounds
  <1>4. ASSUME NEW x \in CursorTime..M - 1
        PROVE  ~Open(x)
    <2>1. x \in Int /\ CursorTime <= x /\ x < M
      <3> HIDE DEF M
      <3>1. QED BY <1>3
    <2>2. Local(x) < Mark(day + 1, 0)
      BY <1>1, <1>2, <2>1, BeforeBound
    <2>3. Len(Windows(day)) \in Nat
      BY <1>1, WindowsOfDay
    <2>4. \A j \in 1..Len(Windows(day)) : j < window
      BY <1>1, <2>3
    <2>5. \A j \in 1..Len(Windows(day)) : Windows(day)[j][2] <= wall
      BY <2>4 DEF WalkOK, PassedInv
    <2>6. QED BY <2>1, <2>2, <2>5, ClosedAfterCursor
  <1> HIDE DEF M
  <1>5. Accrued(CursorTime, M) = 0
    BY <1>3, <1>4, AccruedClosed
  <1>6. /\ Accrued(start, M) = Accrued(start, CursorTime) + Accrued(CursorTime, M)
        /\ Accrued(start, CursorTime) \in Nat
    BY <1>3, AccruedAdds
  <1>7. QED BY <1>3, <1>5, <1>6 DEF M


-----------------------------------------------------------------------------

\* The conversions and the opening hours do not change during a walk.
LEMMA ArgumentsStay ==
    ASSUME UNCHANGED arguments
    PROVE  /\ ArgumentsOK <=> ArgumentsOK'
           /\ \A d : Windows(d)' = Windows(d)
           /\ \A d, w : Bound(d, w)' <=> Bound(d, w)
           /\ \A x : Local(x)' = Local(x)
           /\ \A x : Open(x)' <=> Open(x)
           /\ \A a, b : Accrued(a, b)' = Accrued(a, b)
           /\ \A d, w, f : Utc(d, w, f)' = Utc(d, w, f)
  <1>1. /\ schedule' = schedule /\ change' = change /\ respects' = respects
        /\ start' = start /\ sla' = sla
    BY DEF arguments
  <1>2. \A d : Windows(d)' = Windows(d)
    BY <1>1 DEF Windows
  <1>3. ArgumentsOK <=> ArgumentsOK'
    BY <1>1 DEF ArgumentsOK, Accepted
  <1>4. \A d, w : Bound(d, w)' <=> Bound(d, w)
    BY <1>1 DEF Bound, Inside
  <1>5. \A x : Local(x)' = Local(x)
    BY <1>1 DEF Local, ChangeInstant
  <1>6. \A x : Open(x)' <=> Open(x)
    BY <1>1, <1>5, <1>2 DEF Open, LocalDay, LocalWall
  <1>7. \A a, b : Accrued(a, b)' = Accrued(a, b)
    BY <1>6 DEF Accrued
  <1>8. \A d, w, f : Utc(d, w, f)' = Utc(d, w, f)
    BY <1>1 DEF Utc, AfterChange
  <1>9. QED BY <1>2, <1>3, <1>4, <1>5, <1>6, <1>7, <1>8


LEMMA ClockInitially ==
    ASSUME WindowsSorted, BoundsClearOfChange, ClockInit
    PROVE  ClockInv
  <1>1. ArgumentsOK
    BY DEF ClockInit, ArgumentsOK
  <1>2. /\ change \in Changes /\ start \in Nat /\ sla \in Nat \ {0} /\ start \in Int
        /\ DayLength \in Nat \ {0} /\ MaxWalkDays \in Nat \ {0}
    BY <1>1, ClockAssumption DEF ArgumentsOK
  <1>3. day = LocalDay(start) /\ wall = LocalWall(start) /\ fold = LocalFold(start)
        /\ window = 1 /\ walked = 0 /\ remaining = sla /\ outcome = "walking" /\ dueAt = 0
    BY DEF ClockInit
  <1>4. CursorTime = start /\ day \in Nat /\ fold \in {0, 1}
    BY <1>2, <1>3, ThereAndBack DEF CursorTime
  <1>5. Local(start) = Mark(day, wall) /\ wall \in 0..DayLength - 1
    BY <1>2, <1>3, ClockConversions
  <1>6. ClockTypeOK
    BY <1>2, <1>3, <1>4, <1>5 DEF ClockTypeOK
  <1>7. CursorInv
    BY <1>2, <1>4, <1>5 DEF CursorInv
  <1>8. PassedInv
    <2>1. Len(Windows(day)) \in Nat
      BY <1>1, <1>4, WindowsOfDay
    <2>2. \A j \in 1..Len(Windows(day)) : ~(j < window)
      BY <1>3, <2>1
    <2>3. QED BY <2>2 DEF PassedInv
  <1>9. Accrued(start, CursorTime) = 0
    <2>1. \A x \in start..start - 1 : ~Open(x)
      BY <1>2
    <2>2. QED BY <1>2, <1>4, <2>1, AccruedClosed
  <1>10. NothingLostOnTheWay /\ DueIsExact
    BY <1>2, <1>3, <1>9 DEF NothingLostOnTheWay, DueIsExact, CursorTime
  <1>11. start <= CursorTime
    BY <1>2, <1>4
  <1>12. QED BY <1>1, <1>6, <1>7, <1>8, <1>10, <1>11 DEF ClockInv

LEMMA ClockStep ==
    ASSUME WindowsSorted, BoundsClearOfChange, ClockInv, [ClockNext]_clockVars
    PROVE  ClockInv'
  <1>1. /\ ArgumentsOK /\ ClockTypeOK /\ CursorInv /\ PassedInv /\ start <= CursorTime
        /\ NothingLostOnTheWay /\ DueIsExact
    BY DEF ClockInv
  <1>2. /\ day \in Nat /\ wall \in 0..DayLength /\ fold \in {0, 1} /\ window \in Nat \ {0}
        /\ walked \in 0..MaxWalkDays /\ remaining \in 1..sla /\ dueAt \in Nat
        /\ outcome \in {"walking", "due", "exhausted"}
    BY <1>1 DEF ClockTypeOK
  <1>3. /\ change \in Changes /\ start \in Nat /\ sla \in Nat \ {0} /\ start \in Int
        /\ DayLength \in Nat \ {0} /\ MaxWalkDays \in Nat \ {0}
    BY <1>1, ClockAssumption DEF ArgumentsOK
  <1>4. WalkOK
    BY <1>1, <1>2 DEF WalkOK
  <1>5. UNCHANGED arguments
    BY DEF ClockNext, Continuous, WalkWindow, NextDay, Exhaust, arguments, clockVars
  <1>6. schedule' = schedule /\ change' = change /\ respects' = respects
        /\ start' = start /\ sla' = sla
    BY <1>5 DEF arguments
  <1>7. ArgumentsOK'
    BY <1>1, <1>5, ArgumentsStay
  <1>8. CursorTime \in Int
    BY <1>1, <1>2, CursorAmongBounds
  <1>9. ASSUME UNCHANGED <<day, wall, fold>>
        PROVE  CursorInv' /\ CursorTime' = CursorTime
    <2>1. CursorTime' = CursorTime
      BY <1>5, <1>9, ArgumentsStay DEF CursorTime
    <2>2. /\ (Bound(day, wall) <=> Bound(day, wall)') /\ Local(start)' = Local(start)
          /\ Mark(day, wall)' = Mark(day, wall)
      BY <1>5, <1>6, <1>9, ArgumentsStay DEF Mark
    <2>3. QED BY <1>1, <1>6, <1>9, <2>1, <2>2 DEF CursorInv
  <1>10. ASSUME UNCHANGED <<day, wall, window>>
         PROVE  PassedInv'
    <2>1. Windows(day)' = Windows(day)
      BY <1>5, <1>10, ArgumentsStay
    <2>2. QED BY <1>1, <1>10, <2>1 DEF PassedInv
  <1>11. ASSUME ~respects
         PROVE  NothingLostOnTheWay' /\ DueIsExact'
    BY <1>6, <1>11 DEF NothingLostOnTheWay, DueIsExact
  <1>12. ASSUME outcome' = "walking",
                respects => remaining' + Accrued(start, CursorTime') = sla
         PROVE  NothingLostOnTheWay' /\ DueIsExact'
    <2>1. Accrued(start, CursorTime)' = Accrued(start, CursorTime')
      BY <1>5, <1>6, ArgumentsStay
    <2>2. QED BY <1>6, <1>12, <2>1 DEF NothingLostOnTheWay, DueIsExact, CursorTime
  <1>13. CASE Continuous
    <2>1. /\ ~respects /\ outcome' = "due" /\ dueAt' = start + sla
          /\ UNCHANGED <<day, wall, fold, window, walked, remaining>>
      BY <1>13 DEF Continuous
    <2>2. ClockTypeOK'
      BY <1>2, <1>3, <1>6, <2>1 DEF ClockTypeOK
    <2>3. QED BY <1>1, <1>6, <1>7, <1>9, <1>10, <1>11, <2>1, <2>2 DEF ClockInv
  <1>14. CASE WalkWindow
    <2> DEFINE b == Windows(day)[window][1]
               e == Windows(day)[window][2]
               E == EffectiveStart(b)
               Z == Utc(day, e, 0)
    <2>1. /\ outcome = "walking" /\ respects /\ window <= Len(Windows(day))
          /\ UNCHANGED <<day, walked>>
      BY <1>14 DEF WalkWindow
    <2>2. remaining + Accrued(start, CursorTime) = sla
      BY <1>1, <2>1 DEF NothingLostOnTheWay, CursorTime
    <2>3. Len(Windows(day)) \in Nat /\ window \in 1..Len(Windows(day))
          /\ Windows(day)' = Windows(day)
      <3>1. Len(Windows(day)) \in Nat
        BY <1>1, <1>2, WindowsOfDay
      <3>2. Windows(day)' = Windows(day)
        BY <1>5, <2>1, ArgumentsStay
      <3>3. QED BY <1>2, <2>1, <3>1, <3>2
    <2>4. b \in 0..DayLength /\ e \in 0..DayLength /\ b < e
      BY <1>1, <1>2, <2>3, WindowsOfDay
    <2>5. b \in Int /\ e \in Int /\ wall \in Int
      BY <1>2, <1>3, <2>4
    <2>6. ~Over(e) => /\ E \in Int /\ Z \in Int /\ start <= E /\ E <= Z
                      /\ \A x \in E..Z - 1 : Open(x)
                      /\ Accrued(start, CursorTime) \in Nat
                      /\ \A y \in E..Z : Accrued(start, y) = Accrued(start, CursorTime) + (y - E)
      BY <1>1, <1>4, <2>1, WindowAccrues
    <2>7. CASE Over(e) /\ window' = window + 1
               /\ UNCHANGED <<wall, fold, remaining, outcome, dueAt>>
      <3>1. ClockTypeOK'
        BY <1>2, <1>3, <1>6, <2>1, <2>7 DEF ClockTypeOK
      <3>2. CursorInv' /\ CursorTime' = CursorTime
        BY <1>9, <2>1, <2>7
      <3>3. PassedInv'
        <4>1. ASSUME NEW j \in 1..Len(Windows(day)), j < window + 1
              PROVE  Windows(day)[j][2] <= wall
          <5>1. j < window \/ j = window
            BY <1>2, <2>3, <4>1
          <5>2. CASE j < window
            BY <1>1, <5>2 DEF PassedInv
          <5>3. CASE j = window
            <6>1. e <= wall
              <7> HIDE DEF e
              <7>1. QED BY <2>5, <2>7 DEF Over
            <6>2. QED BY <5>3, <6>1
          <5>4. QED BY <5>1, <5>2, <5>3
        <4>2. QED BY <2>1, <2>3, <2>7, <4>1 DEF PassedInv
      <3>4. NothingLostOnTheWay' /\ DueIsExact'
        BY <1>12, <2>1, <2>2, <2>7, <3>2
      <3>5. QED BY <1>1, <1>6, <1>7, <3>1, <3>2, <3>3, <3>4 DEF ClockInv
    <2>8. CASE /\ ~Over(e) /\ remaining <= Z - E /\ outcome' = "due" /\ dueAt' = E + remaining
               /\ UNCHANGED <<wall, fold, window, remaining>>
      <3> DEFINE y == E + remaining
      <3> HIDE DEF e, b, E, Z
      <3>1. y \in Nat /\ y \in E..Z /\ y - 1 \in E..Z - 1
        BY <1>2, <1>3, <2>6, <2>8
      <3>2. Accrued(start, y) = Accrued(start, CursorTime) + (y - E)
        BY <2>6, <2>8, <3>1
      <3>3. y - E = remaining /\ remaining \in Int
        BY <1>2, <1>3, <2>6, <2>8
      <3>4. Accrued(start, y) = sla
        BY <2>2, <2>6, <2>8, <3>2, <3>3
      <3>5. Open(y - 1)
        BY <2>6, <2>8, <3>1
      <3> HIDE DEF y
      <3>6. dueAt' = y
        BY <2>8 DEF y
      <3>7. Accrued(start, dueAt)' = Accrued(start, y) /\ (Open(dueAt - 1)' <=> Open(y - 1))
        BY <1>5, <1>6, <3>6, ArgumentsStay
      <3>8. NothingLostOnTheWay' /\ DueIsExact'
        BY <1>6, <2>8, <3>4, <3>5, <3>7 DEF NothingLostOnTheWay, DueIsExact
      <3>9. ClockTypeOK'
        BY <1>2, <1>3, <1>6, <2>1, <2>8, <3>1, <3>6 DEF ClockTypeOK
      <3>10. QED BY <1>1, <1>6, <1>7, <1>9, <1>10, <2>1, <2>8, <3>8, <3>9 DEF ClockInv
    <2>9. CASE /\ ~Over(e) /\ ~(remaining <= Z - E) /\ remaining' = remaining - (Z - E)
               /\ wall' = e /\ fold' = 0 /\ window' = window + 1
               /\ UNCHANGED <<outcome, dueAt>>
      <3>1. Bound(day, e)
        BY <1>1, <1>2, <2>3, WindowIsBound
      <3>2. CursorTime' = Z
        BY <1>6, <2>1, <2>9 DEF CursorTime, Utc, AfterChange
      <3>3. CursorInv'
        <4> HIDE DEF e
        <4>1. Bound(day, wall)'
          BY <1>6, <2>1, <2>9, <3>1 DEF Bound
        <4>2. QED BY <2>9, <4>1 DEF CursorInv
      <3>4. PassedInv'
        <4>1. ASSUME NEW j \in 1..Len(Windows(day)), j < window + 1
              PROVE  Windows(day)[j][2] <= e
          <5>1. j < window \/ j = window
            BY <1>2, <2>3, <4>1
          <5>2. CASE j < window
            <6> DEFINE f == Windows(day)[j][2]
            <6>1. f <= b /\ f \in 0..DayLength
              BY <1>1, <1>2, <2>3, <5>2, WindowsOfDay
            <6> HIDE DEF f, b, e
            <6>2. f \in Int
              BY <1>3, <6>1
            <6>3. f <= e
              BY <2>4, <2>5, <6>1, <6>2
            <6>4. QED BY <6>3 DEF f
          <5>3. CASE j = window
            <6>1. e <= e
              <7> HIDE DEF e
              <7>1. QED BY <2>5
            <6>2. QED BY <5>3, <6>1
          <5>4. QED BY <5>1, <5>2, <5>3
        <4> HIDE DEF e
        <4>2. QED BY <2>1, <2>3, <2>9, <4>1 DEF PassedInv
      <3> HIDE DEF b, e, E, Z
      <3>5. remaining' \in 1..sla
        BY <1>2, <1>3, <2>6, <2>9
      <3>6. ClockTypeOK'
        BY <1>2, <1>3, <1>6, <2>1, <2>4, <2>9, <3>5 DEF ClockTypeOK
      <3>7. remaining' + Accrued(start, Z) = sla
        <4>1. Z \in E..Z
          BY <2>6, <2>9
        <4>2. Accrued(start, Z) = Accrued(start, CursorTime) + (Z - E)
          BY <2>6, <2>9, <4>1
        <4>3. remaining \in Int /\ sla \in Int
          BY <1>2, <1>3
        <4>4. QED BY <2>2, <2>6, <2>9, <4>2, <4>3
      <3>8. NothingLostOnTheWay' /\ DueIsExact'
        BY <1>12, <2>1, <2>9, <3>2, <3>7
      <3>9. start' <= CursorTime'
        BY <1>3, <1>6, <2>6, <2>9, <3>2
      <3>10. QED BY <1>7, <3>3, <3>4, <3>6, <3>8, <3>9 DEF ClockInv
    <2>10. QED
      BY <1>14, <2>7, <2>8, <2>9 DEF WalkWindow, Fits, Available
  <1>15. CASE NextDay
    <2>1. /\ outcome = "walking" /\ respects /\ walked < MaxWalkDays
          /\ window > Len(Windows(day)) /\ day' = day + 1 /\ wall' = 0 /\ fold' = 0
          /\ window' = 1 /\ walked' = walked + 1 /\ UNCHANGED <<remaining, outcome, dueAt>>
      BY <1>15 DEF NextDay
    <2>2. remaining + Accrued(start, CursorTime) = sla
      BY <1>1, <2>1 DEF NothingLostOnTheWay, CursorTime
    <2>3. /\ Utc(day + 1, 0, 0) \in Int /\ CursorTime <= Utc(day + 1, 0, 0)
          /\ Accrued(start, Utc(day + 1, 0, 0)) = Accrued(start, CursorTime)
      BY <1>1, <1>4, <2>1, ClosedToMidnight
    <2>4. CursorTime' = Utc(day + 1, 0, 0)
      BY <1>6, <2>1 DEF CursorTime, Utc, AfterChange
    <2>5. ClockTypeOK'
      BY <1>2, <1>3, <1>6, <2>1 DEF ClockTypeOK
    <2>6. CursorInv'
      <3>1. Bound(day + 1, 0)
        BY <1>2, <1>3, MidnightIsBound
      <3>2. Bound(day, wall)'
        BY <1>6, <2>1, <3>1 DEF Bound
      <3>3. QED BY <2>1, <3>2 DEF CursorInv
    <2>7. PassedInv'
      <3>1. day + 1 \in Nat
        BY <1>2
      <3>2. Len(Windows(day + 1)) \in Nat
        BY <1>1, <3>1, WindowsOfDay
      <3>3. Windows(day)' = Windows(day + 1)
        BY <1>6, <2>1 DEF Windows
      <3>4. \A j \in 1..Len(Windows(day + 1)) : ~(j < 1)
        BY <3>2
      <3>5. QED BY <2>1, <3>3, <3>4 DEF PassedInv
    <2>8. NothingLostOnTheWay' /\ DueIsExact'
      BY <1>12, <2>1, <2>2, <2>3, <2>4
    <2>9. start' <= CursorTime'
      BY <1>1, <1>3, <1>6, <1>8, <2>3, <2>4
    <2>10. QED BY <1>7, <2>5, <2>6, <2>7, <2>8, <2>9 DEF ClockInv
  <1>16. CASE Exhaust
    <2>1. outcome' = "exhausted"
          /\ UNCHANGED <<day, wall, fold, window, walked, remaining, dueAt>>
      BY <1>16 DEF Exhaust
    <2>2. ClockTypeOK'
      BY <1>2, <1>6, <2>1 DEF ClockTypeOK
    <2>3. NothingLostOnTheWay' /\ DueIsExact'
      BY <2>1 DEF NothingLostOnTheWay, DueIsExact
    <2>4. QED BY <1>1, <1>6, <1>7, <1>9, <1>10, <2>1, <2>2, <2>3 DEF ClockInv
  <1>17. CASE UNCHANGED clockVars
    <2>1. UNCHANGED <<day, wall, fold, window, walked, remaining, outcome, dueAt>>
      BY <1>17 DEF clockVars
    <2>2. ClockTypeOK'
      BY <1>2, <1>6, <2>1 DEF ClockTypeOK
    <2>3. CursorInv' /\ CursorTime' = CursorTime
      BY <1>9, <2>1
    <2>4. NothingLostOnTheWay'
      <3>1. Accrued(start, CursorTime)' = Accrued(start, CursorTime)
        BY <1>5, <1>6, <2>3, ArgumentsStay
      <3>2. QED BY <1>1, <1>6, <2>1, <3>1 DEF NothingLostOnTheWay, CursorTime
    <2>5. DueIsExact'
      <3>1. Accrued(start, dueAt)' = Accrued(start, dueAt)
        BY <1>5, <1>6, <2>1, ArgumentsStay
      <3>2. Open(dueAt - 1)' <=> Open(dueAt - 1)
        BY <1>5, <2>1, ArgumentsStay
      <3>3. QED BY <1>1, <1>6, <2>1, <3>1, <3>2 DEF DueIsExact
    <2>6. QED BY <1>1, <1>6, <1>7, <1>10, <2>1, <2>2, <2>3, <2>4, <2>5 DEF ClockInv
  <1>18. QED BY <1>13, <1>14, <1>15, <1>16, <1>17 DEF ClockNext

\* The inductive invariant of the walk.
THEOREM ClockInvariant ==
    ASSUME WindowsSorted, BoundsClearOfChange
    PROVE  ClockSpec => []ClockInv
  <1>1. ClockInit => ClockInv
    BY ClockInitially
  <1>2. ClockInv /\ [ClockNext]_clockVars => ClockInv'
    BY ClockStep
  <1>3. QED BY <1>1, <1>2, PTL DEF ClockSpec

\* The variables keep their types, and the cursor is a time of its day.
THEOREM ClockTypes ==
    ASSUME WindowsSorted, BoundsClearOfChange
    PROVE  ClockSpec => []ClockTypeOK
  <1>1. ClockInv => ClockTypeOK
    BY DEF ClockInv
  <1>2. QED BY <1>1, ClockInvariant, PTL

\* At every step of the walk, what is left to accrue and the open time since
\* from_timestamp make up sla_hours: no window is counted twice, skipped, or measured
\* by its wall clock when the clock changes inside it.
THEOREM NothingIsLostOnTheWay ==
    ASSUME WindowsSorted, BoundsClearOfChange
    PROVE  ClockSpec => []NothingLostOnTheWay
  <1>1. ClockInv => NothingLostOnTheWay
    BY DEF ClockInv
  <1>2. QED BY <1>1, ClockInvariant, PTL

\* compute_sla_due_at returns the first instant at which the organization has been open
\* for sla_hours of real time.
THEOREM DueInstantsAreExact ==
    ASSUME WindowsSorted, BoundsClearOfChange
    PROVE  ClockSpec => []DueIsExact
  <1>1. ClockInv => DueIsExact
    BY DEF ClockInv
  <1>2. QED BY <1>1, ClockInvariant, PTL

=============================================================================
