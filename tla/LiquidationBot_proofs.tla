------------------------ MODULE LiquidationBot_proofs -------------------------
(***************************************************************************)
(* Theorems about LiquidationBot, for any users, events, page limits,      *)
(* failures and restarts: what its index of positions can be relied on for.*)
(***************************************************************************)
EXTENDS LiquidationBot, ArithmeticTheorems

\* Events come in the order of their ledgers, and nothing the bot has asked for is
\* newer than the last closed one.
Chronology ==
  /\ \A i, j \in DOMAIN events : i <= j => events[i].ledger <= events[j].ledger
  /\ \A i \in DOMAIN events : events[i].ledger <= ledger
  /\ \A i \in response : events[i].ledger < ledger
  /\ latest < ledger
  /\ lastSeen # None => lastSeen < ledger

\* The scan will still come to an event of the user: it is in the page at hand, or
\* later than it and than the last ledger seen.
Pending(u) ==
  \E i \in DOMAIN events :
    /\ events[i].user = u /\ i \notin seen
    /\ \/ i \in response
       \/ /\ lastSeen # None => lastSeen < events[i].ledger
          /\ \A k \in response : events[k].ledger < events[i].ledger

\* A user with an event that the scanner began before is indexed as the vault has
\* them, or is still to be read, or was passed over.
Progress ==
  \A u \in User :
    /\ u \notin missed
    /\ lastSeen # None \/ pc = "position"
    /\ \E i \in DOMAIN events : events[i].user = u /\ events[i].ledger >= firstLedger
    => Indexed(u) \/ Pending(u)

Inv ==
  /\ TypeOK
  /\ Chronology
  /\ lastSeen # None \/ pc = "position" => firstLedger # None
  /\ lastSeen = None => \A i \in seen : events[i].user \in missed
  /\ pc = "wait" => submitted < MaxLiquidationsPerRun
  /\ Progress

-------------------------------------------------------------------------------
(* What a step leaves alone *)

LEMMA NoneIsApart ==
  /\ None \notin Nat /\ None \notin Asset /\ None \notin Transaction
BY BotAssumption

\* A step of the iteration that touches neither the scanner nor the page
LEMMA QuietStep ==
  ASSUME Inv, TypeOK',
         UNCHANGED <<ledger, vault, positions, seen, lastSeen, history, response>>,
         pc = "position" <=> pc' = "position",
         latest' < ledger,
         pc' = "wait" => submitted' < MaxLiquidationsPerRun
  PROVE  Inv'
<1> USE DEF vault, history
<1>1. Chronology'
  BY DEF Inv, Chronology
<1>2. ASSUME NEW u \in User
      PROVE  (Indexed(u)' <=> Indexed(u)) /\ (Pending(u)' <=> Pending(u))
  BY DEF Indexed, Pending
<1>3. Progress'
  <2> SUFFICES ASSUME NEW u \in User, u \notin missed',
                      lastSeen' # None \/ pc' = "position",
                      \E i \in DOMAIN events' :
                        events'[i].user = u /\ events'[i].ledger >= firstLedger'
               PROVE  Indexed(u)' \/ Pending(u)'
    BY DEF Progress
  <2>1. Indexed(u) \/ Pending(u)
    BY DEF Inv, Progress
  <2> QED
    BY <1>2, <2>1
<1> QED
  BY <1>1, <1>3 DEF Inv

\* The iteration is over; the scanner remembers what it did.
LEMMA EndIterationStep ==
  ASSUME Inv, EndIteration, pc \notin {"position", "wait"},
         WorldStays, UNCHANGED <<scanner, history>>,
         disturbed' \in 0 .. MaxDisturbances
  PROVE  Inv'
<1> USE DEF EndIteration, WorldStays, vault, market, scanner, history
<1>1. TypeOK /\ 0 < ledger /\ response = {}
  BY DEF Inv, TypeOK
<1>2. TypeOK'
  BY <1>1 DEF TypeOK
<1> QED
  BY <1>1, <1>2, QuietStep

-------------------------------------------------------------------------------
(* The iteration: calls that leave the scanner alone *)

LEMMA CallFailsStep == ASSUME Inv, CallFails PROVE Inv'
<1>1. disturbed' \in 0 .. MaxDisturbances
  BY BotAssumption DEF CallFails, Disturb, Inv, TypeOK
<1> QED
  BY <1>1, EndIterationStep DEF CallFails

LEMMA WakeStep == ASSUME Inv, Wake \/ LatestLedger PROVE Inv'
<1> USE DEF Calls, WorldStays, vault, market, scanner, history
<1>1. TypeOK
  BY DEF Inv
<1>2. CASE Wake
  <2>1. TypeOK'
    BY <1>1, <1>2, BotAssumption DEF Wake, TypeOK
  <2> QED
    BY <1>2, <2>1, QuietStep DEF Wake, Inv, Chronology
<1>3. CASE LatestLedger
  <2>1. latest' \in Nat /\ latest' < ledger
    BY <1>1, <1>3 DEF LatestLedger, TypeOK
  <2>2. TypeOK'
    BY <1>1, <1>3, <2>1 DEF LatestLedger, TypeOK
  <2> QED
    BY <1>3, <2>1, <2>2, QuietStep DEF LatestLedger
<1> QED
  BY <1>2, <1>3

LEMMA EvaluateStep ==
  ASSUME Inv,
         \/ ReadPoolConfig
         \/ \E t \in todo : Assess(t) \/ AssessRefused(t)
  PROVE  Inv'
<1> USE DEF Calls, WorldStays, vault, market, scanner, history
<1>1. TypeOK /\ latest < ledger
  BY DEF Inv, Chronology
<1>2. CASE ReadPoolConfig
  <2>1. TypeOK'
    BY <1>1, <1>2 DEF ReadPoolConfig, TypeOK
  <2> QED
    BY <1>1, <1>2, <2>1, QuietStep DEF ReadPoolConfig
<1>3. ASSUME NEW t \in todo, Assess(t)
      PROVE  Inv'
  <2>1. t \in TrackedPosition /\ t.user \in User
    BY <1>1 DEF TypeOK, TrackedPosition
  <2>2. HealthFactor(t.user) \in Nat
    <3>1. health[t.user] \in Health /\ Health \subseteq Nat /\ HealthOne + 1 \in Nat
      BY <1>1, <2>1, BotAssumption DEF TypeOK
    <3>2. health[t.user] \in Nat
      BY <3>1
    <3> QED
      BY <3>1, <3>2 DEF HealthFactor
  <2>3. [tracked |-> t, health |-> HealthFactor(t.user)] \in HealthAssessment
    BY <2>1, <2>2 DEF HealthAssessment
  <2>4. candidates' \subseteq HealthAssessment
    BY <1>1, <1>3, <2>3 DEF Assess, TypeOK
  <2>5. TypeOK'
    BY <1>1, <1>3, <2>4 DEF Assess, TypeOK
  <2> QED
    BY <1>1, <1>3, <2>5, QuietStep DEF Assess
<1>4. ASSUME NEW t \in todo, AssessRefused(t)
      PROVE  Inv'
  <2>1. disturbed' \in 0 .. MaxDisturbances
    BY <1>1, <1>4 DEF AssessRefused, TypeOK
  <2> QED
    BY <1>4, <2>1, EndIterationStep DEF AssessRefused
<1> QED
  BY <1>2, <1>3, <1>4

LEMMA ExecuteStep ==
  ASSUME Inv,
         \/ \E c \in candidates : \/ SkipCandidate(c) \/ Submit(c)
                                  \/ BalanceFails(c) \/ LiquidateFails(c)
         \/ Confirmed \/ Expired \/ WaitFails \/ EndExecute
  PROVE  Inv'
<1> USE DEF Calls, WorldStays, vault, market, scanner, history
<1>1. TypeOK /\ latest < ledger
  BY DEF Inv, Chronology
<1>2. ASSUME NEW c \in candidates, SkipCandidate(c) \/ LiquidateFails(c)
      PROVE  Inv'
  <2>1. /\ candidates' = candidates \ {c} /\ pc = "liquidate"
        /\ UNCHANGED <<pc, latest, response, todo, awaiting, submitted>>
        /\ WorldStays /\ UNCHANGED <<scanner, history>>
        /\ disturbed' \in 0 .. MaxDisturbances
    BY <1>1, <1>2, BotAssumption DEF SkipCandidate, LiquidateFails, Drop, Disturb,
                                     IsNextCandidate, TypeOK
  <2>2. TypeOK'
    BY <1>1, <2>1 DEF TypeOK
  <2> QED
    BY <1>1, <2>1, <2>2, QuietStep
<1>3. ASSUME NEW c \in candidates, Submit(c)
      PROVE  Inv'
  <2> DEFINE tx == [user |-> c.tracked.user, repay |-> RepayAmount(c)]
  <2>1. c \in HealthAssessment
    BY <1>1 DEF TypeOK
  <2>2. c.tracked.user \in User /\ c.tracked.debt \in Nat
    BY <2>1, BotAssumption DEF HealthAssessment, TrackedPosition
  <2>3. RepayAmount(c) \in Nat
    BY <2>2 DEF RepayAmount
  <2>4. tx \in Transaction /\ tx # None
    BY <2>2, <2>3, NoneIsApart DEF Transaction
  <2>5. /\ mempool' = mempool \cup {tx} /\ awaiting' = tx
        /\ candidates' = candidates \ {c} /\ pc = "liquidate" /\ pc' = "wait"
        /\ submitted < MaxLiquidationsPerRun
        /\ UNCHANGED <<latest, response, todo, submitted>>
        /\ UNCHANGED <<ledger, vault, market, startLedger, scanner, history, disturbed>>
    BY <1>3 DEF Submit, IsNextCandidate, BelowCap
  <2> HIDE DEF tx
  <2>6. TypeOK'
    BY <1>1, <2>4, <2>5 DEF TypeOK
  <2> QED
    BY <1>1, <2>5, <2>6, QuietStep
<1>4. ASSUME NEW c \in candidates, BalanceFails(c)
      PROVE  Inv'
  <2>1. disturbed' \in 0 .. MaxDisturbances
    BY <1>1, <1>4, BotAssumption DEF BalanceFails, Disturb, TypeOK
  <2> QED
    BY <1>4, <2>1, EndIterationStep DEF BalanceFails, IsNextCandidate
<1>5. CASE Confirmed
  <2>1. submitted' \in 0 .. MaxLiquidationsPerRun
    BY <1>1, <1>5, BotAssumption DEF Confirmed, Inv, TypeOK
  <2>2. TypeOK'
    BY <1>1, <1>5, <2>1 DEF Confirmed, TypeOK
  <2> QED
    BY <1>1, <1>5, <2>2, QuietStep DEF Confirmed
<1>6. CASE Expired
  <2>1. TypeOK'
    BY <1>1, <1>6 DEF Expired, TypeOK
  <2> QED
    BY <1>1, <1>6, <2>1, QuietStep DEF Expired
<1>7. CASE WaitFails
  <2>1. disturbed' \in 0 .. MaxDisturbances
    BY <1>1, <1>7, BotAssumption DEF WaitFails, Disturb, TypeOK
  <2>2. TypeOK'
    BY <1>1, <1>7, <2>1 DEF WaitFails, TypeOK
  <2> QED
    BY <1>1, <1>7, <2>2, QuietStep DEF WaitFails
<1>8. CASE EndExecute
  <2>1. disturbed' \in 0 .. MaxDisturbances
    BY <1>1, <1>8 DEF EndExecute, TypeOK
  <2> QED
    BY <1>8, <2>1, EndIterationStep DEF EndExecute
<1> QED
  BY <1>2, <1>3, <1>4, <1>5, <1>6, <1>7, <1>8

-------------------------------------------------------------------------------
(* The scan *)

LEMMA FromLedgerType ==
  ASSUME TypeOK
  PROVE  FromLedger \in Nat /\ (lastSeen # None => FromLedger = lastSeen + 1)
<1>1. LedgerLookback \in Nat /\ latest \in Nat /\ StartLedgers \subseteq Nat \cup {None}
  BY BotAssumption DEF TypeOK
<1>2. lastSeen \in Nat \cup {None} /\ startLedger \in Nat \cup {None}
  BY <1>1 DEF TypeOK
<1>3. latest > LedgerLookback => latest - LedgerLookback \in Nat
  BY <1>1
<1> QED
  BY <1>1, <1>2, <1>3 DEF FromLedger

\* The events before one of a page are in the page.
LEMMA PageIsPrefix ==
  ASSUME NEW from \in Nat, NEW i \in Page(from), NEW j \in EventsFrom(from), j < i,
         events \in Seq(Event)
  PROVE  j \in Page(from)
<1> DEFINE Before(k) == {m \in EventsFrom(from) : m < k}
<1>1. i \in EventsFrom(from) /\ Cardinality(Before(i)) < EventPageLimit
  BY DEF Page
<1>2. /\ DOMAIN events = 1 .. Len(events) /\ Len(events) \in Nat
      /\ EventsFrom(from) \subseteq 1 .. Len(events)
  BY DEF EventsFrom
<1>3. IsFiniteSet(EventsFrom(from))
  <2>1. IsFiniteSet(1 .. Len(events))
    BY <1>2, FS_Interval
  <2> QED
    BY <1>2, <2>1, FS_Subset
<1>4. IsFiniteSet(Before(i)) /\ Before(j) \subseteq Before(i)
  <2>1. IsFiniteSet(Before(i))
    BY <1>3, FS_Subset
  <2>2. ASSUME NEW m \in EventsFrom(from), m < j
        PROVE  m < i
    <3>1. m \in Int /\ j \in Int /\ i \in Int
      BY <1>1, <1>2
    <3> QED
      BY <2>2, <3>1
  <2> QED
    BY <2>1, <2>2
<1>5. Cardinality(Before(j)) <= Cardinality(Before(i)) /\ IsFiniteSet(Before(j))
  BY <1>4, FS_Subset
<1>6. Cardinality(Before(j)) \in Nat /\ Cardinality(Before(i)) \in Nat
  BY <1>4, <1>5, FS_CardinalityType
<1>7. Cardinality(Before(j)) < EventPageLimit
  BY <1>1, <1>5, <1>6, BotAssumption
<1> QED
  BY <1>7 DEF Page

\* What is asked for and does not come back is newer than all of the page, or is cut
\* off with its last ledger.
LEMMA BeyondPage ==
  ASSUME TypeOK, Chronology, NEW from \in Nat, NEW j \in DOMAIN events,
         events[j].ledger >= from, j \notin Page(from), j \notin CutOff(from)
  PROVE  \A k \in Page(from) : events[k].ledger < events[j].ledger
<1>1. /\ events \in Seq(Event) /\ ledger \in Nat
      /\ \A m \in DOMAIN events : m \in Nat /\ events[m].ledger \in Nat
  <2>1. \A m \in DOMAIN events : m \in Nat /\ events[m] \in Event
    BY DEF TypeOK
  <2> QED
    BY <2>1 DEF TypeOK, Event
<1> SUFFICES ASSUME NEW k \in Page(from)
             PROVE  events[k].ledger < events[j].ledger
  OBVIOUS
<1>2. k \in EventsFrom(from) /\ k \in DOMAIN events /\ events[k].ledger < ledger
  BY DEF Page, EventsFrom
<1>3. CASE j \in EventsFrom(from)
  <2>1. ~ (j < k)
    BY <1>1, <1>3, PageIsPrefix
  <2>2. k <= j
    BY <1>1, <1>2, <2>1
  <2>3. events[k].ledger <= events[j].ledger
    BY <1>2, <2>2 DEF Chronology
  <2>4. events[k].ledger # events[j].ledger
    BY <1>3 DEF CutOff
  <2> QED
    BY <1>1, <1>2, <2>3, <2>4
<1>4. CASE j \notin EventsFrom(from)
  <2>1. ~ (events[j].ledger < ledger)
    BY <1>4 DEF EventsFrom
  <2> QED
    BY <1>1, <1>2, <2>1
<1> QED
  BY <1>3, <1>4

LEMMA GetEventsStep == ASSUME Inv, GetEvents PROVE Inv'
<1> USE DEF WorldStays, vault, market, scanner
<1> DEFINE from == FromLedger
<1>1. TypeOK /\ Chronology /\ Progress
  BY DEF Inv
<1>2. from \in Nat /\ (lastSeen # None => from = lastSeen + 1)
  BY <1>1, FromLedgerType
<1>3. /\ response' = Page(from) /\ pc' = "position" /\ pc = "events"
      /\ firstLedger' = IF lastSeen = None THEN from ELSE firstLedger
      /\ missed' = missed \cup {events[i].user : i \in CutOff(from)}
      /\ UNCHANGED <<latest, todo, candidates, awaiting, submitted, disturbed>>
      /\ UNCHANGED <<ledger, events, debt, health, funds, mempool, startLedger>>
      /\ UNCHANGED <<positions, seen, userAssets, lastSeen>>
  BY DEF GetEvents
<1> HIDE DEF from
<1>4. /\ \A m \in DOMAIN events : events[m].ledger \in Nat /\ events[m].user \in User
      /\ response = {} /\ lastSeen \in Nat \cup {None} /\ None \notin Nat
      /\ firstLedger \in Nat \cup {None}
  <2>1. \A m \in DOMAIN events : events[m] \in Event
    BY <1>1 DEF TypeOK
  <2> QED
    BY <1>1, <1>3, <2>1, NoneIsApart DEF TypeOK, Event
<1>5. /\ Page(from) \subseteq DOMAIN events /\ CutOff(from) \subseteq DOMAIN events
      /\ \A k \in Page(from) : events[k].ledger < ledger
  BY DEF Page, CutOff, EventsFrom
<1>6. TypeOK'
  <2>1. missed' \subseteq User
    BY <1>1, <1>3, <1>4, <1>5 DEF TypeOK
  <2> QED
    BY <1>1, <1>2, <1>3, <1>5, <2>1 DEF TypeOK, Calls
<1>7. Chronology'
  BY <1>1, <1>3, <1>5 DEF Chronology
<1>8. Progress'
  <2> SUFFICES ASSUME NEW u \in User, u \notin missed',
                      NEW i \in DOMAIN events,
                      events[i].user = u, events[i].ledger >= firstLedger'
               PROVE  Indexed(u)' \/ Pending(u)'
    BY <1>3 DEF Progress
  <2>1. ASSUME NEW j \in DOMAIN events, events[j].user = u, j \notin seen,
               events[j].ledger >= from
        PROVE  Pending(u)'
    <3>1. j \notin CutOff(from)
      BY <1>3, <2>1
    <3>2. j \notin Page(from) => \A k \in Page(from) : events[k].ledger < events[j].ledger
      BY <1>1, <1>2, <2>1, <3>1, BeyondPage
    <3>3. lastSeen # None => lastSeen < events[j].ledger
      BY <1>2, <1>4, <2>1
    <3> QED
      BY <1>3, <2>1, <3>2, <3>3 DEF Pending
  <2>2. CASE lastSeen = None
    <3>1. i \notin seen
      BY <1>3, <2>2 DEF Inv
    <3> QED
      BY <1>3, <2>1, <2>2, <3>1
  <2>3. CASE lastSeen # None
    <3>1. Indexed(u) \/ Pending(u)
      BY <1>1, <1>3, <2>3 DEF Progress
    <3>2. Indexed(u) => Indexed(u)'
      BY <1>3 DEF Indexed
    <3>3. ASSUME Pending(u)
          PROVE  Pending(u)'
      <4>1. PICK j \in DOMAIN events :
              events[j].user = u /\ j \notin seen /\ lastSeen < events[j].ledger
        BY <1>4, <2>3, <3>3 DEF Pending
      <4>2. events[j].ledger >= from
        BY <1>2, <1>4, <2>3, <4>1
      <4> QED
        BY <2>1, <4>1, <4>2
    <3> QED
      BY <3>1, <3>2, <3>3
  <2> QED
    BY <2>2, <2>3
<1>9. firstLedger' # None
  BY <1>2, <1>3, <1>4 DEF Inv
<1>10. lastSeen' = None => \A i \in seen' : events'[i].user \in missed'
  BY <1>3 DEF Inv
<1> QED
  BY <1>3, <1>6, <1>7, <1>8, <1>9, <1>10 DEF Inv

LEMMA SkipSeenEventStep ==
  ASSUME Inv, NEW i \in response, SkipSeenEvent(i)
  PROVE  Inv'
<1> USE DEF WorldStays, vault, market, scanner, history
<1>1. TypeOK /\ Chronology /\ Progress /\ pc = "position"
  BY DEF Inv, SkipSeenEvent, IsNextEvent
<1>2. /\ response' = response \ {i} /\ i \in seen
      /\ UNCHANGED <<pc, latest, todo, candidates, awaiting, submitted>>
      /\ WorldStays /\ UNCHANGED <<scanner, history, disturbed>>
  BY DEF SkipSeenEvent
<1>3. TypeOK'
  BY <1>1, <1>2 DEF TypeOK
<1>4. Chronology'
  BY <1>1, <1>2 DEF Chronology
<1>5. Progress'
  <2> SUFFICES ASSUME NEW u \in User, u \notin missed,
                      \E m \in DOMAIN events :
                        events[m].user = u /\ events[m].ledger >= firstLedger
               PROVE  Indexed(u)' \/ Pending(u)'
    BY <1>2 DEF Progress
  <2>1. Indexed(u) \/ Pending(u)
    BY <1>1 DEF Progress
  <2>2. Indexed(u) => Indexed(u)'
    BY <1>2 DEF Indexed
  <2>3. Pending(u) => Pending(u)'
    BY <1>2 DEF Pending
  <2> QED
    BY <2>1, <2>2, <2>3
<1> QED
  BY <1>2, <1>3, <1>4, <1>5 DEF Inv

LEMMA HandleEventStep ==
  ASSUME Inv, NEW i \in response, HandleEvent(i)
  PROVE  Inv'
<1> USE DEF WorldStays, vault, market
<1> DEFINE u == events[i].user
           a == AssetOf(i)
<1>1. TypeOK /\ Chronology /\ Progress /\ pc = "position" /\ None \notin Nat
  BY NoneIsApart DEF Inv, HandleEvent, IsNextEvent
<1>2. /\ i \notin seen /\ seen' = seen \cup {i}
      /\ lastSeen' = events[i].ledger
      /\ missed' = missed \ {u}
      /\ response' = response \ {i}
      /\ UNCHANGED <<pc, latest, todo, candidates, awaiting, submitted>>
      /\ UNCHANGED <<ledger, events, debt, health, funds, mempool, startLedger>>
      /\ UNCHANGED <<firstLedger, disturbed>>
  BY DEF HandleEvent
<1>3. \/ /\ debt[u] # None
         /\ positions' = {t \in positions : ~ (t.user = u /\ t.asset = a)}
                           \cup {[user |-> u, asset |-> a, debt |-> debt[u]]}
         /\ userAssets' = RememberAsset(i)
      \/ /\ debt[u] = None
         /\ positions' = {t \in positions : t.user # u}
         /\ userAssets' = [userAssets EXCEPT ![u] = None]
  BY DEF HandleEvent, RemoveUser
<1>4. /\ i \in DOMAIN events /\ u \in User /\ events[i].ledger \in Nat
      /\ events[i].asset \in Asset \cup {None}
      /\ userAssets \in [User -> Asset \cup {None}]
      /\ debt[u] \in Debts \cup {None}
  <2>1. i \in DOMAIN events /\ events[i] \in Event
    BY <1>1 DEF TypeOK
  <2> QED
    BY <1>1, <2>1 DEF TypeOK, Event
<1>5. a \in Asset \cup {PrimaryAsset}
  BY <1>4 DEF AssetOf
<1>6. positions' \subseteq TrackedPosition
  BY <1>1, <1>3, <1>4, <1>5 DEF TypeOK, TrackedPosition
<1>7. userAssets' \in [User -> Asset \cup {None}]
  BY <1>3, <1>4 DEF RememberAsset
<1>8. TypeOK'
  <2>1. todo = {}
    BY <1>1 DEF TypeOK
  <2> QED
    BY <1>1, <1>2, <1>4, <1>6, <1>7, <2>1 DEF TypeOK
<1>9. Chronology'
  BY <1>1, <1>2 DEF Chronology
<1>10. ASSUME NEW v \in User, v = u
       PROVE  Indexed(v)'
  <2>1. CASE debt[v] = None
    <3>1. positions' = {t \in positions : t.user # v}
      BY <1>3, <1>10, <2>1
    <3>2. {t \in positions' : t.user = v} = {}
      BY <3>1
    <3> QED
      BY <1>2, <2>1, <3>2 DEF Indexed
  <2>2. CASE debt[v] # None
    <3> DEFINE t == [user |-> v, asset |-> a, debt |-> debt[v]]
    <3>1. t \in positions' /\ t.user = v /\ t.debt = debt[v]
      BY <1>3, <1>10, <2>2
    <3> QED
      BY <1>2, <2>2, <3>1 DEF Indexed
  <2> QED
    BY <2>1, <2>2
<1>11. ASSUME NEW w \in User, w # u, w \notin missed',
              \E m \in DOMAIN events :
                events[m].user = w /\ events[m].ledger >= firstLedger
       PROVE  Indexed(w)' \/ Pending(w)'
  <2>1. Indexed(w) \/ Pending(w)
    BY <1>1, <1>2, <1>11 DEF Progress
  <2>2. {t \in positions' : t.user = w} = {t \in positions : t.user = w}
    BY <1>3, <1>11
  <2>3. Indexed(w) => Indexed(w)'
    BY <1>2, <2>2 DEF Indexed
  <2>4. Pending(w) => Pending(w)'
    <3> SUFFICES ASSUME NEW j \in DOMAIN events, events[j].user = w, j \notin seen,
                        \/ j \in response
                        \/ \A k \in response : events[k].ledger < events[j].ledger
                 PROVE  Pending(w)'
      BY DEF Pending
    <3>1. j # i
      BY <1>11
    <3> QED
      BY <1>2, <3>1 DEF Pending
  <2> QED
    BY <2>1, <2>3, <2>4
<1>12. Progress'
  BY <1>2, <1>10, <1>11 DEF Progress
<1>13. firstLedger # None /\ lastSeen' # None
  BY <1>1, <1>2, <1>4 DEF Inv
<1> QED
  BY <1>1, <1>2, <1>8, <1>9, <1>12, <1>13 DEF Inv

LEMMA PositionFailsStep ==
  ASSUME Inv, NEW i \in response, PositionFails(i)
  PROVE  Inv'
<1> USE DEF WorldStays, vault, market
<1>1. TypeOK /\ Chronology /\ Progress /\ pc = "position" /\ None \notin Nat
  BY NoneIsApart DEF Inv, PositionFails, IsNextEvent
<1>2. /\ seen' = seen \cup {i} /\ userAssets' = RememberAsset(i)
      /\ missed' = missed \cup {events[j].user : j \in LostWith(i)}
      /\ pc' = "sleep"
      /\ latest' = 0 /\ response' = {} /\ todo' = {} /\ candidates' = {}
      /\ UNCHANGED <<awaiting, submitted>>
      /\ UNCHANGED <<ledger, events, debt, health, funds, mempool, startLedger>>
      /\ UNCHANGED <<positions, lastSeen, firstLedger>>
      /\ disturbed' = disturbed + 1 /\ disturbed < MaxDisturbances
  BY DEF PositionFails, EndIteration, Disturb
<1>3. /\ \A j \in response : j \in DOMAIN events
      /\ \A j \in DOMAIN events : /\ events[j].user \in User /\ events[j].ledger \in Nat
                                  /\ events[j].asset \in Asset \cup {None}
  <2>1. \A j \in DOMAIN events : events[j] \in Event
    BY <1>1 DEF TypeOK
  <2> QED
    BY <1>1, <2>1 DEF TypeOK, Event
<1>4. LostWith(i) \subseteq response /\ i \in LostWith(i)
  BY DEF LostWith
<1>5. TypeOK'
  <2>1. missed' \subseteq User
    BY <1>1, <1>2, <1>3, <1>4 DEF TypeOK
  <2>2. userAssets' \in [User -> Asset \cup {None}]
    BY <1>1, <1>2, <1>3 DEF RememberAsset, TypeOK
  <2>3. disturbed' \in 0 .. MaxDisturbances
    BY <1>1, <1>2, BotAssumption DEF TypeOK
  <2>4. seen' \subseteq DOMAIN events
    BY <1>1, <1>2 DEF TypeOK
  <2> QED
    BY <1>1, <1>2, <2>1, <2>2, <2>3, <2>4 DEF TypeOK
<1>6. Chronology'
  BY <1>1, <1>2 DEF Chronology, TypeOK
<1>7. Progress'
  <2> SUFFICES ASSUME NEW u \in User, u \notin missed', lastSeen # None,
                      \E m \in DOMAIN events :
                        events[m].user = u /\ events[m].ledger >= firstLedger
               PROVE  Indexed(u)' \/ Pending(u)'
    BY <1>2 DEF Progress
  <2>1. Indexed(u) \/ Pending(u)
    BY <1>1, <1>2 DEF Progress
  <2>2. Indexed(u) => Indexed(u)'
    BY <1>2 DEF Indexed
  <2>3. ASSUME Pending(u)
        PROVE  Pending(u)'
    <3>1. PICK j \in DOMAIN events :
            /\ events[j].user = u /\ j \notin seen
            /\ j \in response \/ lastSeen < events[j].ledger
      BY <2>3 DEF Pending
    <3>2. j \notin LostWith(i)
      BY <1>2, <3>1
    <3>3. j # i /\ lastSeen < events[j].ledger
      <4>1. lastSeen \in Nat /\ events[j].ledger \in Nat
        BY <1>1, <1>3 DEF TypeOK
      <4> QED
        BY <3>1, <3>2, <4>1 DEF LostWith
    <3> QED
      BY <1>2, <3>1, <3>3 DEF Pending
  <2> QED
    BY <2>1, <2>2, <2>3
<1>8. lastSeen' = None => \A j \in seen' : events'[j].user \in missed'
  BY <1>2, <1>4 DEF Inv
<1>9. lastSeen' # None => firstLedger' # None
  BY <1>2 DEF Inv
<1> QED
  BY <1>2, <1>5, <1>6, <1>7, <1>8, <1>9 DEF Inv

LEMMA EndScanStep == ASSUME Inv, EndScan PROVE Inv'
<1> USE DEF WorldStays, vault, market
<1>1. TypeOK /\ Chronology /\ Progress /\ pc = "position" /\ None \notin Nat
      /\ firstLedger # None
  BY NoneIsApart DEF Inv, EndScan
<1>2. /\ response = {} /\ pc' = "config" /\ latest' = 0
      /\ lastSeen' = IF lastSeen = None THEN latest ELSE lastSeen
      /\ missed' = missed \cup {events[i].user : i \in GonePast}
      /\ UNCHANGED <<response, todo, candidates, awaiting, submitted>>
      /\ UNCHANGED <<ledger, events, debt, health, funds, mempool, startLedger>>
      /\ UNCHANGED <<positions, seen, userAssets, firstLedger, disturbed>>
  BY DEF EndScan
<1>3. \A j \in DOMAIN events : events[j].user \in User /\ events[j].ledger \in Nat
  <2>1. \A j \in DOMAIN events : events[j] \in Event
    BY <1>1 DEF TypeOK
  <2> QED
    BY <2>1 DEF Event
<1>4. ledger \in Nat /\ latest \in Nat /\ latest < ledger /\ 0 < ledger
      /\ firstLedger \in Nat
  BY <1>1 DEF TypeOK, Chronology
<1>5. TypeOK'
  <2>1. missed' \subseteq User
    BY <1>1, <1>2, <1>3 DEF TypeOK, GonePast, EventsFrom
  <2> QED
    BY <1>1, <1>2, <1>4, <2>1 DEF TypeOK, Calls
<1>6. Chronology'
  BY <1>1, <1>2, <1>4 DEF Chronology
<1>7. Progress'
  <2> SUFFICES ASSUME NEW u \in User, u \notin missed',
                      NEW m \in DOMAIN events,
                      events[m].user = u, events[m].ledger >= firstLedger
               PROVE  Indexed(u)' \/ Pending(u)'
    BY <1>2 DEF Progress
  <2>1. Indexed(u) => Indexed(u)'
    BY <1>2 DEF Indexed
  <2>2. CASE lastSeen = None
    <3>1. m \notin seen
      BY <1>2, <2>2 DEF Inv
    <3>2. ~ (events[m].ledger <= latest)
      <4>1. m \notin GonePast
        BY <1>2
      <4>2. events[m].ledger <= latest => m \in EventsFrom(firstLedger)
        BY <1>3, <1>4 DEF EventsFrom
      <4> QED
        BY <2>2, <3>1, <4>1, <4>2 DEF GonePast
    <3>3. latest < events[m].ledger
      BY <1>3, <1>4, <3>2
    <3> QED
      BY <1>2, <2>2, <3>1, <3>3 DEF Pending
  <2>3. CASE lastSeen # None
    <3>1. Indexed(u) \/ Pending(u)
      BY <1>1, <1>2 DEF Progress
    <3>2. Pending(u) => Pending(u)'
      BY <1>2, <2>3 DEF Pending
    <3> QED
      BY <2>1, <3>1, <3>2
  <2> QED
    BY <2>2, <2>3
<1>8. lastSeen' # None
  BY <1>1, <1>2, <1>4
<1> QED
  BY <1>1, <1>2, <1>5, <1>6, <1>7, <1>8 DEF Inv

-------------------------------------------------------------------------------
(* The process, the vault and the market *)

LEMMA InitInv == Init => Inv
<1> SUFFICES ASSUME Init
             PROVE  Inv
  OBVIOUS
<1> USE DEF Init, Fresh
<1>1. TypeOK
  <2>1. debt \in [User -> Debts \cup {None}] /\ funds \in Nat
    BY BotAssumption
  <2>2. events \in Seq(Event) /\ DOMAIN events = {}
    OBVIOUS
  <2>3. /\ submitted \in 0 .. MaxLiquidationsPerRun
        /\ disturbed \in 0 .. MaxDisturbances
    BY BotAssumption
  <2>4. userAssets \in [User -> Asset \cup {None}]
    OBVIOUS
  <2> QED
    BY <2>1, <2>2, <2>3, <2>4 DEF TypeOK, Calls
<1>2. Chronology
  BY DEF Chronology
<1>3. Progress
  BY DEF Progress
<1> QED
  BY <1>1, <1>2, <1>3 DEF Inv

\* The vault changes a debt together with an event, which the scan has yet to come to.
LEMMA EmitStep ==
  ASSUME Inv, NEW u \in User, NEW a \in Asset \cup {None}, Emit(u, a),
         NEW d \in Debts \cup {None}, debt' = [debt EXCEPT ![u] = d],
         funds' \in Nat, mempool' \subseteq Transaction,
         UNCHANGED <<ledger, health, scanner, history, startLedger, iteration, disturbed>>
  PROVE  Inv'
<1> USE DEF scanner, history, iteration
<1> DEFINE e == [ledger |-> ledger, user |-> u, asset |-> a]
           last == Len(events) + 1
<1>1. TypeOK /\ Chronology /\ Progress /\ ledger \in Nat /\ events \in Seq(Event)
  BY DEF Inv, TypeOK
<1>2. e \in Event
  BY <1>1 DEF Event
<1>3. events' = Append(events, e)
  BY DEF Emit
<1>4. /\ events' \in Seq(Event)
      /\ DOMAIN events = 1 .. Len(events) /\ Len(events) \in Nat
      /\ DOMAIN events' = 1 .. last
      /\ events'[last] = e
      /\ \A i \in DOMAIN events : events'[i] = events[i]
  BY <1>1, <1>2, <1>3
<1>5. e.ledger = ledger /\ e.user = u
  OBVIOUS
<1> HIDE DEF e
<1>6. /\ \A i \in DOMAIN events : i \in DOMAIN events' /\ i # last
      /\ \A i \in DOMAIN events' : i \in DOMAIN events \/ i = last
      /\ last \in DOMAIN events' /\ last \notin DOMAIN events
  BY <1>4
<1>7. \A i \in DOMAIN events' : i \in Int
  BY <1>4
<1>8. \A i \in DOMAIN events : i < last /\ last \in Int
  BY <1>4
<1> HIDE DEF last
<1>9. seen \subseteq DOMAIN events /\ response \subseteq DOMAIN events
      /\ debt \in [User -> Debts \cup {None}]
  BY <1>1 DEF TypeOK
<1>10. TypeOK'
  <2>1. debt' \in [User -> Debts \cup {None}]
    BY <1>9
  <2>2. seen' \subseteq DOMAIN events' /\ response' \subseteq DOMAIN events'
    BY <1>6, <1>9
  <2> QED
    BY <1>1, <1>4, <2>1, <2>2 DEF TypeOK
<1>11. Chronology'
  <2>1. ASSUME NEW i \in DOMAIN events', NEW j \in DOMAIN events', i <= j
        PROVE  events'[i].ledger <= events'[j].ledger
    <3>1. CASE j \in DOMAIN events
      <4>1. i \in DOMAIN events
        BY <1>6, <1>7, <1>8, <2>1, <3>1
      <4> QED
        BY <1>1, <1>4, <2>1, <3>1, <4>1 DEF Chronology
    <3>2. CASE j = last /\ i \in DOMAIN events
      BY <1>1, <1>4, <1>5, <3>2 DEF Chronology
    <3>3. CASE j = last /\ i = last
      BY <1>1, <1>4, <1>5, <3>3
    <3> QED
      BY <1>6, <3>1, <3>2, <3>3
  <2>2. \A i \in DOMAIN events' : events'[i].ledger <= ledger
    BY <1>1, <1>4, <1>5, <1>6 DEF Chronology
  <2>3. \A i \in response : events'[i].ledger < ledger
    BY <1>1, <1>4, <1>9 DEF Chronology
  <2> QED
    BY <1>1, <2>1, <2>2, <2>3 DEF Chronology
<1>12. Progress'
  <2> SUFFICES ASSUME NEW w \in User, w \notin missed,
                      lastSeen # None \/ pc = "position",
                      NEW m \in DOMAIN events', events'[m].user = w,
                      events'[m].ledger >= firstLedger
               PROVE  Indexed(w)' \/ Pending(w)'
    BY DEF Progress
  <2>1. CASE w = u
    <3>1. events'[last].user = w /\ last \notin seen
      BY <1>4, <1>5, <1>6, <1>9, <2>1
    <3>2. lastSeen # None => lastSeen < events'[last].ledger
      BY <1>1, <1>4, <1>5 DEF Chronology
    <3>3. \A k \in response : events'[k].ledger < events'[last].ledger
      BY <1>1, <1>4, <1>5, <1>9 DEF Chronology
    <3> QED
      BY <1>6, <3>1, <3>2, <3>3 DEF Pending
  <2>2. CASE w # u
    <3>1. m \in DOMAIN events
      BY <1>4, <1>5, <1>6, <2>2
    <3>2. Indexed(w) \/ Pending(w)
      BY <1>1, <1>4, <3>1 DEF Progress
    <3>3. Indexed(w) => Indexed(w)'
      BY <1>9, <2>2 DEF Indexed
    <3>4. ASSUME Pending(w)
          PROVE  Pending(w)'
      <4>1. PICK j \in DOMAIN events :
              /\ events[j].user = w /\ j \notin seen
              /\ \/ j \in response
                 \/ /\ lastSeen # None => lastSeen < events[j].ledger
                    /\ \A k \in response : events[k].ledger < events[j].ledger
        BY <3>4 DEF Pending
      <4>2. j \in DOMAIN events' /\ events'[j] = events[j]
        BY <1>4, <1>6
      <4>3. \A k \in response : events'[k] = events[k]
        BY <1>4, <1>9
      <4> QED
        BY <4>1, <4>2, <4>3 DEF Pending
    <3> QED
      BY <3>2, <3>3, <3>4
  <2> QED
    BY <2>1, <2>2
<1>13. lastSeen' = None => \A i \in seen' : events'[i].user \in missed'
  BY <1>4, <1>9 DEF Inv
<1> QED
  BY <1>10, <1>11, <1>12, <1>13 DEF Inv

LEMMA VaultStep ==
  ASSUME Inv,
         \/ \E u \in User, a \in Asset : Deposit(u, a)
         \/ \E u \in User, d \in Debts \cup {None} : Change(u, d)
  PROVE  Inv'
<1>1. TypeOK
  BY DEF Inv
<1>2. /\ UNCHANGED <<ledger, health, scanner, history, startLedger, iteration, disturbed>>
      /\ funds' \in Nat /\ mempool' \subseteq Transaction
  BY <1>1 DEF Deposit, Change, market, TypeOK
<1>3. ASSUME NEW u \in User, NEW a \in Asset, Deposit(u, a)
      PROVE  Inv'
  <2> DEFINE d == IF debt[u] = None THEN 0 ELSE debt[u]
  <2>1. d \in Debts \cup {None}
    BY <1>1, BotAssumption DEF TypeOK
  <2>2. debt' = [debt EXCEPT ![u] = d] /\ Emit(u, a)
    BY <1>3 DEF Deposit
  <2> HIDE DEF d
  <2> QED
    BY <1>2, <2>1, <2>2, EmitStep
<1>4. ASSUME NEW u \in User, NEW d \in Debts \cup {None}, Change(u, d)
      PROVE  Inv'
  <2>1. debt' = [debt EXCEPT ![u] = d] /\ Emit(u, None)
    BY <1>4 DEF Change
  <2> QED
    BY <1>2, <2>1, EmitStep
<1> QED
  BY <1>3, <1>4

LEMMA ApplyStep ==
  ASSUME Inv, NEW tx \in mempool, Apply(tx)
  PROVE  Inv'
<1> DEFINE u == tx.user
           paid == Payment(tx.user, tx.repay)
<1>1. TypeOK /\ tx \in Transaction /\ funds \in Nat
  BY DEF Inv, TypeOK
<1>2. u \in User /\ tx.repay \in Nat /\ debt[u] \in Debts \cup {None}
  BY <1>1 DEF Transaction, TypeOK
<1>3. /\ mempool' = mempool \ {tx}
      /\ UNCHANGED <<ledger, health, scanner, history, startLedger, iteration, disturbed>>
  BY DEF Apply
<1>4. mempool' \subseteq Transaction
  BY <1>1, <1>3 DEF TypeOK
<1>5. CASE VaultAccepts(tx.user, tx.repay)
  <2>1. /\ debt[u] # None /\ paid > 0 /\ funds >= paid
        /\ debt' = [debt EXCEPT ![u] = @ - paid] /\ funds' = funds - paid
        /\ Emit(u, None)
    BY <1>5 DEF Apply, VaultAccepts
  <2>2. debt[u] \in Debts /\ debt[u] \in Nat /\ 0 .. debt[u] \subseteq Debts
    BY <1>2, <2>1, BotAssumption
  <2>3. debt[u] \div 2 \in Nat /\ debt[u] \div 2 <= debt[u]
    BY <2>2
  <2>4. paid \in Nat /\ paid <= debt[u]
    BY <1>2, <2>2, <2>3 DEF Payment, Lower
  <2> HIDE DEF paid
  <2>5. debt[u] - paid \in Debts \cup {None} /\ funds' \in Nat
    BY <1>1, <2>1, <2>2, <2>4
  <2>6. debt' = [debt EXCEPT ![u] = debt[u] - paid]
    BY <2>1
  <2> QED
    BY <1>2, <1>3, <1>4, <2>1, <2>5, <2>6, EmitStep
<1>6. CASE ~ VaultAccepts(tx.user, tx.repay)
  <2>1. UNCHANGED <<debt, funds, events>>
    BY <1>6 DEF Apply
  <2>2. TypeOK'
    BY <1>1, <1>3, <1>4, <2>1 DEF TypeOK, scanner, history, iteration
  <2> QED
    BY <1>3, <2>1, <2>2, QuietStep DEF Inv, Chronology, scanner, history, iteration, vault
<1> QED
  BY <1>5, <1>6

LEMMA MarketStep ==
  ASSUME Inv, NEW u \in User, NEW h \in Health, NEW f \in Funds, MarketMoves(u, h, f)
  PROVE  Inv'
<1> USE DEF vault, scanner, history, iteration
<1>1. TypeOK /\ f \in Nat
  BY BotAssumption DEF Inv
<1>2. /\ health' = [health EXCEPT ![u] = h] /\ funds' = f
      /\ disturbed' = disturbed + 1 /\ disturbed < MaxDisturbances
      /\ UNCHANGED <<ledger, vault, mempool, scanner, history, startLedger, iteration>>
  BY DEF MarketMoves, Disturb
<1>3. TypeOK'
  <2>1. disturbed' \in 0 .. MaxDisturbances
    BY <1>1, <1>2, BotAssumption DEF TypeOK
  <2>2. health' \in [User -> Health]
    BY <1>1, <1>2 DEF TypeOK
  <2> QED
    BY <1>1, <1>2, <2>1, <2>2 DEF TypeOK
<1> QED
  BY <1>2, <1>3, QuietStep DEF Inv, Chronology

LEMMA CloseLedgerStep == ASSUME Inv, CloseLedger PROVE Inv'
<1> USE DEF vault, market, scanner, history, iteration
<1>1. TypeOK /\ Chronology /\ Progress
  BY DEF Inv
<1>2. /\ ledger' = ledger + 1
      /\ UNCHANGED <<vault, market, mempool, scanner, history, startLedger, iteration>>
      /\ disturbed' = disturbed
  BY DEF CloseLedger
<1>3. /\ ledger \in Nat /\ latest \in Nat /\ lastSeen \in Nat \cup {None}
      /\ \A i \in DOMAIN events : events[i].ledger \in Nat
      /\ response \subseteq DOMAIN events
  <2>1. \A i \in DOMAIN events : events[i] \in Event
    BY <1>1 DEF TypeOK
  <2> QED
    BY <1>1, <2>1 DEF TypeOK, Event
<1>4. TypeOK'
  <2>1. ledger' \in Nat \ {0}
    BY <1>2, <1>3
  <2> QED
    BY <1>1, <1>2, <2>1 DEF TypeOK
<1>5. Chronology'
  <2>1. \A n \in Nat : (n <= ledger => n <= ledger + 1) /\ (n < ledger => n < ledger + 1)
    BY <1>3
  <2>2. \A i \in DOMAIN events : events[i].ledger <= ledger'
    BY <1>1, <1>2, <1>3, <2>1 DEF Chronology
  <2>3. \A i \in response : events[i].ledger < ledger'
    BY <1>1, <1>2, <1>3, <2>1 DEF Chronology
  <2>4. latest < ledger' /\ (lastSeen # None => lastSeen < ledger')
    BY <1>1, <1>2, <1>3, <2>1 DEF Chronology
  <2> QED
    BY <1>1, <1>2, <2>2, <2>3, <2>4 DEF Chronology
<1>6. Progress'
  <2>1. ASSUME NEW u \in User
        PROVE  (Indexed(u)' <=> Indexed(u)) /\ (Pending(u)' <=> Pending(u))
    BY <1>2 DEF Indexed, Pending
  <2> QED
    BY <1>1, <1>2, <2>1 DEF Progress
<1> QED
  BY <1>2, <1>4, <1>5, <1>6 DEF Inv

LEMMA RestartStep ==
  ASSUME Inv, NEW start \in StartLedgers, Restart(start)
  PROVE  Inv'
<1> USE DEF vault, market
<1>1. TypeOK /\ Chronology
  BY DEF Inv
<1>2. /\ startLedger' = start
      /\ positions' = {} /\ seen' = {} /\ lastSeen' = None
      /\ firstLedger' = None /\ missed' = {}
      /\ userAssets' = [u \in User |-> None]
      /\ pc' = "latest" /\ latest' = 0 /\ response' = {} /\ todo' = {}
      /\ candidates' = {} /\ awaiting' = None /\ submitted' = 0
      /\ UNCHANGED <<ledger, vault, market, mempool>>
      /\ disturbed' = disturbed + 1 /\ disturbed < MaxDisturbances
  BY DEF Restart, Disturb
<1>3. TypeOK'
  <2>1. disturbed' \in 0 .. MaxDisturbances /\ submitted' \in 0 .. MaxLiquidationsPerRun
    BY <1>1, <1>2, BotAssumption DEF TypeOK
  <2>2. userAssets' \in [User -> Asset \cup {None}]
    BY <1>2
  <2> QED
    BY <1>1, <1>2, <2>1, <2>2 DEF TypeOK, Calls
<1>4. Chronology'
  BY <1>1, <1>2 DEF Chronology, TypeOK
<1>5. Progress'
  BY <1>2 DEF Progress
<1> QED
  BY <1>2, <1>3, <1>4, <1>5 DEF Inv

-------------------------------------------------------------------------------
(* The invariant and its consequences *)

LEMMA NextInv == Inv /\ [Next]_vars => Inv'
<1> SUFFICES ASSUME Inv, [Next]_vars
             PROVE  Inv'
  OBVIOUS
<1>1. ASSUME BotStep
      PROVE  Inv'
  <2>1. CASE Wake \/ LatestLedger
    BY <2>1, WakeStep
  <2>2. CASE GetEvents
    BY <2>2, GetEventsStep
  <2>3. CASE EndScan
    BY <2>3, EndScanStep
  <2>4. ASSUME NEW i \in response, SkipSeenEvent(i)
        PROVE  Inv'
    BY <2>4, SkipSeenEventStep
  <2>5. ASSUME NEW i \in response, HandleEvent(i)
        PROVE  Inv'
    BY <2>5, HandleEventStep
  <2>6. CASE ReadPoolConfig \/ \E t \in todo : Assess(t) \/ AssessRefused(t)
    BY <2>6, EvaluateStep
  <2>7. CASE \/ \E c \in candidates : SkipCandidate(c) \/ Submit(c)
             \/ Confirmed \/ Expired \/ EndExecute
    BY <2>7, ExecuteStep
  <2> QED
    BY <1>1, <2>1, <2>2, <2>3, <2>4, <2>5, <2>6, <2>7 DEF BotStep
<1>2. ASSUME Failure
      PROVE  Inv'
  <2>1. CASE CallFails
    BY <2>1, CallFailsStep
  <2>2. CASE WaitFails \/ \E c \in candidates : BalanceFails(c) \/ LiquidateFails(c)
    BY <2>2, ExecuteStep
  <2>3. ASSUME NEW i \in response, PositionFails(i)
        PROVE  Inv'
    BY <2>3, PositionFailsStep
  <2> QED
    BY <1>2, <2>1, <2>2, <2>3 DEF Failure
<1>3. ASSUME World
      PROVE  Inv'
  <2>1. CASE \/ \E u \in User, a \in Asset : Deposit(u, a)
             \/ \E u \in User, d \in Debts \cup {None} : Change(u, d)
    BY <2>1, VaultStep
  <2>2. ASSUME NEW tx \in mempool, Apply(tx)
        PROVE  Inv'
    BY <2>2, ApplyStep
  <2>3. ASSUME NEW u \in User, NEW h \in Health, NEW f \in Funds, MarketMoves(u, h, f)
        PROVE  Inv'
    BY <2>3, MarketStep
  <2>4. ASSUME NEW start \in StartLedgers, Restart(start)
        PROVE  Inv'
    BY <2>4, RestartStep
  <2>5. CASE CloseLedger
    BY <2>5, CloseLedgerStep
  <2> QED
    BY <1>3, <2>1, <2>2, <2>3, <2>4, <2>5 DEF World
<1>4. ASSUME UNCHANGED vars
      PROVE  Inv'
  <2> USE DEF vars, vault, market, scanner, history, iteration
  <2>1. TypeOK'
    BY <1>4 DEF Inv, TypeOK
  <2> QED
    BY <1>4, <2>1, QuietStep DEF Inv, Chronology
<1> QED
  BY <1>1, <1>2, <1>3, <1>4 DEF Next

\* The inductive invariant holds in every reachable state.
THEOREM BotInvariant == Spec => []Inv
<1>1. Init => Inv
  BY InitInv
<1>2. Inv /\ [Next]_vars => Inv'
  BY NextInv
<1> QED
  BY <1>1, <1>2, PTL DEF Spec

\* Types, and that a transaction is awaited exactly while the loop waits for one and
\* no run counts more than MAX_LIQUIDATIONS_PER_RUN.
THEOREM BotTypeOK == Spec => []TypeOK
<1>1. Inv => TypeOK
  BY DEF Inv
<1> QED
  BY <1>1, BotInvariant, PTL

\* scan's index is right about every user it has gone past, unless an event of
\* theirs was passed over: by a failed read, at the end of a page within a ledger,
\* or behind a failed read within a ledger.
THEOREM BotIndexAccurate == Spec => []IndexAccurate
<1>1. Inv => IndexAccurate
  <2> SUFFICES ASSUME Inv, NEW u \in User, Scanned(u), u \notin missed
               PROVE  Indexed(u)
    BY DEF IndexAccurate
  <2>1. TypeOK /\ lastSeen # None /\ lastSeen \in Nat
    BY DEF Inv, TypeOK, Scanned
  <2>2. Indexed(u) \/ Pending(u)
    BY <2>1 DEF Inv, Progress, Scanned
  <2>3. ASSUME NEW i \in DOMAIN events, events[i].user = u
        PROVE  ~ (i \in response) /\ ~ (lastSeen < events[i].ledger)
    <3>1. events[i].ledger \in Nat
      <4>1. events[i] \in Event
        BY <2>1 DEF TypeOK
      <4> QED
        BY <4>1 DEF Event
    <3> QED
      BY <2>1, <2>3, <3>1 DEF Scanned
  <2> QED
    BY <2>1, <2>2, <2>3 DEF Pending
<1> QED
  BY <1>1, BotInvariant, PTL

-------------------------------------------------------------------------------
(* When nothing is passed over *)

\* No page of events that is asked for ends within a ledger.
PagesEndWithLedgers == pc = "events" => CutOff(FromLedger) = {}

\* Nobody was passed over, and a scan that has seen nothing yet either has events at
\* hand or has none behind it.
NothingMissed ==
  /\ missed = {}
  /\ pc = "position" /\ lastSeen = None /\ response = {} =>
       ~ \E i \in DOMAIN events :
           firstLedger <= events[i].ledger /\ events[i].ledger <= latest

\* A page has events when there are any to ask for.
LEMMA PageHasFirst ==
  ASSUME TypeOK, NEW from \in Nat, EventsFrom(from) # {}
  PROVE  Page(from) # {}
<1>1. EventsFrom(from) \subseteq Nat
  BY DEF TypeOK, EventsFrom
<1>2. PICK i \in EventsFrom(from) : \A j \in EventsFrom(from) : i <= j
  BY <1>1, LeastNat
<1>3. {j \in EventsFrom(from) : j < i} = {}
  BY <1>1, <1>2
<1>4. Cardinality({j \in EventsFrom(from) : j < i}) < EventPageLimit
  BY <1>3, FS_EmptySet, BotAssumption
<1> QED
  BY <1>4 DEF Page

LEMMA EventLedgers ==
  ASSUME TypeOK
  PROVE  \A i \in DOMAIN events : events[i].ledger \in Nat
<1>1. \A i \in DOMAIN events : events[i] \in Event
  BY DEF TypeOK
<1> QED
  BY <1>1 DEF Event

LEMMA GetEventsMissesNothing ==
  ASSUME Inv, NothingMissed, PagesEndWithLedgers, GetEvents
  PROVE  NothingMissed'
<1> DEFINE from == FromLedger
<1>1. TypeOK /\ Chronology
  BY DEF Inv
<1>2. /\ response' = Page(from)
      /\ firstLedger' = IF lastSeen = None THEN from ELSE firstLedger
      /\ missed' = missed \cup {events[i].user : i \in CutOff(from)}
      /\ pc = "events"
      /\ UNCHANGED <<events, lastSeen, latest, ledger>>
  BY DEF GetEvents, WorldStays, vault, scanner
<1>3. missed' = {}
  BY <1>2 DEF NothingMissed, PagesEndWithLedgers
<1>4. from \in Nat
  BY <1>1, FromLedgerType
<1> HIDE DEF from
<1>5. ASSUME lastSeen' = None, NEW i \in DOMAIN events',
             firstLedger' <= events'[i].ledger, events'[i].ledger <= latest'
      PROVE  response' # {}
  <2>1. firstLedger' = from
    BY <1>2, <1>5
  <2>2. events[i].ledger \in Nat /\ latest \in Nat /\ ledger \in Nat /\ latest < ledger
    BY <1>1, <1>2, <1>5, EventLedgers DEF TypeOK, Chronology
  <2>3. i \in EventsFrom(from)
    BY <1>2, <1>4, <1>5, <2>1, <2>2 DEF EventsFrom
  <2> QED
    BY <1>1, <1>2, <1>4, <2>3, PageHasFirst
<1> QED
  BY <1>3, <1>5 DEF NothingMissed

\* Events are emitted in the open ledger, after the latest one the bot knows of.
LEMMA EmitMissesNothing ==
  ASSUME Inv, NothingMissed, NEW u, NEW a, Emit(u, a),
         UNCHANGED <<missed, pc, lastSeen, response, firstLedger, latest>>
  PROVE  NothingMissed'
<1> DEFINE e == [ledger |-> ledger, user |-> u, asset |-> a]
<1>1. TypeOK /\ Chronology /\ events \in Seq(Event) /\ ledger \in Nat
      /\ latest \in Nat /\ latest < ledger
  BY DEF Inv, TypeOK, Chronology
<1>2. events' = Append(events, e)
  BY DEF Emit
<1>3. ASSUME NEW i \in DOMAIN events', events'[i].ledger <= latest
      PROVE  i \in DOMAIN events /\ events'[i] = events[i]
  <2>1. e.ledger = ledger
    OBVIOUS
  <2> HIDE DEF e
  <2>2. i \in 1 .. Len(events) + 1 /\ Len(events) \in Nat
        /\ DOMAIN events = 1 .. Len(events)
    BY <1>1, <1>2
  <2>3. i # Len(events) + 1
    <3>1. events'[Len(events) + 1] = e
      BY <1>1, <1>2
    <3> QED
      BY <1>1, <1>3, <2>1, <3>1
  <2> QED
    BY <1>1, <1>2, <2>2, <2>3
<1> QED
  BY <1>3 DEF NothingMissed

LEMMA NextMissesNothing ==
  ASSUME "position" \notin Failing, Inv, NothingMissed, PagesEndWithLedgers,
         [Next]_vars
  PROVE  NothingMissed'
<1> USE DEF WorldStays, vault, market, scanner, history, iteration
<1>1. CASE GetEvents
  BY <1>1, GetEventsMissesNothing
<1>2. CASE \/ \E u \in User, a \in Asset : Deposit(u, a)
           \/ \E u \in User, d \in Debts \cup {None} : Change(u, d)
  BY <1>2, EmitMissesNothing DEF Deposit, Change
<1>3. ASSUME NEW tx \in mempool, Apply(tx)
      PROVE  NothingMissed'
  <2>1. CASE Emit(tx.user, None)
    BY <1>3, <2>1, EmitMissesNothing DEF Apply
  <2>2. CASE events' = events
    BY <1>3, <2>2 DEF Apply, NothingMissed
  <2> QED
    BY <1>3, <2>1, <2>2 DEF Apply
<1>4. ASSUME NEW i \in response, HandleEvent(i)
      PROVE  NothingMissed'
  <2>1. missed' = missed \ {events[i].user} /\ lastSeen' = events[i].ledger
    BY <1>4 DEF HandleEvent
  <2>2. events[i].ledger # None
    BY EventLedgers, NoneIsApart DEF Inv, TypeOK
  <2> QED
    BY <2>1, <2>2 DEF NothingMissed
<1>5. ASSUME NEW i \in response, SkipSeenEvent(i)
      PROVE  NothingMissed'
  <2>1. i \in seen /\ UNCHANGED <<missed, lastSeen>>
    BY <1>5 DEF SkipSeenEvent
  <2>2. lastSeen # None
    BY <2>1 DEF Inv, NothingMissed
  <2> QED
    BY <2>1, <2>2 DEF NothingMissed
<1>6. CASE EndScan
  <2>1. /\ pc = "position" /\ response = {} /\ pc' = "config"
        /\ missed' = missed \cup {events[i].user : i \in GonePast}
    BY <1>6 DEF EndScan
  <2>2. GonePast = {}
    BY <2>1 DEF NothingMissed, GonePast, EventsFrom
  <2> QED
    BY <2>1, <2>2 DEF NothingMissed
<1>7. ASSUME NEW start \in StartLedgers, Restart(start)
      PROVE  NothingMissed'
  BY <1>7 DEF Restart, NothingMissed
<1>8. ASSUME \/ Wake \/ LatestLedger \/ ReadPoolConfig
             \/ \E t \in todo : Assess(t) \/ AssessRefused(t)
             \/ \E c \in candidates : SkipCandidate(c) \/ Submit(c)
             \/ Confirmed \/ Expired \/ EndExecute
             \/ CallFails \/ WaitFails
             \/ \E c \in candidates : BalanceFails(c) \/ LiquidateFails(c)
      PROVE  missed' = missed /\ pc' # "position"
  BY <1>8 DEF Wake, LatestLedger, ReadPoolConfig, Assess, AssessRefused, SkipCandidate,
    Submit, Confirmed, Expired, EndExecute, CallFails, WaitFails, BalanceFails,
    LiquidateFails, EndIteration, IsNextCandidate
<1>9. ASSUME missed' = missed, pc' # "position"
      PROVE  NothingMissed'
  BY <1>9 DEF NothingMissed
<1>10. ASSUME \/ \E u \in User, h \in Health, f \in Funds : MarketMoves(u, h, f)
              \/ CloseLedger
              \/ UNCHANGED vars
       PROVE  NothingMissed'
  <2>1. UNCHANGED <<missed, pc, lastSeen, response, firstLedger, latest, events>>
    BY <1>10 DEF MarketMoves, CloseLedger, vars
  <2> QED
    BY <2>1 DEF NothingMissed
<1>11. ~ \E i \in response : PositionFails(i)
  BY DEF PositionFails
<1> QED
  BY <1>1, <1>2, <1>3, <1>4, <1>5, <1>6, <1>7, <1>8, <1>9, <1>10, <1>11
     DEF Next, BotStep, Failure, World

\* The index is complete, as the bot's README has it, as long as no read of a
\* position fails for good and no page of events ends within a ledger: these two are
\* all that makes the scanner lose a position, whatever restarts, other calls that
\* fail, and events that come between its calls do.
THEOREM BotIndexComplete ==
  ASSUME "position" \notin Failing
  PROVE  Spec /\ []PagesEndWithLedgers => []IndexComplete
<1>1. Init => NothingMissed
  BY DEF Init, Fresh, NothingMissed
<1>2. Inv /\ NothingMissed /\ PagesEndWithLedgers /\ [Next]_vars => NothingMissed'
  BY NextMissesNothing
<1>3. NothingMissed /\ IndexAccurate => IndexComplete
  BY DEF NothingMissed, IndexAccurate, IndexComplete
<1> QED
  BY <1>1, <1>2, <1>3, BotInvariant, BotIndexAccurate, PTL DEF Spec
===============================================================================
