-------------------------- MODULE OracleAdaptor_proofs --------------------------
(***************************************************************************)
(* Theorems about OracleAdaptor, for any feeds, decimals, prices, clocks   *)
(* of the feeds and settings of the admin, and about BlendOracleAdaptor,   *)
(* which answers from it.                                                  *)
(***************************************************************************)
EXTENDS BlendOracleAdaptor, ArithmeticTheorems

\* No feed's report is ahead of the ledger by more than a feed's clock may be.
ClocksWithinSkew ==
  \A f \in Feed, a \in Asset : \E d \in Skew : latest[f][a].time <= now + d

\* The cached price is not younger than the window allows, and the average's
\* samples lie between two observations made since the window began.
AverageOfWindow ==
  \A a \in Asset : cached[a] # None =>
    /\ \E w \in Tuning, d \in Skew :
         cached[a].time <= twap[a].start + w.window + d
    /\ \E x, y \in seen[a] :
         /\ twap[a].start <= x.at /\ twap[a].start <= y.at
         /\ x.price * twap[a].samples <= twap[a].sum
         /\ twap[a].sum <= y.price * twap[a].samples

Inv == TypeOK /\ ClocksWithinSkew /\ AverageOfWindow /\ AlarmHolds

-------------------------------------------------------------------------------
(* What the feeds are asked *)

\* A source is a feed, and its tuning one the admin may choose.
LEMMA SettingsType ==
  ASSUME TypeOK, settings # None
  PROVE  /\ settings.primary \in Feed /\ settings.secondary \in Feed
         /\ settings.tuning \in Tuning
         /\ settings.tuning.window \in Nat /\ settings.tuning.staleness \in Nat
         /\ settings.tuning.deviation \in Nat
<1>1. settings \in Settings
  BY DEF TypeOK
<1> QED
  BY <1>1, OracleAssumption DEF Settings

\* Scaling a usable price gives a natural number.
LEMMA ObservationType ==
  ASSUME TypeOK, settings # None, NEW a \in Asset,
         NEW f \in {settings.primary, settings.secondary}, Usable(f, a)
  PROVE  /\ Observation(f, a) \in CachedPrice
         /\ Observation(f, a).time = latest[f][a].time
         /\ Decimals \in Nat
<1>1. f \in Feed
  BY SettingsType
<1>2. latest[f][a].price \in Nat /\ latest[f][a].time \in Nat
  BY <1>1 DEF TypeOK, Usable
<1>3. PICK g \in Feed : Decimals = DecimalsOf[g]
  BY SettingsType DEF Decimals
<1>4. DecimalsOf[f] \in Nat /\ DecimalsOf[g] \in Nat
  BY <1>1, OracleAssumption
<1> DEFINE k == 10 ^ Distance(DecimalsOf[f], DecimalsOf[g])
<1>5. k \in Nat \ {0}
  BY <1>1, OracleAssumption
<1>6. ScalePrice(latest[f][a].price, DecimalsOf[f], DecimalsOf[g])
        = IF DecimalsOf[f] <= DecimalsOf[g] THEN latest[f][a].price * k
          ELSE latest[f][a].price \div k
  BY <1>4 DEF ScalePrice, Distance
<1> HIDE DEF k
<1>7. latest[f][a].price * k \in Nat /\ latest[f][a].price \div k \in Nat
  BY <1>2, <1>5
<1>8. ScalePrice(latest[f][a].price, DecimalsOf[f], Decimals) \in Nat
  BY <1>3, <1>6, <1>7
<1> QED
  BY <1>2, <1>3, <1>4, <1>8 DEF Observation, CachedPrice

\* What an update caches lies between usable observations, is not stale, and is
\* not farther ahead than a feed's clock.
LEMMA NewPriceFacts ==
  ASSUME Inv, settings # None, NEW a \in Asset, SomeUsable(a)
  PROVE  /\ NewPrice(a) \in CachedPrice
         /\ \E lo, hi \in Observed(a) :
              lo.price <= NewPrice(a).price /\ NewPrice(a).price <= hi.price
         /\ \E d \in Skew : NewPrice(a).time <= now + d
         /\ Elapsed(NewPrice(a).time) <= settings.tuning.staleness
<1> USE DEF Inv
<1> DEFINE P == settings.primary
           S == settings.secondary
           O(f) == [at |-> now, price |-> Observation(f, a).price,
                    decimals |-> Decimals]
<1>1. now \in Nat /\ Skew \subseteq Int /\ P \in Feed /\ S \in Feed
      /\ settings.tuning.staleness \in Nat
  BY SettingsType, OracleAssumption DEF TypeOK
<1>2. ASSUME NEW f \in {P, S}, Usable(f, a)
      PROVE  /\ Observation(f, a).price \in Nat /\ Observation(f, a).time \in Nat
             /\ Observation(f, a) \in CachedPrice
             /\ \E d \in Skew : Observation(f, a).time <= now + d
             /\ Elapsed(Observation(f, a).time) <= settings.tuning.staleness
             /\ O(f) \in Observed(a)
  <2>1. Observation(f, a) \in CachedPrice
        /\ Observation(f, a).time = latest[f][a].time
    BY <1>2, ObservationType
  <2>2. \E d \in Skew : latest[f][a].time <= now + d
    BY <1>1 DEF ClocksWithinSkew
  <2>3. Elapsed(latest[f][a].time) <= settings.tuning.staleness
    BY <1>2 DEF Usable
  <2>4. O(f) \in Observed(a)
    BY <1>2 DEF Observed
  <2> QED
    BY <2>1, <2>2, <2>3, <2>4 DEF CachedPrice
<1>3. CASE BothUsable(a)
  <2> DEFINE p == Observation(P, a)
             s == Observation(S, a)
             n == (p.price + s.price) \div 2
  <2>1. Usable(P, a) /\ Usable(S, a)
    BY <1>3 DEF BothUsable
  <2>2. /\ p.price \in Nat /\ p.time \in Nat /\ s.price \in Nat /\ s.time \in Nat
        /\ O(P) \in Observed(a) /\ O(S) \in Observed(a)
        /\ \E d \in Skew : p.time <= now + d
        /\ Elapsed(p.time) <= settings.tuning.staleness
        /\ Elapsed(s.time) <= settings.tuning.staleness
    BY <1>2, <2>1
  <2>3. NewPrice(a) = [price |-> n, time |-> Lower(p.time, s.time)]
    BY <1>3 DEF NewPrice
  <2> HIDE DEF p, s
  <2>4. /\ n \in Nat
        /\ p.price <= s.price => p.price <= n /\ n <= s.price
        /\ s.price <= p.price => s.price <= n /\ n <= p.price
    BY <2>2
  <2>5. Lower(p.time, s.time) \in {p.time, s.time}
        /\ Lower(p.time, s.time) <= p.time
    BY <2>2 DEF Lower
  <2> HIDE DEF n
  <2>6. O(P).price = p.price /\ O(S).price = s.price
    BY DEF p, s
  <2>7. \E lo, hi \in Observed(a) : lo.price <= n /\ n <= hi.price
    <3>1. CASE p.price <= s.price
      BY <2>2, <2>4, <2>6, <3>1
    <3>2. CASE s.price <= p.price
      BY <2>2, <2>4, <2>6, <3>2
    <3> QED
      BY <2>2, <3>1, <3>2
  <2>8. Lower(p.time, s.time) \in Nat
    BY <2>2, <2>5
  <2>9. \E d \in Skew : Lower(p.time, s.time) <= now + d
    BY <1>1, <2>2, <2>5, <2>8
  <2>10. Elapsed(Lower(p.time, s.time)) <= settings.tuning.staleness
    BY <2>2, <2>5
  <2> QED
    BY <2>3, <2>4, <2>7, <2>8, <2>9, <2>10 DEF CachedPrice
<1>4. CASE ~ BothUsable(a)
  <2>1. PICK f \in {P, S} : Usable(f, a) /\ NewPrice(a) = Observation(f, a)
    BY <1>4 DEF NewPrice, SomeUsable, BothUsable
  <2>2. O(f) \in Observed(a) /\ O(f).price = Observation(f, a).price
    BY <1>2, <2>1
  <2> QED
    BY <1>2, <2>1, <2>2
<1> QED
  BY <1>3, <1>4

-------------------------------------------------------------------------------
(* The average *)

\* The next average: its samples lie between observations made in its window, of
\* which those of the past are recent enough to be kept in the history.
LEMMA AverageExtends ==
  ASSUME Inv, settings # None, NEW a \in Asset, SomeUsable(a)
  PROVE  LET t == AddSample(a, NewPrice(a).price)
         IN  /\ t \in TwapState /\ t.start <= now
             /\ \E w \in Tuning : now <= t.start + w.window
             /\ \E x, y \in Recent(a) \cup Observed(a) :
                  /\ t.start <= x.at /\ t.start <= y.at
                  /\ x.price * t.samples <= t.sum
                  /\ t.sum <= y.price * t.samples
<1> USE DEF Inv
<1> DEFINE n == NewPrice(a).price
           t == AddSample(a, n)
<1>1. PICK lo \in Observed(a), hi \in Observed(a) : lo.price <= n /\ n <= hi.price
  BY NewPriceFacts
<1>2. n \in Nat
  BY NewPriceFacts DEF CachedPrice
<1>3. \A o \in Observed(a) : o.at = now /\ o.price \in Nat
  BY ObservationType DEF Observed, CachedPrice
<1>4. /\ now \in Nat /\ settings.tuning \in Tuning /\ settings.tuning.window \in Nat
      /\ \A u \in Tuning : u.window \in Nat /\ u.staleness \in Nat
  BY SettingsType, OracleAssumption DEF TypeOK
<1> HIDE DEF n
<1>5. CASE WindowOver(a)
  <2>1. t = [sum |-> n, samples |-> 1, start |-> now]
    BY <1>5 DEF AddSample
  <2>2. lo.price * 1 <= n /\ n <= hi.price * 1
    BY <1>1, <1>2, <1>3
  <2> QED
    BY <1>1, <1>2, <1>3, <1>4, <2>1, <2>2 DEF TwapState, n
<1>6. CASE ~ WindowOver(a)
  <2> DEFINE old == twap[a]
  <2>1. old # None /\ Elapsed(old.start) < settings.tuning.window
    <3>1. old # None /\ ~ (Elapsed(old.start) >= settings.tuning.window)
      BY <1>6 DEF WindowOver
    <3>2. old \in TwapState
      BY <3>1 DEF TypeOK
    <3> QED
      BY <1>4, <3>1, <3>2 DEF Elapsed, TwapState
  <2>2. /\ old \in TwapState /\ old.start <= now
        /\ old.sum \in Nat /\ old.samples \in Nat \ {0} /\ old.start \in Nat
    BY <2>1 DEF TypeOK, TwapState
  <2>3. now - old.start < settings.tuning.window
    BY <1>4, <2>1, <2>2 DEF Elapsed
  <2>4. t = [sum |-> old.sum + n, samples |-> old.samples + 1,
              start |-> old.start]
    BY <1>6 DEF AddSample
  <2>5. /\ t \in TwapState /\ t.start = old.start
        /\ t.sum = old.sum + n /\ t.samples = old.samples + 1
    BY <1>2, <2>2, <2>4 DEF TwapState
  <2>6. cached[a] # None
    BY <2>1 DEF TypeOK
  <2>7. PICK x \in seen[a], y \in seen[a] :
          /\ old.start <= x.at /\ old.start <= y.at
          /\ x.price * old.samples <= old.sum
          /\ old.sum <= y.price * old.samples
    BY <2>6 DEF AverageOfWindow
  <2>8. x.at \in Nat /\ y.at \in Nat /\ x.price \in Nat /\ y.price \in Nat
    BY <2>7 DEF TypeOK
  <2>9. x \in Recent(a) /\ y \in Recent(a)
    <3>1. now - x.at <= settings.tuning.window + settings.tuning.staleness + 0
          /\ now - y.at <= settings.tuning.window + settings.tuning.staleness + 0
      BY <1>4, <2>2, <2>3, <2>7, <2>8
    <3>2. 0 \in Skew
      BY OracleAssumption
    <3> QED
      BY <1>4, <2>7, <3>1, <3>2 DEF Recent
  <2> HIDE DEF old, t
  <2>10. \E low \in Recent(a) \cup Observed(a) :
           t.start <= low.at /\ low.price * t.samples <= t.sum
    <3>1. CASE x.price <= n
      <4>1. x.price * t.samples = x.price * old.samples + x.price
        BY <2>2, <2>5, <2>8
      <4>2. x.price * old.samples \in Nat
        BY <2>2, <2>8
      <4>3. x.price * t.samples <= t.sum
        BY <1>2, <2>2, <2>5, <2>7, <2>8, <3>1, <4>1, <4>2
      <4> QED
        BY <2>5, <2>7, <2>9, <4>3
    <3>2. CASE n < x.price
      <4>1. lo.price * t.samples = lo.price * old.samples + lo.price
        BY <1>1, <1>3, <2>2, <2>5
      <4>2. lo.price <= x.price
        BY <1>1, <1>2, <1>3, <2>8, <3>2
      <4>3. lo.price * old.samples <= x.price * old.samples
        BY <1>1, <1>3, <2>2, <2>8, <4>2, MulMonotone
      <4>4. lo.price * old.samples \in Nat /\ x.price * old.samples \in Nat
        BY <1>1, <1>3, <2>2, <2>8
      <4>5. lo.price * t.samples <= t.sum
        BY <1>1, <1>2, <1>3, <2>2, <2>5, <2>7, <4>1, <4>3, <4>4
      <4>6. t.start <= lo.at
        BY <1>1, <1>3, <2>2, <2>5
      <4> QED
        BY <1>1, <4>5, <4>6
    <3> QED
      BY <1>2, <2>8, <3>1, <3>2
  <2>11. \E high \in Recent(a) \cup Observed(a) :
           t.start <= high.at /\ t.sum <= high.price * t.samples
    <3>1. CASE n <= y.price
      <4>1. y.price * t.samples = y.price * old.samples + y.price
        BY <2>2, <2>5, <2>8
      <4>2. y.price * old.samples \in Nat
        BY <2>2, <2>8
      <4>3. t.sum <= y.price * t.samples
        BY <1>2, <2>2, <2>5, <2>7, <2>8, <3>1, <4>1, <4>2
      <4> QED
        BY <2>5, <2>7, <2>9, <4>3
    <3>2. CASE y.price < n
      <4>1. hi.price * t.samples = hi.price * old.samples + hi.price
        BY <1>1, <1>3, <2>2, <2>5
      <4>2. y.price <= hi.price
        BY <1>1, <1>2, <1>3, <2>8, <3>2
      <4>3. y.price * old.samples <= hi.price * old.samples
        BY <1>1, <1>3, <2>2, <2>8, <4>2, MulMonotone
      <4>4. hi.price * old.samples \in Nat /\ y.price * old.samples \in Nat
        BY <1>1, <1>3, <2>2, <2>8
      <4>5. t.sum <= hi.price * t.samples
        BY <1>1, <1>2, <1>3, <2>2, <2>5, <2>7, <4>1, <4>3, <4>4
      <4>6. t.start <= hi.at
        BY <1>1, <1>3, <2>2, <2>5
      <4> QED
        BY <1>1, <4>5, <4>6
    <3> QED
      BY <1>2, <2>8, <3>1, <3>2
  <2>12. now <= t.start + settings.tuning.window
    BY <1>4, <2>2, <2>3, <2>5
  <2> QED
    BY <1>4, <2>2, <2>5, <2>10, <2>11, <2>12 DEF t, n
<1> QED
  BY <1>5, <1>6

-------------------------------------------------------------------------------
(* The invariant *)

LEMMA InitInv == Init => Inv
<1> SUFFICES ASSUME Init
             PROVE  Inv
  OBVIOUS
<1>1. TypeOK
  <2>1. latest \in [Feed -> [Asset -> [price : Int, time : Nat]]]
    BY DEF Init
  <2>2. up \in [Feed -> SUBSET Call] /\ now \in Nat
    BY DEF Init
  <2>3. /\ cached \in [Asset -> CachedPrice \cup {None}]
        /\ twap \in [Asset -> TwapState \cup {None}]
        /\ \A a \in Asset : cached[a] = None /\ twap[a] = None
    BY DEF Init
  <2>4. seen \in [Asset -> SUBSET [at : Nat, price : Nat, decimals : Nat]]
    BY DEF Init
  <2> QED
    BY <2>1, <2>2, <2>3, <2>4 DEF Init, TypeOK
<1>2. ClocksWithinSkew
  <2>1. 0 \in Skew
    BY OracleAssumption
  <2>2. ASSUME NEW f \in Feed, NEW a \in Asset
        PROVE  latest[f][a].time <= now + 0
    <3>1. latest[f][a] = [price |-> 0, time |-> 0] /\ now = 0
      BY DEF Init
    <3> QED
      BY <3>1
  <2> QED
    BY <2>1, <2>2 DEF ClocksWithinSkew
<1>3. AverageOfWindow /\ AlarmHolds
  BY DEF Init, AverageOfWindow, AlarmHolds
<1> QED
  BY <1>1, <1>2, <1>3 DEF Inv

\* An update that deviates pauses the vault; one that does not goes on with the
\* average.
LEMMA UpdateStep ==
  ASSUME Inv, NEW a \in Asset, UpdatePrice(a)
  PROVE  Inv'
<1> USE DEF Inv
<1>1. settings # None /\ SomeUsable(a)
  BY DEF UpdatePrice
<1>2. CASE EnterSafeMode(a)
  <2>1. UNCHANGED <<settings, cached, twap, seen, mayPause, latest, up, now>>
        /\ paused' = TRUE /\ alarmed' = TRUE
    BY <1>2 DEF EnterSafeMode, SetSafeModeInternal, storage, world
  <2> QED
    BY <2>1 DEF TypeOK, ClocksWithinSkew, AverageOfWindow, AlarmHolds, Call
<1>3. CASE AcceptPrice(a)
  <2> DEFINE new == NewPrice(a)
             t == AddSample(a, new.price)
  <2>1. /\ cached' = [cached EXCEPT ![a] = new]
        /\ twap' = [twap EXCEPT ![a] = t]
        /\ seen' = [seen EXCEPT ![a] = Recent(a) \cup Observed(a)]
        /\ UNCHANGED <<settings, paused, mayPause, alarmed, latest, up, now>>
    BY <1>3 DEF AcceptPrice, vault, world
  <2>2. new \in CachedPrice /\ \E d \in Skew : new.time <= now + d
    BY <1>1, NewPriceFacts
  <2>3. /\ t \in TwapState /\ t.start <= now
        /\ \E w \in Tuning : now <= t.start + w.window
        /\ \E x, y \in Recent(a) \cup Observed(a) :
             /\ t.start <= x.at /\ t.start <= y.at
             /\ x.price * t.samples <= t.sum /\ t.sum <= y.price * t.samples
    BY <1>1, AverageExtends
  <2> HIDE DEF new, t
  <2>4. new # None /\ t # None
    BY <2>2, <2>3, OracleAssumption
  <2>5. Recent(a) \cup Observed(a)
          \subseteq [at : Nat, price : Nat, decimals : Nat]
    <3>1. \A f \in {settings.primary, settings.secondary} : Usable(f, a) =>
            Observation(f, a).price \in Nat /\ Decimals \in Nat
      BY <1>1, ObservationType DEF CachedPrice
    <3>2. Observed(a) \subseteq [at : Nat, price : Nat, decimals : Nat]
      BY <3>1 DEF Observed, TypeOK
    <3> QED
      BY <3>2 DEF Recent, TypeOK
  <2>6. TypeOK'
    BY <2>1, <2>2, <2>3, <2>4, <2>5 DEF TypeOK
  <2>7. ClocksWithinSkew'
    BY <2>1 DEF ClocksWithinSkew
  <2>8. ASSUME NEW b \in Asset, cached'[b] # None
        PROVE  /\ \E w \in Tuning, d \in Skew :
                    cached'[b].time <= twap'[b].start + w.window + d
               /\ \E x, y \in seen'[b] :
                    /\ twap'[b].start <= x.at /\ twap'[b].start <= y.at
                    /\ x.price * twap'[b].samples <= twap'[b].sum
                    /\ twap'[b].sum <= y.price * twap'[b].samples
    <3>1. CASE b = a
      <4>1. cached'[a] = new /\ twap'[a] = t /\ seen'[a] = Recent(a) \cup Observed(a)
        BY <2>1 DEF TypeOK
      <4>2. PICK w \in Tuning, d \in Skew :
              now <= t.start + w.window /\ new.time <= now + d
        BY <2>2, <2>3
      <4>3. /\ now \in Nat /\ t.start \in Nat /\ w.window \in Nat /\ d \in Int
            /\ new.time \in Nat
        BY <2>2, <2>3, OracleAssumption DEF TypeOK, TwapState, CachedPrice
      <4>4. new.time <= t.start + w.window + d
        BY <4>2, <4>3
      <4> QED
        BY <2>3, <3>1, <4>1, <4>4
    <3>2. CASE b # a
      <4>1. cached'[b] = cached[b] /\ twap'[b] = twap[b] /\ seen'[b] = seen[b]
        BY <2>1, <3>2 DEF TypeOK
      <4> QED
        BY <2>8, <4>1 DEF AverageOfWindow
    <3> QED
      BY <3>1, <3>2
  <2>9. AverageOfWindow' /\ AlarmHolds'
    BY <2>1, <2>8 DEF AverageOfWindow, AlarmHolds
  <2> QED
    BY <2>6, <2>7, <2>9
<1> QED
  BY <1>2, <1>3 DEF UpdatePrice

LEMMA StepInv == Inv /\ [Next]_vars => Inv'
<1> SUFFICES ASSUME Inv, [Next]_vars
             PROVE  Inv'
  OBVIOUS
<1> USE DEF Inv
<1>1. ASSUME NEW pair \in Sources, Initialize(pair[1], pair[2])
      PROVE  Inv'
  <2>1. /\ settings' = [primary |-> pair[1], secondary |-> pair[2],
                        tuning |-> DefaultTuning]
        /\ UNCHANGED <<cached, twap, seen, paused, mayPause, alarmed, latest, up,
                       now>>
    BY <1>1 DEF Initialize, storage, vault, world
  <2>2. settings' \in Settings
    BY <2>1, OracleAssumption DEF Settings
  <2> QED
    BY <2>1, <2>2 DEF TypeOK, ClocksWithinSkew, AverageOfWindow, AlarmHolds
<1>2. ASSUME NEW pair \in Sources, NEW tuning \in Tuning,
             Configure(pair[1], pair[2], tuning)
      PROVE  Inv'
  <2>1. /\ settings' = [primary |-> pair[1], secondary |-> pair[2],
                        tuning |-> tuning]
        /\ UNCHANGED <<cached, twap, seen, paused, mayPause, alarmed, latest, up,
                       now>>
    BY <1>2 DEF Configure, storage, vault, world
  <2>2. settings' \in Settings
    BY <2>1, OracleAssumption DEF Settings
  <2> QED
    BY <2>1, <2>2 DEF TypeOK, ClocksWithinSkew, AverageOfWindow, AlarmHolds
<1>3. ASSUME NEW a \in Asset, UpdatePrice(a)
      PROVE  Inv'
  BY <1>3, UpdateStep
<1>4. ASSUME NEW a \in Asset, Evict(a)
      PROVE  Inv'
  <2>1. /\ cached' = [cached EXCEPT ![a] = None]
        /\ twap' = [twap EXCEPT ![a] = None]
        /\ UNCHANGED <<settings, seen, paused, mayPause, alarmed, latest, up, now>>
    BY <1>4 DEF Evict, vault, world
  <2>2. TypeOK'
    BY <2>1 DEF TypeOK
  <2> QED
    BY <2>1, <2>2 DEF TypeOK, ClocksWithinSkew, AverageOfWindow, AlarmHolds
<1>5. ASSUME NEW b \in Pausing, SetSafeMode(b) \/ VaultSetPaused(b) \/ VaultSetRole(b)
      PROVE  Inv'
  <2>1. b \in BOOLEAN
    BY OracleAssumption
  <2>2. UNCHANGED <<settings, cached, twap, seen, latest, up, now>>
    BY <1>5 DEF SetSafeMode, VaultSetPaused, VaultSetRole, storage, world
  <2>3. /\ paused' \in BOOLEAN /\ mayPause' \in BOOLEAN /\ alarmed' \in BOOLEAN
        /\ AlarmHolds'
    BY <1>5, <2>1 DEF SetSafeMode, SetSafeModeInternal, VaultSetPaused, VaultSetRole,
                      TypeOK, AlarmHolds
  <2> QED
    BY <2>2, <2>3 DEF TypeOK, ClocksWithinSkew, AverageOfWindow
<1>6. ASSUME NEW f \in Feed, NEW a \in Asset, NEW p \in Price, NEW d \in Skew,
             Report(f, a, p, d)
      PROVE  Inv'
  <2>1. /\ latest' = [latest EXCEPT ![f][a] = [price |-> p, time |-> now + d]]
        /\ now + d >= 0
        /\ UNCHANGED <<settings, cached, twap, seen, paused, mayPause, alarmed, up,
                       now>>
    BY <1>6 DEF Report, storage, vault
  <2>2. now \in Nat /\ d \in Int /\ p \in Int
    BY OracleAssumption DEF TypeOK
  <2>3. [price |-> p, time |-> now + d] \in [price : Int, time : Nat]
    BY <2>1, <2>2
  <2>4. TypeOK'
    BY <2>1, <2>3 DEF TypeOK
  <2>5. ClocksWithinSkew'
    <3>1. ASSUME NEW g \in Feed, NEW b \in Asset
          PROVE  \E e \in Skew : latest'[g][b].time <= now + e
      <4>1. CASE g = f /\ b = a
        <5>1. latest'[g][b].time = now + d
          BY <2>1, <4>1 DEF TypeOK
        <5> QED
          BY <2>2, <5>1
      <4>2. CASE ~ (g = f /\ b = a)
        <5>1. latest'[g][b] = latest[g][b]
          BY <2>1, <4>2 DEF TypeOK
        <5> QED
          BY <5>1 DEF ClocksWithinSkew
      <4> QED
        BY <4>1, <4>2
    <3> QED
      BY <2>1, <3>1 DEF ClocksWithinSkew
  <2> QED
    BY <2>1, <2>4, <2>5 DEF AverageOfWindow, AlarmHolds
<1>7. ASSUME NEW f \in Feed, NEW calls \in Working, Answers(f, calls)
      PROVE  Inv'
  <2>1. /\ up' = [up EXCEPT ![f] = calls]
        /\ UNCHANGED <<settings, cached, twap, seen, paused, mayPause, alarmed,
                       latest, now>>
    BY <1>7 DEF Answers, storage, vault
  <2>2. calls \in SUBSET Call
    BY OracleAssumption
  <2> QED
    BY <2>1, <2>2 DEF TypeOK, ClocksWithinSkew, AverageOfWindow, AlarmHolds
<1>8. ASSUME CloseLedger
      PROVE  Inv'
  <2>1. /\ now' = now + 1
        /\ UNCHANGED <<settings, cached, twap, seen, paused, mayPause, alarmed,
                       latest, up>>
    BY <1>8 DEF CloseLedger, storage, vault
  <2>2. now \in Nat
    BY DEF TypeOK
  <2>3. \A b \in Asset : twap[b] # None => twap[b].start <= now'
    BY <2>1, <2>2 DEF TypeOK, TwapState
  <2>4. TypeOK'
    BY <2>1, <2>2, <2>3 DEF TypeOK
  <2>5. ASSUME NEW f \in Feed, NEW a \in Asset
        PROVE  \E d \in Skew : latest[f][a].time <= now' + d
    <3>1. PICK d \in Skew : latest[f][a].time <= now + d
      BY DEF ClocksWithinSkew
    <3>2. latest[f][a].time \in Nat /\ d \in Int
      BY OracleAssumption DEF TypeOK
    <3> QED
      BY <2>1, <2>2, <3>1, <3>2
  <2>6. ClocksWithinSkew'
    BY <2>1, <2>5 DEF ClocksWithinSkew
  <2> QED
    BY <2>1, <2>4, <2>6 DEF AverageOfWindow, AlarmHolds
<1>9. CASE UNCHANGED vars
  BY <1>9 DEF vars, storage, vault, world, TypeOK, ClocksWithinSkew,
              AverageOfWindow, AlarmHolds
<1> QED
  BY <1>1, <1>2, <1>3, <1>4, <1>5, <1>6, <1>7, <1>8, <1>9 DEF Next

-------------------------------------------------------------------------------
(* Theorems *)

\* Every reachable state meets the invariant.
THEOREM OracleInvariant == Spec => []Inv
<1> QED
  BY InitInv, StepInv, PTL DEF Spec

\* The storage, the vault's flags and the history keep their types, and an
\* average always has samples.
THEOREM OracleTypeOK == Spec => []TypeOK
<1>1. Inv => TypeOK
  BY DEF Inv
<1> QED
  BY <1>1, OracleInvariant, PTL

\* What lastprice serves lies between two prices that the sources reported within
\* a window and a staleness, whatever failed or was configured since.
THEOREM OracleServesRecentPrices == Spec => []ServedWithinRecentPrices
<1>1. ASSUME Inv, NEW a \in Asset, Serves(a)
      PROVE  \E x, y \in Recent(a) :
               x.price <= ServedPrice(a) /\ ServedPrice(a) <= y.price
  <2> USE DEF Inv
  <2>1. settings # None /\ cached[a] # None
        /\ Elapsed(cached[a].time) <= settings.tuning.staleness
    BY <1>1 DEF Serves
  <2>2. twap[a] # None
    BY <1>1, <2>1 DEF TypeOK
  <2>3. /\ cached[a].time \in Nat /\ twap[a].start \in Nat /\ twap[a].sum \in Nat
        /\ twap[a].samples \in Nat \ {0} /\ now \in Nat
    BY <1>1, <2>1, <2>2 DEF TypeOK, CachedPrice, TwapState
  <2>4. PICK w \in Tuning, d \in Skew :
          cached[a].time <= twap[a].start + w.window + d
    BY <1>1, <2>1 DEF AverageOfWindow
  <2>5. PICK x \in seen[a], y \in seen[a] :
          /\ twap[a].start <= x.at /\ twap[a].start <= y.at
          /\ x.price * twap[a].samples <= twap[a].sum
          /\ twap[a].sum <= y.price * twap[a].samples
    BY <1>1, <2>1 DEF AverageOfWindow
  <2>6. x.at \in Nat /\ y.at \in Nat /\ x.price \in Nat /\ y.price \in Nat
    BY <1>1, <2>5 DEF TypeOK
  <2>7. x \in Recent(a) /\ y \in Recent(a)
    <3>1. /\ settings.tuning \in Tuning /\ settings.tuning.staleness \in Nat
          /\ w.window \in Nat /\ d \in Int
      BY <1>1, <2>1, SettingsType, OracleAssumption
    <3>2. now - cached[a].time <= settings.tuning.staleness
      BY <2>1, <2>3, <3>1 DEF Elapsed
    <3>3. /\ now - x.at <= w.window + settings.tuning.staleness + d
          /\ now - y.at <= w.window + settings.tuning.staleness + d
      BY <2>3, <2>4, <2>5, <2>6, <3>1, <3>2
    <3> QED
      BY <2>5, <3>1, <3>3 DEF Recent
  <2>8. ServedPrice(a) = twap[a].sum \div twap[a].samples
    BY <2>2 DEF ServedPrice
  <2>9. x.price <= twap[a].sum \div twap[a].samples
    BY <2>3, <2>5, <2>6, QuotientBound
  <2>10. twap[a].sum \div twap[a].samples <= y.price
    <3>1. ~ (y.price + 1 <= twap[a].sum \div twap[a].samples)
      <4>1. (y.price + 1) * twap[a].samples
              = y.price * twap[a].samples + twap[a].samples
        BY <2>3, <2>6, OneMore
      <4>2. y.price * twap[a].samples \in Nat
        BY <2>3, <2>6
      <4>3. ~ ((y.price + 1) * twap[a].samples <= twap[a].sum)
        BY <2>3, <2>5, <4>1, <4>2
      <4>4. y.price + 1 \in Nat
        BY <2>6
      <4> QED
        BY <2>3, <4>3, <4>4, QuotientBound
    <3>2. twap[a].sum \div twap[a].samples \in Nat
      BY <2>3
    <3> QED
      BY <2>6, <3>1, <3>2
  <2> QED
    BY <2>7, <2>8, <2>9, <2>10
<1>2. Inv => ServedWithinRecentPrices
  BY <1>1 DEF ServedWithinRecentPrices
<1> QED
  BY <1>2, OracleInvariant, PTL

\* A deviation keeps the vault paused until someone asks to unpause it.
THEOREM OracleAlarmHolds == Spec => []AlarmHolds
<1>1. Inv => AlarmHolds
  BY DEF Inv
<1> QED
  BY <1>1, OracleInvariant, PTL

\* Only AcceptPrice puts a price into the cache.
LEMMA CachedByUpdate ==
  ASSUME Inv, [Next]_vars, NEW a \in Asset, cached'[a] \notin {cached[a], None}
  PROVE  /\ settings # None /\ SomeUsable(a) /\ AcceptPrice(a)
         /\ cached'[a] = NewPrice(a)
<1>1. cached' # cached
  OBVIOUS
<1>2. PICK b \in Asset : UpdatePrice(b) \/ Evict(b)
  BY <1>1 DEF Next, vars, storage, Initialize, Configure, SetSafeMode,
              VaultSetPaused, VaultSetRole, Report, Answers, CloseLedger
<1>3. \A c \in Asset : Evict(b) => cached'[c] \in {cached[c], None}
  BY DEF Evict, Inv, TypeOK
<1>4. UpdatePrice(b) /\ AcceptPrice(b)
  BY <1>1, <1>2, <1>3 DEF UpdatePrice, EnterSafeMode, storage
<1>5. cached' = [cached EXCEPT ![b] = NewPrice(b)]
  BY <1>4 DEF AcceptPrice
<1>6. b = a /\ cached'[a] = NewPrice(a)
  BY <1>5 DEF Inv, TypeOK
<1> QED
  BY <1>4, <1>6 DEF UpdatePrice

\* What an update takes from the sources, lastprice serves.
THEOREM OracleUpdateServable == Spec => UpdateMakesServable
<1>1. ASSUME Inv, [Next]_vars, NEW a \in Asset,
             cached'[a] \notin {cached[a], None}
      PROVE  Serves(a)'
  <2>1. /\ settings # None /\ SomeUsable(a) /\ AcceptPrice(a)
        /\ cached'[a] = NewPrice(a)
    BY <1>1, CachedByUpdate
  <2>2. Elapsed(NewPrice(a).time) <= settings.tuning.staleness
    BY <1>1, <2>1, NewPriceFacts
  <2>3. settings' = settings /\ now' = now
    BY <2>1 DEF AcceptPrice, world
  <2> QED
    BY <1>1, <2>1, <2>2, <2>3 DEF Serves, Elapsed
<1>2. Inv /\ [Next]_vars =>
        [\A a \in Asset : cached'[a] \notin {cached[a], None} => Serves(a)']_vars
  BY <1>1
<1> QED
  BY <1>2, OracleInvariant, PTL DEF Spec, UpdateMakesServable

\* A price cached while both sources are live lies between them, and they are
\* closer than the deviation allowed and a basis point.
THEOREM OracleAcceptsAgreedPrices == Spec => AcceptedNearSources
<1> DEFINE P == settings.primary
           S == settings.secondary
           Near(a, f, g) ==
             LET low == Observation(f, a).price  high == Observation(g, a).price
             IN  /\ low <= cached'[a].price /\ cached'[a].price <= high
                 /\ (high - low) * BpsDenominator
                      < (settings.tuning.deviation + 1) * low
                 /\ \A h \in {P, S} : Observation(h, a).price \in low .. high
<1>1. ASSUME Inv, [Next]_vars, NEW a \in Asset,
             cached'[a] \notin {cached[a], None}, BothUsable(a)
      PROVE  \E f, g \in {P, S} : Near(a, f, g)
  <2> DEFINE p == Observation(P, a).price
             s == Observation(S, a).price
             dev == settings.tuning.deviation
             dist == Distance(p, s)
             base == Lower(p, s)
  <2>1. /\ settings # None /\ AcceptPrice(a) /\ cached'[a] = NewPrice(a)
    BY <1>1, CachedByUpdate
  <2>2. p \in Nat /\ s \in Nat /\ dev \in Nat
    BY <1>1, <2>1, ObservationType, SettingsType DEF Inv, BothUsable, CachedPrice
  <2>3. cached'[a].price = (p + s) \div 2
    BY <1>1, <2>1 DEF NewPrice
  <2>4. ~ DeviationExceeded(p, s)
    BY <1>1, <2>1 DEF AcceptPrice
  <2>5. base \in Nat \ {0} /\ ~ ((dist * BpsDenominator) \div base > dev)
    BY <2>2, <2>4 DEF DeviationExceeded, Lower
  <2>6. BpsDenominator \in Nat /\ dist \in Nat
    BY <2>2, OracleAssumption DEF Distance
  <2>7. p <= s => base = p /\ dist = s - p
    BY <2>2 DEF Lower, Distance
  <2>8. s <= p => base = s /\ dist = p - s
    BY <2>2 DEF Lower, Distance
  <2>9. dist * BpsDenominator < (dev + 1) * base
    <3> HIDE DEF dist, base, dev
    <3>1. dist * BpsDenominator \in Nat /\ dev + 1 \in Nat
      BY <2>2, <2>6
    <3>2. (dist * BpsDenominator) \div base \in Nat
      BY <2>5, <3>1
    <3>3. ~ (dev + 1 <= (dist * BpsDenominator) \div base)
      BY <2>2, <2>5, <3>2
    <3>4. ~ ((dev + 1) * base <= dist * BpsDenominator)
      BY <2>5, <3>1, <3>3, QuotientBound
    <3>5. (dev + 1) * base \in Nat
      BY <2>5, <3>1
    <3> QED
      BY <3>1, <3>4, <3>5
  <2> HIDE DEF dist, base
  <2>10. CASE p <= s
    <3>1. Near(a, P, S)
      BY <2>2, <2>3, <2>7, <2>9, <2>10
    <3> QED
      BY <3>1
  <2>11. CASE s <= p
    <3>1. Near(a, S, P)
      BY <2>2, <2>3, <2>8, <2>9, <2>11
    <3> QED
      BY <3>1
  <2> QED
    BY <2>2, <2>10, <2>11
<1>2. Inv /\ [Next]_vars =>
        [\A a \in Asset : cached'[a] \notin {cached[a], None} /\ BothUsable(a) =>
           \E f, g \in {P, S} : Near(a, f, g)]_vars
  BY <1>1
<1> QED
  BY <1>2, OracleInvariant, PTL DEF Spec, AcceptedNearSources

-------------------------------------------------------------------------------
(* The decimals of a price served *)

\* Feeds as all tests configure them: each answers the same to decimals.
SameDecimals == \A f, g \in Feed : DecimalsOf[f] = DecimalsOf[g]

\* Every observation is in the decimals of any source there may be.
SampledAlike ==
  \A a \in Asset : \A o \in seen[a] : \A f \in Feed : o.decimals = DecimalsOf[f]

LEMMA DeclaredAlike ==
  ASSUME SameDecimals, TypeOK, settings # None, NEW f \in Feed
  PROVE  Decimals = DecimalsOf[f] /\ Decimals \in Nat
<1>1. PICK g \in Feed : Decimals = DecimalsOf[g]
  BY SettingsType DEF Decimals
<1> QED
  BY <1>1, OracleAssumption DEF SameDecimals

\* A price in the decimals asked for is not scaled.
LEMMA ScaleToSame ==
  ASSUME NEW n \in Nat, NEW d \in Nat
  PROVE  ScalePrice(n, d, d) = n
<1> DEFINE none == d - d
           factor == 10 ^ none
<1>1. none = 0
  OBVIOUS
<1>2. ScalePrice(n, d, d) = n * factor
  BY DEF ScalePrice
<1> HIDE DEF none
<1>3. 10 ^ 0 = 1
  OBVIOUS
<1>4. factor = 1
  BY <1>1, <1>3
<1> HIDE DEF factor
<1> QED
  BY <1>2, <1>4

LEMMA NextSampledAlike ==
  ASSUME SameDecimals, Inv, SampledAlike, [Next]_vars
  PROVE  SampledAlike'
<1>1. CASE seen' = seen
  BY <1>1 DEF SampledAlike
<1>2. CASE seen' # seen
  <2>1. PICK a \in Asset : UpdatePrice(a) /\ AcceptPrice(a)
    BY <1>2 DEF Next, vars, storage, Initialize, Configure, SetSafeMode,
      VaultSetPaused, VaultSetRole, Report, Answers, CloseLedger, Evict, UpdatePrice,
      EnterSafeMode
  <2>2. settings # None /\ seen' = [seen EXCEPT ![a] = Recent(a) \cup Observed(a)]
    BY <2>1 DEF UpdatePrice, AcceptPrice
  <2>3. \A o \in Observed(a), f \in Feed : o.decimals = DecimalsOf[f]
    <3>1. \A o \in Observed(a) : o.decimals = Decimals
      BY DEF Observed
    <3> QED
      BY <2>2, <3>1, DeclaredAlike DEF Inv
  <2>4. \A o \in Recent(a), f \in Feed : o.decimals = DecimalsOf[f]
    BY DEF Recent, SampledAlike
  <2>5. ASSUME NEW b \in Asset, NEW o \in seen'[b], NEW f \in Feed
        PROVE  o.decimals = DecimalsOf[f]
    <3>1. o \in seen[b] \/ (b = a /\ o \in Recent(a) \cup Observed(a))
      BY <2>2, <2>5 DEF Inv, TypeOK
    <3> QED
      BY <2>3, <2>4, <3>1 DEF SampledAlike
  <2> QED
    BY <2>5 DEF SampledAlike
<1> QED
  BY <1>1, <1>2

\* With feeds that all have the same decimals, the vault only takes prices that are
\* in the decimals it is told: an average mixes decimals only where feeds do.
THEOREM OracleDecimalsAgree ==
  ASSUME SameDecimals
  PROVE  Spec => []ServedInDeclaredDecimals
<1>1. Init => SampledAlike
  BY DEF Init, SampledAlike
<1>2. ASSUME Inv, SampledAlike, ServedWithinRecentPrices,
             NEW a \in Asset, VaultAccepts(a)
      PROVE  \E x, y \in Recent(a) :
               /\ ScalePrice(x.price, x.decimals, Decimals) <= ServedPrice(a)
               /\ ServedPrice(a) <= ScalePrice(y.price, y.decimals, Decimals)
  <2>1. Serves(a) /\ settings # None
    BY <1>2 DEF VaultAccepts, AnswersVault, Serves
  <2>2. PICK x \in Recent(a), y \in Recent(a) :
          x.price <= ServedPrice(a) /\ ServedPrice(a) <= y.price
    BY <1>2, <2>1 DEF ServedWithinRecentPrices
  <2>3. ASSUME NEW o \in Recent(a)
        PROVE  ScalePrice(o.price, o.decimals, Decimals) = o.price
    <3>1. o \in seen[a] /\ o.price \in Nat
      BY <1>2 DEF Recent, Inv, TypeOK
    <3>2. o.decimals = Decimals /\ Decimals \in Nat
      BY <1>2, <2>1, <3>1, DeclaredAlike, SettingsType DEF Inv, SampledAlike
    <3> QED
      BY <3>1, <3>2, ScaleToSame
  <2> QED
    BY <2>2, <2>3
<1>3. Inv /\ SampledAlike /\ ServedWithinRecentPrices => ServedInDeclaredDecimals
  BY <1>2 DEF ServedInDeclaredDecimals
<1>4. Inv /\ SampledAlike /\ [Next]_vars => SampledAlike'
  BY NextSampledAlike
<1> QED
  BY <1>1, <1>3, <1>4, OracleInvariant, OracleServesRecentPrices, PTL DEF Spec

-------------------------------------------------------------------------------
(* One source is enough *)

\* What update_price leaves behind: an alarm, or one more sample
Updated(a) ==
  IF /\ BothUsable(a)
     /\ DeviationExceeded(Observation(settings.primary, a).price,
                          Observation(settings.secondary, a).price)
  THEN /\ paused' = TRUE /\ alarmed' = TRUE
       /\ UNCHANGED <<settings, storage, mayPause, world>>
  ELSE /\ cached' = [cached EXCEPT ![a] = NewPrice(a)]
       /\ twap' = [twap EXCEPT ![a] = AddSample(a, NewPrice(a).price)]
       /\ seen' = [seen EXCEPT ![a] = Recent(a) \cup Observed(a)]
       /\ UNCHANGED <<settings, vault, world>>

\* Products with the smaller of two numbers fit where those with the larger do.
LEMMA SmallFits ==
  ASSUME NEW m \in Nat, NEW n \in Nat, m <= n,
         2 * (n * BpsDenominator) <= MaxI128
  PROVE  2 * m <= MaxI128 /\ m * BpsDenominator <= MaxI128
<1>1. BpsDenominator \in Nat /\ 1 <= BpsDenominator /\ MaxI128 \in Nat
  BY OracleAssumption
<1>2. m * BpsDenominator <= n * BpsDenominator /\ m * 1 <= m * BpsDenominator
  BY <1>1, MulMonotone
<1>3. m * BpsDenominator \in Nat /\ n * BpsDenominator \in Nat /\ m * 1 = m
  BY <1>1
<1> QED
  BY <1>1, <1>2, <1>3

\* Whenever one source can be used, an update goes through, whatever the other
\* source and the time do: it takes the price, or pauses the vault.  The adaptor
\* must hold the vault's role, and prices and sum must be far enough from the
\* limit of i128, which they are for any price below 2 ^ 112 and any sum below
\* 2 ^ 126 when the deviation is measured in basis points.
THEOREM OracleOneSourceIsEnough ==
  ASSUME Inv, NEW a \in Asset, settings # None, mayPause, SomeUsable(a),
         \A f \in {settings.primary, settings.secondary} : Usable(f, a) =>
           2 * (Observation(f, a).price * BpsDenominator) <= MaxI128,
         twap[a] # None =>
           2 * twap[a].sum <= MaxI128 /\ twap[a].samples < MaxSamples,
         MaxSamples # 0,
         Updated(a)
  PROVE  UpdatePrice(a)
<1> USE DEF Inv
<1> DEFINE P == settings.primary
           S == settings.secondary
           l == Observation(P, a).price
           r == Observation(S, a).price
           n == NewPrice(a).price
<1>1. ASSUME NEW f \in {P, S}, Usable(f, a)
      PROVE  /\ Observation(f, a).price \in Nat
             /\ 2 * (Observation(f, a).price * BpsDenominator) <= MaxI128
  BY <1>1, ObservationType DEF CachedPrice
<1>2. ScalingFits(a)
  <2>1. ASSUME NEW f \in {P, S}, Usable(f, a)
        PROVE  Observation(f, a).price <= MaxI128
    <3> DEFINE p == Observation(f, a).price
    <3>1. p \in Nat /\ 2 * (p * BpsDenominator) <= MaxI128
      BY <1>1, <2>1
    <3> HIDE DEF p
    <3>2. 2 * p <= MaxI128 /\ MaxI128 \in Nat
      BY <3>1, SmallFits, OracleAssumption
    <3>3. p <= MaxI128
      BY <3>1, <3>2
    <3> QED
      BY <3>3 DEF p
  <2> QED
    BY <2>1 DEF ScalingFits, FitsI128
<1>3. ASSUME BothUsable(a)
      PROVE  FitsI128(Distance(l, r) * BpsDenominator) /\ FitsI128(l + r)
  <2>1. /\ l \in Nat /\ r \in Nat
        /\ 2 * (l * BpsDenominator) <= MaxI128 /\ 2 * (r * BpsDenominator) <= MaxI128
    BY <1>1, <1>3 DEF BothUsable
  <2> HIDE DEF l, r
  <2>2. /\ Distance(l, r) \in Nat
        /\ Distance(l, r) <= l \/ Distance(l, r) <= r
    BY <2>1 DEF Distance
  <2>3. Distance(l, r) * BpsDenominator <= MaxI128
    BY <2>1, <2>2, SmallFits
  <2>4. 2 * l <= MaxI128 /\ 2 * r <= MaxI128 /\ MaxI128 \in Nat
    BY <2>1, SmallFits, OracleAssumption
  <2>5. l + r <= MaxI128
    BY <2>1, <2>4
  <2> QED
    BY <2>3, <2>5 DEF FitsI128
<1>4. n \in Nat /\ 2 * n <= MaxI128
  <2>1. PICK hi \in Observed(a) : n <= hi.price
    BY NewPriceFacts
  <2>2. PICK f \in {P, S} : Usable(f, a) /\ hi.price = Observation(f, a).price
    BY <2>1 DEF Observed
  <2>3. n \in Nat
    BY NewPriceFacts DEF CachedPrice
  <2> QED
    BY <1>1, <2>1, <2>2, <2>3, SmallFits
<1> HIDE DEF n
<1>5. FitsI128(AddSample(a, n).sum) /\ AddSample(a, n).samples <= MaxSamples
  <2>1. MaxSamples \in Nat \ {0} /\ MaxI128 \in Nat
    BY OracleAssumption
  <2>2. CASE WindowOver(a)
    <3>1. AddSample(a, n).sum = n /\ AddSample(a, n).samples = 1
      BY <2>2 DEF AddSample
    <3> QED
      BY <1>4, <2>1, <3>1 DEF FitsI128
  <2>3. CASE ~ WindowOver(a)
    <3>1. twap[a] # None
      BY <2>3 DEF WindowOver
    <3>2. twap[a].sum \in Nat /\ twap[a].samples \in Nat
      BY <3>1 DEF TypeOK, TwapState
    <3>3. /\ AddSample(a, n).sum = twap[a].sum + n
          /\ AddSample(a, n).samples = twap[a].samples + 1
      BY <2>3 DEF AddSample
    <3> QED
      BY <1>4, <2>1, <3>1, <3>2, <3>3 DEF FitsI128
  <2> QED
    BY <2>2, <2>3
<1>6. CASE BothUsable(a) /\ DeviationExceeded(l, r)
  <2>1. EnterSafeMode(a)
    BY <1>3, <1>6 DEF Updated, EnterSafeMode, SetSafeModeInternal
  <2> QED
    BY <1>2, <2>1 DEF UpdatePrice
<1>7. CASE ~ (BothUsable(a) /\ DeviationExceeded(l, r))
  <2>1. AcceptPrice(a)
    BY <1>3, <1>5, <1>7 DEF Updated, AcceptPrice, n
  <2> QED
    BY <1>2, <2>1 DEF UpdatePrice
<1> QED
  BY <1>6, <1>7

-------------------------------------------------------------------------------
(* The adaptor for Blend *)

\* Whatever is done to the adaptor for Blend or to the mock oracle, the oracle
\* adaptor behind it behaves as on its own.
THEOREM BlendImplementsOracle == BlendSpec => Spec
<1>1. BlendInit => Init
  BY DEF BlendInit
<1>2. [BlendNext]_blendVars => [Next]_vars
  BY DEF BlendNext, blendVars, InitializeBlend, SetHelixOracle, SetAssets, SetPrice
<1> QED
  BY <1>1, <1>2, PTL DEF BlendSpec, Spec

\* lastprice gives a Blend pool a positive price, which is what the mock was last
\* told or lies between prices that sources reported recently, whatever was listed,
\* switched over or evicted in between.
THEOREM BlendServesReportedPrices == BlendSpec => []BlendPricesReported
<1>1. ServedWithinRecentPrices => BlendPricesReported
  <2> SUFFICES ASSUME ServedWithinRecentPrices, NEW a \in Asset, LastPrice(a) # None
               PROVE  /\ LastPrice(a).price > 0
                      /\ blend.oracle = "mock" => LastPrice(a) = mockPrice[a]
                      /\ blend.oracle = "adaptor" =>
                           \E x, y \in Recent(a) : /\ x.price <= LastPrice(a).price
                                                   /\ LastPrice(a).price <= y.price
    BY DEF BlendPricesReported
  <2>1. /\ LastPrice(a) = HelixPrice(a)
        /\ HelixAnswers(a) /\ HelixPrice(a).price > 0
    BY DEF LastPrice
  <2>2. ASSUME blend.oracle = "mock"
        PROVE  HelixPrice(a) = mockPrice[a]
    BY <2>1, <2>2 DEF HelixPrice, MockLastPrice
  <2>3. ASSUME blend.oracle = "adaptor"
        PROVE  \E x, y \in Recent(a) :
                 x.price <= HelixPrice(a).price /\ HelixPrice(a).price <= y.price
    <3>1. Serves(a) /\ HelixPrice(a).price = ServedPrice(a)
      BY <2>1, <2>3 DEF HelixAnswers, HelixPrice
    <3>2. \E x, y \in Recent(a) :
            x.price <= ServedPrice(a) /\ ServedPrice(a) <= y.price
      BY <3>1 DEF ServedWithinRecentPrices
    <3> QED
      BY <3>1, <3>2
  <2> QED
    BY <2>1, <2>2, <2>3
<1> QED
  BY <1>1, BlendImplementsOracle, OracleServesRecentPrices, PTL
===============================================================================
