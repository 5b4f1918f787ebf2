----------------------------- MODULE OracleAdaptor -----------------------------
(***************************************************************************)
(* The oracle adaptor (contracts/oracle-adaptor/src/lib.rs): it asks two   *)
(* price feeds, caches what they agree on, averages the prices of a        *)
(* window, and pauses the vault when the feeds deviate.                    *)
(*                                                                         *)
(* The feeds are external contracts whose two calls may fail separately.   *)
(* update_price may be called by anyone at any time.  The vault is seen    *)
(* through its pause flag and the role the adaptor needs to change it.  A  *)
(* call that panics, in the adaptor or in the vault, is undone and is no   *)
(* step.                                                                   *)
(***************************************************************************)
EXTENDS Integers

CONSTANTS
  Asset,
  Feed,             \* price feeds that can be configured as sources
  DecimalsOf,       \* [Feed -> Nat], what each answers to decimals
  Price,            \* prices the feeds report; zero and below mean no price
  Sources,          \* pairs of feeds the admin configures
  Working,          \* sets of calls of a feed that work at one time
  Pausing,          \* what vault and admin set the flag and the role to
  Skew,             \* by how much the time of a report differs from the ledger's
  Tuning,           \* [window, staleness, deviation] settings of the admin
  DefaultTuning,
  BpsDenominator,
  MaxI128,
  OracleDecimals, OracleStaleWindow,  \* what the vault insists on
  MaxTime, MaxSamples,  \* bounds of the model
  None

Call == {"decimals", "lastprice"}

Lower(m, n) == IF m <= n THEN m ELSE n
Distance(m, n) == IF m <= n THEN n - m ELSE m - n

Settings == [primary : Feed, secondary : Feed, tuning : Tuning]
CachedPrice == [price : Nat, time : Nat]
TwapState == [sum : Nat, samples : Nat \ {0}, start : Nat]

ASSUME OracleAssumption ==
  /\ DecimalsOf \in [Feed -> Nat]
  /\ Price \subseteq Int
  /\ Sources \subseteq Feed \X Feed /\ Working \subseteq SUBSET Call
  /\ Pausing \subseteq BOOLEAN
  /\ Skew \subseteq Int /\ 0 \in Skew
  /\ Tuning \subseteq [window : Nat, staleness : Nat, deviation : Nat]
  /\ DefaultTuning \in Tuning
  /\ BpsDenominator \in Nat \ {0}
  /\ MaxI128 \in Nat /\ MaxTime \in Nat /\ MaxSamples \in Nat
  /\ OracleDecimals \in Nat /\ OracleStaleWindow \in Nat
  /\ \A f, g \in Feed : 10 ^ Distance(DecimalsOf[f], DecimalsOf[g]) \in Nat \ {0}
  /\ None \notin Settings \cup CachedPrice \cup TwapState

VARIABLES
  settings,   \* instance storage: the two sources and the tuning, or None
  cached,     \* CachedPrice: [Asset -> [price, time]], or None
  twap,       \* TWAPState: [Asset -> [sum, samples, start]], or None
  paused, mayPause,   \* the vault's pause flag; does the adaptor hold the role
  latest, up, now,    \* last report and working calls of each feed; ledger time
  seen,       \* history: the observations that accepted prices were made of
  alarmed     \* history: deviation found, and no unpause asked for since

storage == <<cached, twap, seen>>
vault == <<paused, mayPause, alarmed>>
world == <<latest, up, now>>
vars == <<settings, storage, vault, world>>

Init ==
  /\ settings = None
  /\ cached = [a \in Asset |-> None] /\ twap = [a \in Asset |-> None]
  /\ paused = FALSE /\ mayPause \in BOOLEAN /\ alarmed = FALSE
  /\ latest = [f \in Feed |-> [a \in Asset |-> [price |-> 0, time |-> 0]]]
  /\ up = [f \in Feed |-> Call]
  /\ now = 0
  /\ seen = [a \in Asset |-> {}]

-------------------------------------------------------------------------------
(* Asking the feeds *)

FitsI128(n) == n <= MaxI128

\* The saturating difference between the ledger's time and t
Elapsed(t) == IF now >= t THEN now - t ELSE 0

\* Mutant: a report is used however old it is.
UsableAtAnyAge(f, a) == up[f] = Call /\ latest[f][a].price > 0

\* fetch_observation: both calls answer, the price is positive and not stale
Usable(f, a) ==
  /\ up[f] = Call
  /\ latest[f][a].price > 0
  /\ Elapsed(latest[f][a].time) <= settings.tuning.staleness

\* canonical_decimals, and what decimals answers: those of the first source that
\* tells any
Decimals ==
  DecimalsOf[IF "decimals" \in up[settings.primary] THEN settings.primary
             ELSE settings.secondary]

ScalePrice(n, from, to) ==
  IF from <= to THEN n * 10 ^ (to - from) ELSE n \div 10 ^ (from - to)

Observation(f, a) ==
  [price |-> ScalePrice(latest[f][a].price, DecimalsOf[f], Decimals),
   time |-> latest[f][a].time]

\* Mutant: the deviation is taken relative to the first source.
DeviatesFromFirst(l, r) ==
  l > 0 => (Distance(l, r) * BpsDenominator) \div l > settings.tuning.deviation

\* Relative to the lower price; a price scaled down to nothing always deviates
DeviationExceeded(l, r) ==
  LET base == Lower(l, r)
  IN  base > 0 =>
        (Distance(l, r) * BpsDenominator) \div base > settings.tuning.deviation

-------------------------------------------------------------------------------
(* Serving prices: lastprice and get_twap, whose duration has no effect *)

\* Mutant: a price is served however old it is.
ServesAtAnyAge(a) == settings # None /\ cached[a] # None

Serves(a) ==
  /\ settings # None
  /\ cached[a] # None
  /\ Elapsed(cached[a].time) <= settings.tuning.staleness

ServedPrice(a) ==
  IF twap[a] = None THEN cached[a].price ELSE twap[a].sum \div twap[a].samples

\* Both calls that oracle_price of the vault makes are answered, with the
\* decimals it insists on
AnswersVault(a) ==
  /\ Serves(a)
  /\ "decimals" \in up[settings.primary] \cup up[settings.secondary]
  /\ Decimals = OracleDecimals

\* oracle_price of the vault takes the price served
VaultAccepts(a) ==
  /\ AnswersVault(a)
  /\ ServedPrice(a) > 0
  /\ Elapsed(cached[a].time) <= OracleStaleWindow

-------------------------------------------------------------------------------
(* Safe mode *)

\* Mutant: the two methods of the vault are swapped.
SafeModeSwapped(enabled) == mayPause /\ paused' = ~ enabled /\ UNCHANGED mayPause

\* Mutant: the vault does not ask for the role.
SafeModeWithoutRole(enabled) == paused' = enabled /\ UNCHANGED mayPause

\* set_safe_mode_internal: pause_by or unpause_by of the vault, which panics
\* unless the adaptor holds PAUSER_ROLE
SetSafeModeInternal(enabled) ==
  mayPause /\ paused' = enabled /\ UNCHANGED mayPause

SetSafeMode(enabled) ==
  /\ settings # None
  /\ SetSafeModeInternal(enabled)
  /\ alarmed' = (alarmed /\ enabled)
  /\ UNCHANGED <<settings, storage, world>>

-------------------------------------------------------------------------------
(* update_price *)

BothUsable(a) == Usable(settings.primary, a) /\ Usable(settings.secondary, a)

\* Mutant: without the first source there is no price.
NeedsPrimary(a) == Usable(settings.primary, a)

SomeUsable(a) == Usable(settings.primary, a) \/ Usable(settings.secondary, a)

\* Scaling panics on overflow, of a source that is usable
ScalingFits(a) ==
  \A f \in {settings.primary, settings.secondary} :
    Usable(f, a) => FitsI128(Observation(f, a).price)

\* The price of the sources usable: the one's, or merge_observations of both
NewPrice(a) ==
  LET p == Observation(settings.primary, a)
      s == Observation(settings.secondary, a)
  IN  IF BothUsable(a)
      THEN [price |-> (p.price + s.price) \div 2, time |-> Lower(p.time, s.time)]
      ELSE IF Usable(settings.primary, a) THEN p ELSE s

\* The usable observations, for the history
Observed(a) ==
  {[at |-> now, price |-> Observation(f, a).price, decimals |-> Decimals] :
     f \in {g \in {settings.primary, settings.secondary} : Usable(g, a)}}

\* The sources are too far apart: nothing is cached and the vault is paused; the
\* call fails when the adaptor may not pause it
EnterSafeMode(a) ==
  LET l == Observation(settings.primary, a).price
      r == Observation(settings.secondary, a).price
  IN  /\ BothUsable(a)
      /\ Lower(l, r) > 0 => FitsI128(Distance(l, r) * BpsDenominator)
      /\ DeviationExceeded(l, r)
      /\ SetSafeModeInternal(TRUE)
      /\ alarmed' = TRUE
      /\ UNCHANGED <<settings, storage, world>>

\* The observations an average served now may be made of: not older than some
\* window and staleness together, and what a feed's clock may be ahead
Recent(a) ==
  {o \in seen[a] : \E w, t \in Tuning, d \in Skew :
     now - o.at <= w.window + t.staleness + d}

\* Mutant: the first window never ends.
WindowNeverOver(a) == twap[a] = None

\* The next sample opens a new window
WindowOver(a) ==
  twap[a] = None \/ Elapsed(twap[a].start) >= settings.tuning.window

\* Mutant: the window begins when the price was reported.
AddSampleAtReport(a, n) ==
  IF WindowOver(a) THEN [sum |-> n, samples |-> 1, start |-> NewPrice(a).time]
  ELSE [sum |-> twap[a].sum + n, samples |-> twap[a].samples + 1,
        start |-> twap[a].start]

AddSample(a, n) ==
  IF WindowOver(a) THEN [sum |-> n, samples |-> 1, start |-> now]
  ELSE [sum |-> twap[a].sum + n, samples |-> twap[a].samples + 1,
        start |-> twap[a].start]

\* Mutant: a price that the sources agree on ends the safe mode.
AcceptPriceEndsAlarm(a) ==
  LET state == AddSample(a, NewPrice(a).price)
  IN  /\ BothUsable(a) =>
           ~ DeviationExceeded(Observation(settings.primary, a).price,
                               Observation(settings.secondary, a).price)
      /\ state.samples <= MaxSamples
      /\ cached' = [cached EXCEPT ![a] = NewPrice(a)]
      /\ twap' = [twap EXCEPT ![a] = state]
      /\ seen' = [seen EXCEPT ![a] = Recent(a) \cup Observed(a)]
      /\ paused' = FALSE
      /\ UNCHANGED <<settings, mayPause, alarmed, world>>

AcceptPrice(a) ==
  LET l == Observation(settings.primary, a).price
      r == Observation(settings.secondary, a).price
      new == NewPrice(a)
      state == AddSample(a, new.price)
  IN  /\ BothUsable(a) =>
           /\ ~ DeviationExceeded(l, r)
           /\ FitsI128(Distance(l, r) * BpsDenominator) /\ FitsI128(l + r)
      /\ FitsI128(state.sum)
      /\ state.samples <= MaxSamples
      /\ cached' = [cached EXCEPT ![a] = new]
      /\ twap' = [twap EXCEPT ![a] = state]
      /\ seen' = [seen EXCEPT ![a] = Recent(a) \cup Observed(a)]
      /\ UNCHANGED <<settings, vault, world>>

UpdatePrice(a) ==
  /\ settings # None
  /\ SomeUsable(a)
  /\ ScalingFits(a)
  /\ EnterSafeMode(a) \/ AcceptPrice(a)

-------------------------------------------------------------------------------
(* The admin *)

Initialize(primary, secondary) ==
  /\ settings = None
  /\ settings' = [primary |-> primary, secondary |-> secondary,
                  tuning |-> DefaultTuning]
  /\ UNCHANGED <<storage, vault, world>>

Configure(primary, secondary, tuning) ==
  /\ settings # None
  /\ settings' = [primary |-> primary, secondary |-> secondary, tuning |-> tuning]
  /\ UNCHANGED <<storage, vault, world>>

-------------------------------------------------------------------------------
(* The vault's pausers and admin, the feeds, storage and time *)

VaultSetPaused(p) ==
  /\ paused' = p
  /\ alarmed' = (alarmed /\ p)
  /\ UNCHANGED <<settings, storage, mayPause, world>>

VaultSetRole(granted) ==
  /\ mayPause' = granted
  /\ UNCHANGED <<settings, storage, paused, alarmed, world>>

\* A feed reports a price, whose time need not be the ledger's
Report(f, a, p, d) ==
  /\ now + d >= 0
  /\ latest' = [latest EXCEPT ![f][a] = [price |-> p, time |-> now + d]]
  /\ UNCHANGED <<settings, storage, vault, up, now>>

\* A feed's calls fail or work again
Answers(f, calls) ==
  /\ up' = [up EXCEPT ![f] = calls]
  /\ UNCHANGED <<settings, storage, vault, latest, now>>

\* Both entries of an asset are temporary, written together and kept equally long
Evict(a) ==
  /\ cached' = [cached EXCEPT ![a] = None] /\ twap' = [twap EXCEPT ![a] = None]
  /\ UNCHANGED <<settings, vault, world, seen>>

CloseLedger ==
  /\ now < MaxTime
  /\ now' = now + 1
  /\ UNCHANGED <<settings, storage, vault, latest, up>>

Next ==
  \/ \E pair \in Sources : Initialize(pair[1], pair[2])
  \/ \E pair \in Sources, t \in Tuning : Configure(pair[1], pair[2], t)
  \/ \E a \in Asset : UpdatePrice(a) \/ Evict(a)
  \/ \E b \in Pausing : SetSafeMode(b) \/ VaultSetPaused(b) \/ VaultSetRole(b)
  \/ \E f \in Feed, a \in Asset, p \in Price, d \in Skew : Report(f, a, p, d)
  \/ \E f \in Feed, calls \in Working : Answers(f, calls)
  \/ CloseLedger

Spec == Init /\ [][Next]_vars

-------------------------------------------------------------------------------
(* Properties *)

\* The storage has the shape the code gives it; an average has samples, which
\* were taken since its window began, and an asset has both entries or none.
TypeOK ==
  /\ settings \in Settings \cup {None}
  /\ cached \in [Asset -> CachedPrice \cup {None}]
  /\ twap \in [Asset -> TwapState \cup {None}]
  /\ \A a \in Asset : cached[a] = None <=> twap[a] = None
  /\ \A a \in Asset : twap[a] # None => twap[a].start <= now
  /\ paused \in BOOLEAN /\ mayPause \in BOOLEAN /\ alarmed \in BOOLEAN
  /\ latest \in [Feed -> [Asset -> [price : Int, time : Nat]]]
  /\ up \in [Feed -> SUBSET Call]
  /\ now \in Nat
  /\ seen \in [Asset -> SUBSET [at : Nat, price : Nat, decimals : Nat]]

\* A price served lies between two prices that the sources reported recently,
\* whichever sources failed, windows ended, or settings changed since.
ServedWithinRecentPrices ==
  \A a \in Asset : Serves(a) =>
    \E x, y \in Recent(a) : x.price <= ServedPrice(a) /\ ServedPrice(a) <= y.price

\* A price the vault takes lies between two prices reported recently also when
\* each is read with the decimals it was sampled in.
ServedInDeclaredDecimals ==
  \A a \in Asset : VaultAccepts(a) =>
    \E x, y \in Recent(a) :
      /\ ScalePrice(x.price, x.decimals, Decimals) <= ServedPrice(a)
      /\ ServedPrice(a) <= ScalePrice(y.price, y.decimals, Decimals)

\* No price enters the cache while two live sources disagree: it lies between
\* them, and the higher exceeds the lower by less than the deviation allowed and
\* a basis point, whichever of them is the primary one.
AcceptedNearSources ==
  [][\A a \in Asset : cached'[a] \notin {cached[a], None} /\ BothUsable(a) =>
       \E f, g \in {settings.primary, settings.secondary} :
         LET low == Observation(f, a).price  high == Observation(g, a).price
         IN  /\ low <= cached'[a].price /\ cached'[a].price <= high
             /\ (high - low) * BpsDenominator
                  < (settings.tuning.deviation + 1) * low
             /\ \A h \in {settings.primary, settings.secondary} :
                  Observation(h, a).price \in low .. high]_vars

\* A price just cached can be served: what an update takes from the feeds is not
\* refused by lastprice at once.
UpdateMakesServable ==
  [][\A a \in Asset : cached'[a] \notin {cached[a], None} => Serves(a)']_vars

\* Once the sources were found to deviate the vault stays paused, whatever prices
\* follow and for whichever asset, until someone asks to unpause it.
AlarmHolds == alarmed => paused

\* Either source alone keeps the price going: whenever one can be used, an
\* update goes through, or pauses the vault if the adaptor may.
OneSourceIsEnough ==
  \A a \in Asset :
    /\ settings # None
    /\ mayPause
    /\ \E f \in {settings.primary, settings.secondary} : Usable(f, a)
    /\ twap[a] # None => twap[a].samples < MaxSamples
    => ENABLED UpdatePrice(a)

===============================================================================
