--------------------------- MODULE HelixLending_proofs ---------------------------
(***************************************************************************)
(* Theorems about the vault together with its oracle adaptor, for every    *)
(* set of users, tokens and feeds and all settings of either admin.  What  *)
(* is proved of the two components is used here, through VP and OP; what   *)
(* remains is that each step of the two together is a step of each, or     *)
(* leaves it alone, and what only the two together promise.                *)
(***************************************************************************)
EXTENDS HelixLending, ArithmeticTheorems

\* The theorems about the oracle adaptor come with the adaptor for Blend, which
\* has nothing to do here.
OP == INSTANCE OracleAdaptor_proofs
        WITH mayPause <- MayPause, Price <- FeedPrice, Pausing <- BOOLEAN,
             Other <- {}, AssetList <- {}, Resolution <- {}, MockEntry <- {},
             blend <- None, mockPrice <- None

PriceTimes == {t + d : t \in 0 .. MaxTime, d \in Skew} \cap Nat

VP == INSTANCE HelixVault_proofs
        WITH price <- AnsweredPrice, priceTime <- AnsweredTime,
             Price <- 0 .. MaxI128, PriceTime <- PriceTimes

-------------------------------------------------------------------------------
(* HelixLending names its parts V and O; the theorems name them VP and OP. *)
(* Definition by definition they are the same.                             *)

LEMMA OracleConstants == OP!OracleAssumption
<1>1. O!OracleAssumption => OP!OracleAssumption
  BY DEF O!OracleAssumption, OP!OracleAssumption, O!Call, OP!Call,
         O!Distance, OP!Distance, O!Settings, OP!Settings,
         O!CachedPrice, OP!CachedPrice, O!TwapState, OP!TwapState
<1> QED
  BY <1>1, LendingAssumption

LEMMA NoBlendConstants == OP!BlendAssumption
BY DEF OP!BlendAssumption

LEMMA VaultConstants == VP!VaultAssumption
<1>1. V!VaultAssumption => VP!VaultAssumption
  BY DEF V!VaultAssumption, VP!VaultAssumption, V!IsFiniteSet, VP!IsFiniteSet,
         V!PoolConfig, VP!PoolConfig, PriceTimes
<1> QED
  BY <1>1, LendingAssumption

LEMMA SameOracle == O!Spec <=> OP!Spec
BY ZenonT(120) DEF O!Call, OP!Call, O!Lower, OP!Lower, O!Distance, OP!Distance,
       O!storage, OP!storage, O!vault, OP!vault, O!world, OP!world, O!vars, OP!vars,
       O!Init, OP!Init, O!FitsI128, OP!FitsI128, O!Elapsed, OP!Elapsed,
       O!Usable, OP!Usable, O!Decimals, OP!Decimals, O!ScalePrice, OP!ScalePrice,
       O!Observation, OP!Observation, O!DeviationExceeded, OP!DeviationExceeded,
       O!SetSafeModeInternal, OP!SetSafeModeInternal, O!SetSafeMode, OP!SetSafeMode,
       O!BothUsable, OP!BothUsable, O!SomeUsable, OP!SomeUsable,
       O!ScalingFits, OP!ScalingFits, O!NewPrice, OP!NewPrice, O!Observed, OP!Observed,
       O!EnterSafeMode, OP!EnterSafeMode, O!Recent, OP!Recent,
       O!WindowOver, OP!WindowOver, O!AddSample, OP!AddSample,
       O!AcceptPrice, OP!AcceptPrice, O!UpdatePrice, OP!UpdatePrice,
       O!Initialize, OP!Initialize, O!Configure, OP!Configure,
       O!VaultSetPaused, OP!VaultSetPaused, O!VaultSetRole, OP!VaultSetRole,
       O!Report, OP!Report, O!Answers, OP!Answers, O!Evict, OP!Evict,
       O!CloseLedger, OP!CloseLedger, O!Next, OP!Next, O!Spec, OP!Spec

LEMMA SameVault == V!Spec <=> VP!Spec
BY ZenonT(60) DEF V!LIQUIDATOR_ROLE, VP!LIQUIDATOR_ROLE, V!PAUSER_ROLE, VP!PAUSER_ROLE,
       V!ADMIN_ROLE, VP!ADMIN_ROLE, V!governance, VP!governance,
       V!positions, VP!positions, V!book, VP!book, V!world, VP!world, V!vars, VP!vars,
       V!NoConfig, VP!NoConfig, V!Init, VP!Init, V!Initialized, VP!Initialized,
       V!Supported, VP!Supported, V!Primary, VP!Primary,
       V!HasPosition, VP!HasPosition, V!AccruedDebt, VP!AccruedDebt,
       V!AssetsForShares, VP!AssetsForShares, V!SharesForAssets, VP!SharesForAssets,
       V!PriceUsable, VP!PriceUsable, V!CanValue, VP!CanValue,
       V!CollateralValue, VP!CollateralValue, V!MaxBorrow, VP!MaxBorrow,
       V!HealthFactor, VP!HealthFactor, V!MeetsMinimum, VP!MeetsMinimum,
       V!ValidConfig, VP!ValidConfig, V!StorePosition, VP!StorePosition,
       V!Moved, VP!Moved, V!ExactDelta, VP!ExactDelta,
       V!CollateralIn, VP!CollateralIn, V!CollateralOut, VP!CollateralOut,
       V!TreasuryIn, VP!TreasuryIn, V!TreasuryOut, VP!TreasuryOut,
       V!DepositsRise, VP!DepositsRise, V!DepositsFall, VP!DepositsFall,
       V!BorrowsRise, VP!BorrowsRise, V!BorrowsFall, VP!BorrowsFall,
       V!Open, VP!Open, V!DebtAtDeposit, VP!DebtAtDeposit, V!Deposit, VP!Deposit,
       V!WithdrawalHealthy, VP!WithdrawalHealthy, V!Withdraw, VP!Withdraw,
       V!Borrow, VP!Borrow, V!Cap, VP!Cap, V!Repay, VP!Repay,
       V!RepayCap, VP!RepayCap, V!SharesToSeize, VP!SharesToSeize,
       V!Liquidate, VP!Liquidate, V!Initialize, VP!Initialize,
       V!SetPaused, VP!SetPaused, V!UpdateConfig, VP!UpdateConfig,
       V!AddSupportedAsset, VP!AddSupportedAsset,
       V!RemoveSupportedAsset, VP!RemoveSupportedAsset,
       V!GrantRole, VP!GrantRole, V!RevokeRole, VP!RevokeRole, V!Fund, VP!Fund,
       V!Tick, VP!Tick, V!OracleAnswers, VP!OracleAnswers,
       V!RateChange, VP!RateChange, V!Next, VP!Next, V!Spec, VP!Spec, PriceTimes

-------------------------------------------------------------------------------
(* Every step of the two is a step of the oracle adaptor, or leaves it     *)
(* alone.                                                                  *)

\* A vault that is not initialized is not paused and has given no role.
Fresh == ~ V!Initialized => roles = {} /\ paused = FALSE

LEMMA DeploymentShape ==
  ASSUME NEW d \in Deployment
  PROVE  d.admin # NoAddress
BY LendingAssumption DEF V!VaultAssumption

LEMMA InitFresh == Init => Fresh
BY DEF Init, V!Init, Fresh

\* What the calls of the vault leave alone: of its governance all but the first
\* initializes, configures or appoints.
LEMMA VaultCallFrame ==
  ASSUME Fresh, VaultCall
  PROVE  /\ UNCHANGED <<adaptor, alarmed, now, paused>>
         /\ Fresh'
<1>1. UNCHANGED <<adaptor, alarmed, now>>
  BY DEF VaultCall
<1>2. CASE \E d \in Deployment : V!Initialize(d)
  BY <1>1, <1>2, DeploymentShape DEF Fresh, V!Initialize, V!Initialized
<1>3. CASE \E u \in User, a \in Asset, n \in Amount : V!Deposit(u, a, n)
  BY <1>1, <1>3 DEF Fresh, V!Deposit, V!governance, V!Initialized
<1>4. CASE \E u \in User, a \in Asset, n \in Amount : V!Withdraw(u, a, n)
  BY <1>1, <1>4 DEF Fresh, V!Withdraw, V!governance, V!Initialized
<1>5. CASE \E u \in User, n \in Amount : V!Borrow(u, n)
  BY <1>1, <1>5 DEF Fresh, V!Borrow, V!governance, V!Initialized
<1>6. CASE \E u \in User, n \in Amount : V!Repay(u, n)
  BY <1>1, <1>6 DEF Fresh, V!Repay, V!governance, V!Initialized
<1>7. CASE \E l \in Operator, u \in User, n \in Amount : V!Liquidate(l, u, n)
  BY <1>1, <1>7 DEF Fresh, V!Liquidate, V!governance, V!Initialized
<1>8. CASE \E c \in Config : V!UpdateConfig(c)
  BY <1>1, <1>8 DEF Fresh, V!UpdateConfig, V!Initialized
<1>9. CASE \E a \in Asset : V!AddSupportedAsset(a) \/ V!RemoveSupportedAsset(a)
  BY <1>1, <1>9 DEF Fresh, V!AddSupportedAsset, V!RemoveSupportedAsset, V!Initialized
<1>10. CASE \E g \in Grantable : V!GrantRole(g[1], g[2])
  BY <1>1, <1>10 DEF Fresh, V!GrantRole, V!Initialized
<1>11. CASE \E g \in Grantable : V!RevokeRole(g[1], g[2])
  BY <1>1, <1>11 DEF Fresh, V!RevokeRole, V!Initialized
<1>12. CASE \E n \in Amount : V!Fund(n)
  BY <1>1, <1>12 DEF Fresh, V!Fund, V!governance, V!Initialized
<1>13. CASE \E a \in Asset, r \in Rate : V!RateChange(a, r)
  BY <1>1, <1>13 DEF Fresh, V!RateChange, V!governance, V!Initialized
<1> QED
  BY <1>2, <1>3, <1>4, <1>5, <1>6, <1>7, <1>8, <1>9, <1>10, <1>11, <1>12, <1>13
     DEF VaultCall

LEMMA NextFresh == Fresh /\ [Next]_vars => Fresh'
<1> SUFFICES ASSUME Fresh, [Next]_vars
             PROVE  Fresh'
  OBVIOUS
<1>1. CASE VaultCall
  BY <1>1, VaultCallFrame
<1>2. CASE \E o \in Operator, b \in BOOLEAN : PausedBy(o, b)
  BY <1>2 DEF Fresh, PausedBy, V!SetPaused, V!Initialized
<1>3. CASE \E b \in BOOLEAN : SafeMode(b)
  BY <1>3 DEF Fresh, SafeMode, V!SetPaused, V!Initialized
<1>4. CASE \E a \in Asset : UpdatePrice(a)
  <2>1. PICK a \in Asset : UpdatePrice(a)
    BY <1>4
  <2>2. admin' = admin /\ roles' = roles
    BY <2>1 DEF UpdatePrice, vault
  <2>3. paused' = paused \/ MayPause
    BY <2>1 DEF UpdatePrice, O!UpdatePrice, O!EnterSafeMode, O!AcceptPrice,
                O!SetSafeModeInternal, O!vault
  <2> QED
    BY <2>2, <2>3 DEF Fresh, MayPause, V!Initialized
<1>5. CASE AdaptorCall
  BY <1>5 DEF Fresh, AdaptorCall, vault, V!Initialized
<1>6. CASE CloseLedger
  BY <1>6 DEF Fresh, CloseLedger, vault, V!Initialized
<1>7. CASE UNCHANGED vars
  BY <1>7 DEF Fresh, vars, vault, V!Initialized
<1> QED
  BY <1>1, <1>2, <1>3, <1>4, <1>5, <1>6, <1>7 DEF Next

THEOREM LendingFresh == Spec => []Fresh
<1> QED
  BY InitFresh, NextFresh, PTL DEF Spec

LEMMA NextOfOracle == Fresh /\ [Next]_vars => [O!Next]_(O!vars)
<1> SUFFICES ASSUME Fresh, [Next]_vars
             PROVE  O!Next \/ UNCHANGED O!vars
  OBVIOUS
<1>1. CASE VaultCall
  <2>1. UNCHANGED <<adaptor, alarmed, now, paused>>
    BY <1>1, VaultCallFrame
  <2>2. PICK b \in BOOLEAN : b <=> MayPause'
    OBVIOUS
  <2>3. O!VaultSetRole(b)
    BY <2>1, <2>2 DEF O!VaultSetRole, adaptor, O!storage, O!world
  <2> QED
    BY <2>3 DEF O!Next
<1>2. CASE \E o \in Operator, b \in BOOLEAN : PausedBy(o, b)
  <2>1. PICK o \in Operator, b \in BOOLEAN : PausedBy(o, b)
    BY <1>2
  <2>2. roles' = roles /\ paused' = b /\ alarmed' = (alarmed /\ b)
        /\ UNCHANGED <<adaptor, now>>
    BY <2>1 DEF PausedBy, V!SetPaused
  <2>3. O!VaultSetPaused(b)
    BY <2>2 DEF O!VaultSetPaused, MayPause, adaptor, O!storage, O!world
  <2> QED
    BY <2>3 DEF O!Next
<1>3. CASE \E b \in BOOLEAN : SafeMode(b)
  BY <1>3 DEF SafeMode, O!Next
<1>4. CASE \E a \in Asset : UpdatePrice(a)
  BY <1>4 DEF UpdatePrice, O!Next
<1>5. CASE AdaptorCall
  BY <1>5 DEF AdaptorCall, O!Next
<1>6. CASE CloseLedger
  BY <1>6 DEF CloseLedger, O!Next
<1>7. CASE UNCHANGED vars
  BY <1>7 DEF vars, vault, adaptor, MayPause, O!vars, O!storage, O!vault, O!world
<1> QED
  BY <1>1, <1>2, <1>3, <1>4, <1>5, <1>6, <1>7 DEF Next

\* The vault and the adaptor together behave, on the adaptor's state, as the
\* adaptor does with a vault that may change its flag and the role in any way.
THEOREM LendingImplementsOracle == Spec => O!Spec
<1>1. Init => O!Init
  BY DEF Init
<1> QED
  BY <1>1, NextOfOracle, LendingFresh, PTL DEF Spec, O!Spec

\* What is proved of the adaptor holds here.
THEOREM LendingOracleInvariant == Spec => []OP!Inv
<1> QED
  BY LendingImplementsOracle, SameOracle, OracleConstants, NoBlendConstants,
     OP!OracleInvariant, PTL

THEOREM LendingServesRecentPrices == Spec => []OP!ServedWithinRecentPrices
<1> QED
  BY LendingImplementsOracle, SameOracle, OracleConstants, NoBlendConstants,
     OP!OracleServesRecentPrices, PTL

-------------------------------------------------------------------------------
(* What the vault is answered                                              *)

\* Times are the ledger's or a feed's, and an average's sum fits an i128.
Bounded ==
  /\ now \in 0 .. MaxTime
  /\ \A f \in Feed, a \in Asset : latest[f][a].time \in PriceTimes
  /\ \A a \in Asset : cached[a] # None => cached[a].time \in PriceTimes
  /\ \A a \in Asset : twap[a] # None => twap[a].sum <= MaxI128

LEMMA Constants ==
  /\ MaxTime \in Nat /\ MaxI128 \in Nat
  /\ Skew \subseteq Int /\ 0 \in Skew
  /\ BpsDenominator \in Nat \ {0} /\ PriceScalar \in Nat \ {0}
BY LendingAssumption DEF V!VaultAssumption, O!OracleAssumption

\* A report made now has one of the times the vault may read.
LEMMA ReportTime ==
  ASSUME now \in 0 .. MaxTime, NEW d \in Skew, now + d >= 0
  PROVE  now + d \in PriceTimes
<1>1. now + d \in Nat
  BY Constants
<1> QED
  BY <1>1 DEF PriceTimes

LEMMA OracleTypes ==
  ASSUME OP!Inv
  PROVE  /\ cached \in [Asset -> O!CachedPrice \cup {None}]
         /\ twap \in [Asset -> O!TwapState \cup {None}]
         /\ \A a \in Asset : cached[a] = None <=> twap[a] = None
         /\ latest \in [Feed -> [Asset -> [price : Int, time : Nat]]]
         /\ now \in Nat
BY DEF OP!Inv, OP!TypeOK, O!CachedPrice, OP!CachedPrice, O!TwapState, OP!TwapState

LEMMA InitBounded == Init => Bounded
<1> SUFFICES ASSUME Init
             PROVE  Bounded
  OBVIOUS
<1>1. 0 \in 0 .. MaxTime /\ 0 + 0 = 0
  BY Constants
<1>2. 0 \in PriceTimes
  BY <1>1, Constants DEF PriceTimes
<1> QED
  BY <1>1, <1>2 DEF Init, O!Init, Bounded

\* A price is cached under the time of one of the reports it was made of.
LEMMA AcceptBounded ==
  ASSUME OP!Inv, Bounded, NEW a \in Asset, O!UpdatePrice(a)
  PROVE  Bounded'
<1>1. CASE O!EnterSafeMode(a)
  BY <1>1 DEF O!EnterSafeMode, O!storage, O!world, Bounded
<1>2. CASE O!AcceptPrice(a)
  <2> DEFINE t == O!AddSample(a, O!NewPrice(a).price)
  <2>1. /\ cached' = [cached EXCEPT ![a] = O!NewPrice(a)]
        /\ twap' = [twap EXCEPT ![a] = t]
        /\ UNCHANGED <<latest, now>> /\ t.sum <= MaxI128
    BY <1>2 DEF O!AcceptPrice, O!FitsI128, O!world
  <2>2. settings.primary \in Feed /\ settings.secondary \in Feed
    BY OracleConstants, NoBlendConstants, OP!SettingsType DEF OP!Inv, O!UpdatePrice
  <2>3. \/ O!NewPrice(a).time = latest[settings.primary][a].time
        \/ O!NewPrice(a).time = latest[settings.secondary][a].time
    BY DEF O!NewPrice, O!Observation, O!Lower
  <2>4. O!NewPrice(a).time \in PriceTimes
    BY <2>2, <2>3 DEF Bounded
  <2> HIDE DEF t
  <2>5. \A b \in Asset : cached'[b] # None => cached'[b].time \in PriceTimes
    BY <2>1, <2>4, OracleTypes DEF Bounded
  <2>6. \A b \in Asset : twap'[b] # None => twap'[b].sum <= MaxI128
    BY <2>1, OracleTypes DEF Bounded
  <2> QED
    BY <2>1, <2>5, <2>6 DEF Bounded
<1> QED
  BY <1>1, <1>2 DEF O!UpdatePrice

LEMMA NextBounded == OP!Inv /\ Bounded /\ [O!Next]_(O!vars) => Bounded'
<1> SUFFICES ASSUME OP!Inv, Bounded, [O!Next]_(O!vars)
             PROVE  Bounded'
  OBVIOUS
<1>1. ASSUME NEW a \in Asset, O!UpdatePrice(a)
      PROVE  Bounded'
  BY <1>1, AcceptBounded
<1>2. ASSUME NEW a \in Asset, O!Evict(a)
      PROVE  Bounded'
  BY <1>2, OracleTypes DEF O!Evict, O!world, Bounded
<1>3. ASSUME NEW f \in Feed, NEW a \in Asset, NEW p \in FeedPrice, NEW d \in Skew,
             O!Report(f, a, p, d)
      PROVE  Bounded'
  <2>1. /\ latest' = [latest EXCEPT ![f][a] = [price |-> p, time |-> now + d]]
        /\ UNCHANGED <<cached, twap, now>> /\ now + d >= 0
    BY <1>3 DEF O!Report, O!storage
  <2>2. now + d \in PriceTimes
    BY <2>1, ReportTime DEF Bounded
  <2>3. \A g \in Feed, b \in Asset : latest'[g][b].time \in PriceTimes
    BY <2>1, <2>2, OracleTypes DEF Bounded
  <2> QED
    BY <2>1, <2>3 DEF Bounded
<1>4. CASE O!CloseLedger
  <2>1. now' = now + 1 /\ now < MaxTime /\ UNCHANGED <<cached, twap, latest>>
    BY <1>4 DEF O!CloseLedger, O!storage
  <2>2. now' \in 0 .. MaxTime
    BY <2>1, Constants DEF Bounded
  <2> QED
    BY <2>1, <2>2 DEF Bounded
<1>5. ASSUME UNCHANGED <<cached, twap, latest, now>>
      PROVE  Bounded'
  BY <1>5 DEF Bounded
<1>6. CASE \/ \E pair \in Sources : O!Initialize(pair[1], pair[2])
           \/ \E pair \in Sources, t \in Tuning : O!Configure(pair[1], pair[2], t)
  BY <1>5, <1>6 DEF O!Initialize, O!Configure, O!storage, O!world
<1>7. CASE \E b \in BOOLEAN :
             O!SetSafeMode(b) \/ O!VaultSetPaused(b) \/ O!VaultSetRole(b)
  BY <1>5, <1>7 DEF O!SetSafeMode, O!VaultSetPaused, O!VaultSetRole, O!storage, O!world
<1>8. CASE \E f \in Feed, calls \in Working : O!Answers(f, calls)
  BY <1>5, <1>8 DEF O!Answers, O!storage
<1>9. CASE UNCHANGED O!vars
  BY <1>5, <1>9 DEF O!vars, O!storage, O!world
<1> QED
  BY <1>1, <1>2, <1>3, <1>4, <1>6, <1>7, <1>8, <1>9 DEF O!Next

THEOREM LendingBounded == Spec => []Bounded
<1> QED
  BY InitBounded, NextBounded, LendingImplementsOracle, LendingOracleInvariant, PTL
     DEF Spec, O!Spec

\* What is answered are prices and times that the vault may read.
LEMMA AnswersTyped ==
  ASSUME OP!Inv, Bounded
  PROVE  /\ AnsweredPrice \in [Asset -> 0 .. MaxI128]
         /\ AnsweredTime \in [Asset -> PriceTimes]
<1>1. ASSUME NEW a \in Asset, O!AnswersVault(a)
      PROVE  O!ServedPrice(a) \in 0 .. MaxI128
  <2>1. twap[a] # None /\ twap[a] \in O!TwapState /\ twap[a].sum <= MaxI128
    BY <1>1, OracleTypes DEF O!AnswersVault, O!Serves, Bounded
  <2>2. twap[a].sum \in Nat /\ twap[a].samples \in Nat \ {0}
    BY <2>1 DEF O!TwapState
  <2>3. twap[a].sum \div twap[a].samples \in 0 .. twap[a].sum
    BY <2>2, QuotientAtMost
  <2>4. O!ServedPrice(a) \in 0 .. twap[a].sum
    BY <2>1, <2>3 DEF O!ServedPrice
  <2> QED
    BY <2>1, <2>2, <2>4, Constants
<1>2. \A a \in Asset : (IF O!AnswersVault(a) THEN O!ServedPrice(a) ELSE 0) \in 0 .. MaxI128
  BY <1>1, Constants
<1>3. 0 \in PriceTimes
  <2>1. 0 \in 0 .. MaxTime /\ 0 + 0 = 0
    BY Constants
  <2> QED
    BY <2>1, Constants DEF PriceTimes
<1>4. \A a \in Asset : (IF cached[a] = None THEN 0 ELSE cached[a].time) \in PriceTimes
  BY <1>3 DEF Bounded
<1> QED
  BY <1>2, <1>4 DEF AnsweredPrice, AnsweredTime

Readable ==
  /\ AnsweredPrice \in [Asset -> 0 .. MaxI128]
  /\ AnsweredTime \in [Asset -> PriceTimes]

LEMMA AnswersTypedNext ==
  OP!Inv' /\ Bounded' => /\ AnsweredPrice' \in [Asset -> 0 .. MaxI128]
                        /\ AnsweredTime' \in [Asset -> PriceTimes]
<1>1. OP!Inv /\ Bounded => Readable
  BY AnswersTyped DEF Readable
<1>2. OP!Inv' /\ Bounded' => Readable'
  BY <1>1, PTL
<1> QED
  BY <1>2 DEF Readable

-------------------------------------------------------------------------------
(* Every step of the two is a step of the vault, or leaves it alone.       *)

\* A step that keeps the adaptor's storage, the feeds and the time keeps what is
\* answered.
LEMMA AnswersKept ==
  ASSUME UNCHANGED <<settings, cached, twap, up, now>>
  PROVE  AnsweredPrice' = AnsweredPrice /\ AnsweredTime' = AnsweredTime
BY DEF AnsweredPrice, AnsweredTime, O!AnswersVault, O!Serves, O!ServedPrice,
       O!Elapsed, O!Decimals

\* Whatever the adaptor does to its answers is a step of the vault's oracle.
LEMMA AnswersMove ==
  ASSUME OP!Inv', Bounded', UNCHANGED <<vault, paused, now>>
  PROVE  V!Next
<1>1. /\ AnsweredPrice' \in [Asset -> 0 .. MaxI128]
      /\ AnsweredTime' \in [Asset -> PriceTimes]
  BY AnswersTypedNext
<1>2. V!OracleAnswers(AnsweredPrice', AnsweredTime')
  BY DEF V!OracleAnswers, vault, V!governance, V!positions, V!book
<1> QED
  BY <1>1, <1>2 DEF V!Next, PriceTimes

\* With time answers only cease.
LEMMA AnswersAge ==
  ASSUME OP!Inv, O!CloseLedger, NEW a \in Asset
  PROVE  /\ AnsweredPrice'[a] \in {0, AnsweredPrice[a]}
         /\ AnsweredTime'[a] = AnsweredTime[a]
<1>1. UNCHANGED <<settings, cached, twap, up>> /\ now' = now + 1
  BY DEF O!CloseLedger, O!storage
<1>2. ASSUME settings # None, cached[a] # None,
             O!Elapsed(cached[a].time)' <= settings.tuning.staleness
      PROVE  O!Elapsed(cached[a].time) <= settings.tuning.staleness
  <2>1. cached[a].time \in Nat /\ now \in Nat
    BY <1>2, OracleTypes DEF O!CachedPrice
  <2>2. settings.tuning.staleness \in Nat
    BY <1>2, OracleConstants, NoBlendConstants, OP!SettingsType DEF OP!Inv
  <2>3. O!Elapsed(cached[a].time)' = IF now + 1 >= cached[a].time
                                     THEN (now + 1) - cached[a].time ELSE 0
    BY <1>1 DEF O!Elapsed
  <2> QED
    BY <1>2, <2>1, <2>2, <2>3 DEF O!Elapsed
<1>3. O!AnswersVault(a)' => O!AnswersVault(a)
  BY <1>1, <1>2 DEF O!AnswersVault, O!Serves, O!Decimals
<1>4. O!ServedPrice(a)' = O!ServedPrice(a)
  BY <1>1 DEF O!ServedPrice
<1> QED
  BY <1>1, <1>3, <1>4 DEF AnsweredPrice, AnsweredTime

LEMMA NextOfVault ==
  Fresh /\ OP!Inv /\ Bounded /\ OP!Inv' /\ Bounded' /\ [Next]_vars => [V!Next]_(V!vars)
<1> SUFFICES ASSUME Fresh, OP!Inv, Bounded, OP!Inv', Bounded', [Next]_vars
             PROVE  V!Next \/ UNCHANGED V!vars
  OBVIOUS
<1>1. CASE VaultCall
  BY <1>1 DEF VaultCall, V!Next
<1>2. CASE \E o \in Operator, b \in BOOLEAN : PausedBy(o, b)
  BY <1>2 DEF PausedBy, V!Next
<1>3. CASE \E b \in BOOLEAN : SafeMode(b)
  BY <1>3, LendingAssumption DEF SafeMode, V!Next
<1>4. CASE \E a \in Asset : UpdatePrice(a)
  <2>1. PICK a \in Asset : UpdatePrice(a)
    BY <1>4
  <2>2. UNCHANGED vault
    BY <2>1 DEF UpdatePrice
  <2>3. CASE O!EnterSafeMode(a)
    <3>1. MayPause /\ paused' = TRUE /\ UNCHANGED <<settings, cached, twap, up, now>>
      BY <2>3 DEF O!EnterSafeMode, O!SetSafeModeInternal, O!storage, O!world
    <3>2. AnsweredPrice' = AnsweredPrice /\ AnsweredTime' = AnsweredTime
      BY <3>1, AnswersKept
    <3>3. V!Initialized /\ <<Adaptor, V!PAUSER_ROLE>> \in roles
      BY <3>1 DEF Fresh, MayPause, V!PAUSER_ROLE
    <3>4. V!SetPaused(Adaptor, TRUE)
      BY <2>2, <3>1, <3>2, <3>3 DEF V!SetPaused, vault, V!positions, V!book, V!world
    <3>5. \E o \in Operator, b \in BOOLEAN : V!SetPaused(o, b)
      <4>1. Adaptor \in Operator /\ TRUE \in BOOLEAN
        BY LendingAssumption
      <4> QED
        BY <3>4, <4>1
    <3> QED
      BY <3>5 DEF V!Next
  <2>4. CASE O!AcceptPrice(a)
    <3>1. paused' = paused /\ now' = now
      BY <2>4 DEF O!AcceptPrice, O!vault, O!world
    <3> QED
      BY <2>2, <3>1, AnswersMove
  <2> QED
    BY <2>1, <2>3, <2>4 DEF UpdatePrice, O!UpdatePrice
<1>5. CASE AdaptorCall
  <2>1. UNCHANGED <<vault, paused>>
    BY <1>5 DEF AdaptorCall
  <2>2. now' = now
    BY <1>5 DEF AdaptorCall, O!Initialize, O!Configure, O!Report, O!Answers, O!Evict,
                O!world
  <2> QED
    BY <2>1, <2>2, AnswersMove
<1>6. CASE CloseLedger
  <2>1. UNCHANGED <<vault, paused>> /\ O!CloseLedger
    BY <1>6 DEF CloseLedger
  <2> DEFINE gone == {a \in Asset : AnsweredPrice'[a] = 0}
  <2>2. AnsweredPrice' = [a \in Asset |-> IF a \in gone THEN 0 ELSE AnsweredPrice[a]]
    <3>1. AnsweredPrice' \in [Asset -> 0 .. MaxI128]
      BY AnswersTypedNext
    <3>2. \A a \in Asset :
            AnsweredPrice'[a] = IF a \in gone THEN 0 ELSE AnsweredPrice[a]
      BY <2>1, AnswersAge
    <3> QED
      BY <3>1, <3>2
  <2>3. AnsweredTime' = AnsweredTime
    <3>1. AnsweredTime' \in [Asset -> PriceTimes] /\ AnsweredTime \in [Asset -> PriceTimes]
      BY AnswersTyped, AnswersTypedNext
    <3>2. \A a \in Asset : AnsweredTime'[a] = AnsweredTime[a]
      BY <2>1, AnswersAge
    <3> QED
      BY <3>1, <3>2
  <2>4. now < MaxTime /\ now' = now + 1
    BY <2>1 DEF O!CloseLedger
  <2>5. gone \in SUBSET Asset
    OBVIOUS
  <2> HIDE DEF gone
  <2>6. V!Tick
    BY <2>1, <2>2, <2>3, <2>4, <2>5
       DEF V!Tick, vault, V!governance, V!positions, V!book
  <2> QED
    BY <2>6 DEF V!Next
<1>7. CASE UNCHANGED vars
  <2>1. AnsweredPrice' = AnsweredPrice /\ AnsweredTime' = AnsweredTime
    BY <1>7, AnswersKept DEF vars, adaptor
  <2> QED
    BY <1>7, <2>1 DEF vars, vault, V!vars, V!governance, V!positions, V!book, V!world
<1> QED
  BY <1>1, <1>2, <1>3, <1>4, <1>5, <1>6, <1>7 DEF Next

LEMMA InitOfVault == Init => V!Init
<1>1. Init => V!Init
  BY DEF Init
<1> QED
  BY <1>1

\* The vault with its oracle adaptor implements the vault with an oracle that may
\* answer anything at any time.
THEOREM LendingImplementsVault == Spec => V!Spec
<1> QED
  BY InitOfVault, NextOfVault, LendingFresh, LendingOracleInvariant, LendingBounded, PTL
     DEF Spec, V!Spec

\* The two refinements together
THEOREM LendingImplementsParts == Spec => ImplementsParts
<1> QED
  BY LendingImplementsOracle, LendingImplementsVault DEF ImplementsParts

\* What is proved of the vault holds here.
THEOREM LendingVaultInvariant == Spec => []VP!Inv
<1> QED
  BY LendingImplementsVault, SameVault, VaultConstants, VP!VaultInvariant, PTL

-------------------------------------------------------------------------------
(* What only the two together promise                                      *)

LEMMA VaultTypes ==
  ASSUME VP!Inv
  PROVE  /\ shares \in [User -> Nat] /\ debt \in [User -> Nat]
         /\ treasury \in Nat /\ supported \in Seq(Asset) /\ rate \in [Asset -> Rate]
         /\ config.max_ltv \in Nat /\ config.liq_threshold \in Nat
<1>1. config \in [max_ltv : Nat, liq_threshold : Nat, liq_bonus : Nat,
                  interest_rate : Nat, min_position : Int]
  BY DEF VP!Inv, VP!TypeOK, VP!PoolConfig
<1>2. config.max_ltv \in Nat /\ config.liq_threshold \in Nat
  BY <1>1
<1> QED
  BY <1>2 DEF VP!Inv, VP!TypeOK

\* The amounts callers pass are integers; the interest is never negative.
LEMMA DebtType ==
  ASSUME VP!Inv, NEW u \in User
  PROVE  V!AccruedDebt(u) \in Nat
<1>1. VP!AccruedDebt(u) \in Nat
  BY VaultConstants, VP!AccruedDebtType DEF VP!Inv
<1> QED
  BY <1>1 DEF V!AccruedDebt, VP!AccruedDebt

LEMMA AmountType ==
  ASSUME NEW n \in Amount
  PROVE  n \in Int
BY LendingAssumption DEF V!VaultAssumption

LEMMA PaymentType ==
  ASSUME VP!Inv, NEW u \in User, NEW n \in Amount, n > 0
  PROVE  V!Cap(n, V!AccruedDebt(u)) \in Nat /\ V!Cap(n, V!RepayCap(u)) \in Nat
<1>1. n \in Nat /\ V!AccruedDebt(u) \in Nat
  BY AmountType, DebtType
<1>2. V!RepayCap(u) \in Nat
  BY <1>1 DEF V!RepayCap
<1> QED
  BY <1>1, <1>2 DEF V!Cap

LEMMA TreasuryRises ==
  ASSUME VP!Inv, NEW n \in Nat, V!TreasuryIn(n)
  PROVE  treasury' >= treasury
BY VaultTypes DEF V!TreasuryIn, V!ExactDelta

\* Collateral moves with a deposit, a withdrawal or a liquidation, and the treasury
\* falls with a loan; no other step of either contract does either.
LEMMA PayoutSteps ==
  ASSUME VP!Inv, [Next]_vars
  PROVE  \/ \E u \in User, a \in Asset, n \in Amount : V!Deposit(u, a, n)
         \/ \E u \in User, a \in Asset, n \in Amount : V!Withdraw(u, a, n)
         \/ \E u \in User, n \in Amount : V!Borrow(u, n)
         \/ \E l \in Operator, u \in User, n \in Amount : V!Liquidate(l, u, n)
         \/ shares' = shares /\ custody' = custody /\ treasury' >= treasury
<1> DEFINE Quiet == shares' = shares /\ custody' = custody /\ treasury' >= treasury
<1>0. treasury \in Nat
  BY VaultTypes
<1>1. ASSUME UNCHANGED <<shares, custody, treasury>>
      PROVE  Quiet
  BY <1>0, <1>1
<1>2. CASE VaultCall
  <2>1. CASE \E d \in Deployment : V!Initialize(d)
    BY <1>1, <2>1 DEF V!Initialize, V!positions
  <2>2. CASE \E u \in User, n \in Amount : V!Repay(u, n)
    <3>1. PICK u \in User, n \in Amount : V!Repay(u, n)
      BY <2>2
    <3>2. shares' = [shares EXCEPT ![u] = shares[u]] /\ custody' = custody /\ n > 0
      BY <3>1 DEF V!Repay, V!StorePosition
    <3>3. shares' = shares
      BY <3>2, VaultTypes
    <3>4. \/ treasury' = treasury
          \/ V!TreasuryIn(V!Cap(n, V!AccruedDebt(u)))
      BY <3>1 DEF V!Repay
    <3>5. treasury' >= treasury
      BY <1>0, <3>2, <3>4, PaymentType, TreasuryRises
    <3> QED
      BY <3>2, <3>3, <3>5
  <2>3. CASE \/ \E c \in Config : V!UpdateConfig(c)
             \/ \E a \in Asset : V!AddSupportedAsset(a) \/ V!RemoveSupportedAsset(a)
             \/ \E g \in Grantable : V!GrantRole(g[1], g[2])
             \/ \E g \in Grantable : V!RevokeRole(g[1], g[2])
    BY <1>1, <2>3 DEF V!UpdateConfig, V!AddSupportedAsset, V!RemoveSupportedAsset,
                      V!GrantRole, V!RevokeRole, V!positions, V!book
  <2>4. CASE \E n \in Amount : V!Fund(n)
    <3>1. PICK n \in Amount : V!Fund(n)
      BY <2>4
    <3>2. shares' = shares /\ custody' = custody /\ n > 0 /\ treasury' = treasury + n
      BY <3>1 DEF V!Fund, V!positions
    <3> QED
      BY <1>0, <3>2, AmountType
  <2>5. CASE \E a \in Asset, r \in Rate : V!RateChange(a, r)
    BY <1>1, <2>5 DEF V!RateChange, V!positions, V!book
  <2> HIDE DEF Quiet
  <2> QED
    BY <1>2, <2>1, <2>2, <2>3, <2>4, <2>5 DEF VaultCall
<1>3. CASE \E o \in Operator, b \in BOOLEAN : PausedBy(o, b)
  BY <1>1, <1>3 DEF PausedBy, V!SetPaused, V!positions, V!book
<1>4. CASE \E b \in BOOLEAN : SafeMode(b)
  BY <1>1, <1>4 DEF SafeMode, vault
<1>5. CASE (\E a \in Asset : UpdatePrice(a)) \/ AdaptorCall \/ CloseLedger \/ UNCHANGED vars
  BY <1>1, <1>5 DEF UpdatePrice, AdaptorCall, CloseLedger, vars, vault
<1> HIDE DEF Quiet
<1> QED
  BY <1>2, <1>3, <1>4, <1>5 DEF Next, Quiet

\* An alarm that the adaptor raises in update_price stops every payout of the vault
\* until someone asks to unpause: neither the price that follows, a role granted or
\* revoked nor the admin's settings open it.
THEOREM LendingAlarmStopsPayouts == Spec => AlarmStopsPayouts
<1> DEFINE Stopped == alarmed /\ alarmed' =>
             shares' = shares /\ custody' = custody /\ treasury' >= treasury
<1>1. OP!Inv /\ VP!Inv /\ [Next]_vars => [Stopped]_vars
  <2> SUFFICES ASSUME OP!Inv, VP!Inv, [Next]_vars, alarmed
               PROVE  shares' = shares /\ custody' = custody /\ treasury' >= treasury
    OBVIOUS
  <2>1. paused
    BY DEF OP!Inv, OP!AlarmHolds
  <2> QED
    BY <2>1, PayoutSteps DEF V!Deposit, V!Withdraw, V!Borrow, V!Liquidate, V!Open
<1> QED
  BY <1>1, LendingOracleInvariant, LendingVaultInvariant, PTL DEF Spec, AlarmStopsPayouts

\* A price the vault uses lies between two prices that were reported recently.
LEMMA AnsweredBetween ==
  ASSUME OP!Inv, OP!ServedWithinRecentPrices, Bounded,
         NEW a \in Asset, AnsweredPrice[a] > 0
  PROVE  \E lo, hi \in RecentPrices(a) :
           /\ lo \in Nat /\ hi \in Nat /\ AnsweredPrice[a] \in Nat
           /\ lo <= AnsweredPrice[a] /\ AnsweredPrice[a] <= hi
<1>1. AnsweredPrice \in [Asset -> 0 .. MaxI128]
  BY AnswersTyped
<1>2. AnsweredPrice[a] \in Nat
  BY <1>1, Constants
<1>3. O!AnswersVault(a) /\ AnsweredPrice[a] = O!ServedPrice(a)
  BY <1>2 DEF AnsweredPrice
<1>4. OP!Serves(a)
  BY <1>3 DEF O!AnswersVault, O!Serves, OP!Serves, O!Elapsed, OP!Elapsed
<1>5. O!Recent(a) = OP!Recent(a) /\ O!ServedPrice(a) = OP!ServedPrice(a)
  BY DEF O!Recent, OP!Recent, O!ServedPrice, OP!ServedPrice
<1>6. PICK x \in O!Recent(a), y \in O!Recent(a) :
        x.price <= AnsweredPrice[a] /\ AnsweredPrice[a] <= y.price
  BY <1>3, <1>4, <1>5 DEF OP!ServedWithinRecentPrices
<1>7. \A o \in O!Recent(a) : o.price \in Nat
  <2>1. seen \in [Asset -> SUBSET [at : Nat, price : Nat, decimals : Nat]]
    BY DEF OP!Inv, OP!TypeOK
  <2> QED
    BY <2>1 DEF O!Recent
<1>8. x.price \in RecentPrices(a) /\ y.price \in RecentPrices(a)
  BY DEF RecentPrices
<1> QED
  BY <1>2, <1>6, <1>7, <1>8

LEMMA PrimaryIsAsset ==
  ASSUME VP!Inv, supported # <<>>
  PROVE  V!Primary \in Asset
BY VaultTypes DEF V!Primary

LEMMA AssetsType ==
  ASSUME VP!Inv, supported # <<>>, NEW n \in Nat
  PROVE  V!AssetsForShares(V!Primary, n) \in Nat
<1> DEFINE r == rate[V!Primary]
<1>1. r \in Nat \X Nat
  BY VaultTypes, PrimaryIsAsset, LendingAssumption DEF V!VaultAssumption
<1>2. r[1] \in Nat /\ r[2] \in Nat
  BY <1>1
<1> HIDE DEF r
<1>3. n * r[1] \in Nat
  BY <1>2
<1>4. ASSUME r[2] # 0
      PROVE  (n * r[1]) \div r[2] \in Nat
  <2>1. r[2] \in Nat \ {0}
    BY <1>2, <1>4
  <2>2. (n * r[1]) \div r[2] \in 0 .. n * r[1]
    BY <1>3, <2>1, QuotientAtMost
  <2> QED
    BY <1>3, <2>2
<1>5. V!AssetsForShares(V!Primary, n) = IF r[2] = 0 THEN 0 ELSE (n * r[1]) \div r[2]
  BY DEF V!AssetsForShares, r
<1> QED
  BY <1>4, <1>5

\* What shares are worth grows with the price.
LEMMA ValueMonotone ==
  ASSUME VP!Inv, supported # <<>>, NEW n \in Nat,
         NEW p \in Nat, NEW q \in Nat, p <= q
  PROVE  ValueAt(n, p) \in Nat /\ ValueAt(n, q) \in Nat /\ ValueAt(n, p) <= ValueAt(n, q)
<1> DEFINE assets == V!AssetsForShares(V!Primary, n)
<1>1. assets \in Nat
  BY AssetsType
<1> HIDE DEF assets
<1>2. assets * p \in Nat /\ assets * q \in Nat /\ assets * p <= assets * q
  BY <1>1, MulMonotone
<1>3. (assets * p) \div PriceScalar <= (assets * q) \div PriceScalar
  BY <1>2, Constants, QuotientMonotone
<1>4. (assets * p) \div PriceScalar \in Nat /\ (assets * q) \div PriceScalar \in Nat
  BY <1>2, Constants
<1> QED
  BY <1>3, <1>4 DEF ValueAt, assets

\* A share of a value, in basis points or over a debt, grows with the value.
LEMMA ShareMonotone ==
  ASSUME NEW v \in Nat, NEW w \in Nat, NEW k \in Nat, NEW y \in Nat \ {0}, v <= w
  PROVE  (v * k) \div y <= (w * k) \div y /\ (v * k) \div y \in Nat /\ (w * k) \div y \in Nat
<1>1. v * k \in Nat /\ w * k \in Nat /\ v * k <= w * k
  BY MulMonotone
<1> QED
  BY <1>1, QuotientMonotone

\* Only a loan lowers the treasury.
LEMMA TreasuryFallsWithLoan ==
  ASSUME VP!Inv, VP!Inv', [Next]_vars, treasury' < treasury
  PROVE  \E u \in User, n \in Amount : V!Borrow(u, n)
<1>1. treasury \in Nat
  BY VaultTypes
<1>2. ASSUME UNCHANGED treasury
      PROVE  FALSE
  BY <1>1, <1>2
<1>3. ~ (treasury' >= treasury)
  <2>1. treasury' \in Nat
    BY DEF VP!Inv, VP!TypeOK
  <2> QED
    BY <1>1, <2>1
<1>4. ~ \E u \in User, a \in Asset, n \in Amount : V!Deposit(u, a, n)
  BY <1>2 DEF V!Deposit
<1>5. ~ \E u \in User, a \in Asset, n \in Amount : V!Withdraw(u, a, n)
  BY <1>2 DEF V!Withdraw
<1>6. ASSUME NEW l \in Operator, NEW u \in User, NEW n \in Amount, V!Liquidate(l, u, n)
      PROVE  FALSE
  <2>1. n > 0 /\ V!TreasuryIn(V!Cap(n, V!RepayCap(u)))
    BY <1>6 DEF V!Liquidate
  <2> QED
    BY <1>3, <2>1, PaymentType, TreasuryRises
<1> QED
  BY <1>3, <1>4, <1>5, <1>6, PayoutSteps

\* Nobody borrows more than the collateral carries at some price that a source
\* reported recently, whatever failed, was evicted or reconfigured in between.
THEOREM LendingLoansAtRecentPrices == Spec => LoansAtRecentPrices
<1> DEFINE Covered(u) ==
             treasury' < treasury /\ debt'[u] > debt[u] =>
               \E p \in RecentPrices(V!Primary) :
                 debt'[u] <= (ValueAt(shares[u], p) * config.max_ltv) \div BpsDenominator
<1>1. ASSUME OP!Inv, OP!ServedWithinRecentPrices, Bounded, VP!Inv, VP!Inv', [Next]_vars,
             NEW u \in User, treasury' < treasury, debt'[u] > debt[u]
      PROVE  \E p \in RecentPrices(V!Primary) :
               debt'[u] <= (ValueAt(shares[u], p) * config.max_ltv) \div BpsDenominator
  <2> DEFINE n == shares[u]
             ltv == config.max_ltv
             answered == AnsweredPrice[V!Primary]
  <2>1. PICK b \in User, m \in Amount : V!Borrow(b, m)
    BY <1>1, TreasuryFallsWithLoan
  <2>2. n \in Nat /\ ltv \in Nat /\ debt \in [User -> Nat]
    BY <1>1, VaultTypes
  <2>3. b = u
    <3>1. debt' = [debt EXCEPT ![b] = V!AccruedDebt(b) + m]
      BY <2>1 DEF V!Borrow, V!StorePosition
    <3>2. debt[u] \in Nat /\ debt'[u] # debt[u]
      BY <1>1, <2>2
    <3> QED
      BY <2>2, <3>1, <3>2
  <2>4. /\ debt'[u] = V!AccruedDebt(u) + m /\ m > 0
        /\ supported # <<>>
        /\ V!CanValue(V!Primary, n)
        /\ debt'[u] <= V!MaxBorrow(V!Primary, n)
    BY <2>1, <2>2, <2>3 DEF V!Borrow, V!StorePosition
  <2>5. V!AccruedDebt(u) \in Nat /\ debt'[u] \in Nat \ {0}
    BY <1>1, <2>4, DebtType, AmountType
  <2>6. n # 0
    <3>1. ASSUME n = 0
          PROVE  V!MaxBorrow(V!Primary, n) = 0
      <4>1. V!CollateralValue(V!Primary, n) = 0
        BY <3>1 DEF V!CollateralValue
      <4>2. 0 * ltv = 0 /\ 0 \div BpsDenominator = 0
        BY <2>2, Constants
      <4> QED
        BY <4>1, <4>2 DEF V!MaxBorrow
    <3> QED
      BY <2>4, <2>5, <3>1
  <2>7. answered > 0
    BY <2>4, <2>6 DEF V!CanValue, V!PriceUsable
  <2>8. PICK p \in RecentPrices(V!Primary) :
          p \in Nat /\ answered \in Nat /\ answered <= p
    BY <1>1, <2>4, <2>7, AnsweredBetween, PrimaryIsAsset
  <2>9. V!MaxBorrow(V!Primary, n) = (ValueAt(n, answered) * ltv) \div BpsDenominator
    BY <2>6 DEF V!MaxBorrow, V!CollateralValue, ValueAt
  <2> HIDE DEF n, ltv, answered
  <2>10. /\ ValueAt(n, answered) \in Nat /\ ValueAt(n, p) \in Nat
         /\ ValueAt(n, answered) <= ValueAt(n, p)
    BY <1>1, <2>2, <2>4, <2>8, ValueMonotone
  <2>11. /\ (ValueAt(n, answered) * ltv) \div BpsDenominator
              <= (ValueAt(n, p) * ltv) \div BpsDenominator
         /\ (ValueAt(n, answered) * ltv) \div BpsDenominator \in Nat
         /\ (ValueAt(n, p) * ltv) \div BpsDenominator \in Nat
    BY <2>2, <2>10, Constants, ShareMonotone
  <2>12. debt'[u] <= (ValueAt(n, p) * ltv) \div BpsDenominator
    BY <2>4, <2>5, <2>9, <2>11
  <2> QED
    BY <2>12 DEF n, ltv
<1>2. OP!Inv /\ OP!ServedWithinRecentPrices /\ Bounded /\ VP!Inv /\ VP!Inv' /\ [Next]_vars
        => [\A u \in User : Covered(u)]_vars
  BY <1>1
<1> QED
  BY <1>2, LendingOracleInvariant, LendingServesRecentPrices, LendingBounded,
     LendingVaultInvariant, PTL DEF Spec, LoansAtRecentPrices

\* Only a liquidation raises the treasury while somebody loses shares.
LEMMA SharesLostAndTreasuryUp ==
  ASSUME VP!Inv, VP!Inv', [Next]_vars, NEW u \in User,
         treasury' > treasury, shares'[u] < shares[u]
  PROVE  \E l \in Operator, b \in User, n \in Amount : V!Liquidate(l, b, n)
<1>1. treasury \in Nat /\ treasury' \in Nat /\ shares[u] \in Nat
  BY VaultTypes DEF VP!Inv, VP!TypeOK
<1>2. treasury' # treasury /\ shares' # shares /\ ~ (treasury' < treasury)
  BY <1>1
<1>3. ~ \E b \in User, a \in Asset, n \in Amount : V!Deposit(b, a, n)
  BY <1>2 DEF V!Deposit
<1>4. ~ \E b \in User, a \in Asset, n \in Amount : V!Withdraw(b, a, n)
  BY <1>2 DEF V!Withdraw
<1>5. ASSUME NEW b \in User, NEW n \in Amount, V!Borrow(b, n)
      PROVE  FALSE
  <2>1. n \in Int /\ n > 0 /\ treasury' = treasury - n
    BY <1>5, AmountType DEF V!Borrow, V!TreasuryOut, V!ExactDelta
  <2> QED
    BY <1>1, <1>2, <2>1
<1> QED
  BY <1>2, <1>3, <1>4, <1>5, PayoutSteps

\* Nobody is liquidated who was healthy at every price reported recently.
THEOREM LendingLiquidationsAtRecentPrices == Spec => LiquidationsAtRecentPrices
<1> DEFINE Justified(u) ==
             treasury' > treasury /\ shares'[u] < shares[u] =>
               \E p \in RecentPrices(V!Primary) :
                 (ValueAt(shares[u], p) * config.liq_threshold) \div V!AccruedDebt(u)
                   <= BpsDenominator
<1>1. ASSUME OP!Inv, OP!ServedWithinRecentPrices, Bounded, VP!Inv, VP!Inv', [Next]_vars,
             NEW u \in User, treasury' > treasury, shares'[u] < shares[u]
      PROVE  \E p \in RecentPrices(V!Primary) :
               (ValueAt(shares[u], p) * config.liq_threshold) \div V!AccruedDebt(u)
                 <= BpsDenominator
  <2> DEFINE n == shares[u]
             threshold == config.liq_threshold
             owed == V!AccruedDebt(u)
             answered == AnsweredPrice[V!Primary]
  <2>1. PICK l \in Operator, b \in User, m \in Amount : V!Liquidate(l, b, m)
    BY <1>1, SharesLostAndTreasuryUp
  <2>2. n \in Nat /\ threshold \in Nat /\ owed \in Nat /\ shares \in [User -> Nat]
    BY <1>1, VaultTypes, DebtType
  <2>3. b = u
    <3>1. PICK left : shares' = [shares EXCEPT ![b] = left]
      BY <2>1 DEF V!Liquidate, V!StorePosition
    <3>2. shares'[u] # shares[u]
      BY <1>1, <2>2
    <3> QED
      BY <2>2, <3>1, <3>2
  <2>4. /\ supported # <<>> /\ owed > 0
        /\ V!PriceUsable(V!Primary)
        /\ V!HealthFactor(V!Primary, n, owed) <= BpsDenominator
    BY <2>1, <2>3 DEF V!Liquidate
  <2>5. n # 0
    <3>1. \E seized : seized \in 1 .. shares[u]
      BY <2>1, <2>3 DEF V!Liquidate
    <3> QED
      BY <2>2, <3>1
  <2>6. answered > 0
    BY <2>4 DEF V!PriceUsable
  <2>7. PICK p \in RecentPrices(V!Primary) :
          p \in Nat /\ answered \in Nat /\ p <= answered
    BY <1>1, <2>4, <2>6, AnsweredBetween, PrimaryIsAsset
  <2>8. V!HealthFactor(V!Primary, n, owed) = (ValueAt(n, answered) * threshold) \div owed
    BY <2>5 DEF V!HealthFactor, V!CollateralValue, ValueAt
  <2> HIDE DEF n, threshold, owed, answered
  <2>9. /\ ValueAt(n, answered) \in Nat /\ ValueAt(n, p) \in Nat
        /\ ValueAt(n, p) <= ValueAt(n, answered)
    BY <1>1, <2>2, <2>4, <2>7, ValueMonotone
  <2>10. owed \in Nat \ {0}
    BY <2>2, <2>4
  <2>11. /\ (ValueAt(n, p) * threshold) \div owed
              <= (ValueAt(n, answered) * threshold) \div owed
         /\ (ValueAt(n, p) * threshold) \div owed \in Nat
         /\ (ValueAt(n, answered) * threshold) \div owed \in Nat
    BY <2>2, <2>9, <2>10, ShareMonotone
  <2>12. (ValueAt(n, p) * threshold) \div owed <= BpsDenominator
    BY <2>4, <2>8, <2>11, Constants
  <2> QED
    BY <2>12 DEF n, threshold, owed
<1>2. OP!Inv /\ OP!ServedWithinRecentPrices /\ Bounded /\ VP!Inv /\ VP!Inv' /\ [Next]_vars
        => [\A u \in User : Justified(u)]_vars
  BY <1>1
<1> QED
  BY <1>2, LendingOracleInvariant, LendingServesRecentPrices, LendingBounded,
     LendingVaultInvariant, PTL DEF Spec, LiquidationsAtRecentPrices
===============================================================================
