-------------------------- MODULE BlendOracleAdaptor --------------------------
(***************************************************************************)
(* The oracle adaptor for Blend pools                                      *)
(* (contracts/blend-oracle-adaptor/src/lib.rs): it answers SEP-40 queries  *)
(* with what a Helix oracle says, which is the oracle adaptor or, where    *)
(* that is not deployed, the mock oracle (contracts/mock-oracle/src/lib.rs)*)
(* and may be changed at any time.  Its admin is fixed; the base, decimals *)
(* and resolution given to initialize are only read back, and so are the   *)
(* decimals set in the mock.                                               *)
(***************************************************************************)
EXTENDS OracleAdaptor

CONSTANTS
  Other,          \* assets that are not Stellar contracts
  AssetList,      \* the lists of assets the admin sets, as sets
  Resolution,     \* arguments of initialize
  MockEntry       \* arguments of the mock's set_price

HelixOracle == {"adaptor", "mock"}

ASSUME BlendAssumption ==
  /\ Other \cap Asset = {}
  /\ AssetList \subseteq SUBSET (Asset \cup Other)
  /\ Resolution \subseteq Nat
  /\ MockEntry \subseteq [price : Int, time : Nat]

VARIABLES
  blend,       \* instance storage: [oracle, assets], or None
  mockPrice    \* of the mock: PriceEntry of each asset, or None

blendVars == <<blend, mockPrice, vars>>

BlendInit ==
  /\ Init
  /\ blend = None
  /\ mockPrice = [a \in Asset |-> None]

-------------------------------------------------------------------------------
(* The mock oracle *)

MockLastPrice(a) ==
  IF mockPrice[a] = None THEN [price |-> 0, time |-> now] ELSE mockPrice[a]

SetPrice(a, entry) ==
  /\ mockPrice' = [mockPrice EXCEPT ![a] = entry]
  /\ UNCHANGED <<vars, blend>>

-------------------------------------------------------------------------------
(* Prices for Blend: an answer, or None, which also stands for a failed call *)

\* lastprice of the Helix oracle; the oracle adaptor fails without a fresh price.
HelixAnswers(a) == blend.oracle = "mock" \/ Serves(a)

HelixPrice(a) ==
  IF blend.oracle = "mock" THEN MockLastPrice(a)
  ELSE [price |-> ServedPrice(a), time |-> cached[a].time]

\* contains_asset: only Stellar assets are ever found.
Listed(a) == a \in blend.assets \cap Asset

\* Mutant: a price of zero is passed on.
LastPriceAny(a) ==
  IF blend # None /\ Listed(a) /\ HelixAnswers(a) THEN HelixPrice(a) ELSE None

LastPrice(a) ==
  IF blend # None /\ Listed(a) /\ HelixAnswers(a) /\ HelixPrice(a).price > 0
  THEN HelixPrice(a) ELSE None

-------------------------------------------------------------------------------
(* The admin *)

InitializeBlend(oracle, assets, resolution) ==
  /\ blend = None
  /\ assets # {} /\ resolution # 0
  /\ blend' = [oracle |-> oracle, assets |-> assets]
  /\ UNCHANGED <<vars, mockPrice>>

SetHelixOracle(oracle) ==
  /\ blend # None
  /\ blend' = [blend EXCEPT !.oracle = oracle]
  /\ UNCHANGED <<vars, mockPrice>>

SetAssets(assets) ==
  /\ blend # None
  /\ assets # {}
  /\ blend' = [blend EXCEPT !.assets = assets]
  /\ UNCHANGED <<vars, mockPrice>>

BlendNext ==
  \/ \E h \in HelixOracle, s \in AssetList, r \in Resolution : InitializeBlend(h, s, r)
  \/ \E h \in HelixOracle : SetHelixOracle(h)
  \/ \E s \in AssetList : SetAssets(s)
  \/ \E a \in Asset, e \in MockEntry : SetPrice(a, e)
  \/ Next /\ UNCHANGED <<blend, mockPrice>>

BlendSpec == BlendInit /\ [][BlendNext]_blendVars

-------------------------------------------------------------------------------
(* Properties *)

\* Blend takes a price from the oracle adaptor only if sources reported one as
\* low and one as high recently, whatever was configured, listed, switched over
\* from the mock or evicted in between; from the mock it takes what was set last.
BlendPricesReported ==
  \A a \in Asset :
    LastPrice(a) # None =>
      /\ LastPrice(a).price > 0
      /\ blend.oracle = "mock" => LastPrice(a) = mockPrice[a]
      /\ blend.oracle = "adaptor" =>
           \E x, y \in Recent(a) : /\ x.price <= LastPrice(a).price
                                   /\ LastPrice(a).price <= y.price
===============================================================================
