------------------------------ MODULE HelixLending ------------------------------
(***************************************************************************)
(* The vault and its oracle adaptor together (contracts/vault/src/lib.rs   *)
(* and contracts/oracle-adaptor/src/lib.rs).  Each of HelixVault and       *)
(* OracleAdaptor sees a summary of the other: the vault prices that change *)
(* in any way, the adaptor a pause flag and a role that change in any way. *)
(* Here both are themselves.  What the vault is answered is what the       *)
(* adaptor serves, the adaptor may pause while it holds the vault's role,  *)
(* and pausing is one step of both.  Ledger time is shared.                *)
(***************************************************************************)
EXTENDS Integers, FiniteSets, Sequences

CONSTANTS
  Asset, BpsDenominator, OracleStaleWindow, MaxTime,   \* of both
  User, Operator, NoAddress, Deployment, Config, Grantable, Amount, TransferFee,
  Rate, PriceScalar, SecondsPerYear, MaxCollateral, MaxFunds,   \* of the vault
  Feed, DecimalsOf, FeedPrice, Sources, Working, Skew, Tuning, DefaultTuning,
  MaxI128, OracleDecimals, MaxSamples, None,   \* of the adaptor
  Adaptor      \* the adaptor's address, which the vault is initialized with

VARIABLES
  admin, config, supported, roles, totalDeposits, totalBorrows,
  shares, debt, lastUpdate, custody, treasury, funded, rate,   \* of the vault
  settings, cached, twap, latest, up, seen, alarmed,   \* of the adaptor
  paused, now   \* of both

vault == <<admin, config, supported, roles, totalDeposits, totalBorrows,
           shares, debt, lastUpdate, custody, treasury, funded, rate>>
adaptor == <<settings, cached, twap, latest, up, seen>>
vars == <<vault, adaptor, alarmed, paused, now>>

\* pause_by and unpause_by let the adaptor in while it has the vault's role.
MayPause == <<Adaptor, 2>> \in roles

O == INSTANCE OracleAdaptor
       WITH mayPause <- MayPause, Price <- FeedPrice, Pausing <- BOOLEAN

\* What oracle_price is answered, zero when one of its calls fails
AnsweredPrice ==
  [a \in Asset |-> IF O!AnswersVault(a) THEN O!ServedPrice(a) ELSE 0]

AnsweredTime ==
  [a \in Asset |-> IF cached[a] = None THEN 0 ELSE cached[a].time]

V == INSTANCE HelixVault
       WITH price <- AnsweredPrice, priceTime <- AnsweredTime,
            Price <- 0 .. MaxI128,
            PriceTime <- {t + d : t \in 0 .. MaxTime, d \in Skew} \cap Nat

ASSUME LendingAssumption ==
  /\ V!VaultAssumption
  /\ O!OracleAssumption
  /\ Adaptor \in Operator
  /\ \A d \in Deployment : d.oracle = Adaptor

Init == roles = {} /\ O!Init /\ V!Init

-------------------------------------------------------------------------------

\* Users, liquidators, the vault's admin but for pauses, and the tokens
VaultCall ==
  /\ UNCHANGED <<adaptor, alarmed, now>>
  /\ \/ \E d \in Deployment : V!Initialize(d)
     \/ \E u \in User, a \in Asset, n \in Amount : V!Deposit(u, a, n)
     \/ \E u \in User, a \in Asset, n \in Amount : V!Withdraw(u, a, n)
     \/ \E u \in User, n \in Amount : V!Borrow(u, n)
     \/ \E u \in User, n \in Amount : V!Repay(u, n)
     \/ \E l \in Operator, u \in User, n \in Amount : V!Liquidate(l, u, n)
     \/ \E c \in Config : V!UpdateConfig(c)
     \/ \E a \in Asset : V!AddSupportedAsset(a) \/ V!RemoveSupportedAsset(a)
     \/ \E g \in Grantable : V!GrantRole(g[1], g[2])
     \/ \E g \in Grantable : V!RevokeRole(g[1], g[2])
     \/ \E n \in Amount : V!Fund(n)
     \/ \E a \in Asset, r \in Rate : V!RateChange(a, r)

\* The other pausers; asking to unpause ends an alarm.
PausedBy(caller, value) ==
  /\ caller # Adaptor
  /\ alarmed' = (alarmed /\ value)
  /\ UNCHANGED <<adaptor, now>>
  /\ V!SetPaused(caller, value)

\* set_safe_mode of the adaptor calls pause_by or unpause_by of the vault.
SafeMode(enabled) ==
  /\ UNCHANGED <<vault, adaptor, now>>
  /\ O!SetSafeMode(enabled)
  /\ V!SetPaused(Adaptor, enabled)

UpdatePrice(a) == UNCHANGED vault /\ O!UpdatePrice(a)

AdaptorCall ==
  /\ UNCHANGED <<vault, paused>>
  /\ \/ \E pair \in Sources : O!Initialize(pair[1], pair[2])
     \/ \E pair \in Sources, t \in Tuning : O!Configure(pair[1], pair[2], t)
     \/ \E f \in Feed, a \in Asset, p \in FeedPrice, d \in Skew : O!Report(f, a, p, d)
     \/ \E f \in Feed, calls \in Working : O!Answers(f, calls)
     \/ \E a \in Asset : O!Evict(a)

CloseLedger == UNCHANGED <<vault, paused>> /\ O!CloseLedger

Next ==
  \/ VaultCall
  \/ \E o \in Operator, b \in BOOLEAN : PausedBy(o, b)
  \/ \E b \in BOOLEAN : SafeMode(b)
  \/ \E a \in Asset : UpdatePrice(a)
  \/ AdaptorCall
  \/ CloseLedger

Spec == Init /\ [][Next]_vars

-------------------------------------------------------------------------------
(* Properties *)

\* Each contract sees of the other what its own specification lets it see: what
\* was shown of the vault with any oracle, and of the adaptor with any vault,
\* holds of the two together.
ImplementsParts == V!Spec /\ O!Spec

\* From the update that finds the sources apart until someone asks to unpause,
\* nobody is paid out of the vault, borrows or is liquidated.
AlarmStopsPayouts ==
  [][ alarmed /\ alarmed' =>
        shares' = shares /\ custody' = custody /\ treasury' >= treasury ]_vars

RecentPrices(a) == {o.price : o \in O!Recent(a)}

\* The value of n shares of the collateral at price p
ValueAt(n, p) == (V!AssetsForShares(V!Primary, n) * p) \div PriceScalar

\* Nobody borrows more than the collateral carries at some price that a source
\* reported recently, whatever failed, was evicted or reconfigured in between.
LoansAtRecentPrices ==
  [][ \A u \in User :
        treasury' < treasury /\ debt'[u] > debt[u] =>
          \E p \in RecentPrices(V!Primary) :
            debt'[u] <= (ValueAt(shares[u], p) * config.max_ltv)
                          \div BpsDenominator ]_vars

\* Nobody is liquidated who was healthy at every price reported recently.
LiquidationsAtRecentPrices ==
  [][ \A u \in User :
        treasury' > treasury /\ shares'[u] < shares[u] =>
          \E p \in RecentPrices(V!Primary) :
            (ValueAt(shares[u], p) * config.liq_threshold) \div V!AccruedDebt(u)
              <= BpsDenominator ]_vars
===============================================================================
