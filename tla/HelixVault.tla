------------------------------ MODULE HelixVault -------------------------------
(***************************************************************************)
(* The Helix lending vault (contracts/vault/src/lib.rs): users deposit     *)
(* vault shares as collateral, borrow a token against them, repay, and are *)
(* liquidated when the collateral no longer carries the debt.              *)
(*                                                                         *)
(* A contract call is atomic and the host lets no call back in, so every   *)
(* entry point is one action; its checks are conjuncts and a failed call   *)
(* is no step.  The collateral tokens, the borrow token and the oracle are *)
(* seen as the vault sees them: its own balances, an exchange rate and a   *)
(* price.  User wallets are left open: a transfer from one may always      *)
(* succeed.  Checked i128 overflow only removes behaviours and is left out.*)
(***************************************************************************)
EXTENDS Integers, FiniteSets, Sequences, Functions

CONSTANTS
  User, Operator,      \* borrowers; admins, liquidators and pausers
  NoAddress,
  Asset,               \* collateral tokens that can be supported
  Deployment,          \* [admin, oracle, config] arguments of initialize
  Config,              \* PoolConfig values passed to update_config
  Grantable,           \* <<address, role>> pairs the admin grants or revokes
  Amount,              \* i128 arguments callers pass
  TransferFee,         \* by how much a token may short a transfer
  Rate,                \* exchange rates <<assets, shares>> of a collateral token
  Price,               \* prices the oracle answers; 0 is any unusable answer
  PriceTime,           \* times the oracle gives its prices
  BpsDenominator, PriceScalar, SecondsPerYear, OracleStaleWindow,
  MaxCollateral,       \* bound: what users own of each collateral token
  MaxFunds, MaxTime    \* bounds on the borrow liquidity supplied and on time

LIQUIDATOR_ROLE == 1
PAUSER_ROLE == 2
ADMIN_ROLE == 0

PoolConfig == [max_ltv : Nat, liq_threshold : Nat, liq_bonus : Nat,
               interest_rate : Nat, min_position : Int]

ASSUME VaultAssumption ==
  /\ IsFiniteSet(User) /\ IsFiniteSet(Asset)
  /\ NoAddress \notin Operator
  /\ Config \subseteq PoolConfig
  /\ Deployment \subseteq [admin : Operator, oracle : Operator, config : PoolConfig]
  /\ Grantable \subseteq Operator \X Nat
  /\ Amount \subseteq Int /\ TransferFee \subseteq Nat
  /\ Price \subseteq Nat /\ PriceTime \subseteq Nat /\ Rate \subseteq Nat \X Nat
  /\ BpsDenominator \in Nat \ {0} /\ PriceScalar \in Nat \ {0}
  /\ SecondsPerYear \in Nat \ {0} /\ OracleStaleWindow \in Nat
  /\ MaxCollateral \in Nat /\ MaxFunds \in Nat /\ MaxTime \in Nat

VARIABLES
  admin, config, supported, paused, roles,   \* instance storage and Role keys
  totalDeposits, totalBorrows,
  shares, debt, lastUpdate,    \* Position(user); all zero when there is none
  custody,                     \* the vault's balance of each collateral token
  treasury,                    \* the vault's balance of the borrow token
  funded,                      \* borrow tokens supplied to the vault so far
  now, price, priceTime, rate  \* ledger time, oracle answers, exchange rates

governance == <<admin, config, supported, paused, roles>>
positions == <<shares, debt, lastUpdate>>
book == <<totalDeposits, totalBorrows, custody, treasury>>
world == <<funded, now, price, priceTime, rate>>
vars == <<governance, positions, book, world>>

NoConfig == [max_ltv |-> 0, liq_threshold |-> 0, liq_bonus |-> 0,
             interest_rate |-> 0, min_position |-> 0]

Init ==
  /\ admin = NoAddress /\ config = NoConfig /\ supported = <<>>
  /\ paused = FALSE /\ roles = {}
  /\ totalDeposits = 0 /\ totalBorrows = 0
  /\ shares = [u \in User |-> 0] /\ debt = [u \in User |-> 0]
  /\ lastUpdate = [u \in User |-> 0]
  /\ custody = [a \in Asset |-> 0] /\ treasury = 0 /\ funded = 0
  /\ now = 0
  /\ price = [a \in Asset |-> 0] /\ priceTime = [a \in Asset |-> 0]
  /\ rate \in [Asset -> Rate]

-------------------------------------------------------------------------------
(* Reading the state *)

Initialized == admin # NoAddress

Supported == {supported[i] : i \in DOMAIN supported}

\* primary_supported_asset: the one that values every position
Primary == Head(supported)

HasPosition(u) == shares[u] > 0 \/ debt[u] > 0

\* preview_accrued_position: simple interest since the last touch, rounded down
AccruedDebt(u) ==
  debt[u] + (debt[u] * config.interest_rate * (now - lastUpdate[u]))
              \div (SecondsPerYear * BpsDenominator)

\* assets_for_shares and shares_for_assets of the collateral token
AssetsForShares(asset, n) ==
  IF rate[asset][2] = 0 THEN 0 ELSE (n * rate[asset][1]) \div rate[asset][2]

SharesForAssets(asset, n) ==
  IF rate[asset][1] = 0 THEN 0 ELSE (n * rate[asset][2]) \div rate[asset][1]

\* oracle_price answers: seven decimals, positive, not older than the window; a
\* price from the future is of age zero
PriceUsable(asset) ==
  price[asset] > 0 /\ now - priceTime[asset] <= OracleStaleWindow

\* collateral_value_for_position asks the oracle unless there is nothing to value
CanValue(asset, n) == n = 0 \/ PriceUsable(asset)

CollateralValue(asset, n) ==
  IF n = 0 THEN 0 ELSE (AssetsForShares(asset, n) * price[asset]) \div PriceScalar

MaxBorrow(asset, n) ==
  (CollateralValue(asset, n) * config.max_ltv) \div BpsDenominator

\* health_factor_for_position, for a positive debt
HealthFactor(asset, n, owed) ==
  (CollateralValue(asset, n) * config.liq_threshold) \div owed

\* Mutant: an emptied position is held to the minimum too.
MeetsMinimumAlways(n) == n >= config.min_position

MeetsMinimum(n) == n = 0 \/ n >= config.min_position

\* validate_config; nothing relates max_ltv to liq_threshold
ValidConfig(c) ==
  /\ c.min_position > 0
  /\ c.max_ltv \in 1 .. BpsDenominator
  /\ c.liq_threshold \in 1 .. BpsDenominator
  /\ c.liq_bonus <= BpsDenominator

-------------------------------------------------------------------------------
(* Writing the state *)

\* store_or_remove_position: an empty position leaves storage
StorePosition(u, n, owed) ==
  /\ shares' = [shares EXCEPT ![u] = n]
  /\ debt' = [debt EXCEPT ![u] = owed]
  /\ lastUpdate' = [lastUpdate EXCEPT ![u] = IF n = 0 /\ owed = 0 THEN 0 ELSE now]

\* A token may move less than it was asked to; the exact-delta checks refuse it.
Moved(n) == {n - fee : fee \in TransferFee}

\* Mutant: what the token moved is not compared with the amount.
AnyDelta(moved, n) == TRUE

ExactDelta(moved, n) == moved = n

CollateralIn(asset, n) ==
  /\ custody[asset] + n <= MaxCollateral
  /\ \E moved \in Moved(n) :
       /\ ExactDelta(moved, n)
       /\ custody' = [custody EXCEPT ![asset] = @ + moved]

CollateralOut(asset, n) ==
  /\ n <= custody[asset]
  /\ \E moved \in Moved(n) :
       /\ ExactDelta(moved, n)
       /\ custody' = [custody EXCEPT ![asset] = @ - moved]

TreasuryIn(n) ==
  \E moved \in Moved(n) :
    ExactDelta(moved, n) /\ treasury' = treasury + moved

TreasuryOut(n) ==
  /\ n <= treasury
  /\ \E moved \in Moved(n) :
       ExactDelta(moved, n) /\ treasury' = treasury - moved

DepositsRise(n) == totalDeposits' = totalDeposits + n

\* Mutant: a step forgets the total.
DepositsStay(n) == UNCHANGED totalDeposits

DepositsFall(n) == totalDeposits' = totalDeposits - n
BorrowsRise(n) == totalBorrows' = totalBorrows + n

\* Mutant: a step forgets the total.
BorrowsStay(n) == UNCHANGED totalBorrows

BorrowsFall(n) == totalBorrows' = totalBorrows - n

-------------------------------------------------------------------------------
(* Users and liquidators *)

\* Mutant: the pause is not read.
OpenAlways == Initialized

\* A pause stops everything but repay.
Open == Initialized /\ ~ paused

\* Mutant: the debt's clock restarts without the interest so far.
DebtAtDepositStale(u) == debt[u]

\* deposit accrues only a position that owes something
DebtAtDeposit(u) == IF debt[u] > 0 THEN AccruedDebt(u) ELSE 0

Deposit(u, asset, n) ==
  /\ Open /\ n > 0
  /\ asset \in Supported
  /\ CollateralIn(asset, n)
  /\ MeetsMinimum(shares[u] + n)
  /\ StorePosition(u, shares[u] + n, DebtAtDeposit(u))
  /\ DepositsRise(n)
  /\ UNCHANGED <<governance, totalBorrows, treasury, world>>

\* Mutant: health is computed before the shares are taken.
WithdrawalHealthyBefore(u, asset, n) ==
  AccruedDebt(u) > 0 =>
    /\ CanValue(asset, shares[u])
    /\ HealthFactor(asset, shares[u], AccruedDebt(u)) > BpsDenominator

\* The debt must be carried by the shares that remain.
WithdrawalHealthy(u, asset, n) ==
  LET left == shares[u] - n
  IN  AccruedDebt(u) > 0 =>
        /\ CanValue(asset, left)
        /\ HealthFactor(asset, left, AccruedDebt(u)) > BpsDenominator

Withdraw(u, asset, n) ==
  /\ Open /\ n > 0
  /\ asset \in Supported
  /\ HasPosition(u)
  /\ n <= shares[u]
  /\ MeetsMinimum(shares[u] - n)
  /\ WithdrawalHealthy(u, asset, n)
  /\ CollateralOut(asset, n)
  /\ StorePosition(u, shares[u] - n, AccruedDebt(u))
  /\ DepositsFall(n)
  /\ UNCHANGED <<governance, totalBorrows, treasury, world>>

Borrow(u, n) ==
  LET owed == AccruedDebt(u) + n
  IN  /\ Open /\ n > 0
      /\ supported # <<>>
      /\ CanValue(Primary, shares[u])
      /\ owed <= MaxBorrow(Primary, shares[u])
      /\ TreasuryOut(n)
      /\ StorePosition(u, shares[u], owed)
      /\ BorrowsRise(n)
      /\ UNCHANGED <<governance, totalDeposits, custody, world>>

\* Mutant: overpayments are taken.
Uncapped(n, limit) == n

\* A payment is cut to what it may settle: the accrued debt when repaying.
Cap(n, limit) == IF n > limit THEN limit ELSE n

Repay(u, n) ==
  LET paid == Cap(n, AccruedDebt(u))
  IN  /\ Initialized /\ n > 0
      /\ HasPosition(u)
      /\ IF paid > 0 THEN TreasuryIn(paid) ELSE UNCHANGED treasury
      /\ StorePosition(u, shares[u], AccruedDebt(u) - paid)
      /\ BorrowsFall(paid)
      /\ UNCHANGED <<governance, totalDeposits, custody, world>>

\* Mutant: the whole debt at once.
RepayCapWhole(u) == AccruedDebt(u)

\* Mutant: half of the debt as it was at the last touch.
RepayCapOfStored(u) == debt[u] \div 2

\* One liquidation settles at most half of the accrued debt, rounded down.
RepayCap(u) == AccruedDebt(u) \div 2

\* The shares that a payment and its bonus buy at the oracle's price.
SharesToSeize(paid) ==
  LET bonus == (paid * config.liq_bonus) \div BpsDenominator
  IN  SharesForAssets(Primary, ((paid + bonus) * PriceScalar) \div price[Primary])

\* The minimum position is not enforced on what a liquidation leaves.
Liquidate(l, u, n) ==
  LET paid   == Cap(n, RepayCap(u))
      seized == SharesToSeize(paid)
  IN  /\ Open /\ n > 0
      /\ <<l, LIQUIDATOR_ROLE>> \in roles
      /\ supported # <<>>
      /\ HasPosition(u)
      /\ AccruedDebt(u) > 0
      /\ CanValue(Primary, shares[u])
      /\ HealthFactor(Primary, shares[u], AccruedDebt(u)) <= BpsDenominator
      /\ paid > 0
      /\ TreasuryIn(paid)
      /\ PriceUsable(Primary)
      /\ seized \in 1 .. shares[u]
      /\ CollateralOut(Primary, seized)
      /\ StorePosition(u, shares[u] - seized, AccruedDebt(u) - paid)
      /\ DepositsFall(seized)
      /\ BorrowsFall(paid)
      /\ UNCHANGED <<governance, world>>

-------------------------------------------------------------------------------
(* Governance *)

Initialize(d) ==
  /\ ~ Initialized
  /\ ValidConfig(d.config)
  /\ admin' = d.admin
  /\ config' = d.config
  /\ supported' = <<>>
  /\ paused' = FALSE
  /\ totalDeposits' = 0 /\ totalBorrows' = 0
  /\ roles' = roles \cup {<<d.admin, ADMIN_ROLE>>, <<d.admin, PAUSER_ROLE>>,
                          <<d.oracle, PAUSER_ROLE>>}
  /\ UNCHANGED <<positions, custody, treasury, world>>

\* pause_by and unpause_by; pause and unpause are the admin's calls of them
SetPaused(caller, value) ==
  /\ Initialized
  /\ <<caller, PAUSER_ROLE>> \in roles
  /\ paused' = value
  /\ UNCHANGED <<admin, config, supported, roles, positions, book, world>>

UpdateConfig(c) ==
  /\ Initialized
  /\ ValidConfig(c)
  /\ config' = c
  /\ UNCHANGED <<admin, supported, paused, roles, positions, book, world>>

AddSupportedAsset(asset) ==
  /\ Initialized
  /\ supported' = IF asset \in Supported THEN supported ELSE Append(supported, asset)
  /\ UNCHANGED <<admin, config, paused, roles, positions, book, world>>

\* The filter drops one entry at most: AddSupportedAsset lists no asset twice.
RemoveSupportedAsset(asset) ==
  /\ Initialized
  /\ \/ asset \notin Supported /\ supported' = supported
     \/ \E i \in DOMAIN supported :
          /\ supported[i] = asset
          /\ supported' = SubSeq(supported, 1, i - 1)
                            \o SubSeq(supported, i + 1, Len(supported))
  /\ UNCHANGED <<admin, config, paused, roles, positions, book, world>>

GrantRole(addr, role) ==
  /\ Initialized
  /\ roles' = roles \cup {<<addr, role>>}
  /\ UNCHANGED <<admin, config, supported, paused, positions, book, world>>

RevokeRole(addr, role) ==
  /\ Initialized
  /\ roles' = roles \ {<<addr, role>>}
  /\ UNCHANGED <<admin, config, supported, paused, positions, book, world>>

-------------------------------------------------------------------------------
(* The world around the vault *)

\* Anyone can send borrow tokens to the vault; lending starts from there.
Fund(n) ==
  /\ n > 0 /\ funded + n <= MaxFunds
  /\ funded' = funded + n
  /\ treasury' = treasury + n
  /\ UNCHANGED <<governance, positions, totalDeposits, totalBorrows, custody,
                 now, price, priceTime, rate>>

\* With time the oracle may find its own price too old and stop answering.
Tick ==
  /\ now < MaxTime
  /\ now' = now + 1
  /\ \E gone \in SUBSET Asset :
       price' = [a \in Asset |-> IF a \in gone THEN 0 ELSE price[a]]
  /\ UNCHANGED <<governance, positions, book, funded, priceTime, rate>>

\* One step of the oracle may change what it answers for several assets.
OracleAnswers(p, t) ==
  /\ price' = p /\ priceTime' = t
  /\ UNCHANGED <<governance, positions, book, funded, now, rate>>

\* Yield reports, mints and burns move the collateral token's exchange rate.
RateChange(asset, r) ==
  /\ rate' = [rate EXCEPT ![asset] = r]
  /\ UNCHANGED <<governance, positions, book, funded, now, price, priceTime>>

Next ==
  \/ \E d \in Deployment : Initialize(d)
  \/ \E u \in User, a \in Asset, n \in Amount : Deposit(u, a, n)
  \/ \E u \in User, a \in Asset, n \in Amount : Withdraw(u, a, n)
  \/ \E u \in User, n \in Amount : Borrow(u, n)
  \/ \E u \in User, n \in Amount : Repay(u, n)
  \/ \E l \in Operator, u \in User, n \in Amount : Liquidate(l, u, n)
  \/ \E o \in Operator, b \in BOOLEAN : SetPaused(o, b)
  \/ \E c \in Config : UpdateConfig(c)
  \/ \E a \in Asset : AddSupportedAsset(a)
  \/ \E a \in Asset : RemoveSupportedAsset(a)
  \/ \E g \in Grantable : GrantRole(g[1], g[2])
  \/ \E g \in Grantable : RevokeRole(g[1], g[2])
  \/ \E n \in Amount : Fund(n)
  \/ Tick
  \/ \E p \in [Asset -> Price], t \in [Asset -> PriceTime] : OracleAnswers(p, t)
  \/ \E a \in Asset, r \in Rate : RateChange(a, r)

Spec == Init /\ [][Next]_vars

-------------------------------------------------------------------------------
(* Properties *)

\* Types, and the clock order that interest is computed from: no position was
\* touched in the future.
TypeOK ==
  /\ admin \in Operator \cup {NoAddress}
  /\ config \in PoolConfig
  /\ supported \in Seq(Asset)
  /\ paused \in BOOLEAN
  /\ roles \subseteq Operator \X Nat
  /\ totalDeposits \in Nat
  /\ totalBorrows \in Int
  /\ shares \in [User -> Nat]
  /\ debt \in [User -> Nat]
  /\ lastUpdate \in [User -> 0 .. now]
  /\ custody \in [Asset -> Nat]
  /\ treasury \in Nat
  /\ funded \in 0 .. MaxFunds
  /\ now \in 0 .. MaxTime
  /\ price \in [Asset -> Nat]
  /\ priceTime \in [Asset -> Nat]
  /\ rate \in [Asset -> Rate]

\* TotalDeposits is the sum of the positions' shares after any mix of deposits,
\* withdrawals and liquidations.
DepositsAccounted == totalDeposits = SumFunction(shares)

\* The vault holds, over all its collateral tokens, exactly the shares it owes:
\* positions do not say which token they were made in.
CustodyCoversDeposits == SumFunction(custody) = totalDeposits

\* Borrow tokens are lent or at hand: TotalBorrows is what left the treasury and
\* has not come back, interest payments included.
TreasuryAccounted == treasury + totalBorrows = funded

\* TotalBorrows never claims more than the borrowers owe: interest is added to a
\* debt and never to the total.
BorrowsWithinDebts == totalBorrows <= SumFunction(debt)

\* The debts on record that TotalBorrows does not count
InterestGap == SumFunction(debt) - totalBorrows

\* Interest added to debts is taken off TotalBorrows when it is paid, and nothing ever
\* makes up for it, whatever is lent, paid and liquidated after: the total drops
\* behind the debts with each touch that writes interest, and never catches up.
InterestGapNeverCloses == [][InterestGap' >= InterestGap]_vars

\* test_repay (contracts/vault/src/test.rs:523-526) expects TotalBorrows to be
\* zero when the only debt has been repaid in full.
TotalBorrowsClearsWithDebt ==
  (\A u \in User : debt[u] = 0) => totalBorrows = 0

\* With one collateral token, a user without debt can take out everything at once,
\* whatever the oracle says and whatever the minimum position has become.  (With
\* several, others may have taken out the token that was deposited.)
DebtFreeCanLeave ==
  \A u \in User, a \in Asset :
    /\ Asset = {a}
    /\ Initialized /\ ~ paused /\ a \in Supported
    /\ shares[u] > 0 /\ debt[u] = 0
    => ENABLED Withdraw(u, a, shares[u])

\* Half of the debt, or of what the collateral is worth if that is less: with any
\* bonus that validate_config accepts this is no more than the collateral is worth.
CoveredPayment(u) ==
  LET worth == CollateralValue(Primary, shares[u])
      owed  == AccruedDebt(u)
  IN  (IF worth < owed THEN worth ELSE owed) \div 2

\* n and its bonus are worth one share, the assets of a share rounded up.
BuysAShare(n) ==
  LET bonus      == (n * config.liq_bonus) \div BpsDenominator
      shareValue == ((rate[Primary][1] + rate[Primary][2] - 1) \div rate[Primary][2])
                      * price[Primary]
  IN  (n + bonus) * PriceScalar >= shareValue

\* Bad debt does not get stuck: with one collateral token, a liquidatable position,
\* worth more than its debt or less, can be liquidated by paying half of the smaller
\* of the two.  The exception is dust: where that half rounds to nothing, or buys
\* less than one share with its bonus, the position may be stuck.
LiquidatableUnlessDust ==
  \A u \in User, l \in Operator :
    /\ Open /\ Cardinality(Asset) = 1 /\ supported # <<>>
    /\ <<l, LIQUIDATOR_ROLE>> \in roles
    /\ PriceUsable(Primary)
    /\ AccruedDebt(u) > 0
    /\ HealthFactor(Primary, shares[u], AccruedDebt(u)) <= BpsDenominator
    /\ CoveredPayment(u) > 0 /\ BuysAShare(CoveredPayment(u))
    => ENABLED Liquidate(l, u, CoveredPayment(u))

\* The step paid the user out: a borrow, or a withdrawal (a liquidation takes
\* collateral out as well, but only against a payment).
PaysOut ==
  \/ treasury' < treasury
  \/ totalDeposits' < totalDeposits /\ treasury' = treasury

\* With one collateral token and max_ltv below liq_threshold, which nothing in
\* validate_config ensures, no user leaves their own position liquidatable.
StaysHealthy ==
  \A u \in User :
    /\ PaysOut
    /\ shares'[u] < shares[u] \/ debt'[u] > debt[u]
    /\ debt'[u] > 0
    /\ config.max_ltv < config.liq_threshold
    /\ Len(supported) = 1
    => HealthFactor(Primary, shares[u], debt[u])' > BpsDenominator

UserStepsStayHealthy == [][StaysHealthy]_vars

\* A liquidation takes from one position, unhealthy on its accrued debt, at most
\* half of that debt, and collateral worth no more than the payment and bonus.
LiquidationIsFair ==
  [][ treasury' > treasury /\ totalDeposits' < totalDeposits =>
        LET asset  == Primary
            paid   == treasury' - treasury
            seized == totalDeposits - totalDeposits'
        IN  \E u \in User :
              /\ shares' = [shares EXCEPT ![u] = @ - seized]
              /\ debt' = [debt EXCEPT ![u] = AccruedDebt(u) - paid]
              /\ 2 * paid <= AccruedDebt(u)
              /\ HealthFactor(asset, shares[u], AccruedDebt(u)) <= BpsDenominator
              /\ AssetsForShares(asset, seized) * price[asset]
                   <= (paid + (paid * config.liq_bonus) \div BpsDenominator)
                        * PriceScalar
    ]_vars

\* What a user owes, interest included, falls only by tokens the vault receives.
\* A new config is left out: it applies its rate to the time already elapsed.
DebtFallsOnlyByPayment ==
  [][ config' = config =>
        \A u \in User :
          \/ AccruedDebt(u)' >= AccruedDebt(u)
          \/ treasury' - treasury = AccruedDebt(u) - AccruedDebt(u)' ]_vars
===============================================================================
