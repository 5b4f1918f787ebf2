# Verification of Helix

TLA+ models of the Soroban contracts and the liquidation bot of this repository, TLC configurations that
check them on small instances, and theorems about them that TLAPS proves for
every instance. `PROJECT.json` maps every definition to the lines it models.

    tlc -workers 2 -config MCHelixVault_lending.cfg MCHelixVault
    tlapm HelixVault_proofs.tla

## The system

Helix brings yield-bearing vault shares from another chain to Stellar, and lends
against them.

| Part | State | Operations | Hard because |
|---|---|---|---|
| `contracts/token`: vault-share token | admin, vault and bridge addresses; total shares and assets; balances; allowances | `initialize`, `set_admin`, mints and burns by vault and bridge, `update_exchange_rate`, `approve`, `transfer`, `transfer_from`, `burn`, `burn_from` | shares and assets change by different calls; rounding; allowances expire, and their storage is evicted; i128 limits |
| `contracts/vault`: lending | config, supported assets, pause flag, roles; total deposits and borrows; positions | `deposit`, `withdraw`, `borrow`, `repay`, `liquidate`; pause, config, assets and roles | interest accrues with time; price and exchange rate move between calls; oracle may be stale; tokens may take fees; several users and several collateral tokens share one set of books |
| `contracts/bridge-handler` | gateway, source, limits, processed payloads, recipient mappings, per-epoch counters | `execute` (deposits and yield reports), `initiate_withdrawal`, `register_recipient`, admin settings | messages arrive in any order, more than once and again after a failure; caps are per epoch and epochs can be renumbered |
| `contracts/oracle-adaptor` | cached price, samples for a time-weighted price, safe mode | `update_price`, `lastprice`, `get_twap`, `configure`, `set_safe_mode` | two sources that fail and deviate; pausing the vault is one of its steps |
| `contracts/blend-oracle-adaptor` | oracle address, asset list | `initialize`, `set_helix_oracle`, `set_assets`; `price`, `prices`, `lastprice` | its oracle is replaced while prices are cached, stale or evicted |
| `liquidation-bot` | last ledger seen, seen events, tracked users | scan, evaluate, liquidate, retry | paging, errors halfway, stale data |
| `contracts/mock-oracle` | price entries, decimals | `set_price`, `set_decimals` | stands in for the oracle adaptor; answers zero for what was never set |
| `contracts/mock-bridge`, `contracts/bridge-poc` | stubs, and a proof of concept that keeps the last message | | |
| `product-adapters`, `apps/stellar-dashboard`, `scripts` | none of their own | read the contracts' views | |

How they interact: the bridge handler calls `bridge_mint`, `bridge_burn` and
`update_exchange_rate` of the token, of which it is the bridge. The vault holds
the token as collateral, reads its exchange rate through `assets_for_shares`,
lends a second token, and asks the oracle (an oracle adaptor or a mock) for the
price. The oracle adaptor pauses the vault through `pause_by`. The bot watches
the vault's events, reads positions and calls `liquidate`.

What makes each part correct:

- token: shares equal balances; quotes are covered by the assets; a burn does not
  move value between holders; balances and allowances change only as signed;
- vault: totals, positions, collateral held and tokens lent agree; nobody becomes
  liquidatable by their own doing; liquidations are bounded; debt falls only by
  payment; an alarm of the oracle stops payouts; loans and
  liquidations rest on recent prices; a debt-free user can leave, and bad debt that is
  not dust can be liquidated;
- bridge: shares here are backed by deposits there; a payload is applied once; the
  caps see every share; withdrawals can be told apart on the other chain;
- oracle adaptor: what is served lies between recent prices, in the decimals
  declared; disagreeing sources change nothing but the safe mode, which lasts;
  either source alone keeps prices going;
- bot: the index says of each position what the vault stores; a position that
  stays liquidatable is eventually tried.

## Modules

| Module | What it is |
|---|---|
| `HelixToken` | the token contract |
| `ShareLedger` | what a share token promises: issue, retire, move |
| `HelixVault` | the vault contract with the world it sees |
| `BridgeHandler` | the bridge handler between the gateway and the token |
| `OracleAdaptor` | the oracle adaptor between two price feeds and the vault |
| `BlendOracleAdaptor` | the adaptor for Blend over the oracle adaptor and the mock oracle (extends `OracleAdaptor`) |
| `LiquidationBot` | the bot's loop against a vault that moves on |
| `HelixBridge` | `BridgeHandler` and `HelixToken` composed |
| `HelixLending` | `HelixVault` and `OracleAdaptor` composed |
| `MCHelixToken`, `MCHelixVault`, `MCBridgeHandler`, `MCOracleAdaptor`, `MCBlendOracleAdaptor`, `MCLiquidationBot`, `MCHelixBridge`, `MCHelixLending` | instances for TLC |
| `ArithmeticTheorems` | theorems about products, quotients and sums of finite functions |
| `HelixToken_proofs`, `HelixVault_proofs`, `BridgeHandler_proofs` | theorems about the three contracts |
| `OracleAdaptor_proofs` | theorems about the oracle adaptor and the adaptor for Blend over it |
| `HelixBridge_proofs`, `HelixLending_proofs` | theorems about the two compositions, from those about their parts |
| `LiquidationBot_proofs` | theorems about the bot's loop |

Common to the contracts. The host runs a contract call to its end, undoes everything when
it panics or returns an error, and lets no contract be entered again while it is
running. So an entry point is one action, the checks are its conjuncts, and a
failed call is no step. Each module holds a few operators marked *Mutant*: a
plausible mistake in the operator that follows it, used to see that the
properties notice. Events, time-to-live extension of storage that is never lost,
and `upgrade` (which replaces the code) are left out.

**`HelixToken`.** The variables are the storage keys, absent keys read as zero.
`authorizer` is the address whose `require_auth` the call met; properties about
signatures read it. Amounts may be negative, `FitsI128` is the checked
arithmetic. Allowances are temporary storage: `EvictAllowance` may drop one at
any time, `CloseLedger` moves the ledger that expiry is compared with. Rates are
changed by mints, burns and yield reports alike.

**`HelixVault`.** A `Position` is three functions, `shares`, `debt` and
`lastUpdate`, zero when there is none, as `store_or_remove_position` leaves it.
`custody` and `treasury` are the vault's own balances of the collateral tokens
and of the borrow token, as it reads them before and after a transfer. `Moved`
lets a token move less than it was asked to; `ExactDelta` is the comparison that
refuses it. The tokens' exchange rates, prices with their times, ledger time and borrow tokens sent to
the vault are the actions of the world. User wallets are open: a transfer from a
user may succeed whenever the vault's own side allows it. The re-entry lock
needs no state, since no call is entered twice. Not modelled: i128 overflow, which only
removes behaviours; a token that claws balances back; collateral sent to the vault
outside `deposit`, which would only add to `custody`; a borrow token that is a
collateral token at the same time. `AddSupportedAsset` and
`RemoveSupportedAsset` keep the list's order, because its first entry values
every position.

**`BridgeHandler`.** `status` is the gateway's view of each message: unknown,
approved, executed. `Validate` consumes an approval, and since a failed `execute`
is undone, it does so only together with the effect. Payloads are records; two
messages may carry the same one. The token is its balances and assets: the
handler mints and burns, and holders transfer and burn what they have (`burned`
counts the latter), which takes any part of the assets along. What a handler's call
does to its own state (`AcceptDeposit`, `AcceptYieldUpdate`, `SendWithdrawal`) is kept
apart from what it does to the token, for the composition. `Nonce` keeps the two halves of the nonce as a pair, with
the saturation of the lower one. Address encoding is a function
`ContractOf`. The gas payment has no effect here beyond failing the call.

**`OracleAdaptor`.** The two calls of a feed, `decimals` and `lastprice`, fail
separately: `up` holds those that work, `Usable` and `Decimals` are
`fetch_observation` and `canonical_decimals`. `UpdatePrice` is one call with its three
outcomes: no source is usable and it fails; both are and deviate, and it pauses
the vault or fails with it; otherwise `AcceptPrice` caches the price and samples
it. Cached price and samples are temporary storage, which `Evict` drops
together as they are written together. The duration passed to `get_twap` has
no effect in the code, so `lastprice` and `get_twap` are one operator. Of the vault
there is the pause flag and the role the adaptor needs. `seen` and `alarmed` are
history: the observations that prices were made of, pruned by `Recent` to those
that matter, and a deviation that nobody has cleared since. The symbol of the
source is left out.

**`BlendOracleAdaptor`.** The state of the adaptor for Blend is the oracle it asks and
the assets it lists; base, decimals and resolution are only read back. `HelixPrice` is
what that oracle answers: the served price of `OracleAdaptor`, whose whole
specification runs underneath, or the mock's entry. `LastPrice` is the one query;
`price` and `prices` return what it returns, for a timestamp or in a list.

**`HelixBridge`.** One step of the composition is a call of the handler with the call of
the token in it. `balances`, `totalAssets` and `ledger` are shared, the token's own
addresses, total and signature are added, and the handler signs as the token's
bridge (`AsHandler`). `ImplementsParts` says that every behaviour is one of `BridgeHandler!Spec`
and one of `HelixToken!Spec`: what is checked and proved of the parts, in which the
token answered always and the bridge did anything, holds of the whole. So the token's
own count of shares is backed by deposits: `SupplyBacked` and `SharesConserved`
together. Allowances are left out, as they move what `transfer` and `burn` move.

**`HelixLending`.** The vault's prices are replaced by expressions over the adaptor's
state: `AnsweredPrice` is what `oracle_price` gets, zero when a call fails. The
adaptor's permission to pause is its role in the vault. `paused` and `now` are shared.
The vault's own set of prices is every price an i128 holds, as the adaptor's averages are
bounded by nothing else; in the run `MaxI128` is 4, the largest product that comparing two
prices of up to 2 takes.
`SafeMode` and `UpdatePrice` are steps of both contracts, and `PausedBy` are the
vault's other pausers. `ImplementsParts` is again that each part sees of the other
only what its own specification allows; the other properties relate a loan or
a liquidation in one contract to the reports that reached the other.

**`LiquidationBot`.** `pc` is the call the loop awaits; each action is what happens
when that call is answered, up to the next one, and the vault, the market and the
ledgers move between any two. `scan` reads the latest ledger, a page of events,
and per event the position; `evaluate` the config and per position the health
factor and price (one action, as nothing is decided between the two);
`execute` goes through the candidates by health factor. A call that fails is
one that failed through all of `with_retry`: it ends the iteration, except in
`liquidate`, where the next candidate follows. A transaction sent is in
`mempool` until it is applied, refused or expires, and waiting for it may fail while
it is still there. `Restart` forgets `ScannerState` and may change `start_ledger`.
The events of closed ledgers are visible. A closed position may be read as none or
as a failed call, since a simulation without result gets a message of its own
(`liquidation-bot/src/rpc.rs:300`). What a page of `EventPageLimit` cuts off
within a ledger is never fetched, as the next scan starts after the last ledger
seen, and for the same reason a failed read of a position loses not only its own event but
the later ones of that ledger, if an earlier one was handled (`LostWith`). `firstLedger` and `missed` are history: where the scanner began, and the
users with an event that it went past. Debts are the vault's stored principal, as
`get_position` answers it. The vault's further reasons to refuse a liquidation
(pause, role, allowance, price) appear as failing calls. The first supported
asset is read once by the bot and a constant here.

## Runs

| Run | Module | What it shows |
|---|---|---|
| `token_spenders` | `MCHelixToken` | `SharesConserved`, `QuotesCovered`, `ConversionNeverGains` and `BurnKeepsRate` through every mix of mints, burns, transfers and reports; `OnlyAuthorizedDebits` and `AllowanceGrantedByOwner` with allowances across ledgers; the token implements `ShareLedger` |
| `vault_lending` | `MCHelixVault` | one borrower, interest, moving prices and rates, liquidation, three configurations: `TreasuryAccounted`, `InterestGapNeverCloses` (with each touch that writes interest `TotalBorrows` drops behind the debts, and never catches up), `UserStepsStayHealthy`, `LiquidationIsFair`, `DebtFallsOnlyByPayment`; `DebtFreeCanLeave`: `withdraw` of everything is enabled for whoever owes nothing; `LiquidatableUnlessDust`: for a bad debt, underwater or not, `liquidate` of half of the smaller of the debt and the collateral's value is enabled unless that is dust |
| `vault_custody` | `MCHelixVault` | two users, two collateral tokens, fees, pauses: `DepositsAccounted`, `CustodyCoversDeposits` |
| `vault_repaid` | `MCHelixVault` | violated: first finding |
| `bridge_messages` | `MCBridgeHandler` | `SupplyBacked`, `CountersComplete`, `AppliedThroughOneMessage` and `RateMovesOncePerReport` with a deposit and a report repeated under new ids, a foreign source, pauses, caps and epochs that are renumbered |
| `bridge_token` | `MCHelixBridge` | the handler and the token itself: `ImplementsParts`; `QuotesWithinReports`, though mints and burns move the rate between reports; `WithdrawalsDistinct` within and across ledgers and epochs |
| `lending_prices` | `MCHelixLending` | the vault and the oracle adaptor itself: `ImplementsParts`, `AlarmStopsPayouts`, `LoansAtRecentPrices`, `LiquidationsAtRecentPrices` |
| `oracle_sources` | `MCOracleAdaptor` | calls of a feed failing one by one, clocks ahead, either feed first, settings that differ in window, staleness and deviation, admins that pause, unpause, grant and revoke: `OneSourceIsEnough`, `AcceptedNearSources`, `UpdateMakesServable`, and `AlarmHolds` through agreements that follow a deviation |
| `oracle_decimals` | `MCOracleAdaptor` | violated: second finding |
| `blend_prices` | `MCBlendOracleAdaptor` | `ServedWithinRecentPrices` while feeds fail and come back, windows end, prices grow old and entries are evicted; `BlendPricesReported` while the adaptor for Blend is pointed at the mock, or lists other assets, in between |
| `bot_loop` | `MCLiquidationBot` | failing calls, restarts, late and expired transactions, pages of one event, positions older than the events: `IndexAccurate` and, under fairness, `DueIsTried` |
| `bot_index` | `MCLiquidationBot` | violated: third finding |

One run of each part also checks its type invariant; those of the compositions are the
parts', through `ImplementsParts`.

### Bounds

- Token. `MaxI128` is 3, so that both the limit and products of shares and assets
  that exceed it are reached in a few calls. Three holders, one of them the contract
  that mints. Rounding shows with amounts of 1 and 2. One ledger may close, which is
  all expiry needs. Rates at larger amounts are the subject of theorems.
- Vault. A basis-point denominator of 4, a price scalar of 1 and a year of two
  ticks make interest, rounding and liquidation visible with amounts up to 6
  within two ticks. `Safe` keeps a margin between `max_ltv` and
  `liq_threshold`; `Thin` has none and pays no bonus; `Invalid` is refused.
  Prices are 0 (unusable), 1 and 2; a price is stale after one tick. `MaxCollateral`
  bounds the collateral users bring, `MaxFunds` the borrow tokens supplied.
- Bridge. Two deposits and two reports, one payload of each kind under two ids;
  two ledgers with epochs of two ledgers or one, and one withdrawal. With the token: one
  deposit under two ids and a report, one user, three ledgers, two withdrawals, and
  `MaxU64` of 2, which the two withdrawals do not saturate: a saturated nonce, like a zero amount
  or a changed duration, does repeat, and `WithdrawalsDistinct` has it as an exception.
- Oracle. A basis-point denominator of 4, windows of up to two seconds, staleness of up to
  one, and settings that differ in each. One asset: that
  updates of another do not end an alarm is what `OracleAlarmHolds` says of any number. Behind
  Blend the average runs to time 2, so that a window of one second ends and
  another is filled, with two samples each; one tick is enough for the other runs, in
  which a report becomes stale or was ahead by one. Feeds of one decimal, and of one and
  two where decimals differ. The mock has an entry with a price and one without.
- Lending. One borrower, one collateral token, two feeds with two prices, so that they
  agree or deviate and never fail; one sample per window and one tick, after which a price is stale; a
  configuration at which a change of price by one makes a loan liquidatable. Longer averages,
  failing feeds, changed settings and a second asset rest on the theorems of
  `HelixLending_proofs`.
- Bot. Two users, so that one can stand in the other's way; two events, so that one is
  old and one new or both share a ledger and a page of one cuts it; two disturbances
  (failures, restarts, moves of the market) in any combination; one liquidation per
  iteration, so that the cap is met. Debts up to 2, of which half can be
  repaid; a health factor below one or above it. The finding needs one event. That a
  failed read loses the events behind it needs three of one ledger in a page, which this
  run does not reach, nor that one user's closed position ends the iteration for another with
  an earlier event; the theorem `BotIndexAccurate` is about pages of any length.

- Dust. With `Safe`, a user with two shares at a price of 2 and a debt of 2 owes 3 after a
  tick and is liquidatable, but half of that is 1 and buys no share: `liquidate` refuses
  every payment. So does it where half of the debt rounds to zero. With real numbers this is
  a debt, or collateral, worth about two of the smallest units of the borrow token, the share
  token or its asset, whichever is worth most;
  `BuysAShare` is the boundary, the value of one share with its assets rounded up.

The runs that need several users, several assets, interest and fees at once would
be too large; each run keeps the dimensions its properties relate, and the theorems
cover the rest.

### Fairness and deadlock

The contracts' specifications assume no fairness: they promise nothing about
progress on their own. What must stay possible is stated as `ENABLED`
(`DebtFreeCanLeave`, `LiquidatableUnlessDust`, `OneSourceIsEnough`).

The bot is a loop, and its specification is fair to two things only.
`WF_vars(BotStep)`: every call of the loop ends, since `with_retry` gives each attempt a
timeout and stops after the third, and `main` calls `run_iteration` again after
a sleep, whatever it returned. `WF_vars(CloseLedger)`: a ledger with events is
closed, which is the network's doing. Nothing is assumed of users, the market or the
transactions sent, and failures and restarts are never required; they are
bounded in number by `MaxDisturbances`, since a bot whose calls always fail gets
nowhere. `DueIsTried` asks that a transaction for the position is sent, or that the
position is not due at some time after. It says nothing of users with an event that was
missed: one of those with a closed position stops evaluation for everybody.

Every run checks for deadlock.

## Findings

`vault_repaid`: `repay` and `liquidate` subtract the whole payment from
`TotalBorrows`, but interest is only ever added to the position. A debt repaid with
interest therefore leaves `TotalBorrows` too low, below zero when it was the only one.
`test_repay` expects zero (`contracts/vault/src/test.rs:523-526`), and passes because
it repays in the second in which it borrowed. What does hold is
`TreasuryAccounted`: `TotalBorrows` is what left the treasury less what came back.
It is read by no decision of the contract, only by its observers. The gap never closes
(`InterestGapNeverCloses`), and without interest there is none
(`VaultBorrowsClearWithoutInterest`).

`oracle_decimals`: `decimals` answers for the source that works now, but samples and
the cached price are scaled to the decimals of the source that worked when they
were taken. With sources of different decimals, after the primary failed and came
back, `lastprice` and `decimals` do not belong together, and the vault, which
insists on seven decimals (`contracts/vault/src/lib.rs:851`), takes a price that is
off by a power of ten. The repository's tests give both sources the same decimals.
With equal decimals there is no such price (`OracleDecimalsAgree`).

`bot_index`: `scan` puts an event into `seen_event_ids` before it reads the position
(`liquidation-bot/src/scanner.rs:68`). If that read fails, the next iteration
fetches the event again, skips it, and moves on, so the user is not watched until
another event of theirs. If the event was not the first of its ledger, the next iteration does not ask for that ledger
again, and the events that followed in it are lost as well.
What does hold is `IndexAccurate`: the index is right about
all users whose events were handled, through restarts and moves of the vault; and
the index is complete where no read of a position fails for good and no page of events
ends within a ledger (`BotIndexComplete`).

## Proofs

All theorems hold for any finite set of holders, users, assets and payloads, and any
amounts, rates, prices, limits, pages and scale constants that meet the assumptions named
in the modules (`TokenAssumption`, `VaultAssumption`, `OracleAssumption`,
`BridgeAssumption`, `BotAssumption`; the compositions' `BridgedTokenAssumption` and
`LendingAssumption` are those of their parts and how the parts share constants).
`ArithmeticTheorems` has the products and quotients of natural numbers that all rounding
arguments use, and proves what updating, adding or comparing entries does to
`SumFunction`: the library defines it by a fold, so the module first shows that the
fold is a function of the finite set (by a least counterexample, since induction
theorems cannot be instantiated), then that its recursion may take the elements in any
order, and then how it changes with one entry (`SumUpdate`, `SumRemove`) and that
bounds on the entries bound the sum (`SumCompare`).

- `HelixToken_proofs`. The invariant is `TypeOK /\ SharesConserved /\
  EmptyUntilInitialized`. `TypeOK` alone is not inductive: that `totalShares`
  stays natural when a burn lowers it needs the balance to be part of the sum, and
  `initialize` zeroes the totals but not the balances, so it needs
  `EmptyUntilInitialized`. From it follow `TokenTypeOK`, `TokenConservesShares`,
  `TokenBurnKeepsRate` (by arithmetic on the rounded-up quotient),
  `TokenImplementsLedger` (every action is a step of `ShareLedger` or stutters),
  `TokenQuotesCovered` (each quote is below its part, and the parts of all holders sum
  to the assets, by `SumCompare`) and `TokenConversionNeverGains`. `TokenOnlyAuthorizedDebits`
  and `TokenAllowanceGrantedByOwner` go through the entry points: a balance falls with the
  signature of its owner, with a live allowance that falls by the same amount, or in a
  burn by vault or bridge that the total records; what a spender may take rises in no
  other call than the owner's `approve`, and in particular not when time passes or an
  entry is evicted.
- `HelixVault_proofs`. The invariant joins `TypeOK`, the four accounting
  invariants, that the config in force is valid, and that the totals are zero until
  `initialize`. `AccountingStep` is the common argument of the five entry points that
  touch a position; `GovernanceStep` and `WorldStep` are that of the others.
  `VaultUserStepsStayHealthy` adds `MarginIsHealthy`: a debt within `max_ltv` of
  the collateral, both rounded, has a health factor above one as soon as
  `liq_threshold` is larger by one basis point. `VaultLiquidationIsFair` follows the
  quotients of `SharesToSeize` back: each rounds down, so what is seized is worth no more
  than payment and bonus. `VaultDebtFallsOnlyByPayment` compares the interest of a position
  before and after each call, with any elapsed time. `VaultInterestGapNeverCloses` shows for
  each call that debts and `TotalBorrows` change by the same amount, apart from the interest
  the touch writes (`BooksMove`, `GapWidens`); with no interest the two are equal, which is
  the invariant of `VaultBorrowsClearWithoutInterest`. `VaultTouchForgivesLessThanOne` bounds
  what rounding takes from the interest of one touch. Of `DebtFreeCanLeave`
  and `LiquidatableUnlessDust`, whose `ENABLED` the prover does not know, the content is
  proved with a witness: `VaultDebtFreeCanLeave` and `VaultBadDebtCanBeLiquidated` take any
  state of the invariant and a next value for every variable, and show that this step is one
  of `Withdraw`, or of `Liquidate`. That `liquidate` finds enough shares is proved, not
  assumed: `CoveredPaymentBounds` uses that `validate_config` caps the bonus at the payment,
  and `SeizedRounding` follows the value of the position through the four roundings, down to
  at least one share and at most those held. That the vault still holds the shares is `OneTokenCovers`,
  from the accounting invariants; it needs one collateral token, as the properties do.
- `OracleAdaptor_proofs`. The invariant joins `TypeOK` with `ClocksWithinSkew`
  (no report is further ahead than the skew), `AverageOfWindow` (the sum of the
  samples lies between the number of samples times the lowest and the highest
  recently seen price) and `AlarmHolds`. `ServedWithinRecentPrices` alone is not
  inductive, since it speaks of a quotient of which only the sum is stored;
  `AverageExtends` shows that one more sample keeps the bounds, with the facts on
  products and quotients of `ArithmeticTheorems`. `UpdateMakesServable` and `AcceptedNearSources` are
  action properties that follow from the invariant and `NewPriceFacts`.
  `OracleOneSourceIsEnough` is the witnessed form of `OneSourceIsEnough`: with one usable
  source the step that takes its price, or raises the alarm, is one of `UpdatePrice`. Its
  conditions on the reports and on the sum are those under which the checked arithmetic of
  the call stays within an i128, which the constants of the run meet. `OracleDecimalsAgree`
  needs `SampledAlike`: every observation kept is in the decimals that all feeds share, so
  scaling it to the declared ones changes nothing.
  `BlendImplementsOracle` shows that the adaptor for Blend leaves the oracle underneath to
  itself, so that `BlendServesReportedPrices` follows from what is served there.
- `BridgeHandler_proofs`. `SupplyBacked`, `CountersComplete` and
  `AppliedThroughOneMessage` are inductive together with `TypeOK` and `SupplyFits` (the
  balances sum to an i128, without which a transfer could not be seen to keep each
  balance in range). Deposits are summed over the payloads processed, so a deposit
  counts once because its payload was not there before; withdrawals are summed over a log
  that grows, which is what `SumRemove` is for. `BridgeWithdrawalsDistinct` adds
  `NonceInv`: an unsaturated nonce and the shares it was given for lie below the
  counter of the ledger they were given in, so the next nonce of that ledger is larger.
  It needs the epochs to keep their duration, as the property does.

- `HelixBridge_proofs`. `BridgeImplementsToken` and `BridgeImplementsHandler` map each step
  of the composition to one of either part; together they are `BridgeImplementsParts`, and
  everything proved of the parts holds here, through the instances `TP` and `HP` of their
  modules. The interesting step is a mint: the token checks its own total against the i128
  limit, the handler's view of it the sum of the balances, and the two agree by the token's
  `SharesConserved`, so the first refinement is used in the second. `Known` types the
  handler's recipients and says that a token that is not initialized has no assets. `BridgeQuotesWithinReports` needs
  that the assets the token shows are at most those of a report that was processed
  (`AssetsReported`, inductive with the token's invariant), and `QuotesCovered`;
  `BridgeWithdrawalsDistinct` is the handler's. `BridgeTokenBacked` joins the handler's
  `SupplyBacked` and the token's `SharesConserved`: what the token counts, and what was
  burned, is what deposits brought less what withdrawals sent back.
- `HelixLending_proofs`. `LendingImplementsOracle` needs `Fresh` (a vault that is not
  initialized has no roles, so nobody pauses it); `LendingImplementsVault` needs the oracle's
  invariant and `Bounded` (times and averages stay within what the vault may read), since the
  vault's prices are expressions over the adaptor's state: it is shown that they change only
  when the vault's oracle may change them, that time takes answers away and alters none, and
  that an `update_price` that pauses the vault does nothing else to it. Then
  `LendingAlarmStopsPayouts` is `AlarmHolds` of the adaptor with the `paused` checks of the
  vault. `LendingLoansAtRecentPrices` and `LendingLiquidationsAtRecentPrices` join what is
  proved of the price served (`ServedWithinRecentPrices`) to the one step of the vault that
  can have moved the treasury and the position so (`PayoutSteps`), and carry the bound on
  the price through the two quotients of the collateral's value.
- `LiquidationBot_proofs`. The invariant relates the scanner's memory to the vault's events
  (`Progress`): each user with an event since the scanner began is indexed as the vault
  stores them, or has an event that this scan or a later one still comes to (`Pending`), or is
  in `missed`. It rests on the order of events and ledgers (`Chronology`). The first attempt failed: with three events of one ledger in a
  page, handling the first and failing on the second loses the third, whose user `missed` did
  not name. The model now has `LostWith`, and the proof goes through for any
  page length, number of failures and restarts. `BotTypeOK` includes the cap on liquidations.
  `BotIndexComplete` assumes that reads of positions do not fail for good and, as
  a temporal assumption, that pages end with ledgers (`PagesEndWithLedgers`); then nobody is
  ever in `missed` (`NothingMissed`). An empty page needs care there: a scanner that has
  seen nothing yet then goes on from the latest ledger, so it must be shown that there was
  nothing to fetch.

Only model-checked: the `ENABLED` form of `OneSourceIsEnough`, `DebtFreeCanLeave` and
`LiquidatableUnlessDust`, since `ENABLED` is out of the prover's reach, though a step is
exhibited for each; and `DueIsTried`, which is liveness under fairness. The three violated
properties are refuted by their runs, and conditions under which they hold are proved.

## What is not modelled

- `upgrade` of the contracts: it replaces the program the model is of.
- `set_decimals` of `mock-oracle`: nothing modelled reads the decimals of the mock. Its
  prices are modelled behind the adaptor for Blend; the vault's model leaves its oracle
  open, and `HelixLending` puts the oracle adaptor there.
- `mock-bridge`: stubs without behaviour. `bridge-poc`: a proof of concept that
  `bridge-handler` replaces; it keeps the text of the last message and holds no value.
- The bot's configuration file, logging and parsing of values.
- `product-adapters`, `apps`, `scripts`: read-only views, user interface, deployment.

Hazards without a property are listed in `PROJECT.json` with the reason. Of four the
repository does not say what should happen: interest on a small debt lost to rounding
(`contracts/vault/src/lib.rs:779`; `VaultTouchForgivesLessThanOne` says how much);
positions that do not record their token, so that one user's deposit may leave as
another's withdrawal and a new first asset revalues everybody
(`contracts/vault/src/lib.rs:535`); a recipient mapping registered between the approval and
the execution of a deposit (`contracts/bridge-handler/src/lib.rs:425`); and a price served
while the sources deviate, because the adaptor may not pause the vault and its call fails as
a whole (`contracts/oracle-adaptor/src/lib.rs:139`). A fifth is beyond the model: the bot's
place in the event stream falls behind what a node keeps
(`liquidation-bot/src/scanner.rs:46`), which needs long quiet times, and ledgers
without events are left out. Nor does any document promise an order of yield reports: an
older one may be applied after a newer one, once.

## Plan

1. Done: all modules and runs above, and the theorems about the four contracts, the
   adaptor for Blend, both compositions and the bot.
2. Done: `OneSourceIsEnough` as a witnessed step, and the conditions under which the three
   findings do not occur: no interest, sources of equal decimals, reads of positions that
   do not fail and pages that end with ledgers.
3. Left: pages that end within a ledger, with failing reads, on an instance of the bot with three
   events in a ledger; ledgers without events, with the range of ledgers that a node keeps.
