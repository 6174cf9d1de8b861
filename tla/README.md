# A TLA+ verification of the Blend lending protocol

The contracts under `src/contracts` are a lending pool of the Aave V3.0 family with its
periphery, `src/deploy` puts such a market on a chain, and `src/graph` indexes it for the
application. Users supply assets and receive interest-bearing *bTokens*, borrow other
assets against them at a variable or a stable rate, and are liquidated when the value
of their collateral falls too low. This directory holds a TLA+ model of the core of
that protocol, of its deployment and of its subgraph, TLC configurations that check them
on small markets, and theorems about the protocol for markets of any size with proofs
checked by TLAPS.

    tlc -workers 2 -config Liquidation.cfg MCLending     # or any other of its .cfg files
    tlc -workers 2 -config Indexing.cfg MCIndexing
    tlc -workers 2 -config Deploying.cfg MCDeployment    # and HelperRetained.cfg
    tlapm LendingLedgerProofs.tla                        # any of the *Proofs modules

Paths below are relative to `src/contracts/protocol` unless they start with `src/`.

## 1. The system

| component | state it keeps | operations | what makes it correct |
|---|---|---|---|
| **Pool** (`pool/Pool.sol`, `libraries/logic/SupplyLogic`, `BorrowLogic`) | per reserve: indexes, configuration word, isolated debt; per user: a bitmap of collateral and borrowed assets, an eMode category | supply, withdraw, borrow, repay, repayWithBTokens, swapBorrowRateMode, collateral switch, finalizeTransfer | bitmaps agree with ledgers; healthy positions stay healthy under every call; borrowers and suppliers can leave |
| **Validation, account data** (`ValidationLogic`, `GenericLogic`) | none | checks of every call; health factor | new loans cover the liquidation bonus; siloed and isolated assets stay alone |
| **Efficiency mode** (`EModeLogic`) | category of a user, parameters of a category | setUserEMode | debts of a user belong to its category; changing category does no harm |
| **Liquidation** (`LiquidationLogic`) | none of its own | liquidationCall | takes no more than the bonus; is possible whenever a position is unhealthy; creates no claim |
| **Isolation mode** (`IsolationModeLogic`, `UserConfiguration`) | debt counted against an asset with a ceiling | update on borrow, repay, liquidate | count equals the debt of isolated users |
| **Tokens** (`tokenization/`) | scaled balances of bTokens and variable debt, principal and rate of stable debt, allowances | mint, burn, transfer, transferOnLiquidation, credit delegation | sum of claims = cash + debt; full burns leave no dust |
| **Reserve indexes, rates** (`ReserveLogic`, `DefaultReserveInterestRateStrategy`, `math/`) | stored indexes, rates, timestamps, treasury's accrued share | updateState, updateInterestRates | indexes never fall, suppliers earn what borrowers pay |
| **PoolConfigurator** | none (writes configuration words) | about 25 admin calls | parameters stay liquidatable; a reserve is deactivated only when empty |
| **Price oracle, sentinel** (`src/contracts/misc/ProtocolOracle.sol`, `configuration/PriceOracleSentinel.sol`) | sources; sequencer feed and grace period | getAssetPrice; isBorrowAllowed, isLiquidationAllowed | borrowers are protected during outages |
| **Flash loans, bridging** (`FlashLoanLogic`, `BridgeLogic`) | unbacked amount, premiums | flashLoan, flashLoanSimple, mintUnbacked, backUnbacked | premium reaches suppliers; nothing read before the callback is stale after it |
| **Listing** (`PoolLogic`, `ConfiguratorLogic`) | reservesList, ids | initReserve, dropReserve, mintToTreasury | ids are unique; a reused slot inherits nothing |
| **Access control, provider, registry, proxies** (`configuration/`, `libraries/upgradeability`) | roles, addresses, implementations | setters | list and indexes agree; initialised once per revision |
| **Rewards** (`src/contracts/periphery/rewards`) | reward index per asset, accrued per user | handleAction (called by the tokens), claims, emission changes | paid rewards never exceed emissions |
| **Treasury** (`src/contracts/periphery/treasury`) | payment streams | create, withdraw from, cancel a stream | a stream pays its deposit once |
| **Leverager** (`src/contracts/periphery/misc/Leverager.sol`) | flag while rebalancing | loop, rebalance, flash-loan callback | nothing is left behind in the contract |
| **Gateways, adapters, L2 encoding, data providers** | none | wrappers and views | |
| **Deployment scripts** (`src/deploy`, `src/utils`) | records of deployed contracts, on disk; transactions in the mempool | deploy, look up, call, list and configure reserves in chunks | however often they stop and are run again, they end in the configured market, with true records and no role left over |
| **Subgraph** (`src/graph`) | a store of entities: pools, reserves, users, positions, allowances, prices; data sources | one handler per event | when it has caught up it shows what the contracts hold; it never stops for good |

**How they interact.** A call on the pool is one transaction. It reads the reserve's
configuration, brings the indexes up to date, validates, calls the token contracts
(which alone hold balances and the underlying), updates the two bitmaps, and adjusts
the rates. bToken transfers go the other way: the token moves the balance, then calls
`Pool.finalizeTransfer`, which checks the sender's health and may revert everything.
Tokens call the rewards controller on every balance change. The configurator writes
whole configuration words of the pool; the pool reads prices and sentinel each time.

Off chain, the scripts send transactions and keep a record of every contract they
created; they decide what is still to be done by reading records and contracts. The
contracts emit events; graph-node hands them, block by block, to the handlers, which
rebuild positions, totals and settings from them, and follow new contracts by creating
data sources for them.

**What is hard.** Transactions are atomic, so the concurrency of this system is the
order of whole calls: of users on each other's positions (supply, repay and transfer
on somebody's behalf, liquidations), of admins changing parameters under open
positions, of time, prices and sequencer outages. The same fact is recorded several
times (a debt, its bit in the bitmap, its share of the isolated debt), in amounts that
are rounded differently. Off chain, a script may stop between any two effects, ask a
node that does not yet see what it has sent, and be run again; a handler sees old events
but the present state of the contracts, must rebuild rounded amounts from rounded
amounts, and stops the whole index if it throws. The single test of the repository (`src/test/supply.ts`) runs
one supply, one borrow and one repayment.

## 2. Modules

| module | models | correspondence |
|---|---|---|
| `WadRayMath` | `math/WadRayMath.sol`, `math/PercentageMath.sol` | one operator per function used; units are constants |
| `PoolBase` | state, token ledgers, bitmaps, account data | see the list of variables below |
| `ValidationLogic` | `ValidationLogic.sol` | `ValidateX(...)` holds when `validateX` does not revert |
| `Pool` | position calls, liquidation, time, oracle, sequencer | one action per call of `Pool.sol`, with all the calls it makes |
| `PoolConfigurator` | `PoolConfigurator.sol` | one action per admin call; `CollateralParamsAllowed`, `EModeParamsAllowed` are its parameter checks |
| `LendingProtocol` | the composition, `Spec` and the properties | |
| `LendingExits` | properties that say a call is possible (`ENABLED`) | |
| `MCLending` | the small markets given to TLC | |
| `ArithmeticProofs` | lemmas on rounding and on sums over finite sets | section 5 |
| `LendingProofs`, `LendingLedgerProofs`, `LendingAccountProofs` | theorems on types and parameters; bitmaps and ledgers; liquidations and health | each builds on the ones before |
| `MarketEventsProofs`, `MarketIndexingProofs` | theorems on what the pool announces and the index shows | on `MarketIndexing` |
| `MarketLedger` | the ledgers of a market with the events they emit: all position calls, flash loans, bridging, treasury mints, delegation | one operator per function, from market to market; one action per call |
| `SubgraphEvents` | the classes of `src/graph/generated` for the events the manifest names | one constructor per event |
| `SubgraphSchema` | `src/graph/generated/schema.ts` | one record of required and optional fields per entity |
| `GraphMath` | `src/graph/src/helpers/math.ts` | truncating `rayMul`, `rayDiv` on signed integers |
| `SubgraphStore` | `src/graph/src/helpers/initializers.ts`, id generation | tables of entities; load, initialise, save, halt |
| `MappingTokenization`, `MappingLendingPool`, `MappingConfigurator`, `MappingAddressProvider`, `MappingPriceOracle` | `src/graph/src/mapping` | one operator per handler, from index to index |
| `MarketIndexing` | `MarketLedger` followed by the subgraph | `Index(name, ...)` is the delivery of one event |
| `MarketContracts` | provider, registry, ACL manager, configurator, oracle, the helper of the scripts, as the owner sees them | one operator per call, from contracts to contracts |
| `DeployConfig`, `DeployScripts` | `src/utils/config`, the scripts 00 to 11 | `Script`, the steps in the order in which hardhat-deploy runs them |
| `MarketDeployment` | scripts, mempool, stops and reruns, then subgraph and owner | see below |
| `MarketListing` | abstract specification of a deployment: assets are listed, a helper is trusted, configures them, and is no longer trusted | refined by `MarketDeployment` |
| `DeploymentStepProofs`, `MarketDeploymentProofs` | what each call does and each step relies on; theorems on deployments | on `MarketDeployment` |
| `MCIndexing`, `MCDeployment` | the instances given to TLC | |

Variables: `config` is the decoded configuration word of every reserve,
`eModeCategories` the category table, `price` and `sentinelUp` the answers of oracle
and sentinel, `liquidityIndex` and `variableBorrowIndex` the reserve indexes,
`scaledBToken`, `scaledDebt`, `stableDebt` the token ledgers, `cash` the underlying
held by the bToken, `isolationModeTotalDebt` the field of that name, and
`usingAsCollateral`, `borrowing` the two halves of a user's bitmap as sets of assets.
An action keeps every guard, early return and state change of its call, in the order
that matters; reverts are the absence of the step. Calls that return early without
effect are stuttering.

**Indexing.** `market` holds per user and asset the scaled balances with the index of
the last action, stable principal and interest, and the collateral bit; per asset the
indexes, the cash of the bToken, the stable token's own total, accrued treasury share,
unbacked amount and isolated debt; and `log`, the events of the block. A call runs while
the block is open (`~sealed`); `FlashLoanStart` and `FlashLoanEnd` enclose the calls of a
loan's receiver. `SealBlock` closes the block, and then `IndexEvent` delivers its events
one by one; a contract call made by a handler is answered from the end of the block,
as by graph-node. A handler that reads a required field never set throws: `Halt` drops
what it wrote, and nothing follows. Three history variables (`rounded`, `moved`,
`unseen`) count what the mapping is known to lose, so that the properties say how far
off it can be, and no further.

**Deployment.** `Script` is a sequence of steps: a deployment that is waited for and
recorded, a call that is waited for or not, one whose failure is swallowed, a look-up of
a record, a test, and the two plans of script 10. `process` is the running node process,
`records` the files in `deployments/`, `mempool` what is sent and not yet mined.
`SendTransaction` and `EstimationFails` estimate a transaction against the last block or
against what is pending, since a node may do either. `Crash` stops the process anywhere,
`Rerun` starts again at script 00; mining goes on meanwhile. Once the scripts are through,
the subgraph starts at the first block (its manifest needs the recorded addresses), and
the owner makes changes (`Govern`), each in a block of its own. hardhat-deploy's way of
resuming a creation whose transaction it remembers is not relied upon: the model
deploys again, which is the worse case.

### What the model abstracts

The first part is about the lending model (`Pool` and its company), the second about
`MarketLedger` and what is built on it.

- **Lazy indexes.** The code stores an index and recomputes it when asked; a call always
  works with the value of the current block. The model keeps that value, and
  `AccrueInterest` lets it grow between calls by any amount up to `MaxIndex`, under
  three facts of `ReserveLogic`: the variable index moves only while there is variable
  debt, stable debts grow only where there are some, and the supply side gains at most
  what the debts grew by.
- **Rates and the reserve factor.** `updateInterestRates` and
  `rebalanceStableBorrowRate` change only rates, which decide how fast indexes grow;
  since growth is chosen freely they have no effect here. The treasury's accrued share
  (`accruedToTreasury`) is not kept, so the supply cap and `_checkNoSuppliers` count
  bTokens only. The treasury still receives the bTokens of liquidation fees. With the share,
  `mintToTreasury` is left out: it asks only whether a reserve is active (`PoolLogic.sol:93`), so
  it can mint on one that is paused or frozen, and `PausedReserveUntouched` and
  `FrozenReserveOnlyShrinks` are about the other calls.
- **Stable debt** is the current amount of each user. The token's own total is the sum
  of its users' debts; in the code the two may differ by rounding.
- **Wallets, allowances, credit delegation, permits** are not kept: a payer always has
  the underlying. `supplyWithPermit`, `repayWithPermit` and `deposit` are the same steps
  as `supply` and `repay`; a delegated borrow is a borrow of the position's owner.
- **Roles.** An admin call can happen when `ConfigCalls` names it. The one role that a
  position call reads, the isolated collateral supplier, is a set of users. In
  `finalizeTransfer` the caller is the bToken, which is taken not to hold that role, so
  a transfer never enables an asset with a ceiling.
- **Reserve ids** are the assets themselves, and all are listed from the start.
- **256-bit overflow** reverts in the code and does not occur at these sizes.

- **`MarketLedger` leaves out prices, caps and rates.** A borrower needs enabled
  collateral; a liquidation may happen at any time and take any of the chosen amounts.
  With these it has more behaviours than the pool. It has fewer in the following: users act
  for themselves except in delegated loans; one flash loan runs at a time, of one asset; nobody
  transfers bTokens to itself, or an amount of zero, or liquidates itself; no asset with a debt ceiling
  becomes collateral as a side effect (`ValidationLogic.sol:735`; holders of the isolated
  collateral supplier role are in the lending model only); and the stable token's total is set to
  zero only when a burn exceeds it, not also when the average rate would become negative
  (`StableDebtToken.sol:204`), which takes rates.
- **Interest** (`Tick`) raises both indexes of an indebted asset by one unit, stable debts
  by `StableInterest`, the stable token's total by as much or one less, and lets the
  treasury's share grow or not.
- **`MarketContracts` has no positions**, so the calls that require an empty reserve
  succeed. Revisions are not counted: replacing the implementation of a component by one of
  the same revision reverts, a token upgrade is always to a higher one.
- **Entities keep the fields that are read back or that mirror the contracts.** Rates,
  timestamps, names, lifetime sums and the contents of history items are left out; for
  the items only whether all required fields are set is modelled.
- **Only the test networks** (hardhat, bevm-testnet) are deployed to: elsewhere scripts 01
  and 11 return early and assets come from a table. One transaction is in a block.
- **Governance** sets each switch to one other value, does not make an asset collateral
  again once it is not, and does not replace components in the provider.

## 3. Runs

### Lending

These runs use `MCLending`, `Spec` and two users (one in Interest); amounts are 10, prices
start at 20, `PERCENTAGE_FACTOR` is 100 and `WAD` is 1000. A coarser `WAD` (100) would
round a health factor of 0.996 up to one. `RAY` is 1, so scaled balances
are amounts, except in Interest. Caps of the reserves bound supplies and debts, which
makes every market finite without bounding the number of calls; users are symmetric
where they have no roles.

| run | market | shows |
|---|---|---|
| Liquidation | a collateral and a borrowable asset; a category whose price source moves; a fee of half the bonus | `Conservation`, `UnhealthyCanBeLiquidated`, `LoanCoversBonus`, `LiquidationWithinBonus` |
| Outage | volatile debt price, sentinel registered, pauses of a reserve and of the pool | `PausedReserveUntouched`, `OutageProtectsBorrowers` |
| Mixture | two assets that are both collateral and borrowable, one siloed and switched, volatile price | `SiloedExclusive`, `HealthPreserved`, `LiquidationWithinBonus` |
| EMode | one asset in a category, one outside; admins change both tables, in any order: a category below its asset, zero LTV | `ParametersValid`, `EModeDebtConsistent`, `HealthPreserved`, `LoanCoversBonus` |
| Isolation | three assets, two with ceilings; one user may enable them as a side effect | `IsolationExclusive`, `IsolatedDebtExact`, `IsolatedDebtFollowsRepayment` |
| Interest | `RAY` = 2, indexes up to 3, amounts 1 and 2, both rate modes, a price that doubles, a bonus of 100 of which half is the fee | `TypeOK`, `DebtImpliesBorrowFlag`, `DebtCanBeRepaid`, `SupplyCanBeWithdrawn`, `UnhealthyCanBeLiquidated` |
| Switches | one asset, nine admin calls | `InactiveReserveEmpty`, `FrozenReserveOnlyShrinks` |
| EModeEntry | the market of Liquidation: a category with a price source of its own | refutes `EModeChangeKeepsHealth` |
| IsolationLiquidation | isolated collateral, volatile debt price | refutes `IsolatedDebtFollowsRepayment` |

Bounds beyond the caps: `FeeBound` (only the first liquidation fee is explored; later
ones split the same amounts again), `CashBound` (Interest: with so coarse a ray, rounding
lets reserves drift upwards by repeated borrowing and repaying), `MaxIndex`,
`MaxAccrual`, and `HealthBound` (EMode: behaviours are followed as long as all positions
are healthy, so that the step which breaks one is still checked; prices and interest stand
still in this run, and liquidations belong to the others). Two users are enough for every interaction of a pair (liquidator and
liquidated, payer and debtor, sender and receiver), two assets for a collateral and a
debt, and three where "one collateral among several" is the question. Prices of 33 and
40 put a loan into the half and the full close-factor range. In EMode 40 of A can be supplied and
30 borrowed, which gives ratios of debt to collateral between the thresholds that an admin can choose
(40, 70, 80 and 90). In Interest a balance shown as two may be one scaled unit: seizing one of the two
leaves none, and the fee of the other is one unit more than there is
(`LiquidationLogic.sol:210`); liquidations are asked for in the underlying too, since a user who
liquidates itself for bTokens gets back what it loses.

### Indexing and deployment

| run | instance | shows |
|---|---|---|
| Indexing | two users, two assets (one isolated) with open positions of all kinds; two calls, one tick | `TypeOK`, `PositionsMirrored`, `BorrowCountExact`, `SwitchesMirrored`, `DebtTotalsAreSums`, `LiquidityMirrored`, `AccruedNeverOverstated`, `StopsOnlyForBridgeFee` |
| Deploying | four assets, one of which cannot be borrowed, so that the second chunk of three is incomplete; one stop, or one stop and one change by the owner, or two changes | `TypeOK`, `RecordsTruthful`, `MarketReady`, `HelperRevoked`, `IndexMirrorsConfiguration`, `IndexFollowsMarket`, `IndexHaltsOnlyFor`, `EventuallyDeployed`, `ListingImplemented` |
| HelperRetained | the same, one disturbance | refutes `HelperIsTemporary` |

*Indexing.* `RAY` is 4 and the indexes start at 5, so that every conversion rounds;
amounts are 1 (less than the interest a position has accrued after one tick, the case in
which a burn is reported as a mint) or a whole balance or debt; a liquidation fee and a
bridge fee of 0 or 1. `MaxTransactions` = 2 calls may share a block or be separated by
a tick (`MaxTick` = 1); two are what it takes for one to leave and the next to find a
rounded, emptied or switched position, and the first position of each kind is there from
the start; users may enter category 1 and leave it (0). About 280,000 distinct states. With longer sequences the errors counted by
the histories add up, nothing else is expected to change.

*Deploying.* `MaxPending` = 3 transactions in the mempool: one that a stopped run has left
and the two that script 00 sends without waiting. `MaxCrashes` = 1, `MaxDisturbances` = 2 stops
and changes together; two stops (720,000 states) show nothing else. Failed scripts and their reruns are not
bounded. About 33,000 distinct states. The owner changes one asset that is borrowed and
one that is not.

`EventuallyDeployed` and the refinement are checked under the fairness of `Spec`. It is
stated on variables because each of its steps is the only one with that effect:
`WF_mempool(Mined)`, a chain mines what was sent; `WF_process(Restarted)`, the operator
runs a failed script again (that is how hardhat-deploy scripts are meant to be used, and
nothing is deployed by an operator who gives up); and `[]<>~Awake \/
[]<><<TRUE>>_process`, a process that can go on does (weak fairness of the process, with
`Awake` in place of the `ENABLED` it is equal to). Nothing obliges the owner to act, nor graph-node: what is said of the index is said for when it
has caught up.

`ListingImplemented` maps the contracts to `MarketListing`: `listed` to the reserves of the
pool, `configured` to those that are collateral, `trusted` to whether anybody is a risk admin.
It is a statement about orders: whatever stops, fails, is sent twice or is mined late,
nothing is configured before all is listed, nothing without the role, and the role
never goes while something is left.

### Deadlock, fairness, rounding

**Deadlock** checking is off: a market whose users have all left, or in which every
reserve is paused with no admin call left in the instance, may rightly stop.
The calls of Indexing are bounded, and a deployed and indexed market need not change.
**Fairness** is assumed only in the deployment, as explained there: nothing in a contract obliges anybody to call, so
"a position is eventually liquidated" is not a property of this code. What the code
does owe is that the call would succeed, which `LendingExits` states with `ENABLED`.

`RoundingUnits` (two units of the base currency) in `HealthPreserved` and
`LoanCoversBonus` is the roundings of one operation: the averages of threshold and LTV
are floored, so adding a collateral to a position may lower its health factor by less
than a unit. `HealthPreserved` is stated on the exact, unfloored sum for that reason.

Definitions commented "Mutant" are variants of the definition that follows them, used
to make sure that each property notices the bug it is there for. No other definition
refers to them.

## 4. What the runs found

- **Entering eMode is not checked.** `EModeLogic.sol:33` promises that a change which
  drops the health factor below the threshold reverts, but `:62` checks only when an old
  category is left. Entering is harmless while a category is better than its assets in
  every parameter and quotes the same prices. Neither is guaranteed. A category may have a price
  source of its own (run EModeEntry). And `setEModeCategory` and `setAssetEModeCategory` compare the
  thresholds of a category and its assets, but `configureReserveAsCollateral`
  (`PoolConfigurator.sol:159`) does not: a category is set to 60/70, its asset is raised to 80/80
  afterwards, and a borrower with 30 of debt against 40 of collateral enters the category and falls
  from 1.067 to 0.933. Run EMode reaches this: `HealthPreserved` fails in it unless it makes its
  exception, which is for exactly this, the user's own entry into a category that is worse for its
  position (`EntersWorseCategory`).
- **A liquidation may leave isolated debt behind.** `IsolationModeLogic.sol:23` says the
  isolated debt is updated whenever such a position is liquidated. If the liquidation
  takes the whole collateral, `LiquidationLogic.sol:175` clears the collateral bit
  before `:188` looks for it, and the ceiling stays used up (run IsolationLiquidation).
- **The scripts may leave a role behind.** Script 10 makes its helper a risk admin, has it
  configure what is not yet configured, and removes it (`src/deploy/10-init-reserves.ts:365`,
  `:396`), all under the condition that something is to be configured. If it stops between
  configuring and removing, the next run has nothing to configure and nothing to remove
  (run HelperRetained). Without a stop the helper always loses the role (`HelperRevoked`),
  even if a script throws because the role, which it does not wait for, is not there yet.
- **What stops the index.** `src/graph/templates/blend.subgraph.template.yaml:321` names
  `handleReserveActive`, which the mapping does not export (it has `handleReserveActivated`), so
  activating or deactivating a reserve does. So do a new fallback oracle that does not answer
  (`IndexHaltsOnlyFor`) and backing an unbacked mint before the bridge fee was ever set, which
  no script does (`StopsOnlyForBridgeFee`).
- **Where the index is off.** A burn below the accrued interest is reported as a mint with
  a negative difference; `BigInt` division truncates, so each may leave a scaled balance one unit
  too high, and after a full repayment a debt and a `borrowedReservesCount` that never
  return to zero (`PositionsMirrored` bounds it). `handleBalanceTransfer` takes a scaled value for an
  amount (or multiplies it by the index and not by the ray), and adjusts the collateral
  total as well; the total is not adjusted when collateral is switched. `availableLiquidity`
  counts unbacked mints as cash and misses mints to the treasury (`unseen`).
- Other observations on the subgraph, without properties: an update of an eMode category is
  ignored; `isDropped` is never reset; a pool that is registered again stays inactive; `unbackedMintCap`
  is not stored; a fallback oracle is stored only together with a new dollar price, and its
  price events overwrite those of assets with a source of their own; configuration history is kept
  once per transaction; the ChainlinkAggregator template is never created.
- Other observations on the scripts: after a stop, a call still pending is sent again, and
  one of the two reverts, which costs another rerun (registration, `initReserves`, implementations);
  the premium to the protocol is sent on every run, since it is configured as zero;
  `liquidationProtocolFee`, `debtCeiling`, `borrowableIsolation` and the eModes of the configuration
  are applied by no script; script 11 depends on the tag `mock`, which no script has (script 01
  has `mocks`).
- Observed while modelling the protocol, and true by design or of no consequence to the properties:
  a borrowing bit may stay set after the debt is gone, so `DebtImpliesBorrowFlag` is an
  implication; `repayWithBTokens` and rounding can leave a collateral bit without a
  balance; positions whose collateral is worth less than two of the smallest units of
  their debt cannot be liquidated (`WorthLiquidating`); `setAssetEModeCategory` may move an asset away
  from users who have debts in it, which the comment at `LiquidationLogic.sol:425` does
  not expect.

## 5. Proofs

The theorems hold for any finite number of users and assets, any categories, unit, price,
amount and configuration that satisfies the `ASSUME`s of `WadRayMath`, `PoolBase`,
`Pool` and `PoolConfigurator`: positive units and prices, a valid first configuration,
arguments that are natural numbers. The bounds of the runs (`FeeBound`, `CashBound`, their small sets
of amounts and caps) are not among them. Those about the index hold for any users, assets, amounts and
any number of calls per block that satisfy `LedgerAssumption` and `IndexingAssumption`: finitely many users, a
treasury that is none of them and starts without debts, a bridge fee and a protocol's share of at most 100 per cent;
whole balances at the start, collateral only where there is a balance, an index of at least one ray, flash premiums
that have been set; null is no number and no answer, and no user is one of the treasuries whose
addresses the mapping has built in. Those about
the deployment hold for any choice of the six assets of `ReservesConfig`, in any order, any number of stops,
reruns, pending transactions and changes by the owner (`ReserveSymbolsAssumption`, `BoundsAssumption`), for accounts that are not
addresses of contracts (`AccountsAssumption`) and a price that is not the absence of one (`AnswersAssumption`). The scripts and
the configuration are those of the repository; they are not parameters.

| theorem | says | if |
|---|---|---|
| `ArithmeticProofs!FullBurnIsExact` | from one ray up, `rayDiv(rayMul(s, i), i) = s` | |
| `ArithmeticProofs!ScaledZero` | from one ray up, a balance is zero only if its scaled balance is | |
| `LendingProofs!TypeCorrect` | `[]TypeOK`: no ledger goes negative | |
| `LendingProofs!ParametersAlwaysValid` | `[]ParametersValid` | |
| `LendingLedgerProofs!EveryDebtHasItsFlag` | `[]DebtImpliesBorrowFlag` | |
| `LendingLedgerProofs!SiloedAssetsStayAlone` | `[]SiloedExclusive` | |
| `LendingLedgerProofs!EModeDebtsInCategory` | `[]EModeDebtConsistent` | `setAssetEModeCategory` is not called |
| `LendingLedgerProofs!IsolatedCollateralIsAlone` | `[]IsolationExclusive` | `setDebtCeiling` is not called |
| `LendingLedgerProofs!PausedReserveStandsStill` | `PausedReserveUntouched` | |
| `LendingLedgerProofs!FrozenReserveShrinks` | `FrozenReserveOnlyShrinks` | |
| `LendingLedgerProofs!NoClaimsOnInactive` | a reserve that is not active has no suppliers | |
| `LendingLedgerProofs!InactiveIsEmpty` | `[]InactiveReserveEmpty` | no interest |
| `LendingLedgerProofs!ClaimsAreCovered` | `[]Conservation` | no interest |
| `LendingAccountProofs!OutageIsSafe` | `OutageProtectsBorrowers` | no interest |
| `LendingAccountProofs!LiquidationTakesItsBonus` | `LiquidationWithinBonus` | no interest; `setAssetEModeCategory` is not called |
| `LendingAccountProofs!HealthIsPreserved` | `HealthPreserved` | no interest; moderate debts |
| `MarketIndexingProofs!SwitchesAreMirrored` | `[]SwitchesMirrored` | |
| `MarketIndexingProofs!IndexStopsOnlyForBridgeFee` | `[]StopsOnlyForBridgeFee` | |
| `MarketIndexingProofs!AmountsAreTold` | what the index shows, the log still says and the ledgers read adds up, at every step | |
| `MarketIndexingProofs!IndexIsTyped` | `[]TypeOK`: whole records, numbers, no position without its user | |
| `MarketIndexingProofs!PositionsAreMirrored` | `[]PositionsMirrored` | |
| `MarketIndexingProofs!LiquidityIsMirrored` | `[]LiquidityMirrored` | |
| `MarketIndexingProofs!DebtTotalsStaySums` | `[]DebtTotalsAreSums` | |
| `MarketIndexingProofs!AccruedIsNotOverstated` | `[]AccruedNeverOverstated` | |
| `MarketDeploymentProofs!DeploymentTypeCorrect` | `[]TypeOK` | |
| `MarketDeploymentProofs!RecordsTruthfulAlways` | `[]RecordsTruthful` | |
| `MarketDeploymentProofs!MarketReadyAlways` | `[]MarketReady` | |
| `MarketDeploymentProofs!ListingIsImplemented` | `ListingImplemented`: every step is one of `MarketListing`, or stutters | |
| `MarketDeploymentProofs!OnlyHelperIsTrusted` | no risk admin but the recorded helper, and the owner can take its role back | |
| `MarketDeploymentProofs!HelperRevokedAlways` | `[]HelperRevoked` | |

**The hypotheses.** *No interest* (`NoInterest`) keeps the indexes at one ray, which is
also what all runs but Interest do. It is needed: at an index that is no multiple of the
ray every amount is rounded when it is scaled and again when it is shown, so
claims and debts drift apart by a unit per call, a swap of the rate mode may show
a unit more debt than before, and a position may lose a unit of health by a transfer.
*Moderate debts* (`ModerateDebts`): no position owes two wads of the base currency
or more. A health factor is a number of wads rounded half up, so `HealthFactor >= WAD`
bounds the debt by the capacity and a part of the debt divided by twice `WAD`; below two
wads that is one unit, which `RoundingUnits` allows for, and above it more.
The two hold together in every behaviour of the runs Mixture and EMode, which take loans,
liquidate, repay and change categories, so the theorem is not about an empty set of behaviours.

What a user does to itself by entering a category that has its own price source, or a
lower threshold than a collateral of that category has alone, is not a hypothesis but an exception in the
property (`EntersWorseCategory`): in that step nothing is said of that user, and everything of the
others. It is the complement of the finding on entering eMode, the one change of a position for which
the code checks no health factor. Entries into a category that is no worse, all exits, liquidations, and
every other call are covered.

**Arguments.**

*Type correctness* is not a formality here: ledgers are naturals, so it says that no
call burns more than there is. A step can only keep them natural if the amounts it
computes are, and the amounts of a liquidation are natural only under valid parameters
(a fee of at most 100 per cent, a bonus of at least 100), so `TypeOK` is not inductive
alone. The invariant is `TypeOK /\ ParametersValid`; a bonus read from a category is
valid because users are only in configured categories, the last part of
`ParametersValid`. `LendingProofs` has one lemma per helper and call.

*Debts and their bits.* `Base` adds `DebtImpliesBorrowFlag`. The interesting case is a
repayment of everything: the code compares amounts (`UserDebt = paybackAmount`) and
must have burnt every scaled unit. `FullBurnIsExact` gives this, since indexes never
fall below one ray, which is part of `TypeOK`.

*Siloed assets.* `SiloedExclusive` is about `HasDebt` and needs `Base`: a new loan is
checked against the bits of the others, so a debt without its bit would escape. The
strengthening `SiloedAlone` asks `borrowing[u] \subseteq {r}` instead of equality, so that
it survives the clearing of the bit of the siloed asset itself.

*eMode and isolation.* Both are inductive given `Base`; each excludes the one
admin call under which it is false or rests on facts outside the model (see hazards in
`PROJECT.json`).

*Sums.* Totals of a ledger and account data are sums over finite sets (`MapThenSumSet`).
`ArithmeticProofs` proves what the rest needs of them: a sum does not depend on the order,
changes by the change of one entry, is monotone, and splits. The
library's induction theorems cannot be used for that (they take an operator), so the
induction is made first order: the sizes of the sets for which the claim fails are a set of
natural numbers, which would have a least element.

*Money.* `MoneyInvariant` is `TypeOK`, `ParametersValid`, unit indexes, and
`AllBalanced`: per reserve, the sum of the scaled bTokens of users and treasury is the cash
and the sums of both kinds of debt. It is about scaled amounts, which add up without
rounding; `Conservation` follows from it at one ray. A call moves one entry, or one
entry and the cash, or, in a liquidation, up to three entries in two reserves; a liquidation
that pays its fee from what it seizes creates no claim. `InactiveReserveEmpty` follows, since
a reserve without claims then has no debt. With interest only the half of it that
`NoClaimsOnInactive` states is certain; that a reserve without suppliers has no
borrowers rests on the books being balanced.

*Frozen and paused reserves* need no strengthening but `TypeOK` and `ParametersValid`: each
call is taken apart into what it does to each ledger of each reserve.

*Outage.* No step but a loan makes a debt larger, and a loan asks the sentinel. A debt of one asset
and the bTokens of another go down in the same step only in a liquidation
(`MovesOneLedger`), whose validation asks the sentinel or for less than 0.95.

*Liquidations.* The amounts come from one of two branches: the collateral for the debt
repaid (`SeizedForDebt`), or, if the balance is smaller, the debt for the whole balance
(`DebtForSeized`). In the second the debt is rounded down from the balance, so up to one
unit of debt and the bonus on it may be taken for nothing; in the first the rounding
is that of the division by the price and of the percentage. The bound in
`LiquidationWithinBonus` is made of these and no more: one unit of the debt, with
the bonus, and one unit of each asset. The amounts seized and repaid are those by which the balances change
(`SeizedIsTaken`, `BurntIsRepaid`), which is where the unit indexes are used. A repayment
with bTokens takes one unit per unit, at par (`ParWithinBonus`); its two price sources agree
because a debt of a user in a category belongs to the category, `EModeDebtConsistent`.

*Health.* A position is two sums over all assets: what its debts are worth
(`DebtParts`), and its collateral times its thresholds (`CapacityParts`). `UserCases` says what a call can do to the
position of any user. It is `Steady`: each term moves in the safe direction
(supplies and transfers to somebody, repayments by anybody). Or it leaves no debt. Or a
health factor was validated behind it (withdrawal, transfer, collateral switch, leaving a category), which
gives the debt bound above. Or the user was not healthy (liquidation). Two are left:
a loan, for which the average LTV is compared, so `PercentDiv(debt + amount, ltv)` is at most
the collateral and the LTV at most the threshold; and a repayment with bTokens, which takes
the same value off both sides while no threshold exceeds 100 per cent
(`AllowedThreshold`, from the configurator's check). Entering a category changes
the terms without moving a ledger, and they are compared one by one.

*Settings in the index.* Collateral switches, categories and delegated allowances are *settings*: an
event carries the new value of each, and nothing else tells the index. `SwitchesMirrored` speaks of the
moments when the log is empty; the invariant must hold between them as well, and `SettingsTold` is: of
every setting, either no event in the log is about it and the index shows it, or the last that is
announces what it is. It takes two halves. On the chain (`MarketEventsProofs`), each call `Follows`: whatever
it does on the way (a repayment that clears a switch, a liquidation that clears one and sets another), the
last of its events about a setting carries the value the setting has after the call. In the index,
each handler `Sets` what its event announces and `Keeps` all other settings, although
nearly every handler saves the records in which they are kept. A running flash loan keeps the state from
which it may be undone, so that one is in the invariant too (`LoanUndoable`): the log
and the settings go back together.

*Amounts in the index.* Of a balance an event carries the change, not the value, so that no event alone says
what the index should show. The ledgers are taken as numbers, one per *key*: the cash of an asset, and of every user
and asset the two scaled balances and the stable principal. A *trace* is a sequence of numbers, one after each event
of the log, each the one before it plus what its event says of the key (`Books`). `AmountsTold` says that for every key the
log has a trace that ends where the ledger is, and the index shows where it starts (`Booked`). On the chain a
call `Moves` a key by `x` if it continues the trace up to `x`, which is what it has taken and not yet announced: a transfer
of the underlying moves the cash before the token's event speaks of it, and a loan is handed out before it comes back with
a premium. The moves of the parts of a call add up, and every whole call moves by zero; what remains of a flash loan while it runs is its amount
(`LoanBooked`), and the state it may be undone to has a trace of its own. In the index, a handler `Shifted` figures and
position by what its event says, so the trace without its first step starts where the index is now. Where this is not
so the histories make up for it (`Starts`): `rounded` grows by the unit that the mapping's division of a negative
amount may keep, which happens only for a burn announced as a mint; `moved` names positions of misread transfers;
`unseen` is the cash that only one side counts. That the bound on `rounded` is one unit per event is
arithmetic about `graphRayDiv` and `RayDiv`, for every index of at least one ray.

For the totals, what an event adds to the scaled variable debt of a user it adds to that of the reserve (`DebtShift`), and
the sum over users changes by the change of one of them. For the treasury's share, `Owing` says that the index shows no more than
is owed, or a mint to the treasury is still in the log; its handler then asks the pool, which answers with the
end of the block. That needs `SettingsTold` as well, for a contract call is made only for a pool the index knows.

*Stops.* A handler throws where it saves an entity without a required field or reads one that is not there.
The lemmas on completeness compare what is assigned with the schema, and `IsStore` says what the
store has: the contracts of the market, the pool, records of the right fields. A stop can then only
come from the null bridge fee; after it the block stays sealed, so that the
event at hand remains the one that stopped the index (`HaltsAtBacking`). The run Indexing stops that way.

*Deployment.* A script decides what to do by what it finds, and what it has sent may be mined long
after it has stopped; so the invariant `IInv` relates the position in the script to records, contracts and mempool.
`WorldOK` is about contracts and records alone: a component of the provider, once set, is the
contract recorded for it, and a reserve is either as `initReserves` leaves it or as its configuration says.
`RecordsOK` and `DoneOK` say that what is behind the process is recorded and done. `TransactionOK` says of every
transaction in the mempool, of this run or an earlier one, that what it was sent for is still
right: a grant of the role is only sent once all is listed, the plan names recorded contracts.
`PlanOK` says that an asset that is not listed, or not configured, is still in the plan.

The invariant is kept because everything moves `Forward`: records and components are set once, contracts stay
initialised, and what a step has done stays done. `DeploymentStepProofs` provides the two halves of that. For each call of
a contract it says what the call changes, and what it has done if it did not revert (`TransactionEffects`); loops over chunks are
unfolded into functions, which is how an induction over a chunk becomes one over its length.
For each step of the eleven scripts it says what was recorded and done before it (`InOrder`), by walking through the
scripts once. The owner's changes touch only what `Governs` names, and the invariant
speaks of reserves only until then.

*The refinement.* A transaction that is mined is a step of `MarketListing`, or none: `initReserves` lists, `addRiskAdmin` trusts,
`configureReserves` configures, and `removeRiskAdmin` ends the trust; everything the process
does is a stutter. That the helper has the role when it configures is not by the order of the script (it does
not wait for the grant) but because the configurator asks: the caller must be a risk or pool admin, and the only pool admin
is the deployer. That nothing is left when the role goes is `TransactionOK`, of a `removeRiskAdmin` of an earlier run as well.

*The helper's role.* `RolesOK` says, of the contracts and of every transaction in the mempool, that the role is only
given to, and taken from, the recorded helper; it holds through stops. `HelperOK` says that the helper has the role, or is
about to get it (a grant nobody waited for is still in the mempool), only while something is left to configure or the
process, which knows that it configured, is on its way to `removeRiskAdmin`. A script that throws forgets
that, so where one can throw, something must be left to configure (the next run then asks for the role and
takes it back again), or nobody has the role. The configuration fits one chunk of twenty (`FewReserves`), so it is
made at once or not at all; it is mined after the grant sent before it, so nothing is pending
when the removal is estimated, which then fails only if the owner may not decide on roles. A stop breaks exactly this part
(run HelperRetained): the theorem assumes it for as long as `crashes = 0`.

**Only model-checked**, and why:

- `LoanCoversBonus`: a lower bound for a sum of rounded parts. Each
  collateral adds half a unit of rounding, so the slack of two units is right for
  the markets of the runs and not for any number of assets.
- `IsolatedDebtExact`, `IsolatedDebtFollowsRepayment`: the first is exact only when the amounts
  are multiples of the ceiling's unit, the second is refuted by liquidations; the
  theorems would be about the calls that remain.
- `UnhealthyCanBeLiquidated`, `DebtCanBeRepaid`, `SupplyCanBeWithdrawn`: `ENABLED`.
- `EventuallyDeployed`: liveness.
- `BorrowCountExact`: that a count changes only when a position loses its last debt or gets its first. It needs, of every
  debt event at its place in the log, that what it burns was there and that a burn announced as a mint is smaller than what the
  index shows; a trace keeps the changes of a balance and not that it stays positive on the way.
- `IndexMirrorsConfiguration`, `IndexFollowsMarket`, `IndexHaltsOnlyFor`: graph-node delivers the
  events that a data source asks for, selected with `SelectSeq`, of which the prover knows nothing.

## 6. Plan

1. Proofs: `BorrowCountExact` of `MarketIndexing`: traces of debts that stay positive while there
   is something left to burn.
2. `ReserveLedger`: timestamps, rates and reserve factor; solvency (claims never exceed
   cash, debts and unbacked amounts), and a refinement to the free `AccrueInterest` and
   `Tick` here.
3. Prices and health factors in nested calls of flash loans; then `Leverager` on it.
4. `StableDebtToken`: average rate and the drift of the total.
5. `ReservesList`: slot reuse together with lingering bits; the swap-and-pop list of the
   registry.
6. `Rewards`, `EcosystemReserve`.

## 7. Not modelled

- **Rewards, treasury streams, Leverager**: planned; hazards in `PROJECT.json` name the lines.
- **Interest-rate strategy, compounded interest** (`MathUtils`): rates only decide how fast
  indexes grow, which is chosen freely; the arithmetic itself needs numbers beyond TLC's.
- **Bit packing, calldata encoding, permits**: encodings of what is modelled decoded.
- **Gateways and adapters**: thin wrappers around the pool and external contracts, with no
  state of their own.
- **Data providers**: views without state.
- **Deployment to networks with real assets**, verification scripts and tasks.
- **Generated contract bindings** (`src/graph/generated/**/Pool.ts` and the like), apart from the
  event classes and the few calls the handlers make: they are read-only call wrappers that no
  handler uses.
