--------------------------- MODULE SubgraphEvents ---------------------------
(***************************************************************************)
(* The events the subgraph listens to, as graph/generated decodes them.    *)
(*                                                                         *)
(* Every constructor stands for one generated class and its Params: which  *)
(* contract emitted the event and the parameters a handler reads.  What no *)
(* handler reads (old values, referral codes, target addresses) and what   *)
(* the entities modelled do not keep (rates) is left out.  Tokens of the   *)
(* three kinds have events of the same names; they are told apart as the   *)
(* imports of graph/src/mapping/tokenization.ts rename them.               *)
(***************************************************************************)
CONSTANT NoAddress    \* the zero address, and the one byte of a missing address

-----------------------------------------------------------------------------
\* Registry of addresses providers, and one addresses provider.

AddressesProviderRegistered(contract, provider) ==
    [name |-> "AddressesProviderRegistered", address |-> contract,
     addressesProvider |-> provider]

AddressesProviderUnregistered(contract, provider) ==
    [name |-> "AddressesProviderUnregistered", address |-> contract,
     addressesProvider |-> provider]

ProxyCreated(contract, id, proxy) ==
    [name |-> "ProxyCreated", address |-> contract, id |-> id, proxyAddress |-> proxy]

PriceOracleUpdated(contract, new) ==
    [name |-> "PriceOracleUpdated", address |-> contract, newAddress |-> new]

PoolUpdated(contract, new) ==
    [name |-> "PoolUpdated", address |-> contract, newAddress |-> new]

PoolConfiguratorUpdated(contract, new) ==
    [name |-> "PoolConfiguratorUpdated", address |-> contract, newAddress |-> new]

PoolDataProviderUpdated(contract, new) ==
    [name |-> "PoolDataProviderUpdated", address |-> contract, newAddress |-> new]

-----------------------------------------------------------------------------
\* Oracles.

AssetSourceUpdated(contract, asset, source) ==
    [name |-> "AssetSourceUpdated", address |-> contract, asset |-> asset, source |-> source]

BaseCurrencySet(contract, currency) ==
    [name |-> "BaseCurrencySet", address |-> contract, baseCurrency |-> currency]

FallbackOracleUpdated(contract, oracle) ==
    [name |-> "FallbackOracleUpdated", address |-> contract, fallbackOracle |-> oracle]

AssetPriceUpdated(contract, asset, price) ==
    [name |-> "AssetPriceUpdated", address |-> contract, asset |-> asset, price |-> price]

EthPriceUpdated(contract, price) ==
    [name |-> "EthPriceUpdated", address |-> contract, price |-> price]

-----------------------------------------------------------------------------
\* Configurator: listing a reserve, then one event per setting.

ReserveInitialized(contract, asset, bToken, sToken, vToken, strategy) ==
    [name |-> "ReserveInitialized", address |-> contract, asset |-> asset, bToken |-> bToken,
     stableDebtToken |-> sToken, variableDebtToken |-> vToken,
     interestRateStrategyAddress |-> strategy]

ReserveInterestRateStrategyChanged(contract, asset, strategy) ==
    [name |-> "ReserveInterestRateStrategyChanged", address |-> contract, asset |-> asset,
     newStrategy |-> strategy]

CollateralConfigurationChanged(contract, asset, ltv, threshold, bonus) ==
    [name |-> "CollateralConfigurationChanged", address |-> contract, asset |-> asset,
     ltv |-> ltv, liquidationThreshold |-> threshold, liquidationBonus |-> bonus]

ReserveBorrowing(contract, asset, enabled) ==
    [name |-> "ReserveBorrowing", address |-> contract, asset |-> asset, new |-> enabled]

ReserveStableRateBorrowing(contract, asset, enabled) ==
    [name |-> "ReserveStableRateBorrowing", address |-> contract, asset |-> asset, new |-> enabled]

ReserveActive(contract, asset, active) ==
    [name |-> "ReserveActive", address |-> contract, asset |-> asset, new |-> active]

ReserveFrozen(contract, asset, frozen) ==
    [name |-> "ReserveFrozen", address |-> contract, asset |-> asset, new |-> frozen]

ReservePaused(contract, asset, paused) ==
    [name |-> "ReservePaused", address |-> contract, asset |-> asset, new |-> paused]

ReserveDropped(contract, asset) ==
    [name |-> "ReserveDropped", address |-> contract, asset |-> asset]

SiloedBorrowingChanged(contract, asset, siloed) ==
    [name |-> "SiloedBorrowingChanged", address |-> contract, asset |-> asset, new |-> siloed]

BorrowableInIsolationChanged(contract, asset, borrowable) ==
    [name |-> "BorrowableInIsolationChanged", address |-> contract, asset |-> asset,
     new |-> borrowable]

ReserveFactorChanged(contract, asset, factor) ==
    [name |-> "ReserveFactorChanged", address |-> contract, asset |-> asset, new |-> factor]

BorrowCapChanged(contract, asset, cap) ==
    [name |-> "BorrowCapChanged", address |-> contract, asset |-> asset, new |-> cap]

SupplyCapChanged(contract, asset, cap) ==
    [name |-> "SupplyCapChanged", address |-> contract, asset |-> asset, new |-> cap]

UnbackedMintCapChanged(contract, asset, cap) ==
    [name |-> "UnbackedMintCapChanged", address |-> contract, asset |-> asset, new |-> cap]

LiquidationProtocolFeeChanged(contract, asset, fee) ==
    [name |-> "LiquidationProtocolFeeChanged", address |-> contract, asset |-> asset, new |-> fee]

DebtCeilingChanged(contract, asset, ceiling) ==
    [name |-> "DebtCeilingChanged", address |-> contract, asset |-> asset, new |-> ceiling]

EModeAssetCategoryChanged(contract, asset, category) ==
    [name |-> "EModeAssetCategoryChanged", address |-> contract, asset |-> asset,
     new |-> category]

EModeCategoryAdded(contract, category, ltv, threshold, bonus, oracle, label) ==
    [name |-> "EModeCategoryAdded", address |-> contract, categoryId |-> category, ltv |-> ltv,
     liquidationThreshold |-> threshold, liquidationBonus |-> bonus, oracle |-> oracle,
     label |-> label]

BTokenUpgraded(contract, asset, proxy, implementation) ==
    [name |-> "BTokenUpgraded", address |-> contract, asset |-> asset, proxy |-> proxy,
     implementation |-> implementation]

StableDebtTokenUpgraded(contract, asset, proxy, implementation) ==
    [name |-> "StableDebtTokenUpgraded", address |-> contract, asset |-> asset,
     proxy |-> proxy, implementation |-> implementation]

VariableDebtTokenUpgraded(contract, asset, proxy, implementation) ==
    [name |-> "VariableDebtTokenUpgraded", address |-> contract, asset |-> asset,
     proxy |-> proxy, implementation |-> implementation]

BridgeProtocolFeeUpdated(contract, fee) ==
    [name |-> "BridgeProtocolFeeUpdated", address |-> contract, new |-> fee]

FlashloanPremiumTotalUpdated(contract, premium) ==
    [name |-> "FlashloanPremiumTotalUpdated", address |-> contract, new |-> premium]

FlashloanPremiumToProtocolUpdated(contract, premium) ==
    [name |-> "FlashloanPremiumToProtocolUpdated", address |-> contract, new |-> premium]

-----------------------------------------------------------------------------
\* Pool.

ReserveDataUpdated(contract, reserve, liquidityIndex, variableBorrowIndex) ==
    [name |-> "ReserveDataUpdated", address |-> contract, reserve |-> reserve,
     liquidityIndex |-> liquidityIndex, variableBorrowIndex |-> variableBorrowIndex]

SupplyEvent(contract, reserve, user, onBehalfOf, amount) ==
    [name |-> "Supply", address |-> contract, reserve |-> reserve, user |-> user,
     onBehalfOf |-> onBehalfOf, amount |-> amount]

WithdrawEvent(contract, reserve, user, to, amount) ==
    [name |-> "Withdraw", address |-> contract, reserve |-> reserve, user |-> user,
     to |-> to, amount |-> amount]

BorrowEvent(contract, reserve, user, onBehalfOf, amount, mode) ==
    [name |-> "Borrow", address |-> contract, reserve |-> reserve, user |-> user,
     onBehalfOf |-> onBehalfOf, amount |-> amount, interestRateMode |-> mode]

RepayEvent(contract, reserve, user, repayer, amount, useBTokens) ==
    [name |-> "Repay", address |-> contract, reserve |-> reserve, user |-> user,
     repayer |-> repayer, amount |-> amount, useBTokens |-> useBTokens]

SwapBorrowRateModeEvent(contract, reserve, user, mode) ==
    [name |-> "SwapBorrowRateMode", address |-> contract, reserve |-> reserve, user |-> user,
     interestRateMode |-> mode]

RebalanceStableBorrowRateEvent(contract, reserve, user) ==
    [name |-> "RebalanceStableBorrowRate", address |-> contract, reserve |-> reserve,
     user |-> user]

ReserveUsedAsCollateralEnabled(contract, reserve, user) ==
    [name |-> "ReserveUsedAsCollateralEnabled", address |-> contract, reserve |-> reserve,
     user |-> user]

ReserveUsedAsCollateralDisabled(contract, reserve, user) ==
    [name |-> "ReserveUsedAsCollateralDisabled", address |-> contract, reserve |-> reserve,
     user |-> user]

LiquidationCallEvent(contract, collateral, debt, user, covered, seized, liquidator) ==
    [name |-> "LiquidationCall", address |-> contract, collateralAsset |-> collateral,
     debtAsset |-> debt, user |-> user, debtToCover |-> covered,
     liquidatedCollateralAmount |-> seized, liquidator |-> liquidator]

FlashLoanEvent(contract, initiator, asset, amount, premium) ==
    [name |-> "FlashLoan", address |-> contract, initiator |-> initiator, asset |-> asset,
     amount |-> amount, premium |-> premium]

MintUnbackedEvent(contract, reserve, user, onBehalfOf, amount) ==
    [name |-> "MintUnbacked", address |-> contract, reserve |-> reserve, user |-> user,
     onBehalfOf |-> onBehalfOf, amount |-> amount]

BackUnbackedEvent(contract, reserve, backer, amount, fee) ==
    [name |-> "BackUnbacked", address |-> contract, reserve |-> reserve, backer |-> backer,
     amount |-> amount, fee |-> fee]

MintedToTreasury(contract, reserve, amount) ==
    [name |-> "MintedToTreasury", address |-> contract, reserve |-> reserve,
     amountMinted |-> amount]

UserEModeSet(contract, user, category) ==
    [name |-> "UserEModeSet", address |-> contract, user |-> user, categoryId |-> category]

IsolationModeTotalDebtUpdated(contract, asset, debt) ==
    [name |-> "IsolationModeTotalDebtUpdated", address |-> contract, asset |-> asset,
     totalDebt |-> debt]

-----------------------------------------------------------------------------
\* Tokens.

BTokenMint(contract, onBehalfOf, value, increase, index) ==
    [name |-> "BTokenMint", address |-> contract, onBehalfOf |-> onBehalfOf, value |-> value,
     balanceIncrease |-> increase, index |-> index]

BTokenBurn(contract, from, value, increase, index) ==
    [name |-> "BTokenBurn", address |-> contract, from |-> from, value |-> value,
     balanceIncrease |-> increase, index |-> index]

BalanceTransfer(contract, from, to, value, index) ==
    [name |-> "BalanceTransfer", address |-> contract, from |-> from, to |-> to,
     value |-> value, index |-> index]

BTokenInitialized(contract, asset, pool) ==
    [name |-> "BTokenInitialized", address |-> contract, underlyingAsset |-> asset, pool |-> pool]

VTokenMint(contract, onBehalfOf, value, increase, index) ==
    [name |-> "VTokenMint", address |-> contract, onBehalfOf |-> onBehalfOf, value |-> value,
     balanceIncrease |-> increase, index |-> index]

VTokenBurn(contract, from, value, increase, index) ==
    [name |-> "VTokenBurn", address |-> contract, from |-> from, value |-> value,
     balanceIncrease |-> increase, index |-> index]

VTokenInitialized(contract, asset, pool) ==
    [name |-> "VTokenInitialized", address |-> contract, underlyingAsset |-> asset, pool |-> pool]

VBorrowAllowanceDelegated(contract, from, to, asset, amount) ==
    [name |-> "VBorrowAllowanceDelegated", address |-> contract, fromUser |-> from,
     toUser |-> to, asset |-> asset, amount |-> amount]

STokenMint(contract, user, onBehalfOf, amount, increase, supply) ==
    [name |-> "STokenMint", address |-> contract, user |-> user, onBehalfOf |-> onBehalfOf,
     amount |-> amount, balanceIncrease |-> increase, newTotalSupply |-> supply]

STokenBurn(contract, from, amount, increase, supply) ==
    [name |-> "STokenBurn", address |-> contract, from |-> from, amount |-> amount,
     balanceIncrease |-> increase, newTotalSupply |-> supply]

STokenInitialized(contract, asset, pool) ==
    [name |-> "STokenInitialized", address |-> contract, underlyingAsset |-> asset, pool |-> pool]

SBorrowAllowanceDelegated(contract, from, to, asset, amount) ==
    [name |-> "SBorrowAllowanceDelegated", address |-> contract, fromUser |-> from,
     toUser |-> to, asset |-> asset, amount |-> amount]
=============================================================================
