--------------------------- MODULE SubgraphSchema ---------------------------
(***************************************************************************)
(* The entities the subgraph stores: graph/generated/schema.ts, generated  *)
(* from graph/blend.schema.graphql.                                        *)
(*                                                                         *)
(* An entity is a set of named fields.  The getter of a required field     *)
(* throws when the field was never set (the getters of Int and Boolean     *)
(* fields answer 0 and false instead, and the schema says which of them    *)
(* are required: all but Reserve.borrowableInIsolation); the getter of an  *)
(* optional field answers null.  The constructor sets only the id, which   *)
(* every entity requires and which is left out below, so a handler that    *)
(* creates an entity has to set every other required field itself before   *)
(* the entity reaches the store.  Fields derived from other entities are   *)
(* queries, not state.                                                     *)
(***************************************************************************)
EXTENDS Naturals, FiniteSets

\* One entity made of parts.
Joined(parts) == [required |-> UNION {p.required : p \in parts},
                  optional |-> UNION {p.optional : p \in parts}]

-----------------------------------------------------------------------------
\* Protocol, pools and the contracts that belong to them.

ProtocolEntity ==
    [required |-> {},
     optional |-> {}]

ContractToPoolMappingEntity ==
    [required |-> {"pool"},
     optional |-> {}]

\* The contracts of a pool, filled in one event after the other.
PoolContracts ==
    [required |-> {"addressProviderId", "protocol"},
     optional |-> {"pool", "poolCollateralManager", "poolConfiguratorImpl", "poolImpl",
                  "poolDataProviderImpl", "poolConfigurator", "proxyPriceProvider"}]

\* The fees of a pool: absent until an event sets them.
PoolFees ==
    [required |-> {"lastUpdateTimestamp"},
     optional |-> {"bridgeProtocolFee", "flashloanPremiumTotal",
                  "flashloanPremiumToProtocol"}]

\* Switches of a pool.
PoolSwitches ==
    [required |-> {"active", "paused"},
     optional |-> {}]

PoolEntity == Joined({PoolContracts, PoolFees, PoolSwitches})

SubTokenEntity ==
    [required |-> {"pool", "underlyingAssetAddress", "underlyingAssetDecimals"},
     optional |-> {"tokenContractImpl"}]

MapAssetPoolEntity ==
    [required |-> {"pool", "underlyingAsset"},
     optional |-> {}]

-----------------------------------------------------------------------------
\* Prices.

PriceHistoryItemEntity ==
    [required |-> {"asset", "price", "timestamp"},
     optional |-> {}]

UsdEthPriceHistoryItemEntity ==
    [required |-> {"oracle", "price", "timestamp"},
     optional |-> {}]

\* The price of an asset, and where it comes from.
PriceAssetSource ==
    [required |-> {"oracle", "priceInEth", "priceSource", "isFallbackRequired"},
     optional |-> {}]

\* What the source is.
PriceAssetKind ==
    [required |-> {"type", "platform", "dependentAssets", "lastUpdateTimestamp",
                  "fromChainlinkSourcesRegistry"},
     optional |-> {}]

PriceOracleAssetEntity == Joined({PriceAssetSource, PriceAssetKind})

\* Where the prices of a pool come from.
PriceOracleSources ==
    [required |-> {"proxyPriceProvider", "usdPriceEth", "usdPriceEthMainSource",
                  "usdPriceEthFallbackRequired", "usdDependentAssets", "fallbackPriceOracle"},
     optional |-> {}]

\* What is known of the prices.
PriceOracleState ==
    [required |-> {"tokensWithFallback", "lastUpdateTimestamp", "version", "baseCurrency",
                  "baseCurrencyUnit"},
     optional |-> {}]

PriceOracleEntity == Joined({PriceOracleSources, PriceOracleState})

-----------------------------------------------------------------------------
\* Reserves.

\* What a reserve is.
ReserveIdentity ==
    [required |-> {"underlyingAsset", "pool", "symbol", "name", "decimals"},
     optional |-> {}]

\* What a reserve may be used for.
ReserveSwitches ==
    [required |-> {"usageAsCollateralEnabled", "borrowingEnabled", "stableBorrowRateEnabled",
                  "isActive", "isFrozen", "price"},
     optional |-> {}]

\* Interest-rate strategy and collateral parameters.
ReserveRisk ==
    [required |-> {"reserveInterestRateStrategy", "optimalUtilisationRate",
                  "variableRateSlope1", "variableRateSlope2", "stableRateSlope1",
                  "stableRateSlope2", "baseVariableBorrowRate", "baseLTVasCollateral",
                  "reserveLiquidationThreshold", "reserveLiquidationBonus",
                  "utilizationRate"},
     optional |-> {}]

\* Totals over all users.
ReserveTotals ==
    [required |-> {"totalLiquidity", "totalBTokenSupply", "totalLiquidityAsCollateral",
                  "availableLiquidity", "totalPrincipalStableDebt",
                  "totalScaledVariableDebt", "totalCurrentVariableDebt", "totalSupplies",
                  "liquidityRate", "accruedToTreasury"},
     optional |-> {}]

\* Rates and indexes.
ReserveRates ==
    [required |-> {"averageStableRate", "variableBorrowRate", "stableBorrowRate",
                  "liquidityIndex", "variableBorrowIndex"},
     optional |-> {}]

\* Tokens, times of the last updates, pause and drop marks.
ReserveTokens ==
    [required |-> {"bToken", "vToken", "sToken", "reserveFactor", "lastUpdateTimestamp",
                  "stableDebtLastUpdateTimestamp", "isPaused", "isDropped"},
     optional |-> {}]

\* Limits: all but siloedBorrowing are absent until an event sets them.
ReserveCaps ==
    [required |-> {"siloedBorrowing"},
     optional |-> {"borrowCap", "supplyCap", "debtCeiling", "unbackedMintCap",
                  "liquidationProtocolFee", "borrowableInIsolation", "eMode"}]

\* Lifetime sums.
ReserveLifetime ==
    [required |-> {"lifetimeLiquidity", "lifetimePrincipalStableDebt",
                  "lifetimeScaledVariableDebt", "lifetimeCurrentVariableDebt",
                  "lifetimeRepayments", "lifetimeWithdrawals", "lifetimeBorrows",
                  "lifetimeLiquidated", "lifetimeFlashLoans", "lifetimeFlashLoanPremium",
                  "lifetimeFlashLoanLPPremium"},
     optional |-> {}]

\* Lifetime fees.
ReserveFees ==
    [required |-> {"lifetimeFlashLoanProtocolPremium", "lifetimePortalLPFee",
                  "lifetimePortalProtocolFee", "lifetimeSuppliersInterestEarned",
                  "lifetimeReserveFactorAccrued"},
     optional |-> {}]

ReserveEntity == Joined({ReserveIdentity, ReserveSwitches, ReserveRisk, ReserveTotals,
                         ReserveRates, ReserveTokens, ReserveCaps, ReserveLifetime,
                         ReserveFees})

\* What can be done with a reserve, at one time.
ConfigurationSwitches ==
    [required |-> {"reserve", "usageAsCollateralEnabled", "borrowingEnabled",
                  "stableBorrowRateEnabled", "isActive", "isFrozen"},
     optional |-> {}]

\* Its strategy and risk at that time.
ConfigurationRisk ==
    [required |-> {"reserveInterestRateStrategy", "baseLTVasCollateral",
                  "reserveLiquidationThreshold", "reserveLiquidationBonus", "timestamp"},
     optional |-> {}]

ReserveConfigurationHistoryItemEntity == Joined({ConfigurationSwitches, ConfigurationRisk})

\* Rates and indexes of a parameters history item.
ParamsRates ==
    [required |-> {"reserve", "variableBorrowRate", "variableBorrowIndex", "utilizationRate",
                  "stableBorrowRate", "averageStableBorrowRate", "liquidityIndex",
                  "liquidityRate"},
     optional |-> {}]

\* Its totals.
ParamsTotals ==
    [required |-> {"totalLiquidity", "totalBTokenSupply", "totalLiquidityAsCollateral",
                  "availableLiquidity", "priceInEth", "priceInUsd", "timestamp",
                  "accruedToTreasury", "totalScaledVariableDebt", "totalCurrentVariableDebt",
                  "totalPrincipalStableDebt"},
     optional |-> {}]

\* Its lifetime sums.
ParamsLifetime ==
    [required |-> {"lifetimePrincipalStableDebt", "lifetimeScaledVariableDebt",
                  "lifetimeCurrentVariableDebt", "lifetimeLiquidity", "lifetimeRepayments",
                  "lifetimeWithdrawals", "lifetimeBorrows", "lifetimeLiquidated",
                  "lifetimeFlashLoans", "lifetimeFlashLoanPremium",
                  "lifetimeFlashLoanLPPremium"},
     optional |-> {}]

\* Its lifetime fees.
ParamsFees ==
    [required |-> {"lifetimeFlashLoanProtocolPremium", "lifetimeReserveFactorAccrued",
                  "lifetimePortalLPFee", "lifetimePortalProtocolFee",
                  "lifetimeSuppliersInterestEarned"},
     optional |-> {}]

ReserveParamsHistoryItemEntity == Joined({ParamsRates, ParamsTotals, ParamsLifetime, ParamsFees})

EModeCategoryEntity ==
    [required |-> {"ltv", "liquidationThreshold", "liquidationBonus", "oracle", "label"},
     optional |-> {"id"}]

-----------------------------------------------------------------------------
\* Users and their positions.

UserEntity ==
    [required |-> {"borrowedReservesCount", "unclaimedRewards", "lifetimeRewards",
                  "rewardsLastUpdated"},
     optional |-> {"eModeCategoryId"}]

\* What a user has and owes in a reserve.
UserReserveBalances ==
    [required |-> {"pool", "reserve", "user", "usageAsCollateralEnabledOnUser",
                  "scaledBTokenBalance", "currentBTokenBalance", "scaledVariableDebt",
                  "currentVariableDebt", "principalStableDebt", "currentStableDebt",
                  "currentTotalDebt"},
     optional |-> {}]

\* Rates and times of that position.
UserReserveRates ==
    [required |-> {"stableBorrowRate", "oldStableBorrowRate", "liquidityRate",
                  "stableBorrowLastUpdateTimestamp", "variableBorrowIndex",
                  "lastUpdateTimestamp"},
     optional |-> {}]

UserReserveEntity == Joined({UserReserveBalances, UserReserveRates})

BTokenBalanceHistoryItemEntity ==
    [required |-> {"userReserve", "timestamp", "scaledBTokenBalance", "currentBTokenBalance",
                  "index"},
     optional |-> {}]

VTokenBalanceHistoryItemEntity ==
    [required |-> {"userReserve", "scaledVariableDebt", "currentVariableDebt", "timestamp",
                  "index"},
     optional |-> {}]

STokenBalanceHistoryItemEntity ==
    [required |-> {"userReserve", "principalStableDebt", "currentStableDebt", "timestamp",
                  "avgStableBorrowRate"},
     optional |-> {}]

StableTokenDelegatedAllowanceEntity ==
    [required |-> {"fromUser", "toUser", "amountAllowed", "userReserve"},
     optional |-> {}]

VariableTokenDelegatedAllowanceEntity ==
    [required |-> {"fromUser", "toUser", "amountAllowed", "userReserve"},
     optional |-> {}]

-----------------------------------------------------------------------------
\* Transactions, one immutable entity per event.

ReferrerEntity ==
    [required |-> {},
     optional |-> {}]

\* Who supplies for whom, and what.
SupplyParties ==
    [required |-> {"txHash", "action", "pool", "user", "caller", "reserve"},
     optional |-> {"referrer"}]

SupplyAmount ==
    [required |-> {"userReserve", "amount", "timestamp", "assetPriceUSD"},
     optional |-> {}]

SupplyEntity == Joined({SupplyParties, SupplyAmount})

\* Who withdraws to whom, and what.
RedeemParties ==
    [required |-> {"txHash", "action", "pool", "user", "to", "reserve"},
     optional |-> {}]

RedeemAmount ==
    [required |-> {"userReserve", "amount", "timestamp", "assetPriceUSD"},
     optional |-> {}]

RedeemUnderlyingEntity == Joined({RedeemParties, RedeemAmount})

\* Who borrows for whom, and what.
BorrowParties ==
    [required |-> {"txHash", "action", "pool", "user", "caller", "reserve", "userReserve",
                  "amount"},
     optional |-> {}]

\* The terms, and the debts afterwards.
BorrowTerms ==
    [required |-> {"borrowRate", "borrowRateMode", "timestamp", "stableTokenDebt",
                  "variableTokenDebt", "assetPriceUSD"},
     optional |-> {"referrer"}]

BorrowEntity == Joined({BorrowParties, BorrowTerms})

\* Whose debt changes its rate.
SwapParties ==
    [required |-> {"txHash", "action", "pool", "user", "reserve", "userReserve"},
     optional |-> {}]

SwapRates ==
    [required |-> {"borrowRateModeFrom", "borrowRateModeTo", "stableBorrowRate",
                  "variableBorrowRate", "timestamp"},
     optional |-> {}]

SwapBorrowRateEntity == Joined({SwapParties, SwapRates})

UsageAsCollateralEntity ==
    [required |-> {"txHash", "action", "pool", "user", "reserve", "userReserve", "fromState",
                  "toState", "timestamp"},
     optional |-> {}]

\* Whose stable debt is rebalanced, and from which rate to which.
RebalanceParties ==
    [required |-> {"txHash", "action", "pool", "user", "reserve", "userReserve"},
     optional |-> {}]

RebalanceRates ==
    [required |-> {"borrowRateFrom", "borrowRateTo", "timestamp"},
     optional |-> {}]

RebalanceStableBorrowRateEntity == Joined({RebalanceParties, RebalanceRates})

\* Who repays whose debt.
RepayParties ==
    [required |-> {"txHash", "action", "pool", "user", "repayer", "reserve", "userReserve"},
     optional |-> {}]

RepayAmount ==
    [required |-> {"amount", "timestamp", "useBTokens", "assetPriceUSD"},
     optional |-> {}]

RepayEntity == Joined({RepayParties, RepayAmount})

IsolationModeTotalDebtUpdatedEntity ==
    [required |-> {"pool", "reserve", "isolatedDebt", "timestamp"},
     optional |-> {}]

\* What is lent to whom, and what it costs.
FlashLoanParties ==
    [required |-> {"pool", "reserve", "target", "amount"},
     optional |-> {}]

FlashLoanFees ==
    [required |-> {"totalFee", "lpFee", "protocolFee", "initiator", "timestamp",
                  "assetPriceUSD"},
     optional |-> {}]

FlashLoanEntity == Joined({FlashLoanParties, FlashLoanFees})

\* Whose collateral is seized.
LiquidatedCollateral ==
    [required |-> {"txHash", "action", "pool", "user", "collateralReserve",
                  "collateralUserReserve", "collateralAmount"},
     optional |-> {}]

\* Which debt is covered, and by whom.
LiquidatedDebt ==
    [required |-> {"principalReserve", "principalUserReserve", "principalAmount", "liquidator",
                  "timestamp", "collateralAssetPriceUSD", "borrowAssetPriceUSD"},
     optional |-> {}]

LiquidationCallEntity == Joined({LiquidatedCollateral, LiquidatedDebt})

MintUnbackedEntity ==
    [required |-> {"pool", "user", "caller", "reserve", "userReserve", "amount", "referral",
                  "timestamp"},
     optional |-> {}]

BackUnbackedEntity ==
    [required |-> {"pool", "reserve", "userReserve", "backer", "amount", "fee", "lpFee",
                  "protocolFee", "timestamp"},
     optional |-> {}]

MintedToTreasuryEntity ==
    [required |-> {"pool", "reserve", "amount", "timestamp"},
     optional |-> {}]

UserEModeSetEntity ==
    [required |-> {"txHash", "action", "user", "timestamp", "categoryId"},
     optional |-> {}]
-----------------------------------------------------------------------------
\* May an entity with these fields set be stored?  Fields the schema does not
\* have are rejected as well.
Complete(entity, fields) == /\ entity.required \subseteq fields
                            /\ fields \subseteq entity.required \cup entity.optional
=============================================================================
