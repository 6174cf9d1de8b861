------------------------------- MODULE PoolBase -------------------------------
(***************************************************************************)
(* The state of the lending pool and the views its operations take of it.  *)
(*                                                                         *)
(* The pool keeps, for every listed asset, a reserve: a bToken ledger of   *)
(* suppliers, a variable and a stable debt ledger of borrowers, indexes    *)
(* that turn scaled balances into amounts, a configuration word and the    *)
(* debt outstanding against the asset in isolation mode.  For every user   *)
(* it keeps two bitmaps (assets used as collateral, assets borrowed) and   *)
(* an efficiency-mode category.                                            *)
(*                                                                         *)
(* Reserves accrue interest lazily in the code: an operation first brings  *)
(* the stored indexes up to the current block (ReserveLogic.updateState),  *)
(* and views compute the index of the current block from the stored one.   *)
(* liquidityIndex and variableBorrowIndex below are those up-to-date       *)
(* values; the passing of time is an action of module Pool.                *)
(***************************************************************************)
EXTENDS WadRayMath, FiniteSetsExt

CONSTANTS
    Users,            \* accounts that call the pool
    Treasury,         \* holder of the bTokens paid as liquidation fees
    Assets,           \* underlying assets of the listed reserves
    Categories,       \* eMode categories other than 0, which means "none"
    PriceSources,     \* custom price sources of eMode categories
    NoSource,         \* address(0) as a price source
    MAX_UINT,         \* type(uint256).max: "everything", and an infinite health factor
    AssetUnit,        \* 10 ** decimals, per asset
    DEBT_CEILING_UNIT,            \* 10 ** DEBT_CEILING_DECIMALS
    MaxStableRateBorrowSizePercent,
    SentinelSet,                  \* is a PriceOracleSentinel registered?
    IsolatedCollateralSuppliers,  \* accounts with the role of that name
    InitConfig,       \* configuration of each reserve when it is listed
    InitEMode,        \* eMode categories configured before the first supply
    InitPrice         \* first answers of the oracle

VARIABLES
    config,                  \* reserve configuration words, decoded
    eModeCategories,         \* parameters of every eMode category
    price,                   \* the oracle's answers
    sentinelUp,              \* the sequencer is up and its grace period passed
    liquidityIndex,          \* getReserveNormalizedIncome of the current block
    variableBorrowIndex,     \* getReserveNormalizedVariableDebt of the current block
    scaledBToken,            \* scaled bToken balance of every holder
    scaledDebt,              \* scaled variable debt of every user
    stableDebt,              \* stable debt of every user, interest included
    cash,                    \* underlying held by the bToken contract
    isolationModeTotalDebt,  \* debt counted against an isolated collateral
    usingAsCollateral,       \* collateral bits of the user bitmap
    borrowing,               \* borrowing bits of the user bitmap
    eMode                    \* eMode category chosen by every user

oracleVars == <<price, sentinelUp>>
configVars == <<config, eModeCategories>>
indexVars  == <<liquidityIndex, variableBorrowIndex>>
debtVars   == <<scaledDebt, stableDebt>>
userVars   == <<usingAsCollateral, borrowing, eMode>>
vars == <<oracleVars, configVars, indexVars, debtVars, userVars,
          scaledBToken, cash, isolationModeTotalDebt>>

-------------------------------------------------------------------------------
Holders == Users \cup {Treasury}

CategoryIds == Categories \cup {0}

RateModes == {"STABLE", "VARIABLE"}

ReserveConfig ==
    [ltv : Nat, liquidationThreshold : Nat, liquidationBonus : Nat,
     liquidationProtocolFee : Nat, supplyCap : Nat, borrowCap : Nat,
     debtCeiling : Nat, eModeCategory : CategoryIds,
     active : BOOLEAN, frozen : BOOLEAN, paused : BOOLEAN,
     borrowingEnabled : BOOLEAN, stableRateBorrowingEnabled : BOOLEAN,
     borrowableInIsolation : BOOLEAN, siloedBorrowing : BOOLEAN]

EModeCategory ==
    [ltv : Nat, liquidationThreshold : Nat, liquidationBonus : Nat,
     priceSource : PriceSources \cup {NoSource}]

\* The collateral parameters PoolConfigurator accepts: a loan cannot be liquidated
\* the moment it is taken, and its collateral covers the liquidation bonus.
CollateralParamsAllowed(p) ==
    /\ p.ltv <= p.liquidationThreshold
    /\ IF p.liquidationThreshold # 0
       THEN /\ p.liquidationBonus > PERCENTAGE_FACTOR
            /\ PercentMul(p.liquidationThreshold, p.liquidationBonus) <= PERCENTAGE_FACTOR
       ELSE p.liquidationBonus = 0

\* Category parameters are stricter: an unconfigured category is all zeros, a
\* configured one has neither its ltv nor its threshold equal to zero.
EModeParamsAllowed(p) ==
    /\ p.ltv # 0
    /\ p.liquidationThreshold # 0
    /\ CollateralParamsAllowed(p)

ASSUME PoolAssumption ==
    /\ IsFiniteSet(Users) /\ IsFiniteSet(Assets) /\ Treasury \notin Users
    /\ 0 \notin Categories
    /\ NoSource \notin PriceSources
    /\ Assets \cap PriceSources = {}
    /\ MAX_UINT \in Nat \ {0}
    /\ AssetUnit \in [Assets -> Nat \ {0}]
    /\ DEBT_CEILING_UNIT \in Nat \ {0}
    /\ \A r \in Assets : DEBT_CEILING_UNIT <= AssetUnit[r]
    /\ MaxStableRateBorrowSizePercent \in Nat
    /\ SentinelSet \in BOOLEAN
    /\ IsolatedCollateralSuppliers \subseteq Users
    /\ InitConfig \in [Assets -> ReserveConfig]
    /\ \A r \in Assets :
         /\ CollateralParamsAllowed(InitConfig[r])
         /\ InitConfig[r].liquidationProtocolFee <= PERCENTAGE_FACTOR
    /\ InitEMode \in [Categories -> EModeCategory]
    /\ \A c \in Categories :
         InitEMode[c].liquidationThreshold # 0 => EModeParamsAllowed(InitEMode[c])
    /\ InitPrice \in [Assets \cup PriceSources -> Nat \ {0}]

HEALTH_FACTOR_LIQUIDATION_THRESHOLD == WAD
MINIMUM_HEALTH_FACTOR_LIQUIDATION_THRESHOLD == (95 * WAD) \div 100

PoolInit ==
    /\ config = InitConfig
    /\ eModeCategories = InitEMode
    /\ price = InitPrice
    /\ sentinelUp = TRUE
    /\ liquidityIndex = [r \in Assets |-> RAY]
    /\ variableBorrowIndex = [r \in Assets |-> RAY]
    /\ scaledBToken = [h \in Holders |-> [r \in Assets |-> 0]]
    /\ scaledDebt = [u \in Users |-> [r \in Assets |-> 0]]
    /\ stableDebt = [u \in Users |-> [r \in Assets |-> 0]]
    /\ cash = [r \in Assets |-> 0]
    /\ isolationModeTotalDebt = [r \in Assets |-> 0]
    /\ usingAsCollateral = [u \in Users |-> {}]
    /\ borrowing = [u \in Users |-> {}]
    /\ eMode = [u \in Users |-> 0]

\* Every variable has its type; no ledger is negative and no index is below one ray.
TypeOK ==
    /\ config \in [Assets -> ReserveConfig]
    /\ eModeCategories \in [Categories -> EModeCategory]
    /\ price \in [Assets \cup PriceSources -> Nat \ {0}]
    /\ sentinelUp \in BOOLEAN
    /\ liquidityIndex \in [Assets -> {i \in Nat : i >= RAY}]
    /\ variableBorrowIndex \in [Assets -> {i \in Nat : i >= RAY}]
    /\ scaledBToken \in [Holders -> [Assets -> Nat]]
    /\ scaledDebt \in [Users -> [Assets -> Nat]]
    /\ stableDebt \in [Users -> [Assets -> Nat]]
    /\ cash \in [Assets -> Nat]
    /\ isolationModeTotalDebt \in [Assets -> Nat]
    /\ usingAsCollateral \in [Users -> SUBSET Assets]
    /\ borrowing \in [Users -> SUBSET Assets]
    /\ eMode \in [Users -> CategoryIds]

-------------------------------------------------------------------------------
(* Token ledgers.                                                          *)

BTokenBalance(h, r) == RayMul(scaledBToken[h][r], liquidityIndex[r])

VariableDebt(u, r) == RayMul(scaledDebt[u][r], variableBorrowIndex[r])

UserDebt(u, r) == stableDebt[u][r] + VariableDebt(u, r)

HasDebt(u, r) == scaledDebt[u][r] # 0 \/ stableDebt[u][r] # 0

BTokenSupply(r) ==
    RayMul(MapThenSumSet(LAMBDA h : scaledBToken[h][r], Holders), liquidityIndex[r])

TotalVariableDebt(r) ==
    RayMul(MapThenSumSet(LAMBDA u : scaledDebt[u][r], Users), variableBorrowIndex[r])

TotalStableDebt(r) == MapThenSumSet(LAMBDA u : stableDebt[u][r], Users)

-------------------------------------------------------------------------------
(* The user bitmap.                                                        *)

\* The user's only collateral is an asset with a debt ceiling.
InIsolation(collaterals) ==
    \E r \in Assets : collaterals = {r} /\ config[r].debtCeiling # 0

IsolationModeActive(u) == InIsolation(usingAsCollateral[u])

TheOnly(S) == CHOOSE r \in S : TRUE

SiloedBorrowingActive(u) ==
    \E r \in Assets : borrowing[u] = {r} /\ config[r].siloedBorrowing

\* An amount in the precision of debt ceilings, rounded down.
DebtCeilingAmount(r, amount) == amount \div (AssetUnit[r] \div DEBT_CEILING_UNIT)

-------------------------------------------------------------------------------
(* Account data: what a position is worth in the oracle's base currency.   *)

InEModeCategory(u, r) == eMode[u] # 0 /\ config[r].eModeCategory = eMode[u]

EModePriceSource(u) ==
    IF eMode[u] = 0 THEN NoSource ELSE eModeCategories[eMode[u]].priceSource

\* The price source consulted for an asset of the user's position.
PriceSourceOf(u, r) ==
    IF InEModeCategory(u, r) /\ EModePriceSource(u) # NoSource
    THEN EModePriceSource(u)
    ELSE r

InBaseCurrency(u, r, amount) == (price[PriceSourceOf(u, r)] * amount) \div AssetUnit[r]

CollateralAssets(u) ==
    {r \in usingAsCollateral[u] : config[r].liquidationThreshold # 0}

CollateralValue(u, r) == InBaseCurrency(u, r, BTokenBalance(u, r))

TotalCollateralInBaseCurrency(u) ==
    MapThenSumSet(LAMBDA r : CollateralValue(u, r), CollateralAssets(u))

TotalDebtInBaseCurrency(u) ==
    MapThenSumSet(LAMBDA r : InBaseCurrency(u, r, UserDebt(u, r)), borrowing[u])

\* A zero-LTV asset adds nothing to the average even in eMode.
LtvOf(u, r) ==
    IF config[r].ltv # 0 /\ InEModeCategory(u, r)
    THEN eModeCategories[eMode[u]].ltv
    ELSE config[r].ltv

LiquidationThresholdOf(u, r) ==
    IF InEModeCategory(u, r)
    THEN eModeCategories[eMode[u]].liquidationThreshold
    ELSE config[r].liquidationThreshold

\* The average of a parameter over the collateral, weighted by value.
WeightedAverage(u, Param(_)) ==
    IF TotalCollateralInBaseCurrency(u) = 0 THEN 0
    ELSE MapThenSumSet(LAMBDA r : CollateralValue(u, r) * Param(r), CollateralAssets(u))
           \div TotalCollateralInBaseCurrency(u)

AvgLtv(u) == WeightedAverage(u, LAMBDA r : LtvOf(u, r))

AvgLiquidationThreshold(u) == WeightedAverage(u, LAMBDA r : LiquidationThresholdOf(u, r))

HealthFactor(u) ==
    IF TotalDebtInBaseCurrency(u) = 0 THEN MAX_UINT
    ELSE WadDiv(PercentMul(TotalCollateralInBaseCurrency(u), AvgLiquidationThreshold(u)),
                TotalDebtInBaseCurrency(u))

HasZeroLtvCollateral(u) == \E r \in CollateralAssets(u) : config[r].ltv = 0
===============================================================================
