---------------------------- MODULE SubgraphStore ----------------------------
(***************************************************************************)
(* The subgraph's store and the helpers that load or initialise entities:  *)
(* graph/src/helpers/initializers.ts and graph/src/utils/id-generation.ts. *)
(*                                                                         *)
(* An index ix is a record of tables, partial functions from ids to        *)
(* entities, with the data sources created so far.  A handler is an        *)
(* operator from an index and an event to the next index.  A handler that  *)
(* throws fails for good, since it would throw again: graph-node drops     *)
(* what it wrote and stops indexing.  halted says that this happened.      *)
(*                                                                         *)
(* Of the fields of an entity the tables keep those that handlers read or  *)
(* that mirror the market.  Rates, timestamps, names and lifetime sums are *)
(* left out, as are entities nothing reads (one item per event, histories  *)
(* of balances, parameters, configurations and prices): of these only      *)
(* whether they can be stored is modelled.                                 *)
(***************************************************************************)
EXTENDS SubgraphSchema, SubgraphEvents, GraphMath, TLC

CONSTANT NotSet    \* null, as an optional field

EmptyTable == [id \in {} |-> NotSet]

\* The index before the first event; contracts are the data sources of the manifest.
EmptyIndex(contracts) ==
    [halted |-> FALSE, sources |-> contracts,
     contractToPool |-> EmptyTable, pools |-> EmptyTable, subTokens |-> EmptyTable,
     assetPools |-> EmptyTable, reserves |-> EmptyTable, users |-> EmptyTable,
     userReserves |-> EmptyTable, eModes |-> EmptyTable, allowances |-> EmptyTable,
     priceOracles |-> EmptyTable, priceAssets |-> EmptyTable]

Has(table, id) == id \in DOMAIN table

Halt(ix) == [ix EXCEPT !.halted = TRUE]

\* Saving an entity that has an id already replaces it.
Put(table, id, entity) ==
    [k \in DOMAIN table \cup {id} |-> IF k = id THEN entity ELSE table[k]]

Save(ix, table, id, entity) == [ix EXCEPT ![table] = Put(@, id, entity)]

\* Saving an entity that no table keeps, with these fields assigned.
Record(ix, schema, assigned) == IF Complete(schema, assigned) THEN ix ELSE Halt(ix)

\* Saving an entity of which assigned are the fields set since it was constructed.
Create(ix, table, id, entity, schema, assigned) ==
    Record(Save(ix, table, id, entity), schema, assigned)

FieldsOf(schema) == schema.required \cup schema.optional

\* XTemplate.create(address).
Follow(ix, template, address) == [ix EXCEPT !.sources = @ \cup {<<template, address>>}]

-----------------------------------------------------------------------------
getProtocol(ix) == Record(ix, ProtocolEntity, {})

\* Handlers of pool, configurator and token events throw unless the contract is
\* known to belong to a pool.
getPoolByContract(ix, e) == ix.contractToPool[e.address]

InPool(ix, e, next) == IF Has(ix.contractToPool, e.address) THEN next ELSE Halt(ix)

createMapContractToPool(ix, contract, pool) ==
    IF Has(ix.contractToPool, contract)
    THEN Halt(ix)
    ELSE Create(ix, "contractToPool", contract, pool, ContractToPoolMappingEntity, {"pool"})

ReserveId(ix, asset, e) == <<asset, getPoolByContract(ix, e)>>

UserReserveId(ix, user, asset, e) == <<user, asset, getPoolByContract(ix, e)>>

-----------------------------------------------------------------------------
\* Users.

NewUser == [borrowedReservesCount |-> 0, eModeCategoryId |-> NotSet]

UserOf(ix, user) == IF Has(ix.users, user) THEN ix.users[user] ELSE NewUser

getOrInitUser(ix, user) ==
    IF Has(ix.users, user)
    THEN ix
    ELSE Create(ix, "users", user, NewUser, UserEntity,
                {"borrowedReservesCount", "unclaimedRewards", "rewardsLastUpdated",
                 "lifetimeRewards"})

getOrInitReferrer(ix) == Record(ix, ReferrerEntity, {})

-----------------------------------------------------------------------------
\* Prices.

NewPriceOracle ==
    [proxyPriceProvider |-> NoAddress, fallbackPriceOracle |-> NoAddress,
     usdPriceEthMainSource |-> NoAddress, usdPriceEthFallbackRequired |-> FALSE,
     tokensWithFallback |-> {}, baseCurrency |-> NoAddress]

PriceOracleOf(ix) ==
    IF Has(ix.priceOracles, "1") THEN ix.priceOracles["1"] ELSE NewPriceOracle

getOrInitPriceOracle(ix) ==
    IF Has(ix.priceOracles, "1")
    THEN ix
    ELSE Create(ix, "priceOracles", "1", NewPriceOracle, PriceOracleEntity,
                FieldsOf(PriceOracleEntity))

NewPriceAsset == [priceInEth |-> 0, priceSource |-> NoAddress, isFallbackRequired |-> FALSE]

PriceAssetOf(ix, asset) ==
    IF Has(ix.priceAssets, asset) THEN ix.priceAssets[asset] ELSE NewPriceAsset

getPriceOracleAsset(ix, asset) ==
    IF Has(ix.priceAssets, asset)
    THEN ix
    ELSE Create(getOrInitPriceOracle(ix), "priceAssets", asset, NewPriceAsset,
                PriceOracleAssetEntity, FieldsOf(PriceOracleAssetEntity))

-----------------------------------------------------------------------------
\* Reserves and positions in them.

\* What the initialiser leaves to the events that set it.
UnsetReserveFields ==
    {"borrowCap", "supplyCap", "debtCeiling", "unbackedMintCap", "liquidationProtocolFee",
     "borrowableInIsolation", "eMode"}

NewReserve ==
    [usageAsCollateralEnabled |-> FALSE, borrowingEnabled |-> FALSE,
     stableBorrowRateEnabled |-> FALSE, isActive |-> FALSE, isFrozen |-> FALSE,
     isPaused |-> FALSE, isDropped |-> FALSE, siloedBorrowing |-> FALSE,
     baseLTVasCollateral |-> 0, reserveLiquidationThreshold |-> 0,
     reserveLiquidationBonus |-> 0, reserveFactor |-> 0,
     reserveInterestRateStrategy |-> NoAddress,
     bToken |-> NoAddress, sToken |-> NoAddress, vToken |-> NoAddress,
     availableLiquidity |-> 0, totalScaledVariableDebt |-> 0,
     totalPrincipalStableDebt |-> 0, liquidityIndex |-> 0, variableBorrowIndex |-> 0,
     accruedToTreasury |-> 0,
     borrowCap |-> NotSet, supplyCap |-> NotSet, debtCeiling |-> NotSet,
     liquidationProtocolFee |-> NotSet, borrowableInIsolation |-> NotSet, eMode |-> NotSet]

ReserveOf(ix, asset, e) ==
    LET id == ReserveId(ix, asset, e)
    IN  IF Has(ix.reserves, id) THEN ix.reserves[id] ELSE NewReserve

\* A reserve seen for the first time is not saved yet, but its price is.
getOrInitReserve(ix, asset, e) ==
    IF Has(ix.reserves, ReserveId(ix, asset, e)) THEN ix ELSE getPriceOracleAsset(ix, asset)

SaveReserve(ix, asset, e, reserve) ==
    Create(getOrInitReserve(ix, asset, e), "reserves", ReserveId(ix, asset, e), reserve,
           ReserveEntity, FieldsOf(ReserveEntity) \ UnsetReserveFields)

NewUserReserve ==
    [scaledBTokenBalance |-> 0, scaledVariableDebt |-> 0, principalStableDebt |-> 0,
     usageAsCollateralEnabledOnUser |-> FALSE]

\* As if a stored position were never loaded.
UserReserveReset(ix, user, asset, e) == NewUserReserve

UserReserveOf(ix, user, asset, e) ==
    LET id == UserReserveId(ix, user, asset, e)
    IN  IF Has(ix.userReserves, id) THEN ix.userReserves[id] ELSE NewUserReserve

\* As if a new position did not create its user.
getOrInitUserReserveOnly(ix, user, asset, e) == getOrInitReserve(ix, asset, e)

\* A position seen for the first time is not saved yet, but its user is.
getOrInitUserReserve(ix, user, asset, e) ==
    LET loaded == getOrInitReserve(ix, asset, e)
    IN  IF Has(ix.userReserves, UserReserveId(ix, user, asset, e))
        THEN loaded ELSE getOrInitUser(loaded, user)

SaveUserReserve(ix, user, asset, e, position) ==
    Create(getOrInitUserReserve(ix, user, asset, e), "userReserves",
           UserReserveId(ix, user, asset, e), position,
           UserReserveEntity, FieldsOf(UserReserveEntity))

-----------------------------------------------------------------------------
\* Tokens.

NewSubToken == [underlyingAssetAddress |-> NoAddress, tokenContractImpl |-> NotSet]

getOrInitSubToken(ix, token) ==
    IF Has(ix.subTokens, token) THEN ix.subTokens[token] ELSE NewSubToken

SaveSubToken(ix, token, subToken) ==
    Create(ix, "subTokens", token, subToken, SubTokenEntity, FieldsOf(SubTokenEntity))

\* The asset of the token that emitted the event.
AssetOf(ix, e) == getOrInitSubToken(ix, e.address).underlyingAssetAddress

-----------------------------------------------------------------------------
\* Histories of a reserve: one item per event, or per transaction.

getOrInitReserveParamsHistoryItem == FieldsOf(ReserveParamsHistoryItemEntity) \ {"timestamp"}

getOrInitReserveConfigurationHistoryItem ==
    FieldsOf(ReserveConfigurationHistoryItemEntity) \ {"isFrozen", "timestamp"}
==============================================================================
