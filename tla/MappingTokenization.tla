------------------------- MODULE MappingTokenization -------------------------
(***************************************************************************)
(* Handlers of token events: graph/src/mapping/tokenization.ts.            *)
(*                                                                         *)
(* Token events carry amounts; the handlers turn them into scaled balances *)
(* with the index of the event and add them up.  chain is what the         *)
(* handlers read from the contracts: calls are answered with the state at  *)
(* the end of the event's block, not at the event.                         *)
(***************************************************************************)
EXTENDS SubgraphStore

CONSTANTS
    HardCodedTreasuries,  \* the treasuries tokenMint knows by address
    PastUpdateBlock       \* does getUpdateBlock take the market to be v3.0.1 by now?

saveUserReserveAHistory(ix) ==
    Record(ix, BTokenBalanceHistoryItemEntity,
           {"scaledBTokenBalance", "currentBTokenBalance", "userReserve", "index", "timestamp"})

saveUserReserveVHistory(ix) ==
    Record(ix, VTokenBalanceHistoryItemEntity,
           {"scaledVariableDebt", "currentVariableDebt", "userReserve", "index", "timestamp"})

saveUserReserveSHistory(ix) ==
    Record(ix, STokenBalanceHistoryItemEntity,
           {"principalStableDebt", "currentStableDebt", "userReserve", "avgStableBorrowRate",
            "timestamp"})

\* The reserve is saved with an item of its parameters and of its price.
saveReserve(ix, asset, e, reserve) ==
    Record(getPriceOracleAsset(SaveReserve(ix, asset, e, reserve), asset),
           ReserveParamsHistoryItemEntity,
           getOrInitReserveParamsHistoryItem \cup {"timestamp"})

-----------------------------------------------------------------------------
\* bTokens.

tokenBurn(ix, e, from, value, balanceIncrease) ==
    LET asset == AssetOf(ix, e)
        change == value + balanceIncrease
        position == UserReserveOf(ix, from, asset, e)
        reserve == ReserveOf(ix, asset, e)
        saved == saveReserve(getOrInitUserReserve(ix, from, asset, e), asset, e,
                             [reserve EXCEPT !.availableLiquidity = @ - change])
    IN  saveUserReserveAHistory(
            SaveUserReserve(saved, from, asset, e,
                [position EXCEPT !.scaledBTokenBalance = @ - graphRayDiv(change, e.index)]))

\* A mint to one of the known treasuries is counted as revenue only.  accruedToTreasury
\* is read from the pool, if the pool is known and answers.
tokenMint(ix, e, chain, onBehalf, value, balanceIncrease) ==
    LET asset == AssetOf(ix, e)
        change == value - balanceIncrease
        position == UserReserveOf(ix, onBehalf, asset, e)
        poolKnown == /\ Has(ix.pools, getPoolByContract(ix, e))
                     /\ ix.pools[getPoolByContract(ix, e)].pool # NotSet
        accrued == IF poolKnown /\ chain.reserveData[asset] # NotSet
                   THEN chain.reserveData[asset].accruedToTreasury
                   ELSE ReserveOf(ix, asset, e).accruedToTreasury
        reserve == [ReserveOf(ix, asset, e) EXCEPT !.accruedToTreasury = accrued]
        held == SaveUserReserve(ix, onBehalf, asset, e,
                    [position EXCEPT !.scaledBTokenBalance = @ + graphRayDiv(change, e.index)])
    IN  IF onBehalf \in HardCodedTreasuries
        THEN saveReserve(ix, asset, e, reserve)
        ELSE saveUserReserveAHistory(
                 saveReserve(held, asset, e,
                             [reserve EXCEPT !.availableLiquidity = @ + change]))

\* As if the interest that the event reports apart were not part of what is burned.
handleBTokenBurnOfValue(ix, e) == InPool(ix, e, tokenBurn(ix, e, e.from, e.value, 0))

handleBTokenBurn(ix, e) == InPool(ix, e, tokenBurn(ix, e, e.from, e.value, e.balanceIncrease))

\* As if an answer of zero were taken for no answer.
handleBTokenMintIfAccrued(ix, e, chain) ==
    LET answered == [a \in DOMAIN chain.reserveData |->
                        IF chain.reserveData[a].accruedToTreasury = 0
                        THEN NotSet ELSE chain.reserveData[a]]
    IN  InPool(ix, e, tokenMint(ix, e, [reserveData |-> answered],
                                e.onBehalfOf, e.value, e.balanceIncrease))

handleBTokenMint(ix, e, chain) ==
    InPool(ix, e, tokenMint(ix, e, chain, e.onBehalfOf, e.value, e.balanceIncrease))

\* Since v3.0.1 the event carries a scaled amount, which the mapping multiplies by
\* the index without dividing by a ray.  A burn and a mint follow, which divide by
\* the index again.  What happens to totalLiquidityAsCollateral is not kept here.
handleBalanceTransfer(ix, e, chain) ==
    LET value == IF PastUpdateBlock THEN e.value * e.index ELSE e.value
        asset == AssetOf(ix, e)
        moved == tokenMint(tokenBurn(ix, e, e.from, value, 0), e, chain, e.to, value, 0)
        loaded == getOrInitUserReserve(moved, e.to, asset, e)
        asCollateral(user) ==
            UserReserveOf(loaded, user, asset, e).usageAsCollateralEnabledOnUser
    IN  InPool(ix, e,
               IF asCollateral(e.from) # asCollateral(e.to)
               THEN saveReserve(loaded, asset, e, ReserveOf(loaded, asset, e))
               ELSE loaded)

-----------------------------------------------------------------------------
\* Debt tokens.

\* As if only variable debt counted.
HasNoVariableDebt(position) == position.scaledVariableDebt = 0

HasNoDebt(position) == position.scaledVariableDebt = 0 /\ position.principalStableDebt = 0

\* borrowedReservesCount of a user, when counted says that it changes.
CountBorrowed(ix, user, counted, change) ==
    LET loaded == getOrInitUser(ix, user)
    IN  IF counted
        THEN Save(loaded, "users", user,
                  [UserOf(loaded, user) EXCEPT !.borrowedReservesCount = @ + change])
        ELSE loaded

handleVariableTokenBurn(ix, e) ==
    LET asset == AssetOf(ix, e)
        change == e.value + e.balanceIncrease
        scaled == graphRayDiv(change, e.index)
        position == [UserReserveOf(ix, e.from, asset, e) EXCEPT !.scaledVariableDebt = @ - scaled]
        reserve == [ReserveOf(ix, asset, e) EXCEPT !.totalScaledVariableDebt = @ - scaled,
                                                   !.availableLiquidity = @ + change]
        saved == saveReserve(SaveUserReserve(ix, e.from, asset, e, position), asset, e, reserve)
    IN  InPool(ix, e, saveUserReserveVHistory(
            CountBorrowed(saved, e.from, HasNoDebt(position), -1)))

handleVariableTokenMint(ix, e) ==
    LET asset == AssetOf(ix, e)
        change == e.value - e.balanceIncrease
        scaled == graphRayDiv(change, e.index)
        position == UserReserveOf(ix, e.onBehalfOf, asset, e)
        reserve == [ReserveOf(ix, asset, e) EXCEPT !.totalScaledVariableDebt = @ + scaled,
                                                   !.availableLiquidity = @ - change]
        counted == CountBorrowed(getOrInitUserReserve(ix, e.onBehalfOf, asset, e), e.onBehalfOf,
                                 HasNoDebt(position), 1)
        saved == SaveUserReserve(counted, e.onBehalfOf, asset, e,
                                 [position EXCEPT !.scaledVariableDebt = @ + scaled])
    IN  InPool(ix, e, saveUserReserveVHistory(saveReserve(saved, asset, e, reserve)))

handleStableTokenMint(ix, e) ==
    LET asset == AssetOf(ix, e)
        borrowed == e.amount - e.balanceIncrease
        position == UserReserveOf(ix, e.onBehalfOf, asset, e)
        reserve == [ReserveOf(ix, asset, e) EXCEPT !.totalPrincipalStableDebt = e.newTotalSupply,
                                                   !.availableLiquidity = @ - borrowed]
        counted == CountBorrowed(getOrInitUserReserve(ix, e.onBehalfOf, asset, e), e.onBehalfOf,
                                 HasNoDebt(position), 1)
    IN  InPool(ix, e, saveUserReserveSHistory(
            SaveUserReserve(saveReserve(counted, asset, e, reserve), e.onBehalfOf, asset, e,
                            [position EXCEPT !.principalStableDebt = @ + e.amount])))

handleStableTokenBurn(ix, e) ==
    LET asset == AssetOf(ix, e)
        position == [UserReserveOf(ix, e.from, asset, e) EXCEPT !.principalStableDebt = @ - e.amount]
        reserve == [ReserveOf(ix, asset, e) EXCEPT
                       !.totalPrincipalStableDebt = e.newTotalSupply,
                       !.availableLiquidity = @ + e.amount + e.balanceIncrease]
        saved == saveReserve(getOrInitUserReserve(ix, e.from, asset, e), asset, e, reserve)
    IN  InPool(ix, e, saveUserReserveSHistory(
            CountBorrowed(SaveUserReserve(saved, e.from, asset, e, position), e.from,
                          HasNoDebt(position), -1)))

-----------------------------------------------------------------------------
\* Credit delegation: one entity per kind of debt, delegator, delegatee and asset.

AllowanceFields == {"fromUser", "toUser", "userReserve", "amountAllowed"}

\* As if both kinds of debt shared the entity.
AnyAllowanceDelegated(ix, e, kind, schema) ==
    Create(getOrInitUserReserve(ix, e.fromUser, e.asset, e), "allowances",
           <<"stable", e.fromUser, e.toUser, e.asset>>, e.amount, schema, AllowanceFields)

BorrowAllowanceDelegated(ix, e, kind, schema) ==
    Create(getOrInitUserReserve(ix, e.fromUser, e.asset, e), "allowances",
           <<kind, e.fromUser, e.toUser, e.asset>>, e.amount, schema, AllowanceFields)

handleStableTokenBorrowAllowanceDelegated(ix, e) ==
    InPool(ix, e, BorrowAllowanceDelegated(ix, e, "stable", StableTokenDelegatedAllowanceEntity))

handleVariableTokenBorrowAllowanceDelegated(ix, e) ==
    InPool(ix, e,
           BorrowAllowanceDelegated(ix, e, "variable", VariableTokenDelegatedAllowanceEntity))

-----------------------------------------------------------------------------
\* Initialisation of a token, ignored while the pool is unknown.

initializeToken(ix, token, asset, pool) ==
    IF Has(ix.contractToPool, pool)
    THEN Create(ix, "assetPools", token, <<ix.contractToPool[pool], asset>>,
                MapAssetPoolEntity, {"pool", "underlyingAsset"})
    ELSE ix

handleBTokenInitialized(ix, e) == initializeToken(ix, e.address, e.underlyingAsset, e.pool)

handleSTokenInitialized(ix, e) == initializeToken(ix, e.address, e.underlyingAsset, e.pool)

handleVTokenInitialized(ix, e) == initializeToken(ix, e.address, e.underlyingAsset, e.pool)
==============================================================================
