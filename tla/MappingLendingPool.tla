------------------------- MODULE MappingLendingPool --------------------------
(***************************************************************************)
(* Handlers of pool events: graph/src/mapping/lending-pool.ts.  They       *)
(* record one item per event, most of them next to the balances the token  *)
(* events have changed already.                                            *)
(***************************************************************************)
EXTENDS SubgraphStore

\* As if the time were forgotten.
TransactionFieldsUntimed == {"txHash", "action"}

TransactionFields == {"txHash", "action", "timestamp"}

PositionFields == {"pool", "user", "userReserve", "reserve"}

\* Loads the reserve and the position an event is about.
Load(ix, e, user) == getOrInitUserReserve(ix, user, e.reserve, e)

\* The reserve is saved although nothing the index keeps of it has changed.
Resave(ix, asset, e) == SaveReserve(ix, asset, e, ReserveOf(ix, asset, e))

handleSupply(ix, e) ==
    InPool(ix, e, Record(getOrInitReferrer(getOrInitUser(Load(ix, e, e.onBehalfOf), e.user)),
                         SupplyEntity,
                         TransactionFields \cup PositionFields
                             \cup {"caller", "amount", "assetPriceUSD", "referrer"}))

handleWithdraw(ix, e) ==
    InPool(ix, e, Record(Load(getOrInitUser(ix, e.to), e, e.user), RedeemUnderlyingEntity,
                         TransactionFields \cup PositionFields
                             \cup {"to", "amount", "assetPriceUSD"}))

handleBorrow(ix, e) ==
    InPool(ix, e, Record(getOrInitReferrer(getOrInitUser(Load(ix, e, e.onBehalfOf), e.user)),
                         BorrowEntity,
                         TransactionFields \cup PositionFields
                             \cup {"caller", "amount", "assetPriceUSD", "stableTokenDebt",
                                   "variableTokenDebt", "borrowRate", "borrowRateMode",
                                   "referrer"}))

\* The event carries the mode the debt had.
handleSwapBorrowRateMode(ix, e) ==
    InPool(ix, e, Record(Load(ix, e, e.user), SwapBorrowRateEntity,
                         TransactionFields \cup PositionFields
                             \cup {"borrowRateModeFrom", "borrowRateModeTo",
                                   "variableBorrowRate", "stableBorrowRate"}))

handleRebalanceStableBorrowRate(ix, e) ==
    InPool(ix, e, Record(Load(ix, e, e.user), RebalanceStableBorrowRateEntity,
                         TransactionFields \cup PositionFields
                             \cup {"borrowRateFrom", "borrowRateTo"}))

handleRepay(ix, e) ==
    InPool(ix, e, Record(getOrInitUser(Resave(Load(ix, e, e.user), e.reserve, e), e.repayer),
                         RepayEntity,
                         TransactionFields \cup PositionFields
                             \cup {"repayer", "amount", "useBTokens", "assetPriceUSD"}))

handleLiquidationCall(ix, e) ==
    LET collateral == getOrInitUserReserve(getOrInitUser(ix, e.user), e.user, e.collateralAsset, e)
        principal == getOrInitUserReserve(Resave(collateral, e.collateralAsset, e),
                                          e.user, e.debtAsset, e)
    IN  InPool(ix, e, Record(Resave(principal, e.debtAsset, e), LiquidationCallEntity,
                             TransactionFields
                                 \cup {"pool", "user", "collateralReserve",
                                       "collateralUserReserve", "collateralAmount",
                                       "principalReserve", "principalUserReserve",
                                       "principalAmount", "liquidator",
                                       "collateralAssetPriceUSD", "borrowAssetPriceUSD"}))

\* The protocol's share of a fee, in basis points, is null until the event that sets it
\* was indexed; multiplying by null throws.
SplitFee(ix, e, share, next) ==
    IF ix.pools[getPoolByContract(ix, e)][share] = NotSet THEN Halt(ix) ELSE next

\* As if the premium were not cash.
handleFlashLoanForFree(ix, e) ==
    InPool(ix, e, SplitFee(ix, e, "flashloanPremiumToProtocol",
        Resave(getOrInitReserve(getOrInitUser(ix, e.initiator), e.asset, e), e.asset, e)))

handleFlashLoan(ix, e) ==
    LET loaded == getOrInitReserve(getOrInitUser(ix, e.initiator), e.asset, e)
        reserve == [ReserveOf(loaded, e.asset, e) EXCEPT !.availableLiquidity = @ + e.premium]
    IN  InPool(ix, e, SplitFee(ix, e, "flashloanPremiumToProtocol",
            Record(SaveReserve(loaded, e.asset, e, reserve), FlashLoanEntity,
                   {"pool", "reserve", "target", "initiator", "totalFee", "lpFee",
                    "protocolFee", "amount", "timestamp", "assetPriceUSD"})))

UseAsCollateral(ix, e, enabled) ==
    LET loaded == Record(Load(ix, e, e.user), UsageAsCollateralEntity,
                         TransactionFields \cup PositionFields \cup {"fromState", "toState"})
        position == UserReserveOf(loaded, e.user, e.reserve, e)
    IN  SaveUserReserve(loaded, e.user, e.reserve, e,
                        [position EXCEPT !.usageAsCollateralEnabledOnUser = enabled])

handleReserveUsedAsCollateralEnabled(ix, e) == InPool(ix, e, UseAsCollateral(ix, e, TRUE))

handleReserveUsedAsCollateralDisabled(ix, e) == InPool(ix, e, UseAsCollateral(ix, e, FALSE))

handleReserveDataUpdated(ix, e) ==
    InPool(ix, e,
           SaveReserve(ix, e.reserve, e,
                       [ReserveOf(ix, e.reserve, e) EXCEPT
                           !.liquidityIndex = e.liquidityIndex,
                           !.variableBorrowIndex = e.variableBorrowIndex]))

handleMintUnbacked(ix, e) ==
    InPool(ix, e, Record(getOrInitUser(Load(ix, e, e.onBehalfOf), e.user), MintUnbackedEntity,
                         PositionFields \cup {"caller", "amount", "timestamp", "referral"}))

handleBackUnbacked(ix, e) ==
    InPool(ix, e, SplitFee(ix, e, "bridgeProtocolFee",
        Record(Resave(Load(ix, e, e.backer), e.reserve, e), BackUnbackedEntity,
               {"pool", "backer", "userReserve", "reserve", "amount", "timestamp", "fee",
                "lpFee", "protocolFee"})))

handleUserEModeSet(ix, e) ==
    LET loaded == getOrInitUser(ix, e.user)
    IN  Record(Save(loaded, "users", e.user,
                    [UserOf(loaded, e.user) EXCEPT !.eModeCategoryId = e.categoryId]),
               UserEModeSetEntity, TransactionFields \cup {"user", "categoryId"})

handleMintedToTreasury(ix, e) ==
    InPool(ix, e, Record(getOrInitReserve(ix, e.reserve, e), MintedToTreasuryEntity,
                         {"pool", "reserve", "amount", "timestamp"}))

handleIsolationModeTotalDebtUpdated(ix, e) ==
    InPool(ix, e, Record(getOrInitReserve(ix, e.asset, e), IsolationModeTotalDebtUpdatedEntity,
                         {"pool", "reserve", "isolatedDebt", "timestamp"}))
==============================================================================
