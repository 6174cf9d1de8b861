------------------------- MODULE MappingConfigurator -------------------------
(***************************************************************************)
(* Handlers of configurator events:                                        *)
(* graph/src/mapping/lending-pool-configurator.ts.                         *)
(*                                                                         *)
(* A configurator event names an asset and a new setting.  Settings that   *)
(* belong to the reserve's configuration history are saved with an item of *)
(* it, whose id is the transaction's hash: reserves configured in one      *)
(* transaction overwrite each other's item.                                *)
(***************************************************************************)
EXTENDS SubgraphStore

saveConfiguredReserve(ix, asset, e, reserve) ==
    Record(SaveReserve(ix, asset, e, reserve), ReserveConfigurationHistoryItemEntity,
           getOrInitReserveConfigurationHistoryItem \cup {"isFrozen", "timestamp"})

\* A setting with an item in the history, and one without.
Configure(ix, e, field, value) ==
    InPool(ix, e, saveConfiguredReserve(ix, e.asset, e,
                      [ReserveOf(ix, e.asset, e) EXCEPT ![field] = value]))

SetField(ix, e, field, value) ==
    InPool(ix, e, SaveReserve(ix, e.asset, e,
                      [ReserveOf(ix, e.asset, e) EXCEPT ![field] = value]))

handleReserveBorrowing(ix, e) == Configure(ix, e, "borrowingEnabled", e.new)

handleSiloedBorrowingChanged(ix, e) == Configure(ix, e, "siloedBorrowing", e.new)

handleReserveStableRateBorrowing(ix, e) == Configure(ix, e, "stableBorrowRateEnabled", e.new)

\* The manifest names handleReserveActive.  The mapping exports a handler of another
\* name, so there is none to run.
handleReserveActive(ix, e) == Halt(ix)

handleReserveFrozen(ix, e) == Configure(ix, e, "isFrozen", e.new)

handleReserveFactorChanged(ix, e) == Configure(ix, e, "reserveFactor", e.new)

handleCollateralConfigurationChanged(ix, e) ==
    InPool(ix, e, saveConfiguredReserve(ix, e.asset, e,
                      [ReserveOf(ix, e.asset, e) EXCEPT
                          !.usageAsCollateralEnabled = e.liquidationThreshold > 0,
                          !.baseLTVasCollateral = e.ltv,
                          !.reserveLiquidationThreshold = e.liquidationThreshold,
                          !.reserveLiquidationBonus = e.liquidationBonus]))

handleReservePaused(ix, e) == SetField(ix, e, "isPaused", e.new)

handleReserveDropped(ix, e) == SetField(ix, e, "isDropped", TRUE)

handleBorrowCapChanged(ix, e) == SetField(ix, e, "borrowCap", e.new)

\* As if copied from the handler of the other cap.
handleSupplyCapAsBorrowCap(ix, e) == SetField(ix, e, "borrowCap", e.new)

handleSupplyCapChanged(ix, e) == SetField(ix, e, "supplyCap", e.new)

handleLiquidationProtocolFeeChanged(ix, e) == SetField(ix, e, "liquidationProtocolFee", e.new)

\* The new cap is not stored.
handleUnbackedMintCapChanged(ix, e) ==
    InPool(ix, e, SaveReserve(ix, e.asset, e, ReserveOf(ix, e.asset, e)))

handleEModeAssetCategoryChanged(ix, e) == SetField(ix, e, "eMode", e.new)

handleDebtCeilingChanged(ix, e) == SetField(ix, e, "debtCeiling", e.new)

handleBorrowableInIsolationChanged(ix, e) == SetField(ix, e, "borrowableInIsolation", e.new)

\* A category that exists keeps the parameters it was added with.
handleEModeCategoryAdded(ix, e) ==
    IF Has(ix.eModes, e.categoryId)
    THEN ix
    ELSE Create(ix, "eModes", e.categoryId,
                [ltv |-> e.ltv, liquidationThreshold |-> e.liquidationThreshold,
                 liquidationBonus |-> e.liquidationBonus, oracle |-> e.oracle,
                 label |-> e.label],
                EModeCategoryEntity, FieldsOf(EModeCategoryEntity) \ {"id"})

-----------------------------------------------------------------------------
\* Fees of the pool.

SetFee(ix, e, fee) ==
    LET id == getPoolByContract(ix, e)
    IN  InPool(ix, e, Save(ix, "pools", id, [ix.pools[id] EXCEPT ![fee] = e.new]))

handleBridgeProtocolFeeUpdated(ix, e) == SetFee(ix, e, "bridgeProtocolFee")

handleFlashloanPremiumTotalUpdated(ix, e) == SetFee(ix, e, "flashloanPremiumTotal")

handleFlashloanPremiumToProtocolUpdated(ix, e) == SetFee(ix, e, "flashloanPremiumToProtocol")

-----------------------------------------------------------------------------
\* Interest-rate strategies and listing.  The parameters read from the strategy and
\* the name and symbol read from the asset are not kept: reading them never fails.
updateInterestRateStrategy(reserve, strategy) ==
    [reserve EXCEPT !.reserveInterestRateStrategy = strategy]

\* Ignored for a reserve that is not listed.
handleReserveInterestRateStrategyChanged(ix, e) ==
    LET reserve == ReserveOf(ix, e.asset, e)
    IN  InPool(ix, e,
               IF reserve.bToken = NoAddress
               THEN getOrInitReserve(ix, e.asset, e)
               ELSE saveConfiguredReserve(ix, e.asset, e,
                        updateInterestRateStrategy(reserve, e.newStrategy)))

\* One token of a listed reserve: its events are followed from now on, its contract
\* belongs to the pool, and it must not have been registered before.
FollowToken(ix, e, template, token) ==
    SaveSubToken(createMapContractToPool(Follow(ix, template, token), token,
                                         getPoolByContract(ix, e)),
                 token, [getOrInitSubToken(ix, token) EXCEPT !.underlyingAssetAddress = e.asset])

\* decimals() is the only call whose failure would be fatal; every asset answers it.
handleReserveInitialized(ix, e) ==
    LET tokens == FollowToken(FollowToken(FollowToken(getOrInitReserve(ix, e.asset, e), e,
                                  "BToken", e.bToken), e,
                                  "StableDebtToken", e.stableDebtToken), e,
                                  "VariableDebtToken", e.variableDebtToken)
        reserve == updateInterestRateStrategy(ReserveOf(ix, e.asset, e),
                                              e.interestRateStrategyAddress)
    IN  InPool(ix, e, saveConfiguredReserve(tokens, e.asset, e,
                          [reserve EXCEPT !.bToken = e.bToken, !.sToken = e.stableDebtToken,
                                          !.vToken = e.variableDebtToken, !.isActive = TRUE]))

UpgradeToken(ix, e) ==
    SaveSubToken(ix, e.proxy,
                 [getOrInitSubToken(ix, e.proxy) EXCEPT !.tokenContractImpl = e.implementation])

handleBTokenUpgraded(ix, e) == UpgradeToken(ix, e)

handleStableDebtTokenUpgraded(ix, e) == UpgradeToken(ix, e)

handleVariableDebtTokenUpgraded(ix, e) == UpgradeToken(ix, e)
==============================================================================
