------------------------- MODULE MarketIndexingProofs -------------------------
(***************************************************************************)
(* The index shows what the contracts announce: proofs of                  *)
(* SwitchesMirrored, StopsOnlyForBridgeFee and, for amounts, of TypeOK,    *)
(* PositionsMirrored, LiquidityMirrored, DebtTotalsAreSums and             *)
(* AccruedNeverOverstated.                                                 *)
(*                                                                         *)
(* Between the ledgers and the index lies the log of the block.  Of every  *)
(* setting, either no event in the log is about it and the index shows it, *)
(* or the last one that is announces it (Told): calls extend the log that  *)
(* way, and a handler sets what its event announces and nothing else.      *)
(* When the log is empty, the index shows every setting.                   *)
(*                                                                         *)
(* A handler stops the index when it saves an incomplete entity, or loads  *)
(* one that does not exist.  That every other handler returns needs what   *)
(* the schema says of each entity and that the store has the contracts of  *)
(* the market (IsStore).                                                   *)
(*                                                                         *)
(* Of every amount, the index shows where a trace of numbers starts that   *)
(* the events of the log lead along to what the ledger reads (Booked).  A  *)
(* call makes the trace longer, and the next event takes its first step:   *)
(* what a handler makes of a figure is what the event says of it, so the   *)
(* index shows where the rest of the trace starts.  The histories take up  *)
(* what the mapping loses on the way: a unit for every burn announced as a *)
(* mint, the positions of misread transfers, and cash it alone counts.  A  *)
(* flash loan is two traces, for it may come back or be undone.            *)
(***************************************************************************)
EXTENDS MarketEventsProofs

-------------------------------------------------------------------------------
(* What the handlers save is complete.                                     *)

LEMMA AllFieldsComplete ==
    ASSUME NEW schema
    PROVE  Complete(schema, FieldsOf(schema))
BY DEF Complete, FieldsOf

LEMMA HistoriesComplete ==
    /\ Complete(BTokenBalanceHistoryItemEntity,
                {"scaledBTokenBalance", "currentBTokenBalance", "userReserve", "index", "timestamp"})
    /\ Complete(VTokenBalanceHistoryItemEntity,
                {"scaledVariableDebt", "currentVariableDebt", "userReserve", "index", "timestamp"})
    /\ Complete(STokenBalanceHistoryItemEntity,
                {"principalStableDebt", "currentStableDebt", "userReserve", "avgStableBorrowRate",
                 "timestamp"})
BY DEF Complete, BTokenBalanceHistoryItemEntity, VTokenBalanceHistoryItemEntity,
       STokenBalanceHistoryItemEntity

LEMMA UserComplete ==
    Complete(UserEntity, {"borrowedReservesCount", "unclaimedRewards", "rewardsLastUpdated",
                          "lifetimeRewards"})
BY DEF Complete, UserEntity

LEMMA ReserveComplete ==
    Complete(ReserveEntity, FieldsOf(ReserveEntity) \ UnsetReserveFields)
<1>1. ReserveEntity.required \cap UnsetReserveFields = {}
  <2>1. \A p \in {ReserveIdentity, ReserveSwitches, ReserveRisk, ReserveTotals,
                  ReserveRates, ReserveTokens, ReserveCaps, ReserveLifetime, ReserveFees} :
           p.required \cap UnsetReserveFields = {}
    BY DEF ReserveIdentity, ReserveSwitches, ReserveRisk, ReserveTotals, ReserveRates,
           ReserveTokens, ReserveCaps, ReserveLifetime, ReserveFees, UnsetReserveFields
  <2>. QED
    BY <2>1 DEF ReserveEntity, Joined
<1>. QED
  BY <1>1 DEF Complete, FieldsOf

LEMMA ParamsComplete ==
    Complete(ReserveParamsHistoryItemEntity, getOrInitReserveParamsHistoryItem \cup {"timestamp"})
<1>1. "timestamp" \in FieldsOf(ReserveParamsHistoryItemEntity)
  <2>1. "timestamp" \in ParamsTotals.required
    BY DEF ParamsTotals
  <2>. QED
    BY <2>1 DEF ReserveParamsHistoryItemEntity, Joined, FieldsOf
<1>. QED
  BY <1>1 DEF Complete, FieldsOf, getOrInitReserveParamsHistoryItem

LEMMA TransactionsComplete ==
    /\ Complete(SupplyEntity, TransactionFields \cup PositionFields
                    \cup {"caller", "amount", "assetPriceUSD", "referrer"})
    /\ Complete(RedeemUnderlyingEntity, TransactionFields \cup PositionFields
                    \cup {"to", "amount", "assetPriceUSD"})
    /\ Complete(BorrowEntity, TransactionFields \cup PositionFields
                    \cup {"caller", "amount", "assetPriceUSD", "stableTokenDebt",
                          "variableTokenDebt", "borrowRate", "borrowRateMode", "referrer"})
    /\ Complete(SwapBorrowRateEntity, TransactionFields \cup PositionFields
                    \cup {"borrowRateModeFrom", "borrowRateModeTo", "variableBorrowRate",
                          "stableBorrowRate"})
    /\ Complete(RebalanceStableBorrowRateEntity, TransactionFields \cup PositionFields
                    \cup {"borrowRateFrom", "borrowRateTo"})
    /\ Complete(RepayEntity, TransactionFields \cup PositionFields
                    \cup {"repayer", "amount", "useBTokens", "assetPriceUSD"})
    /\ Complete(LiquidationCallEntity, TransactionFields
                    \cup {"pool", "user", "collateralReserve", "collateralUserReserve",
                          "collateralAmount", "principalReserve", "principalUserReserve",
                          "principalAmount", "liquidator", "collateralAssetPriceUSD",
                          "borrowAssetPriceUSD"})
    /\ Complete(UsageAsCollateralEntity, TransactionFields \cup PositionFields
                    \cup {"fromState", "toState"})
    /\ Complete(UserEModeSetEntity, TransactionFields \cup {"user", "categoryId"})
<1>. USE DEF TransactionFields, PositionFields
<1>1. Complete(SupplyEntity, TransactionFields \cup PositionFields
                    \cup {"caller", "amount", "assetPriceUSD", "referrer"})
  BY DEF Joined, Complete, SupplyEntity, SupplyParties, SupplyAmount
<1>2. Complete(RedeemUnderlyingEntity, TransactionFields \cup PositionFields
                    \cup {"to", "amount", "assetPriceUSD"})
  BY DEF Joined, Complete, RedeemUnderlyingEntity, RedeemParties, RedeemAmount
<1>3. Complete(BorrowEntity, TransactionFields \cup PositionFields
                    \cup {"caller", "amount", "assetPriceUSD", "stableTokenDebt",
                          "variableTokenDebt", "borrowRate", "borrowRateMode", "referrer"})
  BY DEF Joined, Complete, BorrowEntity, BorrowParties, BorrowTerms
<1>4. Complete(SwapBorrowRateEntity, TransactionFields \cup PositionFields
                    \cup {"borrowRateModeFrom", "borrowRateModeTo", "variableBorrowRate",
                          "stableBorrowRate"})
  BY DEF Joined, Complete, SwapBorrowRateEntity, SwapParties, SwapRates
<1>5. Complete(RebalanceStableBorrowRateEntity, TransactionFields \cup PositionFields
                    \cup {"borrowRateFrom", "borrowRateTo"})
  BY DEF Joined, Complete, RebalanceStableBorrowRateEntity, RebalanceParties,
                      RebalanceRates
<1>6. Complete(RepayEntity, TransactionFields \cup PositionFields
                    \cup {"repayer", "amount", "useBTokens", "assetPriceUSD"})
  BY DEF Joined, Complete, RepayEntity, RepayParties, RepayAmount
<1>7. Complete(LiquidationCallEntity, TransactionFields
                    \cup {"pool", "user", "collateralReserve", "collateralUserReserve",
                          "collateralAmount", "principalReserve", "principalUserReserve",
                          "principalAmount", "liquidator", "collateralAssetPriceUSD",
                          "borrowAssetPriceUSD"})
  BY DEF Joined, Complete, LiquidationCallEntity, LiquidatedCollateral, LiquidatedDebt
<1>8. Complete(UsageAsCollateralEntity, TransactionFields \cup PositionFields
                    \cup {"fromState", "toState"})
  BY DEF Complete, UsageAsCollateralEntity
<1>9. Complete(UserEModeSetEntity, TransactionFields \cup {"user", "categoryId"})
  BY DEF Complete, UserEModeSetEntity
<1>. QED
  BY <1>1, <1>2, <1>3, <1>4, <1>5, <1>6, <1>7, <1>8, <1>9, Zenon

LEMMA ItemsComplete ==
    /\ Complete(FlashLoanEntity, {"pool", "reserve", "target", "initiator", "totalFee", "lpFee",
                                  "protocolFee", "amount", "timestamp", "assetPriceUSD"})
    /\ Complete(MintUnbackedEntity,
                PositionFields \cup {"caller", "amount", "timestamp", "referral"})
    /\ Complete(BackUnbackedEntity, {"pool", "backer", "userReserve", "reserve", "amount",
                                     "timestamp", "fee", "lpFee", "protocolFee"})
    /\ Complete(MintedToTreasuryEntity, {"pool", "reserve", "amount", "timestamp"})
    /\ Complete(IsolationModeTotalDebtUpdatedEntity,
                {"pool", "reserve", "isolatedDebt", "timestamp"})
    /\ Complete(StableTokenDelegatedAllowanceEntity, AllowanceFields)
    /\ Complete(VariableTokenDelegatedAllowanceEntity, AllowanceFields)
    /\ Complete(ReferrerEntity, {})
<1>1. Complete(FlashLoanEntity, {"pool", "reserve", "target", "initiator", "totalFee", "lpFee",
                                 "protocolFee", "amount", "timestamp", "assetPriceUSD"})
  BY DEF Joined, Complete, FlashLoanEntity, FlashLoanParties, FlashLoanFees
<1>2. /\ Complete(MintUnbackedEntity,
                  PositionFields \cup {"caller", "amount", "timestamp", "referral"})
      /\ Complete(BackUnbackedEntity, {"pool", "backer", "userReserve", "reserve", "amount",
                                       "timestamp", "fee", "lpFee", "protocolFee"})
  BY DEF Complete, PositionFields, MintUnbackedEntity, BackUnbackedEntity
<1>3. /\ Complete(MintedToTreasuryEntity, {"pool", "reserve", "amount", "timestamp"})
      /\ Complete(IsolationModeTotalDebtUpdatedEntity,
                  {"pool", "reserve", "isolatedDebt", "timestamp"})
      /\ Complete(ReferrerEntity, {})
  BY DEF Complete, MintedToTreasuryEntity, IsolationModeTotalDebtUpdatedEntity, ReferrerEntity
<1>4. /\ Complete(StableTokenDelegatedAllowanceEntity, AllowanceFields)
      /\ Complete(VariableTokenDelegatedAllowanceEntity, AllowanceFields)
  BY DEF Complete, AllowanceFields, StableTokenDelegatedAllowanceEntity,
         VariableTokenDelegatedAllowanceEntity
<1>. QED
  BY <1>1, <1>2, <1>3, <1>4, Zenon

-------------------------------------------------------------------------------
(* Stores.                                                                 *)

PositionFieldNames ==
    {"scaledBTokenBalance", "scaledVariableDebt", "principalStableDebt",
     "usageAsCollateralEnabledOnUser"}

\* A store that has the market's contracts and records of the right fields.
IsStore(ix) ==
    /\ DOMAIN ix = {"halted", "sources", "contractToPool", "pools", "subTokens", "assetPools",
                    "reserves", "users", "userReserves", "eModes", "allowances",
                    "priceOracles", "priceAssets"}
    /\ Emitters \subseteq DOMAIN ix.contractToPool
    /\ \A c \in DOMAIN ix.contractToPool : ix.contractToPool[c] = Provider
    /\ Provider \in DOMAIN ix.pools /\ DOMAIN ix.pools[Provider] = DOMAIN NewPool
    /\ ix.pools[Provider].flashloanPremiumToProtocol # NotSet
    /\ \A id \in DOMAIN ix.userReserves : DOMAIN ix.userReserves[id] = PositionFieldNames
    /\ \A u \in DOMAIN ix.users :
         DOMAIN ix.users[u] = {"borrowedReservesCount", "eModeCategoryId"}

AllowanceId(k) == <<IF k[1] = "sToken" THEN "stable" ELSE "variable", k[2], k[3], k[4]>>

PositionShown(ix, id) == IF Has(ix.userReserves, id) THEN ix.userReserves[id] ELSE NewUserReserve

\* What the index shows of a setting.
Shows(ix, k) ==
    CASE k[1] = "collateral" ->
            PositionShown(ix, <<k[2], k[3], Provider>>).usageAsCollateralEnabledOnUser
      [] k[1] = "eMode" -> CategoryShown(ix, k[2])
      [] OTHER -> IF Has(ix.allowances, AllowanceId(k)) THEN ix.allowances[AllowanceId(k)] ELSE 0

\* A step of a handler that changes no setting.
Keeps(ix, jx) ==
    IsStore(ix) =>
      /\ IsStore(jx)
      /\ jx.halted = ix.halted /\ jx.contractToPool = ix.contractToPool
      /\ \A id : PositionShown(jx, id).usageAsCollateralEnabledOnUser
                   = PositionShown(ix, id).usageAsCollateralEnabledOnUser
      /\ \A u : UserOf(jx, u).eModeCategoryId = UserOf(ix, u).eModeCategoryId
      /\ jx.allowances = ix.allowances

LEMMA KeepsItself ==
    ASSUME NEW ix
    PROVE  Keeps(ix, ix)
BY DEF Keeps

LEMMA KeepsOn ==
    ASSUME NEW ix, NEW jx, NEW kx, Keeps(ix, jx), Keeps(jx, kx)
    PROVE  Keeps(ix, kx)
BY DEF Keeps

LEMMA SettingsKept ==
    ASSUME NEW ix, NEW jx, IsStore(ix), Keeps(ix, jx), NEW k
    PROVE  Shows(jx, k) = Shows(ix, k)
BY DEF Keeps, Shows, CategoryShown

LEMMA SaveOther ==
    ASSUME NEW ix, NEW id, NEW entity,
           NEW table \in {"reserves", "subTokens", "priceOracles", "priceAssets"}
    PROVE  Keeps(ix, Save(ix, table, id, entity))
<1>. DEFINE jx == Save(ix, table, id, entity)
<1>1. ASSUME IsStore(ix)
      PROVE  /\ DOMAIN jx = DOMAIN ix
             /\ \A t \in {"halted", "contractToPool", "pools", "users", "userReserves",
                          "allowances"} : jx[t] = ix[t]
  BY <1>1 DEF Save, IsStore
<1>. HIDE DEF jx
<1>2. ASSUME IsStore(ix)
      PROVE  /\ jx.halted = ix.halted /\ jx.contractToPool = ix.contractToPool
             /\ jx.pools = ix.pools /\ jx.users = ix.users
             /\ jx.userReserves = ix.userReserves /\ jx.allowances = ix.allowances
  BY <1>1, <1>2
<1>3. ASSUME IsStore(ix) PROVE IsStore(jx)
  BY <1>1, <1>2, <1>3 DEF IsStore
<1>4. Keeps(ix, jx)
  BY <1>2, <1>3 DEF PositionShown, UserOf, Keeps, Has
<1>. QED
  BY <1>4 DEF jx

LEMMA SavePosition ==
    ASSUME NEW ix, NEW id, NEW position, DOMAIN position = PositionFieldNames,
           position.usageAsCollateralEnabledOnUser
               = PositionShown(ix, id).usageAsCollateralEnabledOnUser
    PROVE  Keeps(ix, Save(ix, "userReserves", id, position))
<1>. DEFINE jx == Save(ix, "userReserves", id, position)
<1>1. SUFFICES ASSUME IsStore(ix) PROVE Keeps(ix, jx)
  BY DEF Keeps
<1>2. /\ DOMAIN jx = DOMAIN ix
      /\ jx.halted = ix.halted /\ jx.contractToPool = ix.contractToPool
      /\ jx.pools = ix.pools /\ jx.users = ix.users /\ jx.allowances = ix.allowances
      /\ jx.userReserves = Put(ix.userReserves, id, position)
  BY <1>1 DEF Save, IsStore
<1>. HIDE DEF jx
<1>0. /\ DOMAIN jx.userReserves = DOMAIN ix.userReserves \cup {id}
      /\ jx.userReserves[id] = position
      /\ \A i \in DOMAIN ix.userReserves : i # id => jx.userReserves[i] = ix.userReserves[i]
  BY <1>2 DEF Put
<1>3. IsStore(jx)
  BY <1>0, <1>1, <1>2 DEF IsStore
<1>4. ASSUME NEW i
      PROVE  PositionShown(jx, i).usageAsCollateralEnabledOnUser
               = PositionShown(ix, i).usageAsCollateralEnabledOnUser
  BY <1>0 DEF PositionShown, Has
<1>. QED
  BY <1>2, <1>3, <1>4 DEF Keeps, UserOf, Has

LEMMA SaveUser ==
    ASSUME NEW ix, NEW user, NEW entity,
           DOMAIN entity = {"borrowedReservesCount", "eModeCategoryId"},
           entity.eModeCategoryId = UserOf(ix, user).eModeCategoryId
    PROVE  Keeps(ix, Save(ix, "users", user, entity))
<1>. DEFINE jx == Save(ix, "users", user, entity)
<1>1. SUFFICES ASSUME IsStore(ix) PROVE Keeps(ix, jx)
  BY DEF Keeps
<1>2. /\ DOMAIN jx = DOMAIN ix
      /\ jx.halted = ix.halted /\ jx.contractToPool = ix.contractToPool
      /\ jx.pools = ix.pools /\ jx.userReserves = ix.userReserves
      /\ jx.allowances = ix.allowances
      /\ jx.users = Put(ix.users, user, entity)
  BY <1>1 DEF Save, IsStore
<1>. HIDE DEF jx
<1>0. /\ DOMAIN jx.users = DOMAIN ix.users \cup {user}
      /\ jx.users[user] = entity
      /\ \A u \in DOMAIN ix.users : u # user => jx.users[u] = ix.users[u]
  BY <1>2 DEF Put
<1>3. IsStore(jx)
  BY <1>0, <1>1, <1>2 DEF IsStore
<1>4. ASSUME NEW u PROVE UserOf(jx, u).eModeCategoryId = UserOf(ix, u).eModeCategoryId
  BY <1>0 DEF UserOf, Has
<1>. QED
  BY <1>2, <1>3, <1>4 DEF Keeps, PositionShown, Has

LEMMA RecordKeeps ==
    ASSUME NEW ix, NEW jx, Keeps(ix, jx), NEW schema, NEW assigned, Complete(schema, assigned)
    PROVE  Keeps(ix, Record(jx, schema, assigned))
BY DEF Record

LEMMA GetUserKeeps ==
    ASSUME NEW ix, NEW user
    PROVE  Keeps(ix, getOrInitUser(ix, user))
<1>1. CASE Has(ix.users, user)
  BY <1>1, KeepsItself DEF getOrInitUser
<1>2. CASE ~Has(ix.users, user)
  <2>1. Keeps(ix, Save(ix, "users", user, NewUser))
    BY <1>2, SaveUser DEF NewUser, UserOf
  <2>. QED
    BY <1>2, <2>1, UserComplete, RecordKeeps DEF getOrInitUser, Create
<1>. QED
  BY <1>1, <1>2

LEMMA GetPriceOracleKeeps ==
    ASSUME NEW ix
    PROVE  Keeps(ix, getOrInitPriceOracle(ix))
<1>1. Keeps(ix, Save(ix, "priceOracles", "1", NewPriceOracle))
  BY SaveOther
<1>. QED
  BY <1>1, KeepsItself, AllFieldsComplete, RecordKeeps DEF getOrInitPriceOracle, Create

LEMMA GetPriceKeeps ==
    ASSUME NEW ix, NEW asset
    PROVE  Keeps(ix, getPriceOracleAsset(ix, asset))
<1>. DEFINE loaded == getOrInitPriceOracle(ix)
<1>1. Keeps(ix, loaded)
  BY GetPriceOracleKeeps
<1>2. getPriceOracleAsset(ix, asset) =
        IF Has(ix.priceAssets, asset) THEN ix
        ELSE Record(Save(loaded, "priceAssets", asset, NewPriceAsset), PriceOracleAssetEntity,
                    FieldsOf(PriceOracleAssetEntity))
  BY DEF getPriceOracleAsset, Create
<1>. HIDE DEF loaded
<1>3. Keeps(loaded, Save(loaded, "priceAssets", asset, NewPriceAsset))
  BY SaveOther
<1>4. Keeps(ix, Save(loaded, "priceAssets", asset, NewPriceAsset))
  BY <1>1, <1>3, KeepsOn
<1>. QED
  BY <1>2, <1>4, KeepsItself, AllFieldsComplete, RecordKeeps

LEMMA GetReserveKeeps ==
    ASSUME NEW ix, NEW asset, NEW e
    PROVE  Keeps(ix, getOrInitReserve(ix, asset, e))
BY GetPriceKeeps, KeepsItself DEF getOrInitReserve

LEMMA SaveReserveKeeps ==
    ASSUME NEW ix, NEW asset, NEW e, NEW reserve
    PROVE  Keeps(ix, SaveReserve(ix, asset, e, reserve))
<1>. DEFINE loaded == getOrInitReserve(ix, asset, e)
            saved == Save(loaded, "reserves", ReserveId(ix, asset, e), reserve)
<1>1. Keeps(ix, loaded)
  BY GetReserveKeeps
<1>2. SaveReserve(ix, asset, e, reserve) =
        Record(saved, ReserveEntity, FieldsOf(ReserveEntity) \ UnsetReserveFields)
  BY DEF SaveReserve, Create
<1>. HIDE DEF loaded
<1>3. Keeps(loaded, saved)
  BY SaveOther
<1>. HIDE DEF saved
<1>4. Keeps(ix, saved)
  BY <1>1, <1>3, KeepsOn
<1>. QED
  BY <1>2, <1>4, ReserveComplete, RecordKeeps

LEMMA GetPositionKeeps ==
    ASSUME NEW ix, NEW user, NEW asset, NEW e
    PROVE  Keeps(ix, getOrInitUserReserve(ix, user, asset, e))
<1>. DEFINE loaded == getOrInitReserve(ix, asset, e)
<1>1. Keeps(ix, loaded)
  BY GetReserveKeeps
<1>2. getOrInitUserReserve(ix, user, asset, e) =
        IF Has(ix.userReserves, UserReserveId(ix, user, asset, e))
        THEN loaded ELSE getOrInitUser(loaded, user)
  BY DEF getOrInitUserReserve
<1>. HIDE DEF loaded
<1>3. Keeps(ix, getOrInitUser(loaded, user))
  BY <1>1, GetUserKeeps, KeepsOn
<1>. QED
  BY <1>1, <1>2, <1>3

\* A position of the right fields that says of collateral what the store says.
Agrees(ix, user, asset, e, position) ==
    /\ DOMAIN position = PositionFieldNames
    /\ position.usageAsCollateralEnabledOnUser
         = UserReserveOf(ix, user, asset, e).usageAsCollateralEnabledOnUser

LEMMA PositionLoaded ==
    ASSUME NEW ix, IsStore(ix), NEW user, NEW asset, NEW e
    PROVE  /\ UserReserveOf(ix, user, asset, e)
                = PositionShown(ix, UserReserveId(ix, user, asset, e))
           /\ DOMAIN UserReserveOf(ix, user, asset, e) = PositionFieldNames
BY DEF UserReserveOf, PositionShown, IsStore, Has, NewUserReserve, PositionFieldNames

LEMMA PositionKept ==
    ASSUME NEW ix, IsStore(ix), NEW jx, Keeps(ix, jx), NEW user, NEW asset, NEW e
    PROVE  /\ UserReserveId(jx, user, asset, e) = UserReserveId(ix, user, asset, e)
           /\ UserReserveOf(jx, user, asset, e).usageAsCollateralEnabledOnUser
                = UserReserveOf(ix, user, asset, e).usageAsCollateralEnabledOnUser
<1>1. UserReserveId(jx, user, asset, e) = UserReserveId(ix, user, asset, e)
  BY DEF Keeps, UserReserveId, getPoolByContract
<1>2. UserReserveOf(ix, user, asset, e) = PositionShown(ix, UserReserveId(ix, user, asset, e))
  BY PositionLoaded
<1>3. UserReserveOf(jx, user, asset, e) = PositionShown(jx, UserReserveId(jx, user, asset, e))
  BY PositionLoaded DEF Keeps
<1>. QED
  BY <1>1, <1>2, <1>3 DEF Keeps

LEMMA SavePositionKeeps ==
    ASSUME NEW ix, NEW jx, Keeps(ix, jx), NEW user, NEW asset, NEW e, NEW position,
           IsStore(ix) => Agrees(ix, user, asset, e, position)
    PROVE  Keeps(ix, SaveUserReserve(jx, user, asset, e, position))
<1>. DEFINE loaded == getOrInitUserReserve(jx, user, asset, e)
            id == UserReserveId(jx, user, asset, e)
            saved == Save(loaded, "userReserves", id, position)
<1>1. SUFFICES ASSUME IsStore(ix)
               PROVE  Keeps(ix, SaveUserReserve(jx, user, asset, e, position))
  BY DEF Keeps
<1>2. Keeps(ix, loaded)
  BY GetPositionKeeps, KeepsOn
<1>3. SaveUserReserve(jx, user, asset, e, position) =
        Record(saved, UserReserveEntity, FieldsOf(UserReserveEntity))
  BY DEF SaveUserReserve, Create
<1>. HIDE DEF loaded
<1>4. Keeps(loaded, saved)
  <2>1. id = UserReserveId(ix, user, asset, e)
    BY <1>1, PositionKept
  <2>2. PositionShown(loaded, id).usageAsCollateralEnabledOnUser
          = position.usageAsCollateralEnabledOnUser
    BY <1>1, <1>2, <2>1, PositionLoaded DEF Keeps, Agrees
  <2>3. DOMAIN position = PositionFieldNames
    BY <1>1 DEF Agrees
  <2>. HIDE DEF id
  <2>. QED
    BY <2>2, <2>3, SavePosition
<1>. HIDE DEF saved
<1>5. Keeps(ix, saved)
  BY <1>2, <1>4, KeepsOn
<1>. QED
  BY <1>3, <1>5, AllFieldsComplete, RecordKeeps

LEMMA CountBorrowedKeeps ==
    ASSUME NEW ix, NEW jx, Keeps(ix, jx), NEW user, NEW counted, NEW change
    PROVE  Keeps(ix, CountBorrowed(jx, user, counted, change))
<1>. DEFINE loaded == getOrInitUser(jx, user)
            entity == [UserOf(loaded, user) EXCEPT !.borrowedReservesCount = @ + change]
<1>1. SUFFICES ASSUME IsStore(ix) PROVE Keeps(ix, CountBorrowed(jx, user, counted, change))
  BY DEF Keeps
<1>2. Keeps(ix, loaded)
  BY GetUserKeeps, KeepsOn
<1>3. CountBorrowed(jx, user, counted, change)
        = IF counted THEN Save(loaded, "users", user, entity) ELSE loaded
  BY DEF CountBorrowed
<1>. HIDE DEF loaded
<1>4. DOMAIN UserOf(loaded, user) = {"borrowedReservesCount", "eModeCategoryId"}
  BY <1>1, <1>2 DEF Keeps, IsStore, UserOf, Has, NewUser
<1>5. /\ DOMAIN entity = {"borrowedReservesCount", "eModeCategoryId"}
      /\ entity.eModeCategoryId = UserOf(loaded, user).eModeCategoryId
  BY <1>4
<1>. HIDE DEF entity
<1>6. Keeps(ix, Save(loaded, "users", user, entity))
  BY <1>2, <1>5, SaveUser, KeepsOn
<1>. QED
  BY <1>2, <1>3, <1>6

LEMMA ReserveSavedKeeps ==
    ASSUME NEW ix, NEW jx, Keeps(ix, jx), NEW asset, NEW e, NEW reserve
    PROVE  Keeps(ix, saveReserve(jx, asset, e, reserve))
<1>1. Keeps(ix, SaveReserve(jx, asset, e, reserve))
  BY SaveReserveKeeps, KeepsOn
<1>2. Keeps(ix, getPriceOracleAsset(SaveReserve(jx, asset, e, reserve), asset))
  BY <1>1, GetPriceKeeps, KeepsOn
<1>. QED
  BY <1>2, ParamsComplete, RecordKeeps DEF saveReserve

LEMMA HistoriesKeep ==
    ASSUME NEW ix, NEW jx, Keeps(ix, jx)
    PROVE  /\ Keeps(ix, saveUserReserveAHistory(jx))
           /\ Keeps(ix, saveUserReserveVHistory(jx))
           /\ Keeps(ix, saveUserReserveSHistory(jx))
BY HistoriesComplete, RecordKeeps DEF saveUserReserveAHistory, saveUserReserveVHistory,
                                      saveUserReserveSHistory

LEMMA GetPositionOn ==
    ASSUME NEW ix, NEW jx, Keeps(ix, jx), NEW user, NEW asset, NEW e
    PROVE  Keeps(ix, getOrInitUserReserve(jx, user, asset, e))
BY GetPositionKeeps, KeepsOn

LEMMA SaveReserveOn ==
    ASSUME NEW ix, NEW jx, Keeps(ix, jx), NEW asset, NEW e, NEW reserve
    PROVE  Keeps(ix, SaveReserve(jx, asset, e, reserve))
BY SaveReserveKeeps, KeepsOn

LEMMA GetUserOn ==
    ASSUME NEW ix, NEW jx, Keeps(ix, jx), NEW user
    PROVE  Keeps(ix, getOrInitUser(jx, user))
BY GetUserKeeps, KeepsOn

LEMMA InPoolKeeps ==
    ASSUME NEW ix, NEW e, Fits(e), NEW next, Keeps(ix, next)
    PROVE  Keeps(ix, InPool(ix, e, next))
BY DEF Keeps, IsStore, Fits, InPool, Has

-------------------------------------------------------------------------------
(* Handlers of token events.                                               *)

LEMMA TokenBurnKeeps ==
    ASSUME NEW ix, NEW e, NEW from, NEW value, NEW balanceIncrease
    PROVE  Keeps(ix, tokenBurn(ix, e, from, value, balanceIncrease))
<1>. DEFINE asset == AssetOf(ix, e)
            change == value + balanceIncrease
            position == UserReserveOf(ix, from, asset, e)
            left == [position EXCEPT !.scaledBTokenBalance = @ - graphRayDiv(change, e.index)]
            reserve == [ReserveOf(ix, asset, e) EXCEPT !.availableLiquidity = @ - change]
            loaded == getOrInitUserReserve(ix, from, asset, e)
            saved == saveReserve(loaded, asset, e, reserve)
            held == SaveUserReserve(saved, from, asset, e, left)
<1>1. tokenBurn(ix, e, from, value, balanceIncrease) = saveUserReserveAHistory(held)
  BY DEF tokenBurn
<1>2. IsStore(ix) => Agrees(ix, from, asset, e, left)
  BY PositionLoaded DEF Agrees, PositionFieldNames
<1>. HIDE DEF left, reserve, asset
<1>3. Keeps(ix, loaded)
  BY GetPositionKeeps
<1>. HIDE DEF loaded
<1>4. Keeps(ix, saved)
  BY <1>3, ReserveSavedKeeps
<1>. HIDE DEF saved
<1>5. Keeps(ix, held)
  BY <1>2, <1>4, SavePositionKeeps
<1>. HIDE DEF held
<1>. QED
  BY <1>1, <1>5, HistoriesKeep

LEMMA TokenMintKeeps ==
    ASSUME NEW ix, NEW e, NEW answers, NEW onBehalf, NEW value, NEW balanceIncrease
    PROVE  Keeps(ix, tokenMint(ix, e, answers, onBehalf, value, balanceIncrease))
<1>. DEFINE asset == AssetOf(ix, e)
            change == value - balanceIncrease
            position == UserReserveOf(ix, onBehalf, asset, e)
            poolKnown == /\ Has(ix.pools, getPoolByContract(ix, e))
                         /\ ix.pools[getPoolByContract(ix, e)].pool # NotSet
            accrued == IF poolKnown /\ answers.reserveData[asset] # NotSet
                       THEN answers.reserveData[asset].accruedToTreasury
                       ELSE ReserveOf(ix, asset, e).accruedToTreasury
            reserve == [ReserveOf(ix, asset, e) EXCEPT !.accruedToTreasury = accrued]
            more == [position EXCEPT !.scaledBTokenBalance = @ + graphRayDiv(change, e.index)]
            held == SaveUserReserve(ix, onBehalf, asset, e, more)
            liquid == [reserve EXCEPT !.availableLiquidity = @ + change]
            saved == saveReserve(held, asset, e, liquid)
<1>1. tokenMint(ix, e, answers, onBehalf, value, balanceIncrease)
        = IF onBehalf \in HardCodedTreasuries THEN saveReserve(ix, asset, e, reserve)
                                              ELSE saveUserReserveAHistory(saved)
  BY DEF tokenMint
<1>2. IsStore(ix) => Agrees(ix, onBehalf, asset, e, more)
  <2>. HIDE DEF change, asset
  <2>. QED
    BY PositionLoaded DEF Agrees, PositionFieldNames
<1>. HIDE DEF more, reserve, asset, liquid
<1>3. Keeps(ix, held)
  BY <1>2, KeepsItself, SavePositionKeeps
<1>. HIDE DEF held
<1>4. Keeps(ix, saved)
  BY <1>3, ReserveSavedKeeps
<1>. HIDE DEF saved
<1>5. Keeps(ix, saveReserve(ix, asset, e, reserve))
  BY KeepsItself, ReserveSavedKeeps
<1>. QED
  BY <1>1, <1>4, <1>5, HistoriesKeep

LEMMA BTokenHandlersKeep ==
    ASSUME NEW ix, NEW e, Fits(e), NEW answers
    PROVE  /\ Keeps(ix, handleBTokenMint(ix, e, answers))
           /\ Keeps(ix, handleBTokenBurn(ix, e))
BY TokenMintKeeps, TokenBurnKeeps, InPoolKeeps DEF handleBTokenMint, handleBTokenBurn

LEMMA BalanceTransferKeeps ==
    ASSUME NEW ix, NEW e, Fits(e), NEW answers
    PROVE  Keeps(ix, handleBalanceTransfer(ix, e, answers))
<1>. DEFINE value == IF PastUpdateBlock THEN e.value * e.index ELSE e.value
            asset == AssetOf(ix, e)
            burnt == tokenBurn(ix, e, e.from, value, 0)
            minted == tokenMint(burnt, e, answers, e.to, value, 0)
            loaded == getOrInitUserReserve(minted, e.to, asset, e)
            asCollateral(user) ==
                UserReserveOf(loaded, user, asset, e).usageAsCollateralEnabledOnUser
            next == IF asCollateral(e.from) # asCollateral(e.to)
                    THEN saveReserve(loaded, asset, e, ReserveOf(loaded, asset, e))
                    ELSE loaded
<1>1. handleBalanceTransfer(ix, e, answers) = InPool(ix, e, next)
  BY DEF handleBalanceTransfer
<1>. HIDE DEF asset, value
<1>2. Keeps(ix, burnt)
  BY TokenBurnKeeps
<1>. HIDE DEF burnt
<1>3. Keeps(ix, minted)
  BY <1>2, TokenMintKeeps, KeepsOn
<1>. HIDE DEF minted
<1>4. Keeps(ix, loaded)
  BY <1>3, GetPositionOn
<1>. HIDE DEF loaded
<1>5. Keeps(ix, next)
  <2>. HIDE DEF asCollateral
  <2>. QED
    BY <1>4, ReserveSavedKeeps
<1>. HIDE DEF next
<1>. QED
  BY <1>1, <1>5, InPoolKeeps

LEMMA VariableDebtHandlersKeep ==
    ASSUME NEW ix, NEW e, Fits(e)
    PROVE  /\ Keeps(ix, handleVariableTokenBurn(ix, e))
           /\ Keeps(ix, handleVariableTokenMint(ix, e))
<1>. DEFINE asset == AssetOf(ix, e)
<1>1. Keeps(ix, handleVariableTokenBurn(ix, e))
  <2>. DEFINE change == e.value + e.balanceIncrease
              scaled == graphRayDiv(change, e.index)
              position == [UserReserveOf(ix, e.from, asset, e) EXCEPT
                              !.scaledVariableDebt = @ - scaled]
              reserve == [ReserveOf(ix, asset, e) EXCEPT
                             !.totalScaledVariableDebt = @ - scaled,
                             !.availableLiquidity = @ + change]
              held == SaveUserReserve(ix, e.from, asset, e, position)
              saved == saveReserve(held, asset, e, reserve)
              counted == CountBorrowed(saved, e.from, HasNoDebt(position), -1)
  <2>1. handleVariableTokenBurn(ix, e) = InPool(ix, e, saveUserReserveVHistory(counted))
    BY DEF handleVariableTokenBurn
  <2>. HIDE DEF asset, scaled
  <2>2. IsStore(ix) => Agrees(ix, e.from, asset, e, position)
    BY PositionLoaded DEF Agrees, PositionFieldNames
  <2>. HIDE DEF position, reserve
  <2>3. Keeps(ix, held)
    BY <2>2, KeepsItself, SavePositionKeeps
  <2>. HIDE DEF held
  <2>4. Keeps(ix, saved)
    BY <2>3, ReserveSavedKeeps
  <2>. HIDE DEF saved
  <2>5. Keeps(ix, counted)
    BY <2>4, CountBorrowedKeeps
  <2>. HIDE DEF counted
  <2>. QED
    BY <2>1, <2>5, HistoriesKeep, InPoolKeeps
<1>2. Keeps(ix, handleVariableTokenMint(ix, e))
  <2>. DEFINE change == e.value - e.balanceIncrease
              scaled == graphRayDiv(change, e.index)
              position == UserReserveOf(ix, e.onBehalfOf, asset, e)
              more == [position EXCEPT !.scaledVariableDebt = @ + scaled]
              reserve == [ReserveOf(ix, asset, e) EXCEPT
                             !.totalScaledVariableDebt = @ + scaled,
                             !.availableLiquidity = @ - change]
              loaded == getOrInitUserReserve(ix, e.onBehalfOf, asset, e)
              counted == CountBorrowed(loaded, e.onBehalfOf, HasNoDebt(position), 1)
              held == SaveUserReserve(counted, e.onBehalfOf, asset, e, more)
              saved == saveReserve(held, asset, e, reserve)
  <2>1. handleVariableTokenMint(ix, e) = InPool(ix, e, saveUserReserveVHistory(saved))
    BY DEF handleVariableTokenMint
  <2>. HIDE DEF asset, scaled
  <2>2. IsStore(ix) => Agrees(ix, e.onBehalfOf, asset, e, more)
    BY PositionLoaded DEF Agrees, PositionFieldNames
  <2>. HIDE DEF position, more, reserve
  <2>3. Keeps(ix, loaded)
    BY GetPositionKeeps
  <2>. HIDE DEF loaded
  <2>4. Keeps(ix, counted)
    BY <2>3, CountBorrowedKeeps
  <2>. HIDE DEF counted
  <2>5. Keeps(ix, held)
    BY <2>2, <2>4, SavePositionKeeps
  <2>. HIDE DEF held
  <2>6. Keeps(ix, saved)
    BY <2>5, ReserveSavedKeeps
  <2>. HIDE DEF saved
  <2>. QED
    BY <2>1, <2>6, HistoriesKeep, InPoolKeeps
<1>. QED
  BY <1>1, <1>2

LEMMA StableDebtHandlersKeep ==
    ASSUME NEW ix, NEW e, Fits(e)
    PROVE  /\ Keeps(ix, handleStableTokenMint(ix, e))
           /\ Keeps(ix, handleStableTokenBurn(ix, e))
<1>. DEFINE asset == AssetOf(ix, e)
<1>1. Keeps(ix, handleStableTokenMint(ix, e))
  <2>. DEFINE borrowed == e.amount - e.balanceIncrease
              position == UserReserveOf(ix, e.onBehalfOf, asset, e)
              more == [position EXCEPT !.principalStableDebt = @ + e.amount]
              reserve == [ReserveOf(ix, asset, e) EXCEPT
                             !.totalPrincipalStableDebt = e.newTotalSupply,
                             !.availableLiquidity = @ - borrowed]
              loaded == getOrInitUserReserve(ix, e.onBehalfOf, asset, e)
              counted == CountBorrowed(loaded, e.onBehalfOf, HasNoDebt(position), 1)
              saved == saveReserve(counted, asset, e, reserve)
              held == SaveUserReserve(saved, e.onBehalfOf, asset, e, more)
  <2>1. handleStableTokenMint(ix, e) = InPool(ix, e, saveUserReserveSHistory(held))
    BY DEF handleStableTokenMint
  <2>. HIDE DEF asset
  <2>2. IsStore(ix) => Agrees(ix, e.onBehalfOf, asset, e, more)
    BY PositionLoaded DEF Agrees, PositionFieldNames
  <2>. HIDE DEF position, more, reserve
  <2>3. Keeps(ix, loaded)
    BY GetPositionKeeps
  <2>. HIDE DEF loaded
  <2>4. Keeps(ix, counted)
    BY <2>3, CountBorrowedKeeps
  <2>. HIDE DEF counted
  <2>5. Keeps(ix, saved)
    BY <2>4, ReserveSavedKeeps
  <2>. HIDE DEF saved
  <2>6. Keeps(ix, held)
    BY <2>2, <2>5, SavePositionKeeps
  <2>. HIDE DEF held
  <2>. QED
    BY <2>1, <2>6, HistoriesKeep, InPoolKeeps
<1>2. Keeps(ix, handleStableTokenBurn(ix, e))
  <2>. DEFINE position == [UserReserveOf(ix, e.from, asset, e) EXCEPT
                              !.principalStableDebt = @ - e.amount]
              reserve == [ReserveOf(ix, asset, e) EXCEPT
                             !.totalPrincipalStableDebt = e.newTotalSupply,
                             !.availableLiquidity = @ + e.amount + e.balanceIncrease]
              loaded == getOrInitUserReserve(ix, e.from, asset, e)
              saved == saveReserve(loaded, asset, e, reserve)
              held == SaveUserReserve(saved, e.from, asset, e, position)
              counted == CountBorrowed(held, e.from, HasNoDebt(position), -1)
  <2>1. handleStableTokenBurn(ix, e) = InPool(ix, e, saveUserReserveSHistory(counted))
    BY DEF handleStableTokenBurn
  <2>. HIDE DEF asset
  <2>2. IsStore(ix) => Agrees(ix, e.from, asset, e, position)
    BY PositionLoaded DEF Agrees, PositionFieldNames
  <2>. HIDE DEF position, reserve
  <2>3. Keeps(ix, loaded)
    BY GetPositionKeeps
  <2>. HIDE DEF loaded
  <2>4. Keeps(ix, saved)
    BY <2>3, ReserveSavedKeeps
  <2>. HIDE DEF saved
  <2>5. Keeps(ix, held)
    BY <2>2, <2>4, SavePositionKeeps
  <2>. HIDE DEF held
  <2>6. Keeps(ix, counted)
    BY <2>5, CountBorrowedKeeps
  <2>. HIDE DEF counted
  <2>. QED
    BY <2>1, <2>6, HistoriesKeep, InPoolKeeps
<1>. QED
  BY <1>1, <1>2

-------------------------------------------------------------------------------
(* Handlers of pool events that set nothing.                               *)

LEMMA LoadKeeps ==
    ASSUME NEW ix, NEW jx, Keeps(ix, jx), NEW e, NEW user
    PROVE  Keeps(ix, Load(jx, e, user))
BY GetPositionOn DEF Load

LEMMA ResaveKeeps ==
    ASSUME NEW ix, NEW jx, Keeps(ix, jx), NEW asset, NEW e
    PROVE  Keeps(ix, Resave(jx, asset, e))
BY SaveReserveOn DEF Resave

LEMMA ReferrerKeeps ==
    ASSUME NEW ix, NEW jx, Keeps(ix, jx)
    PROVE  Keeps(ix, getOrInitReferrer(jx))
BY ItemsComplete, RecordKeeps DEF getOrInitReferrer

LEMMA DebtCallHandlersKeep ==
    ASSUME NEW ix, NEW e, Fits(e)
    PROVE  /\ Keeps(ix, handleSupply(ix, e)) /\ Keeps(ix, handleWithdraw(ix, e))
           /\ Keeps(ix, handleBorrow(ix, e)) /\ Keeps(ix, handleRepay(ix, e))
           /\ Keeps(ix, handleSwapBorrowRateMode(ix, e))
           /\ Keeps(ix, handleRebalanceStableBorrowRate(ix, e))
<1>1. ASSUME NEW user PROVE Keeps(ix, Load(ix, e, user))
  BY KeepsItself, LoadKeeps
<1>2. ASSUME NEW user, NEW other
      PROVE  Keeps(ix, getOrInitReferrer(getOrInitUser(Load(ix, e, user), other)))
  <2>1. Keeps(ix, getOrInitUser(Load(ix, e, user), other))
    BY <1>1, GetUserOn
  <2>. QED
    BY <2>1, ReferrerKeeps
<1>3. Keeps(ix, handleSupply(ix, e))
  BY <1>2, TransactionsComplete, RecordKeeps, InPoolKeeps DEF handleSupply
<1>4. Keeps(ix, handleWithdraw(ix, e))
  <2>1. Keeps(ix, Load(getOrInitUser(ix, e.to), e, e.user))
    BY GetUserKeeps, LoadKeeps
  <2>. QED
    BY <2>1, TransactionsComplete, RecordKeeps, InPoolKeeps DEF handleWithdraw
<1>5. Keeps(ix, handleBorrow(ix, e))
  BY <1>2, TransactionsComplete, RecordKeeps, InPoolKeeps DEF handleBorrow
<1>6. Keeps(ix, handleRepay(ix, e))
  <2>1. Keeps(ix, Resave(Load(ix, e, e.user), e.reserve, e))
    BY <1>1, ResaveKeeps
  <2>2. Keeps(ix, getOrInitUser(Resave(Load(ix, e, e.user), e.reserve, e), e.repayer))
    BY <2>1, GetUserOn
  <2>. QED
    BY <2>2, TransactionsComplete, RecordKeeps, InPoolKeeps DEF handleRepay
<1>7. Keeps(ix, handleSwapBorrowRateMode(ix, e))
  BY <1>1, TransactionsComplete, RecordKeeps, InPoolKeeps DEF handleSwapBorrowRateMode
<1>8. Keeps(ix, handleRebalanceStableBorrowRate(ix, e))
  BY <1>1, TransactionsComplete, RecordKeeps, InPoolKeeps DEF handleRebalanceStableBorrowRate
<1>. QED
  BY <1>3, <1>4, <1>5, <1>6, <1>7, <1>8

LEMMA LiquidationHandlerKeeps ==
    ASSUME NEW ix, NEW e, Fits(e)
    PROVE  Keeps(ix, handleLiquidationCall(ix, e))
<1>. DEFINE known == getOrInitUser(ix, e.user)
            collateral == getOrInitUserReserve(known, e.user, e.collateralAsset, e)
            resaved == Resave(collateral, e.collateralAsset, e)
            principal == getOrInitUserReserve(resaved, e.user, e.debtAsset, e)
            saved == Resave(principal, e.debtAsset, e)
<1>1. Keeps(ix, known)
  BY GetUserKeeps
<1>2. Keeps(ix, collateral)
  BY <1>1, GetPositionOn
<1>3. Keeps(ix, resaved)
  BY <1>2, ResaveKeeps
<1>4. Keeps(ix, principal)
  BY <1>3, GetPositionOn
<1>5. Keeps(ix, saved)
  BY <1>4, ResaveKeeps
<1>6. handleLiquidationCall(ix, e) =
        InPool(ix, e, Record(saved, LiquidationCallEntity,
                             TransactionFields
                                 \cup {"pool", "user", "collateralReserve",
                                       "collateralUserReserve", "collateralAmount",
                                       "principalReserve", "principalUserReserve",
                                       "principalAmount", "liquidator",
                                       "collateralAssetPriceUSD", "borrowAssetPriceUSD"}))
  BY DEF handleLiquidationCall
<1>. HIDE DEF saved
<1>. QED
  BY <1>5, <1>6, TransactionsComplete, RecordKeeps, InPoolKeeps

\* The premium's split is known; only that of the bridge fee may be missing.
LEMMA FeeHandlersKeep ==
    ASSUME NEW ix, NEW e, Fits(e)
    PROVE  /\ Keeps(ix, handleFlashLoan(ix, e))
           /\ ix.pools[Provider].bridgeProtocolFee # NotSet => Keeps(ix, handleBackUnbacked(ix, e))
<1>1. IsStore(ix) => getPoolByContract(ix, e) = Provider
  BY DEF IsStore, Fits, getPoolByContract
<1>2. Keeps(ix, handleFlashLoan(ix, e))
  <2>. DEFINE loaded == getOrInitReserve(getOrInitUser(ix, e.initiator), e.asset, e)
              reserve == [ReserveOf(loaded, e.asset, e) EXCEPT
                             !.availableLiquidity = @ + e.premium]
              saved == SaveReserve(loaded, e.asset, e, reserve)
              next == Record(saved, FlashLoanEntity,
                             {"pool", "reserve", "target", "initiator", "totalFee", "lpFee",
                              "protocolFee", "amount", "timestamp", "assetPriceUSD"})
  <2>1. handleFlashLoan(ix, e)
          = InPool(ix, e, SplitFee(ix, e, "flashloanPremiumToProtocol", next))
    BY DEF handleFlashLoan
  <2>2. Keeps(ix, loaded)
    BY GetUserKeeps, GetReserveKeeps, KeepsOn
  <2>. HIDE DEF loaded, reserve
  <2>3. Keeps(ix, next)
    BY <2>2, SaveReserveOn, ItemsComplete, RecordKeeps
  <2>. HIDE DEF next
  <2>4. IsStore(ix) => SplitFee(ix, e, "flashloanPremiumToProtocol", next) = next
    BY <1>1 DEF SplitFee, IsStore
  <2>5. Keeps(ix, SplitFee(ix, e, "flashloanPremiumToProtocol", next))
    BY <2>3, <2>4 DEF Keeps
  <2>. QED
    BY <2>1, <2>5, InPoolKeeps
<1>3. ASSUME ix.pools[Provider].bridgeProtocolFee # NotSet
      PROVE  Keeps(ix, handleBackUnbacked(ix, e))
  <2>. DEFINE saved == Resave(Load(ix, e, e.backer), e.reserve, e)
              next == Record(saved, BackUnbackedEntity,
                             {"pool", "backer", "userReserve", "reserve", "amount", "timestamp",
                              "fee", "lpFee", "protocolFee"})
  <2>1. handleBackUnbacked(ix, e) = InPool(ix, e, SplitFee(ix, e, "bridgeProtocolFee", next))
    BY DEF handleBackUnbacked
  <2>2. Keeps(ix, saved)
    BY KeepsItself, LoadKeeps, ResaveKeeps
  <2>. HIDE DEF saved
  <2>3. Keeps(ix, next)
    BY <2>2, ItemsComplete, RecordKeeps
  <2>. HIDE DEF next
  <2>4. IsStore(ix) => SplitFee(ix, e, "bridgeProtocolFee", next) = next
    BY <1>1, <1>3 DEF SplitFee
  <2>5. Keeps(ix, SplitFee(ix, e, "bridgeProtocolFee", next))
    BY <2>3, <2>4 DEF Keeps
  <2>. QED
    BY <2>1, <2>5, InPoolKeeps
<1>. QED
  BY <1>2, <1>3

LEMMA ItemHandlersKeep ==
    ASSUME NEW ix, NEW e, Fits(e)
    PROVE  /\ Keeps(ix, handleReserveDataUpdated(ix, e)) /\ Keeps(ix, handleMintUnbacked(ix, e))
           /\ Keeps(ix, handleMintedToTreasury(ix, e))
           /\ Keeps(ix, handleIsolationModeTotalDebtUpdated(ix, e))
<1>1. Keeps(ix, handleReserveDataUpdated(ix, e))
  BY SaveReserveKeeps, InPoolKeeps DEF handleReserveDataUpdated
<1>2. Keeps(ix, handleMintUnbacked(ix, e))
  <2>1. Keeps(ix, getOrInitUser(Load(ix, e, e.onBehalfOf), e.user))
    BY KeepsItself, LoadKeeps, GetUserOn
  <2>. QED
    BY <2>1, ItemsComplete, RecordKeeps, InPoolKeeps DEF handleMintUnbacked
<1>3. Keeps(ix, handleMintedToTreasury(ix, e))
  BY GetReserveKeeps, ItemsComplete, RecordKeeps, InPoolKeeps DEF handleMintedToTreasury
<1>4. Keeps(ix, handleIsolationModeTotalDebtUpdated(ix, e))
  BY GetReserveKeeps, ItemsComplete, RecordKeeps, InPoolKeeps
     DEF handleIsolationModeTotalDebtUpdated
<1>. QED
  BY <1>1, <1>2, <1>3, <1>4

LEMMA BridgeFeeHandlerKeeps ==
    ASSUME NEW ix, NEW e, Fits(e)
    PROVE  Keeps(ix, handleBridgeProtocolFeeUpdated(ix, e))
<1>1. SUFFICES ASSUME IsStore(ix) PROVE Keeps(ix, handleBridgeProtocolFeeUpdated(ix, e))
  BY DEF Keeps
<1>. DEFINE pool == [ix.pools[Provider] EXCEPT !["bridgeProtocolFee"] = e.new]
            jx == Save(ix, "pools", Provider, pool)
<1>2. handleBridgeProtocolFeeUpdated(ix, e) = InPool(ix, e, jx)
  BY <1>1 DEF handleBridgeProtocolFeeUpdated, SetFee, getPoolByContract, IsStore, Fits
<1>3. /\ DOMAIN pool = DOMAIN ix.pools[Provider]
      /\ pool.flashloanPremiumToProtocol = ix.pools[Provider].flashloanPremiumToProtocol
  BY <1>1 DEF IsStore, NewPool
<1>. HIDE DEF pool
<1>4. /\ DOMAIN jx = DOMAIN ix
      /\ jx.halted = ix.halted /\ jx.contractToPool = ix.contractToPool /\ jx.users = ix.users
      /\ jx.userReserves = ix.userReserves /\ jx.allowances = ix.allowances
      /\ jx.pools = Put(ix.pools, Provider, pool)
  BY <1>1 DEF Save, IsStore
<1>. HIDE DEF jx
<1>5. Provider \in DOMAIN jx.pools /\ jx.pools[Provider] = pool
  BY <1>4 DEF Put
<1>6. IsStore(jx)
  BY <1>1, <1>3, <1>4, <1>5 DEF IsStore
<1>7. Keeps(ix, jx)
  BY <1>4, <1>6 DEF Keeps, PositionShown, UserOf, Has
<1>. QED
  BY <1>2, <1>7, InPoolKeeps

-------------------------------------------------------------------------------
(* Handlers that set what their event announces.                           *)

Sets(ix, jx, e) ==
    IsStore(ix) =>
      /\ IsStore(jx) /\ jx.halted = ix.halted
      /\ \A k \in Settings :
           Shows(jx, k) = IF Announces(e, k) THEN Announced(e) ELSE Shows(ix, k)

LEMMA KeepsSets ==
    ASSUME NEW ix, NEW jx, Keeps(ix, jx), NEW e, e.name \notin SettingNames
    PROVE  Sets(ix, jx, e)
<1>1. SUFFICES ASSUME IsStore(ix)
               PROVE  /\ IsStore(jx) /\ jx.halted = ix.halted
                      /\ \A k \in Settings :
                           Shows(jx, k) = IF Announces(e, k) THEN Announced(e) ELSE Shows(ix, k)
  BY DEF Sets
<1>2. IsStore(jx) /\ jx.halted = ix.halted
  BY <1>1 DEF Keeps
<1>3. ASSUME NEW k \in Settings
      PROVE  Shows(jx, k) = IF Announces(e, k) THEN Announced(e) ELSE Shows(ix, k)
  BY <1>1, SettingsKept, OthersAnnounceNothing
<1>. QED
  BY <1>2, <1>3

LEMMA InPoolSets ==
    ASSUME NEW ix, NEW e, Fits(e), NEW next, Sets(ix, next, e)
    PROVE  Sets(ix, InPool(ix, e, next), e)
BY DEF Sets, IsStore, Fits, InPool, Has

LEMMA SwitchSaved ==
    ASSUME NEW ix, IsStore(ix), NEW jx, Keeps(ix, jx), NEW user, NEW asset, NEW position,
           DOMAIN position = PositionFieldNames
    PROVE  LET id == <<user, asset, Provider>>
               kx == Save(jx, "userReserves", id, position)
           IN  /\ IsStore(kx) /\ kx.halted = ix.halted /\ kx.allowances = ix.allowances
               /\ \A u : UserOf(kx, u).eModeCategoryId = UserOf(ix, u).eModeCategoryId
               /\ PositionShown(kx, id) = position
               /\ \A i : i # id => PositionShown(kx, i).usageAsCollateralEnabledOnUser
                                     = PositionShown(ix, i).usageAsCollateralEnabledOnUser
<1>. DEFINE id == <<user, asset, Provider>>
            kx == Save(jx, "userReserves", id, position)
<1>1. IsStore(jx)
  BY DEF Keeps
<1>2. /\ DOMAIN kx = DOMAIN jx
      /\ kx.halted = jx.halted /\ kx.contractToPool = jx.contractToPool
      /\ kx.pools = jx.pools /\ kx.users = jx.users /\ kx.allowances = jx.allowances
      /\ kx.userReserves = Put(jx.userReserves, id, position)
  BY <1>1 DEF Save, IsStore
<1>. HIDE DEF kx, id
<1>3. /\ DOMAIN kx.userReserves = DOMAIN jx.userReserves \cup {id}
      /\ kx.userReserves[id] = position
      /\ \A i \in DOMAIN jx.userReserves : i # id => kx.userReserves[i] = jx.userReserves[i]
  BY <1>2 DEF Put
<1>4. IsStore(kx)
  BY <1>1, <1>2, <1>3 DEF IsStore
<1>5. /\ PositionShown(kx, id) = position
      /\ \A i : i # id => PositionShown(kx, i) = PositionShown(jx, i)
  BY <1>3 DEF PositionShown, Has
<1>6. /\ kx.halted = ix.halted /\ kx.allowances = ix.allowances
      /\ \A u : UserOf(kx, u).eModeCategoryId = UserOf(ix, u).eModeCategoryId
      /\ \A i : i # id => PositionShown(kx, i).usageAsCollateralEnabledOnUser
                            = PositionShown(ix, i).usageAsCollateralEnabledOnUser
  BY <1>2, <1>5 DEF Keeps, UserOf, Has
<1>. QED
  BY <1>4, <1>5, <1>6 DEF kx, id

LEMMA UseAsCollateralSets ==
    ASSUME NEW ix, NEW e, Fits(e), NEW enabled,
           \/ e.name = "ReserveUsedAsCollateralEnabled" /\ enabled = TRUE
           \/ e.name = "ReserveUsedAsCollateralDisabled" /\ enabled = FALSE
    PROVE  Sets(ix, UseAsCollateral(ix, e, enabled), e)
<1>. DEFINE loaded == Record(Load(ix, e, e.user), UsageAsCollateralEntity,
                             TransactionFields \cup PositionFields \cup {"fromState", "toState"})
            position == [UserReserveOf(loaded, e.user, e.reserve, e) EXCEPT
                            !.usageAsCollateralEnabledOnUser = enabled]
            held == getOrInitUserReserve(loaded, e.user, e.reserve, e)
            id == <<e.user, e.reserve, Provider>>
            saved == Save(held, "userReserves", id, position)
<1>1. SUFFICES ASSUME IsStore(ix) PROVE Sets(ix, UseAsCollateral(ix, e, enabled), e)
  BY DEF Sets
<1>2. Keeps(ix, loaded)
  BY KeepsItself, LoadKeeps, TransactionsComplete, RecordKeeps
<1>3. UserReserveId(loaded, e.user, e.reserve, e) = id
  <2>1. loaded.contractToPool = ix.contractToPool
    BY <1>1, <1>2 DEF Keeps
  <2>2. ix.contractToPool[e.address] = Provider
    BY <1>1 DEF IsStore, Fits
  <2>. HIDE DEF loaded
  <2>. QED
    BY <2>1, <2>2 DEF UserReserveId, getPoolByContract
<1>4. UseAsCollateral(ix, e, enabled) = Record(saved, UserReserveEntity, FieldsOf(UserReserveEntity))
  BY <1>3 DEF UseAsCollateral, SaveUserReserve, Create
<1>5. UseAsCollateral(ix, e, enabled) = saved
  BY <1>4, AllFieldsComplete DEF Record
<1>. HIDE DEF loaded
<1>6. /\ DOMAIN position = PositionFieldNames
      /\ position.usageAsCollateralEnabledOnUser = enabled
  <2>1. DOMAIN UserReserveOf(loaded, e.user, e.reserve, e) = PositionFieldNames
    BY <1>1, <1>2, PositionLoaded DEF Keeps
  <2>. QED
    BY <2>1 DEF PositionFieldNames
<1>7. Keeps(ix, held)
  BY <1>2, GetPositionOn
<1>. HIDE DEF position, held
<1>8. /\ IsStore(saved) /\ saved.halted = ix.halted /\ saved.allowances = ix.allowances
      /\ \A u : UserOf(saved, u).eModeCategoryId = UserOf(ix, u).eModeCategoryId
      /\ PositionShown(saved, id) = position
      /\ \A i : i # id => PositionShown(saved, i).usageAsCollateralEnabledOnUser
                            = PositionShown(ix, i).usageAsCollateralEnabledOnUser
  BY <1>1, <1>6, <1>7, SwitchSaved
<1>. HIDE DEF saved
<1>9. ASSUME NEW k \in Settings
      PROVE  Shows(saved, k) = IF Announces(e, k) THEN Announced(e) ELSE Shows(ix, k)
  <2>1. Announced(e) = enabled
    BY DEF Announced
  <2>2. CASE k \in Switches
    <3>1. k[1] = "collateral" /\ k = <<"collateral", k[2], k[3]>>
      BY <2>2 DEF Switches
    <3>2. Announces(e, k) <=> <<k[2], k[3], Provider>> = id
      BY <3>1 DEF Announces, SwitchNames
    <3>. QED
      BY <1>6, <1>8, <2>1, <3>1, <3>2 DEF Shows
  <2>3. CASE k \in Categories
    <3>1. k[1] = "eMode" /\ ~Announces(e, k)
      BY <2>3 DEF Categories, Announces
    <3>. QED
      BY <1>8, <3>1 DEF Shows, CategoryShown
  <2>4. CASE k \in Allowances
    <3>1. k[1] # "eMode" /\ k[1] # "collateral" /\ ~Announces(e, k)
      BY <2>4 DEF Allowances, Announces, AllowanceName
    <3>. QED
      BY <1>8, <3>1 DEF Shows
  <2>. QED
    BY <2>2, <2>3, <2>4 DEF Settings
<1>. QED
  BY <1>5, <1>8, <1>9 DEF Sets

LEMMA SwitchHandlersSet ==
    ASSUME NEW ix, NEW e, Fits(e)
    PROVE  /\ e.name = "ReserveUsedAsCollateralEnabled" =>
                Sets(ix, handleReserveUsedAsCollateralEnabled(ix, e), e)
           /\ e.name = "ReserveUsedAsCollateralDisabled" =>
                Sets(ix, handleReserveUsedAsCollateralDisabled(ix, e), e)
BY UseAsCollateralSets, InPoolSets DEF handleReserveUsedAsCollateralEnabled,
                                       handleReserveUsedAsCollateralDisabled

LEMMA EModeHandlerSets ==
    ASSUME NEW ix, NEW e, Fits(e), e.name = "UserEModeSet"
    PROVE  Sets(ix, handleUserEModeSet(ix, e), e)
<1>. DEFINE loaded == getOrInitUser(ix, e.user)
            entity == [UserOf(loaded, e.user) EXCEPT !.eModeCategoryId = e.categoryId]
            saved == Save(loaded, "users", e.user, entity)
<1>1. SUFFICES ASSUME IsStore(ix) PROVE Sets(ix, handleUserEModeSet(ix, e), e)
  BY DEF Sets
<1>2. Keeps(ix, loaded)
  BY GetUserKeeps
<1>3. handleUserEModeSet(ix, e)
        = Record(saved, UserEModeSetEntity, TransactionFields \cup {"user", "categoryId"})
  BY DEF handleUserEModeSet
<1>4. handleUserEModeSet(ix, e) = saved
  BY <1>3, TransactionsComplete DEF Record
<1>. HIDE DEF loaded
<1>5. IsStore(loaded)
  BY <1>1, <1>2 DEF Keeps
<1>6. DOMAIN UserOf(loaded, e.user) = {"borrowedReservesCount", "eModeCategoryId"}
  BY <1>5 DEF IsStore, UserOf, Has, NewUser
<1>7. /\ DOMAIN entity = {"borrowedReservesCount", "eModeCategoryId"}
      /\ entity.eModeCategoryId = e.categoryId
  BY <1>6
<1>. HIDE DEF entity
<1>8. /\ DOMAIN saved = DOMAIN loaded
      /\ saved.halted = loaded.halted /\ saved.contractToPool = loaded.contractToPool
      /\ saved.pools = loaded.pools /\ saved.userReserves = loaded.userReserves
      /\ saved.allowances = loaded.allowances
      /\ saved.users = Put(loaded.users, e.user, entity)
  BY <1>5 DEF Save, IsStore
<1>. HIDE DEF saved
<1>9. /\ DOMAIN saved.users = DOMAIN loaded.users \cup {e.user}
      /\ saved.users[e.user] = entity
      /\ \A u \in DOMAIN loaded.users : u # e.user => saved.users[u] = loaded.users[u]
  BY <1>8 DEF Put
<1>10. IsStore(saved)
  <2>1. e.user \in Users
    BY DEF Fits
  <2>. QED
    BY <1>5, <1>7, <1>8, <1>9, <2>1 DEF IsStore
<1>11. /\ saved.halted = ix.halted /\ saved.allowances = ix.allowances
       /\ \A i : PositionShown(saved, i).usageAsCollateralEnabledOnUser
                   = PositionShown(ix, i).usageAsCollateralEnabledOnUser
  BY <1>1, <1>2, <1>8 DEF Keeps, PositionShown, Has
<1>12. \A u : UserOf(saved, u).eModeCategoryId
                = IF u = e.user THEN e.categoryId ELSE UserOf(ix, u).eModeCategoryId
  BY <1>1, <1>2, <1>7, <1>9 DEF Keeps, UserOf, Has
<1>13. e.categoryId # NotSet
  BY IndexingAssumption DEF Fits
<1>14. ASSUME NEW k \in Settings
       PROVE  Shows(saved, k) = IF Announces(e, k) THEN Announced(e) ELSE Shows(ix, k)
  <2>1. Announced(e) = e.categoryId
    BY DEF Announced
  <2>2. CASE k \in Switches
    <3>1. k[1] = "collateral" /\ ~Announces(e, k)
      BY <2>2 DEF Switches, Announces, SwitchNames
    <3>. QED
      BY <1>11, <3>1 DEF Shows
  <2>3. CASE k \in Categories
    <3>1. k[1] = "eMode" /\ (Announces(e, k) <=> k[2] = e.user)
      BY <2>3 DEF Categories, Announces
    <3>. QED
      BY <1>12, <1>13, <2>1, <3>1 DEF Shows, CategoryShown
  <2>4. CASE k \in Allowances
    <3>1. k[1] # "eMode" /\ k[1] # "collateral" /\ ~Announces(e, k)
      BY <2>4 DEF Allowances, Announces, AllowanceName
    <3>. QED
      BY <1>11, <3>1 DEF Shows
  <2>. QED
    BY <2>2, <2>3, <2>4 DEF Settings
<1>. QED
  BY <1>4, <1>10, <1>11, <1>14 DEF Sets

LEMMA AllowanceSets ==
    ASSUME NEW ix, NEW e, Fits(e), NEW kind \in {"sToken", "vToken"}, e.name = AllowanceName(kind)
    PROVE  LET name == IF kind = "sToken" THEN "stable" ELSE "variable"
               loaded == getOrInitUserReserve(ix, e.fromUser, e.asset, e)
           IN  Sets(ix, Save(loaded, "allowances", <<name, e.fromUser, e.toUser, e.asset>>,
                             e.amount), e)
<1>. DEFINE name == IF kind = "sToken" THEN "stable" ELSE "variable"
            loaded == getOrInitUserReserve(ix, e.fromUser, e.asset, e)
            id == <<name, e.fromUser, e.toUser, e.asset>>
            saved == Save(loaded, "allowances", id, e.amount)
<1>1. SUFFICES ASSUME IsStore(ix) PROVE Sets(ix, saved, e)
  BY DEF Sets
<1>2. Keeps(ix, loaded)
  BY GetPositionKeeps
<1>. HIDE DEF loaded
<1>3. IsStore(loaded)
  BY <1>1, <1>2 DEF Keeps
<1>4. /\ DOMAIN saved = DOMAIN loaded
      /\ saved.halted = loaded.halted /\ saved.contractToPool = loaded.contractToPool
      /\ saved.pools = loaded.pools /\ saved.userReserves = loaded.userReserves
      /\ saved.users = loaded.users
      /\ saved.allowances = Put(loaded.allowances, id, e.amount)
  BY <1>3 DEF Save, IsStore
<1>. HIDE DEF saved
<1>5. IsStore(saved)
  BY <1>3, <1>4 DEF IsStore
<1>6. /\ saved.halted = ix.halted
      /\ \A i : PositionShown(saved, i).usageAsCollateralEnabledOnUser
                   = PositionShown(ix, i).usageAsCollateralEnabledOnUser
      /\ \A u : UserOf(saved, u).eModeCategoryId = UserOf(ix, u).eModeCategoryId
      /\ loaded.allowances = ix.allowances
  BY <1>1, <1>2, <1>4 DEF Keeps, PositionShown, UserOf, Has
<1>7. /\ DOMAIN saved.allowances = DOMAIN ix.allowances \cup {id}
      /\ saved.allowances[id] = e.amount
      /\ \A i \in DOMAIN ix.allowances : i # id => saved.allowances[i] = ix.allowances[i]
  BY <1>4, <1>6 DEF Put
<1>8. ASSUME NEW k \in Settings
      PROVE  Shows(saved, k) = IF Announces(e, k) THEN Announced(e) ELSE Shows(ix, k)
  <2>1. Announced(e) = e.amount
    BY DEF Announced, AllowanceName
  <2>2. CASE k \in Switches
    <3>1. k[1] = "collateral" /\ ~Announces(e, k)
      BY <2>2 DEF Switches, Announces, SwitchNames, AllowanceName
    <3>. QED
      BY <1>6, <3>1 DEF Shows
  <2>3. CASE k \in Categories
    <3>1. k[1] = "eMode" /\ ~Announces(e, k)
      BY <2>3 DEF Categories, Announces, AllowanceName
    <3>. QED
      BY <1>6, <3>1 DEF Shows, CategoryShown
  <2>4. CASE k \in Allowances
    <3>1. k[1] \in {"sToken", "vToken"}
      BY <2>4 DEF Allowances
    <3>2. Announces(e, k) <=> AllowanceId(k) = id
      BY <3>1 DEF Announces, AllowanceName, AllowanceId
    <3>. HIDE DEF id
    <3>3. Shows(saved, k) = IF AllowanceId(k) \in DOMAIN saved.allowances
                            THEN saved.allowances[AllowanceId(k)] ELSE 0
      BY <3>1 DEF Shows, Has
    <3>4. Shows(ix, k) = IF AllowanceId(k) \in DOMAIN ix.allowances
                         THEN ix.allowances[AllowanceId(k)] ELSE 0
      BY <3>1 DEF Shows, Has
    <3>. QED
      BY <1>7, <2>1, <3>2, <3>3, <3>4
  <2>. QED
    BY <2>2, <2>3, <2>4 DEF Settings
<1>. QED
  BY <1>5, <1>6, <1>8 DEF Sets

LEMMA AllowanceHandlersSet ==
    ASSUME NEW ix, NEW e, Fits(e)
    PROVE  /\ e.name = "SBorrowAllowanceDelegated" =>
                Sets(ix, handleStableTokenBorrowAllowanceDelegated(ix, e), e)
           /\ e.name = "VBorrowAllowanceDelegated" =>
                Sets(ix, handleVariableTokenBorrowAllowanceDelegated(ix, e), e)
<1>1. CASE e.name = "SBorrowAllowanceDelegated"
  <2>. DEFINE loaded == getOrInitUserReserve(ix, e.fromUser, e.asset, e)
              saved == Save(loaded, "allowances", <<"stable", e.fromUser, e.toUser, e.asset>>,
                            e.amount)
  <2>1. Sets(ix, saved, e)
    BY <1>1, AllowanceSets DEF AllowanceName
  <2>2. BorrowAllowanceDelegated(ix, e, "stable", StableTokenDelegatedAllowanceEntity) = saved
    BY ItemsComplete DEF BorrowAllowanceDelegated, Create, Record
  <2>. HIDE DEF saved
  <2>. QED
    BY <1>1, <2>1, <2>2, InPoolSets DEF handleStableTokenBorrowAllowanceDelegated
<1>2. CASE e.name = "VBorrowAllowanceDelegated"
  <2>. DEFINE loaded == getOrInitUserReserve(ix, e.fromUser, e.asset, e)
              saved == Save(loaded, "allowances", <<"variable", e.fromUser, e.toUser, e.asset>>,
                            e.amount)
  <2>1. Sets(ix, saved, e)
    BY <1>2, AllowanceSets DEF AllowanceName
  <2>2. BorrowAllowanceDelegated(ix, e, "variable", VariableTokenDelegatedAllowanceEntity) = saved
    BY ItemsComplete DEF BorrowAllowanceDelegated, Create, Record
  <2>. HIDE DEF saved
  <2>. QED
    BY <1>2, <2>1, <2>2, InPoolSets DEF handleVariableTokenBorrowAllowanceDelegated
<1>. QED
  BY <1>1, <1>2

-------------------------------------------------------------------------------
(* The next event.                                                         *)

\* What indexing an event of a store comes to: its setting shown, or a halt.
Indexed(e, next) ==
    \/ Sets(index, next, e)
    \/ /\ e.name = "BackUnbacked" /\ index.pools[Provider].bridgeProtocolFee = NotSet
       /\ next = Halt(index)

LEMMA IndexSets ==
    ASSUME NEW name, NEW next, Index(name, next),
           event.name = name => Indexed(event, next)
    PROVE  \E n : Index(event.name, n) /\ Indexed(event, n)
BY Zenon DEF Index

LEMMA TokenEventSets ==
    ASSUME IndexTokenEvent, Fits(event)
    PROVE  \E n : Index(event.name, n) /\ Indexed(event, n)
<1>1. CASE Index("BTokenMint", handleBTokenMint(index, event, chain))
  <2>1. event.name = "BTokenMint" => Sets(index, handleBTokenMint(index, event, chain), event)
    <3>1. Keeps(index, handleBTokenMint(index, event, chain))
      BY BTokenHandlersKeep
    <3>. QED
      BY <3>1, KeepsSets DEF SettingNames, SwitchNames
  <2>. QED
    BY <1>1, <2>1, IndexSets DEF Indexed
<1>2. CASE Index("BTokenBurn", handleBTokenBurn(index, event))
  <2>1. event.name = "BTokenBurn" => Sets(index, handleBTokenBurn(index, event), event)
    <3>1. Keeps(index, handleBTokenBurn(index, event))
      BY BTokenHandlersKeep
    <3>. QED
      BY <3>1, KeepsSets DEF SettingNames, SwitchNames
  <2>. QED
    BY <1>2, <2>1, IndexSets DEF Indexed
<1>3. CASE Index("BalanceTransfer", handleBalanceTransfer(index, event, chain))
  <2>1. event.name = "BalanceTransfer" => Sets(index, handleBalanceTransfer(index, event, chain), event)
    <3>1. Keeps(index, handleBalanceTransfer(index, event, chain))
      BY BalanceTransferKeeps
    <3>. QED
      BY <3>1, KeepsSets DEF SettingNames, SwitchNames
  <2>. QED
    BY <1>3, <2>1, IndexSets DEF Indexed
<1>4. CASE Index("VTokenMint", handleVariableTokenMint(index, event))
  <2>1. event.name = "VTokenMint" => Sets(index, handleVariableTokenMint(index, event), event)
    <3>1. Keeps(index, handleVariableTokenMint(index, event))
      BY VariableDebtHandlersKeep
    <3>. QED
      BY <3>1, KeepsSets DEF SettingNames, SwitchNames
  <2>. QED
    BY <1>4, <2>1, IndexSets DEF Indexed
<1>5. CASE Index("VTokenBurn", handleVariableTokenBurn(index, event))
  <2>1. event.name = "VTokenBurn" => Sets(index, handleVariableTokenBurn(index, event), event)
    <3>1. Keeps(index, handleVariableTokenBurn(index, event))
      BY VariableDebtHandlersKeep
    <3>. QED
      BY <3>1, KeepsSets DEF SettingNames, SwitchNames
  <2>. QED
    BY <1>5, <2>1, IndexSets DEF Indexed
<1>6. CASE Index("STokenMint", handleStableTokenMint(index, event))
  <2>1. event.name = "STokenMint" => Sets(index, handleStableTokenMint(index, event), event)
    <3>1. Keeps(index, handleStableTokenMint(index, event))
      BY StableDebtHandlersKeep
    <3>. QED
      BY <3>1, KeepsSets DEF SettingNames, SwitchNames
  <2>. QED
    BY <1>6, <2>1, IndexSets DEF Indexed
<1>7. CASE Index("STokenBurn", handleStableTokenBurn(index, event))
  <2>1. event.name = "STokenBurn" => Sets(index, handleStableTokenBurn(index, event), event)
    <3>1. Keeps(index, handleStableTokenBurn(index, event))
      BY StableDebtHandlersKeep
    <3>. QED
      BY <3>1, KeepsSets DEF SettingNames, SwitchNames
  <2>. QED
    BY <1>7, <2>1, IndexSets DEF Indexed
<1>8. CASE Index("SBorrowAllowanceDelegated", handleStableTokenBorrowAllowanceDelegated(index, event))
  <2>1. event.name = "SBorrowAllowanceDelegated" => Sets(index, handleStableTokenBorrowAllowanceDelegated(index, event), event)
    BY AllowanceHandlersSet, Zenon
  <2>. QED
    BY <1>8, <2>1, IndexSets DEF Indexed
<1>9. CASE Index("VBorrowAllowanceDelegated", handleVariableTokenBorrowAllowanceDelegated(index, event))
  <2>1. event.name = "VBorrowAllowanceDelegated" => Sets(index, handleVariableTokenBorrowAllowanceDelegated(index, event), event)
    BY AllowanceHandlersSet, Zenon
  <2>. QED
    BY <1>9, <2>1, IndexSets DEF Indexed
<1>. QED
  BY <1>1, <1>2, <1>3, <1>4, <1>5, <1>6, <1>7, <1>8, <1>9 DEF IndexTokenEvent

LEMMA PoolEventSets ==
    ASSUME IndexPoolEvent, Fits(event), IsStore(index)
    PROVE  \E n : Index(event.name, n) /\ Indexed(event, n)
<1>1. CASE Index("Supply", handleSupply(index, event))
  <2>1. event.name = "Supply" => Sets(index, handleSupply(index, event), event)
    <3>1. Keeps(index, handleSupply(index, event))
      BY DebtCallHandlersKeep
    <3>. QED
      BY <3>1, KeepsSets DEF SettingNames, SwitchNames
  <2>. QED
    BY <1>1, <2>1, IndexSets DEF Indexed
<1>2. CASE Index("Withdraw", handleWithdraw(index, event))
  <2>1. event.name = "Withdraw" => Sets(index, handleWithdraw(index, event), event)
    <3>1. Keeps(index, handleWithdraw(index, event))
      BY DebtCallHandlersKeep
    <3>. QED
      BY <3>1, KeepsSets DEF SettingNames, SwitchNames
  <2>. QED
    BY <1>2, <2>1, IndexSets DEF Indexed
<1>3. CASE Index("Borrow", handleBorrow(index, event))
  <2>1. event.name = "Borrow" => Sets(index, handleBorrow(index, event), event)
    <3>1. Keeps(index, handleBorrow(index, event))
      BY DebtCallHandlersKeep
    <3>. QED
      BY <3>1, KeepsSets DEF SettingNames, SwitchNames
  <2>. QED
    BY <1>3, <2>1, IndexSets DEF Indexed
<1>4. CASE Index("Repay", handleRepay(index, event))
  <2>1. event.name = "Repay" => Sets(index, handleRepay(index, event), event)
    <3>1. Keeps(index, handleRepay(index, event))
      BY DebtCallHandlersKeep
    <3>. QED
      BY <3>1, KeepsSets DEF SettingNames, SwitchNames
  <2>. QED
    BY <1>4, <2>1, IndexSets DEF Indexed
<1>5. CASE Index("SwapBorrowRateMode", handleSwapBorrowRateMode(index, event))
  <2>1. event.name = "SwapBorrowRateMode" => Sets(index, handleSwapBorrowRateMode(index, event), event)
    <3>1. Keeps(index, handleSwapBorrowRateMode(index, event))
      BY DebtCallHandlersKeep
    <3>. QED
      BY <3>1, KeepsSets DEF SettingNames, SwitchNames
  <2>. QED
    BY <1>5, <2>1, IndexSets DEF Indexed
<1>6. CASE Index("RebalanceStableBorrowRate", handleRebalanceStableBorrowRate(index, event))
  <2>1. event.name = "RebalanceStableBorrowRate" => Sets(index, handleRebalanceStableBorrowRate(index, event), event)
    <3>1. Keeps(index, handleRebalanceStableBorrowRate(index, event))
      BY DebtCallHandlersKeep
    <3>. QED
      BY <3>1, KeepsSets DEF SettingNames, SwitchNames
  <2>. QED
    BY <1>6, <2>1, IndexSets DEF Indexed
<1>7. CASE Index("LiquidationCall", handleLiquidationCall(index, event))
  <2>1. event.name = "LiquidationCall" => Sets(index, handleLiquidationCall(index, event), event)
    <3>1. Keeps(index, handleLiquidationCall(index, event))
      BY LiquidationHandlerKeeps
    <3>. QED
      BY <3>1, KeepsSets DEF SettingNames, SwitchNames
  <2>. QED
    BY <1>7, <2>1, IndexSets DEF Indexed
<1>8. CASE Index("FlashLoan", handleFlashLoan(index, event))
  <2>1. event.name = "FlashLoan" => Sets(index, handleFlashLoan(index, event), event)
    <3>1. Keeps(index, handleFlashLoan(index, event))
      BY FeeHandlersKeep
    <3>. QED
      BY <3>1, KeepsSets DEF SettingNames, SwitchNames
  <2>. QED
    BY <1>8, <2>1, IndexSets DEF Indexed
<1>9. CASE Index("ReserveUsedAsCollateralEnabled", handleReserveUsedAsCollateralEnabled(index, event))
  <2>1. event.name = "ReserveUsedAsCollateralEnabled" => Sets(index, handleReserveUsedAsCollateralEnabled(index, event), event)
    BY SwitchHandlersSet, Zenon
  <2>. QED
    BY <1>9, <2>1, IndexSets DEF Indexed
<1>10. CASE Index("ReserveUsedAsCollateralDisabled", handleReserveUsedAsCollateralDisabled(index, event))
  <2>1. event.name = "ReserveUsedAsCollateralDisabled" => Sets(index, handleReserveUsedAsCollateralDisabled(index, event), event)
    BY SwitchHandlersSet, Zenon
  <2>. QED
    BY <1>10, <2>1, IndexSets DEF Indexed
<1>11. CASE Index("ReserveDataUpdated", handleReserveDataUpdated(index, event))
  <2>1. event.name = "ReserveDataUpdated" => Sets(index, handleReserveDataUpdated(index, event), event)
    <3>1. Keeps(index, handleReserveDataUpdated(index, event))
      BY ItemHandlersKeep
    <3>. QED
      BY <3>1, KeepsSets DEF SettingNames, SwitchNames
  <2>. QED
    BY <1>11, <2>1, IndexSets DEF Indexed
<1>12. CASE Index("MintUnbacked", handleMintUnbacked(index, event))
  <2>1. event.name = "MintUnbacked" => Sets(index, handleMintUnbacked(index, event), event)
    <3>1. Keeps(index, handleMintUnbacked(index, event))
      BY ItemHandlersKeep
    <3>. QED
      BY <3>1, KeepsSets DEF SettingNames, SwitchNames
  <2>. QED
    BY <1>12, <2>1, IndexSets DEF Indexed
<1>13. CASE Index("MintedToTreasury", handleMintedToTreasury(index, event))
  <2>1. event.name = "MintedToTreasury" => Sets(index, handleMintedToTreasury(index, event), event)
    <3>1. Keeps(index, handleMintedToTreasury(index, event))
      BY ItemHandlersKeep
    <3>. QED
      BY <3>1, KeepsSets DEF SettingNames, SwitchNames
  <2>. QED
    BY <1>13, <2>1, IndexSets DEF Indexed
<1>14. CASE Index("UserEModeSet", handleUserEModeSet(index, event))
  <2>1. event.name = "UserEModeSet" => Sets(index, handleUserEModeSet(index, event), event)
    BY EModeHandlerSets, Zenon
  <2>. QED
    BY <1>14, <2>1, IndexSets DEF Indexed
<1>15. CASE Index("IsolationModeTotalDebtUpdated", handleIsolationModeTotalDebtUpdated(index, event))
  <2>1. event.name = "IsolationModeTotalDebtUpdated" => Sets(index, handleIsolationModeTotalDebtUpdated(index, event), event)
    <3>1. Keeps(index, handleIsolationModeTotalDebtUpdated(index, event))
      BY ItemHandlersKeep
    <3>. QED
      BY <3>1, KeepsSets DEF SettingNames, SwitchNames
  <2>. QED
    BY <1>15, <2>1, IndexSets DEF Indexed
<1>16. CASE Index("BridgeProtocolFeeUpdated", handleBridgeProtocolFeeUpdated(index, event))
  <2>1. event.name = "BridgeProtocolFeeUpdated" => Sets(index, handleBridgeProtocolFeeUpdated(index, event), event)
    <3>1. Keeps(index, handleBridgeProtocolFeeUpdated(index, event))
      BY BridgeFeeHandlerKeeps
    <3>. QED
      BY <3>1, KeepsSets DEF SettingNames, SwitchNames
  <2>. QED
    BY <1>16, <2>1, IndexSets DEF Indexed
<1>17. CASE Index("BackUnbacked", handleBackUnbacked(index, event))
  <2>1. CASE index.pools[Provider].bridgeProtocolFee # NotSet
    <3>1. Keeps(index, handleBackUnbacked(index, event))
      BY <2>1, FeeHandlersKeep
    <3>2. event.name = "BackUnbacked" => Sets(index, handleBackUnbacked(index, event), event)
      BY <3>1, KeepsSets DEF SettingNames, SwitchNames
    <3>. QED
      BY <1>17, <3>2, IndexSets DEF Indexed
  <2>2. CASE index.pools[Provider].bridgeProtocolFee = NotSet
    <3>1. Has(index.contractToPool, event.address) /\ getPoolByContract(index, event) = Provider
      BY DEF IsStore, Fits, getPoolByContract, Has
    <3>2. handleBackUnbacked(index, event) = Halt(index)
      BY <2>2, <3>1 DEF handleBackUnbacked, InPool, SplitFee
    <3>. QED
      BY <1>17, <2>2, <3>2, IndexSets DEF Indexed
  <2>. QED
    BY <2>1, <2>2
<1>. QED
  BY <1>1, <1>2, <1>3, <1>4, <1>5, <1>6, <1>7, <1>8, <1>9, <1>10, <1>11, <1>12,
     <1>13, <1>14, <1>15, <1>16, <1>17 DEF IndexPoolEvent

-------------------------------------------------------------------------------
(* The invariant: of every setting, either the last event in the log about *)
(* it announces what it is, or none is and the index shows it.             *)

\* A category that was never set is null in the index, and zero in the pool.
Faithful(m, ix, k) == Shows(ix, k) = Setting(m, k)

Told(m, ix) ==
    \A k \in Settings :
      \/ Faithful(m, ix, k) /\ \A i \in 1..Len(m.log) : ~Announces(m.log[i], k)
      \/ \E i \in 1..Len(m.log) :
           /\ Announces(m.log[i], k) /\ Announced(m.log[i]) = Setting(m, k)
           /\ \A j \in i + 1..Len(m.log) : ~Announces(m.log[j], k)

\* The loan that is running, if any, can be undone.
LoanUndoable ==
    \/ flash = <<>>
    \/ /\ ~sealed
       /\ \E loan : /\ flash = <<loan>>
                    /\ loan.initiator \in Users /\ loan.asset \in Assets
                    /\ IsMarket(loan.before) /\ Told(loan.before, index)

SettingsTold ==
    /\ IsMarket(market) /\ IsStore(index) /\ Told(market, index)
    /\ LoanUndoable
    /\ sealed \in BOOLEAN /\ (sealed => market.log # <<>>)
    /\ index.halted \in BOOLEAN

LEMMA FollowedTold ==
    ASSUME NEW m, NEW n, NEW ix, IsMarket(m), Follows(m, n), Told(m, ix)
    PROVE  IsMarket(n) /\ Told(n, ix)
<1>1. /\ IsMarket(n) /\ Len(m.log) \in Nat /\ Len(n.log) \in Nat
      /\ Len(m.log) <= Len(n.log) /\ \A i \in 1..Len(m.log) : n.log[i] = m.log[i]
  BY LogBounds DEF Follows
<1>2. ASSUME NEW k \in Settings
      PROVE  \/ Faithful(n, ix, k) /\ \A i \in 1..Len(n.log) : ~Announces(n.log[i], k)
             \/ \E i \in 1..Len(n.log) :
                  /\ Announces(n.log[i], k) /\ Announced(n.log[i]) = Setting(n, k)
                  /\ \A j \in i + 1..Len(n.log) : ~Announces(n.log[j], k)
  <2>1. CASE \E i \in Len(m.log) + 1..Len(n.log) :
               /\ Announces(n.log[i], k) /\ Announced(n.log[i]) = Setting(n, k)
               /\ \A j \in i + 1..Len(n.log) : ~Announces(n.log[j], k)
    BY <1>1, <2>1
  <2>2. CASE /\ Setting(n, k) = Setting(m, k)
             /\ \A i \in Len(m.log) + 1..Len(n.log) : ~Announces(n.log[i], k)
    <3>1. CASE Faithful(m, ix, k) /\ \A i \in 1..Len(m.log) : ~Announces(m.log[i], k)
      <4>1. Faithful(n, ix, k)
        BY <2>2, <3>1 DEF Faithful
      <4>. QED
        BY <1>1, <2>2, <3>1, <4>1
    <3>2. CASE \E i \in 1..Len(m.log) :
                 /\ Announces(m.log[i], k) /\ Announced(m.log[i]) = Setting(m, k)
                 /\ \A j \in i + 1..Len(m.log) : ~Announces(m.log[j], k)
      <4>1. PICK i \in 1..Len(m.log) :
                 /\ Announces(m.log[i], k) /\ Announced(m.log[i]) = Setting(m, k)
                 /\ \A j \in i + 1..Len(m.log) : ~Announces(m.log[j], k)
        BY <3>2
      <4>2. i \in 1..Len(n.log) /\ n.log[i] = m.log[i]
        BY <1>1
      <4>3. ASSUME NEW j \in i + 1..Len(n.log) PROVE ~Announces(n.log[j], k)
        BY <1>1, <2>2, <4>1, <4>2
      <4>. QED
        BY <2>2, <4>1, <4>2, <4>3
    <3>. QED
      BY <3>1, <3>2 DEF Told
  <2>. QED
    BY <2>1, <2>2 DEF Follows
<1>. QED
  BY <1>1, <1>2 DEF Told

\* The first event is indexed and leaves the log.
LEMMA ConsumedTold ==
    ASSUME NEW m, IsMarket(m), m.log # <<>>, NEW ix, IsStore(ix), NEW jx,
           Sets(ix, jx, Head(m.log)), Told(m, ix)
    PROVE  LET n == [m EXCEPT !.log = Tail(@)] IN IsMarket(n) /\ Told(n, jx)
<1>. DEFINE n == [m EXCEPT !.log = Tail(@)]
<1>1. /\ Len(m.log) \in Nat \ {0} /\ DOMAIN m.log = 1..Len(m.log) /\ Head(m.log) = m.log[1]
      /\ IsLog(Tail(m.log)) /\ Len(Tail(m.log)) = Len(m.log) - 1
      /\ DOMAIN Tail(m.log) = 1..(Len(m.log) - 1)
      /\ \A i \in 1..(Len(m.log) - 1) : Tail(m.log)[i] = m.log[i + 1]
  BY LogConsumed DEF IsMarket
<1>2. /\ DOMAIN n = DOMAIN m /\ n.log = Tail(m.log)
      /\ n.position = m.position /\ n.eMode = m.eMode /\ n.allowance = m.allowance
  BY DEF IsMarket, Shaped
<1>. HIDE DEF n
<1>3. IsMarket(n)
  <2>1. Shaped(n)
    BY <1>2 DEF IsMarket, Shaped
  <2>. QED
    BY <1>1, <1>2, <2>1 DEF IsMarket
<1>4. \A k : Setting(n, k) = Setting(m, k)
  BY <1>2 DEF Setting
<1>5. ASSUME NEW k \in Settings
      PROVE  \/ Faithful(n, jx, k) /\ \A i \in 1..Len(n.log) : ~Announces(n.log[i], k)
             \/ \E i \in 1..Len(n.log) :
                  /\ Announces(n.log[i], k) /\ Announced(n.log[i]) = Setting(n, k)
                  /\ \A j \in i + 1..Len(n.log) : ~Announces(n.log[j], k)
  <2>1. Shows(jx, k) = IF Announces(m.log[1], k) THEN Announced(m.log[1]) ELSE Shows(ix, k)
    BY <1>1 DEF Sets
  <2>2. CASE Faithful(m, ix, k) /\ \A i \in 1..Len(m.log) : ~Announces(m.log[i], k)
    <3>1. Shows(jx, k) = Shows(ix, k)
      BY <1>1, <2>1, <2>2
    <3>2. Faithful(n, jx, k)
      BY <1>4, <2>2, <3>1 DEF Faithful
    <3>. QED
      BY <1>1, <1>2, <2>2, <3>2
  <2>3. CASE \E i \in 1..Len(m.log) :
               /\ Announces(m.log[i], k) /\ Announced(m.log[i]) = Setting(m, k)
               /\ \A j \in i + 1..Len(m.log) : ~Announces(m.log[j], k)
    <3>1. PICK i \in 1..Len(m.log) :
               /\ Announces(m.log[i], k) /\ Announced(m.log[i]) = Setting(m, k)
               /\ \A j \in i + 1..Len(m.log) : ~Announces(m.log[j], k)
      BY <2>3
    <3>2. CASE i = 1
      <4>1. Faithful(n, jx, k)
        BY <1>4, <2>1, <3>1, <3>2 DEF Faithful
      <4>2. ASSUME NEW j \in 1..Len(n.log) PROVE ~Announces(n.log[j], k)
        BY <1>1, <1>2, <3>1, <3>2
      <4>. QED
        BY <4>1, <4>2
    <3>3. CASE i # 1
      <4>1. i - 1 \in 1..Len(n.log) /\ n.log[i - 1] = m.log[i]
        BY <1>1, <1>2, <3>3
      <4>2. ASSUME NEW j \in (i - 1) + 1..Len(n.log) PROVE ~Announces(n.log[j], k)
        <5>1. j + 1 \in i + 1..Len(m.log) /\ n.log[j] = m.log[j + 1]
          BY <1>1, <1>2, <3>3
        <5>. QED
          BY <3>1, <5>1
      <4>. QED
        BY <1>4, <3>1, <4>1, <4>2
    <3>. QED
      BY <3>2, <3>3
  <2>. QED
    BY <2>2, <2>3 DEF Told
<1>. QED
  BY <1>3, <1>5 DEF n, Told

-------------------------------------------------------------------------------
(* The start.                                                              *)

LEMMA InitialMarket ==
    /\ IsMarket(InitMarket) /\ InitMarket.log = <<>>
    /\ InitMarket.position = InitPosition
    /\ \A u \in Users : InitMarket.eMode[u] = 0
    /\ \A k \in Allowances : InitMarket.allowance[k] = 0
<1>1. /\ DOMAIN InitMarket = {"index", "position", "underlying", "stableTotal", "stableGrowth",
                              "earning", "accrued", "unbacked", "isolatedDebt", "eMode",
                              "bridgeFee", "allowance", "log", "reverted"}
      /\ InitMarket.position = InitPosition /\ InitMarket.log = <<>>
      /\ InitMarket.eMode = [u \in Users |-> 0]
      /\ InitMarket.allowance = [k \in {"sToken", "vToken"} \X Users \X Users \X Assets |-> 0]
  BY DEF InitMarket
<1>2. /\ DOMAIN InitPosition = Holders \X Assets
      /\ \A p \in Holders \X Assets : DOMAIN InitPosition[p]
            = {"bToken", "vToken", "principal", "interest", "collateral"}
  <2>1. InitPosition \in
         [Holders \X Assets ->
            [bToken : [balance : Nat, index : Nat], vToken : [balance : Nat, index : Nat],
             principal : Nat, interest : Nat, collateral : BOOLEAN]]
    BY IndexingAssumption, Zenon
  <2>. QED
    BY <2>1
<1>3. Shaped(InitMarket)
  BY <1>1, <1>2 DEF Shaped, Allowances
<1>4. IsLog(<<>>) /\ \A i \in DOMAIN <<>> : FALSE
  BY DEF IsLog
<1>. QED
  BY <1>1, <1>3, <1>4 DEF IsMarket, Allowances

LEMMA InitialTables ==
    LET ix == InitialIndex(InitMarket)
    IN  /\ DOMAIN ix = {"halted", "sources", "contractToPool", "pools", "subTokens",
                        "assetPools", "reserves", "users", "userReserves", "eModes",
                        "allowances", "priceOracles", "priceAssets"}
        /\ ix.halted = FALSE
        /\ ix.contractToPool = [c \in Emitters |-> Provider]
        /\ ix.pools[Provider].flashloanPremiumToProtocol # NotSet
        /\ Provider \in DOMAIN ix.pools /\ DOMAIN ix.pools[Provider] = DOMAIN NewPool
        /\ DOMAIN ix.users = {p[1] : p \in Opened(InitMarket)}
        /\ \A u \in DOMAIN ix.users :
             /\ DOMAIN ix.users[u] = {"borrowedReservesCount", "eModeCategoryId"}
             /\ ix.users[u].eModeCategoryId = NotSet
        /\ DOMAIN ix.userReserves = {<<q[1], q[2], Provider>> : q \in Opened(InitMarket)}
        /\ \A p \in DOMAIN ix.userReserves :
             ix.userReserves[p] = IndexedPosition(InitPosition[p[1], p[2]])
        /\ DOMAIN ix.allowances = {}
<1>. DEFINE ix == InitialIndex(InitMarket)
            pool == [NewPool EXCEPT !.pool = Pool, !.flashloanPremiumTotal = FlashPremium,
                                    !.flashloanPremiumToProtocol = FlashPremiumToProtocol]
            user(u) == [NewUser EXCEPT !.borrowedReservesCount =
                           Cardinality({a \in Assets : Owes(InitMarket.position[u, a])})]
<1>1. /\ DOMAIN ix = {"halted", "sources", "contractToPool", "pools", "subTokens",
                      "assetPools", "reserves", "users", "userReserves", "eModes",
                      "allowances", "priceOracles", "priceAssets"}
      /\ ix.halted = FALSE
      /\ ix.contractToPool = [c \in Tokens \cup {Pool, PoolConfigurator} |-> Provider]
      /\ ix.pools = Put(EmptyTable, Provider, pool)
      /\ ix.users = [u \in {p[1] : p \in Opened(InitMarket)} |-> user(u)]
      /\ ix.userReserves = [p \in {<<q[1], q[2], Provider>> : q \in Opened(InitMarket)} |->
                               IndexedPosition(InitMarket.position[p[1], p[2]])]
      /\ ix.allowances = EmptyTable
  BY DEF InitialIndex, EmptyIndex
<1>2. /\ DOMAIN pool = DOMAIN NewPool
      /\ pool.flashloanPremiumToProtocol = FlashPremiumToProtocol
  BY DEF NewPool
<1>3. \A u : /\ DOMAIN user(u) = {"borrowedReservesCount", "eModeCategoryId"}
             /\ user(u).eModeCategoryId = NotSet
  BY DEF NewUser
<1>4. FlashPremiumToProtocol # NotSet
  BY IndexingAssumption, Zenon
<1>. HIDE DEF ix, pool, user
<1>5. Provider \in DOMAIN ix.pools /\ ix.pools[Provider] = pool
  BY <1>1 DEF Put, EmptyTable
<1>6. DOMAIN ix.users = {p[1] : p \in Opened(InitMarket)}
  BY <1>1
<1>7. \A u \in DOMAIN ix.users : ix.users[u] = user(u)
  BY <1>1
<1>8. DOMAIN ix.allowances = {}
  BY <1>1 DEF EmptyTable
<1>9. /\ DOMAIN ix.userReserves = {<<q[1], q[2], Provider>> : q \in Opened(InitMarket)}
      /\ \A p \in DOMAIN ix.userReserves :
           ix.userReserves[p] = IndexedPosition(InitPosition[p[1], p[2]])
  BY <1>1, InitialMarket
<1>10. /\ DOMAIN ix = {"halted", "sources", "contractToPool", "pools", "subTokens", "assetPools",
                       "reserves", "users", "userReserves", "eModes", "allowances",
                       "priceOracles", "priceAssets"}
       /\ ix.halted = FALSE
       /\ ix.contractToPool = [c \in Emitters |-> Provider]
  BY <1>1 DEF Emitters
<1>11. /\ ix.pools[Provider].flashloanPremiumToProtocol # NotSet
       /\ Provider \in DOMAIN ix.pools /\ DOMAIN ix.pools[Provider] = DOMAIN NewPool
  BY <1>2, <1>4, <1>5
<1>12. \A u \in DOMAIN ix.users :
         /\ DOMAIN ix.users[u] = {"borrowedReservesCount", "eModeCategoryId"}
         /\ ix.users[u].eModeCategoryId = NotSet
  BY <1>3, <1>7
<1>. QED
  BY <1>6, <1>8, <1>9, <1>10, <1>11, <1>12, Zenon DEF ix

LEMMA InitialStore ==
    IsStore(InitialIndex(InitMarket)) /\ Told(InitMarket, InitialIndex(InitMarket))
<1>. DEFINE ix == InitialIndex(InitMarket)
<1>1. /\ DOMAIN ix = {"halted", "sources", "contractToPool", "pools", "subTokens",
                        "assetPools", "reserves", "users", "userReserves", "eModes",
                        "allowances", "priceOracles", "priceAssets"}
      /\ ix.contractToPool = [c \in Emitters |-> Provider]
      /\ ix.pools[Provider].flashloanPremiumToProtocol # NotSet
      /\ Provider \in DOMAIN ix.pools /\ DOMAIN ix.pools[Provider] = DOMAIN NewPool
      /\ \A u \in DOMAIN ix.users :
           /\ DOMAIN ix.users[u] = {"borrowedReservesCount", "eModeCategoryId"}
           /\ ix.users[u].eModeCategoryId = NotSet
      /\ DOMAIN ix.userReserves = {<<q[1], q[2], Provider>> : q \in Opened(InitMarket)}
      /\ \A p \in DOMAIN ix.userReserves :
           ix.userReserves[p] = IndexedPosition(InitPosition[p[1], p[2]])
      /\ DOMAIN ix.allowances = {}
  BY InitialTables
<1>0. \A p \in DOMAIN ix.userReserves :
        ix.userReserves[p] = IndexedPosition(InitPosition[p[1], p[2]])
  BY InitialTables, Zenon
<1>2. NotSet \notin Nat
  BY IndexingAssumption, Zenon
<1>. HIDE DEF ix
<1>3. \A id \in DOMAIN ix.userReserves : DOMAIN ix.userReserves[id] = PositionFieldNames
  <2>1. \A p : DOMAIN IndexedPosition(p) = PositionFieldNames
    BY DEF IndexedPosition, PositionFieldNames
  <2>. QED
    BY <1>0, <2>1, Zenon
<1>4. IsStore(ix)
  BY <1>1, <1>2, <1>3 DEF IsStore
<1>5. ASSUME NEW u \in Users, NEW a \in Assets
      PROVE  PositionShown(ix, <<u, a, Provider>>).usageAsCollateralEnabledOnUser
               = InitPosition[u, a].collateral
  <2>1. /\ <<u, a>> \in Holders \X Assets
        /\ InitPosition[u, a].collateral \in BOOLEAN
        /\ InitPosition[u, a].collateral => InitPosition[u, a].bToken.balance > 0
    <3>1. <<u, a>> \in Holders \X Assets
      BY DEF Holders
    <3>2. InitPosition[<<u, a>>] \in
            [bToken : [balance : Nat, index : Nat], vToken : [balance : Nat, index : Nat],
             principal : Nat, interest : Nat, collateral : BOOLEAN]
      BY <3>1, IndexingAssumption, Zenon
    <3>3. InitPosition[<<u, a>>].collateral => InitPosition[<<u, a>>].bToken.balance > 0
      BY <3>1, IndexingAssumption, Zenon
    <3>. QED
      BY <3>1, <3>2, <3>3
  <2>2. CASE <<u, a>> \in Opened(InitMarket)
    <3>1. /\ <<u, a, Provider>> \in DOMAIN ix.userReserves
          /\ ix.userReserves[<<u, a, Provider>>] = IndexedPosition(InitPosition[u, a])
      <4>1. <<u, a, Provider>> \in {<<q[1], q[2], Provider>> : q \in Opened(InitMarket)}
        BY <2>2
      <4>2. <<u, a, Provider>> \in DOMAIN ix.userReserves
        BY <1>1, <4>1, Zenon
      <4>. QED
        BY <1>0, <4>2
    <3>2. \A p : IndexedPosition(p).usageAsCollateralEnabledOnUser = p.collateral
      BY DEF IndexedPosition
    <3>. QED
      BY <3>1, <3>2, Zenon DEF PositionShown, Has
  <2>3. CASE <<u, a>> \notin Opened(InitMarket)
    <3>1. ~InitPosition[u, a].collateral
      BY <2>1, <2>3, InitialMarket DEF Opened, IsMarket, Shaped
    <3>2. <<u, a, Provider>> \notin DOMAIN ix.userReserves
      <4>1. SUFFICES ASSUME <<u, a, Provider>> \in DOMAIN ix.userReserves PROVE FALSE
        OBVIOUS
      <4>2. PICK q \in Opened(InitMarket) : <<u, a, Provider>> = <<q[1], q[2], Provider>>
        <5>1. <<u, a, Provider>> \in {<<q[1], q[2], Provider>> : q \in Opened(InitMarket)}
          BY <1>1, <4>1, Zenon
        <5>. QED
          BY <5>1
      <4>3. q = <<u, a>>
        BY <4>2, InitialMarket DEF Opened, IsMarket, Shaped
      <4>. QED
        BY <2>3, <4>2, <4>3
    <3>. QED
      BY <2>1, <3>1, <3>2 DEF PositionShown, Has, NewUserReserve
  <2>. QED
    BY <2>2, <2>3
<1>6. ASSUME NEW k \in Settings PROVE Faithful(InitMarket, ix, k)
  <2>1. CASE k \in Switches
    <3>1. k[1] = "collateral" /\ k[2] \in Users /\ k[3] \in Assets
      BY <2>1 DEF Switches
    <3>2. Shows(ix, k) = InitPosition[k[2], k[3]].collateral
      BY <1>5, <3>1 DEF Shows
    <3>3. Setting(InitMarket, k) = InitPosition[k[2], k[3]].collateral
      BY <3>1, InitialMarket DEF Setting
    <3>. QED
      BY <3>1, <3>2, <3>3 DEF Faithful
  <2>2. CASE k \in Categories
    <3>1. k[1] = "eMode" /\ k[2] \in Users
      BY <2>2 DEF Categories
    <3>2. Shows(ix, k) = 0
      BY <1>1, <3>1 DEF Shows, CategoryShown, UserOf, Has, NewUser
    <3>3. Setting(InitMarket, k) = 0
      BY <3>1, InitialMarket DEF Setting
    <3>. QED
      BY <3>2, <3>3 DEF Faithful
  <2>3. CASE k \in Allowances
    <3>1. k[1] # "collateral" /\ k[1] # "eMode"
      BY <2>3 DEF Allowances
    <3>2. Shows(ix, k) = 0
      BY <1>1, <3>1 DEF Shows, Has
    <3>3. Setting(InitMarket, k) = 0
      BY <2>3, <3>1, InitialMarket DEF Setting
    <3>. QED
      BY <3>1, <3>2, <3>3 DEF Faithful
  <2>. QED
    BY <2>1, <2>2, <2>3 DEF Settings
<1>7. \A i \in 1..Len(InitMarket.log) : FALSE
  BY InitialMarket
<1>8. Told(InitMarket, ix)
  BY <1>6, <1>7 DEF Told
<1>. QED
  BY <1>4, <1>8 DEF ix

-------------------------------------------------------------------------------
(* The steps.                                                              *)

LEMMA InitialIndexing == Init => SettingsTold /\ index.halted = FALSE
<1>1. SUFFICES ASSUME Init PROVE SettingsTold /\ index.halted = FALSE
  OBVIOUS
<1>2. /\ market = InitMarket /\ flash = <<>> /\ sealed = FALSE
      /\ index = InitialIndex(InitMarket)
  BY <1>1 DEF Init
<1>3. index.halted = FALSE
  BY <1>2, InitialTables
<1>. QED
  BY <1>2, <1>3, InitialMarket, InitialStore DEF SettingsTold, LoanUndoable

\* A call tells of what it changes.
LEMMA CallSteps ==
    ASSUME SettingsTold, ~sealed, Follows(market, market'), UNCHANGED <<index, flash, sealed>>
    PROVE  SettingsTold'
<1>1. IsMarket(market') /\ Told(market', index)
  BY FollowedTold DEF SettingsTold
<1>2. LoanUndoable'
  BY Zenon DEF SettingsTold, LoanUndoable
<1>. QED
  BY <1>1, <1>2 DEF SettingsTold

LEMMA LoanSteps ==
    ASSUME SettingsTold, FlashLoanEnd \/ FlashLoanRevert, UNCHANGED index
    PROVE  SettingsTold' /\ ~sealed
<1>1. flash # <<>>
  BY DEF FlashLoanEnd, FlashLoanRevert
<1>2. PICK loan : /\ flash = <<loan>> /\ ~sealed
                  /\ loan.initiator \in Users /\ loan.asset \in Assets
                  /\ IsMarket(loan.before) /\ Told(loan.before, index)
  BY <1>1, Zenon DEF SettingsTold, LoanUndoable
<1>3. IsMarket(market') /\ Told(market', index) /\ flash' = <<>> /\ sealed' = sealed
  <2>1. CASE FlashLoanEnd
    BY <1>2, <2>1, LoanEndFollows, FollowedTold DEF SettingsTold
  <2>2. CASE FlashLoanRevert
    BY <1>2, <2>2 DEF FlashLoanRevert
  <2>. QED
    BY <2>1, <2>2
<1>. QED
  BY <1>2, <1>3 DEF SettingsTold, LoanUndoable

LEMMA LoanStartSteps ==
    ASSUME SettingsTold, NEW u \in Users, NEW a \in Assets, FlashLoanStart(u, a), UNCHANGED index
    PROVE  SettingsTold' /\ ~sealed
<1>1. IsMarket(market') /\ Told(market', index) /\ ~sealed /\ sealed' = sealed
  BY LoanStartFollows, FollowedTold DEF SettingsTold
<1>2. PICK loan : /\ flash' = <<loan>> /\ loan.before = market
                  /\ loan.initiator = u /\ loan.asset = a
  BY LoanStartFollows
<1>3. LoanUndoable'
  BY <1>1, <1>2 DEF LoanUndoable, SettingsTold
<1>. QED
  BY <1>1, <1>3 DEF SettingsTold

\* Users call in open blocks only.
LEMMA OpenBlock ==
    ASSUME NEW u, NEW a,
           \/ SupplyCall(u, a) \/ WithdrawCall(u, a) \/ BorrowCall(u, a) \/ RepayCall(u, a)
           \/ RebalanceCall(u, a) \/ SwapCall(u, a) \/ CollateralCall(u, a) \/ TransferCall(u, a)
           \/ LiquidationCall(u, a) \/ MintUnbackedCall(u, a) \/ BackUnbackedCall(u, a)
           \/ ApproveDelegationCall(u, a)
    PROVE  ~sealed
<1>1. CASE SupplyCall(u, a) \/ WithdrawCall(u, a) \/ BorrowCall(u, a) \/ RepayCall(u, a)
  BY <1>1 DEF Call, SupplyCall, WithdrawCall, BorrowCall, RepayCall
<1>2. CASE RebalanceCall(u, a) \/ SwapCall(u, a) \/ CollateralCall(u, a) \/ TransferCall(u, a)
  BY <1>2 DEF Call, RebalanceCall, SwapCall, CollateralCall, TransferCall
<1>3. CASE LiquidationCall(u, a)
  BY <1>3 DEF Call, LiquidationCall
<1>4. CASE MintUnbackedCall(u, a) \/ BackUnbackedCall(u, a) \/ ApproveDelegationCall(u, a)
  BY <1>4 DEF Call, MintUnbackedCall, BackUnbackedCall, ApproveDelegationCall
<1>. QED
  BY <1>1, <1>2, <1>3, <1>4

\* Calls, loans and time: what is told of the settings stays told.
LEMMA MarketSteps ==
    ASSUME SettingsTold, PoolCall \/ BlockProduction \/ Tick, UNCHANGED index
    PROVE  SettingsTold' /\ ~sealed
<1>1. CASE \E u \in Users, a \in Assets :
             \/ SupplyCall(u, a) \/ WithdrawCall(u, a) \/ BorrowCall(u, a) \/ RepayCall(u, a)
             \/ RebalanceCall(u, a) \/ SwapCall(u, a) \/ CollateralCall(u, a)
             \/ TransferCall(u, a) \/ LiquidationCall(u, a) \/ MintUnbackedCall(u, a)
             \/ BackUnbackedCall(u, a) \/ ApproveDelegationCall(u, a)
  <2>1. Follows(market, market') /\ UNCHANGED <<flash, sealed>>
    BY <1>1, UserCallFollows
  <2>2. ~sealed
    BY <1>1, OpenBlock, Zenon
  <2>. QED
    BY <2>1, <2>2, CallSteps
<1>2. CASE \E u \in Users, a \in Assets : FlashLoanStart(u, a)
  BY <1>2, LoanStartSteps
<1>3. CASE \/ \E u \in Users : SetUserEModeCall(u)
           \/ \E a \in Assets : MintToTreasuryCall(a)
           \/ UpdateBridgeFeeCall
  <2>1. Follows(market, market') /\ UNCHANGED <<flash, sealed>>
    BY <1>3, OtherCallFollows
  <2>2. ~sealed
    BY <1>3, Zenon DEF Call, SetUserEModeCall, MintToTreasuryCall, UpdateBridgeFeeCall
  <2>. QED
    BY <2>1, <2>2, CallSteps
<1>4. CASE FlashLoanEnd \/ FlashLoanRevert
  BY <1>4, LoanSteps
<1>5. CASE SealBlock
  BY <1>5 DEF SealBlock, SettingsTold, LoanUndoable
<1>6. CASE Tick
  <2>1. Follows(market, market') /\ UNCHANGED <<flash, sealed>>
    BY <1>6, TickSilent, SilentFollows
  <2>2. ~sealed
    BY <1>6 DEF Tick
  <2>. QED
    BY <2>1, <2>2, CallSteps
<1>. QED
  BY <1>1, <1>2, <1>3, <1>4, <1>5, <1>6 DEF PoolCall, BlockProduction

LEMMA HaltKeeps ==
    ASSUME SettingsTold, index' = Halt(index), UNCHANGED <<market, flash, sealed>>
    PROVE  SettingsTold' /\ index'.pools = index.pools /\ index'.halted = TRUE
<1>1. /\ DOMAIN index' = DOMAIN index /\ index'.halted = TRUE
      /\ index'.contractToPool = index.contractToPool /\ index'.pools = index.pools
      /\ index'.userReserves = index.userReserves /\ index'.users = index.users
      /\ index'.allowances = index.allowances
  BY DEF SettingsTold, IsStore, Halt
<1>2. IsStore(index')
  BY <1>1 DEF SettingsTold, IsStore
<1>3. \A k : Shows(index', k) = Shows(index, k)
  BY <1>1 DEF Shows, CategoryShown, PositionShown, UserOf, Has
<1>4. \A m, k : Faithful(m, index', k) = Faithful(m, index, k)
  BY <1>3 DEF Faithful
<1>5. Told(market, index')
  BY <1>4 DEF Told, SettingsTold
<1>6. LoanUndoable'
  <2>1. \A m : Told(m, index') <=> Told(m, index)
    BY <1>4 DEF Told
  <2>. QED
    BY <2>1 DEF LoanUndoable, SettingsTold
<1>. QED
  BY <1>1, <1>2, <1>5, <1>6 DEF SettingsTold

\* An event sets what it announces, or stops the index.
LEMMA EventSteps ==
    ASSUME SettingsTold, IndexEvent
    PROVE  /\ SettingsTold' /\ ~index.halted
           /\ \/ ~index'.halted
              \/ /\ sealed' /\ event' = event /\ event.name = "BackUnbacked"
                 /\ index'.pools[Provider].bridgeProtocolFee = NotSet
<1>1. sealed /\ ~index.halted
  BY Zenon DEF IndexEvent, IndexTokenEvent, IndexPoolEvent, Index
<1>2. /\ IsMarket(market) /\ IsStore(index) /\ Told(market, index)
      /\ market.log # <<>> /\ flash = <<>>
  BY <1>1 DEF SettingsTold, LoanUndoable
<1>3. /\ IsLog(market.log) /\ Len(market.log) \in Nat \ {0}
      /\ Len(Tail(market.log)) = Len(market.log) - 1 /\ IsLog(Tail(market.log))
      /\ Head(market.log) = market.log[1] /\ DOMAIN market.log = 1..Len(market.log)
  BY <1>2, LogConsumed DEF IsMarket
<1>4. Fits(event)
  BY <1>2, <1>3 DEF IsMarket, event
<1>5. PICK n : Index(event.name, n) /\ Indexed(event, n)
  BY <1>2, <1>4, TokenEventSets, PoolEventSets DEF IndexEvent
<1>6. CASE n.halted
  <2>1. index' = Halt(index) /\ UNCHANGED <<market, flash, sealed>>
    BY <1>5, <1>6 DEF Index, marketVars
  <2>2. SettingsTold' /\ index'.pools = index.pools
    BY <2>1, HaltKeeps
  <2>3. event.name = "BackUnbacked" /\ index.pools[Provider].bridgeProtocolFee = NotSet
    BY <1>1, <1>2, <1>5, <1>6 DEF Indexed, Sets
  <2>. QED
    BY <1>1, <2>1, <2>2, <2>3 DEF event
<1>7. CASE ~n.halted
  <2>1. /\ index' = n /\ market' = [market EXCEPT !.log = Tail(@)]
        /\ sealed' = (Len(market.log) > 1) /\ flash' = flash
    BY <1>5, <1>7 DEF Index
  <2>2. Sets(index, n, Head(market.log))
    BY <1>5, <1>7 DEF Indexed, Halt, SettingsTold, IsStore, event
  <2>3. IsMarket(market') /\ Told(market', index')
    BY <1>2, <2>1, <2>2, ConsumedTold
  <2>4. IsStore(index') /\ index'.halted = index.halted
    BY <1>2, <2>1, <2>2 DEF Sets
  <2>5. sealed' \in BOOLEAN /\ (sealed' => market'.log # <<>>)
    <3>1. market'.log = Tail(market.log)
      BY <1>2, <2>1 DEF IsMarket, Shaped
    <3>2. Len(market.log) > 1 => Len(Tail(market.log)) # 0
      <4>. DEFINE before == Len(market.log)
                  after == Len(Tail(market.log))
      <4>1. before \in Nat /\ after = before - 1
        BY <1>3
      <4>. HIDE DEF before, after
      <4>2. before > 1 => after # 0
        BY <4>1
      <4>. QED
        BY <4>2 DEF before, after
    <3>3. Len(<<>>) = 0
      OBVIOUS
    <3>4. Len(market.log) > 1 => Tail(market.log) # <<>>
      BY <3>2, <3>3, Zenon
    <3>5. sealed' = (Len(market.log) > 1)
      BY <2>1
    <3>6. sealed' \in BOOLEAN
      BY <3>5
    <3>. QED
      BY <3>1, <3>4, <3>5, <3>6, Zenon
  <2>. QED
    BY <1>1, <1>2, <2>1, <2>3, <2>4, <2>5 DEF SettingsTold, LoanUndoable
<1>. QED
  BY <1>6, <1>7

-------------------------------------------------------------------------------
(* The theorems.                                                           *)

\* The index has stopped at most at a backing before the bridge fee was set, and then
\* nothing moves any more.
HaltsAtBacking ==
    index.halted =>
        /\ sealed /\ event.name = "BackUnbacked"
        /\ index.pools[Provider].bridgeProtocolFee = NotSet

LEMMA IndexingPreserved ==
    ASSUME SettingsTold, HaltsAtBacking, [Next]_vars
    PROVE  SettingsTold' /\ HaltsAtBacking'
<1>1. CASE (PoolCall \/ BlockProduction \/ Tick) /\ UNCHANGED indexVars
  <2>1. UNCHANGED index
    BY <1>1 DEF indexVars
  <2>2. SettingsTold' /\ ~sealed
    BY <1>1, <2>1, MarketSteps
  <2>. QED
    BY <2>1, <2>2 DEF HaltsAtBacking
<1>2. CASE IndexEvent
  <2>1. SettingsTold'
    BY <1>2, EventSteps
  <2>2. HaltsAtBacking'
    BY <1>2, EventSteps DEF HaltsAtBacking
  <2>. QED
    BY <2>1, <2>2
<1>3. CASE UNCHANGED vars
  BY <1>3 DEF vars, marketVars, indexVars, SettingsTold, LoanUndoable, HaltsAtBacking, event
<1>. QED
  BY <1>1, <1>2, <1>3 DEF Next

\* The settings are told, by the index or by the log, whoever calls, whenever blocks end
\* and loans are undone; and the index has stopped at most at a backing.
THEOREM IndexingIsInvariant == Spec => [](SettingsTold /\ HaltsAtBacking)
<1>1. Init => SettingsTold /\ HaltsAtBacking
  BY InitialIndexing DEF HaltsAtBacking
<1>2. SettingsTold /\ HaltsAtBacking /\ [Next]_vars => (SettingsTold /\ HaltsAtBacking)'
  BY IndexingPreserved
<1>. QED
  BY <1>1, <1>2, PTL DEF Spec

LEMMA SwitchesFollow ==
    ASSUME SettingsTold
    PROVE  SwitchesMirrored
<1>1. SUFFICES ASSUME CaughtUp
               PROVE  /\ \A u \in Users, a \in Assets :
                           Shown(u, a).usageAsCollateralEnabledOnUser
                             = market.position[u, a].collateral
                      /\ \A u \in Users : CategoryShown(index, u) = market.eMode[u]
                      /\ \A k \in DOMAIN market.allowance :
                           LET id == <<IF k[1] = "sToken" THEN "stable" ELSE "variable",
                                       k[2], k[3], k[4]>>
                           IN  market.allowance[k] =
                                 IF Has(index.allowances, id) THEN index.allowances[id] ELSE 0
  BY DEF SwitchesMirrored
<1>2. \A i \in 1..Len(market.log) : FALSE
  BY <1>1 DEF CaughtUp
<1>3. \A k \in Settings : Faithful(market, index, k)
  BY <1>2, Zenon DEF SettingsTold, Told
<1>4. ASSUME NEW u \in Users, NEW a \in Assets
      PROVE  Shown(u, a).usageAsCollateralEnabledOnUser = market.position[u, a].collateral
  <2>. DEFINE k == <<"collateral", u, a>>
  <2>1. k \in Settings /\ k[1] = "collateral" /\ k[2] = u /\ k[3] = a
    BY DEF Settings, Switches
  <2>2. Shows(index, k) = Setting(market, k)
    BY <1>3, <2>1 DEF Faithful
  <2>3. PositionShown(index, <<u, a, Provider>>) = Shown(u, a)
    BY DEF PositionShown, Shown
  <2>. HIDE DEF k
  <2>. QED
    BY <2>1, <2>2, <2>3 DEF Shows, Setting
<1>5. ASSUME NEW u \in Users PROVE CategoryShown(index, u) = market.eMode[u]
  <2>. DEFINE k == <<"eMode", u>>
  <2>1. k \in Settings /\ k[1] = "eMode" /\ k[2] = u
    BY DEF Settings, Categories
  <2>. HIDE DEF k
  <2>2. Shows(index, k) = CategoryShown(index, u) /\ Setting(market, k) = market.eMode[u]
    BY <2>1 DEF Shows, Setting
  <2>. QED
    BY <1>3, <2>1, <2>2 DEF Faithful
<1>6. ASSUME NEW k \in DOMAIN market.allowance
      PROVE  market.allowance[k] = IF Has(index.allowances, AllowanceId(k))
                                   THEN index.allowances[AllowanceId(k)] ELSE 0
  <2>1. k \in Allowances /\ k \in Settings
    BY DEF SettingsTold, IsMarket, Shaped, Settings
  <2>2. k[1] # "collateral" /\ k[1] # "eMode"
    BY <2>1 DEF Allowances
  <2>3. /\ Shows(index, k) = IF Has(index.allowances, AllowanceId(k))
                             THEN index.allowances[AllowanceId(k)] ELSE 0
        /\ Setting(market, k) = market.allowance[k]
    BY <2>2 DEF Shows, Setting
  <2>. QED
    BY <1>3, <2>1, <2>2, <2>3 DEF Faithful
<1>. QED
  BY <1>4, <1>5, <1>6 DEF AllowanceId

\* Once it has indexed the block, the index shows the collateral switch of every position,
\* the category of every user, none included, and every delegated allowance as in the pool,
\* although most of them change as a side effect of other calls.
THEOREM SwitchesAreMirrored == Spec => []SwitchesMirrored
<1>1. SettingsTold => SwitchesMirrored
  BY SwitchesFollow
<1>. QED
  BY <1>1, IndexingIsInvariant, PTL

\* Whatever is emitted, in whatever order, no handler of the market's events throws, but
\* handleBackUnbacked before the bridge fee was set.
THEOREM IndexStopsOnlyForBridgeFee == Spec => []StopsOnlyForBridgeFee
<1>1. HaltsAtBacking => StopsOnlyForBridgeFee
  BY DEF HaltsAtBacking, StopsOnlyForBridgeFee
<1>. QED
  BY <1>1, IndexingIsInvariant, PTL

-------------------------------------------------------------------------------
(* Amounts: the numbers a store keeps.                                     *)

Ids == Holders \X Assets \X {Provider}

Positions ==
    [scaledBTokenBalance : Int, scaledVariableDebt : Int, principalStableDebt : Int,
     usageAsCollateralEnabledOnUser : BOOLEAN]

Figures ==
    {"availableLiquidity", "totalScaledVariableDebt", "totalPrincipalStableDebt",
     "liquidityIndex", "variableBorrowIndex", "accruedToTreasury"}

ReserveFields == DOMAIN NewReserve

IsReserve(r) ==
    /\ DOMAIN r = ReserveFields
    /\ \A field \in Figures : r[field] \in Int

\* A store whose reserves are R and whose positions are P.
Keeping(ix, R, P) ==
    /\ IsStore(ix)
    /\ ix.pools[Provider].pool = Pool
    /\ \A t \in Tokens :
         t \in DOMAIN ix.subTokens /\ ix.subTokens[t].underlyingAssetAddress = t[2]
    /\ DOMAIN ix.reserves = Assets \X {Provider}
    /\ \A a \in Assets : ix.reserves[<<a, Provider>>] = R[a] /\ IsReserve(R[a])
    /\ DOMAIN R = Assets
    /\ DOMAIN ix.userReserves \subseteq Ids
    /\ ix.userReserves = [id \in DOMAIN ix.userReserves |-> ix.userReserves[id]]
    /\ \A id \in DOMAIN ix.userReserves : id[1] \in DOMAIN ix.users
    /\ \A id \in Ids : PositionShown(ix, id) = P[id]
    /\ P \in [Ids -> Positions]

LEMMA ReserveFigures ==
    /\ Figures \subseteq ReserveFields
    /\ IsReserve(NewReserve)
BY DEF Figures, ReserveFields, NewReserve, IsReserve

LEMMA NewPositionTyped == NewUserReserve \in Positions
BY DEF NewUserReserve, Positions

\* Whatever a step of a handler saves, it is neither a reserve nor a position.
Leaves(ix, jx) ==
    IsStore(ix) =>
      /\ jx.reserves = ix.reserves /\ jx.userReserves = ix.userReserves
      /\ jx.subTokens = ix.subTokens
      /\ jx.pools[Provider].pool = ix.pools[Provider].pool
      /\ DOMAIN ix.users \subseteq DOMAIN jx.users

LEMMA LeavesItself ==
    ASSUME NEW ix
    PROVE  Leaves(ix, ix)
BY DEF Leaves

LEMMA LeavesOn ==
    ASSUME NEW ix, NEW jx, NEW kx, Keeps(ix, jx), Leaves(ix, jx), Leaves(jx, kx)
    PROVE  Leaves(ix, kx)
BY DEF Leaves, Keeps

LEMMA LeftKeeping ==
    ASSUME NEW ix, NEW jx, IsStore(ix) => IsStore(jx), Leaves(ix, jx), NEW R, NEW P,
           Keeping(ix, R, P)
    PROVE  Keeping(jx, R, P)
<1>1. /\ IsStore(jx) /\ jx.reserves = ix.reserves /\ jx.userReserves = ix.userReserves
      /\ jx.subTokens = ix.subTokens
      /\ jx.pools[Provider].pool = ix.pools[Provider].pool
      /\ DOMAIN ix.users \subseteq DOMAIN jx.users
  BY DEF Keeping, Leaves
<1>2. \A id : PositionShown(jx, id) = PositionShown(ix, id)
  BY <1>1 DEF PositionShown, Has
<1>. QED
  BY <1>1, <1>2 DEF Keeping

LEMMA SaveLeaves ==
    ASSUME NEW ix, NEW id, NEW entity,
           NEW table \in {"users", "allowances", "priceOracles", "priceAssets"}
    PROVE  Leaves(ix, Save(ix, table, id, entity))
<1>. DEFINE jx == Save(ix, table, id, entity)
<1>1. SUFFICES ASSUME IsStore(ix) PROVE Leaves(ix, jx)
  BY DEF Leaves
<1>2. /\ jx.reserves = ix.reserves /\ jx.userReserves = ix.userReserves
      /\ jx.subTokens = ix.subTokens /\ jx.pools = ix.pools
      /\ jx.users = ix.users \/ jx.users = Put(ix.users, id, entity)
  BY <1>1 DEF Save, IsStore
<1>. HIDE DEF jx
<1>3. DOMAIN ix.users \subseteq DOMAIN jx.users
  BY <1>2 DEF Put
<1>. QED
  BY <1>2, <1>3 DEF Leaves

LEMMA RecordLeaves ==
    ASSUME NEW ix, NEW jx, Leaves(ix, jx), NEW schema, NEW assigned, Complete(schema, assigned)
    PROVE  Leaves(ix, Record(jx, schema, assigned))
BY DEF Record

LEMMA GetUserLeaves ==
    ASSUME NEW ix, NEW user
    PROVE  /\ Leaves(ix, getOrInitUser(ix, user))
           /\ IsStore(ix) => user \in DOMAIN getOrInitUser(ix, user).users
<1>1. CASE Has(ix.users, user)
  BY <1>1, LeavesItself DEF getOrInitUser, Has
<1>2. CASE ~Has(ix.users, user)
  <2>. DEFINE saved == Save(ix, "users", user, NewUser)
  <2>1. Leaves(ix, saved)
    BY SaveLeaves
  <2>2. getOrInitUser(ix, user) = saved
    BY <1>2, UserComplete DEF getOrInitUser, Create, Record
  <2>3. IsStore(ix) => user \in DOMAIN saved.users
    BY DEF Save, IsStore, Put
  <2>. QED
    BY <2>1, <2>2, <2>3
<1>. QED
  BY <1>1, <1>2

LEMMA GetPriceLeaves ==
    ASSUME NEW ix, NEW asset
    PROVE  Leaves(ix, getPriceOracleAsset(ix, asset))
<1>. DEFINE loaded == getOrInitPriceOracle(ix)
            saved == Save(loaded, "priceAssets", asset, NewPriceAsset)
<1>1. Keeps(ix, loaded)
  BY GetPriceOracleKeeps
<1>2. Leaves(ix, loaded)
  <2>1. Leaves(ix, Save(ix, "priceOracles", "1", NewPriceOracle))
    BY SaveLeaves
  <2>. QED
    BY <2>1, LeavesItself, AllFieldsComplete, RecordLeaves DEF getOrInitPriceOracle, Create
<1>3. getPriceOracleAsset(ix, asset) =
        IF Has(ix.priceAssets, asset) THEN ix
        ELSE Record(saved, PriceOracleAssetEntity, FieldsOf(PriceOracleAssetEntity))
  BY DEF getPriceOracleAsset, Create
<1>. HIDE DEF loaded
<1>4. Leaves(loaded, saved)
  BY SaveLeaves
<1>. HIDE DEF saved
<1>5. Leaves(ix, saved)
  BY <1>1, <1>2, <1>4, LeavesOn
<1>. QED
  BY <1>3, <1>5, LeavesItself, AllFieldsComplete, RecordLeaves

LEMMA GetReserveLeaves ==
    ASSUME NEW ix, NEW asset, NEW e
    PROVE  Leaves(ix, getOrInitReserve(ix, asset, e))
BY GetPriceLeaves, LeavesItself DEF getOrInitReserve

LEMMA GetPositionLeaves ==
    ASSUME NEW ix, NEW user, NEW asset, NEW e
    PROVE  Leaves(ix, getOrInitUserReserve(ix, user, asset, e))
<1>. DEFINE loaded == getOrInitReserve(ix, asset, e)
<1>1. Keeps(ix, loaded) /\ Leaves(ix, loaded)
  BY GetReserveKeeps, GetReserveLeaves
<1>2. getOrInitUserReserve(ix, user, asset, e) =
        IF Has(ix.userReserves, UserReserveId(ix, user, asset, e))
        THEN loaded ELSE getOrInitUser(loaded, user)
  BY DEF getOrInitUserReserve
<1>. HIDE DEF loaded
<1>3. Leaves(ix, getOrInitUser(loaded, user))
  BY <1>1, GetUserLeaves, LeavesOn
<1>. QED
  BY <1>1, <1>2, <1>3

-------------------------------------------------------------------------------
(* What a handler loads and saves.                                         *)

LEMMA ReserveLoaded ==
    ASSUME NEW ix, NEW R, NEW P, Keeping(ix, R, P), NEW e, e.address \in Emitters,
           NEW asset \in Assets
    PROVE  /\ getPoolByContract(ix, e) = Provider
           /\ ReserveId(ix, asset, e) = <<asset, Provider>>
           /\ ReserveOf(ix, asset, e) = R[asset] /\ IsReserve(R[asset])
           /\ getOrInitReserve(ix, asset, e) = ix
<1>1. getPoolByContract(ix, e) = Provider
  BY DEF Keeping, IsStore, getPoolByContract
<1>2. ReserveId(ix, asset, e) = <<asset, Provider>>
  BY <1>1 DEF ReserveId
<1>3. /\ Has(ix.reserves, <<asset, Provider>>) /\ ix.reserves[<<asset, Provider>>] = R[asset]
      /\ IsReserve(R[asset])
  BY DEF Keeping, Has
<1>4. /\ ReserveOf(ix, asset, e) = R[asset]
      /\ getOrInitReserve(ix, asset, e) = ix
  BY <1>2, <1>3, Zenon DEF ReserveOf, getOrInitReserve
<1>. QED
  BY <1>1, <1>2, <1>3, <1>4

LEMMA PositionInStore ==
    ASSUME NEW ix, NEW R, NEW P, Keeping(ix, R, P), NEW e, e.address \in Emitters,
           NEW asset \in Assets, NEW user \in Holders
    PROVE  /\ UserReserveId(ix, user, asset, e) = <<user, asset, Provider>>
           /\ UserReserveOf(ix, user, asset, e) = P[<<user, asset, Provider>>]
           /\ P[<<user, asset, Provider>>] \in Positions
           /\ <<user, asset, Provider>> \in Ids
<1>1. UserReserveId(ix, user, asset, e) = <<user, asset, Provider>>
  BY ReserveLoaded DEF UserReserveId
<1>2. <<user, asset, Provider>> \in Ids
  BY DEF Ids
<1>3. /\ PositionShown(ix, <<user, asset, Provider>>) = P[<<user, asset, Provider>>]
      /\ P[<<user, asset, Provider>>] \in Positions
  BY <1>2 DEF Keeping
<1>4. UserReserveOf(ix, user, asset, e) = PositionShown(ix, <<user, asset, Provider>>)
  BY <1>1 DEF UserReserveOf, PositionShown
<1>. QED
  BY <1>1, <1>2, <1>3, <1>4

LEMMA TokenAsset ==
    ASSUME NEW ix, NEW R, NEW P, Keeping(ix, R, P), NEW e, e.address \in Tokens
    PROVE  AssetOf(ix, e) = e.address[2]
BY DEF Keeping, AssetOf, getOrInitSubToken, Has

\* A reserve of which one figure is changed is one, and keeps the others.
LEMMA LiquidityChanged ==
    ASSUME NEW r, IsReserve(r), NEW x \in Int
    PROVE  /\ IsReserve([r EXCEPT !.availableLiquidity = x])
           /\ [r EXCEPT !.availableLiquidity = x].availableLiquidity = x
           /\ [r EXCEPT !.availableLiquidity = x].totalScaledVariableDebt
                 = r.totalScaledVariableDebt
           /\ [r EXCEPT !.availableLiquidity = x].accruedToTreasury = r.accruedToTreasury
BY ReserveFigures DEF IsReserve, Figures

LEMMA ScaledDebtChanged ==
    ASSUME NEW r, IsReserve(r), NEW x \in Int
    PROVE  /\ IsReserve([r EXCEPT !.totalScaledVariableDebt = x])
           /\ [r EXCEPT !.totalScaledVariableDebt = x].totalScaledVariableDebt = x
           /\ [r EXCEPT !.totalScaledVariableDebt = x].availableLiquidity = r.availableLiquidity
           /\ [r EXCEPT !.totalScaledVariableDebt = x].accruedToTreasury = r.accruedToTreasury
BY ReserveFigures DEF IsReserve, Figures

LEMMA AccruedChanged ==
    ASSUME NEW r, IsReserve(r), NEW x \in Int
    PROVE  /\ IsReserve([r EXCEPT !.accruedToTreasury = x])
           /\ [r EXCEPT !.accruedToTreasury = x].accruedToTreasury = x
           /\ [r EXCEPT !.accruedToTreasury = x].availableLiquidity = r.availableLiquidity
           /\ [r EXCEPT !.accruedToTreasury = x].totalScaledVariableDebt
                 = r.totalScaledVariableDebt
BY ReserveFigures DEF IsReserve, Figures

LEMMA RecordKeeping ==
    ASSUME NEW ix, NEW R, NEW P, Keeping(ix, R, P), NEW schema, NEW assigned,
           Complete(schema, assigned)
    PROVE  Keeping(Record(ix, schema, assigned), R, P)
BY DEF Record

LEMMA HistoriesKeeping ==
    ASSUME NEW ix, NEW R, NEW P, Keeping(ix, R, P)
    PROVE  /\ Keeping(saveUserReserveAHistory(ix), R, P)
           /\ Keeping(saveUserReserveVHistory(ix), R, P)
           /\ Keeping(saveUserReserveSHistory(ix), R, P)
BY HistoriesComplete, RecordKeeping DEF saveUserReserveAHistory, saveUserReserveVHistory,
                                        saveUserReserveSHistory

LEMMA KeptKeeping ==
    ASSUME NEW ix, NEW R, NEW P, Keeping(ix, R, P), NEW jx, Keeps(ix, jx), Leaves(ix, jx)
    PROVE  Keeping(jx, R, P)
BY LeftKeeping DEF Keeps

LEMMA GetUserKeeping ==
    ASSUME NEW ix, NEW R, NEW P, Keeping(ix, R, P), NEW user
    PROVE  Keeping(getOrInitUser(ix, user), R, P)
BY GetUserKeeps, GetUserLeaves, KeptKeeping

LEMMA GetPriceKeeping ==
    ASSUME NEW ix, NEW R, NEW P, Keeping(ix, R, P), NEW asset
    PROVE  Keeping(getPriceOracleAsset(ix, asset), R, P)
BY GetPriceKeeps, GetPriceLeaves, KeptKeeping

LEMMA GetReserveKeeping ==
    ASSUME NEW ix, NEW R, NEW P, Keeping(ix, R, P), NEW asset, NEW e
    PROVE  Keeping(getOrInitReserve(ix, asset, e), R, P)
BY GetReserveKeeps, GetReserveLeaves, KeptKeeping

LEMMA GetPositionKeeping ==
    ASSUME NEW ix, NEW R, NEW P, Keeping(ix, R, P), NEW user, NEW asset, NEW e
    PROVE  Keeping(getOrInitUserReserve(ix, user, asset, e), R, P)
BY GetPositionKeeps, GetPositionLeaves, KeptKeeping

LEMMA CountKeeping ==
    ASSUME NEW ix, NEW R, NEW P, Keeping(ix, R, P), NEW user, NEW counted, NEW change
    PROVE  Keeping(CountBorrowed(ix, user, counted, change), R, P)
<1>. DEFINE loaded == getOrInitUser(ix, user)
            entity == [UserOf(loaded, user) EXCEPT !.borrowedReservesCount = @ + change]
            saved == Save(loaded, "users", user, entity)
<1>1. CountBorrowed(ix, user, counted, change) = IF counted THEN saved ELSE loaded
  BY DEF CountBorrowed
<1>2. Keeps(ix, loaded) /\ Leaves(ix, loaded)
  BY GetUserKeeps, GetUserLeaves
<1>. HIDE DEF loaded, entity
<1>3. Leaves(loaded, saved)
  BY SaveLeaves
<1>. HIDE DEF saved
<1>4. Leaves(ix, saved)
  BY <1>2, <1>3, LeavesOn
<1>5. Keeps(ix, CountBorrowed(ix, user, counted, change))
  BY KeepsItself, CountBorrowedKeeps
<1>6. Leaves(ix, CountBorrowed(ix, user, counted, change))
  BY <1>1, <1>2, <1>4
<1>. QED
  BY <1>5, <1>6, KeptKeeping

LEMMA SaveReserveKeeping ==
    ASSUME NEW ix, NEW R, NEW P, Keeping(ix, R, P), NEW e, e.address \in Emitters,
           NEW asset \in Assets, NEW reserve, IsReserve(reserve)
    PROVE  Keeping(SaveReserve(ix, asset, e, reserve), [R EXCEPT ![asset] = reserve], P)
<1>. DEFINE jx == SaveReserve(ix, asset, e, reserve)
            S == [R EXCEPT ![asset] = reserve]
<1>1. jx = Save(ix, "reserves", <<asset, Provider>>, reserve)
  <2>1. getOrInitReserve(ix, asset, e) = ix /\ ReserveId(ix, asset, e) = <<asset, Provider>>
    BY ReserveLoaded
  <2>. QED
    BY <2>1, ReserveComplete DEF SaveReserve, Create, Record
<1>2. IsStore(ix) /\ IsStore(jx)
  BY SaveReserveKeeps DEF Keeps, Keeping
<1>3. /\ jx.reserves = Put(ix.reserves, <<asset, Provider>>, reserve)
      /\ jx.userReserves = ix.userReserves /\ jx.subTokens = ix.subTokens
      /\ jx.pools = ix.pools /\ jx.users = ix.users
  BY <1>1, <1>2 DEF Save, IsStore
<1>. HIDE DEF jx
<1>4. /\ DOMAIN ix.reserves = Assets \X {Provider} /\ DOMAIN R = Assets
      /\ \A a \in Assets : ix.reserves[<<a, Provider>>] = R[a] /\ IsReserve(R[a])
  BY DEF Keeping
<1>5. /\ DOMAIN jx.reserves = Assets \X {Provider}
      /\ \A a \in Assets : jx.reserves[<<a, Provider>>]
                             = IF a = asset THEN reserve ELSE ix.reserves[<<a, Provider>>]
  BY <1>3, <1>4 DEF Put
<1>6. DOMAIN S = Assets /\ \A a \in Assets : S[a] = IF a = asset THEN reserve ELSE R[a]
  BY <1>4
<1>. HIDE DEF S
<1>7. \A a \in Assets : jx.reserves[<<a, Provider>>] = S[a] /\ IsReserve(S[a])
  BY <1>4, <1>5, <1>6
<1>8. /\ jx.pools[Provider].pool = Pool
      /\ \A t \in Tokens :
           t \in DOMAIN jx.subTokens /\ jx.subTokens[t].underlyingAssetAddress = t[2]
      /\ DOMAIN jx.userReserves \subseteq Ids
      /\ jx.userReserves = [id \in DOMAIN jx.userReserves |-> jx.userReserves[id]]
      /\ \A id \in DOMAIN jx.userReserves : id[1] \in DOMAIN jx.users
      /\ \A id \in Ids : PositionShown(ix, id) = P[id]
      /\ P \in [Ids -> Positions]
  BY <1>3 DEF Keeping
<1>9. \A id : PositionShown(jx, id) = PositionShown(ix, id)
  BY <1>3 DEF PositionShown, Has
<1>10. Keeping(jx, S, P)
  BY <1>2, <1>5, <1>6, <1>7, <1>8, <1>9 DEF Keeping
<1>. QED
  BY <1>10 DEF S, jx

LEMMA ReserveSavedKeeping ==
    ASSUME NEW ix, NEW R, NEW P, Keeping(ix, R, P), NEW e, e.address \in Emitters,
           NEW asset \in Assets, NEW reserve, IsReserve(reserve)
    PROVE  Keeping(saveReserve(ix, asset, e, reserve), [R EXCEPT ![asset] = reserve], P)
<1>1. Keeping(SaveReserve(ix, asset, e, reserve), [R EXCEPT ![asset] = reserve], P)
  BY SaveReserveKeeping
<1>2. Keeping(getPriceOracleAsset(SaveReserve(ix, asset, e, reserve), asset),
              [R EXCEPT ![asset] = reserve], P)
  BY <1>1, GetPriceKeeping
<1>. QED
  BY <1>2, ParamsComplete, RecordKeeping DEF saveReserve

\* The reserve is saved as it was.
LEMMA ReserveResaved ==
    ASSUME NEW ix, NEW R, NEW P, Keeping(ix, R, P), NEW e, e.address \in Emitters,
           NEW asset \in Assets
    PROVE  /\ Keeping(Resave(ix, asset, e), R, P)
           /\ Keeping(saveReserve(ix, asset, e, ReserveOf(ix, asset, e)), R, P)
<1>2. ReserveOf(ix, asset, e) = R[asset] /\ IsReserve(R[asset])
  BY ReserveLoaded
<1>. DEFINE S == [R EXCEPT ![asset] = R[asset]]
<1>3. Keeping(Resave(ix, asset, e), S, P)
  BY <1>2, SaveReserveKeeping DEF Resave
<1>4. Keeping(saveReserve(ix, asset, e, ReserveOf(ix, asset, e)), S, P)
  BY <1>2, ReserveSavedKeeping
<1>5. DOMAIN R = Assets
  BY DEF Keeping
<1>6. DOMAIN S = Assets /\ \A a \in Assets : S[a] = R[a]
  BY <1>5
<1>. HIDE DEF S
<1>7. ASSUME NEW jx, Keeping(jx, S, P) PROVE Keeping(jx, R, P)
  BY <1>5, <1>6, <1>7 DEF Keeping
<1>. QED
  BY <1>3, <1>4, <1>7

LEMMA PositionPutKeeping ==
    ASSUME NEW ix, NEW R, NEW P, Keeping(ix, R, P), NEW id \in Ids, NEW position \in Positions,
           id[1] \in DOMAIN ix.users
    PROVE  Keeping(Save(ix, "userReserves", id, position), R, [P EXCEPT ![id] = position])
<1>. DEFINE jx == Save(ix, "userReserves", id, position)
            Q == [P EXCEPT ![id] = position]
<1>1. IsStore(ix)
  BY DEF Keeping
<1>2. /\ DOMAIN jx = DOMAIN ix
      /\ jx.contractToPool = ix.contractToPool
      /\ jx.reserves = ix.reserves /\ jx.subTokens = ix.subTokens
      /\ jx.pools = ix.pools /\ jx.users = ix.users
      /\ jx.userReserves = Put(ix.userReserves, id, position)
  BY <1>1 DEF Save, IsStore
<1>. HIDE DEF jx
<1>3. /\ DOMAIN jx.userReserves = DOMAIN ix.userReserves \cup {id}
      /\ jx.userReserves[id] = position
      /\ \A i \in DOMAIN ix.userReserves : i # id => jx.userReserves[i] = ix.userReserves[i]
      /\ jx.userReserves = [i \in DOMAIN jx.userReserves |-> jx.userReserves[i]]
  BY <1>2 DEF Put
<1>4. IsStore(jx)
  <2>1. DOMAIN position = PositionFieldNames
    BY DEF Positions, PositionFieldNames
  <2>. QED
    BY <1>1, <1>2, <1>3, <2>1 DEF IsStore
<1>5. /\ P \in [Ids -> Positions] /\ \A i \in Ids : PositionShown(ix, i) = P[i]
      /\ DOMAIN ix.userReserves \subseteq Ids
      /\ \A i \in DOMAIN ix.userReserves : i[1] \in DOMAIN ix.users
  BY DEF Keeping
<1>6. /\ Q \in [Ids -> Positions]
      /\ \A i \in Ids : Q[i] = IF i = id THEN position ELSE P[i]
  BY <1>5
<1>. HIDE DEF Q
<1>7. \A i \in Ids : PositionShown(jx, i) = Q[i]
  BY <1>3, <1>5, <1>6 DEF PositionShown, Has
<1>8. /\ jx.pools[Provider].pool = Pool
      /\ \A t \in Tokens :
           t \in DOMAIN jx.subTokens /\ jx.subTokens[t].underlyingAssetAddress = t[2]
      /\ DOMAIN jx.reserves = Assets \X {Provider}
      /\ \A a \in Assets : jx.reserves[<<a, Provider>>] = R[a] /\ IsReserve(R[a])
      /\ DOMAIN R = Assets
  BY <1>2 DEF Keeping
<1>9. Keeping(jx, R, Q)
  BY <1>2, <1>3, <1>4, <1>5, <1>6, <1>7, <1>8 DEF Keeping
<1>. QED
  BY <1>9 DEF jx, Q

LEMMA SavePositionKeeping ==
    ASSUME NEW ix, NEW R, NEW P, Keeping(ix, R, P), NEW e, e.address \in Emitters,
           NEW asset \in Assets, NEW user \in Holders, NEW position \in Positions
    PROVE  Keeping(SaveUserReserve(ix, user, asset, e, position), R,
                   [P EXCEPT ![<<user, asset, Provider>>] = position])
<1>. DEFINE loaded == getOrInitUserReserve(ix, user, asset, e)
            id == <<user, asset, Provider>>
            saved == Save(loaded, "userReserves", id, position)
<1>1. Keeping(loaded, R, P)
  BY GetPositionKeeping
<1>2. /\ UserReserveId(ix, user, asset, e) = id /\ getOrInitReserve(ix, asset, e) = ix
      /\ id \in Ids /\ id[1] = user
  BY ReserveLoaded, PositionInStore
<1>3. SaveUserReserve(ix, user, asset, e, position)
        = Record(saved, UserReserveEntity, FieldsOf(UserReserveEntity))
  BY <1>2 DEF SaveUserReserve, Create
<1>4. user \in DOMAIN loaded.users
  <2>1. loaded = IF Has(ix.userReserves, id) THEN ix ELSE getOrInitUser(ix, user)
    BY <1>2 DEF getOrInitUserReserve
  <2>2. CASE Has(ix.userReserves, id)
    BY <1>2, <2>1, <2>2 DEF Keeping, Has
  <2>3. CASE ~Has(ix.userReserves, id)
    BY <2>1, <2>3, GetUserLeaves DEF Keeping
  <2>. QED
    BY <2>2, <2>3
<1>. HIDE DEF loaded
<1>5. Keeping(saved, R, [P EXCEPT ![id] = position])
  <2>. HIDE DEF id
  <2>. QED
    BY <1>1, <1>2, <1>4, PositionPutKeeping
<1>. HIDE DEF saved
<1>. QED
  BY <1>3, <1>5, AllFieldsComplete, RecordKeeping

-------------------------------------------------------------------------------
(* What a handler makes of the numbers.                                    *)

LEMMA GraphRayDivInt ==
    ASSUME NEW x \in Int, NEW i \in Nat \ {0}
    PROVE  graphRayDiv(x, i) \in Int
<1>1. RAY \in Int
  BY MathAssumption
<1>2. i \div 2 \in Int
  BY DivBounds
<1>. DEFINE y == x * RAY + i \div 2
<1>3. y \in Int
  BY <1>1, <1>2
<1>4. graphRayDiv(x, i) = IF y >= 0 THEN y \div i ELSE -((-y) \div i)
  BY DEF graphRayDiv, Truncated
<1>. HIDE DEF y
<1>5. y \div i \in Int /\ (-y) \div i \in Int
  BY <1>3
<1>. QED
  BY <1>4, <1>5

\* Figures of the reserves change in one asset.
ReservesTurn(R, S, a, cash, scaled, accrued) ==
    \A b \in Assets :
       /\ S[b].availableLiquidity = R[b].availableLiquidity + (IF b = a THEN cash ELSE 0)
       /\ S[b].totalScaledVariableDebt
            = R[b].totalScaledVariableDebt + (IF b = a THEN scaled ELSE 0)
       /\ S[b].accruedToTreasury = IF b = a THEN accrued ELSE R[b].accruedToTreasury

\* Figures of the positions change in one position.
PositionsTurn(P, Q, u, a, supplied, variable, stable) ==
    \A id \in Ids :
       /\ Q[id].scaledBTokenBalance
            = P[id].scaledBTokenBalance + (IF id = <<u, a, Provider>> THEN supplied ELSE 0)
       /\ Q[id].scaledVariableDebt
            = P[id].scaledVariableDebt + (IF id = <<u, a, Provider>> THEN variable ELSE 0)
       /\ Q[id].principalStableDebt
            = P[id].principalStableDebt + (IF id = <<u, a, Provider>> THEN stable ELSE 0)

LEMMA FigureInt ==
    ASSUME NEW ix, NEW R, NEW P, Keeping(ix, R, P), NEW b \in Assets
    PROVE  /\ R[b].availableLiquidity \in Int /\ R[b].totalScaledVariableDebt \in Int
           /\ R[b].totalPrincipalStableDebt \in Int /\ R[b].accruedToTreasury \in Int
BY DEF Keeping, IsReserve, Figures

LEMMA PositionInt ==
    ASSUME NEW ix, NEW R, NEW P, Keeping(ix, R, P), NEW id \in Ids
    PROVE  /\ P[id].scaledBTokenBalance \in Int /\ P[id].scaledVariableDebt \in Int
           /\ P[id].principalStableDebt \in Int
BY DEF Keeping, Positions

LEMMA ReserveTurned ==
    ASSUME NEW ix, NEW R, NEW P, Keeping(ix, R, P), NEW a \in Assets,
           NEW cash, NEW scaled, NEW accrued, NEW s,
           s.availableLiquidity = R[a].availableLiquidity + cash,
           s.totalScaledVariableDebt = R[a].totalScaledVariableDebt + scaled,
           s.accruedToTreasury = accrued
    PROVE  ReservesTurn(R, [R EXCEPT ![a] = s], a, cash, scaled, accrued)
<1>. DEFINE S == [R EXCEPT ![a] = s]
<1>1. DOMAIN R = Assets
  BY DEF Keeping
<1>2. \A b \in Assets : S[b] = IF b = a THEN s ELSE R[b]
  BY <1>1
<1>. HIDE DEF S
<1>3. ASSUME NEW b \in Assets
      PROVE  /\ S[b].availableLiquidity = R[b].availableLiquidity + (IF b = a THEN cash ELSE 0)
             /\ S[b].totalScaledVariableDebt
                  = R[b].totalScaledVariableDebt + (IF b = a THEN scaled ELSE 0)
             /\ S[b].accruedToTreasury = IF b = a THEN accrued ELSE R[b].accruedToTreasury
  <2>1. CASE b = a
    BY <1>2, <2>1
  <2>2. CASE b # a
    <3>1. S[b] = R[b]
      BY <1>2, <2>2
    <3>. QED
      BY <2>2, <3>1, FigureInt
  <2>. QED
    BY <2>1, <2>2
<1>4. ReservesTurn(R, S, a, cash, scaled, accrued)
  BY <1>3 DEF ReservesTurn
<1>. QED
  BY <1>4 DEF S

LEMMA PositionTurned ==
    ASSUME NEW ix, NEW R, NEW P, Keeping(ix, R, P), NEW u \in Holders, NEW a \in Assets,
           NEW supplied, NEW variable, NEW stable, NEW q,
           q.scaledBTokenBalance = P[<<u, a, Provider>>].scaledBTokenBalance + supplied,
           q.scaledVariableDebt = P[<<u, a, Provider>>].scaledVariableDebt + variable,
           q.principalStableDebt = P[<<u, a, Provider>>].principalStableDebt + stable
    PROVE  PositionsTurn(P, [P EXCEPT ![<<u, a, Provider>>] = q], u, a,
                         supplied, variable, stable)
<1>. DEFINE at == <<u, a, Provider>>
            Q == [P EXCEPT ![at] = q]
<1>1. DOMAIN P = Ids
  BY DEF Keeping
<1>2. \A id \in Ids : Q[id] = IF id = at THEN q ELSE P[id]
  BY <1>1
<1>. HIDE DEF Q
<1>3. ASSUME NEW id \in Ids
      PROVE  /\ Q[id].scaledBTokenBalance
                  = P[id].scaledBTokenBalance + (IF id = at THEN supplied ELSE 0)
             /\ Q[id].scaledVariableDebt
                  = P[id].scaledVariableDebt + (IF id = at THEN variable ELSE 0)
             /\ Q[id].principalStableDebt
                  = P[id].principalStableDebt + (IF id = at THEN stable ELSE 0)
  <2>1. CASE id = at
    BY <1>2, <2>1
  <2>2. CASE id # at
    <3>1. Q[id] = P[id]
      BY <1>2, <2>2
    <3>. QED
      BY <2>2, <3>1, PositionInt
  <2>. QED
    BY <2>1, <2>2
<1>4. PositionsTurn(P, Q, u, a, supplied, variable, stable)
  BY <1>3 DEF PositionsTurn
<1>. QED
  BY <1>4 DEF Q

LEMMA PositionsStay ==
    ASSUME NEW ix, NEW R, NEW P, Keeping(ix, R, P), NEW u, NEW a
    PROVE  PositionsTurn(P, P, u, a, 0, 0, 0)
BY PositionInt DEF PositionsTurn

LEMMA ReservesStay ==
    ASSUME NEW ix, NEW R, NEW P, Keeping(ix, R, P), NEW a
    PROVE  ReservesTurn(R, R, a, 0, 0, R[a].accruedToTreasury)
BY FigureInt DEF ReservesTurn

Turned(nx, R, P, u, a, cash, scaled, accrued, supplied, variable, stable) ==
    \E S, Q : /\ Keeping(nx, S, Q)
              /\ ReservesTurn(R, S, a, cash, scaled, accrued)
              /\ PositionsTurn(P, Q, u, a, supplied, variable, stable)

LEMMA StoreTurned ==
    ASSUME NEW ix, NEW R, NEW P, Keeping(ix, R, P), NEW u \in Holders, NEW a \in Assets,
           NEW cash, NEW scaled, NEW accrued, NEW s,
           NEW supplied, NEW variable, NEW stable, NEW q,
           s.availableLiquidity = R[a].availableLiquidity + cash,
           s.totalScaledVariableDebt = R[a].totalScaledVariableDebt + scaled,
           s.accruedToTreasury = accrued,
           q.scaledBTokenBalance = P[<<u, a, Provider>>].scaledBTokenBalance + supplied,
           q.scaledVariableDebt = P[<<u, a, Provider>>].scaledVariableDebt + variable,
           q.principalStableDebt = P[<<u, a, Provider>>].principalStableDebt + stable,
           NEW nx, Keeping(nx, [R EXCEPT ![a] = s], [P EXCEPT ![<<u, a, Provider>>] = q])
    PROVE  Turned(nx, R, P, u, a, cash, scaled, accrued, supplied, variable, stable)
<1>1. ReservesTurn(R, [R EXCEPT ![a] = s], a, cash, scaled, accrued)
  BY ReserveTurned
<1>2. PositionsTurn(P, [P EXCEPT ![<<u, a, Provider>>] = q], u, a, supplied, variable, stable)
  BY PositionTurned
<1>. QED
  BY <1>1, <1>2 DEF Turned

LEMMA TokenBurnTurns ==
    ASSUME NEW ix, NEW R, NEW P, Keeping(ix, R, P), NEW e, e.address \in {"bToken"} \X Assets,
           NEW u \in Holders, NEW value \in Int, NEW increase \in Int, e.index \in Nat \ {0},
           NEW a, a = e.address[2], NEW change, change = value + increase
    PROVE  Turned(tokenBurn(ix, e, u, value, increase), R, P, u, a,
                  -change, 0, R[a].accruedToTreasury, -graphRayDiv(change, e.index), 0, 0)
<1>. DEFINE g == graphRayDiv(change, e.index)
            id == <<u, a, Provider>>
            q == [P[id] EXCEPT !.scaledBTokenBalance = @ - g]
            s == [R[a] EXCEPT !.availableLiquidity = @ - change]
            loaded == getOrInitUserReserve(ix, u, a, e)
            saved == saveReserve(loaded, a, e, s)
            held == SaveUserReserve(saved, u, a, e, q)
<1>1. e.address \in Tokens /\ e.address \in Emitters /\ a \in Assets
  BY DEF Tokens, Emitters
<1>2. AssetOf(ix, e) = a
  BY <1>1, TokenAsset
<1>3. ReserveOf(ix, a, e) = R[a] /\ IsReserve(R[a])
  BY <1>1, ReserveLoaded
<1>4. UserReserveOf(ix, u, a, e) = P[id] /\ P[id] \in Positions
  BY <1>1, PositionInStore
<1>5. tokenBurn(ix, e, u, value, increase) = saveUserReserveAHistory(held)
  BY <1>2, <1>3, <1>4, Zenon DEF tokenBurn
<1>6. g \in Int /\ change \in Int
  BY GraphRayDivInt
<1>. HIDE DEF g
<1>7. /\ IsReserve(s)
      /\ s.availableLiquidity = R[a].availableLiquidity + (-change)
      /\ s.totalScaledVariableDebt = R[a].totalScaledVariableDebt + 0
      /\ s.accruedToTreasury = R[a].accruedToTreasury
  <2>. DEFINE x == R[a].availableLiquidity - change
  <2>1. x \in Int /\ x = R[a].availableLiquidity + (-change)
        /\ R[a].totalScaledVariableDebt = R[a].totalScaledVariableDebt + 0
    BY <1>1, <1>6, FigureInt
  <2>2. s = [R[a] EXCEPT !.availableLiquidity = x]
    OBVIOUS
  <2>. HIDE DEF x, s
  <2>3. /\ IsReserve([R[a] EXCEPT !.availableLiquidity = x])
        /\ [R[a] EXCEPT !.availableLiquidity = x].availableLiquidity = x
        /\ [R[a] EXCEPT !.availableLiquidity = x].totalScaledVariableDebt
             = R[a].totalScaledVariableDebt
        /\ [R[a] EXCEPT !.availableLiquidity = x].accruedToTreasury = R[a].accruedToTreasury
    BY <1>3, <2>1, LiquidityChanged
  <2>4. /\ IsReserve(s) /\ s.availableLiquidity = x
        /\ s.totalScaledVariableDebt = R[a].totalScaledVariableDebt
        /\ s.accruedToTreasury = R[a].accruedToTreasury
    BY <2>2, <2>3, Zenon
  <2>. QED
    BY <2>1, <2>4
<1>8. /\ q \in Positions
      /\ q.scaledBTokenBalance = P[id].scaledBTokenBalance + (-g)
      /\ q.scaledVariableDebt = P[id].scaledVariableDebt + 0
      /\ q.principalStableDebt = P[id].principalStableDebt + 0
  BY <1>4, <1>6 DEF Positions
<1>. HIDE DEF s, q
<1>9. Keeping(loaded, R, P)
  BY GetPositionKeeping
<1>. HIDE DEF loaded
<1>10. Keeping(saved, [R EXCEPT ![a] = s], P)
  BY <1>1, <1>7, <1>9, ReserveSavedKeeping
<1>. HIDE DEF saved
<1>11. Keeping(held, [R EXCEPT ![a] = s], [P EXCEPT ![id] = q])
  BY <1>1, <1>8, <1>10, SavePositionKeeping
<1>. HIDE DEF held
<1>12. Keeping(saveUserReserveAHistory(held), [R EXCEPT ![a] = s], [P EXCEPT ![id] = q])
  BY <1>11, HistoriesKeeping
<1>13. Turned(saveUserReserveAHistory(held), R, P, u, a,
              -change, 0, R[a].accruedToTreasury, -g, 0, 0)
  BY <1>1, <1>7, <1>8, <1>12, StoreTurned
<1>. QED
  BY <1>5, <1>13 DEF g

\* The treasury the mapping knows by address has no position.
LEMMA TokenMintTurns ==
    ASSUME NEW ix, NEW R, NEW P, Keeping(ix, R, P), NEW e, e.address \in {"bToken"} \X Assets,
           NEW u \in Holders, NEW value \in Int, NEW increase \in Int, e.index \in Nat \ {0},
           NEW a, a = e.address[2], NEW change, change = value - increase,
           NEW answers, answers.reserveData[a] # NotSet,
           NEW accrued \in Int, accrued = answers.reserveData[a].accruedToTreasury
    PROVE  /\ u \notin HardCodedTreasuries =>
                Turned(tokenMint(ix, e, answers, u, value, increase), R, P, u, a,
                       change, 0, accrued, graphRayDiv(change, e.index), 0, 0)
           /\ u \in HardCodedTreasuries =>
                Turned(tokenMint(ix, e, answers, u, value, increase), R, P, u, a,
                       0, 0, accrued, 0, 0, 0)
<1>. DEFINE g == graphRayDiv(change, e.index)
            id == <<u, a, Provider>>
            q == [P[id] EXCEPT !.scaledBTokenBalance = @ + g]
            r == [R[a] EXCEPT !.accruedToTreasury = accrued]
            s == [r EXCEPT !.availableLiquidity = @ + change]
            held == SaveUserReserve(ix, u, a, e, q)
            saved == saveReserve(held, a, e, s)
            known == saveReserve(ix, a, e, r)
<1>1. e.address \in Tokens /\ e.address \in Emitters /\ a \in Assets
  BY DEF Tokens, Emitters
<1>2. AssetOf(ix, e) = a
  BY <1>1, TokenAsset
<1>3. ReserveOf(ix, a, e) = R[a] /\ IsReserve(R[a]) /\ getPoolByContract(ix, e) = Provider
  BY <1>1, ReserveLoaded
<1>4. UserReserveOf(ix, u, a, e) = P[id] /\ P[id] \in Positions
  BY <1>1, PositionInStore
<1>5. Has(ix.pools, Provider) /\ ix.pools[Provider].pool # NotSet
  BY IndexingAssumption DEF Keeping, IsStore, Has
<1>6. tokenMint(ix, e, answers, u, value, increase)
        = IF u \in HardCodedTreasuries THEN known ELSE saveUserReserveAHistory(saved)
  <2>. DEFINE asset == AssetOf(ix, e)
              position == UserReserveOf(ix, u, asset, e)
              poolKnown == /\ Has(ix.pools, getPoolByContract(ix, e))
                           /\ ix.pools[getPoolByContract(ix, e)].pool # NotSet
              revenue == IF poolKnown /\ answers.reserveData[asset] # NotSet
                         THEN answers.reserveData[asset].accruedToTreasury
                         ELSE ReserveOf(ix, asset, e).accruedToTreasury
              reserve == [ReserveOf(ix, asset, e) EXCEPT !.accruedToTreasury = revenue]
              more == [position EXCEPT !.scaledBTokenBalance =
                          @ + graphRayDiv(value - increase, e.index)]
              liquid == [reserve EXCEPT !.availableLiquidity = @ + (value - increase)]
              with == SaveUserReserve(ix, u, asset, e, more)
  <2>1. tokenMint(ix, e, answers, u, value, increase)
          = IF u \in HardCodedTreasuries THEN saveReserve(ix, asset, e, reserve)
            ELSE saveUserReserveAHistory(saveReserve(with, asset, e, liquid))
    BY DEF tokenMint
  <2>2. asset = a /\ position = P[id] /\ ReserveOf(ix, asset, e) = R[a]
    BY <1>2, <1>3, <1>4
  <2>3. poolKnown /\ revenue = accrued
    BY <1>2, <1>3, <1>5
  <2>. HIDE DEF asset, position, revenue, poolKnown
  <2>4. reserve = r /\ more = q /\ liquid = s
    BY <2>2, <2>3
  <2>. HIDE DEF reserve, more, liquid, r, q, s
  <2>. QED
    BY <2>1, <2>2, <2>4
<1>7. g \in Int /\ change \in Int
  BY GraphRayDivInt
<1>. HIDE DEF g
<1>8. /\ IsReserve(r)
      /\ r.availableLiquidity = R[a].availableLiquidity + 0
      /\ r.totalScaledVariableDebt = R[a].totalScaledVariableDebt + 0
      /\ r.accruedToTreasury = accrued
  <2>1. /\ R[a].totalScaledVariableDebt = R[a].totalScaledVariableDebt + 0
        /\ R[a].availableLiquidity = R[a].availableLiquidity + 0
    BY <1>1, FigureInt
  <2>2. r = [R[a] EXCEPT !.accruedToTreasury = accrued]
    OBVIOUS
  <2>. HIDE DEF r
  <2>3. /\ IsReserve([R[a] EXCEPT !.accruedToTreasury = accrued])
        /\ [R[a] EXCEPT !.accruedToTreasury = accrued].availableLiquidity = R[a].availableLiquidity
        /\ [R[a] EXCEPT !.accruedToTreasury = accrued].totalScaledVariableDebt
             = R[a].totalScaledVariableDebt
        /\ [R[a] EXCEPT !.accruedToTreasury = accrued].accruedToTreasury = accrued
    BY <1>3, AccruedChanged
  <2>4. /\ IsReserve(r)
        /\ r.availableLiquidity = R[a].availableLiquidity
        /\ r.totalScaledVariableDebt = R[a].totalScaledVariableDebt
        /\ r.accruedToTreasury = accrued
    BY <2>2, <2>3, Zenon
  <2>. QED
    BY <2>1, <2>4
<1>9. /\ IsReserve(s)
      /\ s.availableLiquidity = R[a].availableLiquidity + change
      /\ s.totalScaledVariableDebt = R[a].totalScaledVariableDebt + 0
      /\ s.accruedToTreasury = accrued
  <2>. HIDE DEF r
  <2>. DEFINE x == r.availableLiquidity + change
  <2>1. x \in Int /\ x = R[a].availableLiquidity + change
    BY <1>1, <1>7, <1>8, FigureInt
  <2>2. s = [r EXCEPT !.availableLiquidity = x]
    OBVIOUS
  <2>. HIDE DEF x, s
  <2>3. /\ IsReserve([r EXCEPT !.availableLiquidity = x])
        /\ [r EXCEPT !.availableLiquidity = x].availableLiquidity = x
        /\ [r EXCEPT !.availableLiquidity = x].totalScaledVariableDebt = r.totalScaledVariableDebt
        /\ [r EXCEPT !.availableLiquidity = x].accruedToTreasury = r.accruedToTreasury
    BY <1>8, <2>1, LiquidityChanged
  <2>4. /\ IsReserve(s)
        /\ s.availableLiquidity = x
        /\ s.totalScaledVariableDebt = r.totalScaledVariableDebt
        /\ s.accruedToTreasury = r.accruedToTreasury
    BY <2>2, <2>3, Zenon
  <2>. QED
    BY <1>8, <2>1, <2>4
<1>10. /\ q \in Positions
       /\ q.scaledBTokenBalance = P[id].scaledBTokenBalance + g
       /\ q.scaledVariableDebt = P[id].scaledVariableDebt + 0
       /\ q.principalStableDebt = P[id].principalStableDebt + 0
  BY <1>4, <1>7 DEF Positions
<1>. HIDE DEF r, s, q
<1>11. Keeping(held, R, [P EXCEPT ![id] = q])
  BY <1>1, <1>10, SavePositionKeeping
<1>. HIDE DEF held
<1>12. Keeping(saved, [R EXCEPT ![a] = s], [P EXCEPT ![id] = q])
  BY <1>1, <1>9, <1>11, ReserveSavedKeeping
<1>. HIDE DEF saved
<1>13. Keeping(saveUserReserveAHistory(saved), [R EXCEPT ![a] = s], [P EXCEPT ![id] = q])
  BY <1>12, HistoriesKeeping
<1>14. Turned(saveUserReserveAHistory(saved), R, P, u, a, change, 0, accrued, g, 0, 0)
  BY <1>1, <1>9, <1>10, <1>13, StoreTurned
<1>15. Keeping(known, [R EXCEPT ![a] = r], P)
  BY <1>1, <1>8, ReserveSavedKeeping
<1>. HIDE DEF known
<1>16. Turned(known, R, P, u, a, 0, 0, accrued, 0, 0, 0)
  <2>1. ReservesTurn(R, [R EXCEPT ![a] = r], a, 0, 0, accrued)
    BY <1>1, <1>8, ReserveTurned
  <2>2. PositionsTurn(P, P, u, a, 0, 0, 0)
    BY PositionsStay
  <2>. QED
    BY <1>15, <2>1, <2>2 DEF Turned
<1>17. u \notin HardCodedTreasuries =>
         Turned(tokenMint(ix, e, answers, u, value, increase), R, P, u, a,
                change, 0, accrued, g, 0, 0)
  BY <1>6, <1>14
<1>18. u \in HardCodedTreasuries =>
         Turned(tokenMint(ix, e, answers, u, value, increase), R, P, u, a,
                0, 0, accrued, 0, 0, 0)
  BY <1>6, <1>16
<1>. QED
  BY <1>17, <1>18 DEF g

LEMMA VariableBurnTurns ==
    ASSUME NEW ix, NEW R, NEW P, Keeping(ix, R, P), NEW e, e.address \in {"vToken"} \X Assets,
           NEW u \in Holders, e.from = u, e.value \in Int, e.balanceIncrease \in Int,
           e.index \in Nat \ {0},
           NEW a, a = e.address[2], NEW change, change = e.value + e.balanceIncrease
    PROVE  Turned(handleVariableTokenBurn(ix, e), R, P, u, a,
                  change, -graphRayDiv(change, e.index), R[a].accruedToTreasury,
                  0, -graphRayDiv(change, e.index), 0)
<1>. DEFINE g == graphRayDiv(change, e.index)
            id == <<u, a, Provider>>
            q == [P[id] EXCEPT !.scaledVariableDebt = @ - g]
            s == [R[a] EXCEPT !.totalScaledVariableDebt = @ - g,
                              !.availableLiquidity = @ + change]
            held == SaveUserReserve(ix, u, a, e, q)
            saved == saveReserve(held, a, e, s)
            counted == CountBorrowed(saved, u, HasNoDebt(q), -1)
<1>1. e.address \in Tokens /\ e.address \in Emitters /\ a \in Assets
  BY DEF Tokens, Emitters
<1>2. AssetOf(ix, e) = a /\ Has(ix.contractToPool, e.address)
  BY <1>1, TokenAsset DEF Keeping, IsStore, Has
<1>3. ReserveOf(ix, a, e) = R[a] /\ IsReserve(R[a])
  BY <1>1, ReserveLoaded
<1>4. UserReserveOf(ix, u, a, e) = P[id] /\ P[id] \in Positions
  BY <1>1, PositionInStore
<1>5. handleVariableTokenBurn(ix, e) = saveUserReserveVHistory(counted)
  BY <1>2, <1>3, <1>4, Zenon DEF handleVariableTokenBurn, InPool
<1>6. g \in Int /\ change \in Int
  BY GraphRayDivInt
<1>. HIDE DEF g
<1>7. /\ IsReserve(s)
      /\ s.availableLiquidity = R[a].availableLiquidity + change
      /\ s.totalScaledVariableDebt = R[a].totalScaledVariableDebt + (-g)
      /\ s.accruedToTreasury = R[a].accruedToTreasury
  <2>. DEFINE x == R[a].totalScaledVariableDebt - g
              r == [R[a] EXCEPT !.totalScaledVariableDebt = x]
              y == R[a].availableLiquidity + change
  <2>1. /\ x \in Int /\ x = R[a].totalScaledVariableDebt + (-g) /\ y \in Int
        /\ R[a].availableLiquidity \in Int
    BY <1>1, <1>6, FigureInt
  <2>2. s = [r EXCEPT !.availableLiquidity = y]
    BY <1>3, ReserveFigures DEF IsReserve, Figures
  <2>. HIDE DEF x, y, s
  <2>3. /\ IsReserve(r)
        /\ r.availableLiquidity = R[a].availableLiquidity
        /\ r.totalScaledVariableDebt = x
        /\ r.accruedToTreasury = R[a].accruedToTreasury
    BY <1>3, <2>1, ScaledDebtChanged
  <2>. HIDE DEF r
  <2>4. /\ IsReserve([r EXCEPT !.availableLiquidity = y])
        /\ [r EXCEPT !.availableLiquidity = y].availableLiquidity = y
        /\ [r EXCEPT !.availableLiquidity = y].totalScaledVariableDebt = r.totalScaledVariableDebt
        /\ [r EXCEPT !.availableLiquidity = y].accruedToTreasury = r.accruedToTreasury
    BY <2>1, <2>3, LiquidityChanged
  <2>5. /\ IsReserve(s)
        /\ s.availableLiquidity = y
        /\ s.totalScaledVariableDebt = r.totalScaledVariableDebt
        /\ s.accruedToTreasury = r.accruedToTreasury
    BY <2>2, <2>4, Zenon
  <2>. QED
    BY <2>1, <2>3, <2>5 DEF y
<1>8. /\ q \in Positions
      /\ q.scaledBTokenBalance = P[id].scaledBTokenBalance + 0
      /\ q.scaledVariableDebt = P[id].scaledVariableDebt + (-g)
      /\ q.principalStableDebt = P[id].principalStableDebt + 0
  BY <1>4, <1>6 DEF Positions
<1>. HIDE DEF s, q
<1>9. Keeping(held, R, [P EXCEPT ![id] = q])
  BY <1>1, <1>8, SavePositionKeeping
<1>. HIDE DEF held
<1>10. Keeping(saved, [R EXCEPT ![a] = s], [P EXCEPT ![id] = q])
  BY <1>1, <1>7, <1>9, ReserveSavedKeeping
<1>. HIDE DEF saved
<1>11. Keeping(counted, [R EXCEPT ![a] = s], [P EXCEPT ![id] = q])
  BY <1>10, CountKeeping
<1>. HIDE DEF counted
<1>12. Keeping(saveUserReserveVHistory(counted), [R EXCEPT ![a] = s], [P EXCEPT ![id] = q])
  BY <1>11, HistoriesKeeping
<1>13. Turned(saveUserReserveVHistory(counted), R, P, u, a,
              change, -g, R[a].accruedToTreasury, 0, -g, 0)
  BY <1>1, <1>7, <1>8, <1>12, StoreTurned
<1>. QED
  BY <1>5, <1>13 DEF g

LEMMA VariableMintTurns ==
    ASSUME NEW ix, NEW R, NEW P, Keeping(ix, R, P), NEW e, e.address \in {"vToken"} \X Assets,
           NEW u \in Holders, e.onBehalfOf = u, e.value \in Int, e.balanceIncrease \in Int,
           e.index \in Nat \ {0},
           NEW a, a = e.address[2], NEW change, change = e.value - e.balanceIncrease
    PROVE  Turned(handleVariableTokenMint(ix, e), R, P, u, a,
                  -change, graphRayDiv(change, e.index), R[a].accruedToTreasury,
                  0, graphRayDiv(change, e.index), 0)
<1>. DEFINE g == graphRayDiv(change, e.index)
            id == <<u, a, Provider>>
            q == [P[id] EXCEPT !.scaledVariableDebt = @ + g]
            s == [R[a] EXCEPT !.totalScaledVariableDebt = @ + g,
                              !.availableLiquidity = @ - change]
            loaded == getOrInitUserReserve(ix, u, a, e)
            counted == CountBorrowed(loaded, u, HasNoDebt(P[id]), 1)
            held == SaveUserReserve(counted, u, a, e, q)
            saved == saveReserve(held, a, e, s)
<1>1. e.address \in Tokens /\ e.address \in Emitters /\ a \in Assets
  BY DEF Tokens, Emitters
<1>2. AssetOf(ix, e) = a /\ Has(ix.contractToPool, e.address)
  BY <1>1, TokenAsset DEF Keeping, IsStore, Has
<1>3. ReserveOf(ix, a, e) = R[a] /\ IsReserve(R[a])
  BY <1>1, ReserveLoaded
<1>4. UserReserveOf(ix, u, a, e) = P[id] /\ P[id] \in Positions
  BY <1>1, PositionInStore
<1>5. handleVariableTokenMint(ix, e) = saveUserReserveVHistory(saved)
  BY <1>2, <1>3, <1>4, Zenon DEF handleVariableTokenMint, InPool
<1>6. g \in Int /\ change \in Int
  BY GraphRayDivInt
<1>. HIDE DEF g
<1>7. /\ IsReserve(s)
      /\ s.availableLiquidity = R[a].availableLiquidity + (-change)
      /\ s.totalScaledVariableDebt = R[a].totalScaledVariableDebt + g
      /\ s.accruedToTreasury = R[a].accruedToTreasury
  <2>. DEFINE x == R[a].totalScaledVariableDebt + g
              y == R[a].availableLiquidity - change
  <2>1. x \in Int /\ y \in Int /\ y = R[a].availableLiquidity + (-change)
    BY <1>1, <1>6, FigureInt
  <2>2. s = [R[a] EXCEPT !.totalScaledVariableDebt = x, !.availableLiquidity = y]
    BY <1>3, ReserveFigures DEF IsReserve, Figures
  <2>. HIDE DEF x, y, s
  <2>3. /\ IsReserve([R[a] EXCEPT !.totalScaledVariableDebt = x, !.availableLiquidity = y])
        /\ [R[a] EXCEPT !.totalScaledVariableDebt = x, !.availableLiquidity = y].availableLiquidity
             = y
        /\ [R[a] EXCEPT !.totalScaledVariableDebt = x,
                        !.availableLiquidity = y].totalScaledVariableDebt
             = x
        /\ [R[a] EXCEPT !.totalScaledVariableDebt = x, !.availableLiquidity = y].accruedToTreasury
             = R[a].accruedToTreasury
    BY <1>3, <2>1, ReserveFigures DEF IsReserve, Figures
  <2>4. /\ IsReserve(s)
        /\ s.availableLiquidity = y
        /\ s.totalScaledVariableDebt = x
        /\ s.accruedToTreasury = R[a].accruedToTreasury
    BY <2>2, <2>3, Zenon
  <2>. QED
    BY <2>1, <2>4 DEF x
<1>8. /\ q \in Positions
      /\ q.scaledBTokenBalance = P[id].scaledBTokenBalance + 0
      /\ q.scaledVariableDebt = P[id].scaledVariableDebt + g
      /\ q.principalStableDebt = P[id].principalStableDebt + 0
  BY <1>4, <1>6 DEF Positions
<1>. HIDE DEF s, q
<1>9. Keeping(counted, R, P)
  BY GetPositionKeeping, CountKeeping
<1>. HIDE DEF loaded, counted
<1>10. Keeping(held, R, [P EXCEPT ![id] = q])
  BY <1>1, <1>8, <1>9, SavePositionKeeping
<1>. HIDE DEF held
<1>11. Keeping(saved, [R EXCEPT ![a] = s], [P EXCEPT ![id] = q])
  BY <1>1, <1>7, <1>10, ReserveSavedKeeping
<1>. HIDE DEF saved
<1>12. Keeping(saveUserReserveVHistory(saved), [R EXCEPT ![a] = s], [P EXCEPT ![id] = q])
  BY <1>11, HistoriesKeeping
<1>13. Turned(saveUserReserveVHistory(saved), R, P, u, a,
              -change, g, R[a].accruedToTreasury, 0, g, 0)
  BY <1>1, <1>7, <1>8, <1>12, StoreTurned
<1>. QED
  BY <1>5, <1>13 DEF g

LEMMA StableMintTurns ==
    ASSUME NEW ix, NEW R, NEW P, Keeping(ix, R, P), NEW e, e.address \in {"sToken"} \X Assets,
           NEW u \in Holders, e.onBehalfOf = u, e.amount \in Int, e.balanceIncrease \in Int,
           e.newTotalSupply \in Int,
           NEW a, a = e.address[2], NEW change, change = e.amount - e.balanceIncrease
    PROVE  Turned(handleStableTokenMint(ix, e), R, P, u, a,
                  -change, 0, R[a].accruedToTreasury, 0, 0, e.amount)
<1>. DEFINE id == <<u, a, Provider>>
            q == [P[id] EXCEPT !.principalStableDebt = @ + e.amount]
            s == [R[a] EXCEPT !.totalPrincipalStableDebt = e.newTotalSupply,
                              !.availableLiquidity = @ - change]
            loaded == getOrInitUserReserve(ix, u, a, e)
            counted == CountBorrowed(loaded, u, HasNoDebt(P[id]), 1)
            saved == saveReserve(counted, a, e, s)
            held == SaveUserReserve(saved, u, a, e, q)
<1>1. e.address \in Tokens /\ e.address \in Emitters /\ a \in Assets
  BY DEF Tokens, Emitters
<1>2. AssetOf(ix, e) = a /\ Has(ix.contractToPool, e.address)
  BY <1>1, TokenAsset DEF Keeping, IsStore, Has
<1>3. ReserveOf(ix, a, e) = R[a] /\ IsReserve(R[a])
  BY <1>1, ReserveLoaded
<1>4. UserReserveOf(ix, u, a, e) = P[id] /\ P[id] \in Positions
  BY <1>1, PositionInStore
<1>5. handleStableTokenMint(ix, e) = saveUserReserveSHistory(held)
  BY <1>2, <1>3, <1>4, Zenon DEF handleStableTokenMint, InPool
<1>6. change \in Int
  OBVIOUS
<1>7. /\ IsReserve(s)
      /\ s.availableLiquidity = R[a].availableLiquidity + (-change)
      /\ s.totalScaledVariableDebt = R[a].totalScaledVariableDebt + 0
      /\ s.accruedToTreasury = R[a].accruedToTreasury
  <2>. DEFINE x == e.newTotalSupply
              y == R[a].availableLiquidity - change
  <2>1. /\ x \in Int /\ y \in Int /\ y = R[a].availableLiquidity + (-change)
        /\ R[a].totalScaledVariableDebt = R[a].totalScaledVariableDebt + 0
    BY <1>1, <1>6, FigureInt
  <2>2. s = [R[a] EXCEPT !.totalPrincipalStableDebt = x, !.availableLiquidity = y]
    BY <1>3, ReserveFigures DEF IsReserve, Figures
  <2>. HIDE DEF x, y, s
  <2>3. /\ IsReserve([R[a] EXCEPT !.totalPrincipalStableDebt = x, !.availableLiquidity = y])
        /\ [R[a] EXCEPT !.totalPrincipalStableDebt = x, !.availableLiquidity = y].availableLiquidity
             = y
        /\ [R[a] EXCEPT !.totalPrincipalStableDebt = x,
                        !.availableLiquidity = y].totalScaledVariableDebt
             = R[a].totalScaledVariableDebt
        /\ [R[a] EXCEPT !.totalPrincipalStableDebt = x, !.availableLiquidity = y].accruedToTreasury
             = R[a].accruedToTreasury
    BY <1>3, <2>1, ReserveFigures DEF IsReserve, Figures
  <2>4. /\ IsReserve(s)
        /\ s.availableLiquidity = y
        /\ s.totalScaledVariableDebt = R[a].totalScaledVariableDebt
        /\ s.accruedToTreasury = R[a].accruedToTreasury
    BY <2>2, <2>3, Zenon
  <2>. QED
    BY <2>1, <2>4
<1>8. /\ q \in Positions
      /\ q.scaledBTokenBalance = P[id].scaledBTokenBalance + 0
      /\ q.scaledVariableDebt = P[id].scaledVariableDebt + 0
      /\ q.principalStableDebt = P[id].principalStableDebt + e.amount
  BY <1>4, <1>6 DEF Positions
<1>. HIDE DEF s, q
<1>9. Keeping(counted, R, P)
  BY GetPositionKeeping, CountKeeping
<1>. HIDE DEF loaded, counted
<1>10. Keeping(saved, [R EXCEPT ![a] = s], P)
  BY <1>1, <1>7, <1>9, ReserveSavedKeeping
<1>. HIDE DEF saved
<1>11. Keeping(held, [R EXCEPT ![a] = s], [P EXCEPT ![id] = q])
  BY <1>1, <1>8, <1>10, SavePositionKeeping
<1>. HIDE DEF held
<1>12. Keeping(saveUserReserveSHistory(held), [R EXCEPT ![a] = s], [P EXCEPT ![id] = q])
  BY <1>11, HistoriesKeeping
<1>13. Turned(saveUserReserveSHistory(held), R, P, u, a,
              -change, 0, R[a].accruedToTreasury, 0, 0, e.amount)
  BY <1>1, <1>7, <1>8, <1>12, StoreTurned
<1>. QED
  BY <1>5, <1>13

LEMMA StableBurnTurns ==
    ASSUME NEW ix, NEW R, NEW P, Keeping(ix, R, P), NEW e, e.address \in {"sToken"} \X Assets,
           NEW u \in Holders, e.from = u, e.amount \in Int, e.balanceIncrease \in Int,
           e.newTotalSupply \in Int,
           NEW a, a = e.address[2], NEW change, change = e.amount + e.balanceIncrease
    PROVE  Turned(handleStableTokenBurn(ix, e), R, P, u, a,
                  change, 0, R[a].accruedToTreasury, 0, 0, -e.amount)
<1>. DEFINE id == <<u, a, Provider>>
            q == [P[id] EXCEPT !.principalStableDebt = @ - e.amount]
            s == [R[a] EXCEPT !.totalPrincipalStableDebt = e.newTotalSupply,
                              !.availableLiquidity = @ + e.amount + e.balanceIncrease]
            loaded == getOrInitUserReserve(ix, u, a, e)
            saved == saveReserve(loaded, a, e, s)
            held == SaveUserReserve(saved, u, a, e, q)
            counted == CountBorrowed(held, u, HasNoDebt(q), -1)
<1>1. e.address \in Tokens /\ e.address \in Emitters /\ a \in Assets
  BY DEF Tokens, Emitters
<1>2. AssetOf(ix, e) = a /\ Has(ix.contractToPool, e.address)
  BY <1>1, TokenAsset DEF Keeping, IsStore, Has
<1>3. ReserveOf(ix, a, e) = R[a] /\ IsReserve(R[a])
  BY <1>1, ReserveLoaded
<1>4. UserReserveOf(ix, u, a, e) = P[id] /\ P[id] \in Positions
  BY <1>1, PositionInStore
<1>5. handleStableTokenBurn(ix, e) = saveUserReserveSHistory(counted)
  BY <1>2, <1>3, <1>4, Zenon DEF handleStableTokenBurn, InPool
<1>6. change \in Int
  OBVIOUS
<1>7. /\ IsReserve(s)
      /\ s.availableLiquidity = R[a].availableLiquidity + change
      /\ s.totalScaledVariableDebt = R[a].totalScaledVariableDebt + 0
      /\ s.accruedToTreasury = R[a].accruedToTreasury
  <2>. DEFINE x == e.newTotalSupply
              y == R[a].availableLiquidity + e.amount + e.balanceIncrease
  <2>1. /\ x \in Int /\ y \in Int /\ y = R[a].availableLiquidity + change
        /\ R[a].totalScaledVariableDebt = R[a].totalScaledVariableDebt + 0
    BY <1>1, <1>6, FigureInt
  <2>2. s = [R[a] EXCEPT !.totalPrincipalStableDebt = x, !.availableLiquidity = y]
    BY <1>3, ReserveFigures DEF IsReserve, Figures
  <2>. HIDE DEF x, y, s
  <2>3. /\ IsReserve([R[a] EXCEPT !.totalPrincipalStableDebt = x, !.availableLiquidity = y])
        /\ [R[a] EXCEPT !.totalPrincipalStableDebt = x, !.availableLiquidity = y].availableLiquidity
             = y
        /\ [R[a] EXCEPT !.totalPrincipalStableDebt = x,
                        !.availableLiquidity = y].totalScaledVariableDebt
             = R[a].totalScaledVariableDebt
        /\ [R[a] EXCEPT !.totalPrincipalStableDebt = x, !.availableLiquidity = y].accruedToTreasury
             = R[a].accruedToTreasury
    BY <1>3, <2>1, ReserveFigures DEF IsReserve, Figures
  <2>4. /\ IsReserve(s)
        /\ s.availableLiquidity = y
        /\ s.totalScaledVariableDebt = R[a].totalScaledVariableDebt
        /\ s.accruedToTreasury = R[a].accruedToTreasury
    BY <2>2, <2>3, Zenon
  <2>. QED
    BY <2>1, <2>4
<1>8. /\ q \in Positions
      /\ q.scaledBTokenBalance = P[id].scaledBTokenBalance + 0
      /\ q.scaledVariableDebt = P[id].scaledVariableDebt + 0
      /\ q.principalStableDebt = P[id].principalStableDebt + (-e.amount)
  BY <1>4, <1>6 DEF Positions
<1>. HIDE DEF s, q
<1>9. Keeping(loaded, R, P)
  BY GetPositionKeeping
<1>. HIDE DEF loaded
<1>10. Keeping(saved, [R EXCEPT ![a] = s], P)
  BY <1>1, <1>7, <1>9, ReserveSavedKeeping
<1>. HIDE DEF saved
<1>11. Keeping(held, [R EXCEPT ![a] = s], [P EXCEPT ![id] = q])
  BY <1>1, <1>8, <1>10, SavePositionKeeping
<1>. HIDE DEF held
<1>12. Keeping(counted, [R EXCEPT ![a] = s], [P EXCEPT ![id] = q])
  BY <1>11, CountKeeping
<1>. HIDE DEF counted
<1>13. Keeping(saveUserReserveSHistory(counted), [R EXCEPT ![a] = s], [P EXCEPT ![id] = q])
  BY <1>12, HistoriesKeeping
<1>14. Turned(saveUserReserveSHistory(counted), R, P, u, a,
              change, 0, R[a].accruedToTreasury, 0, 0, -e.amount)
  BY <1>1, <1>7, <1>8, <1>13, StoreTurned
<1>. QED
  BY <1>5, <1>14

\* A transfer is a burn and a mint of the same amount.
LEMMA TransferTurns ==
    ASSUME NEW ix, NEW R, NEW P, Keeping(ix, R, P), NEW e, e.address \in {"bToken"} \X Assets,
           e.from \in Users, e.to \in Holders, e.value \in Nat, e.index \in Nat \ {0},
           NEW a, a = e.address[2], NEW value, value = TransferredValue(e),
           NEW answers, answers.reserveData[a] # NotSet,
           NEW accrued \in Int, accrued = answers.reserveData[a].accruedToTreasury
    PROVE  \E S, Q, T, W :
             /\ Keeping(handleBalanceTransfer(ix, e, answers), T, W)
             /\ ReservesTurn(R, S, a, -value, 0, R[a].accruedToTreasury)
             /\ PositionsTurn(P, Q, e.from, a, -graphRayDiv(value, e.index), 0, 0)
             /\ \A b \in Assets :
                  S[b].availableLiquidity \in Int /\ S[b].totalScaledVariableDebt \in Int
             /\ ReservesTurn(S, T, a, IF e.to \in HardCodedTreasuries THEN 0 ELSE value,
                             0, accrued)
             /\ PositionsTurn(Q, W, e.to, a,
                              IF e.to \in HardCodedTreasuries THEN 0
                              ELSE graphRayDiv(value, e.index), 0, 0)
<1>. DEFINE g == graphRayDiv(value, e.index)
            burned == tokenBurn(ix, e, e.from, value, 0)
            credited == tokenMint(burned, e, answers, e.to, value, 0)
            loaded == getOrInitUserReserve(credited, e.to, a, e)
            same == saveReserve(loaded, a, e, ReserveOf(loaded, a, e))
            nothing == 0
<1>1. e.address \in Tokens /\ e.address \in Emitters /\ a \in Assets /\ e.from \in Holders
  BY UsersHold DEF Tokens, Emitters
<1>2. AssetOf(ix, e) = a /\ Has(ix.contractToPool, e.address)
  BY <1>1, TokenAsset DEF Keeping, IsStore, Has
<1>3. /\ value \in Int /\ value = value + nothing /\ value = value - nothing
      /\ nothing \in Int
  BY DEF TransferredValue
<1>4. \/ handleBalanceTransfer(ix, e, answers) = same
      \/ handleBalanceTransfer(ix, e, answers) = loaded
  BY <1>2, Zenon DEF handleBalanceTransfer, InPool, TransferredValue
<1>5. burned = tokenBurn(ix, e, e.from, value, nothing)
  OBVIOUS
<1>6. credited = tokenMint(burned, e, answers, e.to, value, nothing)
  OBVIOUS
<1>. HIDE DEF burned, credited, nothing
<1>7. Turned(burned, R, P, e.from, a, -value, 0, R[a].accruedToTreasury, -g, 0, 0)
  BY <1>1, <1>3, <1>5, TokenBurnTurns
<1>8. PICK S, Q : /\ Keeping(burned, S, Q)
                  /\ ReservesTurn(R, S, a, -value, 0, R[a].accruedToTreasury)
                  /\ PositionsTurn(P, Q, e.from, a, -g, 0, 0)
  BY <1>7 DEF Turned
<1>9. /\ e.to \notin HardCodedTreasuries => Turned(credited, S, Q, e.to, a, value, 0, accrued, g, 0, 0)
      /\ e.to \in HardCodedTreasuries => Turned(credited, S, Q, e.to, a, 0, 0, accrued, 0, 0, 0)
  BY <1>1, <1>3, <1>6, <1>8, TokenMintTurns
<1>10. PICK T, W : /\ Keeping(credited, T, W)
                   /\ ReservesTurn(S, T, a, IF e.to \in HardCodedTreasuries THEN 0 ELSE value, 0,
                                 accrued)
                   /\ PositionsTurn(Q, W, e.to, a, IF e.to \in HardCodedTreasuries THEN 0 ELSE g, 0,
                                  0)
  <2>1. CASE e.to \in HardCodedTreasuries
    BY <1>9, <2>1, Zenon DEF Turned
  <2>2. CASE e.to \notin HardCodedTreasuries
    BY <1>9, <2>2, Zenon DEF Turned
  <2>. QED
    BY <2>1, <2>2
<1>11. Keeping(loaded, T, W)
  BY <1>10, GetPositionKeeping
<1>. HIDE DEF loaded
<1>12. Keeping(same, T, W)
  BY <1>1, <1>11, ReserveResaved
<1>13. Keeping(handleBalanceTransfer(ix, e, answers), T, W)
  BY <1>4, <1>11, <1>12
<1>14. \A b \in Assets : S[b].availableLiquidity \in Int /\ S[b].totalScaledVariableDebt \in Int
  BY <1>8, FigureInt
<1>. QED
  BY <1>8, <1>10, <1>13, <1>14 DEF g

\* The premium of a flash loan is cash, unless the index is stopped.
LEMMA FlashLoanTurns ==
    ASSUME NEW ix, NEW R, NEW P, Keeping(ix, R, P), NEW e, e.address \in Emitters,
           NEW a \in Assets, e.asset = a, e.premium \in Int,
           ix.pools[Provider].flashloanPremiumToProtocol # NotSet,
           NEW u \in Holders
    PROVE  Turned(handleFlashLoan(ix, e), R, P, u, a,
                  e.premium, 0, R[a].accruedToTreasury, 0, 0, 0)
<1>. DEFINE user == getOrInitUser(ix, e.initiator)
            loaded == getOrInitReserve(user, a, e)
            s == [R[a] EXCEPT !.availableLiquidity = @ + e.premium]
            saved == SaveReserve(loaded, a, e, s)
            item == Record(saved, FlashLoanEntity,
                           {"pool", "reserve", "target", "initiator", "totalFee", "lpFee",
                            "protocolFee", "amount", "timestamp", "assetPriceUSD"})
<1>1. getPoolByContract(ix, e) = Provider /\ Has(ix.contractToPool, e.address)
  BY ReserveLoaded DEF Keeping, IsStore, Has
<1>2. Keeping(loaded, R, P)
  BY GetUserKeeping, GetReserveKeeping
<1>3. ReserveOf(loaded, a, e) = R[a] /\ IsReserve(R[a])
  BY <1>2, ReserveLoaded
<1>4. handleFlashLoan(ix, e) = item
  BY <1>1, <1>3, Zenon DEF handleFlashLoan, InPool, SplitFee
<1>. HIDE DEF loaded
<1>5. /\ IsReserve(s)
      /\ s.availableLiquidity = R[a].availableLiquidity + e.premium
      /\ s.totalScaledVariableDebt = R[a].totalScaledVariableDebt + 0
      /\ s.accruedToTreasury = R[a].accruedToTreasury
  <2>. DEFINE x == R[a].availableLiquidity + e.premium
  <2>1. /\ x \in Int /\ R[a].totalScaledVariableDebt = R[a].totalScaledVariableDebt + 0
    BY FigureInt
  <2>2. s = [R[a] EXCEPT !.availableLiquidity = x]
    OBVIOUS
  <2>. HIDE DEF x, s
  <2>3. /\ IsReserve([R[a] EXCEPT !.availableLiquidity = x])
        /\ [R[a] EXCEPT !.availableLiquidity = x].availableLiquidity = x
        /\ [R[a] EXCEPT !.availableLiquidity = x].totalScaledVariableDebt
             = R[a].totalScaledVariableDebt
        /\ [R[a] EXCEPT !.availableLiquidity = x].accruedToTreasury = R[a].accruedToTreasury
    BY <1>3, <2>1, LiquidityChanged
  <2>4. /\ IsReserve(s) /\ s.availableLiquidity = x
        /\ s.totalScaledVariableDebt = R[a].totalScaledVariableDebt
        /\ s.accruedToTreasury = R[a].accruedToTreasury
    BY <2>2, <2>3, Zenon
  <2>. QED
    BY <2>1, <2>4 DEF x
<1>. HIDE DEF s
<1>6. Keeping(saved, [R EXCEPT ![a] = s], P)
  BY <1>2, <1>5, SaveReserveKeeping
<1>. HIDE DEF saved
<1>7. Keeping(item, [R EXCEPT ![a] = s], P)
  BY <1>6, ItemsComplete, RecordKeeping
<1>8. ReservesTurn(R, [R EXCEPT ![a] = s], a, e.premium, 0, R[a].accruedToTreasury)
  BY <1>5, ReserveTurned
<1>9. PositionsTurn(P, P, u, a, 0, 0, 0)
  BY PositionsStay
<1>. QED
  BY <1>4, <1>7, <1>8, <1>9 DEF Turned

\* The other handlers leave the numbers.
LEMMA InPoolKeeping ==
    ASSUME NEW ix, NEW R, NEW P, Keeping(ix, R, P), NEW next, Keeping(next, R, P),
           NEW e, e.address \in Emitters
    PROVE  Keeping(InPool(ix, e, next), R, P)
BY DEF InPool, Keeping, IsStore, Has

LEMMA LoadKeeping ==
    ASSUME NEW ix, NEW R, NEW P, Keeping(ix, R, P), NEW e, NEW user
    PROVE  Keeping(Load(ix, e, user), R, P)
BY GetPositionKeeping DEF Load

LEMMA ReferrerKeeping ==
    ASSUME NEW ix, NEW R, NEW P, Keeping(ix, R, P)
    PROVE  Keeping(getOrInitReferrer(ix), R, P)
BY ItemsComplete, RecordKeeping DEF getOrInitReferrer

LEMMA DebtCallKeeping ==
    ASSUME NEW ix, NEW R, NEW P, Keeping(ix, R, P), NEW e, e.address \in Emitters
    PROVE  /\ Keeping(handleSupply(ix, e), R, P) /\ Keeping(handleWithdraw(ix, e), R, P)
           /\ Keeping(handleBorrow(ix, e), R, P)
           /\ e.reserve \in Assets => Keeping(handleRepay(ix, e), R, P)
           /\ Keeping(handleSwapBorrowRateMode(ix, e), R, P)
           /\ Keeping(handleRebalanceStableBorrowRate(ix, e), R, P)
<1>1. ASSUME NEW user PROVE Keeping(Load(ix, e, user), R, P)
  BY LoadKeeping
<1>2. ASSUME NEW user, NEW other
      PROVE  Keeping(getOrInitReferrer(getOrInitUser(Load(ix, e, user), other)), R, P)
  <2>1. Keeping(getOrInitUser(Load(ix, e, user), other), R, P)
    BY <1>1, GetUserKeeping
  <2>. QED
    BY <2>1, ReferrerKeeping
<1>3. Keeping(handleSupply(ix, e), R, P)
  BY <1>2, TransactionsComplete, RecordKeeping, InPoolKeeping DEF handleSupply
<1>4. Keeping(handleWithdraw(ix, e), R, P)
  <2>1. Keeping(Load(getOrInitUser(ix, e.to), e, e.user), R, P)
    BY GetUserKeeping, LoadKeeping
  <2>. QED
    BY <2>1, TransactionsComplete, RecordKeeping, InPoolKeeping DEF handleWithdraw
<1>5. Keeping(handleBorrow(ix, e), R, P)
  BY <1>2, TransactionsComplete, RecordKeeping, InPoolKeeping DEF handleBorrow
<1>6. ASSUME e.reserve \in Assets PROVE Keeping(handleRepay(ix, e), R, P)
  <2>1. Keeping(Resave(Load(ix, e, e.user), e.reserve, e), R, P)
    BY <1>1, <1>6, ReserveResaved
  <2>2. Keeping(getOrInitUser(Resave(Load(ix, e, e.user), e.reserve, e), e.repayer), R, P)
    BY <2>1, GetUserKeeping
  <2>. QED
    BY <2>2, TransactionsComplete, RecordKeeping, InPoolKeeping DEF handleRepay
<1>7. Keeping(handleSwapBorrowRateMode(ix, e), R, P)
  BY <1>1, TransactionsComplete, RecordKeeping, InPoolKeeping DEF handleSwapBorrowRateMode
<1>8. Keeping(handleRebalanceStableBorrowRate(ix, e), R, P)
  BY <1>1, TransactionsComplete, RecordKeeping, InPoolKeeping DEF handleRebalanceStableBorrowRate
<1>. QED
  BY <1>3, <1>4, <1>5, <1>6, <1>7, <1>8

LEMMA LiquidationKeeping ==
    ASSUME NEW ix, NEW R, NEW P, Keeping(ix, R, P), NEW e, e.address \in Emitters,
           e.collateralAsset \in Assets, e.debtAsset \in Assets
    PROVE  Keeping(handleLiquidationCall(ix, e), R, P)
<1>. DEFINE known == getOrInitUser(ix, e.user)
            collateral == getOrInitUserReserve(known, e.user, e.collateralAsset, e)
            resaved == Resave(collateral, e.collateralAsset, e)
            principal == getOrInitUserReserve(resaved, e.user, e.debtAsset, e)
            saved == Resave(principal, e.debtAsset, e)
<1>1. Keeping(known, R, P)
  BY GetUserKeeping
<1>2. Keeping(collateral, R, P)
  BY <1>1, GetPositionKeeping
<1>3. Keeping(resaved, R, P)
  BY <1>2, ReserveResaved
<1>4. Keeping(principal, R, P)
  BY <1>3, GetPositionKeeping
<1>5. Keeping(saved, R, P)
  BY <1>4, ReserveResaved
<1>6. handleLiquidationCall(ix, e) =
        InPool(ix, e, Record(saved, LiquidationCallEntity,
                             TransactionFields
                                 \cup {"pool", "user", "collateralReserve",
                                       "collateralUserReserve", "collateralAmount",
                                       "principalReserve", "principalUserReserve",
                                       "principalAmount", "liquidator",
                                       "collateralAssetPriceUSD", "borrowAssetPriceUSD"}))
  BY DEF handleLiquidationCall
<1>. HIDE DEF saved
<1>. QED
  BY <1>5, <1>6, TransactionsComplete, RecordKeeping, InPoolKeeping

LEMMA BackUnbackedKeeping ==
    ASSUME NEW ix, NEW R, NEW P, Keeping(ix, R, P), NEW e, e.address \in Emitters,
           e.reserve \in Assets, ix.pools[Provider].bridgeProtocolFee # NotSet
    PROVE  Keeping(handleBackUnbacked(ix, e), R, P)
<1>. DEFINE saved == Resave(Load(ix, e, e.backer), e.reserve, e)
            next == Record(saved, BackUnbackedEntity,
                           {"pool", "backer", "userReserve", "reserve", "amount", "timestamp",
                            "fee", "lpFee", "protocolFee"})
<1>1. handleBackUnbacked(ix, e) = InPool(ix, e, SplitFee(ix, e, "bridgeProtocolFee", next))
  BY DEF handleBackUnbacked
<1>2. Keeping(saved, R, P)
  BY LoadKeeping, ReserveResaved
<1>. HIDE DEF saved
<1>3. Keeping(next, R, P)
  BY <1>2, ItemsComplete, RecordKeeping
<1>. HIDE DEF next
<1>4. getPoolByContract(ix, e) = Provider
  BY DEF Keeping, IsStore, getPoolByContract
<1>5. SplitFee(ix, e, "bridgeProtocolFee", next) = next
  BY <1>4 DEF SplitFee
<1>. QED
  BY <1>1, <1>3, <1>5, InPoolKeeping

LEMMA ItemsKeeping ==
    ASSUME NEW ix, NEW R, NEW P, Keeping(ix, R, P), NEW e, e.address \in Emitters
    PROVE  /\ Keeping(handleMintUnbacked(ix, e), R, P)
           /\ Keeping(handleMintedToTreasury(ix, e), R, P)
           /\ Keeping(handleIsolationModeTotalDebtUpdated(ix, e), R, P)
<1>1. Keeping(handleMintUnbacked(ix, e), R, P)
  <2>1. Keeping(getOrInitUser(Load(ix, e, e.onBehalfOf), e.user), R, P)
    BY LoadKeeping, GetUserKeeping
  <2>. QED
    BY <2>1, ItemsComplete, RecordKeeping, InPoolKeeping DEF handleMintUnbacked
<1>2. Keeping(handleMintedToTreasury(ix, e), R, P)
  BY GetReserveKeeping, ItemsComplete, RecordKeeping, InPoolKeeping DEF handleMintedToTreasury
<1>3. Keeping(handleIsolationModeTotalDebtUpdated(ix, e), R, P)
  BY GetReserveKeeping, ItemsComplete, RecordKeeping, InPoolKeeping
     DEF handleIsolationModeTotalDebtUpdated
<1>. QED
  BY <1>1, <1>2, <1>3

LEMMA BridgeFeeKeeping ==
    ASSUME NEW ix, NEW R, NEW P, Keeping(ix, R, P), NEW e, Fits(e)
    PROVE  Keeping(handleBridgeProtocolFeeUpdated(ix, e), R, P)
<1>0. e.address \in Emitters
  BY DEF Fits
<1>. DEFINE pool == [ix.pools[Provider] EXCEPT !["bridgeProtocolFee"] = e.new]
            jx == Save(ix, "pools", Provider, pool)
<1>1. IsStore(ix) /\ ix.pools[Provider].pool = Pool
  BY DEF Keeping
<1>2. handleBridgeProtocolFeeUpdated(ix, e) = InPool(ix, e, jx)
  BY <1>1 DEF handleBridgeProtocolFeeUpdated, SetFee, getPoolByContract, IsStore, Fits
<1>3. pool.pool = Pool
  BY <1>1 DEF IsStore, NewPool
<1>. HIDE DEF pool
<1>4. /\ jx.users = ix.users /\ jx.userReserves = ix.userReserves
      /\ jx.reserves = ix.reserves /\ jx.subTokens = ix.subTokens
      /\ jx.pools = Put(ix.pools, Provider, pool)
  BY <1>1 DEF Save, IsStore
<1>5. Keeps(ix, InPool(ix, e, jx))
  BY <1>2, BridgeFeeHandlerKeeps
<1>6. Has(ix.contractToPool, e.address)
  BY <1>1 DEF IsStore, Fits, Has
<1>. HIDE DEF jx
<1>7. Keeps(ix, jx)
  BY <1>5, <1>6 DEF InPool
<1>8. jx.pools[Provider].pool = Pool
  BY <1>3, <1>4 DEF Put
<1>9. Leaves(ix, jx)
  BY <1>1, <1>4, <1>8 DEF Leaves
<1>10. Keeping(jx, R, P)
  BY <1>7, <1>9, KeptKeeping
<1>. QED
  BY <1>0, <1>2, <1>10, InPoolKeeping

LEMMA EModeKeeping ==
    ASSUME NEW ix, NEW R, NEW P, Keeping(ix, R, P), NEW e, Fits(e), e.name = "UserEModeSet"
    PROVE  Keeping(handleUserEModeSet(ix, e), R, P)
<1>. DEFINE loaded == getOrInitUser(ix, e.user)
            entity == [UserOf(loaded, e.user) EXCEPT !.eModeCategoryId = e.categoryId]
            saved == Save(loaded, "users", e.user, entity)
<1>1. handleUserEModeSet(ix, e) = saved
  BY TransactionsComplete DEF handleUserEModeSet, Record
<1>2. Keeping(loaded, R, P)
  BY GetUserKeeping
<1>3. IsStore(saved)
  BY <1>1, EModeHandlerSets DEF Sets, Keeping
<1>. HIDE DEF loaded, entity
<1>4. Leaves(loaded, saved)
  BY SaveLeaves
<1>. HIDE DEF saved
<1>. QED
  BY <1>1, <1>2, <1>3, <1>4, LeftKeeping

LEMMA AllowanceKeeping ==
    ASSUME NEW ix, NEW R, NEW P, Keeping(ix, R, P), NEW e, Fits(e)
    PROVE  /\ e.name = "SBorrowAllowanceDelegated" =>
                Keeping(handleStableTokenBorrowAllowanceDelegated(ix, e), R, P)
           /\ e.name = "VBorrowAllowanceDelegated" =>
                Keeping(handleVariableTokenBorrowAllowanceDelegated(ix, e), R, P)
<1>0. e.address \in Emitters
  BY DEF Fits
<1>1. ASSUME NEW kind \in {"sToken", "vToken"}, e.name = AllowanceName(kind),
             NEW name, name = (IF kind = "sToken" THEN "stable" ELSE "variable")
      PROVE  Keeping(Save(getOrInitUserReserve(ix, e.fromUser, e.asset, e), "allowances",
                          <<name, e.fromUser, e.toUser, e.asset>>, e.amount), R, P)
  <2>. DEFINE loaded == getOrInitUserReserve(ix, e.fromUser, e.asset, e)
              saved == Save(loaded, "allowances", <<name, e.fromUser, e.toUser, e.asset>>, e.amount)
  <2>1. Keeping(loaded, R, P)
    BY GetPositionKeeping
  <2>2. Sets(ix, saved, e)
    BY <1>1, AllowanceSets
  <2>3. IsStore(saved)
    BY <2>2 DEF Sets, Keeping
  <2>. HIDE DEF loaded
  <2>4. Leaves(loaded, saved)
    BY SaveLeaves
  <2>. HIDE DEF saved
  <2>5. Keeping(saved, R, P)
    BY <2>1, <2>3, <2>4, LeftKeeping
  <2>. QED
    BY <2>5 DEF saved, loaded
<1>2. ASSUME e.name = "SBorrowAllowanceDelegated"
      PROVE  Keeping(handleStableTokenBorrowAllowanceDelegated(ix, e), R, P)
  <2>. DEFINE saved == Save(getOrInitUserReserve(ix, e.fromUser, e.asset, e), "allowances",
                            <<"stable", e.fromUser, e.toUser, e.asset>>, e.amount)
  <2>1. Keeping(saved, R, P)
    <3>1. e.name = AllowanceName("sToken") /\ "sToken" \in {"sToken", "vToken"}
          /\ "stable" = (IF "sToken" = "sToken" THEN "stable" ELSE "variable")
      BY <1>2 DEF AllowanceName
    <3>. QED
      BY <1>1, <3>1, Zenon
  <2>2. BorrowAllowanceDelegated(ix, e, "stable", StableTokenDelegatedAllowanceEntity) = saved
    BY ItemsComplete DEF BorrowAllowanceDelegated, Create, Record
  <2>. HIDE DEF saved
  <2>. QED
    BY <1>0, <2>1, <2>2, InPoolKeeping DEF handleStableTokenBorrowAllowanceDelegated
<1>3. ASSUME e.name = "VBorrowAllowanceDelegated"
      PROVE  Keeping(handleVariableTokenBorrowAllowanceDelegated(ix, e), R, P)
  <2>. DEFINE saved == Save(getOrInitUserReserve(ix, e.fromUser, e.asset, e), "allowances",
                            <<"variable", e.fromUser, e.toUser, e.asset>>, e.amount)
  <2>1. Keeping(saved, R, P)
    <3>1. e.name = AllowanceName("vToken") /\ "vToken" \in {"sToken", "vToken"}
          /\ "variable" = (IF "vToken" = "sToken" THEN "stable" ELSE "variable")
      BY <1>3 DEF AllowanceName
    <3>. QED
      BY <1>1, <3>1, Zenon
  <2>2. BorrowAllowanceDelegated(ix, e, "variable", VariableTokenDelegatedAllowanceEntity) = saved
    BY ItemsComplete DEF BorrowAllowanceDelegated, Create, Record
  <2>. HIDE DEF saved
  <2>. QED
    BY <1>0, <2>1, <2>2, InPoolKeeping DEF handleVariableTokenBorrowAllowanceDelegated
<1>. QED
  BY <1>2, <1>3

\* What is collateral, and the indexes, are no amounts.
LEMMA UseAsCollateralTurns ==
    ASSUME NEW ix, NEW R, NEW P, Keeping(ix, R, P), NEW e, e.address \in Emitters,
           NEW u \in Users, e.user = u, NEW a \in Assets, e.reserve = a,
           NEW enabled \in BOOLEAN
    PROVE  Turned(UseAsCollateral(ix, e, enabled), R, P, u, a,
                  0, 0, R[a].accruedToTreasury, 0, 0, 0)
<1>. DEFINE loaded == Record(Load(ix, e, u), UsageAsCollateralEntity,
                             TransactionFields \cup PositionFields \cup {"fromState", "toState"})
            id == <<u, a, Provider>>
            q == [P[id] EXCEPT !.usageAsCollateralEnabledOnUser = enabled]
            held == SaveUserReserve(loaded, u, a, e, q)
<1>0. u \in Holders
  BY UsersHold
<1>1. Keeping(loaded, R, P)
  BY LoadKeeping, TransactionsComplete, RecordKeeping
<1>2. UserReserveOf(loaded, u, a, e) = P[id] /\ P[id] \in Positions
  BY <1>0, <1>1, PositionInStore
<1>3. UseAsCollateral(ix, e, enabled) = held
  BY <1>2, Zenon DEF UseAsCollateral
<1>. HIDE DEF loaded
<1>4. /\ q \in Positions
      /\ q.scaledBTokenBalance = P[id].scaledBTokenBalance + 0
      /\ q.scaledVariableDebt = P[id].scaledVariableDebt + 0
      /\ q.principalStableDebt = P[id].principalStableDebt + 0
  BY <1>2 DEF Positions
<1>. HIDE DEF q
<1>5. Keeping(held, R, [P EXCEPT ![id] = q])
  BY <1>0, <1>1, <1>4, SavePositionKeeping
<1>. HIDE DEF held
<1>6. PositionsTurn(P, [P EXCEPT ![id] = q], u, a, 0, 0, 0)
  BY <1>0, <1>4, PositionTurned
<1>7. ReservesTurn(R, R, a, 0, 0, R[a].accruedToTreasury)
  BY ReservesStay
<1>. QED
  BY <1>3, <1>5, <1>6, <1>7 DEF Turned

LEMMA DataUpdatedTurns ==
    ASSUME NEW ix, NEW R, NEW P, Keeping(ix, R, P), NEW e, e.address \in Emitters,
           NEW a \in Assets, e.reserve = a, e.liquidityIndex \in Int,
           e.variableBorrowIndex \in Int, NEW u \in Holders
    PROVE  Turned(handleReserveDataUpdated(ix, e), R, P, u, a,
                  0, 0, R[a].accruedToTreasury, 0, 0, 0)
<1>. DEFINE s == [R[a] EXCEPT !.liquidityIndex = e.liquidityIndex,
                              !.variableBorrowIndex = e.variableBorrowIndex]
            saved == SaveReserve(ix, a, e, s)
<1>1. Has(ix.contractToPool, e.address)
  BY DEF Keeping, IsStore, Has
<1>2. ReserveOf(ix, a, e) = R[a] /\ IsReserve(R[a])
  BY ReserveLoaded
<1>3. handleReserveDataUpdated(ix, e) = saved
  BY <1>1, <1>2, Zenon DEF handleReserveDataUpdated, InPool
<1>4. /\ IsReserve(s)
      /\ s.availableLiquidity = R[a].availableLiquidity
      /\ s.totalScaledVariableDebt = R[a].totalScaledVariableDebt
      /\ s.accruedToTreasury = R[a].accruedToTreasury
  BY <1>2, ReserveFigures DEF IsReserve, Figures
<1>. HIDE DEF s
<1>5. /\ s.availableLiquidity = R[a].availableLiquidity + 0
      /\ s.totalScaledVariableDebt = R[a].totalScaledVariableDebt + 0
  BY <1>4, FigureInt
<1>6. Keeping(saved, [R EXCEPT ![a] = s], P)
  BY <1>4, SaveReserveKeeping
<1>. HIDE DEF saved
<1>7. ReservesTurn(R, [R EXCEPT ![a] = s], a, 0, 0, R[a].accruedToTreasury)
  BY <1>4, <1>5, ReserveTurned
<1>8. PositionsTurn(P, P, u, a, 0, 0, 0)
  BY PositionsStay
<1>. QED
  BY <1>3, <1>6, <1>7, <1>8 DEF Turned

-------------------------------------------------------------------------------
(* What the index makes of an event is what the event says.                *)

\* Cash that the index counts and the ledger does not, of one asset.
Unseen(e, a) == IF UnseenCash(e) # 0 /\ AssetIn(e) = a THEN UnseenCash(e) ELSE 0

MisreadAt(e, u, a) == Misread(e) /\ u \in {e.from, e.to} /\ a = e.address[2]

\* The variable debt of a reserve changes with that of one user, or not at all.
DebtShift(R, P, S, Q) ==
    \/ /\ \A a \in Assets : S[a].totalScaledVariableDebt = R[a].totalScaledVariableDebt
       /\ \A u \in Users, a \in Assets :
            Q[<<u, a, Provider>>].scaledVariableDebt = P[<<u, a, Provider>>].scaledVariableDebt
    \/ \E v \in Users, b \in Assets, d \in Int :
         /\ \A a \in Assets : S[a].totalScaledVariableDebt
                                = R[a].totalScaledVariableDebt + (IF a = b THEN d ELSE 0)
         /\ \A u \in Users, a \in Assets :
              Q[<<u, a, Provider>>].scaledVariableDebt
                = P[<<u, a, Provider>>].scaledVariableDebt
                    + (IF u = v /\ a = b THEN d ELSE 0)

ReserveShift(e, due, R, S) ==
    \A a \in Assets :
       /\ S[a].availableLiquidity = R[a].availableLiquidity + (CashCredit(e, a) + Unseen(e, a))
       /\ S[a].accruedToTreasury \in {R[a].accruedToTreasury, due[a]}
       /\ e.name = "BTokenMint" /\ e.address[2] = a => S[a].accruedToTreasury = due[a]

PositionShift(e, P, Q) ==
    \A u \in Users, a \in Assets :
       /\ Q[<<u, a, Provider>>].principalStableDebt
            = P[<<u, a, Provider>>].principalStableDebt + PrincipalCredit(e, u, a)
       /\ Q[<<u, a, Provider>>].scaledVariableDebt
            = P[<<u, a, Provider>>].scaledVariableDebt + ScaledCredit(e, "vToken", u, a)
       /\ ~MisreadAt(e, u, a) =>
            Q[<<u, a, Provider>>].scaledBTokenBalance
              = P[<<u, a, Provider>>].scaledBTokenBalance + ScaledCredit(e, "bToken", u, a)

Shifted(nx, e, due, R, P) ==
    \E S, Q : /\ Keeping(nx, S, Q) /\ ReserveShift(e, due, R, S) /\ PositionShift(e, P, Q)
              /\ DebtShift(R, P, S, Q)

LEMMA UserIds ==
    ASSUME NEW u \in Users, NEW a \in Assets
    PROVE  <<u, a, Provider>> \in Ids
BY UsersHold DEF Ids

LEMMA TurnedShifts ==
    ASSUME NEW ix, NEW R, NEW P, Keeping(ix, R, P), NEW nx, NEW u \in Holders, NEW a \in Assets,
           NEW cash, NEW scaled \in Int, NEW accrued, NEW supplied, NEW stable,
           Turned(nx, R, P, u, a, cash, scaled, accrued, supplied, scaled, stable),
           u \in Users \/ scaled = 0,
           NEW e, NEW due,
           \A b \in Assets : CashCredit(e, b) + Unseen(e, b) = IF b = a THEN cash ELSE 0,
           accrued \in {R[a].accruedToTreasury, due[a]},
           e.name = "BTokenMint" => e.address[2] = a /\ accrued = due[a],
           \A v \in Users, b \in Assets :
             /\ PrincipalCredit(e, v, b) = IF v = u /\ b = a THEN stable ELSE 0
             /\ ScaledCredit(e, "vToken", v, b) = IF v = u /\ b = a THEN scaled ELSE 0
             /\ ScaledCredit(e, "bToken", v, b) = IF v = u /\ b = a THEN supplied ELSE 0
    PROVE  Shifted(nx, e, due, R, P)
<1>1. PICK S, Q : /\ Keeping(nx, S, Q)
                  /\ ReservesTurn(R, S, a, cash, scaled, accrued)
                  /\ PositionsTurn(P, Q, u, a, supplied, scaled, stable)
  BY DEF Turned
<1>2. ReserveShift(e, due, R, S)
  BY <1>1, Zenon DEF ReserveShift, ReservesTurn
<1>3. ASSUME NEW v \in Users, NEW b \in Assets, NEW id, id = <<v, b, Provider>>
      PROVE  /\ Q[id].principalStableDebt = P[id].principalStableDebt + PrincipalCredit(e, v, b)
             /\ Q[id].scaledVariableDebt
                  = P[id].scaledVariableDebt + ScaledCredit(e, "vToken", v, b)
             /\ Q[id].scaledBTokenBalance
                  = P[id].scaledBTokenBalance + ScaledCredit(e, "bToken", v, b)
             /\ Q[id].scaledVariableDebt
                  = P[id].scaledVariableDebt + (IF v = u /\ b = a THEN scaled ELSE 0)
  <2>1. id \in Ids
    BY <1>3, UserIds
  <2>2. id = <<u, a, Provider>> <=> v = u /\ b = a
    BY <1>3
  <2>3. /\ Q[id].scaledBTokenBalance = P[id].scaledBTokenBalance
                                         + (IF v = u /\ b = a THEN supplied ELSE 0)
        /\ Q[id].scaledVariableDebt = P[id].scaledVariableDebt
                                        + (IF v = u /\ b = a THEN scaled ELSE 0)
        /\ Q[id].principalStableDebt = P[id].principalStableDebt
                                         + (IF v = u /\ b = a THEN stable ELSE 0)
    <3>1. CASE v = u /\ b = a
      BY <1>1, <2>1, <2>2, <3>1 DEF PositionsTurn
    <3>2. CASE ~(v = u /\ b = a)
      BY <1>1, <2>1, <2>2, <3>2 DEF PositionsTurn
    <3>. QED
      BY <3>1, <3>2
  <2>. QED
    BY <2>3
<1>4. PositionShift(e, P, Q)
  BY <1>3, Zenon DEF PositionShift
<1>5. DebtShift(R, P, S, Q)
  <2>1. \A b \in Assets : S[b].totalScaledVariableDebt
                            = R[b].totalScaledVariableDebt + (IF b = a THEN scaled ELSE 0)
    BY <1>1 DEF ReservesTurn
  <2>2. \A v \in Users, b \in Assets :
          Q[<<v, b, Provider>>].scaledVariableDebt
            = P[<<v, b, Provider>>].scaledVariableDebt + (IF v = u /\ b = a THEN scaled ELSE 0)
    <3>1. ASSUME NEW v \in Users, NEW b \in Assets
          PROVE  Q[<<v, b, Provider>>].scaledVariableDebt
                   = P[<<v, b, Provider>>].scaledVariableDebt
                       + (IF v = u /\ b = a THEN scaled ELSE 0)
      <4>. DEFINE id == <<v, b, Provider>>
      <4>1. id = <<v, b, Provider>>
        OBVIOUS
      <4>. HIDE DEF id
      <4>2. Q[id].scaledVariableDebt
              = P[id].scaledVariableDebt + (IF v = u /\ b = a THEN scaled ELSE 0)
        BY <1>3, <4>1
      <4>. QED
        BY <4>2 DEF id
    <3>. QED
      BY <3>1
  <2>3. CASE u \in Users
    BY <2>1, <2>2, <2>3, Zenon DEF DebtShift
  <2>4. CASE scaled = 0
    <3>1. \A b \in Assets : S[b].totalScaledVariableDebt = R[b].totalScaledVariableDebt
      BY <2>1, <2>4, FigureInt
    <3>2. ASSUME NEW v \in Users, NEW b \in Assets
          PROVE  Q[<<v, b, Provider>>].scaledVariableDebt
                   = P[<<v, b, Provider>>].scaledVariableDebt
      BY <2>2, <2>4, UserIds, PositionInt
    <3>. QED
      BY <3>1, <3>2 DEF DebtShift
  <2>. QED
    BY <2>3, <2>4
<1>. QED
  BY <1>1, <1>2, <1>4, <1>5 DEF Shifted

\* An event that says nothing of amounts.
LEMMA KeptShifts ==
    ASSUME NEW ix, NEW R, NEW P, Keeping(ix, R, P), NEW nx, Keeping(nx, R, P), NEW e, NEW due,
           e.name # "BTokenMint",
           \A a \in Assets : CashCredit(e, a) + Unseen(e, a) = 0,
           \A u \in Users, a \in Assets :
             /\ PrincipalCredit(e, u, a) = 0 /\ ScaledCredit(e, "vToken", u, a) = 0
             /\ ScaledCredit(e, "bToken", u, a) = 0
    PROVE  Shifted(nx, e, due, R, P)
<1>1. ReserveShift(e, due, R, R)
  BY FigureInt DEF ReserveShift
<1>2. ASSUME NEW u \in Users, NEW a \in Assets, NEW p, p = P[<<u, a, Provider>>]
      PROVE  /\ p.principalStableDebt = p.principalStableDebt + PrincipalCredit(e, u, a)
             /\ p.scaledVariableDebt = p.scaledVariableDebt + ScaledCredit(e, "vToken", u, a)
             /\ p.scaledBTokenBalance = p.scaledBTokenBalance + ScaledCredit(e, "bToken", u, a)
  <2>1. /\ p.scaledBTokenBalance \in Int /\ p.scaledVariableDebt \in Int
        /\ p.principalStableDebt \in Int
    BY <1>2, UserIds, PositionInt
  <2>2. /\ PrincipalCredit(e, u, a) = 0 /\ ScaledCredit(e, "vToken", u, a) = 0
        /\ ScaledCredit(e, "bToken", u, a) = 0
    OBVIOUS
  <2>. QED
    BY <2>1, <2>2
<1>3. PositionShift(e, P, P)
  BY <1>2, Zenon DEF PositionShift
<1>4. DebtShift(R, P, R, P)
  BY DEF DebtShift
<1>. QED
  BY <1>1, <1>3, <1>4 DEF Shifted

\* What the events of tokens say.
LEMMA BTokenMintSays ==
    ASSUME NEW e, Measured(e), e.name = "BTokenMint", NEW b \in Assets, NEW a, a = e.address[2],
           NEW u, u = e.onBehalfOf, NEW x, x = Issued(e)
    PROVE  /\ u \in Users => CashCredit(e, b) + Unseen(e, b) = IF b = a THEN x ELSE 0
           /\ u \notin Users /\ u \notin HardCodedTreasuries =>
                CashCredit(e, b) + Unseen(e, b) = IF b = a THEN x ELSE 0
           /\ u \in HardCodedTreasuries =>
                CashCredit(e, b) + Unseen(e, b) = 0
           /\ \A v : /\ PrincipalCredit(e, v, b) = 0
                     /\ ScaledCredit(e, "vToken", v, b) = 0
                     /\ ScaledCredit(e, "bToken", v, b)
                          = IF v = u /\ b = a THEN graphRayDiv(x, e.index) ELSE 0
<1>1. x \in Int /\ u \in Holders
  BY DEF Measured, Issued
<1>2. UnseenCash(e) = IF u = Treasury /\ Treasury \notin HardCodedTreasuries THEN x ELSE 0
  BY DEF UnseenCash, Issued
<1>3. AssetIn(e) = a
  BY DEF AssetIn
<1>4. CashCredit(e, b) = IF b = a /\ u \in Users THEN x ELSE 0
  BY DEF CashCredit
<1>5. Treasury \notin Users /\ (u \in Users \/ u = Treasury)
  BY <1>1, LedgerAssumption DEF Holders
<1>6. HardCodedTreasuries \cap Users = {}
  BY IndexingAssumption
<1>7. ASSUME NEW v
      PROVE  /\ PrincipalCredit(e, v, b) = 0
             /\ ScaledCredit(e, "vToken", v, b) = 0
             /\ ScaledCredit(e, "bToken", v, b)
                  = IF v = u /\ b = a THEN graphRayDiv(x, e.index) ELSE 0
  BY DEF PrincipalCredit, ScaledCredit, MintName, BurnName
<1>8. u \in Users => CashCredit(e, b) + Unseen(e, b) = IF b = a THEN x ELSE 0
  BY <1>1, <1>2, <1>3, <1>4, <1>5 DEF Unseen
<1>9. u \notin Users /\ u \notin HardCodedTreasuries =>
        CashCredit(e, b) + Unseen(e, b) = IF b = a THEN x ELSE 0
  BY <1>1, <1>2, <1>3, <1>4, <1>5 DEF Unseen
<1>10. u \in HardCodedTreasuries => CashCredit(e, b) + Unseen(e, b) = 0
  BY <1>1, <1>2, <1>3, <1>4, <1>5, <1>6 DEF Unseen
<1>. QED
  BY <1>7, <1>8, <1>9, <1>10

LEMMA BTokenBurnSays ==
    ASSUME NEW e, Measured(e), e.name = "BTokenBurn", NEW b \in Assets, NEW a, a = e.address[2],
           NEW u, u = e.from, NEW x, x = Redeemed(e)
    PROVE  /\ CashCredit(e, b) + Unseen(e, b) = IF b = a THEN -x ELSE 0
           /\ \A v : /\ PrincipalCredit(e, v, b) = 0
                     /\ ScaledCredit(e, "vToken", v, b) = 0
                     /\ ScaledCredit(e, "bToken", v, b)
                          = IF v = u /\ b = a THEN -graphRayDiv(x, e.index) ELSE 0
<1>1. x \in Int
  BY DEF Measured, Redeemed
<1>2. Unseen(e, b) = 0
  BY DEF Unseen, UnseenCash
<1>3. CashCredit(e, b) = IF b = a THEN -x ELSE 0
  BY DEF CashCredit
<1>4. ASSUME NEW v
      PROVE  /\ PrincipalCredit(e, v, b) = 0
             /\ ScaledCredit(e, "vToken", v, b) = 0
             /\ ScaledCredit(e, "bToken", v, b)
                  = IF v = u /\ b = a THEN -graphRayDiv(x, e.index) ELSE 0
  BY DEF PrincipalCredit, ScaledCredit, MintName, BurnName
<1>. QED
  BY <1>1, <1>2, <1>3, <1>4

LEMMA VTokenMintSays ==
    ASSUME NEW e, Measured(e), e.name = "VTokenMint", NEW b \in Assets, NEW a, a = e.address[2],
           NEW u, u = e.onBehalfOf, NEW x, x = Issued(e)
    PROVE  /\ CashCredit(e, b) + Unseen(e, b) = IF b = a THEN -x ELSE 0
           /\ \A v : /\ PrincipalCredit(e, v, b) = 0
                     /\ ScaledCredit(e, "bToken", v, b) = 0
                     /\ ScaledCredit(e, "vToken", v, b)
                          = IF v = u /\ b = a THEN graphRayDiv(x, e.index) ELSE 0
<1>1. x \in Int
  BY DEF Measured, Issued
<1>2. Unseen(e, b) = 0
  BY DEF Unseen, UnseenCash
<1>3. CashCredit(e, b) = IF b = a THEN -x ELSE 0
  BY DEF CashCredit
<1>4. ASSUME NEW v
      PROVE  /\ PrincipalCredit(e, v, b) = 0
             /\ ScaledCredit(e, "bToken", v, b) = 0
             /\ ScaledCredit(e, "vToken", v, b)
                  = IF v = u /\ b = a THEN graphRayDiv(x, e.index) ELSE 0
  BY DEF PrincipalCredit, ScaledCredit, MintName, BurnName
<1>. QED
  BY <1>1, <1>2, <1>3, <1>4

LEMMA VTokenBurnSays ==
    ASSUME NEW e, Measured(e), e.name = "VTokenBurn", NEW b \in Assets, NEW a, a = e.address[2],
           NEW u, u = e.from, NEW x, x = Redeemed(e)
    PROVE  /\ CashCredit(e, b) + Unseen(e, b) = IF b = a THEN x ELSE 0
           /\ \A v : /\ PrincipalCredit(e, v, b) = 0
                     /\ ScaledCredit(e, "bToken", v, b) = 0
                     /\ ScaledCredit(e, "vToken", v, b)
                          = IF v = u /\ b = a THEN -graphRayDiv(x, e.index) ELSE 0
<1>1. x \in Int
  BY DEF Measured, Redeemed
<1>2. Unseen(e, b) = 0
  BY DEF Unseen, UnseenCash
<1>3. CashCredit(e, b) = IF b = a THEN x ELSE 0
  BY DEF CashCredit
<1>4. ASSUME NEW v
      PROVE  /\ PrincipalCredit(e, v, b) = 0
             /\ ScaledCredit(e, "bToken", v, b) = 0
             /\ ScaledCredit(e, "vToken", v, b)
                  = IF v = u /\ b = a THEN -graphRayDiv(x, e.index) ELSE 0
  BY DEF PrincipalCredit, ScaledCredit, MintName, BurnName
<1>. QED
  BY <1>1, <1>2, <1>3, <1>4

LEMMA STokenMintSays ==
    ASSUME NEW e, Measured(e), e.name = "STokenMint", NEW b \in Assets, NEW a, a = e.address[2],
           NEW u, u = e.onBehalfOf, NEW x, x = e.amount - e.balanceIncrease
    PROVE  /\ CashCredit(e, b) + Unseen(e, b) = IF b = a THEN -x ELSE 0
           /\ \A v : /\ PrincipalCredit(e, v, b) = IF v = u /\ b = a THEN e.amount ELSE 0
                     /\ ScaledCredit(e, "bToken", v, b) = 0
                     /\ ScaledCredit(e, "vToken", v, b) = 0
<1>1. x \in Int
  BY DEF Measured
<1>2. Unseen(e, b) = 0
  BY DEF Unseen, UnseenCash
<1>3. CashCredit(e, b) = IF b = a THEN -x ELSE 0
  BY DEF CashCredit
<1>4. ASSUME NEW v
      PROVE  /\ PrincipalCredit(e, v, b) = IF v = u /\ b = a THEN e.amount ELSE 0
             /\ ScaledCredit(e, "bToken", v, b) = 0
             /\ ScaledCredit(e, "vToken", v, b) = 0
  BY DEF PrincipalCredit, ScaledCredit, MintName, BurnName
<1>. QED
  BY <1>1, <1>2, <1>3, <1>4

LEMMA STokenBurnSays ==
    ASSUME NEW e, Measured(e), e.name = "STokenBurn", NEW b \in Assets, NEW a, a = e.address[2],
           NEW u, u = e.from, NEW x, x = e.amount + e.balanceIncrease
    PROVE  /\ CashCredit(e, b) + Unseen(e, b) = IF b = a THEN x ELSE 0
           /\ \A v : /\ PrincipalCredit(e, v, b) = IF v = u /\ b = a THEN -e.amount ELSE 0
                     /\ ScaledCredit(e, "bToken", v, b) = 0
                     /\ ScaledCredit(e, "vToken", v, b) = 0
<1>1. x \in Int
  BY DEF Measured
<1>2. Unseen(e, b) = 0
  BY DEF Unseen, UnseenCash
<1>3. CashCredit(e, b) = IF b = a THEN x ELSE 0
  BY DEF CashCredit
<1>4. ASSUME NEW v
      PROVE  /\ PrincipalCredit(e, v, b) = IF v = u /\ b = a THEN -e.amount ELSE 0
             /\ ScaledCredit(e, "bToken", v, b) = 0
             /\ ScaledCredit(e, "vToken", v, b) = 0
  BY DEF PrincipalCredit, ScaledCredit, MintName, BurnName
<1>. QED
  BY <1>1, <1>2, <1>3, <1>4

LEMMA TransferredInt ==
    ASSUME NEW e, Measured(e), e.name = "BalanceTransfer"
    PROVE  TransferredValue(e) \in Int
<1>1. e.value \in Nat /\ e.index \in Nat
  BY DEF Measured
<1>2. e.value * e.index \in Int
  BY <1>1
<1>. QED
  BY <1>1, <1>2 DEF TransferredValue

LEMMA BalanceTransferSays ==
    ASSUME NEW e, Measured(e), e.name = "BalanceTransfer", NEW b \in Assets,
           NEW a, a = e.address[2], NEW x, x = TransferredValue(e)
    PROVE  /\ CashCredit(e, b) + Unseen(e, b)
                = IF e.to \in HardCodedTreasuries /\ b = a THEN -x ELSE 0
           /\ \A v : /\ PrincipalCredit(e, v, b) = 0
                     /\ ScaledCredit(e, "vToken", v, b) = 0
                     /\ ScaledCredit(e, "bToken", v, b)
                          = IF v = e.from /\ b = a THEN -e.value
                            ELSE IF v = e.to /\ b = a THEN e.value ELSE 0
<1>1. x \in Int
  BY TransferredInt
<1>2. UnseenCash(e) = IF e.to \in HardCodedTreasuries THEN -x ELSE 0
  BY DEF UnseenCash
<1>3. AssetIn(e) = a
  BY DEF AssetIn
<1>4. CashCredit(e, b) = 0
  BY DEF CashCredit
<1>0. e.from # e.to
  BY DEF Measured
<1>5. ASSUME NEW v
      PROVE  /\ PrincipalCredit(e, v, b) = 0
             /\ ScaledCredit(e, "vToken", v, b) = 0
             /\ ScaledCredit(e, "bToken", v, b)
                  = IF v = e.from /\ b = a THEN -e.value
                    ELSE IF v = e.to /\ b = a THEN e.value ELSE 0
  BY <1>0 DEF PrincipalCredit, ScaledCredit, MintName, BurnName
<1>6. CashCredit(e, b) + Unseen(e, b) = IF e.to \in HardCodedTreasuries /\ b = a THEN -x ELSE 0
  BY <1>1, <1>2, <1>3, <1>4 DEF Unseen
<1>. QED
  BY <1>5, <1>6

\* What other events say.
LEMMA FlashLoanSays ==
    ASSUME NEW e, Measured(e), e.name = "FlashLoan", NEW b \in Assets
    PROVE  /\ CashCredit(e, b) + Unseen(e, b) = IF b = e.asset THEN e.premium ELSE 0
           /\ \A v : /\ PrincipalCredit(e, v, b) = 0
                     /\ ScaledCredit(e, "vToken", v, b) = 0
                     /\ ScaledCredit(e, "bToken", v, b) = 0
<1>1. e.premium \in Int
  BY DEF Measured
<1>2. Unseen(e, b) = 0
  BY DEF Unseen, UnseenCash
<1>3. CashCredit(e, b) = IF b = e.asset THEN e.premium ELSE 0
  BY DEF CashCredit
<1>4. ASSUME NEW v
      PROVE  /\ PrincipalCredit(e, v, b) = 0
             /\ ScaledCredit(e, "bToken", v, b) = 0
             /\ ScaledCredit(e, "vToken", v, b) = 0
  BY DEF PrincipalCredit, ScaledCredit, MintName, BurnName
<1>. QED
  BY <1>1, <1>2, <1>3, <1>4

LEMMA UnbackedSays ==
    ASSUME NEW e, Measured(e), e.name \in {"MintUnbacked", "BackUnbacked"}, NEW b \in Assets
    PROVE  /\ CashCredit(e, b) + Unseen(e, b) = 0
           /\ \A v : /\ PrincipalCredit(e, v, b) = 0
                     /\ ScaledCredit(e, "vToken", v, b) = 0
                     /\ ScaledCredit(e, "bToken", v, b) = 0
<1>1. ASSUME NEW v
      PROVE  /\ PrincipalCredit(e, v, b) = 0
             /\ ScaledCredit(e, "bToken", v, b) = 0
             /\ ScaledCredit(e, "vToken", v, b) = 0
  BY DEF PrincipalCredit, ScaledCredit, MintName, BurnName
<1>2. AssetIn(e) = e.reserve
  BY DEF AssetIn
<1>3. CASE e.name = "MintUnbacked"
  <2>1. e.amount \in Int
    BY <1>3 DEF Measured
  <2>2. CashCredit(e, b) = IF b = e.reserve THEN -e.amount ELSE 0
    BY <1>3 DEF CashCredit
  <2>3. UnseenCash(e) = e.amount
    BY <1>3 DEF UnseenCash
  <2>. QED
    BY <1>1, <1>2, <2>1, <2>2, <2>3 DEF Unseen
<1>4. CASE e.name = "BackUnbacked"
  <2>1. e.amount + e.fee \in Int
    BY <1>4 DEF Measured
  <2>2. CashCredit(e, b) = IF b = e.reserve THEN e.amount + e.fee ELSE 0
    BY <1>4 DEF CashCredit
  <2>3. UnseenCash(e) = -(e.amount + e.fee)
    BY <1>4 DEF UnseenCash
  <2>. QED
    BY <1>1, <1>2, <2>1, <2>2, <2>3 DEF Unseen
<1>. QED
  BY <1>3, <1>4

LEMMA OthersSay ==
    ASSUME NEW e, e.name \notin MoneyNames, NEW b \in Assets
    PROVE  /\ CashCredit(e, b) + Unseen(e, b) = 0
           /\ \A v : /\ PrincipalCredit(e, v, b) = 0
                     /\ ScaledCredit(e, "vToken", v, b) = 0
                     /\ ScaledCredit(e, "bToken", v, b) = 0
<1>1. CashCredit(e, b) = 0
  BY DEF CashCredit, MoneyNames
<1>2. Unseen(e, b) = 0
  BY DEF Unseen, UnseenCash, MoneyNames
<1>3. ASSUME NEW v
      PROVE  /\ PrincipalCredit(e, v, b) = 0
             /\ ScaledCredit(e, "bToken", v, b) = 0
             /\ ScaledCredit(e, "vToken", v, b) = 0
  BY DEF PrincipalCredit, ScaledCredit, MintName, BurnName, MoneyNames
<1>. QED
  BY <1>1, <1>2, <1>3

\* The pool answers with what it owes the treasury.
Answered(answers, due) ==
    \A a \in Assets : /\ answers.reserveData[a] # NotSet
                      /\ answers.reserveData[a].accruedToTreasury = due[a]
                      /\ due[a] \in Int

LEMMA TokenInPool ==
    ASSUME NEW ix, NEW R, NEW P, Keeping(ix, R, P), NEW e, e.address \in Tokens, NEW next
    PROVE  InPool(ix, e, next) = next
BY DEF InPool, Keeping, IsStore, Has, Emitters

LEMMA BTokenMintShifts ==
    ASSUME NEW ix, NEW R, NEW P, Keeping(ix, R, P), NEW e, Measured(e), e.name = "BTokenMint",
           NEW answers, NEW due, Answered(answers, due)
    PROVE  Shifted(handleBTokenMint(ix, e, answers), e, due, R, P)
<1>. DEFINE a == e.address[2]
            u == e.onBehalfOf
            x == Issued(e)
            g == graphRayDiv(x, e.index)
            nx == tokenMint(ix, e, answers, u, e.value, e.balanceIncrease)
            accrued == due[a]
            hard == u \in HardCodedTreasuries
<1>1. /\ e.address \in {"bToken"} \X Assets /\ a \in Assets /\ u \in Holders
      /\ e.value \in Int /\ e.balanceIncrease \in Int /\ e.index \in Nat \ {0}
  BY DEF Measured
<1>2. handleBTokenMint(ix, e, answers) = nx
  BY <1>1, TokenInPool DEF handleBTokenMint, Tokens
<1>3. x = e.value - e.balanceIncrease
  BY DEF Issued
<1>4. /\ answers.reserveData[a] # NotSet /\ accrued \in Int
      /\ accrued = answers.reserveData[a].accruedToTreasury
  BY <1>1 DEF Answered
<1>5. a = e.address[2] /\ u = e.onBehalfOf
  OBVIOUS
<1>6. x = Issued(e)
  OBVIOUS
<1>7. hard <=> u \in HardCodedTreasuries
  OBVIOUS
<1>8. hard => u \notin Users
  BY IndexingAssumption
<1>. HIDE DEF a, u, x, nx, accrued, hard
<1>9. /\ ~hard => Turned(nx, R, P, u, a, x, 0, accrued, g, 0, 0)
      /\ hard => Turned(nx, R, P, u, a, 0, 0, accrued, 0, 0, 0)
  BY <1>1, <1>3, <1>4, <1>5, <1>7, TokenMintTurns DEF nx
<1>. HIDE DEF g
<1>10. ASSUME NEW b \in Assets
       PROVE  /\ ~hard => CashCredit(e, b) + Unseen(e, b) = IF b = a THEN x ELSE 0
              /\ hard => CashCredit(e, b) + Unseen(e, b) = 0
  BY <1>5, <1>6, <1>7, BTokenMintSays
<1>11. ASSUME NEW v \in Users, NEW b \in Assets
       PROVE  /\ PrincipalCredit(e, v, b) = 0 /\ ScaledCredit(e, "vToken", v, b) = 0
              /\ ScaledCredit(e, "bToken", v, b) = IF v = u /\ b = a THEN g ELSE 0
  BY <1>5, <1>6, BTokenMintSays DEF g
<1>. DEFINE nothing == 0
<1>12. accrued = due[a]
  BY DEF accrued
<1>13. CASE hard
  <2>1. \A v \in Users, b \in Assets :
          /\ PrincipalCredit(e, v, b) = IF v = u /\ b = a THEN nothing ELSE 0
          /\ ScaledCredit(e, "vToken", v, b) = IF v = u /\ b = a THEN nothing ELSE 0
          /\ ScaledCredit(e, "bToken", v, b) = IF v = u /\ b = a THEN nothing ELSE 0
    BY <1>8, <1>11, <1>13
  <2>2. \A b \in Assets : CashCredit(e, b) + Unseen(e, b) = IF b = a THEN nothing ELSE 0
    BY <1>10, <1>13
  <2>3. Turned(nx, R, P, u, a, nothing, nothing, accrued, nothing, nothing, nothing)
    BY <1>9, <1>13
  <2>4. nothing = 0 /\ nothing \in Int
    OBVIOUS
  <2>. HIDE DEF nothing
  <2>5. Shifted(nx, e, due, R, P)
    BY <1>1, <1>5, <1>12, <2>1, <2>2, <2>3, <2>4, TurnedShifts
  <2>. QED
    BY <1>2, <2>5
<1>14. CASE ~hard
  <2>1. \A v \in Users, b \in Assets :
          /\ PrincipalCredit(e, v, b) = IF v = u /\ b = a THEN nothing ELSE 0
          /\ ScaledCredit(e, "vToken", v, b) = IF v = u /\ b = a THEN nothing ELSE 0
          /\ ScaledCredit(e, "bToken", v, b) = IF v = u /\ b = a THEN g ELSE 0
    BY <1>11
  <2>2. \A b \in Assets : CashCredit(e, b) + Unseen(e, b) = IF b = a THEN x ELSE 0
    BY <1>10, <1>14
  <2>3. Turned(nx, R, P, u, a, x, nothing, accrued, g, nothing, nothing)
    BY <1>9, <1>14
  <2>4. nothing = 0 /\ nothing \in Int
    OBVIOUS
  <2>. HIDE DEF nothing
  <2>5. Shifted(nx, e, due, R, P)
    BY <1>1, <1>5, <1>12, <2>1, <2>2, <2>3, <2>4, TurnedShifts
  <2>. QED
    BY <1>2, <2>5
<1>. QED
  BY <1>13, <1>14

LEMMA BTokenBurnShifts ==
    ASSUME NEW ix, NEW R, NEW P, Keeping(ix, R, P), NEW e, Measured(e), e.name = "BTokenBurn",
           NEW due
    PROVE  Shifted(handleBTokenBurn(ix, e), e, due, R, P)
<1>. DEFINE a == e.address[2]
            u == e.from
            x == Redeemed(e)
            cash == -x
            g == graphRayDiv(x, e.index)
            supplied == -g
            nothing == 0
            nx == tokenBurn(ix, e, u, e.value, e.balanceIncrease)
            accrued == R[a].accruedToTreasury
<1>1. /\ e.address \in {"bToken"} \X Assets /\ a \in Assets /\ u \in Holders /\ u \in Users
      /\ e.value \in Int /\ e.balanceIncrease \in Int /\ e.index \in Nat \ {0}
  BY UsersHold DEF Measured
<1>2. handleBTokenBurn(ix, e) = nx
  BY <1>1, TokenInPool DEF handleBTokenBurn, Tokens
<1>3. x = e.value + e.balanceIncrease /\ x = Redeemed(e)
  BY DEF Redeemed
<1>4. a = e.address[2] /\ u = e.from /\ nothing = 0 /\ nothing \in Int
      /\ accrued = R[a].accruedToTreasury
  OBVIOUS
<1>. HIDE DEF a, u, x
<1>5. Turned(nx, R, P, u, a, cash, nothing, accrued, supplied, nothing, nothing)
  BY <1>1, <1>3, <1>4, TokenBurnTurns
<1>6. \A b \in Assets : CashCredit(e, b) + Unseen(e, b) = IF b = a THEN cash ELSE 0
  BY <1>3, <1>4, BTokenBurnSays
<1>7. \A v \in Users, b \in Assets :
        /\ PrincipalCredit(e, v, b) = IF v = u /\ b = a THEN nothing ELSE 0
        /\ ScaledCredit(e, "vToken", v, b) = IF v = u /\ b = a THEN nothing ELSE 0
        /\ ScaledCredit(e, "bToken", v, b) = IF v = u /\ b = a THEN supplied ELSE 0
  <2>1. ASSUME NEW v \in Users, NEW b \in Assets
        PROVE  /\ PrincipalCredit(e, v, b) = 0 /\ ScaledCredit(e, "vToken", v, b) = 0
               /\ ScaledCredit(e, "bToken", v, b) = IF v = u /\ b = a THEN supplied ELSE 0
    BY <1>3, <1>4, BTokenBurnSays
  <2>. QED
    BY <2>1, <1>4
<1>. HIDE DEF nx, accrued, cash, supplied, nothing
<1>8. Shifted(nx, e, due, R, P)
  BY <1>1, <1>4, <1>5, <1>6, <1>7, TurnedShifts
<1>. QED
  BY <1>2, <1>8

LEMMA VTokenBurnShifts ==
    ASSUME NEW ix, NEW R, NEW P, Keeping(ix, R, P), NEW e, Measured(e), e.name = "VTokenBurn",
           NEW due
    PROVE  Shifted(handleVariableTokenBurn(ix, e), e, due, R, P)
<1>. DEFINE a == e.address[2]
            u == e.from
            x == Redeemed(e)
            nx == handleVariableTokenBurn(ix, e)
            cash == x
            scaled == -graphRayDiv(x, e.index)
            stable == 0
            nothing == 0
            accrued == R[a].accruedToTreasury
<1>1. /\ e.address \in {"vToken"} \X Assets /\ a \in Assets /\ u \in Holders /\ u \in Users
      /\ e.value \in Int /\ e.balanceIncrease \in Int /\ e.index \in Nat \ {0}
  BY UsersHold DEF Measured
<1>2. x = e.value + e.balanceIncrease /\ x = Redeemed(e)
  BY DEF Redeemed
<1>3. /\ a = e.address[2] /\ u = e.from /\ nothing = 0 /\ nothing \in Int
      /\ accrued = R[a].accruedToTreasury
  OBVIOUS
<1>4. scaled \in Int
  <2>. DEFINE g == graphRayDiv(x, e.index)
  <2>1. g \in Int
    BY <1>1, <1>2, GraphRayDivInt
  <2>2. scaled = -g
    OBVIOUS
  <2>. HIDE DEF g, scaled
  <2>. QED
    BY <2>1, <2>2
<1>. HIDE DEF a, u, x, nx
<1>5. Turned(nx, R, P, u, a, cash, scaled, accrued, nothing, scaled, stable)
  BY <1>1, <1>2, <1>3, VariableBurnTurns DEF nx
<1>6. \A b \in Assets : CashCredit(e, b) + Unseen(e, b) = IF b = a THEN cash ELSE 0
  BY <1>2, <1>3, VTokenBurnSays
<1>7. \A v \in Users, b \in Assets :
        /\ PrincipalCredit(e, v, b) = IF v = u /\ b = a THEN stable ELSE 0
        /\ ScaledCredit(e, "vToken", v, b) = IF v = u /\ b = a THEN scaled ELSE 0
        /\ ScaledCredit(e, "bToken", v, b) = IF v = u /\ b = a THEN nothing ELSE 0
  <2>1. ASSUME NEW v \in Users, NEW b \in Assets
        PROVE  /\ PrincipalCredit(e, v, b) = 0
               /\ ScaledCredit(e, "vToken", v, b) = IF v = u /\ b = a THEN scaled ELSE 0
               /\ ScaledCredit(e, "bToken", v, b) = 0
    BY <1>2, <1>3, VTokenBurnSays
  <2>. QED
    BY <2>1, <1>3
<1>. HIDE DEF accrued, cash, scaled, stable, nothing
<1>8. Shifted(nx, e, due, R, P)
  BY <1>1, <1>3, <1>4, <1>5, <1>6, <1>7, TurnedShifts
<1>. QED
  BY <1>8 DEF nx

LEMMA VTokenMintShifts ==
    ASSUME NEW ix, NEW R, NEW P, Keeping(ix, R, P), NEW e, Measured(e), e.name = "VTokenMint",
           NEW due
    PROVE  Shifted(handleVariableTokenMint(ix, e), e, due, R, P)
<1>. DEFINE a == e.address[2]
            u == e.onBehalfOf
            x == Issued(e)
            nx == handleVariableTokenMint(ix, e)
            cash == -x
            scaled == graphRayDiv(x, e.index)
            stable == 0
            nothing == 0
            accrued == R[a].accruedToTreasury
<1>1. /\ e.address \in {"vToken"} \X Assets /\ a \in Assets /\ u \in Holders /\ u \in Users
      /\ e.value \in Int /\ e.balanceIncrease \in Int /\ e.index \in Nat \ {0}
  BY UsersHold DEF Measured
<1>2. x = e.value - e.balanceIncrease /\ x = Issued(e)
  BY DEF Issued
<1>3. /\ a = e.address[2] /\ u = e.onBehalfOf /\ nothing = 0 /\ nothing \in Int
      /\ accrued = R[a].accruedToTreasury
  OBVIOUS
<1>4. scaled \in Int
  BY <1>1, <1>2, GraphRayDivInt
<1>. HIDE DEF a, u, x, nx
<1>5. Turned(nx, R, P, u, a, cash, scaled, accrued, nothing, scaled, stable)
  BY <1>1, <1>2, <1>3, VariableMintTurns DEF nx
<1>6. \A b \in Assets : CashCredit(e, b) + Unseen(e, b) = IF b = a THEN cash ELSE 0
  BY <1>2, <1>3, VTokenMintSays
<1>7. \A v \in Users, b \in Assets :
        /\ PrincipalCredit(e, v, b) = IF v = u /\ b = a THEN stable ELSE 0
        /\ ScaledCredit(e, "vToken", v, b) = IF v = u /\ b = a THEN scaled ELSE 0
        /\ ScaledCredit(e, "bToken", v, b) = IF v = u /\ b = a THEN nothing ELSE 0
  <2>1. ASSUME NEW v \in Users, NEW b \in Assets
        PROVE  /\ PrincipalCredit(e, v, b) = 0
               /\ ScaledCredit(e, "vToken", v, b) = IF v = u /\ b = a THEN scaled ELSE 0
               /\ ScaledCredit(e, "bToken", v, b) = 0
    BY <1>2, <1>3, VTokenMintSays
  <2>. QED
    BY <2>1, <1>3
<1>. HIDE DEF accrued, cash, scaled, stable, nothing
<1>8. Shifted(nx, e, due, R, P)
  BY <1>1, <1>3, <1>4, <1>5, <1>6, <1>7, TurnedShifts
<1>. QED
  BY <1>8 DEF nx

LEMMA STokenMintShifts ==
    ASSUME NEW ix, NEW R, NEW P, Keeping(ix, R, P), NEW e, Measured(e), e.name = "STokenMint",
           NEW due
    PROVE  Shifted(handleStableTokenMint(ix, e), e, due, R, P)
<1>. DEFINE a == e.address[2]
            u == e.onBehalfOf
            x == e.amount - e.balanceIncrease
            nx == handleStableTokenMint(ix, e)
            cash == -x
            scaled == 0
            stable == e.amount
            nothing == 0
            accrued == R[a].accruedToTreasury
<1>1. /\ e.address \in {"sToken"} \X Assets /\ a \in Assets /\ u \in Holders /\ u \in Users
      /\ e.amount \in Int /\ e.balanceIncrease \in Int /\ e.newTotalSupply \in Int
  BY UsersHold DEF Measured
<1>2. x = e.amount - e.balanceIncrease
  BY DEF x
<1>3. /\ a = e.address[2] /\ u = e.onBehalfOf /\ nothing = 0 /\ nothing \in Int
      /\ accrued = R[a].accruedToTreasury
  OBVIOUS
<1>4. scaled \in Int
  OBVIOUS
<1>. HIDE DEF a, u, x, nx
<1>5. Turned(nx, R, P, u, a, cash, scaled, accrued, nothing, scaled, stable)
  BY <1>1, <1>2, <1>3, StableMintTurns DEF nx
<1>6. \A b \in Assets : CashCredit(e, b) + Unseen(e, b) = IF b = a THEN cash ELSE 0
  BY <1>2, <1>3, STokenMintSays
<1>7. \A v \in Users, b \in Assets :
        /\ PrincipalCredit(e, v, b) = IF v = u /\ b = a THEN stable ELSE 0
        /\ ScaledCredit(e, "vToken", v, b) = IF v = u /\ b = a THEN scaled ELSE 0
        /\ ScaledCredit(e, "bToken", v, b) = IF v = u /\ b = a THEN nothing ELSE 0
  <2>1. ASSUME NEW v \in Users, NEW b \in Assets
        PROVE  /\ PrincipalCredit(e, v, b) = IF v = u /\ b = a THEN stable ELSE 0
               /\ ScaledCredit(e, "vToken", v, b) = 0
               /\ ScaledCredit(e, "bToken", v, b) = 0
    BY <1>2, <1>3, STokenMintSays
  <2>. QED
    BY <2>1, <1>3
<1>. HIDE DEF accrued, cash, scaled, stable, nothing
<1>8. Shifted(nx, e, due, R, P)
  BY <1>1, <1>3, <1>4, <1>5, <1>6, <1>7, TurnedShifts
<1>. QED
  BY <1>8 DEF nx

LEMMA STokenBurnShifts ==
    ASSUME NEW ix, NEW R, NEW P, Keeping(ix, R, P), NEW e, Measured(e), e.name = "STokenBurn",
           NEW due
    PROVE  Shifted(handleStableTokenBurn(ix, e), e, due, R, P)
<1>. DEFINE a == e.address[2]
            u == e.from
            x == e.amount + e.balanceIncrease
            nx == handleStableTokenBurn(ix, e)
            cash == x
            scaled == 0
            stable == -e.amount
            nothing == 0
            accrued == R[a].accruedToTreasury
<1>1. /\ e.address \in {"sToken"} \X Assets /\ a \in Assets /\ u \in Holders /\ u \in Users
      /\ e.amount \in Int /\ e.balanceIncrease \in Int /\ e.newTotalSupply \in Int
  BY UsersHold DEF Measured
<1>2. x = e.amount + e.balanceIncrease
  BY DEF x
<1>3. /\ a = e.address[2] /\ u = e.from /\ nothing = 0 /\ nothing \in Int
      /\ accrued = R[a].accruedToTreasury
  OBVIOUS
<1>4. scaled \in Int
  OBVIOUS
<1>. HIDE DEF a, u, x, nx
<1>5. Turned(nx, R, P, u, a, cash, scaled, accrued, nothing, scaled, stable)
  BY <1>1, <1>2, <1>3, StableBurnTurns DEF nx
<1>6. \A b \in Assets : CashCredit(e, b) + Unseen(e, b) = IF b = a THEN cash ELSE 0
  BY <1>2, <1>3, STokenBurnSays
<1>7. \A v \in Users, b \in Assets :
        /\ PrincipalCredit(e, v, b) = IF v = u /\ b = a THEN stable ELSE 0
        /\ ScaledCredit(e, "vToken", v, b) = IF v = u /\ b = a THEN scaled ELSE 0
        /\ ScaledCredit(e, "bToken", v, b) = IF v = u /\ b = a THEN nothing ELSE 0
  <2>1. ASSUME NEW v \in Users, NEW b \in Assets
        PROVE  /\ PrincipalCredit(e, v, b) = IF v = u /\ b = a THEN stable ELSE 0
               /\ ScaledCredit(e, "vToken", v, b) = 0
               /\ ScaledCredit(e, "bToken", v, b) = 0
    BY <1>2, <1>3, STokenBurnSays
  <2>. QED
    BY <2>1, <1>3
<1>. HIDE DEF accrued, cash, scaled, stable, nothing
<1>8. Shifted(nx, e, due, R, P)
  BY <1>1, <1>3, <1>4, <1>5, <1>6, <1>7, TurnedShifts
<1>. QED
  BY <1>8 DEF nx

LEMMA BalanceTransferShifts ==
    ASSUME NEW ix, NEW R, NEW P, Keeping(ix, R, P), NEW e, Measured(e),
           e.name = "BalanceTransfer", NEW answers, NEW due, Answered(answers, due)
    PROVE  Shifted(handleBalanceTransfer(ix, e, answers), e, due, R, P)
<1>. DEFINE a == e.address[2]
            x == TransferredValue(e)
            g == graphRayDiv(x, e.index)
            known == e.to \in HardCodedTreasuries
            accrued == due[a]
            given == IF known THEN 0 ELSE g
            nx == handleBalanceTransfer(ix, e, answers)
<1>1. /\ e.address \in {"bToken"} \X Assets /\ a \in Assets /\ e.from \in Users
      /\ e.to \in Holders /\ e.from # e.to /\ e.value \in Nat /\ e.index \in Nat \ {0}
  BY DEF Measured
<1>2. /\ answers.reserveData[a] # NotSet /\ accrued \in Int
      /\ accrued = answers.reserveData[a].accruedToTreasury
  BY <1>1 DEF Answered
<1>3. a = e.address[2] /\ x = TransferredValue(e) /\ accrued = due[a] /\ e.name # "BTokenMint"
  OBVIOUS
<1>4. x \in Int
  BY TransferredInt
<1>5. g \in Int
  BY <1>1, <1>4, GraphRayDivInt
<1>6. known => e.to \notin Users
  BY IndexingAssumption
<1>7. known = (e.to \in HardCodedTreasuries)
  OBVIOUS
<1>. HIDE DEF a, x, accrued
<1>8. \E S, Q, T, W :
         /\ Keeping(handleBalanceTransfer(ix, e, answers), T, W)
         /\ ReservesTurn(R, S, a, -x, 0, R[a].accruedToTreasury)
         /\ PositionsTurn(P, Q, e.from, a, -graphRayDiv(x, e.index), 0, 0)
         /\ \A b \in Assets :
              S[b].availableLiquidity \in Int /\ S[b].totalScaledVariableDebt \in Int
         /\ ReservesTurn(S, T, a, IF e.to \in HardCodedTreasuries THEN 0 ELSE x, 0, accrued)
         /\ PositionsTurn(Q, W, e.to, a, IF e.to \in HardCodedTreasuries THEN 0
                                         ELSE graphRayDiv(x, e.index), 0, 0)
  BY <1>1, <1>2, <1>3, TransferTurns, ZenonT(60)
<1>9. PICK S, Q, T, W :
             /\ Keeping(nx, T, W)
             /\ ReservesTurn(R, S, a, -x, 0, R[a].accruedToTreasury)
             /\ PositionsTurn(P, Q, e.from, a, -g, 0, 0)
             /\ \A b \in Assets :
                  S[b].availableLiquidity \in Int /\ S[b].totalScaledVariableDebt \in Int
             /\ ReservesTurn(S, T, a, IF known THEN 0 ELSE x, 0, accrued)
             /\ PositionsTurn(Q, W, e.to, a, given, 0, 0)
  BY <1>8, Zenon
<1>. HIDE DEF g, nx, given, known
<1>10. ASSUME NEW b \in Assets
      PROVE  CashCredit(e, b) + Unseen(e, b) = IF known /\ b = a THEN -x ELSE 0
  BY <1>3, <1>7, BalanceTransferSays
<1>11. ReserveShift(e, due, R, T)
  <2>1. ASSUME NEW b \in Assets
        PROVE  /\ T[b].availableLiquidity
                    = R[b].availableLiquidity + (CashCredit(e, b) + Unseen(e, b))
               /\ T[b].accruedToTreasury \in {R[b].accruedToTreasury, due[b]}
    <3>1. /\ S[b].availableLiquidity = R[b].availableLiquidity + (IF b = a THEN -x ELSE 0)
          /\ T[b].availableLiquidity
               = S[b].availableLiquidity + (IF b = a THEN IF known THEN 0 ELSE x ELSE 0)
          /\ S[b].accruedToTreasury
               = IF b = a THEN R[a].accruedToTreasury ELSE R[b].accruedToTreasury
          /\ T[b].accruedToTreasury = IF b = a THEN accrued ELSE S[b].accruedToTreasury
      BY <1>9 DEF ReservesTurn
    <3>2. R[b].availableLiquidity \in Int
      BY FigureInt
    <3>3. T[b].accruedToTreasury \in {R[b].accruedToTreasury, due[b]}
      BY <1>3, <3>1
    <3>4. T[b].availableLiquidity
            = R[b].availableLiquidity + (IF known /\ b = a THEN -x ELSE 0)
      <4>1. CASE b = a /\ known
        BY <1>4, <3>1, <3>2, <4>1
      <4>2. CASE b = a /\ ~known
        BY <1>4, <3>1, <3>2, <4>2
      <4>3. CASE b # a
        BY <1>4, <3>1, <3>2, <4>3
      <4>. QED
        BY <4>1, <4>2, <4>3
    <3>. QED
      BY <1>10, <3>3, <3>4
  <2>. QED
    BY <1>3, <2>1 DEF ReserveShift
<1>12. ASSUME NEW v \in Users, NEW b \in Assets, NEW id, id = <<v, b, Provider>>
       PROVE  /\ W[id].principalStableDebt = P[id].principalStableDebt
              /\ W[id].scaledVariableDebt = P[id].scaledVariableDebt
              /\ W[id].scaledBTokenBalance
                   = P[id].scaledBTokenBalance
                       + (IF v = e.from /\ b = a THEN -g ELSE IF v = e.to /\ b = a THEN g ELSE 0)
  <2>1. id \in Ids
    BY <1>12, UserIds
  <2>2. /\ id = <<e.from, a, Provider>> <=> v = e.from /\ b = a
        /\ id = <<e.to, a, Provider>> <=> v = e.to /\ b = a
    BY <1>12
  <2>3. /\ P[id].scaledBTokenBalance \in Int /\ P[id].scaledVariableDebt \in Int
        /\ P[id].principalStableDebt \in Int
    BY <2>1, PositionInt
  <2>4. /\ Q[id].scaledBTokenBalance
             = P[id].scaledBTokenBalance + (IF id = <<e.from, a, Provider>> THEN -g ELSE 0)
        /\ Q[id].scaledVariableDebt
             = P[id].scaledVariableDebt + (IF id = <<e.from, a, Provider>> THEN 0 ELSE 0)
        /\ Q[id].principalStableDebt
             = P[id].principalStableDebt + (IF id = <<e.from, a, Provider>> THEN 0 ELSE 0)
    BY <1>9, <2>1, Zenon DEF PositionsTurn
  <2>5. /\ W[id].scaledBTokenBalance
             = Q[id].scaledBTokenBalance + (IF id = <<e.to, a, Provider>> THEN given ELSE 0)
        /\ W[id].scaledVariableDebt
             = Q[id].scaledVariableDebt + (IF id = <<e.to, a, Provider>> THEN 0 ELSE 0)
        /\ W[id].principalStableDebt
             = Q[id].principalStableDebt + (IF id = <<e.to, a, Provider>> THEN 0 ELSE 0)
    BY <1>9, <2>1, Zenon DEF PositionsTurn
  <2>. DEFINE p == P[id]
              q == Q[id]
              w == W[id]
  <2>6. /\ w.scaledVariableDebt = p.scaledVariableDebt
        /\ w.principalStableDebt = p.principalStableDebt
    BY <2>3, <2>4, <2>5
  <2>7. v = e.to => given = g
    BY <1>6 DEF given
  <2>8. w.scaledBTokenBalance
          = p.scaledBTokenBalance
              + (IF v = e.from /\ b = a THEN -g ELSE IF v = e.to /\ b = a THEN g ELSE 0)
    <3>1. CASE v = e.from /\ b = a
      BY <1>1, <1>5, <2>2, <2>3, <2>4, <2>5, <3>1
    <3>2. CASE v = e.to /\ b = a
      BY <1>1, <1>5, <2>2, <2>3, <2>4, <2>5, <2>7, <3>2
    <3>3. CASE ~(v = e.from /\ b = a) /\ ~(v = e.to /\ b = a)
      BY <2>2, <2>3, <2>4, <2>5, <3>3
    <3>. QED
      BY <3>1, <3>2, <3>3
  <2>. QED
    BY <2>6, <2>8
<1>13. ASSUME NEW v \in Users, NEW b \in Assets, NEW id, id = <<v, b, Provider>>
       PROVE  /\ W[id].principalStableDebt = P[id].principalStableDebt + PrincipalCredit(e, v, b)
              /\ W[id].scaledVariableDebt
                   = P[id].scaledVariableDebt + ScaledCredit(e, "vToken", v, b)
              /\ ~MisreadAt(e, v, b) =>
                   W[id].scaledBTokenBalance
                     = P[id].scaledBTokenBalance + ScaledCredit(e, "bToken", v, b)
  <2>1. /\ PrincipalCredit(e, v, b) = 0 /\ ScaledCredit(e, "vToken", v, b) = 0
        /\ ScaledCredit(e, "bToken", v, b)
             = IF v = e.from /\ b = a THEN -e.value
               ELSE IF v = e.to /\ b = a THEN e.value ELSE 0
    BY <1>3, BalanceTransferSays
  <2>2. /\ P[id].scaledBTokenBalance \in Int /\ P[id].scaledVariableDebt \in Int
        /\ P[id].principalStableDebt \in Int
    BY <1>13, UserIds, PositionInt
  <2>3. /\ W[id].principalStableDebt = P[id].principalStableDebt
        /\ W[id].scaledVariableDebt = P[id].scaledVariableDebt
        /\ W[id].scaledBTokenBalance
             = P[id].scaledBTokenBalance
                 + (IF v = e.from /\ b = a THEN -g ELSE IF v = e.to /\ b = a THEN g ELSE 0)
    BY <1>12, <1>13
  <2>4. ~MisreadAt(e, v, b) /\ v \in {e.from, e.to} /\ b = a => g = e.value
    BY <1>3 DEF MisreadAt, Misread, g
  <2>. QED
    BY <2>1, <2>2, <2>3, <2>4
<1>14. PositionShift(e, P, W)
  BY <1>13, Zenon DEF PositionShift
<1>15. DebtShift(R, P, T, W)
  <2>1. ASSUME NEW b \in Assets
        PROVE  T[b].totalScaledVariableDebt = R[b].totalScaledVariableDebt
    <3>1. /\ S[b].totalScaledVariableDebt
               = R[b].totalScaledVariableDebt + (IF b = a THEN 0 ELSE 0)
          /\ T[b].totalScaledVariableDebt
               = S[b].totalScaledVariableDebt + (IF b = a THEN 0 ELSE 0)
      BY <1>9 DEF ReservesTurn
    <3>. QED
      BY <3>1, FigureInt
  <2>2. ASSUME NEW v \in Users, NEW b \in Assets
        PROVE  W[<<v, b, Provider>>].scaledVariableDebt = P[<<v, b, Provider>>].scaledVariableDebt
    BY <1>12
  <2>. QED
    BY <2>1, <2>2 DEF DebtShift
<1>. QED
  BY <1>9, <1>11, <1>14, <1>15 DEF Shifted, nx

\* Only the cash of one asset moves, if any.
LEMMA CashShifts ==
    ASSUME NEW ix, NEW R, NEW P, Keeping(ix, R, P), NEW nx, NEW u \in Holders, NEW a \in Assets,
           NEW cash, Turned(nx, R, P, u, a, cash, 0, R[a].accruedToTreasury, 0, 0, 0),
           NEW e, NEW due, e.name # "BTokenMint",
           \A b \in Assets : CashCredit(e, b) + Unseen(e, b) = IF b = a THEN cash ELSE 0,
           \A v \in Users, b \in Assets :
             /\ PrincipalCredit(e, v, b) = 0 /\ ScaledCredit(e, "vToken", v, b) = 0
             /\ ScaledCredit(e, "bToken", v, b) = 0
    PROVE  Shifted(nx, e, due, R, P)
<1>. DEFINE nothing == 0
            accrued == R[a].accruedToTreasury
<1>1. nothing = 0 /\ nothing \in Int /\ accrued \in {R[a].accruedToTreasury, due[a]}
  OBVIOUS
<1>2. \A v \in Users, b \in Assets :
        /\ PrincipalCredit(e, v, b) = IF v = u /\ b = a THEN nothing ELSE 0
        /\ ScaledCredit(e, "vToken", v, b) = IF v = u /\ b = a THEN nothing ELSE 0
        /\ ScaledCredit(e, "bToken", v, b) = IF v = u /\ b = a THEN nothing ELSE 0
  OBVIOUS
<1>3. Turned(nx, R, P, u, a, cash, nothing, accrued, nothing, nothing, nothing)
  OBVIOUS
<1>. HIDE DEF nothing, accrued
<1>. QED
  BY <1>1, <1>2, <1>3, TurnedShifts

LEMMA FlashLoanShifts ==
    ASSUME NEW ix, NEW R, NEW P, Keeping(ix, R, P), NEW e, Measured(e), Fits(e),
           e.name = "FlashLoan", NEW due
    PROVE  Shifted(handleFlashLoan(ix, e), e, due, R, P)
<1>. DEFINE a == e.asset
            cash == e.premium
            nx == handleFlashLoan(ix, e)
<1>1. a \in Assets /\ cash \in Int /\ e.address \in Emitters
      /\ ix.pools[Provider].flashloanPremiumToProtocol # NotSet
  BY DEF Measured, Fits, Keeping, IsStore
<1>2. Treasury \in Holders /\ a = e.asset /\ cash = e.premium
  BY DEF Holders
<1>3. Turned(nx, R, P, Treasury, a, cash, 0, R[a].accruedToTreasury, 0, 0, 0)
  BY <1>1, <1>2, FlashLoanTurns
<1>4. /\ \A b \in Assets : CashCredit(e, b) + Unseen(e, b) = IF b = a THEN cash ELSE 0
      /\ \A v \in Users, b \in Assets :
           /\ PrincipalCredit(e, v, b) = 0 /\ ScaledCredit(e, "vToken", v, b) = 0
           /\ ScaledCredit(e, "bToken", v, b) = 0
  BY <1>2, FlashLoanSays
<1>. HIDE DEF a, cash, nx
<1>5. Shifted(nx, e, due, R, P)
  BY <1>1, <1>2, <1>3, <1>4, CashShifts
<1>. QED
  BY <1>5 DEF nx

\* Nothing of the amounts moves, but something else of the reserve or the position.
LEMMA OtherTurnShifts ==
    ASSUME NEW ix, NEW R, NEW P, Keeping(ix, R, P), NEW nx, NEW u \in Holders, NEW a \in Assets,
           Turned(nx, R, P, u, a, 0, 0, R[a].accruedToTreasury, 0, 0, 0),
           NEW e, NEW due, e.name \notin MoneyNames
    PROVE  Shifted(nx, e, due, R, P)
<1>. DEFINE cash == 0
<1>1. e.name # "BTokenMint"
  BY DEF MoneyNames
<1>2. /\ \A b \in Assets : CashCredit(e, b) + Unseen(e, b) = IF b = a THEN cash ELSE 0
      /\ \A v \in Users, b \in Assets :
           /\ PrincipalCredit(e, v, b) = 0 /\ ScaledCredit(e, "vToken", v, b) = 0
           /\ ScaledCredit(e, "bToken", v, b) = 0
  BY OthersSay
<1>3. Turned(nx, R, P, u, a, cash, 0, R[a].accruedToTreasury, 0, 0, 0)
  OBVIOUS
<1>. HIDE DEF cash
<1>. QED
  BY <1>1, <1>2, <1>3, CashShifts

LEMMA OtherShifts ==
    ASSUME NEW ix, NEW R, NEW P, Keeping(ix, R, P), NEW nx, Keeping(nx, R, P),
           NEW e, NEW due, e.name \notin MoneyNames
    PROVE  Shifted(nx, e, due, R, P)
<1>1. e.name # "BTokenMint"
  BY DEF MoneyNames
<1>2. /\ \A b \in Assets : CashCredit(e, b) + Unseen(e, b) = 0
      /\ \A v \in Users, b \in Assets :
           /\ PrincipalCredit(e, v, b) = 0 /\ ScaledCredit(e, "vToken", v, b) = 0
           /\ ScaledCredit(e, "bToken", v, b) = 0
  BY OthersSay
<1>. QED
  BY <1>1, <1>2, KeptShifts

LEMMA UnbackedShifts ==
    ASSUME NEW ix, NEW R, NEW P, Keeping(ix, R, P), NEW nx, Keeping(nx, R, P),
           NEW e, Measured(e), e.name \in {"MintUnbacked", "BackUnbacked"}, NEW due
    PROVE  Shifted(nx, e, due, R, P)
<1>1. e.name # "BTokenMint"
  OBVIOUS
<1>2. /\ \A b \in Assets : CashCredit(e, b) + Unseen(e, b) = 0
      /\ \A v \in Users, b \in Assets :
           /\ PrincipalCredit(e, v, b) = 0 /\ ScaledCredit(e, "vToken", v, b) = 0
           /\ ScaledCredit(e, "bToken", v, b) = 0
  BY UnbackedSays
<1>. QED
  BY <1>1, <1>2, KeptShifts

LEMMA SwitchShifts ==
    ASSUME NEW ix, NEW R, NEW P, Keeping(ix, R, P), NEW e, Measured(e), Fits(e),
           e.name \in SwitchNames, NEW due
    PROVE  /\ Shifted(handleReserveUsedAsCollateralEnabled(ix, e), e, due, R, P)
           /\ Shifted(handleReserveUsedAsCollateralDisabled(ix, e), e, due, R, P)
<1>. DEFINE a == e.reserve
            u == e.user
<1>1. a \in Assets /\ u \in Users /\ u \in Holders /\ e.address \in Emitters
      /\ e.name \notin MoneyNames
  BY UsersHold DEF Measured, Fits, SwitchNames, MoneyNames
<1>2. a = e.reserve /\ u = e.user
  OBVIOUS
<1>. HIDE DEF a, u
<1>3. ASSUME NEW enabled \in BOOLEAN
      PROVE  Shifted(UseAsCollateral(ix, e, enabled), e, due, R, P)
  <2>1. Turned(UseAsCollateral(ix, e, enabled), R, P, u, a,
               0, 0, R[a].accruedToTreasury, 0, 0, 0)
    BY <1>1, <1>2, UseAsCollateralTurns
  <2>. QED
    BY <1>1, <2>1, OtherTurnShifts
<1>4. Has(ix.contractToPool, e.address)
  BY <1>1 DEF Keeping, IsStore, Has
<1>. QED
  BY <1>3, <1>4 DEF handleReserveUsedAsCollateralEnabled, handleReserveUsedAsCollateralDisabled,
                    InPool

LEMMA DataUpdatedShifts ==
    ASSUME NEW ix, NEW R, NEW P, Keeping(ix, R, P), NEW e, Measured(e), Fits(e),
           e.name = "ReserveDataUpdated", NEW due
    PROVE  Shifted(handleReserveDataUpdated(ix, e), e, due, R, P)
<1>. DEFINE a == e.reserve
            nx == handleReserveDataUpdated(ix, e)
<1>1. a \in Assets /\ e.liquidityIndex \in Int /\ e.variableBorrowIndex \in Int
      /\ e.address \in Emitters /\ Treasury \in Holders /\ e.name \notin MoneyNames
  BY DEF Measured, Fits, MoneyNames, Holders
<1>2. a = e.reserve
  OBVIOUS
<1>3. Turned(nx, R, P, Treasury, a, 0, 0, R[a].accruedToTreasury, 0, 0, 0)
  BY <1>1, <1>2, DataUpdatedTurns
<1>. HIDE DEF a, nx
<1>4. Shifted(nx, e, due, R, P)
  BY <1>1, <1>3, OtherTurnShifts
<1>. QED
  BY <1>4 DEF nx

-------------------------------------------------------------------------------
(* The turn of the index.                                                 *)

\* What the handler of the next event makes of the numbers of the index, unless it halts.
Tells(next, R, P) == next.halted \/ Shifted(next, event, market.accrued, R, P)

LEMMA IndexTells ==
    ASSUME NEW name, NEW next, NEW R, NEW P, Index(name, next),
           event.name = name => Tells(next, R, P)
    PROVE  \E n : Index(event.name, n) /\ Tells(n, R, P)
BY Zenon DEF Index

\* The contracts answer with what the pool owes the treasury.
LEMMA ChainAnswers ==
    ASSUME \A a \in Assets : market.accrued[a] \in Nat
    PROVE  Answered(chain, market.accrued)
<1>1. ASSUME NEW a \in Assets, NEW due, due = market.accrued[a]
      PROVE  /\ chain.reserveData[a] # NotSet
             /\ chain.reserveData[a].accruedToTreasury = due
             /\ due \in Int
  <2>1. due \in Nat /\ chain.reserveData[a] = [accruedToTreasury |-> due]
    BY <1>1 DEF chain
  <2>2. [accruedToTreasury |-> due] \in [accruedToTreasury : Nat]
    BY <2>1
  <2>3. chain.reserveData[a] # NotSet
    BY <2>1, <2>2, IndexingAssumption, Zenon
  <2>. QED
    BY <2>1, <2>3
<1>. QED
  BY <1>1 DEF Answered

LEMMA TokenEventTells ==
    ASSUME IndexTokenEvent, Fits(event), Measured(event), Answered(chain, market.accrued),
           NEW R, NEW P, Keeping(index, R, P)
    PROVE  \E n : Index(event.name, n) /\ Tells(n, R, P)
<1>1. CASE Index("BTokenMint", handleBTokenMint(index, event, chain))
  <2>1. event.name = "BTokenMint" => Tells(handleBTokenMint(index, event, chain), R, P)
    BY BTokenMintShifts, Zenon DEF Tells
  <2>. QED
    BY <1>1, <2>1, IndexTells
<1>2. CASE Index("BTokenBurn", handleBTokenBurn(index, event))
  <2>1. event.name = "BTokenBurn" => Tells(handleBTokenBurn(index, event), R, P)
    BY BTokenBurnShifts, Zenon DEF Tells
  <2>. QED
    BY <1>2, <2>1, IndexTells
<1>3. CASE Index("BalanceTransfer", handleBalanceTransfer(index, event, chain))
  <2>1. event.name = "BalanceTransfer" => Tells(handleBalanceTransfer(index, event, chain), R, P)
    BY BalanceTransferShifts, Zenon DEF Tells
  <2>. QED
    BY <1>3, <2>1, IndexTells
<1>4. CASE Index("VTokenMint", handleVariableTokenMint(index, event))
  <2>1. event.name = "VTokenMint" => Tells(handleVariableTokenMint(index, event), R, P)
    BY VTokenMintShifts, Zenon DEF Tells
  <2>. QED
    BY <1>4, <2>1, IndexTells
<1>5. CASE Index("VTokenBurn", handleVariableTokenBurn(index, event))
  <2>1. event.name = "VTokenBurn" => Tells(handleVariableTokenBurn(index, event), R, P)
    BY VTokenBurnShifts, Zenon DEF Tells
  <2>. QED
    BY <1>5, <2>1, IndexTells
<1>6. CASE Index("STokenMint", handleStableTokenMint(index, event))
  <2>1. event.name = "STokenMint" => Tells(handleStableTokenMint(index, event), R, P)
    BY STokenMintShifts, Zenon DEF Tells
  <2>. QED
    BY <1>6, <2>1, IndexTells
<1>7. CASE Index("STokenBurn", handleStableTokenBurn(index, event))
  <2>1. event.name = "STokenBurn" => Tells(handleStableTokenBurn(index, event), R, P)
    BY STokenBurnShifts, Zenon DEF Tells
  <2>. QED
    BY <1>7, <2>1, IndexTells
<1>8. CASE Index("SBorrowAllowanceDelegated",
                handleStableTokenBorrowAllowanceDelegated(index, event))
  <2>1. event.name = "SBorrowAllowanceDelegated" =>
          Tells(handleStableTokenBorrowAllowanceDelegated(index, event), R, P)
    <3>1. "SBorrowAllowanceDelegated" \notin MoneyNames
      BY DEF MoneyNames
    <3>. QED
      BY <3>1, AllowanceKeeping, OtherShifts, Zenon DEF Tells
  <2>. QED
    BY <1>8, <2>1, IndexTells
<1>9. CASE Index("VBorrowAllowanceDelegated",
                handleVariableTokenBorrowAllowanceDelegated(index, event))
  <2>1. event.name = "VBorrowAllowanceDelegated" =>
          Tells(handleVariableTokenBorrowAllowanceDelegated(index, event), R, P)
    <3>1. "VBorrowAllowanceDelegated" \notin MoneyNames
      BY DEF MoneyNames
    <3>. QED
      BY <3>1, AllowanceKeeping, OtherShifts, Zenon DEF Tells
  <2>. QED
    BY <1>9, <2>1, IndexTells
<1>. QED
  BY <1>1, <1>2, <1>3, <1>4, <1>5, <1>6, <1>7, <1>8, <1>9 DEF IndexTokenEvent

\* The calls whose events speak of what the tokens have already told.
LEMMA PlainEventTells ==
    ASSUME Fits(event), Measured(event), NEW R, NEW P, Keeping(index, R, P), NEW name,
           NEW next, Index(name, next), name \notin MoneyNames,
           event.name = name => Keeping(next, R, P)
    PROVE  \E n : Index(event.name, n) /\ Tells(n, R, P)
<1>1. event.name = name => Tells(next, R, P)
  BY OtherShifts DEF Tells
<1>. QED
  BY <1>1, IndexTells

LEMMA PoolEventTells ==
    ASSUME IndexPoolEvent, Fits(event), Measured(event), NEW R, NEW P, Keeping(index, R, P)
    PROVE  \E n : Index(event.name, n) /\ Tells(n, R, P)
<1>0. event.address \in Emitters
  BY DEF Fits
<1>1. CASE Index("Supply", handleSupply(index, event))
  <2>1. event.name = "Supply" => Keeping(handleSupply(index, event), R, P)
    BY <1>0, DebtCallKeeping
  <2>2. "Supply" \notin MoneyNames
    BY DEF MoneyNames
  <2>. QED
    BY <1>1, <2>1, <2>2, PlainEventTells
<1>2. CASE Index("Withdraw", handleWithdraw(index, event))
  <2>1. event.name = "Withdraw" => Keeping(handleWithdraw(index, event), R, P)
    BY <1>0, DebtCallKeeping
  <2>2. "Withdraw" \notin MoneyNames
    BY DEF MoneyNames
  <2>. QED
    BY <1>2, <2>1, <2>2, PlainEventTells
<1>3. CASE Index("Borrow", handleBorrow(index, event))
  <2>1. event.name = "Borrow" => Keeping(handleBorrow(index, event), R, P)
    BY <1>0, DebtCallKeeping
  <2>2. "Borrow" \notin MoneyNames
    BY DEF MoneyNames
  <2>. QED
    BY <1>3, <2>1, <2>2, PlainEventTells
<1>4. CASE Index("Repay", handleRepay(index, event))
  <2>1. event.name = "Repay" => Keeping(handleRepay(index, event), R, P)
    BY <1>0, DebtCallKeeping DEF Measured
  <2>2. "Repay" \notin MoneyNames
    BY DEF MoneyNames
  <2>. QED
    BY <1>4, <2>1, <2>2, PlainEventTells
<1>5. CASE Index("SwapBorrowRateMode", handleSwapBorrowRateMode(index, event))
  <2>1. event.name = "SwapBorrowRateMode" => Keeping(handleSwapBorrowRateMode(index, event), R, P)
    BY <1>0, DebtCallKeeping
  <2>2. "SwapBorrowRateMode" \notin MoneyNames
    BY DEF MoneyNames
  <2>. QED
    BY <1>5, <2>1, <2>2, PlainEventTells
<1>6. CASE Index("RebalanceStableBorrowRate", handleRebalanceStableBorrowRate(index, event))
  <2>1. event.name = "RebalanceStableBorrowRate" =>
          Keeping(handleRebalanceStableBorrowRate(index, event), R, P)
    BY <1>0, DebtCallKeeping
  <2>2. "RebalanceStableBorrowRate" \notin MoneyNames
    BY DEF MoneyNames
  <2>. QED
    BY <1>6, <2>1, <2>2, PlainEventTells
<1>7. CASE Index("LiquidationCall", handleLiquidationCall(index, event))
  <2>1. event.name = "LiquidationCall" => Keeping(handleLiquidationCall(index, event), R, P)
    BY <1>0, LiquidationKeeping DEF Measured
  <2>2. "LiquidationCall" \notin MoneyNames
    BY DEF MoneyNames
  <2>. QED
    BY <1>7, <2>1, <2>2, PlainEventTells
<1>8. CASE Index("MintedToTreasury", handleMintedToTreasury(index, event))
  <2>1. event.name = "MintedToTreasury" => Keeping(handleMintedToTreasury(index, event), R, P)
    BY <1>0, ItemsKeeping
  <2>2. "MintedToTreasury" \notin MoneyNames
    BY DEF MoneyNames
  <2>. QED
    BY <1>8, <2>1, <2>2, PlainEventTells
<1>9. CASE Index("UserEModeSet", handleUserEModeSet(index, event))
  <2>1. event.name = "UserEModeSet" => Keeping(handleUserEModeSet(index, event), R, P)
    BY EModeKeeping
  <2>2. "UserEModeSet" \notin MoneyNames
    BY DEF MoneyNames
  <2>. QED
    BY <1>9, <2>1, <2>2, PlainEventTells
<1>10. CASE Index("IsolationModeTotalDebtUpdated",
                handleIsolationModeTotalDebtUpdated(index, event))
  <2>1. event.name = "IsolationModeTotalDebtUpdated" =>
          Keeping(handleIsolationModeTotalDebtUpdated(index, event), R, P)
    BY <1>0, ItemsKeeping
  <2>2. "IsolationModeTotalDebtUpdated" \notin MoneyNames
    BY DEF MoneyNames
  <2>. QED
    BY <1>10, <2>1, <2>2, PlainEventTells
<1>11. CASE Index("BridgeProtocolFeeUpdated", handleBridgeProtocolFeeUpdated(index, event))
  <2>1. event.name = "BridgeProtocolFeeUpdated" =>
          Keeping(handleBridgeProtocolFeeUpdated(index, event), R, P)
    BY BridgeFeeKeeping
  <2>2. "BridgeProtocolFeeUpdated" \notin MoneyNames
    BY DEF MoneyNames
  <2>. QED
    BY <1>11, <2>1, <2>2, PlainEventTells
<1>12. CASE Index("FlashLoan", handleFlashLoan(index, event))
  <2>1. event.name = "FlashLoan" => Tells(handleFlashLoan(index, event), R, P)
    BY FlashLoanShifts DEF Tells
  <2>. QED
    BY <1>12, <2>1, IndexTells
<1>13. CASE Index("ReserveUsedAsCollateralEnabled",
                handleReserveUsedAsCollateralEnabled(index, event))
  <2>1. "ReserveUsedAsCollateralEnabled" \in SwitchNames
    BY DEF SwitchNames
  <2>2. event.name = "ReserveUsedAsCollateralEnabled" =>
          Tells(handleReserveUsedAsCollateralEnabled(index, event), R, P)
    BY <2>1, SwitchShifts DEF Tells
  <2>. QED
    BY <1>13, <2>2, IndexTells
<1>14. CASE Index("ReserveUsedAsCollateralDisabled",
                handleReserveUsedAsCollateralDisabled(index, event))
  <2>1. "ReserveUsedAsCollateralDisabled" \in SwitchNames
    BY DEF SwitchNames
  <2>2. event.name = "ReserveUsedAsCollateralDisabled" =>
          Tells(handleReserveUsedAsCollateralDisabled(index, event), R, P)
    BY <2>1, SwitchShifts DEF Tells
  <2>. QED
    BY <1>14, <2>2, IndexTells
<1>15. CASE Index("ReserveDataUpdated", handleReserveDataUpdated(index, event))
  <2>1. event.name = "ReserveDataUpdated" => Tells(handleReserveDataUpdated(index, event), R, P)
    BY DataUpdatedShifts DEF Tells
  <2>. QED
    BY <1>15, <2>1, IndexTells
<1>16. CASE Index("MintUnbacked", handleMintUnbacked(index, event))
  <2>1. Keeping(handleMintUnbacked(index, event), R, P)
    BY <1>0, ItemsKeeping
  <2>2. event.name = "MintUnbacked" => Tells(handleMintUnbacked(index, event), R, P)
    BY <2>1, UnbackedShifts DEF Tells
  <2>. QED
    BY <1>16, <2>2, IndexTells
<1>17. CASE Index("BackUnbacked", handleBackUnbacked(index, event))
  <2>1. CASE index.pools[Provider].bridgeProtocolFee # NotSet
    <3>1. event.name = "BackUnbacked" => Keeping(handleBackUnbacked(index, event), R, P)
      BY <1>0, <2>1, BackUnbackedKeeping DEF Measured
    <3>2. event.name = "BackUnbacked" => Tells(handleBackUnbacked(index, event), R, P)
      BY <3>1, UnbackedShifts DEF Tells
    <3>. QED
      BY <1>17, <3>2, IndexTells
  <2>2. CASE index.pools[Provider].bridgeProtocolFee = NotSet
    <3>1. Has(index.contractToPool, event.address) /\ getPoolByContract(index, event) = Provider
      BY <1>0 DEF Keeping, IsStore, getPoolByContract, Has
    <3>2. handleBackUnbacked(index, event) = Halt(index)
      BY <2>2, <3>1 DEF handleBackUnbacked, InPool, SplitFee
    <3>3. Halt(index).halted
      BY DEF Halt, Keeping, IsStore
    <3>. QED
      BY <1>17, <3>2, <3>3, IndexTells DEF Tells
  <2>. QED
    BY <2>1, <2>2
<1>. QED
  BY <1>1, <1>2, <1>3, <1>4, <1>5, <1>6, <1>7, <1>8, <1>9,
     <1>10, <1>11, <1>12, <1>13, <1>14, <1>15, <1>16, <1>17 DEF IndexPoolEvent

-------------------------------------------------------------------------------
(* What the index, the log and the ledgers say together.                   *)

\* The figure of the index that stands for a ledger.
Entry(R, P, k) ==
    CASE k[1] = "cash" -> R[k[2]].availableLiquidity
      [] k[1] = "principal" -> P[<<k[2], k[3], Provider>>].principalStableDebt
      [] k[1] = "bToken" -> P[<<k[2], k[3], Provider>>].scaledBTokenBalance
      [] OTHER -> P[<<k[2], k[3], Provider>>].scaledVariableDebt

\* What the histories say of it.
Histories == [rounded : [Kinds \X Holders \X Assets -> Nat],
              moved : SUBSET (Holders \X Assets), unseen : [Assets -> Int]]

History == [rounded |-> rounded, moved |-> moved, unseen |-> unseen]

Slack(H, k) == IF k[1] \in Kinds THEN H.rounded[<<k[1], k[2], k[3]>>] ELSE 0

Extra(H, k) == IF k[1] = "cash" THEN H.unseen[k[2]] ELSE 0

Spoiled(H, k) == k[1] = "bToken" /\ <<k[2], k[3]>> \in H.moved

\* The index shows x, as far as the mapping can.
Starts(H, R, P, k, x) ==
    Spoiled(H, k) \/ (Entry(R, P, k) - Extra(H, k)) - x \in 0..Slack(H, k)

\* The log leads from what the index shows to what the ledger reads, but for x.
Booked(m, k, x, H, R, P) ==
    \E T : /\ Trace(m.log, 0, Len(m.log), k, T) /\ T[Len(m.log)] = Ledger(m, k) + x
           /\ Starts(H, R, P, k, T[0])

\* Of what is owed to the treasury the index shows no more, unless a mint is announced.
Owing(m, R) ==
    \A a \in Assets :
       \/ R[a].accruedToTreasury <= m.accrued[a]
       \/ \E i \in 1..Len(m.log) :
             m.log[i].name = "BTokenMint" /\ m.log[i].address = TokenOf("bToken", a)

\* Histories before and after an event.
Recalls(H, G, e) ==
    /\ G \in Histories
    /\ \A k \in Keys :
         /\ Slack(G, k) = Slack(H, k) + Loss(e, k)
         /\ Extra(G, k) = Extra(H, k) + (IF k[1] = "cash" THEN Unseen(e, k[2]) ELSE 0)
         /\ Spoiled(H, k) => Spoiled(G, k)
         /\ k[1] = "bToken" /\ MisreadAt(e, k[2], k[3]) => Spoiled(G, k)

LEMMA EntryInt ==
    ASSUME NEW ix, NEW R, NEW P, Keeping(ix, R, P), NEW k \in Keys
    PROVE  Entry(R, P, k) \in Int
<1>1. CASE k[1] = "cash" /\ k[2] \in Assets
  BY <1>1, FigureInt DEF Entry
<1>2. CASE k[1] \in {"principal", "bToken", "vToken"} /\ k[2] \in Users /\ k[3] \in Assets
  <2>1. <<k[2], k[3], Provider>> \in Ids
    BY <1>2, UserIds
  <2>. QED
    BY <1>2, <2>1, PositionInt DEF Entry
<1>. QED
  BY <1>1, <1>2, KeyCases

LEMMA HistoryNumbers ==
    ASSUME NEW H, H \in Histories, NEW k \in Keys
    PROVE  Slack(H, k) \in Nat /\ Extra(H, k) \in Int
<1>1. H.rounded \in [Kinds \X Holders \X Assets -> Nat] /\ H.unseen \in [Assets -> Int]
  BY DEF Histories
<1>2. CASE k[1] = "cash" /\ k[2] \in Assets
  BY <1>1, <1>2 DEF Slack, Extra, Kinds
<1>3. CASE k[1] \in {"principal", "bToken", "vToken"} /\ k[2] \in Users /\ k[3] \in Assets
  <2>1. Extra(H, k) = 0
    BY <1>3 DEF Extra
  <2>2. CASE k[1] \in Kinds
    <3>1. <<k[1], k[2], k[3]>> \in Kinds \X Holders \X Assets
      BY <1>3, <2>2, UsersHold
    <3>2. H.rounded[<<k[1], k[2], k[3]>>] \in Nat
      BY <1>1, <3>1
    <3>. QED
      BY <2>1, <2>2, <3>2 DEF Slack
  <2>3. CASE k[1] \notin Kinds
    BY <2>1, <2>3 DEF Slack
  <2>. QED
    BY <2>2, <2>3
<1>. QED
  BY <1>2, <1>3, KeyCases

\* An event changes the figures by what it says, and by cash that is not there.
LEMMA ShiftedEntry ==
    ASSUME NEW R, NEW P, NEW S, NEW Q, NEW e, NEW due, ReserveShift(e, due, R, S),
           PositionShift(e, P, Q), NEW k \in Keys, ~(k[1] = "bToken" /\ MisreadAt(e, k[2], k[3]))
    PROVE  Entry(S, Q, k)
             = Entry(R, P, k)
                 + (IF k[1] = "cash" THEN CashCredit(e, k[2]) + Unseen(e, k[2]) ELSE Credit(e, k))
<1>1. CASE k[1] = "cash" /\ k[2] \in Assets
  BY <1>1 DEF Entry, ReserveShift
<1>2. CASE k[1] = "principal" /\ k[2] \in Users /\ k[3] \in Assets
  BY <1>2 DEF Entry, PositionShift, Credit
<1>3. CASE k[1] = "bToken" /\ k[2] \in Users /\ k[3] \in Assets
  BY <1>3 DEF Entry, PositionShift, Credit
<1>4. CASE k[1] = "vToken" /\ k[2] \in Users /\ k[3] \in Assets
  BY <1>4 DEF Entry, PositionShift, Credit
<1>. QED
  BY <1>1, <1>2, <1>3, <1>4, KeyCases

LEMMA UnseenInt ==
    ASSUME NEW e, Measured(e), NEW a
    PROVE  Unseen(e, a) \in Int
<1>1. CASE e.name = "MintUnbacked"
  BY <1>1 DEF Unseen, UnseenCash, Measured
<1>2. CASE e.name = "BackUnbacked"
  BY <1>2 DEF Unseen, UnseenCash, Measured
<1>3. CASE e.name = "BTokenMint"
  BY <1>3 DEF Unseen, UnseenCash, Measured
<1>4. CASE e.name = "BalanceTransfer"
  BY <1>4, TransferredInt DEF Unseen, UnseenCash
<1>5. CASE e.name \notin {"MintUnbacked", "BackUnbacked", "BTokenMint", "BalanceTransfer"}
  BY <1>5 DEF Unseen, UnseenCash
<1>. QED
  BY <1>1, <1>2, <1>3, <1>4, <1>5

LEMMA CreditInt ==
    ASSUME NEW e, Measured(e), NEW k \in Keys
    PROVE  Credit(e, k) \in Int
<1>1. /\ e.name \in {"BTokenMint", "VTokenMint"} => Issued(e) \in Int
      /\ e.name \in {"BTokenBurn", "VTokenBurn"} => Redeemed(e) \in Int
  BY DEF Measured, Issued, Redeemed
<1>2. CASE k[1] = "cash"
  <2>1. CASE e.name \in {"BTokenMint", "VTokenMint", "BTokenBurn", "VTokenBurn"}
    BY <1>1, <1>2, <2>1 DEF Credit, CashCredit
  <2>2. CASE e.name \in {"STokenMint", "STokenBurn", "FlashLoan", "MintUnbacked", "BackUnbacked"}
    BY <1>2, <2>2 DEF Credit, CashCredit, Measured
  <2>3. CASE e.name \notin {"BTokenMint", "VTokenMint", "BTokenBurn", "VTokenBurn", "STokenMint",
                           "STokenBurn", "FlashLoan", "MintUnbacked", "BackUnbacked"}
    BY <1>2, <2>3 DEF Credit, CashCredit
  <2>. QED
    BY <2>1, <2>2, <2>3
<1>3. CASE k[1] = "principal"
  BY <1>3 DEF Credit, PrincipalCredit, Measured
<1>4. CASE k[1] \in Kinds
  <2>1. Credit(e, k) = ScaledCredit(e, k[1], k[2], k[3])
    BY <1>4 DEF Credit, Kinds
  <2>2. CASE e.name \in {"BTokenMint", "VTokenMint"}
    <3>1. graphRayDiv(Issued(e), e.index) \in Int
      BY <1>1, <2>2, GraphRayDivInt DEF Measured
    <3>. QED
      BY <1>4, <2>1, <2>2, <3>1 DEF ScaledCredit, MintName, BurnName, Kinds
  <2>3. CASE e.name \in {"BTokenBurn", "VTokenBurn"}
    <3>1. graphRayDiv(Redeemed(e), e.index) \in Int
      BY <1>1, <2>3, GraphRayDivInt DEF Measured
    <3>. QED
      BY <1>4, <2>1, <2>3, <3>1 DEF ScaledCredit, MintName, BurnName, Kinds
  <2>4. CASE e.name = "BalanceTransfer"
    BY <1>4, <2>1, <2>4 DEF ScaledCredit, MintName, BurnName, Kinds, Measured
  <2>5. CASE e.name \notin {"BTokenMint", "VTokenMint", "BTokenBurn", "VTokenBurn",
                           "BalanceTransfer"}
    BY <1>4, <2>1, <2>5 DEF ScaledCredit, MintName, BurnName, Kinds
  <2>. QED
    BY <2>2, <2>3, <2>4, <2>5
<1>. QED
  BY <1>2, <1>3, <1>4, KeyCases DEF Kinds

\* Where an event leads if it was the first of the log.
LEMMA StartsOn ==
    ASSUME NEW H, H \in Histories, NEW G, NEW R, NEW P, NEW ix, Keeping(ix, R, P),
           NEW S, NEW Q, NEW jx, Keeping(jx, S, Q), NEW e, Measured(e), NEW due,
           ReserveShift(e, due, R, S), PositionShift(e, P, Q), Recalls(H, G, e), NEW k \in Keys,
           NEW x \in Int, NEW y \in Int, Starts(H, R, P, k, x), Books(e, k, y - x)
    PROVE  Starts(G, S, Q, k, y)
<1>1. CASE Spoiled(H, k) \/ (k[1] = "bToken" /\ MisreadAt(e, k[2], k[3]))
  BY <1>1 DEF Recalls, Starts
<1>2. CASE ~Spoiled(H, k) /\ ~(k[1] = "bToken" /\ MisreadAt(e, k[2], k[3]))
  <2>. DEFINE before == Entry(R, P, k)
              after == Entry(S, Q, k)
              extra == Extra(H, k)
              extraAfter == Extra(G, k)
              slack == Slack(H, k)
              slackAfter == Slack(G, k)
              credit == Credit(e, k)
              loss == Loss(e, k)
  <2>1. /\ before \in Int /\ after \in Int
        /\ extra \in Int /\ extraAfter \in Int /\ slack \in Nat /\ slackAfter \in Nat
    BY EntryInt, HistoryNumbers DEF Recalls
  <2>2. slackAfter = slack + loss
    BY DEF Recalls
  <2>3. loss \in {0, 1}
    BY DEF Loss
  <2>4. (before - extra) - x \in 0..slack
    BY <1>2 DEF Starts
  <2>5. credit - loss <= y - x /\ y - x <= credit
    BY DEF Books
  <2>6. credit \in Int
    BY CreditInt
  <2>7. (after - extraAfter) = (before - extra) + credit
    <3>1. CASE k[1] = "cash"
      <4>. DEFINE hidden == Unseen(e, k[2])
      <4>1. after = before + (credit + hidden) /\ extraAfter = extra + hidden
        BY <1>2, <3>1, ShiftedEntry DEF Recalls, Credit
      <4>2. hidden \in Int
        BY UnseenInt
      <4>. HIDE DEF before, after, extra, extraAfter, credit, hidden
      <4>. QED
        BY <2>1, <2>6, <4>1, <4>2
    <3>2. CASE k[1] # "cash"
      <4>1. after = before + credit /\ extra = 0 /\ extraAfter = 0
        BY <1>2, <3>2, ShiftedEntry DEF Extra
      <4>. HIDE DEF before, after, extra, extraAfter, credit
      <4>. QED
        BY <2>1, <2>6, <4>1
    <3>. QED
      BY <3>1, <3>2
  <2>. HIDE DEF before, after, extra, extraAfter, slack, slackAfter, credit, loss
  <2>8. (after - extraAfter) - y \in 0..slackAfter
    BY <2>1, <2>2, <2>3, <2>4, <2>5, <2>6, <2>7
  <2>. QED
    BY <2>8 DEF Starts, after, extraAfter, slackAfter
<1>. QED
  BY <1>1, <1>2

\* The market moves on.
LEMMA BookedOn ==
    ASSUME NEW m, NEW n, Live(m), ~n.reverted, NEW k \in Keys, NEW x \in Int, NEW y,
           NEW H, NEW R, NEW P, Booked(m, k, x, H, R, P), Moves(m, n, k, y)
    PROVE  Live(n) /\ Booked(n, k, x + y, H, R, P)
<1>1. /\ Live(n) /\ y \in Int /\ Len(m.log) <= Len(n.log)
      /\ \A i \in 1..Len(m.log) : n.log[i] = m.log[i]
  BY DEF Live, Moves
<1>. DEFINE b == Len(m.log)
            c == Len(n.log)
            before == Ledger(m, k)
            after == Ledger(n, k)
<1>2. b \in Nat /\ c \in Nat /\ b <= c /\ before \in Int /\ after \in Int
  BY <1>1, SoundLog, LedgerInt DEF Live
<1>3. PICK T : Trace(m.log, 0, b, k, T) /\ T[b] = before + x /\ Starts(H, R, P, k, T[0])
  BY DEF Booked
<1>4. PICK U : Trace(n.log, b, c, k, U) /\ U[b] = before /\ U[c] = after + y
  BY DEF Moves, Live
<1>. DEFINE V == [i \in 0..c |-> IF i <= b THEN T[i] ELSE U[i] + x]
<1>5. \A i \in 1..b : n.log[i] = m.log[i]
  BY <1>1
<1>. HIDE DEF b, c, before, after
<1>6. /\ \A i \in 0..b : V[i] = T[i] /\ T[i] \in Int
      /\ \A i \in b..c : V[i] = U[i] + x /\ U[i] \in Int
  <2>1. \A i \in 0..b : T[i] \in Int
    BY <1>3 DEF Trace
  <2>2. \A i \in b..c : U[i] \in Int
    BY <1>4 DEF Trace
  <2>3. \A i \in 0..b : V[i] = T[i]
    BY <1>2
  <2>4. ASSUME NEW i \in b..c PROVE V[i] = U[i] + x
    <3>1. CASE i = b
      BY <1>2, <1>3, <1>4, <3>1
    <3>2. CASE i # b
      BY <1>2, <3>2
    <3>. QED
      BY <3>1, <3>2
  <2>. QED
    BY <2>1, <2>2, <2>3, <2>4
<1>. HIDE DEF V
<1>7. ASSUME NEW i \in 0 + 1..c PROVE Books(n.log[i], k, V[i] - V[i - 1])
  <2>1. CASE i \in 0 + 1..b
    <3>1. Books(m.log[i], k, T[i] - T[i - 1])
      BY <1>3, <2>1 DEF Trace
    <3>2. n.log[i] = m.log[i] /\ i \in 0..b /\ i - 1 \in 0..b
      BY <1>2, <1>5, <2>1
    <3>. QED
      BY <1>6, <3>1, <3>2
  <2>2. CASE i \in b + 1..c
    <3>1. Books(n.log[i], k, U[i] - U[i - 1])
      BY <1>4, <2>2 DEF Trace
    <3>2. i \in b..c /\ i - 1 \in b..c
      BY <1>2, <2>2
    <3>3. V[i] = U[i] + x /\ V[i - 1] = U[i - 1] + x /\ U[i] \in Int /\ U[i - 1] \in Int
      BY <1>6, <3>2
    <3>4. V[i] - V[i - 1] = U[i] - U[i - 1]
      BY <3>3
    <3>. QED
      BY <3>1, <3>4
  <2>. QED
    BY <1>2, <2>1, <2>2
<1>8. Trace(n.log, 0, c, k, V)
  <2>1. \A i \in 0..c : V[i] \in Int
    BY <1>2, <1>6
  <2>. QED
    BY <1>7, <2>1 DEF Trace
<1>9. V[0] = T[0] /\ V[c] = after + (x + y)
  <2>1. V[0] = T[0] /\ V[c] = U[c] + x
    BY <1>2, <1>6
  <2>. QED
    BY <1>1, <1>2, <1>4, <2>1
<1>. QED
  BY <1>1, <1>3, <1>8, <1>9 DEF Booked, c, after

LEMMA OwingOn ==
    ASSUME NEW m, NEW n, Live(m), ~n.reverted, NEW k \in Keys, NEW y, Moves(m, n, k, y),
           NEW R, Owing(m, R), \A a \in Assets : R[a].accruedToTreasury \in Int
    PROVE  Owing(n, R)
<1>1. /\ Live(n) /\ Len(m.log) <= Len(n.log) /\ Grows(m, n)
      /\ \A i \in 1..Len(m.log) : n.log[i] = m.log[i]
  BY DEF Live, Moves
<1>2. Len(m.log) \in Nat /\ Len(n.log) \in Nat
  BY <1>1, SoundLog DEF Live
<1>3. ASSUME NEW a \in Assets
      PROVE  \/ R[a].accruedToTreasury <= n.accrued[a]
             \/ \E i \in 1..Len(n.log) :
                   n.log[i].name = "BTokenMint" /\ n.log[i].address = TokenOf("bToken", a)
  <2>1. m.accrued[a] \in Nat /\ n.accrued[a] \in Nat
    BY <1>1, AccruedNat
  <2>2. CASE \E i \in 1..Len(m.log) :
               m.log[i].name = "BTokenMint" /\ m.log[i].address = TokenOf("bToken", a)
    BY <1>1, <1>2, <2>2
  <2>3. CASE \E i \in Len(m.log) + 1..Len(n.log) :
               n.log[i].name = "BTokenMint" /\ n.log[i].address = TokenOf("bToken", a)
    BY <1>2, <2>3
  <2>4. CASE R[a].accruedToTreasury <= m.accrued[a] /\ m.accrued[a] <= n.accrued[a]
    BY <2>1, <2>4
  <2>. QED
    BY <1>1, <2>2, <2>3, <2>4 DEF Owing, Grows
<1>. QED
  BY <1>3 DEF Owing

\* The first event of the log is indexed.
LEMMA ConsumedSound ==
    ASSUME NEW m, Live(m), m.log # <<>>, NEW n, n = [m EXCEPT !.log = Tail(@)]
    PROVE  /\ Live(n) /\ Measured(m.log[1]) /\ Fits(m.log[1])
           /\ \A k : Ledger(n, k) = Ledger(m, k)
           /\ n.accrued = m.accrued
           /\ Len(m.log) \in Nat \ {0} /\ Len(n.log) = Len(m.log) - 1
           /\ \A i \in 1..Len(n.log) : n.log[i] = m.log[i + 1]
<1>1. /\ Len(m.log) \in Nat \ {0} /\ DOMAIN m.log = 1..Len(m.log) /\ Head(m.log) = m.log[1]
      /\ IsLog(Tail(m.log)) /\ Len(Tail(m.log)) = Len(m.log) - 1
      /\ DOMAIN Tail(m.log) = 1..(Len(m.log) - 1)
      /\ \A i \in 1..(Len(m.log) - 1) : Tail(m.log)[i] = m.log[i + 1]
  BY LogConsumed DEF Live, Sound, IsMarket
<1>2. /\ DOMAIN n = DOMAIN m /\ n.log = Tail(m.log)
      /\ n.position = m.position /\ n.eMode = m.eMode /\ n.allowance = m.allowance
      /\ n.index = m.index /\ n.underlying = m.underlying /\ n.stableTotal = m.stableTotal
      /\ n.stableGrowth = m.stableGrowth /\ n.unbacked = m.unbacked /\ n.accrued = m.accrued
      /\ n.earning = m.earning /\ n.bridgeFee = m.bridgeFee /\ n.reverted = m.reverted
  BY DEF Live, Sound, IsMarket, Shaped
<1>3. Counted(m) /\ \A i \in DOMAIN m.log : Measured(m.log[i]) /\ Fits(m.log[i])
  BY DEF Live, Sound, IsMarket
<1>4. SameNumbers(m, n)
  BY <1>2 DEF SameNumbers, SameAccounts, SamePositions
<1>5. Counted(n)
  BY <1>3, <1>4, NumbersKept
<1>6. IsMarket(n)
  <2>1. Shaped(n)
    BY <1>2 DEF Live, Sound, IsMarket, Shaped
  <2>2. ASSUME NEW i \in DOMAIN n.log PROVE Fits(n.log[i])
    BY <1>1, <1>2, <1>3
  <2>. QED
    BY <1>1, <1>2, <2>1, <2>2 DEF IsMarket
<1>7. ASSUME NEW i \in DOMAIN n.log PROVE Measured(n.log[i])
  BY <1>1, <1>2, <1>3
<1>8. Live(n)
  BY <1>2, <1>5, <1>6, <1>7 DEF Live, Sound
<1>9. \A k : Ledger(n, k) = Ledger(m, k)
  BY <1>2 DEF Ledger
<1>10. Len(n.log) = Len(m.log) - 1 /\ \A i \in 1..Len(n.log) : n.log[i] = m.log[i + 1]
  BY <1>1, <1>2
<1>11. Measured(m.log[1]) /\ Fits(m.log[1])
  BY <1>1, <1>3
<1>. QED
  BY <1>1, <1>2, <1>8, <1>9, <1>10, <1>11, Zenon

LEMMA BookedConsumed ==
    ASSUME NEW m, Live(m), m.log # <<>>, NEW n, n = [m EXCEPT !.log = Tail(@)],
           NEW H, H \in Histories, NEW G, NEW R, NEW P, NEW ix, Keeping(ix, R, P),
           NEW S, NEW Q, NEW jx, Keeping(jx, S, Q), NEW due,
           ReserveShift(m.log[1], due, R, S), PositionShift(m.log[1], P, Q),
           Recalls(H, G, m.log[1]), NEW k \in Keys, NEW x, Booked(m, k, x, H, R, P)
    PROVE  Booked(n, k, x, G, S, Q)
<1>. DEFINE c == Len(m.log)
            d == Len(n.log)
<1>1. /\ Measured(m.log[1]) /\ Ledger(n, k) = Ledger(m, k) /\ c \in Nat \ {0} /\ d = c - 1
      /\ \A i \in 1..d : n.log[i] = m.log[i + 1]
  BY ConsumedSound
<1>2. PICK T : Trace(m.log, 0, c, k, T) /\ T[c] = Ledger(m, k) + x /\ Starts(H, R, P, k, T[0])
  BY DEF Booked
<1>. HIDE DEF c, d
<1>3. /\ \A i \in 0..c : T[i] \in Int
      /\ \A i \in 1..c : Books(m.log[i], k, T[i] - T[i - 1])
  BY <1>2 DEF Trace
<1>4. Starts(G, S, Q, k, T[1])
  <2>1. T[0] \in Int /\ T[1] \in Int /\ Books(m.log[1], k, T[1] - T[0])
    BY <1>1, <1>3
  <2>. QED
    BY <1>1, <1>2, <2>1, StartsOn
<1>. DEFINE U == [i \in 0..d |-> T[i + 1]]
<1>5. \A i \in 0..d : U[i] = T[i + 1] /\ i + 1 \in 0..c
  BY <1>1
<1>. HIDE DEF U
<1>6. ASSUME NEW i \in 0 + 1..d PROVE Books(n.log[i], k, U[i] - U[i - 1])
  <2>1. /\ i \in 1..d /\ i \in 0..d /\ i - 1 \in 0..d /\ i + 1 \in 1..c
        /\ (i - 1) + 1 = i /\ (i + 1) - 1 = i
    BY <1>1
  <2>2. U[i] = T[i + 1] /\ U[i - 1] = T[i]
    BY <1>5, <2>1
  <2>3. Books(m.log[i + 1], k, T[i + 1] - T[(i + 1) - 1])
    BY <1>3, <2>1
  <2>. QED
    BY <1>1, <2>1, <2>2, <2>3
<1>7. Trace(n.log, 0, d, k, U)
  <2>1. \A i \in 0..d : U[i] \in Int
    BY <1>3, <1>5
  <2>. QED
    BY <1>6, <2>1 DEF Trace
<1>8. U[0] = T[1] /\ U[d] = T[c]
  BY <1>1, <1>5
<1>. QED
  BY <1>1, <1>2, <1>4, <1>7, <1>8 DEF Booked, d

LEMMA OwingConsumed ==
    ASSUME NEW m, Live(m), m.log # <<>>, NEW n, n = [m EXCEPT !.log = Tail(@)],
           NEW R, NEW S, Owing(m, R), ReserveShift(m.log[1], m.accrued, R, S)
    PROVE  Owing(n, S)
<1>. DEFINE c == Len(m.log)
            d == Len(n.log)
            Mint(s, i, a) == s[i].name = "BTokenMint" /\ s[i].address = TokenOf("bToken", a)
<1>1. /\ n.accrued = m.accrued /\ c \in Nat \ {0} /\ d = c - 1
      /\ \A i \in 1..d : n.log[i] = m.log[i + 1]
  BY ConsumedSound
<1>2. ASSUME NEW a \in Assets
      PROVE  S[a].accruedToTreasury <= n.accrued[a] \/ \E i \in 1..d : Mint(n.log, i, a)
  <2>1. m.accrued[a] \in Nat
    BY AccruedNat
  <2>2. /\ S[a].accruedToTreasury \in {R[a].accruedToTreasury, m.accrued[a]}
        /\ m.log[1].name = "BTokenMint" /\ m.log[1].address[2] = a =>
             S[a].accruedToTreasury = m.accrued[a]
    BY DEF ReserveShift
  <2>3. CASE S[a].accruedToTreasury = m.accrued[a]
    BY <1>1, <2>1, <2>3
  <2>4. CASE /\ S[a].accruedToTreasury = R[a].accruedToTreasury
             /\ S[a].accruedToTreasury # m.accrued[a]
    <3>1. ~Mint(m.log, 1, a)
      BY <2>2, <2>4 DEF TokenOf
    <3>2. CASE R[a].accruedToTreasury <= m.accrued[a]
      BY <1>1, <2>4, <3>2
    <3>3. CASE \E i \in 1..c : Mint(m.log, i, a)
      <4>1. PICK i \in 1..c : Mint(m.log, i, a)
        BY <3>3
      <4>2. i # 1
        BY <3>1, <4>1
      <4>. DEFINE j == i - 1
      <4>3. j \in 1..d /\ j + 1 = i
        BY <1>1, <4>2
      <4>. HIDE DEF j, c, d
      <4>4. n.log[j] = m.log[i]
        BY <1>1, <4>3
      <4>5. Mint(n.log, j, a)
        BY <4>1, <4>4
      <4>. QED
        BY <4>3, <4>5
    <3>. QED
      BY <3>2, <3>3 DEF Owing
  <2>. QED
    BY <2>2, <2>3, <2>4
<1>. QED
  BY <1>2 DEF Owing

-------------------------------------------------------------------------------
(* The variable debt of a reserve is that of its users.                    *)

DebtsShown(P, a) == [u \in Users |-> P[<<u, a, Provider>>].scaledVariableDebt]

Totalled(R, P) ==
    \A a \in Assets : R[a].totalScaledVariableDebt = Sum(DebtsShown(P, a), Users)

LEMMA TotalledOn ==
    ASSUME NEW ix, NEW R, NEW P, Keeping(ix, R, P), NEW jx, NEW S, NEW Q, Keeping(jx, S, Q),
           DebtShift(R, P, S, Q), Totalled(R, P)
    PROVE  Totalled(S, Q)
<1>0. IsFiniteSet(Users)
  BY LedgerAssumption
<1>1. ASSUME NEW a \in Assets, NEW u \in Users
      PROVE  /\ DebtsShown(P, a)[u] = P[<<u, a, Provider>>].scaledVariableDebt
             /\ DebtsShown(Q, a)[u] = Q[<<u, a, Provider>>].scaledVariableDebt
             /\ DebtsShown(P, a)[u] \in Int /\ DebtsShown(Q, a)[u] \in Int
  BY UserIds, PositionInt DEF DebtsShown
<1>2. CASE /\ \A a \in Assets : S[a].totalScaledVariableDebt = R[a].totalScaledVariableDebt
           /\ \A u \in Users, a \in Assets :
                Q[<<u, a, Provider>>].scaledVariableDebt = P[<<u, a, Provider>>].scaledVariableDebt
  <2>1. ASSUME NEW a \in Assets
        PROVE  Sum(DebtsShown(P, a), Users) = Sum(DebtsShown(Q, a), Users)
    <3>. DEFINE f == DebtsShown(P, a)
                g == DebtsShown(Q, a)
    <3>1. \A u \in Users : f[u] = g[u]
      BY <1>1, <1>2
    <3>. HIDE DEF f, g
    <3>2. Sum(f, Users) = Sum(g, Users)
      BY <1>0, <3>1, SumSame
    <3>. QED
      BY <3>2 DEF f, g
  <2>. QED
    BY <1>2, <2>1 DEF Totalled
<1>3. CASE \E v \in Users, b \in Assets, d \in Int :
             /\ \A a \in Assets : S[a].totalScaledVariableDebt
                                    = R[a].totalScaledVariableDebt + (IF a = b THEN d ELSE 0)
             /\ \A u \in Users, a \in Assets :
                  Q[<<u, a, Provider>>].scaledVariableDebt
                    = P[<<u, a, Provider>>].scaledVariableDebt
                        + (IF u = v /\ a = b THEN d ELSE 0)
  <2>1. PICK v \in Users, b \in Assets, d \in Int :
             /\ \A a \in Assets : S[a].totalScaledVariableDebt
                                    = R[a].totalScaledVariableDebt + (IF a = b THEN d ELSE 0)
             /\ \A u \in Users, a \in Assets :
                  Q[<<u, a, Provider>>].scaledVariableDebt
                    = P[<<u, a, Provider>>].scaledVariableDebt
                        + (IF u = v /\ a = b THEN d ELSE 0)
    BY <1>3
  <2>2. ASSUME NEW a \in Assets
        PROVE  S[a].totalScaledVariableDebt = Sum(DebtsShown(Q, a), Users)
    <3>. DEFINE f == DebtsShown(P, a)
                g == DebtsShown(Q, a)
                before == Sum(f, Users)
                after == Sum(g, Users)
    <3>1. \A u \in Users : f[u] \in Int /\ g[u] \in Int
      BY <1>1
    <3>2. \A u \in Users : g[u] = f[u] + (IF u = v /\ a = b THEN d ELSE 0)
      BY <1>1, <2>1
    <3>3. R[a].totalScaledVariableDebt = before
      BY DEF Totalled
    <3>. HIDE DEF f, g
    <3>4. /\ before \in Int /\ after \in Int /\ after + f[v] = before + g[v]
      <4>1. \A u \in Users : u # v => g[u] = f[u]
        BY <3>1, <3>2
      <4>. QED
        BY <1>0, <3>1, <4>1, SumChange
    <3>. HIDE DEF before, after
    <3>5. after = before + (IF a = b THEN d ELSE 0)
      BY <3>1, <3>2, <3>4
    <3>. QED
      BY <2>1, <3>3, <3>5 DEF after, g
  <2>. QED
    BY <2>2 DEF Totalled
<1>. QED
  BY <1>2, <1>3 DEF DebtShift

-------------------------------------------------------------------------------
(* The histories recall an event.                                          *)

RoundedAfter(e, r) ==
    LET position == <<e.address[1], e.onBehalfOf, e.address[2]>>
    IN  IF BurnAsMint(e) THEN [r EXCEPT ![position] = @ + 1] ELSE r

UnseenAfter(e, r) ==
    IF UnseenCash(e) # 0 THEN [r EXCEPT ![AssetIn(e)] = @ + UnseenCash(e)] ELSE r

MovedAfter(e, r) == IF Misread(e) THEN r \cup ({e.from, e.to} \X {e.address[2]}) ELSE r

LEMMA RoundedRecalls ==
    ASSUME NEW e, Measured(e), NEW r, r \in [Kinds \X Holders \X Assets -> Nat],
           NEW s, s = RoundedAfter(e, r)
    PROVE  /\ s \in [Kinds \X Holders \X Assets -> Nat]
           /\ \A k \in Keys : k[1] \in Kinds =>
                s[<<k[1], k[2], k[3]>>] = r[<<k[1], k[2], k[3]>>] + Loss(e, k)
<1>. DEFINE position == <<e.address[1], e.onBehalfOf, e.address[2]>>
<1>1. ASSUME NEW k \in Keys, k[1] \in Kinds
      PROVE  /\ <<k[1], k[2], k[3]>> \in Kinds \X Holders \X Assets
             /\ r[<<k[1], k[2], k[3]>>] \in Nat
  <2>1. <<k[1], k[2], k[3]>> \in Kinds \X Holders \X Assets
    BY <1>1, KeyCases, UsersHold DEF Kinds
  <2>. QED
    BY <2>1
<1>2. CASE ~BurnAsMint(e)
  <2>1. s = r
    BY <1>2 DEF RoundedAfter
  <2>2. ASSUME NEW k \in Keys, k[1] \in Kinds
        PROVE  s[<<k[1], k[2], k[3]>>] = r[<<k[1], k[2], k[3]>>] + Loss(e, k)
    <3>. DEFINE id == <<k[1], k[2], k[3]>>
    <3>1. Loss(e, k) = 0
      BY <1>2, <2>2 DEF Loss, BurnAsMint, MintName, Kinds
    <3>2. r[id] \in Nat
      BY <1>1, <2>2
    <3>. HIDE DEF id
    <3>3. s[id] = r[id] + Loss(e, k)
      BY <2>1, <3>1, <3>2
    <3>. QED
      BY <3>3 DEF id
  <2>. QED
    BY <2>1, <2>2
<1>3. CASE BurnAsMint(e)
  <2>1. s = [r EXCEPT ![position] = @ + 1]
    BY <1>3, Zenon DEF RoundedAfter
  <2>2. /\ e.name = MintName(e.address[1]) /\ e.value < e.balanceIncrease
        /\ e.address[1] \in Kinds /\ e.address[2] \in Assets /\ e.onBehalfOf \in Holders
        /\ e.name = "BTokenMint" => e.address[1] = "bToken"
        /\ e.name = "VTokenMint" => e.address[1] = "vToken"
    BY <1>3, UsersHold DEF BurnAsMint, Measured, MintName, Kinds
  <2>3. position \in Kinds \X Holders \X Assets
    BY <2>2
  <2>4. s \in [Kinds \X Holders \X Assets -> Nat]
    <3>. HIDE DEF position
    <3>. QED
      BY <2>1, <2>3
  <2>5. ASSUME NEW k \in Keys, k[1] \in Kinds
        PROVE  s[<<k[1], k[2], k[3]>>] = r[<<k[1], k[2], k[3]>>] + Loss(e, k)
    <3>. DEFINE id == <<k[1], k[2], k[3]>>
    <3>1. Loss(e, k) = IF id = position THEN 1 ELSE 0
      <4>1. e.name = MintName(k[1]) <=> e.address[1] = k[1]
        BY <2>2, <2>5 DEF MintName, Kinds
      <4>. QED
        BY <2>2, <2>5, <4>1 DEF Loss
    <3>2. id \in Kinds \X Holders \X Assets /\ r[id] \in Nat
      BY <1>1, <2>5
    <3>. HIDE DEF id, position
    <3>3. s[id] = r[id] + Loss(e, k)
      BY <2>1, <2>3, <3>1, <3>2
    <3>. QED
      BY <3>3 DEF id
  <2>. QED
    BY <2>4, <2>5
<1>. QED
  BY <1>2, <1>3

LEMMA UnseenRecalls ==
    ASSUME NEW e, Measured(e), NEW r, r \in [Assets -> Int],
           NEW s, s = UnseenAfter(e, r)
    PROVE  /\ s \in [Assets -> Int]
           /\ \A a \in Assets : s[a] = r[a] + Unseen(e, a)
<1>. DEFINE x == UnseenCash(e)
            b == AssetIn(e)
<1>1. CASE x = 0
  <2>1. s = r
    BY <1>1 DEF UnseenAfter
  <2>2. ASSUME NEW a \in Assets PROVE s[a] = r[a] + Unseen(e, a)
    <3>1. Unseen(e, a) = 0 /\ r[a] \in Int
      BY <1>1 DEF Unseen
    <3>. QED
      BY <2>1, <3>1
  <2>. QED
    BY <2>1, <2>2
<1>2. CASE x # 0
  <2>1. b \in Assets
    <3>1. e.name \in {"MintUnbacked", "BackUnbacked", "BTokenMint", "BalanceTransfer"}
      BY <1>2 DEF UnseenCash
    <3>. QED
      BY <3>1 DEF AssetIn, Measured
  <2>2. Unseen(e, b) \in Int /\ Unseen(e, b) = x
    BY <1>2, UnseenInt DEF Unseen
  <2>3. s = [r EXCEPT ![b] = @ + x]
    BY <1>2, Zenon DEF UnseenAfter
  <2>4. \A a : Unseen(e, a) = IF a = b THEN x ELSE 0
    BY <1>2 DEF Unseen
  <2>. HIDE DEF x, b
  <2>5. x \in Int
    BY <2>2
  <2>6. s \in [Assets -> Int]
    <3>1. r[b] + x \in Int
      BY <2>1, <2>5
    <3>. QED
      BY <2>1, <2>3, <3>1
  <2>7. ASSUME NEW a \in Assets PROVE s[a] = r[a] + Unseen(e, a)
    <3>1. r[a] \in Int
      OBVIOUS
    <3>. QED
      BY <2>1, <2>3, <2>4, <2>5, <3>1
  <2>. QED
    BY <2>6, <2>7
<1>. QED
  BY <1>1, <1>2

LEMMA MovedRecalls ==
    ASSUME NEW e, Measured(e), NEW r, r \in SUBSET (Holders \X Assets),
           NEW s, s = MovedAfter(e, r)
    PROVE  /\ s \in SUBSET (Holders \X Assets) /\ r \subseteq s
           /\ \A u \in Users, a \in Assets : MisreadAt(e, u, a) => <<u, a>> \in s
<1>1. CASE ~Misread(e)
  BY <1>1 DEF MisreadAt, MovedAfter
<1>2. CASE Misread(e)
  <2>1. e.from \in Holders /\ e.to \in Holders /\ e.address[2] \in Assets
    BY <1>2, UsersHold DEF Misread, Measured
  <2>. QED
    BY <1>2, <2>1 DEF MisreadAt, MovedAfter
<1>. QED
  BY <1>1, <1>2

LEMMA RememberRecalls ==
    ASSUME History \in Histories, Measured(event), Remember(event)
    PROVE  Recalls(History, History', event)
<1>. DEFINE H == History
            G == History'
<1>1. /\ H.rounded = rounded /\ H.moved = moved /\ H.unseen = unseen
      /\ G.rounded = rounded' /\ G.moved = moved' /\ G.unseen = unseen'
      /\ DOMAIN G = {"rounded", "moved", "unseen"}
      /\ G = [rounded |-> rounded', moved |-> moved', unseen |-> unseen']
  BY DEF History
<1>2. /\ rounded \in [Kinds \X Holders \X Assets -> Nat]
      /\ moved \in SUBSET (Holders \X Assets) /\ unseen \in [Assets -> Int]
  BY <1>1 DEF Histories
<1>3. /\ rounded' \in [Kinds \X Holders \X Assets -> Nat]
      /\ \A k \in Keys : k[1] \in Kinds =>
           rounded'[<<k[1], k[2], k[3]>>] = rounded[<<k[1], k[2], k[3]>>] + Loss(event, k)
  <2>. DEFINE s == rounded'
  <2>1. s = RoundedAfter(event, rounded)
    BY DEF Remember, RoundedAfter
  <2>. HIDE DEF s
  <2>2. /\ s \in [Kinds \X Holders \X Assets -> Nat]
        /\ \A k \in Keys : k[1] \in Kinds =>
             s[<<k[1], k[2], k[3]>>] = rounded[<<k[1], k[2], k[3]>>] + Loss(event, k)
    BY <1>2, <2>1, RoundedRecalls, Zenon
  <2>. QED
    BY <2>2, Zenon DEF s
<1>4. /\ unseen' \in [Assets -> Int]
      /\ \A a \in Assets : unseen'[a] = unseen[a] + Unseen(event, a)
  <2>. DEFINE s == unseen'
  <2>1. s = UnseenAfter(event, unseen)
    BY DEF Remember, UnseenAfter
  <2>. HIDE DEF s
  <2>2. s \in [Assets -> Int] /\ \A a \in Assets : s[a] = unseen[a] + Unseen(event, a)
    BY <1>2, <2>1, UnseenRecalls, Zenon
  <2>. QED
    BY <2>2, Zenon DEF s
<1>5. /\ moved' \in SUBSET (Holders \X Assets) /\ moved \subseteq moved'
      /\ \A u \in Users, a \in Assets : MisreadAt(event, u, a) => <<u, a>> \in moved'
  <2>. DEFINE s == moved'
  <2>1. s = MovedAfter(event, moved)
    BY DEF Remember, MovedAfter
  <2>. HIDE DEF s
  <2>2. /\ s \in SUBSET (Holders \X Assets) /\ moved \subseteq s
        /\ \A u \in Users, a \in Assets : MisreadAt(event, u, a) => <<u, a>> \in s
    BY <1>2, <2>1, MovedRecalls, Zenon
  <2>. QED
    BY <2>2, Zenon DEF s
<1>6. G \in Histories
  BY <1>1, <1>3, <1>4, <1>5 DEF Histories
<1>. HIDE DEF G, H
<1>7. ASSUME NEW k \in Keys
      PROVE  /\ Slack(G, k) = Slack(H, k) + Loss(event, k)
             /\ Extra(G, k) = Extra(H, k) + (IF k[1] = "cash" THEN Unseen(event, k[2]) ELSE 0)
             /\ Spoiled(H, k) => Spoiled(G, k)
             /\ k[1] = "bToken" /\ MisreadAt(event, k[2], k[3]) => Spoiled(G, k)
  <2>1. Slack(G, k) = Slack(H, k) + Loss(event, k)
    BY <1>1, <1>3 DEF Slack, Loss
  <2>2. Extra(G, k) = Extra(H, k) + (IF k[1] = "cash" THEN Unseen(event, k[2]) ELSE 0)
    BY <1>1, <1>4, KeyCases DEF Extra
  <2>3. Spoiled(H, k) => Spoiled(G, k)
    BY <1>1, <1>5 DEF Spoiled
  <2>4. k[1] = "bToken" /\ MisreadAt(event, k[2], k[3]) => Spoiled(G, k)
    BY <1>1, <1>5, KeyCases DEF Spoiled
  <2>. QED
    BY <2>1, <2>2, <2>3, <2>4
<1>. QED
  BY <1>6, <1>7 DEF Recalls, G, H

-------------------------------------------------------------------------------
(* The invariant: what the index shows, the log and the ledgers add up.    *)

\* A loan has taken its amount, and can be undone.
LoanBooked(loan, R, P) ==
    /\ flash = <<loan>> /\ IsLoan(loan)
    /\ Live(loan.before) /\ Owing(loan.before, R)
    /\ \A k \in Keys : /\ Booked(market, k, Cash(k, loan.asset, loan.amount), History, R, P)
                       /\ Booked(loan.before, k, 0, History, R, P)

AmountsBooked(R, P) ==
    \/ flash = <<>> /\ \A k \in Keys : Booked(market, k, 0, History, R, P)
    \/ ~sealed /\ \E loan : LoanBooked(loan, R, P)

AmountsTold ==
    /\ Live(market) /\ History \in Histories
    /\ \E R, P : /\ Keeping(index, R, P) /\ Totalled(R, P)
                 /\ Owing(market, R) /\ AmountsBooked(R, P)

LEMMA MovedSound ==
    ASSUME NEW m, NEW n, Live(m), ~n.reverted, NEW ix, NEW R, NEW P, Keeping(ix, R, P),
           Owing(m, R), NEW k \in Keys, NEW x, Moves(m, n, k, x)
    PROVE  Live(n) /\ Owing(n, R)
<1>1. Live(n)
  BY DEF Live, Moves
<1>2. \A a \in Assets : R[a].accruedToTreasury \in Int
  BY FigureInt
<1>. QED
  BY <1>1, <1>2, OwingOn

LEMMA SomeKey == Keys # {}
<1>1. PICK a \in Assets : TRUE
  BY LedgerAssumption
<1>2. <<"cash", a>> \in Keys
  BY DEF Keys
<1>. QED
  BY <1>2

LEMMA CashInt ==
    ASSUME NEW loan, IsLoan(loan), NEW k
    PROVE  /\ Cash(k, loan.asset, loan.amount) \in Int
           /\ Cash(k, loan.asset, loan.amount) + Cash(k, loan.asset, -loan.amount) = 0
BY DEF IsLoan, Cash

LEMMA CallKeepsAmounts ==
    ASSUME AmountsTold, CallMoves, ~market'.reverted, UNCHANGED <<flash, sealed>>,
           UNCHANGED indexVars
    PROVE  AmountsTold'
<1>1. index' = index /\ History' = History /\ flash' = flash /\ sealed' = sealed
  BY DEF indexVars, History
<1>2. PICK R, P : /\ Keeping(index, R, P) /\ Totalled(R, P)
                  /\ Owing(market, R) /\ AmountsBooked(R, P)
  BY DEF AmountsTold
<1>3. Live(market) /\ \A k \in Keys : Moves(market, market', k, 0)
  BY DEF AmountsTold, CallMoves
<1>4. Live(market') /\ Owing(market', R)
  BY <1>2, <1>3, MovedSound, SomeKey
<1>5. ASSUME NEW k \in Keys, NEW x \in Int, Booked(market, k, x, History, R, P)
      PROVE  Booked(market', k, x, History, R, P)
  <2>. DEFINE nothing == 0
  <2>1. nothing = 0 /\ nothing \in Int /\ Moves(market, market', k, nothing)
    BY <1>3
  <2>. HIDE DEF nothing
  <2>2. Booked(market', k, x + nothing, History, R, P)
    BY <1>3, <1>5, <2>1, BookedOn
  <2>3. x + nothing = x
    BY <2>1
  <2>. QED
    BY <2>2, <2>3
<1>6. AmountsBooked(R, P)'
  <2>1. CASE flash = <<>> /\ \A k \in Keys : Booked(market, k, 0, History, R, P)
    BY <1>1, <1>5, <2>1 DEF AmountsBooked
  <2>2. CASE ~sealed /\ \E loan : LoanBooked(loan, R, P)
    <3>1. PICK loan : LoanBooked(loan, R, P)
      BY <2>2
    <3>2. ASSUME NEW k \in Keys
          PROVE  /\ Booked(market', k, Cash(k, loan.asset, loan.amount), History, R, P)
                 /\ Booked(loan.before, k, 0, History, R, P)
      <4>1. Cash(k, loan.asset, loan.amount) \in Int
        BY <3>1, CashInt DEF LoanBooked
      <4>. QED
        BY <1>5, <3>1, <4>1 DEF LoanBooked
    <3>3. LoanBooked(loan, R, P)'
      BY <1>1, <3>1, <3>2 DEF LoanBooked
    <3>. QED
      BY <1>1, <2>2, <3>3 DEF AmountsBooked
  <2>. QED
    BY <1>2, <2>1, <2>2 DEF AmountsBooked
<1>. QED
  BY <1>1, <1>2, <1>4, <1>6 DEF AmountsTold

LEMMA LoanStartKeepsAmounts ==
    ASSUME AmountsTold, NEW u \in Users, NEW a \in Assets, FlashLoanStart(u, a),
           UNCHANGED indexVars
    PROVE  AmountsTold'
<1>1. index' = index /\ History' = History
  BY DEF indexVars, History
<1>2. PICK R, P : /\ Keeping(index, R, P) /\ Totalled(R, P)
                  /\ Owing(market, R) /\ AmountsBooked(R, P)
  BY DEF AmountsTold
<1>3. Live(market) /\ ~market'.reverted /\ flash = <<>> /\ ~sealed'
  BY LoanStartMoves DEF AmountsTold
<1>4. PICK loan : /\ flash' = <<loan>> /\ IsLoan(loan) /\ loan.before = market
                  /\ \A k \in Keys :
                        Moves(market, market', k, Cash(k, loan.asset, loan.amount))
  BY <1>3, LoanStartMoves
<1>5. Live(market') /\ Owing(market', R)
  BY <1>2, <1>3, <1>4, MovedSound, SomeKey
<1>6. \A k \in Keys : Booked(market, k, 0, History, R, P)
  BY <1>2, <1>3 DEF AmountsBooked, LoanBooked
<1>7. ASSUME NEW k \in Keys
      PROVE  Booked(market', k, Cash(k, loan.asset, loan.amount), History, R, P)
  <2>. DEFINE nothing == 0
              lent == Cash(k, loan.asset, loan.amount)
  <2>1. nothing = 0 /\ nothing \in Int /\ Booked(market, k, nothing, History, R, P)
    BY <1>6
  <2>2. lent \in Int /\ Moves(market, market', k, lent)
    BY <1>4, CashInt
  <2>. HIDE DEF nothing, lent
  <2>3. Booked(market', k, nothing + lent, History, R, P)
    BY <1>3, <2>1, <2>2, BookedOn
  <2>4. nothing + lent = lent
    BY <2>1, <2>2
  <2>5. Booked(market', k, lent, History, R, P)
    BY <2>3, <2>4
  <2>. QED
    BY <2>5 DEF lent
<1>8. LoanBooked(loan, R, P)'
  BY <1>1, <1>2, <1>3, <1>4, <1>6, <1>7 DEF LoanBooked
<1>. QED
  BY <1>1, <1>2, <1>3, <1>5, <1>8 DEF AmountsTold, AmountsBooked

LEMMA LoanEndKeepsAmounts ==
    ASSUME AmountsTold, FlashLoanEnd \/ FlashLoanRevert, UNCHANGED indexVars
    PROVE  AmountsTold'
<1>1. index' = index /\ History' = History
  BY DEF indexVars, History
<1>2. PICK R, P : /\ Keeping(index, R, P) /\ Totalled(R, P)
                  /\ Owing(market, R) /\ AmountsBooked(R, P)
  BY DEF AmountsTold
<1>3. flash # <<>>
  BY DEF FlashLoanEnd, FlashLoanRevert
<1>4. PICK loan : LoanBooked(loan, R, P)
  BY <1>2, <1>3 DEF AmountsBooked
<1>5. flash = <<loan>> /\ IsLoan(loan) /\ Live(market)
  BY <1>4 DEF LoanBooked, AmountsTold
<1>6. CASE FlashLoanEnd
  <2>1. /\ ~market'.reverted /\ flash' = <<>>
        /\ \A k \in Keys : Moves(market, market', k, Cash(k, loan.asset, -loan.amount))
    BY <1>5, <1>6, LoanEndMoves
  <2>2. Live(market') /\ Owing(market', R)
    BY <1>2, <1>5, <2>1, MovedSound, SomeKey
  <2>3. ASSUME NEW k \in Keys PROVE Booked(market', k, 0, History, R, P)
    <3>. DEFINE lent == Cash(k, loan.asset, loan.amount)
                back == Cash(k, loan.asset, -loan.amount)
    <3>1. lent \in Int /\ lent + back = 0
      BY <1>5, CashInt
    <3>2. Booked(market, k, lent, History, R, P)
      BY <1>4 DEF LoanBooked
    <3>3. Moves(market, market', k, back)
      BY <2>1
    <3>. HIDE DEF lent, back
    <3>4. Booked(market', k, lent + back, History, R, P)
      BY <1>5, <2>1, <3>1, <3>2, <3>3, BookedOn
    <3>. QED
      BY <3>1, <3>4
  <2>. QED
    BY <1>1, <1>2, <2>1, <2>2, <2>3 DEF AmountsTold, AmountsBooked
<1>7. CASE FlashLoanRevert
  <2>1. market' = loan.before /\ flash' = <<>>
    BY <1>5, <1>7 DEF FlashLoanRevert
  <2>. QED
    BY <1>1, <1>2, <1>4, <2>1 DEF AmountsTold, AmountsBooked, LoanBooked
<1>. QED
  BY <1>6, <1>7

LEMMA HaltKeeping ==
    ASSUME NEW ix, NEW R, NEW P, Keeping(ix, R, P)
    PROVE  Keeping(Halt(ix), R, P)
<1>. DEFINE jx == Halt(ix)
<1>1. /\ DOMAIN jx = DOMAIN ix /\ jx.halted = TRUE
      /\ jx.contractToPool = ix.contractToPool /\ jx.pools = ix.pools
      /\ jx.userReserves = ix.userReserves /\ jx.users = ix.users
      /\ jx.allowances = ix.allowances /\ jx.reserves = ix.reserves
      /\ jx.subTokens = ix.subTokens
  BY DEF Keeping, IsStore, Halt
<1>. HIDE DEF jx
<1>2. IsStore(jx)
  BY <1>1 DEF Keeping, IsStore
<1>3. \A id : PositionShown(jx, id) = PositionShown(ix, id)
  BY <1>1 DEF PositionShown, Has
<1>4. Keeping(jx, R, P)
  BY <1>1, <1>2, <1>3 DEF Keeping
<1>. QED
  BY <1>4 DEF jx

\* An event is indexed.
LEMMA EventKeepsAmounts ==
    ASSUME SettingsTold, AmountsTold, IndexEvent
    PROVE  AmountsTold'
<1>1. sealed
  BY Zenon DEF IndexEvent, IndexTokenEvent, IndexPoolEvent, Index
<1>2. market.log # <<>> /\ flash = <<>>
  BY <1>1 DEF SettingsTold, LoanUndoable
<1>3. PICK R, P : /\ Keeping(index, R, P) /\ Totalled(R, P)
                  /\ Owing(market, R) /\ AmountsBooked(R, P)
  BY DEF AmountsTold
<1>4. Live(market) /\ History \in Histories
  BY DEF AmountsTold
<1>5. \A k \in Keys : Booked(market, k, 0, History, R, P)
  BY <1>1, <1>3 DEF AmountsBooked
<1>6. IsLog(market.log) /\ Head(market.log) = market.log[1]
  BY <1>2, <1>4, SoundLog, LogConsumed DEF Live
<1>7. event = market.log[1] /\ Measured(event) /\ Fits(event)
  <2>1. \E n : n = [market EXCEPT !.log = Tail(@)]
    OBVIOUS
  <2>2. Measured(market.log[1]) /\ Fits(market.log[1])
    BY <1>2, <1>4, <2>1, ConsumedSound, Zenon
  <2>. QED
    BY <1>6, <2>2 DEF event
<1>8. Answered(chain, market.accrued)
  BY <1>4, AccruedNat, ChainAnswers
<1>9. PICK n : Index(event.name, n) /\ Tells(n, R, P)
  BY <1>3, <1>7, <1>8, TokenEventTells, PoolEventTells DEF IndexEvent
<1>10. CASE n.halted
  <2>1. index' = Halt(index) /\ UNCHANGED <<market, flash, sealed, rounded, moved, unseen>>
    BY <1>9, <1>10 DEF Index, marketVars
  <2>2. History' = History
    BY <2>1 DEF History
  <2>3. Keeping(index', R, P)
    BY <1>3, <2>1, HaltKeeping
  <2>. QED
    BY <1>1, <1>2, <1>3, <1>4, <1>5, <2>1, <2>2, <2>3 DEF AmountsTold, AmountsBooked
<1>11. CASE ~n.halted
  <2>1. /\ index' = n /\ market' = [market EXCEPT !.log = Tail(@)]
        /\ flash' = flash /\ Remember(event)
    BY <1>9, <1>11 DEF Index
  <2>2. PICK S, Q : /\ Keeping(n, S, Q) /\ ReserveShift(event, market.accrued, R, S)
                    /\ PositionShift(event, P, Q) /\ DebtShift(R, P, S, Q)
    BY <1>9, <1>11 DEF Tells, Shifted
  <2>3. Recalls(History, History', event) /\ History' \in Histories
    BY <1>4, <1>7, <2>1, RememberRecalls DEF Recalls
  <2>. DEFINE m == market
              l == market'
              e == market.log[1]
              H == History
              G == History'
              due == market.accrued
  <2>4. l = [m EXCEPT !.log = Tail(@)] /\ Live(m) /\ m.log # <<>>
    BY <1>2, <1>4, <2>1
  <2>5. ReserveShift(e, due, R, S) /\ PositionShift(e, P, Q) /\ Recalls(H, G, e)
    BY <1>7, <2>2, <2>3, Zenon
  <2>6. H \in Histories /\ \A k \in Keys : Booked(m, k, 0, H, R, P)
    BY <1>4, <1>5
  <2>7. due = m.accrued /\ Owing(m, R) /\ e = m.log[1]
    BY <1>3
  <2>. HIDE DEF m, l, e, H, G, due
  <2>8. Live(l)
    BY <2>4, ConsumedSound
  <2>9. Owing(l, S)
    BY <2>4, <2>5, <2>7, OwingConsumed
  <2>10. ASSUME NEW k \in Keys PROVE Booked(l, k, 0, G, S, Q)
    BY <1>3, <2>2, <2>4, <2>5, <2>6, <2>7, BookedConsumed
  <2>11. Totalled(S, Q)
    BY <1>3, <2>2, TotalledOn
  <2>12. /\ Live(market') /\ Owing(market', S)
         /\ \A k \in Keys : Booked(market', k, 0, History', S, Q)
    BY <2>8, <2>9, <2>10 DEF l, G
  <2>. QED
    BY <1>2, <2>1, <2>2, <2>3, <2>11, <2>12 DEF AmountsTold, AmountsBooked
<1>. QED
  BY <1>10, <1>11

LEMMA SealKeepsAmounts ==
    ASSUME AmountsTold, SealBlock, UNCHANGED indexVars
    PROVE  AmountsTold'
<1>1. /\ index' = index /\ History' = History /\ market' = market
      /\ flash' = flash /\ flash = <<>>
  BY DEF indexVars, History, SealBlock
<1>. QED
  BY <1>1 DEF AmountsTold, AmountsBooked, LoanBooked

LEMMA AmountsPreserved ==
    ASSUME SettingsTold, AmountsTold, [Next]_vars
    PROVE  AmountsTold'
<1>0. Live(market)
  BY DEF AmountsTold
<1>1. CASE /\ \E u \in Users, a \in Assets :
                \/ SupplyCall(u, a) \/ WithdrawCall(u, a) \/ BorrowCall(u, a) \/ RepayCall(u, a)
                \/ RebalanceCall(u, a) \/ SwapCall(u, a) \/ CollateralCall(u, a)
                \/ TransferCall(u, a) \/ LiquidationCall(u, a) \/ MintUnbackedCall(u, a)
                \/ BackUnbackedCall(u, a) \/ ApproveDelegationCall(u, a)
           /\ UNCHANGED indexVars
  BY <1>0, <1>1, UserCallMoves, CallKeepsAmounts
<1>2. CASE (\E u \in Users, a \in Assets : FlashLoanStart(u, a)) /\ UNCHANGED indexVars
  BY <1>2, LoanStartKeepsAmounts
<1>3. CASE /\ \/ \E u \in Users : SetUserEModeCall(u)
              \/ \E a \in Assets : MintToTreasuryCall(a)
              \/ UpdateBridgeFeeCall
           /\ UNCHANGED indexVars
  BY <1>0, <1>3, OtherCallMoves, CallKeepsAmounts
<1>4. CASE (FlashLoanEnd \/ FlashLoanRevert) /\ UNCHANGED indexVars
  BY <1>4, LoanEndKeepsAmounts
<1>5. CASE SealBlock /\ UNCHANGED indexVars
  BY <1>5, SealKeepsAmounts
<1>6. CASE Tick /\ UNCHANGED indexVars
  BY <1>0, <1>6, TickMoves, CallKeepsAmounts
<1>7. CASE IndexEvent
  BY <1>7, EventKeepsAmounts
<1>8. CASE UNCHANGED vars
  <2>1. /\ index' = index /\ History' = History /\ market' = market
        /\ flash' = flash /\ sealed' = sealed
    BY <1>8 DEF vars, marketVars, indexVars, History
  <2>. QED
    BY <2>1 DEF AmountsTold, AmountsBooked, LoanBooked
<1>. QED
  BY <1>1, <1>2, <1>3, <1>4, <1>5, <1>6, <1>7, <1>8 DEF Next, PoolCall, BlockProduction

-------------------------------------------------------------------------------
(* At the start: the sums over the positions are numbers.                  *)

LEMMA HoldersFinite == IsFiniteSet(Holders)
BY LedgerAssumption, FS_Singleton, FS_Union DEF Holders

InitHeld(a) == [u \in Holders |-> InitPosition[u, a].bToken.balance]
InitOwed(a) == [u \in Holders |-> InitPosition[u, a].vToken.balance]
InitStable(a) == [u \in Holders |-> InitPosition[u, a].principal]

LEMMA HeldIsSum ==
    ASSUME NEW a
    PROVE  MapThenSumSet(LAMBDA u : InitPosition[u, a].bToken.balance, Holders)
             = Sum(InitHeld(a), Holders)
<1>. DEFINE f == InitHeld(a)
            SumsUp(it) == it = [s \in SUBSET Holders |->
                       IF s = {} THEN 0
                       ELSE InitPosition[Pick(s), a].bToken.balance + it[s \ {Pick(s)}]]
            jt == CHOOSE it : SumsUp(it)
<1>0. IsFiniteSet(Holders)
  BY HoldersFinite
<1>1. \A it : \A s \in SUBSET Holders :
        Added(f, it, s) = IF s = {} THEN 0
                          ELSE InitPosition[Pick(s), a].bToken.balance + it[s \ {Pick(s)}]
  <2>1. \A s \in SUBSET Holders : s # {} => Pick(s) \in Holders
    BY DEF Pick
  <2>2. \A h \in Holders : f[h] = InitPosition[h, a].bToken.balance
    BY DEF InitHeld
  <2>. HIDE DEF f
  <2>. QED
    BY <2>1, <2>2 DEF Added
<1>2. MapThenSumSet(LAMBDA u : InitPosition[u, a].bToken.balance, Holders) = jt[Holders]
  BY DEF MapThenSumSet, MapThenFoldSet, Pick
<1>. HIDE DEF f
<1>3. \A it : SumsUp(it) <=> AddsParts(it, f, Holders)
  BY <1>1 DEF AddsParts, Adds
<1>4. \E it : AddsParts(it, f, Holders)
  BY <1>0, SumsExist
<1>. HIDE DEF SumsUp
<1>5. SumsUp(jt)
  BY <1>3, <1>4
<1>6. AddsParts(jt, f, Holders)
  BY <1>3, <1>5
<1>. HIDE DEF jt
<1>7. Sum(f, Holders) = jt[Holders]
  BY <1>0, <1>6, SumValue
<1>. QED
  BY <1>2, <1>7 DEF f

LEMMA OwedIsSum ==
    ASSUME NEW a
    PROVE  MapThenSumSet(LAMBDA u : InitPosition[u, a].vToken.balance, Holders)
             = Sum(InitOwed(a), Holders)
<1>. DEFINE f == InitOwed(a)
            SumsUp(it) == it = [s \in SUBSET Holders |->
                       IF s = {} THEN 0
                       ELSE InitPosition[Pick(s), a].vToken.balance + it[s \ {Pick(s)}]]
            jt == CHOOSE it : SumsUp(it)
<1>0. IsFiniteSet(Holders)
  BY HoldersFinite
<1>1. \A it : \A s \in SUBSET Holders :
        Added(f, it, s) = IF s = {} THEN 0
                          ELSE InitPosition[Pick(s), a].vToken.balance + it[s \ {Pick(s)}]
  <2>1. \A s \in SUBSET Holders : s # {} => Pick(s) \in Holders
    BY DEF Pick
  <2>2. \A h \in Holders : f[h] = InitPosition[h, a].vToken.balance
    BY DEF InitOwed
  <2>. HIDE DEF f
  <2>. QED
    BY <2>1, <2>2 DEF Added
<1>2. MapThenSumSet(LAMBDA u : InitPosition[u, a].vToken.balance, Holders) = jt[Holders]
  BY DEF MapThenSumSet, MapThenFoldSet, Pick
<1>. HIDE DEF f
<1>3. \A it : SumsUp(it) <=> AddsParts(it, f, Holders)
  BY <1>1 DEF AddsParts, Adds
<1>4. \E it : AddsParts(it, f, Holders)
  BY <1>0, SumsExist
<1>. HIDE DEF SumsUp
<1>5. SumsUp(jt)
  BY <1>3, <1>4
<1>6. AddsParts(jt, f, Holders)
  BY <1>3, <1>5
<1>. HIDE DEF jt
<1>7. Sum(f, Holders) = jt[Holders]
  BY <1>0, <1>6, SumValue
<1>. QED
  BY <1>2, <1>7 DEF f

LEMMA StableIsSum ==
    ASSUME NEW a
    PROVE  MapThenSumSet(LAMBDA u : InitPosition[u, a].principal, Holders)
             = Sum(InitStable(a), Holders)
<1>. DEFINE f == InitStable(a)
            SumsUp(it) == it = [s \in SUBSET Holders |->
                       IF s = {} THEN 0
                       ELSE InitPosition[Pick(s), a].principal + it[s \ {Pick(s)}]]
            jt == CHOOSE it : SumsUp(it)
<1>0. IsFiniteSet(Holders)
  BY HoldersFinite
<1>1. \A it : \A s \in SUBSET Holders :
        Added(f, it, s) = IF s = {} THEN 0
                          ELSE InitPosition[Pick(s), a].principal + it[s \ {Pick(s)}]
  <2>1. \A s \in SUBSET Holders : s # {} => Pick(s) \in Holders
    BY DEF Pick
  <2>2. \A h \in Holders : f[h] = InitPosition[h, a].principal
    BY DEF InitStable
  <2>. HIDE DEF f
  <2>. QED
    BY <2>1, <2>2 DEF Added
<1>2. MapThenSumSet(LAMBDA u : InitPosition[u, a].principal, Holders) = jt[Holders]
  BY DEF MapThenSumSet, MapThenFoldSet, Pick
<1>. HIDE DEF f
<1>3. \A it : SumsUp(it) <=> AddsParts(it, f, Holders)
  BY <1>1 DEF AddsParts, Adds
<1>4. \E it : AddsParts(it, f, Holders)
  BY <1>0, SumsExist
<1>. HIDE DEF SumsUp
<1>5. SumsUp(jt)
  BY <1>3, <1>4
<1>6. AddsParts(jt, f, Holders)
  BY <1>3, <1>5
<1>. HIDE DEF jt
<1>7. Sum(f, Holders) = jt[Holders]
  BY <1>0, <1>6, SumValue
<1>. QED
  BY <1>2, <1>7 DEF f

LEMMA OwedTotalIsSum ==
    ASSUME NEW a
    PROVE  MapThenSumSet(LAMBDA u : InitMarket.position[u, a].vToken.balance, Holders)
             = Sum(InitOwed(a), Holders)
<1>. DEFINE f == InitOwed(a)
            SumsUp(it) == it = [s \in SUBSET Holders |->
                       IF s = {} THEN 0
                       ELSE InitMarket.position[Pick(s), a].vToken.balance + it[s \ {Pick(s)}]]
            jt == CHOOSE it : SumsUp(it)
<1>0. IsFiniteSet(Holders)
  BY HoldersFinite
<1>1. \A it : \A s \in SUBSET Holders :
        Added(f, it, s) = IF s = {} THEN 0
                          ELSE InitMarket.position[Pick(s), a].vToken.balance + it[s \ {Pick(s)}]
  <2>1. \A s \in SUBSET Holders : s # {} => Pick(s) \in Holders
    BY DEF Pick
  <2>2. \A h \in Holders : f[h] = InitMarket.position[h, a].vToken.balance
    BY InitialMarket DEF InitOwed
  <2>. HIDE DEF f
  <2>. QED
    BY <2>1, <2>2 DEF Added
<1>2. MapThenSumSet(LAMBDA u : InitMarket.position[u, a].vToken.balance, Holders) = jt[Holders]
  BY DEF MapThenSumSet, MapThenFoldSet, Pick
<1>. HIDE DEF f
<1>3. \A it : SumsUp(it) <=> AddsParts(it, f, Holders)
  BY <1>1 DEF AddsParts, Adds
<1>4. \E it : AddsParts(it, f, Holders)
  BY <1>0, SumsExist
<1>. HIDE DEF SumsUp
<1>5. SumsUp(jt)
  BY <1>3, <1>4
<1>6. AddsParts(jt, f, Holders)
  BY <1>3, <1>5
<1>. HIDE DEF jt
<1>7. Sum(f, Holders) = jt[Holders]
  BY <1>0, <1>6, SumValue
<1>. QED
  BY <1>2, <1>7 DEF f

\* The sum that DebtTotalsAreSums speaks of.
LEMMA ShownIsSum ==
    ASSUME NEW a \in Assets, NEW P, \A id \in Ids : PositionShown(index, id) = P[id]
    PROVE  MapThenSumSet(LAMBDA u : Shown(u, a).scaledVariableDebt, Users)
             = Sum(DebtsShown(P, a), Users)
<1>. DEFINE f == DebtsShown(P, a)
            SumsUp(it) == it = [s \in SUBSET Users |->
                       IF s = {} THEN 0
                       ELSE Shown(Pick(s), a).scaledVariableDebt + it[s \ {Pick(s)}]]
            jt == CHOOSE it : SumsUp(it)
<1>0. IsFiniteSet(Users)
  BY LedgerAssumption
<1>1. \A it : \A s \in SUBSET Users :
        Added(f, it, s) = IF s = {} THEN 0
                          ELSE Shown(Pick(s), a).scaledVariableDebt + it[s \ {Pick(s)}]
  <2>1. \A s \in SUBSET Users : s # {} => Pick(s) \in Users
    BY DEF Pick
  <2>2. \A h \in Users : f[h] = Shown(h, a).scaledVariableDebt
    BY UserIds DEF DebtsShown, Shown, PositionShown
  <2>. HIDE DEF f
  <2>. QED
    BY <2>1, <2>2 DEF Added
<1>2. MapThenSumSet(LAMBDA u : Shown(u, a).scaledVariableDebt, Users) = jt[Users]
  BY DEF MapThenSumSet, MapThenFoldSet, Pick
<1>. HIDE DEF f
<1>3. \A it : SumsUp(it) <=> AddsParts(it, f, Users)
  BY <1>1 DEF AddsParts, Adds
<1>4. \E it : AddsParts(it, f, Users)
  BY <1>0, SumsExist
<1>. HIDE DEF SumsUp
<1>5. SumsUp(jt)
  BY <1>3, <1>4
<1>6. AddsParts(jt, f, Users)
  BY <1>3, <1>5
<1>. HIDE DEF jt
<1>7. Sum(f, Users) = jt[Users]
  BY <1>0, <1>6, SumValue
<1>. QED
  BY <1>2, <1>7 DEF f

LEMMA InitialPosition ==
    ASSUME NEW u \in Holders, NEW a \in Assets
    PROVE  /\ InitPosition[u, a] \in
                [bToken : [balance : Nat, index : Nat], vToken : [balance : Nat, index : Nat],
                 principal : Nat, interest : Nat, collateral : BOOLEAN]
           /\ InitPosition[u, a].collateral => InitPosition[u, a].bToken.balance > 0
           /\ u = Treasury => InitPosition[u, a].vToken.balance = 0
<1>1. <<u, a>> \in Holders \X Assets
  OBVIOUS
<1>2. InitPosition[<<u, a>>] \in
        [bToken : [balance : Nat, index : Nat], vToken : [balance : Nat, index : Nat],
         principal : Nat, interest : Nat, collateral : BOOLEAN]
  BY <1>1, IndexingAssumption, Zenon
<1>3. InitPosition[<<u, a>>].collateral => InitPosition[<<u, a>>].bToken.balance > 0
  BY <1>1, IndexingAssumption, Zenon
<1>4. InitPosition[Treasury, a].vToken.balance = 0
  BY IndexingAssumption, Zenon
<1>. QED
  BY <1>2, <1>3, <1>4

LEMMA InitialSums ==
    ASSUME NEW a \in Assets
    PROVE  /\ Sum(InitHeld(a), Holders) \in Nat /\ Sum(InitOwed(a), Holders) \in Nat
           /\ Sum(InitStable(a), Holders) \in Nat
<1>1. ASSUME NEW u \in Holders
      PROVE  InitHeld(a)[u] \in Nat /\ InitOwed(a)[u] \in Nat /\ InitStable(a)[u] \in Nat
  BY InitialPosition DEF InitHeld, InitOwed, InitStable
<1>. QED
  BY <1>1, HoldersFinite, SumNat

LEMMA InitialNumbers ==
    /\ InitIndex \in Nat \ {0}
    /\ InitMarket.index = [kind \in Kinds |-> [a \in Assets |-> InitIndex]]
    /\ InitMarket.underlying \in [Assets -> Int] /\ InitMarket.stableTotal \in [Assets -> Int]
    /\ InitMarket.stableGrowth = [a \in Assets |-> 0] /\ InitMarket.earning = [a \in Assets |-> 0]
    /\ InitMarket.accrued = [a \in Assets |-> 0] /\ InitMarket.unbacked = [a \in Assets |-> 0]
    /\ InitMarket.bridgeFee = 0 /\ InitMarket.reverted = FALSE
<1>. DEFINE held(a) == MapThenSumSet(LAMBDA u : InitPosition[u, a].bToken.balance, Holders)
            owed(a) == MapThenSumSet(LAMBDA u : InitPosition[u, a].vToken.balance, Holders)
            stable(a) == MapThenSumSet(LAMBDA u : InitPosition[u, a].principal, Holders)
<1>1. InitIndex \in Nat \ {0}
  <2>1. InitIndex \in Nat /\ InitIndex >= RAY
    BY IndexingAssumption, Zenon
  <2>. QED
    BY <2>1, MathAssumption
<1>2. /\ InitMarket.index = [kind \in Kinds |-> [a \in Assets |-> InitIndex]]
      /\ InitMarket.underlying = [a \in Assets |->
             RayMul(held(a), InitIndex) - RayMul(owed(a), InitIndex) - stable(a)]
      /\ InitMarket.stableTotal = [a \in Assets |-> stable(a)]
      /\ InitMarket.stableGrowth = [a \in Assets |-> 0] /\ InitMarket.earning = [a \in Assets |-> 0]
      /\ InitMarket.accrued = [a \in Assets |-> 0] /\ InitMarket.unbacked = [a \in Assets |-> 0]
      /\ InitMarket.bridgeFee = 0 /\ InitMarket.reverted = FALSE
  BY DEF InitMarket, Kinds
<1>3. ASSUME NEW a \in Assets
      PROVE  held(a) \in Nat /\ owed(a) \in Nat /\ stable(a) \in Nat
  BY InitialSums, HeldIsSum, OwedIsSum, StableIsSum
<1>. HIDE DEF held, owed, stable
<1>4. ASSUME NEW a \in Assets
      PROVE  RayMul(held(a), InitIndex) - RayMul(owed(a), InitIndex) - stable(a) \in Int
  <2>1. RayMul(held(a), InitIndex) \in Nat /\ RayMul(owed(a), InitIndex) \in Nat
    BY <1>1, <1>3, RayMulNat
  <2>. QED
    BY <1>3, <2>1
<1>5. InitMarket.underlying \in [Assets -> Int] /\ InitMarket.stableTotal \in [Assets -> Int]
  BY <1>2, <1>3, <1>4
<1>. QED
  BY <1>1, <1>2, <1>5, Zenon

LEMMA InitialLive == Live(InitMarket)
<1>1. /\ IsMarket(InitMarket) /\ InitMarket.log = <<>> /\ InitMarket.position = InitPosition
  BY InitialMarket
<1>2. ASSUME NEW u \in Holders, NEW a \in Assets
      PROVE  /\ \A kind \in Kinds :
                  /\ DOMAIN InitMarket.position[u, a][kind] = {"balance", "index"}
                  /\ InitMarket.position[u, a][kind].balance \in Nat
                  /\ InitMarket.position[u, a][kind].index \in Nat
             /\ InitMarket.position[u, a].principal \in Nat
             /\ InitMarket.position[u, a].interest \in Nat
  <2>. DEFINE p == InitPosition[u, a]
  <2>1. /\ p.bToken \in [balance : Nat, index : Nat] /\ p.vToken \in [balance : Nat, index : Nat]
        /\ p.principal \in Nat /\ p.interest \in Nat
    BY InitialPosition
  <2>2. InitMarket.position[u, a] = p
    BY <1>1
  <2>. HIDE DEF p
  <2>. QED
    BY <2>1, <2>2 DEF Kinds
<1>3. /\ InitMarket.index \in [Kinds -> [Assets -> Nat \ {0}]]
  BY InitialNumbers
<1>4. /\ {InitMarket.underlying, InitMarket.stableTotal, InitMarket.stableGrowth,
          InitMarket.unbacked} \subseteq [Assets -> Int]
      /\ {InitMarket.accrued, InitMarket.earning} \subseteq [Assets -> Nat]
      /\ InitMarket.bridgeFee \in 0..PERCENTAGE_FACTOR
  BY InitialNumbers, MathAssumption
<1>5. Counted(InitMarket)
  BY <1>2, <1>3, <1>4 DEF Counted
<1>6. ~InitMarket.reverted /\ InitMarket.reverted \in BOOLEAN
  BY InitialNumbers
<1>7. \A i \in DOMAIN InitMarket.log : Measured(InitMarket.log[i])
  BY <1>1
<1>. QED
  BY <1>1, <1>5, <1>6, <1>7 DEF Live, Sound

LEMMA InitialReserve ==
    ASSUME NEW a \in Assets
    PROVE  /\ IsReserve(IndexedReserve(InitMarket, a))
           /\ IndexedReserve(InitMarket, a).availableLiquidity = InitMarket.underlying[a]
           /\ IndexedReserve(InitMarket, a).totalScaledVariableDebt = Sum(InitOwed(a), Holders)
           /\ IndexedReserve(InitMarket, a).accruedToTreasury = 0
<1>. DEFINE total == MapThenSumSet(LAMBDA u : InitMarket.position[u, a].vToken.balance, Holders)
            r == [NewReserve EXCEPT
                    !.bToken = TokenOf("bToken", a), !.sToken = TokenOf("sToken", a),
                    !.vToken = TokenOf("vToken", a), !.isActive = TRUE,
                    !.availableLiquidity = InitMarket.underlying[a],
                    !.totalScaledVariableDebt = total,
                    !.totalPrincipalStableDebt = InitMarket.stableTotal[a],
                    !.liquidityIndex = InitIndex, !.variableBorrowIndex = InitIndex]
<1>1. IndexedReserve(InitMarket, a) = r
  BY DEF IndexedReserve
<1>2. total = Sum(InitOwed(a), Holders) /\ Sum(InitOwed(a), Holders) \in Int
  <2>1. total = Sum(InitOwed(a), Holders)
    BY OwedTotalIsSum
  <2>2. Sum(InitOwed(a), Holders) \in Int
    BY InitialSums
  <2>. QED
    BY <2>1, <2>2
<1>3. /\ InitMarket.underlying[a] \in Int /\ InitMarket.stableTotal[a] \in Int
      /\ InitIndex \in Int
  BY InitialNumbers
<1>. HIDE DEF total
<1>4. /\ DOMAIN r = ReserveFields /\ r.availableLiquidity = InitMarket.underlying[a]
      /\ r.totalScaledVariableDebt = total /\ r.totalPrincipalStableDebt = InitMarket.stableTotal[a]
      /\ r.liquidityIndex = InitIndex /\ r.variableBorrowIndex = InitIndex
      /\ r.accruedToTreasury = 0
  BY DEF NewReserve, ReserveFields
<1>. HIDE DEF r
<1>5. IsReserve(r)
  BY <1>2, <1>3, <1>4 DEF IsReserve, Figures
<1>. QED
  BY <1>1, <1>2, <1>4, <1>5

LEMMA InitialRecords ==
    LET ix == InitialIndex(InitMarket)
    IN  /\ ix.pools[Provider].pool = Pool
        /\ \A t \in Tokens :
             t \in DOMAIN ix.subTokens /\ ix.subTokens[t].underlyingAssetAddress = t[2]
        /\ ix.reserves = [r \in Assets \X {Provider} |-> IndexedReserve(InitMarket, r[1])]
<1>. DEFINE ix == InitialIndex(InitMarket)
            pool == [NewPool EXCEPT !.pool = Pool, !.flashloanPremiumTotal = FlashPremium,
                                    !.flashloanPremiumToProtocol = FlashPremiumToProtocol]
<1>1. /\ ix.pools = Put(EmptyTable, Provider, pool)
      /\ ix.subTokens = [t \in Tokens |-> [NewSubToken EXCEPT !.underlyingAssetAddress = t[2]]]
      /\ ix.reserves = [r \in Assets \X {Provider} |-> IndexedReserve(InitMarket, r[1])]
  BY DEF InitialIndex, EmptyIndex
<1>2. pool.pool = Pool
  BY DEF NewPool
<1>3. \A a : [NewSubToken EXCEPT !.underlyingAssetAddress = a].underlyingAssetAddress = a
  BY DEF NewSubToken
<1>. HIDE DEF ix, pool
<1>4. ix.pools[Provider].pool = Pool
  BY <1>1, <1>2 DEF Put, EmptyTable
<1>5. \A t \in Tokens :
        t \in DOMAIN ix.subTokens /\ ix.subTokens[t].underlyingAssetAddress = t[2]
  BY <1>1, <1>3
<1>. QED
  BY <1>1, <1>4, <1>5, Zenon DEF ix

\* What the index shows of a position is what it is, opened or not.
LEMMA InitialShown ==
    ASSUME NEW u \in Holders, NEW a \in Assets
    PROVE  LET shown == PositionShown(InitialIndex(InitMarket), <<u, a, Provider>>)
           IN  /\ shown \in Positions
               /\ shown.scaledBTokenBalance = InitPosition[u, a].bToken.balance
               /\ shown.scaledVariableDebt = InitPosition[u, a].vToken.balance
               /\ shown.principalStableDebt = InitPosition[u, a].principal
<1>. DEFINE ix == InitialIndex(InitMarket)
            id == <<u, a, Provider>>
            p == InitPosition[u, a]
            shown == PositionShown(ix, id)
<1>1. /\ p \in [bToken : [balance : Nat, index : Nat], vToken : [balance : Nat, index : Nat],
                principal : Nat, interest : Nat, collateral : BOOLEAN]
  BY InitialPosition
<1>2. /\ DOMAIN ix.userReserves = {<<q[1], q[2], Provider>> : q \in Opened(InitMarket)}
      /\ \A r \in DOMAIN ix.userReserves :
           ix.userReserves[r] = IndexedPosition(InitPosition[r[1], r[2]])
  BY InitialTables, Zenon
<1>3. /\ p.bToken.balance \in Nat /\ p.vToken.balance \in Nat /\ p.principal \in Nat
      /\ p.collateral \in BOOLEAN
  BY <1>1
<1>. HIDE DEF ix
<1>4. ASSUME <<u, a>> \in Opened(InitMarket)
      PROVE  /\ shown \in Positions
             /\ shown.scaledBTokenBalance = p.bToken.balance
             /\ shown.scaledVariableDebt = p.vToken.balance
             /\ shown.principalStableDebt = p.principal
  <2>1. id \in DOMAIN ix.userReserves
    <3>1. id \in {<<q[1], q[2], Provider>> : q \in Opened(InitMarket)}
      BY <1>4
    <3>. QED
      BY <1>2, <3>1, Zenon
  <2>2. shown = IndexedPosition(p)
    BY <1>2, <2>1 DEF PositionShown, Has
  <2>. HIDE DEF shown, p
  <2>. QED
    BY <1>3, <2>2 DEF IndexedPosition, Positions
<1>5. ASSUME <<u, a>> \notin Opened(InitMarket)
      PROVE  /\ shown \in Positions
             /\ shown.scaledBTokenBalance = p.bToken.balance
             /\ shown.scaledVariableDebt = p.vToken.balance
             /\ shown.principalStableDebt = p.principal
  <2>1. id \notin DOMAIN ix.userReserves
    <3>1. SUFFICES ASSUME id \in DOMAIN ix.userReserves PROVE FALSE
      OBVIOUS
    <3>2. PICK q \in Opened(InitMarket) : id = <<q[1], q[2], Provider>>
      <4>1. id \in {<<q[1], q[2], Provider>> : q \in Opened(InitMarket)}
        BY <1>2, <3>1
      <4>. QED
        BY <4>1
    <3>3. q = <<u, a>>
      BY <3>2, InitialMarket DEF Opened, IsMarket, Shaped
    <3>. QED
      BY <1>5, <3>2, <3>3
  <2>2. p.bToken.balance = 0 /\ p.vToken.balance = 0 /\ p.principal = 0
    <3>1. ~(p.bToken.balance > 0) /\ ~(p.vToken.balance > 0) /\ ~(p.principal > 0)
      BY <1>5, InitialMarket DEF Opened, Owes, IsMarket, Shaped
    <3>. HIDE DEF p
    <3>2. \A x \in Nat : ~(x > 0) => x = 0
      OBVIOUS
    <3>. QED
      BY <1>3, <3>1, <3>2
  <2>3. shown = NewUserReserve
    BY <2>1 DEF PositionShown, Has
  <2>. HIDE DEF shown, p
  <2>. QED
    BY <2>2, <2>3, NewPositionTyped DEF NewUserReserve
<1>6. /\ shown \in Positions
      /\ shown.scaledBTokenBalance = p.bToken.balance
      /\ shown.scaledVariableDebt = p.vToken.balance
      /\ shown.principalStableDebt = p.principal
  BY <1>4, <1>5, Zenon
<1>. QED
  BY <1>6 DEF ix

LEMMA InitialKeeping ==
    ASSUME NEW R, NEW P, R = [a \in Assets |-> IndexedReserve(InitMarket, a)],
           P = [id \in Ids |-> PositionShown(InitialIndex(InitMarket), id)]
    PROVE  Keeping(InitialIndex(InitMarket), R, P)
<1>. DEFINE ix == InitialIndex(InitMarket)
<1>1. IsStore(ix)
  BY InitialStore
<1>2. /\ ix.pools[Provider].pool = Pool
      /\ \A t \in Tokens :
           t \in DOMAIN ix.subTokens /\ ix.subTokens[t].underlyingAssetAddress = t[2]
      /\ ix.reserves = [r \in Assets \X {Provider} |-> IndexedReserve(InitMarket, r[1])]
  BY InitialRecords, Zenon
<1>3. /\ DOMAIN ix.users = {p[1] : p \in Opened(InitMarket)}
      /\ DOMAIN ix.userReserves = {<<q[1], q[2], Provider>> : q \in Opened(InitMarket)}
  BY InitialTables, Zenon
<1>4. ix.userReserves = [id \in DOMAIN ix.userReserves |-> ix.userReserves[id]]
  BY DEF InitialIndex, EmptyIndex
<1>5. \A q \in Opened(InitMarket) : q \in Holders \X Assets
  BY InitialMarket DEF Opened, IsMarket, Shaped
<1>6. ASSUME NEW id \in Ids PROVE PositionShown(ix, id) \in Positions
  <2>1. id[1] \in Holders /\ id[2] \in Assets /\ id = <<id[1], id[2], Provider>>
    BY DEF Ids
  <2>2. PositionShown(ix, <<id[1], id[2], Provider>>) \in Positions
    BY <2>1, InitialShown, Zenon
  <2>. QED
    BY <2>1, <2>2, Zenon
<1>. HIDE DEF ix
<1>7. \A id \in DOMAIN ix.userReserves : id \in Ids /\ id[1] \in DOMAIN ix.users
  BY <1>3, <1>5 DEF Ids
<1>8. /\ DOMAIN ix.reserves = Assets \X {Provider}
      /\ \A a \in Assets : ix.reserves[<<a, Provider>>] = R[a] /\ IsReserve(R[a])
  BY <1>2, InitialReserve
<1>9. P \in [Ids -> Positions] /\ \A id \in Ids : PositionShown(ix, id) = P[id]
  BY <1>6 DEF ix
<1>10. Keeping(ix, R, P)
  BY <1>1, <1>2, <1>7, <1>8, <1>9, <1>4 DEF Keeping
<1>. QED
  BY <1>10 DEF ix

LEMMA InitialTotals ==
    ASSUME NEW P, P = [id \in Ids |-> PositionShown(InitialIndex(InitMarket), id)],
           NEW a \in Assets
    PROVE  Sum(InitOwed(a), Holders) = Sum(DebtsShown(P, a), Users)
<1>. DEFINE f == InitOwed(a)
            g == DebtsShown(P, a)
<1>1. ASSUME NEW u \in Users PROVE f[u] = g[u]
  <2>1. u \in Holders /\ <<u, a, Provider>> \in Ids
    BY UsersHold, UserIds
  <2>2. PositionShown(InitialIndex(InitMarket), <<u, a, Provider>>).scaledVariableDebt
          = InitPosition[u, a].vToken.balance
    BY <2>1, InitialShown, Zenon
  <2>3. P[<<u, a, Provider>>] = PositionShown(InitialIndex(InitMarket), <<u, a, Provider>>)
    BY <2>1
  <2>4. f[u] = InitPosition[u, a].vToken.balance
    BY <2>1 DEF InitOwed
  <2>5. g[u] = P[<<u, a, Provider>>].scaledVariableDebt
    BY DEF DebtsShown
  <2>. QED
    BY <2>2, <2>3, <2>4, <2>5, Zenon
<1>2. /\ \A u \in Holders : f[u] \in Int
      /\ Treasury \in Holders /\ f[Treasury] = 0
      /\ Holders \ {Treasury} = Users
  <2>1. Treasury \in Holders /\ Holders \ {Treasury} = Users
    BY LedgerAssumption DEF Holders
  <2>2. ASSUME NEW u \in Holders PROVE f[u] \in Int
    <3>. DEFINE owed == InitPosition[u, a].vToken.balance
    <3>1. owed \in Nat
      BY InitialPosition
    <3>2. f[u] = owed
      BY DEF InitOwed
    <3>. HIDE DEF owed, f
    <3>. QED
      BY <3>1, <3>2
  <2>3. f[Treasury] = 0
    BY <2>1, InitialPosition DEF InitOwed
  <2>. QED
    BY <2>1, <2>2, <2>3
<1>. HIDE DEF f, g
<1>. DEFINE rest == Sum(f, Users)
<1>3. Sum(f, Holders) = 0 + rest
  BY <1>2, HoldersFinite, SumRemove
<1>4. rest \in Int
  BY <1>2, LedgerAssumption, UsersHold, SumInt
<1>5. Sum(f, Users) = Sum(g, Users)
  BY <1>1, LedgerAssumption, SumSame
<1>6. 0 + rest = rest
  BY <1>4
<1>7. Sum(f, Holders) = Sum(g, Users)
  BY <1>3, <1>5, <1>6
<1>. QED
  BY <1>7 DEF f, g

LEMMA InitialEntry ==
    ASSUME NEW R, NEW P, R = [a \in Assets |-> IndexedReserve(InitMarket, a)],
           P = [id \in Ids |-> PositionShown(InitialIndex(InitMarket), id)], NEW k \in Keys
    PROVE  Entry(R, P, k) = Ledger(InitMarket, k)
<1>1. CASE k[1] = "cash" /\ k[2] \in Assets
  <2>1. R[k[2]].availableLiquidity = InitMarket.underlying[k[2]]
    BY <1>1, InitialReserve
  <2>. QED
    BY <1>1, <2>1 DEF Entry, Ledger
<1>2. CASE k[1] \in {"principal", "bToken", "vToken"} /\ k[2] \in Users /\ k[3] \in Assets
  <2>. DEFINE id == <<k[2], k[3], Provider>>
              shown == PositionShown(InitialIndex(InitMarket), id)
              p == InitMarket.position[k[2], k[3]]
  <2>1. /\ shown.scaledBTokenBalance = p.bToken.balance
        /\ shown.scaledVariableDebt = p.vToken.balance
        /\ shown.principalStableDebt = p.principal
    <3>1. k[2] \in Holders /\ k[3] \in Assets
      BY <1>2, UsersHold
    <3>2. p = InitPosition[k[2], k[3]]
      BY InitialMarket
    <3>3. /\ shown.scaledBTokenBalance = InitPosition[k[2], k[3]].bToken.balance
          /\ shown.scaledVariableDebt = InitPosition[k[2], k[3]].vToken.balance
          /\ shown.principalStableDebt = InitPosition[k[2], k[3]].principal
      BY <3>1, InitialShown, Zenon
    <3>. HIDE DEF shown, p
    <3>. QED
      BY <3>2, <3>3
  <2>2. P[id] = shown
    BY <1>2, UserIds
  <2>3. /\ k[1] = "principal" =>
             Entry(R, P, k) = P[id].principalStableDebt /\ Ledger(InitMarket, k) = p.principal
        /\ k[1] = "bToken" =>
             Entry(R, P, k) = P[id].scaledBTokenBalance /\ Ledger(InitMarket, k) = p.bToken.balance
        /\ k[1] = "vToken" =>
             Entry(R, P, k) = P[id].scaledVariableDebt /\ Ledger(InitMarket, k) = p.vToken.balance
    BY DEF Entry, Ledger
  <2>. HIDE DEF shown, p, id
  <2>. QED
    BY <1>2, <2>1, <2>2, <2>3
<1>. QED
  BY <1>1, <1>2, KeyCases

LEMMA InitialAmounts == Init => AmountsTold
<1>1. SUFFICES ASSUME Init PROVE AmountsTold
  OBVIOUS
<1>2. /\ market = InitMarket /\ flash = <<>> /\ index = InitialIndex(InitMarket)
      /\ rounded = [t \in Kinds \X Holders \X Assets |-> 0]
      /\ moved = {} /\ unseen = [a \in Assets |-> 0]
  BY <1>1 DEF Init, Kinds
<1>3. Live(market) /\ market.log = <<>>
  BY <1>2, InitialLive, InitialMarket
<1>. DEFINE H == History
<1>4. /\ H \in Histories
      /\ H = [rounded |-> rounded, moved |-> moved, unseen |-> unseen]
  BY <1>2 DEF Histories, History
<1>5. ASSUME NEW k \in Keys PROVE Slack(H, k) = 0 /\ Extra(H, k) = 0
  <2>1. H.rounded = [t \in Kinds \X Holders \X Assets |-> 0] /\ H.unseen = [a \in Assets |-> 0]
    BY <1>2, <1>4
  <2>2. CASE k[1] = "cash" /\ k[2] \in Assets
    BY <2>1, <2>2 DEF Slack, Extra, Kinds
  <2>3. CASE k[1] \in {"principal", "bToken", "vToken"} /\ k[2] \in Users /\ k[3] \in Assets
    <3>1. k[2] \in Holders
      BY <2>3, UsersHold
    <3>2. k[1] \in Kinds => <<k[1], k[2], k[3]>> \in Kinds \X Holders \X Assets
      BY <2>3, <3>1
    <3>. QED
      BY <2>1, <2>3, <3>2 DEF Slack, Extra
  <2>. QED
    BY <2>2, <2>3, KeyCases
<1>6. PICK R : R = [a \in Assets |-> IndexedReserve(InitMarket, a)]
  OBVIOUS
<1>7. PICK P : P = [id \in Ids |-> PositionShown(InitialIndex(InitMarket), id)]
  OBVIOUS
<1>8. Keeping(index, R, P)
  BY <1>2, <1>6, <1>7, InitialKeeping
<1>9. Totalled(R, P)
  BY <1>6, <1>7, InitialReserve, InitialTotals DEF Totalled
<1>10. Owing(market, R)
  <2>1. ASSUME NEW a \in Assets PROVE R[a].accruedToTreasury <= market.accrued[a]
    BY <1>2, <1>6, InitialReserve, InitialNumbers
  <2>. QED
    BY <2>1 DEF Owing
<1>. HIDE DEF H
<1>11. ASSUME NEW k \in Keys PROVE Booked(market, k, 0, H, R, P)
  <2>1. Entry(R, P, k) = Ledger(market, k)
    BY <1>2, <1>6, <1>7, InitialEntry
  <2>2. Ledger(market, k) \in Int
    BY <1>3, LedgerInt
  <2>. DEFINE reads == Ledger(market, k)
              T == [i \in 0..0 |-> reads]
  <2>3. Len(market.log) = 0
    BY <1>3
  <2>4. T[0] = reads
    OBVIOUS
  <2>5. Starts(H, R, P, k, T[0])
    <3>. HIDE DEF reads, T
    <3>1. reads \in Int /\ Entry(R, P, k) = reads
      BY <2>1, <2>2 DEF reads
    <3>. QED
      BY <1>5, <2>4, <3>1 DEF Starts
  <2>6. reads = reads + 0 /\ \A i \in 0..0 : T[i] \in Int
    BY <2>2
  <2>. HIDE DEF T
  <2>7. Trace(market.log, 0, 0, k, T)
    BY <2>6 DEF Trace
  <2>. QED
    BY <2>3, <2>4, <2>5, <2>6, <2>7 DEF Booked
<1>. QED
  BY <1>2, <1>3, <1>4, <1>8, <1>9, <1>10, <1>11 DEF AmountsTold, AmountsBooked, H

-------------------------------------------------------------------------------
(* The theorems about amounts.                                             *)

\* What the index shows, what the log still says and what the ledgers read add up, whoever
\* calls, whenever blocks end and loans are undone, for every index, amount and rounding.
THEOREM AmountsAreTold == Spec => [](SettingsTold /\ AmountsTold)
<1>1. Init => SettingsTold /\ AmountsTold
  BY InitialIndexing, InitialAmounts
<1>2. SettingsTold /\ AmountsTold /\ [Next]_vars => AmountsTold'
  BY AmountsPreserved
<1>. QED
  BY <1>1, <1>2, IndexingIsInvariant, PTL DEF Spec

LEMMA TablesTyped ==
    ASSUME SettingsTold, AmountsTold
    PROVE  TypeOK
<1>1. PICK R, P : Keeping(index, R, P)
  BY DEF AmountsTold
<1>2. /\ rounded \in [Kinds \X Holders \X Assets -> Nat]
      /\ moved \subseteq Holders \X Assets /\ unseen \in [Assets -> Int]
  BY DEF AmountsTold, History, Histories
<1>3. DOMAIN index.reserves = Assets \X {Provider}
  BY <1>1 DEF Keeping
<1>4. ASSUME NEW r \in DOMAIN index.reserves
      PROVE  /\ DOMAIN index.reserves[r] = DOMAIN NewReserve
             /\ {index.reserves[r].availableLiquidity,
                 index.reserves[r].totalScaledVariableDebt,
                 index.reserves[r].totalPrincipalStableDebt, index.reserves[r].liquidityIndex,
                 index.reserves[r].variableBorrowIndex, index.reserves[r].accruedToTreasury}
                   \subseteq Int
  <2>1. r[1] \in Assets /\ r = <<r[1], Provider>>
    BY <1>3
  <2>2. IsReserve(index.reserves[r])
    BY <1>1, <2>1 DEF Keeping
  <2>. QED
    BY <2>2 DEF IsReserve, ReserveFields, Figures
<1>5. /\ DOMAIN index.userReserves \subseteq Ids
      /\ \A id \in DOMAIN index.userReserves :
           index.userReserves[id] \in Positions /\ id[1] \in DOMAIN index.users
  BY <1>1 DEF Keeping, PositionShown, Has
<1>6. index.userReserves = [id \in DOMAIN index.userReserves |-> index.userReserves[id]]
  BY <1>1 DEF Keeping
<1>7. index.userReserves \in [DOMAIN index.userReserves -> Positions]
  BY <1>5, <1>6
<1>8. {p[1] : p \in DOMAIN index.userReserves} \subseteq DOMAIN index.users
  BY <1>5
<1>. QED
  BY <1>2, <1>3, <1>4, <1>5, <1>7, <1>8 DEF TypeOK, SettingsTold, Ids, Positions, Kinds

\* Once the log is empty, the index shows what the ledgers read.
LEMMA CaughtUpShows ==
    ASSUME AmountsTold, CaughtUp
    PROVE  \E R, P : /\ Keeping(index, R, P) /\ Owing(market, R)
                     /\ \A k \in Keys : Starts(History, R, P, k, Ledger(market, k))
<1>1. PICK R, P : /\ Keeping(index, R, P) /\ Owing(market, R) /\ AmountsBooked(R, P)
  BY DEF AmountsTold
<1>2. market.log = <<>> /\ flash = <<>> /\ Live(market)
  BY DEF CaughtUp, AmountsTold
<1>3. \A k \in Keys : Booked(market, k, 0, History, R, P)
  BY <1>1, <1>2 DEF AmountsBooked, LoanBooked
<1>4. ASSUME NEW k \in Keys PROVE Starts(History, R, P, k, Ledger(market, k))
  <2>. DEFINE reads == Ledger(market, k)
  <2>1. Len(market.log) = 0 /\ reads \in Int
    BY <1>2, LedgerInt
  <2>2. PICK T : T[0] = reads + 0 /\ Starts(History, R, P, k, T[0])
    BY <1>3, <2>1 DEF Booked
  <2>. HIDE DEF reads
  <2>3. T[0] = reads
    BY <2>1, <2>2
  <2>4. Starts(History, R, P, k, reads)
    BY <2>2, <2>3
  <2>. QED
    BY <2>4 DEF reads
<1>. QED
  BY <1>1, <1>4

LEMMA PositionsFollow ==
    ASSUME AmountsTold
    PROVE  PositionsMirrored
<1>1. SUFFICES ASSUME CaughtUp, NEW u \in Users, NEW a \in Assets, NEW p,
                      p = market.position[u, a]
               PROVE  /\ Shown(u, a).principalStableDebt = p.principal
                      /\ Shown(u, a).scaledVariableDebt - p.vToken.balance
                           \in 0..rounded["vToken", u, a]
                      /\ <<u, a>> \notin moved =>
                           Shown(u, a).scaledBTokenBalance - p.bToken.balance
                             \in 0..rounded["bToken", u, a]
  BY DEF PositionsMirrored
<1>2. PICK R, P : /\ Keeping(index, R, P)
                  /\ \A k \in Keys : Starts(History, R, P, k, Ledger(market, k))
  BY <1>1, CaughtUpShows
<1>3. History.rounded = rounded /\ History.moved = moved /\ History \in Histories
  BY DEF History, AmountsTold
<1>. DEFINE id == <<u, a, Provider>>
            shown == P[id]
<1>4. Shown(u, a) = shown
  BY <1>2, UserIds DEF Keeping, PositionShown, Shown
<1>5. /\ shown.scaledBTokenBalance \in Int /\ shown.scaledVariableDebt \in Int
      /\ shown.principalStableDebt \in Int
  BY <1>2, UserIds, PositionInt
<1>6. p.principal \in Nat /\ p.bToken.balance \in Nat /\ p.vToken.balance \in Nat
  <2>1. u \in Holders /\ Counted(market)
    BY UsersHold DEF AmountsTold, Live, Sound
  <2>2. /\ market.position[u, a]["bToken"].balance \in Nat
        /\ market.position[u, a]["vToken"].balance \in Nat
        /\ market.position[u, a].principal \in Nat
    BY <2>1, CountedPosition DEF Kinds
  <2>. QED
    BY <1>1, <2>2
<1>. HIDE DEF shown
<1>7. shown.principalStableDebt = p.principal
  <2>. DEFINE k == <<"principal", u, a>>
  <2>1. k \in Keys /\ Slack(History, k) = 0 /\ Extra(History, k) = 0 /\ ~Spoiled(History, k)
    BY DEF Keys, Slack, Extra, Spoiled, Kinds
  <2>2. Entry(R, P, k) = shown.principalStableDebt /\ Ledger(market, k) = p.principal
    BY <1>1 DEF Entry, Ledger, shown
  <2>3. Starts(History, R, P, k, Ledger(market, k))
    BY <1>2, <2>1
  <2>. HIDE DEF k
  <2>4. (shown.principalStableDebt - 0) - p.principal \in 0..0
    BY <2>1, <2>2, <2>3 DEF Starts
  <2>. QED
    BY <1>5, <1>6, <2>4
<1>8. shown.scaledVariableDebt - p.vToken.balance \in 0..rounded["vToken", u, a]
  <2>. DEFINE k == <<"vToken", u, a>>
  <2>1. /\ k \in Keys /\ Slack(History, k) = rounded["vToken", u, a]
        /\ Extra(History, k) = 0 /\ ~Spoiled(History, k)
    BY <1>3 DEF Keys, Slack, Extra, Spoiled, Kinds
  <2>2. Entry(R, P, k) = shown.scaledVariableDebt /\ Ledger(market, k) = p.vToken.balance
    BY <1>1 DEF Entry, Ledger, shown
  <2>3. Starts(History, R, P, k, Ledger(market, k))
    BY <1>2, <2>1
  <2>. HIDE DEF k
  <2>4. (shown.scaledVariableDebt - 0) - p.vToken.balance \in 0..rounded["vToken", u, a]
    BY <2>1, <2>2, <2>3 DEF Starts
  <2>5. shown.scaledVariableDebt - 0 = shown.scaledVariableDebt
    BY <1>5
  <2>. QED
    BY <2>4, <2>5
<1>9. ASSUME <<u, a>> \notin moved
      PROVE  shown.scaledBTokenBalance - p.bToken.balance \in 0..rounded["bToken", u, a]
  <2>. DEFINE k == <<"bToken", u, a>>
  <2>1. /\ k \in Keys /\ Slack(History, k) = rounded["bToken", u, a]
        /\ Extra(History, k) = 0 /\ ~Spoiled(History, k)
    BY <1>3, <1>9 DEF Keys, Slack, Extra, Spoiled, Kinds
  <2>2. Entry(R, P, k) = shown.scaledBTokenBalance /\ Ledger(market, k) = p.bToken.balance
    BY <1>1 DEF Entry, Ledger, shown
  <2>3. Starts(History, R, P, k, Ledger(market, k))
    BY <1>2, <2>1
  <2>. HIDE DEF k
  <2>4. (shown.scaledBTokenBalance - 0) - p.bToken.balance \in 0..rounded["bToken", u, a]
    BY <2>1, <2>2, <2>3 DEF Starts
  <2>5. shown.scaledBTokenBalance - 0 = shown.scaledBTokenBalance
    BY <1>5
  <2>. QED
    BY <2>4, <2>5
<1>. QED
  BY <1>4, <1>7, <1>8, <1>9

LEMMA LiquidityFollows ==
    ASSUME AmountsTold
    PROVE  LiquidityMirrored
<1>1. SUFFICES ASSUME CaughtUp, NEW a \in Assets
               PROVE  index.reserves[a, Provider].availableLiquidity
                        = market.underlying[a] + unseen[a]
  BY DEF LiquidityMirrored
<1>2. PICK R, P : /\ Keeping(index, R, P)
                  /\ \A k \in Keys : Starts(History, R, P, k, Ledger(market, k))
  BY <1>1, CaughtUpShows
<1>. DEFINE k == <<"cash", a>>
            shows == R[a].availableLiquidity
            reads == market.underlying[a]
            extra == unseen[a]
<1>3. k \in Keys
  BY DEF Keys
<1>4. /\ Slack(History, k) = 0 /\ Extra(History, k) = extra /\ ~Spoiled(History, k)
      /\ Entry(R, P, k) = shows /\ Ledger(market, k) = reads
  BY DEF Slack, Extra, Spoiled, Kinds, Entry, Ledger, History
<1>5. shows \in Int /\ index.reserves[<<a, Provider>>] = R[a]
  BY <1>2, FigureInt DEF Keeping
<1>6. reads \in Int
  <2>1. Ledger(market, k) \in Int
    BY <1>3, LedgerInt DEF AmountsTold
  <2>. QED
    BY <1>4, <2>1
<1>7. extra \in Int
  BY DEF AmountsTold, History, Histories
<1>8. Starts(History, R, P, k, Ledger(market, k))
  BY <1>2, <1>3
<1>. HIDE DEF k, shows, reads, extra
<1>9. (shows - extra) - reads \in 0..0
  BY <1>4, <1>8 DEF Starts
<1>10. shows = reads + extra
  BY <1>5, <1>6, <1>7, <1>9
<1>. QED
  BY <1>5, <1>10 DEF shows, reads, extra

LEMMA TotalsFollow ==
    ASSUME AmountsTold
    PROVE  DebtTotalsAreSums
<1>1. PICK R, P : Keeping(index, R, P) /\ Totalled(R, P)
  BY DEF AmountsTold
<1>2. ASSUME NEW a \in Assets
      PROVE  index.reserves[a, Provider].totalScaledVariableDebt =
               MapThenSumSet(LAMBDA u : Shown(u, a).scaledVariableDebt, Users)
  <2>1. /\ index.reserves[<<a, Provider>>] = R[a]
        /\ \A id \in Ids : PositionShown(index, id) = P[id]
    BY <1>1 DEF Keeping
  <2>2. R[a].totalScaledVariableDebt = Sum(DebtsShown(P, a), Users)
    BY <1>1 DEF Totalled
  <2>. DEFINE total == MapThenSumSet(LAMBDA u : Shown(u, a).scaledVariableDebt, Users)
  <2>3. total = Sum(DebtsShown(P, a), Users)
    BY <2>1, ShownIsSum
  <2>. HIDE DEF total
  <2>4. index.reserves[a, Provider].totalScaledVariableDebt = total
    BY <2>1, <2>2, <2>3
  <2>. QED
    BY <2>4 DEF total
<1>. QED
  BY <1>2 DEF DebtTotalsAreSums

LEMMA AccruedFollows ==
    ASSUME AmountsTold
    PROVE  AccruedNeverOverstated
<1>1. SUFFICES ASSUME CaughtUp, NEW a \in Assets
               PROVE  index.reserves[a, Provider].accruedToTreasury <= market.accrued[a]
  BY DEF AccruedNeverOverstated
<1>2. PICK R, P : Keeping(index, R, P) /\ Owing(market, R)
  BY <1>1, CaughtUpShows
<1>3. Len(market.log) = 0
  BY <1>1 DEF CaughtUp
<1>4. R[a].accruedToTreasury <= market.accrued[a]
  BY <1>2, <1>3 DEF Owing
<1>. QED
  BY <1>2, <1>4 DEF Keeping

\* Every handler leaves tables of whole records with numbers in them, about users, assets
\* and tokens of the market only, and no position without its user.
THEOREM IndexIsTyped == Spec => []TypeOK
<1>1. SettingsTold /\ AmountsTold => TypeOK
  BY TablesTyped
<1>. QED
  BY <1>1, AmountsAreTold, PTL

\* Once it has indexed the block, the index shows the stable principal of every position
\* exactly and its scaled balances up to one unit per burn that was reported as a mint,
\* and never too low, but for positions a misread transfer has touched.
THEOREM PositionsAreMirrored == Spec => []PositionsMirrored
<1>1. SettingsTold /\ AmountsTold => PositionsMirrored
  BY PositionsFollow
<1>. QED
  BY <1>1, AmountsAreTold, PTL

\* Once it has indexed the block, the liquidity it shows is the cash of the bToken, but for
\* what the mapping is known to count wrongly.
THEOREM LiquidityIsMirrored == Spec => []LiquidityMirrored
<1>1. SettingsTold /\ AmountsTold => LiquidityMirrored
  BY LiquidityFollows
<1>. QED
  BY <1>1, AmountsAreTold, PTL

\* At every event, the variable debt the index shows for a reserve is the sum of what it
\* shows for the users.
THEOREM DebtTotalsStaySums == Spec => []DebtTotalsAreSums
<1>1. SettingsTold /\ AmountsTold => DebtTotalsAreSums
  BY TotalsFollow
<1>. QED
  BY <1>1, AmountsAreTold, PTL

\* Once it has indexed the block, the index never shows more accrued to the treasury than
\* the pool owes it: what it shows is an answer of the pool, and since then the pool has
\* owed no less, for every mint to the treasury makes the index ask again.
THEOREM AccruedIsNotOverstated == Spec => []AccruedNeverOverstated
<1>1. SettingsTold /\ AmountsTold => AccruedNeverOverstated
  BY AccruedFollows
<1>. QED
  BY <1>1, AmountsAreTold, PTL
===============================================================================
