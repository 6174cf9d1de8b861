SPECIFICATION Spec
CONSTANTS
    A = A
    B = B
    u1 = u1
    u2 = u2
    feed = feed
    C = C
    RAY = 1
    WAD = 1000
    PERCENTAGE_FACTOR = 100
    Users = {u1, u2}
    Treasury = Treasury
    Assets = {A}
    Categories = {1}
    PriceSources = {}
    NoSource = NoSource
    MAX_UINT = 1000000
    AssetUnit <- OneEach
    DEBT_CEILING_UNIT = 1
    MaxStableRateBorrowSizePercent = 50
    SentinelSet = FALSE
    IsolatedCollateralSuppliers = {}
    InitConfig <- SwitchesConfig
    InitEMode <- EModes
    InitPrice <- PriceTwenty
    Amounts = {10}
    PriceInputs <- FixedPrices
    MaxIndex = 1
    MaxAccrual = 0
    ConfigCalls = {"setReserveActive", "setReserveFreeze", "setReserveBorrowing", "setReserveStableRateBorrowing", "setSupplyCap", "setBorrowCap", "setLiquidationProtocolFee", "setDebtCeiling", "setAssetEModeCategory"}
    CollateralParams = {}
    EModeParams = {}
    CapInputs = {10, 30}
    CeilingInputs = {0, 10}
    FeeInputs = {50, 101}
SYMMETRY UserSymmetry
INVARIANTS
    InactiveReserveEmpty
PROPERTIES
    FrozenReserveOnlyShrinks
CHECK_DEADLOCK FALSE
