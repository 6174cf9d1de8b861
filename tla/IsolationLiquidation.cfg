SPECIFICATION Spec
CONSTANTS
    A = A
    B = B
    u1 = u1
    u2 = u2
    feed = feed
    C = C
    RAY = 1
    WAD = 1000
    PERCENTAGE_FACTOR = 100
    Users = {u1, u2}
    Treasury = Treasury
    Assets = {A, B}
    Categories = {}
    PriceSources = {}
    NoSource = NoSource
    MAX_UINT = 1000000
    AssetUnit <- OneEach
    DEBT_CEILING_UNIT = 1
    MaxStableRateBorrowSizePercent = 25
    SentinelSet = FALSE
    IsolatedCollateralSuppliers = {}
    InitConfig <- IsolationVolatileConfig
    InitEMode <- NoEMode
    InitPrice <- PriceTwenty
    Amounts = {10}
    PriceInputs <- VolatilePrices
    MaxIndex = 1
    MaxAccrual = 0
    ConfigCalls = {}
    CollateralParams = {}
    EModeParams = {}
    CapInputs = {}
    CeilingInputs = {}
    FeeInputs = {}
SYMMETRY UserSymmetry
PROPERTIES
    IsolatedDebtFollowsRepayment
CHECK_DEADLOCK FALSE
