SPECIFICATION Spec
CONSTANTS
    A = A
    B = B
    u1 = u1
    u2 = u2
    feed = feed
    C = C
    RAY = 2
    WAD = 1000
    PERCENTAGE_FACTOR = 100
    Users = {u1}
    Treasury = Treasury
    Assets = {A, B}
    Categories = {}
    PriceSources = {}
    NoSource = NoSource
    MAX_UINT = 1000000
    AssetUnit <- OneEach
    DEBT_CEILING_UNIT = 1
    MaxStableRateBorrowSizePercent = 50
    SentinelSet = FALSE
    IsolatedCollateralSuppliers = {}
    InitConfig <- InterestConfig
    InitEMode <- NoEMode
    InitPrice <- PriceTwenty
    Amounts = {1, 2}
    PriceInputs <- DoublingPrices
    MaxIndex = 3
    MaxAccrual = 1
    ConfigCalls = {}
    CollateralParams = {}
    EModeParams = {}
    CapInputs = {}
    CeilingInputs = {}
    FeeInputs = {}
CONSTRAINT CashBound
INVARIANTS
    TypeOK
    DebtImpliesBorrowFlag
    DebtCanBeRepaid
    SupplyCanBeWithdrawn
    UnhealthyCanBeLiquidated
CHECK_DEADLOCK FALSE
