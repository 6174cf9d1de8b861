SPECIFICATION Spec
CONSTANTS
    RAY = 4
    WAD = 1000
    PERCENTAGE_FACTOR = 10000
    NoAddress = NoAddress
    NotSet = NotSet
    NoAnswer = NoAnswer
    MockUsd = MockUsd
    Deployer = Deployer
    HardCodedTreasuries = {}
    PastUpdateBlock = FALSE
    ReserveSymbols <- FourReserves
    GovernedSymbols = {"USDT", "BLEND"}
    MaxPending = 3
    MaxCrashes = 1
    MaxDisturbances = 2
INVARIANTS
    TypeOK
    RecordsTruthful
    MarketReady
    HelperRevoked
    IndexMirrorsConfiguration
    IndexFollowsMarket
    IndexHaltsOnlyFor
PROPERTIES
    EventuallyDeployed
    ListingImplemented
CHECK_DEADLOCK FALSE
