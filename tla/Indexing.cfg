SPECIFICATION Spec
CONSTANTS
    A = A
    B = B
    u1 = u1
    u2 = u2
    RAY = 4
    WAD = 1000
    PERCENTAGE_FACTOR = 100
    NoAddress = NoAddress
    NotSet = NotSet
    Users = {u1, u2}
    Treasury = Treasury
    Assets = {A, B}
    Isolated = {B}
    EModeCategoryIds = {0, 1}
    FlashPremium = 50
    FlashPremiumToProtocol = 40
    BridgeFees = {50}
    Amounts = {1}
    StableInterest = 2
    Fees = {0, 1}
    MaxTransactions = 2
    MaxTick = 1
    HardCodedTreasuries = {}
    PastUpdateBlock = FALSE
    Provider = Provider
    InitPosition <- Positions
    InitIndex = 5
INVARIANTS
    TypeOK
    PositionsMirrored
    BorrowCountExact
    SwitchesMirrored
    DebtTotalsAreSums
    LiquidityMirrored
    AccruedNeverOverstated
    StopsOnlyForBridgeFee
CHECK_DEADLOCK FALSE
