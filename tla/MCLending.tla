------------------------------- MODULE MCLending -------------------------------
(***************************************************************************)
(* Small markets for TLC.  Percentages are in hundredths and health factors *)
(* have three digits (PERCENTAGE_FACTOR = 100, WAD = 1000); amounts are     *)
(* multiples of ten where bonuses and fees matter, so that they are not     *)
(* rounded away, and assets start at a price of twenty.                     *)
(***************************************************************************)
EXTENDS LendingExits, TLC

CONSTANTS A, B, C, u1, u2, feed

UserSymmetry == Permutations(Users)

\* Only the first fee paid to the treasury is explored: further liquidations
\* split the amounts without meeting a new case.
FeeBound == MapThenSumSet(LAMBDA r : scaledBToken[Treasury][r], Assets) <= 1

\* With a ray of two, rounding is as coarse as an amount: borrowing one and repaying
\* two leaves cash behind.  Reserves with more cash than this are not explored.
CashBound == \A r \in Assets : cash[r] <= 4

\* Where admins move thresholds, what follows is explored only as long as every position
\* is healthy.  The step that makes one liquidatable is still checked; liquidations are
\* explored in the markets whose prices move.
HealthBound == \A u \in Users : HealthFactor(u) >= HEALTH_FACTOR_LIQUIDATION_THRESHOLD

OneEach == [r \in Assets |-> 1]
PriceTwenty == [s \in Assets \cup PriceSources |-> 20]
FixedPrices == [s \in Assets \cup PriceSources |-> {20}]

\* B may rise, making a loan of 10 B against 20 A liquidatable by half or in full.
DoublingPrices ==
    [s \in Assets \cup PriceSources |-> IF s = B THEN {40} ELSE {20}]
VolatilePrices == [s \in Assets \cup PriceSources |-> IF s = B THEN {33, 40} ELSE {20}]

\* An ordinary reserve: loans up to 50 per cent, liquidation at 80, a bonus of 10.
Reserve ==
    [ltv |-> 50, liquidationThreshold |-> 80, liquidationBonus |-> 110,
     liquidationProtocolFee |-> 50, supplyCap |-> 20, borrowCap |-> 20,
     debtCeiling |-> 0, eModeCategory |-> 0,
     active |-> TRUE, frozen |-> FALSE, paused |-> FALSE,
     borrowingEnabled |-> TRUE, stableRateBorrowingEnabled |-> FALSE,
     borrowableInIsolation |-> FALSE, siloedBorrowing |-> FALSE]

CollateralOnly == [Reserve EXCEPT !.borrowingEnabled = FALSE]

BorrowOnly ==
    [Reserve EXCEPT !.ltv = 0, !.liquidationThreshold = 0, !.liquidationBonus = 0]

TwoReserves(a, b) == [r \in Assets |-> IF r = A THEN a ELSE b]

VolatileConfig == TwoReserves([CollateralOnly EXCEPT !.supplyCap = 40], BorrowOnly)

NoCategory == [ltv |-> 0, liquidationThreshold |-> 0, liquidationBonus |-> 0,
               priceSource |-> NoSource]
StableCoins == [ltv |-> 80, liquidationThreshold |-> 90, liquidationBonus |-> 105,
                priceSource |-> NoSource]

NoEMode == [c \in Categories |-> NoCategory]
EModes == [c \in Categories |-> StableCoins]
\* A belongs to the category and B does not; both can be borrowed.  Of A, 40 can be supplied
\* and 30 borrowed: a loan against it can lie between the thresholds of the choices below.
EModeConfig ==
    LET Low == [Reserve EXCEPT !.ltv = 30, !.liquidationThreshold = 40]
    IN  TwoReserves([Low EXCEPT !.eModeCategory = 1, !.supplyCap = 40, !.borrowCap = 30],
                    [Low EXCEPT !.supplyCap = 10])

\* Two assets with a ceiling, of which only A may be borrowed, and an ordinary one.
IsolationConfig ==
    [r \in Assets |->
       CASE r = A -> [Reserve EXCEPT !.debtCeiling = 10, !.borrowableInIsolation = TRUE]
         [] r = B -> [Reserve EXCEPT !.borrowableInIsolation = TRUE]
         [] OTHER -> [CollateralOnly EXCEPT !.debtCeiling = 20, !.supplyCap = 40]]

SiloedConfig ==
    TwoReserves(Reserve, [Reserve EXCEPT !.siloedBorrowing = TRUE, !.supplyCap = 10])

\* With a bonus of 100 per cent and half of it for the treasury, even a seizure of two units
\* pays a fee; at an index of 3/2 two units are one scaled unit, and so is each of them.
InterestConfig ==
    TwoReserves([CollateralOnly EXCEPT !.supplyCap = 4, !.liquidationThreshold = 50,
                                       !.liquidationBonus = 200],
                [BorrowOnly EXCEPT !.supplyCap = 2, !.stableRateBorrowingEnabled = TRUE])

CollateralChoices ==
    {[ltv |-> 0, liquidationThreshold |-> 0, liquidationBonus |-> 0],
     [ltv |-> 80, liquidationThreshold |-> 80, liquidationBonus |-> 110],
     [ltv |-> 80, liquidationThreshold |-> 80, liquidationBonus |-> 150]}
EModeChoices ==
    {StableCoins, [StableCoins EXCEPT !.liquidationBonus = 150],
     [StableCoins EXCEPT !.ltv = 60, !.liquidationThreshold = 70]}

SwitchesConfig == [r \in Assets |-> [Reserve EXCEPT !.ltv = 60, !.supplyCap = 30]]

\* A category whose only member is the borrowable asset, with a price of its own.
FeedConfig ==
    TwoReserves([CollateralOnly EXCEPT !.supplyCap = 30], [BorrowOnly EXCEPT !.eModeCategory = 1])
FeedEModes == [c \in Categories |-> [StableCoins EXCEPT !.priceSource = feed]]
FeedPrices == [s \in Assets \cup PriceSources |-> IF s = feed THEN {33, 40} ELSE {20}]

IsolationVolatileConfig ==
    TwoReserves([Reserve EXCEPT !.debtCeiling = 20],
                [BorrowOnly EXCEPT !.borrowableInIsolation = TRUE])

===============================================================================
