----------------------------- MODULE DeployConfig -----------------------------
(***************************************************************************)
(* The configuration of the market as the scripts read it: utils/config.   *)
(* Names, symbols and decimals are left out, and so are the numbers of the *)
(* interest-rate strategies, of which only the address matters here.       *)
(***************************************************************************)
EXTENDS Naturals, Sequences

CONSTANT ReserveSymbols    \* the keys of ReservesConfig, in order

-------------------------------------------------------------------------------
(* reservesConfigs.ts.                                                     *)

\* What all entries have in common.
IReserveParams ==
    [strategy |-> "rateStrategyStableOne", liquidationBonus |-> 10500,
     liquidationProtocolFee |-> 1000, borrowingEnabled |-> TRUE,
     stableBorrowRateEnabled |-> TRUE, flashLoanEnabled |-> TRUE, bTokenImpl |-> "BToken",
     reserveFactor |-> 1000, supplyCap |-> 0, borrowCap |-> 0, debtCeiling |-> 0,
     borrowableIsolation |-> TRUE, baseLTVAsCollateral |-> 0, liquidationThreshold |-> 0]

strategyDAI ==
    [IReserveParams EXCEPT !.strategy = "rateStrategyStableTwo",
        !.baseLTVAsCollateral = 7500, !.liquidationThreshold = 8000]

strategyUSDC ==
    [IReserveParams EXCEPT !.baseLTVAsCollateral = 8000, !.liquidationThreshold = 8500]

strategyBLEND ==
    [IReserveParams EXCEPT !.strategy = "rateStrategyVolatileOne",
        !.baseLTVAsCollateral = 5000, !.liquidationThreshold = 6500,
        !.liquidationBonus = 11000, !.borrowingEnabled = FALSE,
        !.stableBorrowRateEnabled = FALSE, !.reserveFactor = 0, !.borrowableIsolation = FALSE]

strategyWETH ==
    [IReserveParams EXCEPT !.strategy = "rateStrategyVolatileOne",
        !.baseLTVAsCollateral = 8000, !.liquidationThreshold = 8250,
        !.borrowableIsolation = FALSE]

strategyWBTC ==
    [IReserveParams EXCEPT !.strategy = "rateStrategyVolatileOne",
        !.baseLTVAsCollateral = 7000, !.liquidationThreshold = 7500,
        !.liquidationBonus = 11000, !.reserveFactor = 2000, !.borrowableIsolation = FALSE]

strategyUSDT ==
    [IReserveParams EXCEPT !.baseLTVAsCollateral = 7500, !.liquidationThreshold = 8000,
        !.debtCeiling = 1000000]

-------------------------------------------------------------------------------
(* index.ts and commons.ts.                                                *)

ReservesConfig ==
    [USDT |-> strategyUSDT, DAI |-> strategyDAI, USDC |-> strategyUSDC,
     WETH |-> strategyWETH, WBTC |-> strategyWBTC, BLEND |-> strategyBLEND]

RateStrategies ==
    <<"rateStrategyVolatileOne", "rateStrategyStableOne", "rateStrategyStableTwo">>

FlashLoanPremiums == [total |-> 9, protocol |-> 0]

ASSUME ReserveSymbolsAssumption ==
    /\ ReserveSymbols \in Seq(DOMAIN ReservesConfig)
    /\ \A i, j \in DOMAIN ReserveSymbols : ReserveSymbols[i] = ReserveSymbols[j] => i = j

Symbols == {ReserveSymbols[i] : i \in DOMAIN ReserveSymbols}

\* The keys of ReservesConfig that are chosen, in order.
Among(chosen) ==
    LET among[i \in 0..Len(ReserveSymbols)] ==
            IF i = 0 THEN <<>>
            ELSE IF ReserveSymbols[i] \in chosen THEN Append(among[i - 1], ReserveSymbols[i])
            ELSE among[i - 1]
    IN  among[Len(ReserveSymbols)]

-------------------------------------------------------------------------------
(* utils.ts: chunk.  The first chunk of a sequence, and what follows it.   *)

Chunk(seq, size) == SubSeq(seq, 1, IF Len(seq) < size THEN Len(seq) ELSE size)

AfterChunk(seq, size) == SubSeq(seq, size + 1, Len(seq))
===============================================================================
