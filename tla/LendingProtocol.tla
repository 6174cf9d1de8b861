---------------------------- MODULE LendingProtocol ----------------------------
(***************************************************************************)
(* The pool, its configurator and their environment composed, and what the *)
(* protocol is expected to guarantee about positions.                      *)
(*                                                                         *)
(* Transactions are atomic, so a behaviour is a sequence of whole calls by *)
(* users, liquidators and admins, interleaved with accruals of interest,   *)
(* oracle updates and sequencer outages.  No fairness is assumed: nothing  *)
(* in the code obliges anybody to call.                                    *)
(***************************************************************************)
EXTENDS PoolConfigurator

Next == PoolNext \/ ConfiguratorNext

Spec == PoolInit /\ [][Next]_vars

-------------------------------------------------------------------------------
(* Configuration.                                                          *)

\* Whatever sequence of calls the admins make, every reserve and every category
\* somebody can be in keeps parameters under which a liquidation can be computed:
\* a bonus above 100 per cent wherever there is a liquidation threshold, and a fee
\* of at most the bonus.
ParametersValid ==
    /\ \A r \in Assets :
         /\ CollateralParamsAllowed(config[r])
         /\ config[r].liquidationProtocolFee <= PERCENTAGE_FACTOR
    /\ \A c \in Categories :
         eModeCategories[c].liquidationThreshold # 0 => EModeParamsAllowed(eModeCategories[c])
    /\ \A u \in Users :
         eMode[u] # 0 => eModeCategories[eMode[u]].liquidationThreshold # 0

-------------------------------------------------------------------------------
(* The bitmaps and the ledgers they summarise.                             *)

\* Account data, the eMode check and the siloed check look only at the assets in
\* the borrowing bitmap: a debt whose bit is clear would cost no collateral.  The
\* bit is cleared when an amount equals the whole debt and set when a scaled
\* balance was zero, two different measures of the same debt; they agree because
\* a full repayment burns exactly the scaled balance.
DebtImpliesBorrowFlag ==
    \A u \in Users, r \in Assets : HasDebt(u, r) => r \in borrowing[u]

\* A borrower of a siloed asset has no other debt, however the asset became siloed
\* and whoever repaid or liquidated which of its debts.
SiloedExclusive ==
    \A u \in Users, r \in Assets :
        HasDebt(u, r) /\ config[r].siloedBorrowing => borrowing[u] = {r}

\* An asset with a debt ceiling is never one collateral among several, although
\* supplies, transfers and liquidations enable collateral as a side effect.
IsolationExclusive ==
    \A u \in Users, r \in Assets :
        r \in usingAsCollateral[u] /\ config[r].debtCeiling # 0 => usingAsCollateral[u] = {r}

\* Everything a user in eMode has borrowed belongs to the user's category.
EModeDebtConsistent ==
    \A u \in Users :
        eMode[u] # 0 => \A r \in borrowing[u] : config[r].eModeCategory = eMode[u]

-------------------------------------------------------------------------------
(* Money.                                                                  *)

\* While no interest accrues, what suppliers may claim is exactly the cash of the
\* reserve plus what its borrowers owe: no operation, including liquidations that
\* pay a fee and repayments with bTokens, creates or destroys a claim.
Conservation ==
    \A r \in Assets :
        BTokenSupply(r) = cash[r] + TotalStableDebt(r) + TotalVariableDebt(r)

\* What users whose only collateral is c owe, in the precision of the ceiling.
DebtInIsolation(c) ==
    MapThenSumSet(LAMBDA u : MapThenSumSet(LAMBDA r : DebtCeilingAmount(r, UserDebt(u, r)), Assets),
                  {u \in Users : usingAsCollateral[u] = {c}})

\* The debt recorded against an isolated collateral is the debt of the users
\* isolated in it, through enabling, disabling, borrowing and repaying.
IsolatedDebtExact ==
    \A c \in Assets :
        config[c].debtCeiling # 0 => isolationModeTotalDebt[c] = DebtInIsolation(c)

\* A repayment or a liquidation of a user isolated in c takes the amount off the
\* debt counted against c, down to zero.
IsolatedDebtFollowsRepayment ==
    [][UNCHANGED <<configVars, indexVars>> =>
         \A u \in Users, c, d \in Assets :
            /\ usingAsCollateral[u] = {c}
            /\ config[c].debtCeiling # 0
            /\ DebtCeilingAmount(d, UserDebt(u, d) - UserDebt(u, d)') > 0
            => \/ isolationModeTotalDebt'[c] = 0
               \/ isolationModeTotalDebt'[c] =
                    isolationModeTotalDebt[c]
                      - DebtCeilingAmount(d, UserDebt(u, d) - UserDebt(u, d)')]_vars

\* No reserve is left half paused: while a reserve is paused none of its ledgers
\* moves, whichever reserve the call was addressed to.  Outside the model, mintToTreasury
\* asks only for an active reserve and can mint the treasury's accrued bTokens on a paused
\* one (PoolLogic.sol:93): accruedToTreasury is not kept.
PausedReserveUntouched ==
    [][\A r \in Assets : config[r].paused /\ UNCHANGED indexVars =>
         /\ cash'[r] = cash[r]
         /\ \A h \in Holders : scaledBToken'[h][r] = scaledBToken[h][r]
         /\ \A u \in Users : scaledDebt'[u][r] = scaledDebt[u][r]
                          /\ stableDebt'[u][r] = stableDebt[u][r]]_vars

\* A frozen reserve can be left but not entered: neither its bToken supply nor its
\* debt grows, whichever call is made on it or on another reserve; mintToTreasury, which
\* does not ask for it and is outside the model, can still mint what had accrued.
FrozenReserveOnlyShrinks ==
    [][\A r \in Assets : config[r].frozen /\ UNCHANGED indexVars =>
         /\ BTokenSupply(r)' <= BTokenSupply(r)
         /\ TotalStableDebt(r)' + TotalVariableDebt(r)'
              <= TotalStableDebt(r) + TotalVariableDebt(r)]_vars

\* Deactivating a reserve only asks for the absence of suppliers; no debt is left
\* behind either, and nothing enters the reserve until it is active again.
InactiveReserveEmpty ==
    \A r \in Assets : ~config[r].active =>
        /\ \A h \in Holders : scaledBToken[h][r] = 0
        /\ \A u \in Users : ~HasDebt(u, r)

-------------------------------------------------------------------------------
(* Solvency of positions.                                                  *)

\* Neither prices, nor interest, nor parameters change in the step.
MarketUnchanged == UNCHANGED <<oracleVars, configVars, indexVars>>

\* The collateral a liquidation may count on, in the base currency, times
\* PERCENTAGE_FACTOR and without the flooring of the averages.
LiquidationCapacity(u) ==
    MapThenSumSet(LAMBDA r : CollateralValue(u, r) * LiquidationThresholdOf(u, r),
                  CollateralAssets(u))

\* Two units of the base currency cover the roundings of one operation.
RoundingUnits == 2

Covered(u) ==
    TotalDebtInBaseCurrency(u) * PERCENTAGE_FACTOR
      <= LiquidationCapacity(u) + RoundingUnits * PERCENTAGE_FACTOR

\* Category c prices u's position as the oracle does, and counts u's collateral of the
\* category for no less than the reserve does.
Generous(u, c) ==
    /\ eModeCategories[c].priceSource = NoSource
    /\ \A r \in usingAsCollateral[u] :
         config[r].eModeCategory = c =>
           config[r].liquidationThreshold <= eModeCategories[c].liquidationThreshold

\* A borrower who is in no category enters one that is not generous.  The code checks no
\* health factor there (EModeLogic.sol:62), and does not keep categories generous either.
EntersWorseCategory(u) ==
    eMode[u] = 0 /\ eMode'[u] # 0 /\ borrowing[u] # {} /\ ~Generous(u, eMode'[u])

\* No call, by anybody, turns a healthy position into a liquidatable one: only prices,
\* interest and admins do, with one exception, the entry of the borrower itself into a
\* category worse than none, which EModeChangeKeepsHealth is about.  Operations that
\* check no health factor (repayments with bTokens, supplies and transfers to others that
\* enable collateral, entering any other category) are held to it as well as those that
\* do, and so is everybody else in the step of the exception.
HealthPreserved ==
    [][MarketUnchanged =>
         \A u \in Users :
            HealthFactor(u) >= HEALTH_FACTOR_LIQUIDATION_THRESHOLD /\ ~EntersWorseCategory(u)
              => Covered(u)']_vars

\* Changing the eMode category, entering one included, never drops the health factor
\* below the liquidation threshold (the promise of EModeLogic.sol:33).
EModeChangeKeepsHealth ==
    [][\A u \in Users :
         eMode'[u] # eMode[u] /\ HealthFactor(u) >= HEALTH_FACTOR_LIQUIDATION_THRESHOLD
           => HealthFactor(u)' >= HEALTH_FACTOR_LIQUIDATION_THRESHOLD]_vars

\* What is left of the collateral if every part of it is paid out with its bonus.
ValueNetOfBonus(u) ==
    MapThenSumSet(LAMBDA r : PercentDiv(CollateralValue(u, r), LiquidationBonusOf(u, r)),
                  CollateralAssets(u))

\* At the moment a loan is taken the collateral covers the whole debt and the
\* liquidation bonus on it, in every mixture of assets and categories.
LoanCoversBonus ==
    [][MarketUnchanged /\ UNCHANGED eMode =>
         \A u \in Users :
            (\E r \in Assets : UserDebt(u, r)' > UserDebt(u, r)) =>
              (TotalDebtInBaseCurrency(u) <= ValueNetOfBonus(u) + RoundingUnits)']_vars

\* A step that takes bTokens of c from u and reduces its debt of d, which is a
\* liquidation or a repayment with bTokens, takes at most the value of what is repaid,
\* of one unit more and of the bonus on both, and the unit of each asset that the
\* conversion between them rounds away; what is not collateral is taken at par.
LiquidationWithinBonus ==
    [][MarketUnchanged =>
         \A u \in Users, c, d \in Assets :
            LET taken == BTokenBalance(u, c) - BTokenBalance(u, c)'
                repaid == UserDebt(u, d) - UserDebt(u, d)'
                priceOfCollateral == price[PriceSourceOf(u, c)] * AssetUnit[d]
                priceOfDebt == price[DebtPriceSource(u, d)] * AssetUnit[c]
                bonus == IF c \in CollateralAssets(u) THEN LiquidationBonusOf(u, c)
                                                      ELSE PERCENTAGE_FACTOR
            IN  taken > 0 /\ repaid > 0 =>
                  taken * priceOfCollateral * PERCENTAGE_FACTOR
                    <= (repaid + 1) * priceOfDebt * bonus
                         + (priceOfCollateral + priceOfDebt) * PERCENTAGE_FACTOR]_vars

\* While the sequencer is down or within its grace period nobody borrows more, and
\* nobody loses collateral to a liquidation unless the health factor is below 0.95.
OutageProtectsBorrowers ==
    [][SentinelSet /\ ~sentinelUp /\ MarketUnchanged =>
         \A u \in Users :
            /\ \A r \in Assets : UserDebt(u, r)' <= UserDebt(u, r)
            /\ HealthFactor(u) >= MINIMUM_HEALTH_FACTOR_LIQUIDATION_THRESHOLD =>
                 \A c, d \in Assets :
                    c # d /\ UserDebt(u, d)' < UserDebt(u, d) =>
                      BTokenBalance(u, c)' >= BTokenBalance(u, c)]_vars
===============================================================================
