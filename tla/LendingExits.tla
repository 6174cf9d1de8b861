----------------------------- MODULE LendingExits -----------------------------
(***************************************************************************)
(* What the protocol must always let its users do: leave, and be removed.  *)
(* Each property says that a call is enabled, that is, that no check, cap, *)
(* rounding or missing balance on its way makes it revert.                 *)
(***************************************************************************)
EXTENDS LendingProtocol

\* A borrower can leave: unless the reserve is paused or inactive, one call with
\* amount type(uint256).max repays the whole debt of a rate mode, at every index.
DebtCanBeRepaid ==
    \A u \in Users, r \in Assets, mode \in RateModes :
        DebtInMode(u, r, mode) # 0 /\ ActiveAndUnpaused(r) =>
            ENABLED (Repay(u, u, r, MAX_UINT, mode) /\ DebtInMode(u, r, mode)' = 0)

\* A supplier without debts can leave: unless the reserve is paused or short of
\* cash, one call withdraws the whole balance and leaves no scaled remainder.
SupplyCanBeWithdrawn ==
    \A u \in Users, r \in Assets :
        /\ BTokenBalance(u, r) \in 1..cash[r]
        /\ borrowing[u] = {}
        /\ ActiveAndUnpaused(r)
        => ENABLED (Withdraw(u, r, MAX_UINT) /\ scaledBToken'[u][r] = 0)

\* Collateral c of u is worth at least two of the smallest units of its debt of d:
\* below that a liquidation rounds to nothing and reverts.
WorthLiquidating(u, c, d) ==
    /\ UserDebt(u, d) # 0
    /\ CollateralValue(u, c) * AssetUnit[d] >= 2 * price[DebtPriceSource(u, d)]

\* An unhealthy position can be liquidated in one call, if the reserves are not
\* paused and the collateral is not dust: no rounding, no cap of the close factor
\* and no protocol fee makes the call revert, at any index.  BTokens can always be
\* received, the underlying if the reserve has the cash; in the latter case nothing
\* of the seizure comes back to the balance the fee is taken from.
UnhealthyCanBeLiquidated ==
    \A u \in Users : \A c \in CollateralAssets(u), d \in borrowing[u] :
        /\ HealthFactor(u) < HEALTH_FACTOR_LIQUIDATION_THRESHOLD
        /\ SentinelAllows
        /\ ActiveAndUnpaused(c) /\ ActiveAndUnpaused(d)
        /\ WorthLiquidating(u, c, d)
        => /\ ENABLED LiquidationCall(u, u, c, d, MAX_UINT, TRUE)
           /\ cash[c] >= BTokenBalance(u, c) =>
                ENABLED LiquidationCall(u, u, c, d, MAX_UINT, FALSE)
===============================================================================
