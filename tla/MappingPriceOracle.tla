------------------------- MODULE MappingPriceOracle --------------------------
(***************************************************************************)
(* Handlers of oracle events: graph/src/mapping/proxy-price-provider.ts,   *)
(* graph/src/mapping/price-oracle.ts and graph/src/helpers/                *)
(* price-updates.ts.                                                       *)
(*                                                                         *)
(* Prices are read back from the contracts (chain): the oracle answers     *)
(* with the price at the end of the block or reverts (NotSet).  The lists  *)
(* of dependent assets are always empty, since the code that would fill    *)
(* them is commented out, so the loops over them are left out; so are the  *)
(* handlers of the ChainlinkAggregator template, which nothing creates.    *)
(***************************************************************************)
EXTENDS SubgraphStore

CONSTANT MockUsd    \* the address that stands for the dollar

savePriceToHistory(ix) ==
    Record(ix, PriceHistoryItemEntity, {"asset", "price", "timestamp"})

\* The price of an asset changes, in the entity given.
genericPriceUpdate(ix, asset, priceAsset, price) ==
    savePriceToHistory(Save(ix, "priceAssets", asset, [priceAsset EXCEPT !.priceInEth = price]))

\* The price of the dollar itself is not kept; what is saved is the oracle given.
usdEthPriceUpdate(ix, priceOracle) ==
    Record(Save(ix, "priceOracles", "1", priceOracle), UsdEthPriceHistoryItemEntity,
           {"oracle", "price", "timestamp"})

-----------------------------------------------------------------------------
\* Assets without a source, or marked, take the price of the new fallback.
UsesFallback(priceAsset) == priceAsset.priceSource = NoAddress \/ priceAsset.isFallbackRequired

RepriceFallbackAssets(ix, tokens, chain) ==
    LET repriced == {t \in tokens : UsesFallback(PriceAssetOf(ix, t)) /\ chain.price[t] # NotSet}
    IN  savePriceToHistory(
            [ix EXCEPT !.priceAssets =
                [t \in repriced |-> [PriceAssetOf(ix, t) EXCEPT !.priceInEth = chain.price[t]]]
                @@ @])

\* The oracle with the new fallback is saved only along with a price of the dollar.  That
\* price is read without a guard: an oracle that has none stops the index.
handleFallbackOracleUpdated(ix, e, chain) ==
    LET loaded == getOrInitPriceOracle(ix)
        oracle == [PriceOracleOf(loaded) EXCEPT !.fallbackPriceOracle = e.fallbackOracle]
        repriced == RepriceFallbackAssets(
                        Follow(loaded, "FallbackPriceOracle", e.fallbackOracle),
                        oracle.tokensWithFallback, chain)
    IN  IF e.fallbackOracle = NoAddress
        THEN loaded
        ELSE IF chain.fallbackPrice = NotSet
        THEN Halt(ix)
        ELSE IF oracle.usdPriceEthFallbackRequired \/ oracle.usdPriceEthMainSource = NoAddress
        THEN usdEthPriceUpdate(repriced, oracle)
        ELSE repriced

\* Every asset is marked as in need of the fallback, whatever its source answers, so no
\* asset ever leaves tokensWithFallback.
priceFeedUpdated(ix, asset, source, priceOracle, chain) ==
    LET priceAsset == [PriceAssetOf(ix, asset) EXCEPT !.isFallbackRequired = TRUE,
                                                      !.priceSource = source]
        saved == IF asset = MockUsd
                 THEN usdEthPriceUpdate(ix, [priceOracle EXCEPT
                          !.usdPriceEthFallbackRequired = TRUE, !.usdPriceEthMainSource = source])
                 ELSE Save(ix, "priceOracles", "1",
                           [priceOracle EXCEPT !.tokensWithFallback = @ \cup {asset}])
    IN  IF chain.price[asset] = NotSet
        THEN ix
        ELSE genericPriceUpdate(saved, asset, priceAsset, chain.price[asset])

handleAssetSourceUpdated(ix, e, chain) ==
    LET loaded == getPriceOracleAsset(getOrInitPriceOracle(ix), e.asset)
        oracle == PriceOracleOf(loaded)
    IN  priceFeedUpdated(loaded, e.asset, e.source,
            IF oracle.proxyPriceProvider = NoAddress
            THEN [oracle EXCEPT !.proxyPriceProvider = e.address] ELSE oracle,
            chain)

handleBaseCurrencySet(ix, e) ==
    LET loaded == getOrInitPriceOracle(ix)
    IN  Save(loaded, "priceOracles", "1",
             [PriceOracleOf(loaded) EXCEPT !.baseCurrency = e.baseCurrency])

-----------------------------------------------------------------------------
\* The fallback oracle used on test networks.

handleAssetPriceUpdated(ix, e) ==
    LET loaded == getPriceOracleAsset(ix, e.asset)
    IN  genericPriceUpdate(loaded, e.asset, PriceAssetOf(loaded, e.asset), e.price)

handleEthPriceUpdated(ix, e) ==
    LET loaded == getOrInitPriceOracle(ix)
    IN  usdEthPriceUpdate(loaded, PriceOracleOf(loaded))
==============================================================================
