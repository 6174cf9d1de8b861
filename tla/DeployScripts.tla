---------------------------- MODULE DeployScripts ----------------------------
(***************************************************************************)
(* The deployment scripts of deploy/ as one sequence of steps, in the      *)
(* order hardhat-deploy runs them on the networks without real assets      *)
(* (hardhat and bevm-testnet), where 01 and 11 do not return early.        *)
(*                                                                         *)
(* A step names contracts by what they are looked up by: the id of a       *)
(* record (utils/deploy-ids.ts, without the market's name), or, in capital *)
(* letters, a component the script asks the addresses provider for.        *)
(* "deployer" is the account itself.  What a script only reads is part of  *)
(* the step that uses it; a record it cannot do without is a step.         *)
(*                                                                         *)
(* The token artifacts that script 10 saves at its end, without waiting    *)
(* for it, are left out: nothing reads them.                               *)
(***************************************************************************)
EXTENDS DeployConfig

Step(do, ids, call, on, with) ==
    [do |-> do, ids |-> ids, call |-> call, on |-> on, with |-> with]

\* await deploy(id, {contract}): waits until it is mined and saves a record of it.
Deploy(id, contract) == Step("deploy", {id}, "create", contract, "")

\* A call the script waits for, and one it only sends; the same in a try block.
Invoke(call, on, with) == Step("invoke", {}, call, on, with)
TryInvoke(call, on, with) == Step("tryInvoke", {}, call, on, with)
Send(call, on, with) == Step("send", {}, call, on, with)
TrySend(call, on, with) == Step("trySend", {}, call, on, with)

\* deployments.get, which throws if there is no such record; save of a proxy.
Get(ids) == Step("get", ids, "", "", "")
SaveAs(id, component) == Step("save", {id}, "", component, "")

Check == Step("check", {}, "", "ACLManager", "")
PlanListing == Step("planListing", {}, "", "", "")
PlanConfiguration == Step("planConfiguration", {}, "", "", "")

ForEach(seq, StepOf(_)) == [i \in 1..Len(seq) |-> StepOf(seq[i])]

-------------------------------------------------------------------------------
deployTreasury ==
    <<Deploy("TreasuryProxy", "InitializableAdminUpgradeabilityProxy"),
      Deploy("Treasury-Controller", "EcosystemReserveController"),
      Deploy("Treasury-Implementation", "EcosystemReserveV2"),
      TrySend("initialize", "Treasury-Implementation", ""),
      TrySend("initialize", "TreasuryProxy", "Treasury-Implementation")>>

\* A token is recorded under its symbol.
MockToken(symbol) == Deploy(symbol, IF symbol = "WBTC" THEN "WETH9Mock" ELSE "TestnetERC20")

deployMocks == <<Deploy("Faucet", "Faucet")>> \o ForEach(ReserveSymbols, MockToken)

Library(name) == Deploy(name, name)

deployLibs ==
    ForEach(<<"Errors", "SupplyLogic", "BorrowLogic", "BridgeLogic", "ConfiguratorLogic",
              "EModeLogic", "LiquidationLogic", "FlashLoanLogic", "PoolLogic", "ReserveLogic",
              "ValidationLogic", "GenericLogic", "IsolationModeLogic">>, Library)

deployProvider ==
    <<Get({"LiquidationLogic", "SupplyLogic", "EModeLogic", "FlashLoanLogic", "BorrowLogic",
           "BridgeLogic", "PoolLogic", "ConfiguratorLogic"}),
      Deploy("PoolAddressesProviderRegistry", "PoolAddressesProviderRegistry"),
      Deploy("PoolAddressesProvider", "PoolAddressesProvider"),
      Invoke("registerAddressesProvider", "PoolAddressesProviderRegistry", "PoolAddressesProvider"),
      Deploy("PoolDataProvider", "PoolDataProvider"),
      Invoke("setPoolDataProvider", "PoolAddressesProvider", "PoolDataProvider")>>

deployAdmins ==
    <<Invoke("setACLAdmin", "PoolAddressesProvider", "deployer"),
      Deploy("ACLManager", "ACLManager"),
      Invoke("setACLManager", "PoolAddressesProvider", "ACLManager"),
      Invoke("addPoolAdmin", "ACLManager", "deployer"),
      Invoke("addEmergencyAdmin", "ACLManager", "deployer"),
      Check>>

deployPool ==
    <<Deploy("ProtocolOracle", "ProtocolOracle"),
      Invoke("setPriceOracle", "PoolAddressesProvider", "ProtocolOracle"),
      Deploy("Pool-Implementation", "Pool"),
      TryInvoke("initialize", "Pool-Implementation", ""),
      Deploy("PoolConfigurator-Implementation", "PoolConfigurator"),
      TryInvoke("initialize", "PoolConfigurator-Implementation", ""),
      Invoke("setPoolImpl", "PoolAddressesProvider", "Pool-Implementation"),
      SaveAs("Pool-Proxy", "POOL"),
      Invoke("setPoolConfiguratorImpl", "PoolAddressesProvider", "PoolConfigurator-Implementation"),
      SaveAs("PoolConfigurator-Proxy", "POOL_CONFIGURATOR"),
      Invoke("updateFlashloanPremiumTotal", "POOL_CONFIGURATOR", ""),
      Invoke("updateFlashloanPremiumToProtocol", "POOL_CONFIGURATOR", "")>>

\* As if the provider were registered once it names its components.
deployCoreBeforeRegistering ==
    SubSeq(deployProvider, 1, 3) \o SubSeq(deployProvider, 5, 6) \o SubSeq(deployProvider, 4, 4)
        \o deployAdmins \o deployPool

deployCore == deployProvider \o deployAdmins \o deployPool

deployToken ==
    <<Get({"PoolAddressesProvider"}),
      Deploy("BToken", "BToken"),
      TryInvoke("initialize", "BToken", ""),
      Deploy("DelegationAwareBToken", "DelegationAwareBToken"),
      TryInvoke("initialize", "DelegationAwareBToken", ""),
      Deploy("StableDebtToken", "StableDebtToken"),
      TryInvoke("initialize", "StableDebtToken", ""),
      Deploy("VariableDebtToken", "VariableDebtToken"),
      TryInvoke("initialize", "VariableDebtToken", "")>>

\* What the gateway wraps is recorded as WBTC.
getWethAddress == "WBTC"

deployPeriphery ==
    <<Get({"PoolAddressesProvider", getWethAddress}),
      Deploy("WrappedTokenGatewayV3", "WrappedTokenGatewayV3"),
      Deploy("WalletBalanceProvider", "WalletBalanceProvider")>>

deployIncentives ==
    <<Get({"PoolAddressesProvider"}),
      Deploy("EmissionManager", "EmissionManager"),
      Deploy("RewardsController", "RewardsController"),
      TryInvoke("initialize", "RewardsController", ""),
      Invoke("setAddressAsProxy", "PoolAddressesProvider", "RewardsController"),
      SaveAs("RewardsControllerProxy", "REWARD_CONTROLLER"),
      Invoke("setRewardsController", "EmissionManager", "REWARD_CONTROLLER")>>

RateStrategy(name) == Deploy(name, "DefaultReserveInterestRateStrategy")

\* These networks configure no treasury, so it is the deployed one.
getTreasuryAddress == "TreasuryProxy"

deployReserves ==
    <<Get({"PoolAddressesProvider", "PoolDataProvider"}),
      Deploy("ReservesSetupHelper", "ReservesSetupHelper")>>
    \o ForEach(RateStrategies, RateStrategy)
    \o <<Get({getTreasuryAddress, "RewardsControllerProxy", "StableDebtToken", "VariableDebtToken",
              "BToken"} \cup Symbols),
         PlanListing,
         Invoke("initReserves", "POOL_CONFIGURATOR", "")>>

\* As if the role were taken back before the reserves are configured.
revokeThenConfigure ==
    <<PlanConfiguration,
      Send("addRiskAdmin", "ACL_MANAGER", "ReservesSetupHelper"),
      Invoke("removeRiskAdmin", "ACL_MANAGER", "ReservesSetupHelper"),
      Invoke("configureReserves", "ReservesSetupHelper", "POOL_CONFIGURATOR")>>

\* The only call of a script that it neither waits for nor guards with a try.
configureReservesByHelper ==
    <<PlanConfiguration,
      Send("addRiskAdmin", "ACL_MANAGER", "ReservesSetupHelper"),
      Invoke("configureReserves", "ReservesSetupHelper", "POOL_CONFIGURATOR"),
      Invoke("removeRiskAdmin", "ACL_MANAGER", "ReservesSetupHelper")>>

AggregatorOf(symbol) ==
    [USDT |-> "USDT-TestnetPriceAggregator", DAI |-> "DAI-TestnetPriceAggregator",
     USDC |-> "USDC-TestnetPriceAggregator", WETH |-> "WETH-TestnetPriceAggregator",
     WBTC |-> "WBTC-TestnetPriceAggregator", BLEND |-> "BLEND-TestnetPriceAggregator"][symbol]

Aggregator(symbol) == Deploy(AggregatorOf(symbol), "MockAggregator")

initMockOracle ==
    ForEach(ReserveSymbols, Aggregator)
    \o <<Get({"ProtocolOracle"}), Invoke("setAssetSources", "ProtocolOracle", "")>>

Script ==
    deployTreasury \o deployMocks \o deployLibs \o deployCore \o deployToken \o deployPeriphery
        \o deployIncentives \o deployReserves \o configureReservesByHelper \o initMockOracle
===============================================================================
