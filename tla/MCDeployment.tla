----------------------------- MODULE MCDeployment -----------------------------
(***************************************************************************)
(* A market of four assets for TLC, so that the second of the chunks they  *)
(* are listed in is incomplete and one of them cannot be borrowed.         *)
(***************************************************************************)
EXTENDS MarketDeployment

FourReserves == <<"USDT", "DAI", "WBTC", "BLEND">>
===============================================================================
