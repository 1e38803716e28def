---------------------------- MODULE MCPriceFeeds ----------------------------
(* Small instances of PriceFeeds for TLC. The units of time are 30 s, which  *)
(* makes the program's defaults exact but for the first backoff.             *)
EXTENDS PriceFeeds

CONSTANTS weth, bweth   \* WETH on two chains: one symbol, one coin

MCAssets == {weth, bweth}

MCCovers == [s \in Symbols |-> MCAssets]

MCCoinOf == [a \in MCAssets |-> "weth"]
=============================================================================
