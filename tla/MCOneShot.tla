----------------------------- MODULE MCOneShot -----------------------------
(* A small instance of OneShot for TLC, in units of time of 60 s: the     *)
(* staleness window is exact, the shorter durations are rounded up.        *)
EXTENDS OneShot

CONSTANTS eth, bsc, arb,        \* chains; the provider of arb cannot be built
          weth, bscEth, arbEth  \* one coin on each; only weth has a Binance symbol

MCAssets == {weth, bscEth, arbEth}

MCCovers == [s \in Symbols |-> {weth}]

MCCoinOf == [a \in MCAssets |-> "weth"]

MCStartAssets ==
    [c \in Configured |->
        CASE c = eth -> {weth} [] c = bsc -> {bscEth} [] c = arb -> {arbEth}]
=============================================================================
