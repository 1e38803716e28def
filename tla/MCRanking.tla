------------------------------ MODULE MCRanking ------------------------------
(* What one scan finds through one pool of three assets, for TLC. *)
EXTENDS Ranking

CONSTANTS usdc, weth, dai   \* assets

MCAssets == {usdc, weth, dai}

\* The two one-hop paths that find_paths returns from usdc through pool 3.
OneHop(to) ==
    [start |-> usdc, hops |-> <<[pool |-> 3, source |-> usdc, destination |-> to]>>]

Found(path) == [path : {path}, profit : Profits, roi : Rois]

MCFanOut == {<<o, p>> : o \in Found(OneHop(weth)), p \in Found(OneHop(dai))}
=============================================================================
