----------------------------- MODULE MCScanOnce -----------------------------
(* Every snapshot of three pools over three assets, for TLC. *)
EXTENDS ScanOnce

CONSTANTS usdc, weth, dai   \* assets

MCAssets == {usdc, weth, dai}

AssetLists ==
    {<<usdc, weth>>, <<weth, dai>>, <<dai, usdc>>, <<usdc, weth, dai>>}

Listed(id, assets) == [pool |-> id, assets |-> assets]

\* Three different pools, or two of which the first is listed twice, or with one
\* that lists an asset twice.
MCSnapshots ==
    {<<Listed(1, a), Listed(2, b), Listed(3, c)>> :
        a \in AssetLists, b \in AssetLists, c \in AssetLists}
    \cup
    {<<Listed(1, a), Listed(2, b), Listed(1, a)>> :
        a \in AssetLists, b \in AssetLists}
    \cup
    {<<Listed(1, <<usdc, weth, usdc>>), Listed(2, a)>> : a \in AssetLists}

\* Two start assets, one that is listed twice, and one alone.
MCStartLists == {<<usdc, weth>>, <<weth, weth>>, <<dai>>}
=============================================================================
