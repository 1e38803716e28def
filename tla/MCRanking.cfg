\* Two paths through one three-asset pool, found by one scan.
SPECIFICATION Spec
CHECK_DEADLOCK FALSE
CONSTANTS
    usdc = usdc
    weth = weth
    dai = dai
    Assets <- MCAssets
    PoolIds = {1, 2, 3}
    Unpriced = 0
    Profits = {1, 2}
    Rois = {0, 1}
    Batches <- MCFanOut
INVARIANTS MergesOnlyRotations
