\* Scans of every snapshot, with searches of up to three hops, some of which
\* the beam cuts short, and up to two profitable paths; the batches to rank are
\* those the scans make.
SPECIFICATION ScanSpec
CHECK_DEADLOCK FALSE
CONSTANTS
    usdc = usdc
    weth = weth
    dai = dai
    Assets <- MCAssets
    PoolIds = {1, 2, 3}
    MaxHops = 3
    BeamWidth = 3
    SnapshotsToSearch <- MCSnapshots
    StartLists <- MCStartLists
    MaxProfitable = 2
    Unpriced = 0
    Profits = {1}
    Rois = {0, 1}
    Batches = {}
INVARIANTS FindsOnlyTrails FindsEveryTrail RankedBest FirstOfEquals ServesNoTradeTwice
