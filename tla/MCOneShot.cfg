\* One run in which any feed may hang at any time.
SPECIFICATION FairSpec
CHECK_DEADLOCK FALSE
CONSTANTS
    eth = eth
    bsc = bsc
    arb = arb
    weth = weth
    bscEth = bscEth
    arbEth = arbEth
    Configured = {eth, bsc, arb}
    Built = {eth, bsc}
    StartAssets <- MCStartAssets
    WarmDeadline = 1
    Assets <- MCAssets
    Symbols = {"ETHUSDT"}
    Covers <- MCCovers
    CoinOf <- MCCoinOf
    MaxStaleness = 2
    RecvTimeout = 1
    ReconnectMax = 1
    FirstBackoff = 1
    Interval = 1
    Levels = {1}
    Faults = {"hang"}
PROPERTIES WarmScansAreSized OneShotEnds
