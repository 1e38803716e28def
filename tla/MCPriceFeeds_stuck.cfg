\* An open connection is lost, and the reconnect hangs.
SPECIFICATION FairFeedSpec
CONSTANTS
    weth = weth
    bweth = bweth
    Assets <- MCAssets
    Symbols = {"ETHUSDT"}
    Covers <- MCCovers
    CoinOf <- MCCoinOf
    MaxStaleness = 4
    RecvTimeout = 1
    ReconnectMax = 2
    FirstBackoff = 1
    Interval = 1
    Levels = {1}
    Faults = {"drop", "hang"}
PROPERTIES SelfHeals
