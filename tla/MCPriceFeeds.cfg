\* The feeds and the store, under every fault.
SPECIFICATION FairFeedSpec
CONSTANTS
    weth = weth
    bweth = bweth
    Assets <- MCAssets
    Symbols = {"ETHUSDT"}
    Covers <- MCCovers
    CoinOf <- MCCoinOf
    MaxStaleness = 4
    RecvTimeout = 1
    ReconnectMax = 2
    FirstBackoff = 1
    Interval = 1
    Levels = {1, 2}
    Faults = {"drop", "vanish", "refuse", "noise", "hang"}
INVARIANTS FeedTypeOK SameTokenSamePrice TriesBeforeLapse
PROPERTIES HealsUnlessHung DeadFeedYields PollerKeepsPricing
