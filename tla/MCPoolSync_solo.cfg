\* Two chains, of which only eth is answered by its RPC node.
SPECIFICATION SoloSpec
CONSTANTS
    eth = eth
    bsc = bsc
    p1 = p1
    p2 = p2
    p3 = p3
    Chains = {eth, bsc}
    Pools = {p1}
    NumExchanges = 2
    MaxStaleness = 1
    Listing <- MCBareListing
    Supported <- MCSupported
    MaxLag = 1
    MaxBlock = 3
    MaxFork = 0
    MaxClock = 0
PROPERTIES SoloCatchesUp
