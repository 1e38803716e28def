\* Safety of one chain with two exchanges, a lagging RPC node and reorgs.
SPECIFICATION Spec
CONSTANTS
    eth = eth
    bsc = bsc
    p1 = p1
    p2 = p2
    p3 = p3
    Chains = {eth}
    Pools = {p1, p2, p3}
    NumExchanges = 2
    MaxStaleness = 1
    Listing <- MCListing
    Supported <- MCSupported
    MaxLag = 1
    MaxBlock = 3
    MaxFork = 1
    MaxClock = 3
INVARIANTS TypeOK BlockConsistent
PROPERTIES ImplementsRegister
