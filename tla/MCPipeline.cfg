\* The sync and the scan task of one chain, interleaved freely: a sync that may
\* stop for ever, a scan task that may panic, and time for what is served to go
\* stale.
SPECIFICATION FairPipeSpec
CONSTANTS
    eth = eth
    p1 = p1
    p2 = p2
    Chains = {eth}
    Pools = {p1, p2}
    NumExchanges = 2
    MaxStaleness = 0
    Listing <- MCListing
    Supported <- MCSupported
    Paths <- MCOnePath
    Executable <- MCOnePath
    Overflowing <- MCOnePath
    MaxLag = 0
    MaxBlock = 2
    MaxFork = 0
    MaxClock = 2
INVARIANTS PipeTypeOK ServedFromOneBlock ServedFresh ServedBehindStore
PROPERTIES ImplementsBoard StaleIsCleared ServedMovesForward
