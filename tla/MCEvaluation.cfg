\* One evaluation, with up to two price writes between its price reads, and the
\* plan of what it reports.
SPECIFICATION ExecSpec
CHECK_DEADLOCK FALSE
CONSTANTS
    usdc = usdc
    weth = weth
    odd = odd
    Assets <- MCAssets
    Decimals <- MCDecimals
    MaxDecimals = 1
    InputUsd = 10
    PriceLevels = {0, 1, 3, 20}
    MaxSum = 4000
    BasisPoints = 10
    U32Max = 2000
    Hops <- MCHops
    Paths <- MCPaths
    MaxWrites = 2
    Routers = {"v2", "aero"}
    Slippage = 1000
INVARIANTS SizedToBudget CrossProfitFromSeenPrices UndisturbedIsAtomic CyclesPanicOnDustOnly PlanIsFunded PlanKeepsPromise
