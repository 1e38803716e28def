\* Every start with one or two chains, and every pool table of a chain.
SPECIFICATION Spec
CHECK_DEADLOCK FALSE
CONSTANTS
    ChainNames = {"", "ethereum", "base", "degen"}
    TokenNames = {"", "0x0", "0xa", "0xA", "0xb", "0xc", "usdc"}
    AddressSpace = 4
    AddressOf <- MCAddressOf
    Lower <- MCLower
    Hash <- MCHash
    Fnv <- MCFnv
    SymbolNames = {"ETHUSDT", "ethusdt"}
    Upper <- MCUpper
    Variants = {1}
    Terms = {1}
    FactoryPools <- MCFactoryPools
    SettingsToTry <- MCSettings
INVARIANTS StartTypeOK FailsOnlyOnIds EntriesStandAlone CoinOrderIsFree OneWorkerPerServedChain OneFeedPerSymbol PublishedIsKnown KeysSurvive
