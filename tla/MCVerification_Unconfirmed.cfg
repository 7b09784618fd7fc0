CONSTANTS
    DEFAULT_TOKEN = "ETH"
    NativeDecimals = 3
    Erc20Decimals = 1
    Tolerance <- MCTolerance
    Chain <- MCChain
    Addr = {"a"}
    Market <- MCMarket
    Required = 3
    Ttl = 2
    MaxSize = 2
    Budget = 2
    Pages = 2
    PageSize = 1
    PriceLock = 100
    MaxTx = 1
    MaxTrouble = 2
SPECIFICATION Spec
INVARIANT AcceptedConfirmed

