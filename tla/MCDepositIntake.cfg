CONSTANTS
    home = home
    sapphire = sapphire
    r1 = r1
    r2 = r2
    x1 = x1
    x2 = x2
    x3 = x3
    Chain = {home, sapphire}
    Sapphire = sapphire
    MaxDrifts = 2
    Drifting = {home}
    Home = home
    Request = {r1, r2}
    Transfers = 4
    Amount <- MCAmount
    Registered = {1, 2, 3, 4}
    MinDeposit = 1
    MaxBlock = 3
    Finality = 1
    Lookback = 3
    Chunk = 2
    MaxPending = 2
    MaxClassified = 2
    Tx = {x1, x2, x3}
    TxOf <- MCTxOf
    Succeeded = {x1, x2}
    MaxSweepSteps = 2
SPECIFICATION Spec
SYMMETRY Symmetry
INVARIANTS GateClosed ScanComplete WindowCovered DiscoveredVerifies LockHandedOn
CHECK_DEADLOCK FALSE
