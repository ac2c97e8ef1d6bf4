SPECIFICATION Spec
CONSTANTS
    alice = alice
    bob = bob
    usdc = usdc
    eth = eth
    arb = arb
    d1 = d1
    d2 = d2
    d3 = d3
    chainA = chainA
    chainB = chainB
    ZeroAddress = ZeroAddress
    Addr = {alice, bob}
    Token = {usdc, eth, arb}
    Chain = {chainA, chainB}
    ChainOf <- TwoChainOf
    DepositId = {d1, d2, d3}
    MaxActiveLocks = 2
    MaxAmount = 2
    MaxExpiry = 2
    MaxGasPrice = 1
    MaxBlock = 3
    MaxSigned = 3
SYMMETRY Symmetry
CONSTRAINT Directions
INVARIANTS
    TypeOK
    Conservation
    HistoryExplainsHoldings
    LocksWellFormed
    SignatureUsedOnce
    WithdrawalNonces
PROPERTIES
    SpendNeedsOwnSignature
    LockedFundsProtected
    WithdrawalsFinal
