\* Two withdrawals of two chains, one of which has seen two nonces the contract never
\* issued; a gas price change, a failure and a restart.
SPECIFICATION FairSpec
CONSTANTS
    c1 = c1
    c2 = c2
    Chain = {c1, c2}
    Spent <- SecondSpent
    CatchUpInterval = 2
    MaxWithdrawals = 2
    MaxGasPrice = 2
    MaxFailures = 1
    MaxCrashes = 1
INVARIANTS PaidOnce NoneLeftBehind
PROPERTIES EveryWithdrawalLands
