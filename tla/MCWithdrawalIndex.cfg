\* Two concurrent calls, three withdrawals read in batches of two.
SPECIFICATION FairSpec
CONSTANTS
    alice = alice
    bob = bob
    processor = processor
    request = request
    User = {alice, bob}
    Caller = {processor, request}
    Asks <- TwoCallers
    BatchSize = 2
    MaxWithdrawals = 3
INVARIANTS IndexComplete
PROPERTIES ViewSpec CallsEnd
