\* Two native deposits at two addresses share the gas tank; a failure.
SPECIFICATION FairSpec
CONSTANTS
    d1 = d1
    d2 = d2
    a1 = a1
    a2 = a2
    t1 = t1
    t2 = t2
    Deposit = {d1, d2}
    Address = {a1, a2}
    AddressOf <- TwoAddresses
    AmountOf <- EqualAmounts
    IsNative = TRUE
    Task = {t1, t2}
    Recovery = Recovery
    Nobody = Nobody
    MaxFailures = 1
    MaxCrashes = 0
INVARIANTS GasNonceUnique
PROPERTIES TasksEnd
