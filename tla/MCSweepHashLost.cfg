\* A failure and no crash: a mined sweep whose hash was saved is never credited.
SPECIFICATION FairSpec
CONSTANTS
    d1 = d1
    d2 = d2
    a1 = a1
    a2 = a2
    t1 = t1
    t2 = t2
    Deposit = {d1}
    Address = {a1}
    AddressOf <- SingleDeposit
    AmountOf <- EqualAmounts
    IsNative = TRUE
    Task = {t1}
    Recovery = Recovery
    Nobody = Nobody
    MaxFailures = 1
    MaxCrashes = 0
PROPERTIES MinedSweepIsCredited
