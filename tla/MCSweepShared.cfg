\* Two deposits at one address, two claims and the recovery worker, a crash and a failure.
SPECIFICATION FairSpec
CONSTANTS
    d1 = d1
    d2 = d2
    a1 = a1
    a2 = a2
    t1 = t1
    t2 = t2
    Deposit = {d1, d2}
    Address = {a1}
    AddressOf <- OneAddress
    AmountOf <- EqualAmounts
    IsNative = FALSE
    Task = {t1, t2}
    Recovery = Recovery
    Nobody = Nobody
    MaxFailures = 1
    MaxCrashes = 1
INVARIANTS SweptRecordMined
PROPERTIES CreditSpec SweptCreditedOrReplaced
