\* Two claims of a deposit, two failures: a SWEPT record is replaced and its deposit never credited.
SPECIFICATION FairSpec
CONSTANTS
    d1 = d1
    d2 = d2
    a1 = a1
    a2 = a2
    t1 = t1
    t2 = t2
    Deposit = {d1}
    Address = {a1}
    AddressOf <- SingleDeposit
    AmountOf <- EqualAmounts
    IsNative = TRUE
    Task = {t1, t2}
    Recovery = Recovery
    Nobody = Nobody
    MaxFailures = 2
    MaxCrashes = 0
PROPERTIES SweptIsCredited
