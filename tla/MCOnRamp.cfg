CONSTANTS
    u1 = u1
    u2 = u2
    k1 = k1
    k2 = k2
    r1 = r1
    r2 = r2
    MoonPay = MoonPay
    Transak = Transak
    User = {u1, u2}
    a1 = a1
    a2 = a2
    Asset = {a1, a2}
    NoAsset = NoAsset
    Key = {k1, k2}
    Request = {r1, r2}
    IntentTtl = 0
    AttestationTtl = 1
    MaxNonces = 1
    PageLimit = 1
    MaxPages = 2
    MaxNames = 1
    MaxTime = 1
    MaxIntents = 2
    MaxOrders = 2
    MaxAttestations = 2
    MaxRestarts = 1
SYMMETRY Symmetry
CONSTRAINT Apart
SPECIFICATION Spec
INVARIANTS AttestedOnce RowsOwned PurchaseFound
