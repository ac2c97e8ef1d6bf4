CONSTANTS
    w1 = w1
    w2 = w2
    alice = alice
    bob = bob
    c1 = c1
    c2 = c2
    v1 = v1
    Worker = {w1, w2}
    Address = {alice, bob}
    Client = {c1, c2}
    Redirects <- MCRedirects
    Verifier = {v1}
    MaxNonces = 2
    MaxCodes = 1
    MaxTokens = 3
SPECIFICATION Spec
SYMMETRY Symmetry
INVARIANTS SignInOnce OneLiveToken RevokedDead
PROPERTIES OnlyOwnerRevokes
