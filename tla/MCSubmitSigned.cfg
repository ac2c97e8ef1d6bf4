\* Two consecutive messages, three requests, a lost answer, a full disk and a restart.
SPECIFICATION FairSpec
CONSTANTS
    m1 = m1
    m2 = m2
    Message = {m1, m2}
    NonceOf <- Consecutive
    Caller = {r1, r2, r3}
    NoMessage = NoMessage
    MaxFailures = 2
    MaxRestarts = 1
CHECK_DEADLOCK FALSE
INVARIANTS TypeOK
PROPERTIES OnceSpec RefusalIsFinal NoWriteAfterSuccess SuccessIsRecorded
