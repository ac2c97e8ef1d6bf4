CONSTANTS
    r1 = r1
    r2 = r2
    Caller = {r1, r2}
    MaxLife = 2
    Overlap = 2
    MaxTokens = 3
    MaxClock = 5
    MaxRefusals = 2
SPECIFICATION AccessSpec
INVARIANTS OneRefresh WebhookOverlap
PROPERTIES RequestsEnd
