\* As location.
CONSTANTS
    c1 = c1
    c2 = c2
    Chains <- MCChains
    Answers = {"fix", "garbage"}
    Json = {"fix"}
    MaxAttempts = 3
    MaxSubmits = 2
    MaxBreaks = 1
SPECIFICATION Spec
CHECK_DEADLOCK FALSE
INVARIANT KnownLocationIsSent
