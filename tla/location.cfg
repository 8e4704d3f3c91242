\* Two chains of fetches, two tokens each; three attempts, one more than two broken by a break.
CONSTANTS
    c1 = c1
    c2 = c2
    Chains <- MCChains
    Answers = {"fix", "garbage"}
    Json = {"fix"}
    MaxAttempts = 3
    MaxSubmits = 2
    MaxBreaks = 1
SPECIFICATION FairSpec
CHECK_DEADLOCK FALSE
INVARIANTS OneMissAtMost LocationInv
PROPERTIES SpareAttemptsAreKept FetchSucceeds
