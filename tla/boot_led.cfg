\* Times in units of 256 ns: 20 ms and 2^32 ns.  Two failures, so that a board
\* stops, restarts and stops again; one press while it runs.  A board that
\* stopped before the button worked stays so.
CONSTANTS
    Gamma <- MCGamma
    Period = 78125
    Word = 16777216
    Posted <- MCPosted
    MaxFailures = 2
    MaxPresses = 1
SPECIFICATION FairSpec
CHECK_DEADLOCK FALSE
INVARIANTS ServerHasHandlers GreenMeansActive LedShowsRecentCalls BootInv
PROPERTY RecoversByReset
