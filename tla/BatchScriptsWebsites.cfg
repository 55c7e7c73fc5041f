\* One run of fix_wrapped_websites that nobody disturbs.
CONSTANTS
    N = 3
    Runs = {r1}
    Orders <- MCWebsites
    Start <- MCStart
    BatchSize = 2
    MaxLaunches = 1
    MaxWrites = 0

SPECIFICATION Spec

INVARIANT
    EveryWebsiteUnwrapped

\* There is one run, and no write.
CHECK_DEADLOCK FALSE
