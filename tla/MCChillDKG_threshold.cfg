\* Everybody follows the code; threshold 2 of 3.
SPECIFICATION Spec
CHECK_DEADLOCK FALSE
CONSTANTS
    Q = 5
    P = 11
    Gen = 4
    N = 3
    HostSeckeys <- MCHostSeckeys
    HostLists <- MCHostLists
    Thresholds = {2}
    Honest = {0, 1, 2}
    Coordinators = {TRUE}
    Randoms = {1, 2}
    FaultyRandoms = {}
    Faults <- MCFaults
    Degrees = {}
    MaxForged = 0
    Crashes = FALSE
    taggedHashScalar <- MCHash
    None = None
INVARIANTS
    TSharesHideKey
