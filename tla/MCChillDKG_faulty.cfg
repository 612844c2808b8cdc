\* A faulty participant; a coordinator that may show everybody something else;
\* crashes and recovery.
SPECIFICATION Spec
CHECK_DEADLOCK FALSE
CONSTANTS
    Q = 5
    P = 11
    Gen = 4
    N = 3
    HostSeckeys <- MCHostSeckeys
    HostLists <- MCHostLists
    Thresholds = {2, 3}
    Honest = {0, 1}
    Coordinators = {TRUE, FALSE}
    Randoms = {1}
    FaultyRandoms = {2}
    Faults <- MCFaults
    Degrees = {1, 2}
    MaxForged = 2
    Crashes = TRUE
    taggedHashScalar <- MCHash
    None = None
INVARIANTS
    DKGTypeOK
    DKGBlameSound
    Agreement
    Recoverable
    UsableKey
