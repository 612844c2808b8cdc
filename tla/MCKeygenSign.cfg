\* Everybody follows the code; valid and invalid parameters, wrong shares.
SPECIFICATION KFairSpec
CHECK_DEADLOCK FALSE
CONSTANTS
    Q = 5
    P = 11
    Gen = 4
    N = 3
    HostSeckeys <- MCHostSeckeys
    HostLists <- MCHostLists
    Thresholds = {0, 1, 2, 3, 4}
    Honest = {0, 1, 2}
    Coordinators = {TRUE}
    Randoms = {1, 2}
    FaultyRandoms = {}
    Faults = {}
    Degrees = {}
    MaxForged = 0
    Crashes = FALSE
    taggedHashScalar <- MCHash
    None = None
    IDs = {1, 2, 3}
    Groups <- MCGroups
    Offsets <- MCOffsets
    Nonces <- MCNonces
    Message = "message"
    sha512Scalar <- MCSha512
    Coefficients = {1, 3}
INVARIANTS
    OnlyTheKeySigns
    StaleShareNamed
    ShareCheckExact
    RoastAgrees
    ExponentAgrees
PROPERTIES
    AllKeyed
    EnoughSign
    ImplementsSigning
