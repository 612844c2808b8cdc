\* Two honest parties, reliable channels that reorder, no timeout.
SPECIFICATION FairSpec
CHECK_DEADLOCK FALSE
CONSTANTS
    Parties = {p1, p2}
    Faulty = {}
    Equivocal = FALSE
    Envs <- MCReordering
    Waiters = {}
    MaxDup = 0
    Nobody = Nobody
PROPERTIES
    EveryoneSigns
