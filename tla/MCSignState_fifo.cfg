\* Three honest parties, ordered and reliable channels, no timeout.
SPECIFICATION FairSpec
CHECK_DEADLOCK FALSE
CONSTANTS
    Parties = {p1, p2, p3}
    Faulty = {}
    Equivocal = FALSE
    Envs <- MCFifo
    Waiters = {}
    MaxDup = 0
    Nobody = Nobody
PROPERTIES
    EveryoneSigns
