\* Three honest parties: reliable, causally ordered channels and no timeout, or
\* channels that lose messages and a timeout.
SPECIFICATION FairSpec
CHECK_DEADLOCK FALSE
CONSTANTS
    Parties = {p1, p2, p3}
    Faulty = {}
    Equivocal = FALSE
    Envs <- MCLive
    Waiters = {p1, p2}
    MaxDup = 0
    Nobody = Nobody
INVARIANTS
    SafeToUse
PROPERTIES
    EveryoneEnds
    EveryoneSigns
