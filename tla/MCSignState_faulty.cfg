\* Three parties, one of them faulty, which may tell the others different things;
\* timeouts and one repeated message.
SPECIFICATION Spec
CHECK_DEADLOCK FALSE
CONSTANTS
    Parties = {p1, p2, p3}
    Faulty = {p3}
    Equivocal = TRUE
    Envs <- MCTimeout
    Waiters = {}
    MaxDup = 1
    Nobody = Nobody
SYMMETRY Symmetry
INVARIANTS
    TypeOK
    BlameSound
    SignatureBacked
    OutputOrError
PROPERTIES
    ResultIsFinal
    ImplementsSigning
