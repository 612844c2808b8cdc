\* Seven signers, three needed, and every admissible number of silent ones.
\* The program ends, so the run may stop.
SPECIFICATION DSpec
CHECK_DEADLOCK FALSE
CONSTANTS
    Parties = {1, 2, 3, 4, 5, 6, 7}
    T = 3
    PreShares = {1, 2, 3, 4, 5, 6, 7, 8}
    NoPreShare = NoPreShare
    NilShare = NilShare
    NilSignature = NilSignature
INVARIANT
    TwoRounds
PROPERTY
    Succeeds
