\* Four signers, two honest, two needed; one delivery may happen twice.
SPECIFICATION FairSpec
CONSTANTS
    Parties = {h1, h2, b1, b2}
    Honest = {h1, h2}
    T = 2
    MaxNonce = 5
    PreShares = {1, 2, 3, 4, 5}
    AdvPreShares = {1}
    MaxDup = 1
    NoPreShare = NoPreShare
    NilShare = NilShare
    NilSignature = NilSignature
INVARIANTS
    HonestNeverBanned
    NonceSpentOnce
    CommitmentUsedOnce
PROPERTIES
    Robust
