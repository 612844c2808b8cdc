\* Five signers, three needed: up to three sessions are open at once.
SPECIFICATION Spec
CONSTANTS
    Parties = {p1, p2, p3, p4, p5}
    T = 3
    PreShares = {d1}
    NoPreShare = NoPreShare
    NilShare = NilShare
    NilSignature = NilSignature
SYMMETRY Symmetry
INVARIANTS
    TypeOK
    PendingOnce
    Accountable
    SessionBound
    NoSessionWasted
    NoIdleQuorum
PROPERTIES
    OpenedIsAnnounced
    BannedForGood
