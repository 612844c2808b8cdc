\* Four signers, two needed; a second valid share reaches the cap of the weight.
SPECIFICATION Spec
CONSTANTS
    Parties = {1, 2, 3, 4}
    T = 2
    PreShares = {d1}
    NoPreShare = NoPreShare
    NilShare = NilShare
    NilSignature = NilSignature
    W0 = 10
    WMax = 15
    DeltaPos = 10
    GammaNum = 8
    GammaDen = 10
INVARIANTS
    WeightsReflectStanding
PROPERTIES
    ImplementsCoordinator
    DecayOnlyAtTheEnd
    NobodyPassedOver
