\* Every statement checked against every statement.
SPECIFICATION Spec
CHECK_DEADLOCK FALSE
CONSTANTS
    Q = 5
    P = 11
    Gen = 4
    IDs = {1, 2}
    Contexts = {0, 1}
    Privates = {1, 3}
    Randoms = {1, 2, 3, 4}
    sha512Sum <- MCSha512
    None = None
INVARIANTS
    ProofBindsStatement
