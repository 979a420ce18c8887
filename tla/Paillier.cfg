SPECIFICATION Spec
CONSTANTS
    CipherName = {a, b}
    PrimePairs <- Pairs
    KeyBits = 8
    RefDistance = 1
    Randoms = {2}
    Earlier = {143}
    Plains <- Inputs
    Shifts <- Rotations
    MaxSize = 3
    MaxKeySteps = 3
    MaxSteps = 5
    None = None
SYMMETRY Symmetry
INVARIANTS
    PaillierTypeOK
    PrivateKeySound
    DecryptionsAgree
    ObfuscatorsAreSound
PROPERTY ImplementsVectors
CHECK_DEADLOCK FALSE
