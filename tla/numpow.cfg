SPECIFICATION Spec
CONSTANTS
    Powers <- SmallPowers
    Factors <- SmallFactors
    MaxPrimeLimit = 40
    MaxRounds = 3
INVARIANTS
    TypeOK
    PositiveWhenFactorized
    ValuePreserved
    StableWhenSimplified
    Representation
CHECK_DEADLOCK FALSE
