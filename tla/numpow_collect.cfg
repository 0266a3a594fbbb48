SPECIFICATION Spec
CONSTANTS
    Powers <- UnevenPowers
    Factors <- SmallFactors
    MaxPrimeLimit = 1000
    MaxRounds = 2
PROPERTY DroppedOnlyIfIdentical
CHECK_DEADLOCK FALSE
