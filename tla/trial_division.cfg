SPECIFICATION Spec
CONSTANT Inputs <- SmallNumbers
INVARIANTS
    OnlyPrimesStored
    StoredAscending
    StoresPrimeFactors
PROPERTY Terminates
CHECK_DEADLOCK FALSE
