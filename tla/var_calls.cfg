\* Two calls with two variables, or with one that is a fraction of sums and roots.
SPECIFICATION Spec
CONSTANTS
    Registers = {1, 2}
    MaxCalls = 2
    MaxForms = 5
    MaxPrimeResolution = 1000
    NormalForm <- NormalFormOf
    Programs <- ThePrograms
PROPERTIES 
    ArithmeticCorrect Commutative Canonical SignsCorrect
     SameValue SubstitutionCorrect DerivativeCorrect
\* The program ends after MaxCalls calls.
CHECK_DEADLOCK FALSE
