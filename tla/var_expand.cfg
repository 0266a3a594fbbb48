\* Violated: products of three sums.
SPECIFICATION Spec
CONSTANTS
    Registers = {1, 2}
    MaxCalls = 2
    MaxForms = 5
    MaxPrimeResolution = 1000
    NormalForm <- NormalFormOf
    Programs <- ConjugatePrograms
PROPERTIES ExpandKeepsValue
\* The program ends after MaxCalls calls.
CHECK_DEADLOCK FALSE
