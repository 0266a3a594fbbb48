\* Two factors of each polynomial: common factors may be squares.
SPECIFICATION Spec
CONSTANTS
    MaxPrimeResolution = 1000
    NormalForm <- NormalFormOf
    Factors <- TheFactors
    Divisors <- TheDivisors
    MaxFactors <- UpToTwoEach
    PseudoVariable <- a
PROPERTIES DivisionCorrect ExactDivision GcdCorrect PseudoDivisionCorrect
\* The caller makes one call.
CHECK_DEADLOCK FALSE
