\* Texts of up to six tokens.
SPECIFICATION Spec
CONSTANTS
    MaxPrimeResolution = 1000
    NormalForm <- NormalFormOf
    Tokens <- TheTokens
    MaxLength = 6
PROPERTIES MatchesLongestExpression ParseReturnsReading
\* The texts end with MaxLength.
CHECK_DEADLOCK FALSE
