\* One step: a test case.
SPECIFICATION Spec
CONSTANTS
    MaxPrimeResolution = 1000
    NormalForm <- NormalFormOf
PROPERTY UnitTestsPass
\* A test case is the last step.
CHECK_DEADLOCK FALSE
