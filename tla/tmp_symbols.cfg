SPECIFICATION Spec
CONSTANTS
    Sym = {s1, s2, s3}
    MaxDepth = 2
    MaxCache = 2
    MaxHeld = 1
SYMMETRY Symmetry
CONSTRAINT CacheBound
CHECK_DEADLOCK FALSE
INVARIANTS
    TypeOK
    FrameSymbolsDistinct
    ArgumentUntouched
    BackReplacementTerminates
    CachedValuesClosed
    NoTemporaryEscapes
    BackReplacementRestores
    CounterCountsLiving
PROPERTY ImplementsFreshScopes
