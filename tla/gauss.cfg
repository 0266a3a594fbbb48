SPECIFICATION Spec
CONSTANTS
    Field <- Residues
    Zero = 0
    One = 1
    Plus <- PlusMod
    Mult <- MultMod
    Neg <- NegMod
    Inv <- InvMod
    Undefined = Undefined
    Dim = 3
    Inputs <- LargeInputs
INVARIANTS
    TypeOK
    PartialFactors
    SolutionSolves
    InverseInverts
    ThrowsIffSingular
    DeterminantCorrect
CHECK_DEADLOCK FALSE
