\* Violated: see AllThrowIfSingular.
SPECIFICATION Spec
CONSTANTS
    Field <- Residues
    Zero = 0
    One = 1
    Plus <- PlusMod
    Mult <- MultMod
    Neg <- NegMod
    Inv <- InvMod
    Undefined = Undefined
    Dim = 3
    Inputs <- LargeInputs
INVARIANT AllThrowIfSingular
CHECK_DEADLOCK FALSE
