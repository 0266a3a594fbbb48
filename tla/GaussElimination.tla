--------------------------- MODULE GaussElimination ---------------------------
(***************************************************************************)
(* Linear systems: solve(), determinant() and invert(), which copy the     *)
(* rows and columns that are not in the skip field, eliminate with partial *)
(* pivoting and write back what has been computed.                         *)
(***************************************************************************)
EXTENDS LinearAlgebra, FiniteSetsExt, Sequences

CONSTANTS
    Dim,        \* rows and columns of the caller's matrix
    Inputs      \* matrix, right hand side and skip field of the call

Index == 1 .. Dim

ASSUME InputsAssumption ==
    /\ Dim \in Nat
    /\ Inputs \subseteq [A : [Index -> [Index -> Field]], b : [Index -> Field], skip : SUBSET Index]

VARIABLES
    call,       \* function and pivot strategy
    A, b, skip, \* the arguments
    x,          \* the vector for the solution, or the inverse for invert()
    coeff,      \* SquareMatrixAdaptor with the coefficients, later L and U
    rhs,        \* VectorAdaptor with the right hand side
    solution,   \* VectorAdaptor with the solution of the reduced system
    column,     \* invert(): the column of the inverse
    inverse,    \* invert(): the columns so far
    j,          \* the column of the elimination, or the row of the substitution
    rowSwaps,
    det,        \* what determinant() returns
    pc

vars == <<call, A, b, skip, x, coeff, rhs, solution, column, inverse, j, rowSwaps, det, pc>>
args == <<call, A, b, skip>>

Call == [function : {"solve", "determinant", "invert"}, algo : {"Gauss", "GaussLCPivot"}]

\* toStdVec: the rows and columns the skip field leaves.
KeptUpTo(skipped) ==
    LET kept[i \in 0 .. Dim] ==
          IF i = 0 THEN <<>> ELSE IF i \in skipped THEN kept[i - 1] ELSE Append(kept[i - 1], i)
    IN  kept
Kept       == KeptUpTo(skip)[Dim]
dim        == Len(Kept)
Row        == 1 .. dim
ReducedA   == [r \in Row |-> [c \in Row |-> A[Kept[r]][Kept[c]]]]
ReducedRhs ==
    CASE call.function = "solve"       -> [r \in Row |-> b[Kept[r]]]
      [] call.function = "invert"      -> [r \in Row |-> IF r = column THEN One ELSE Zero]
      [] call.function = "determinant" -> [r \in Row |-> Zero]  \* none

Zeros == [r \in Row |-> Zero]

Init ==
    /\ call \in Call
    /\ \E in \in Inputs : A = in.A /\ b = in.b /\ skip = in.skip
    /\ x = IF call.function = "invert" THEN A ELSE [i \in Index |-> One]
    /\ column = 1
    /\ coeff = ReducedA
    /\ rhs = ReducedRhs
    /\ solution = Zeros
    /\ inverse = [r \in Row |-> Zeros]
    /\ j = 1
    /\ rowSwaps = 0
    /\ det = Undefined
    /\ pc = IF dim = 0 /\ call.function = "invert" THEN "returned" ELSE "pivot"

-----------------------------------------------------------------------------
(* eliminateGauss. *)

NonZeroPivots == {i \in j .. dim : coeff[i][j] # Zero}

\* firstNonZeroPivot throws; leastComplexityPivot returns the diagonal if there is
\* no other.  Which of the non-zero entries is the simplest depends on what they are.
Pivots ==
    IF call.algo = "Gauss" THEN {i \in NonZeroPivots : \A k \in NonZeroPivots : i <= k}
    ELSE IF NonZeroPivots = {} THEN {j}
    ELSE NonZeroPivots

\* FAULT: the right hand side isn't swapped along.
ChoosePivotNoRhs ==
    /\ pc = "pivot"
    /\ j < dim
    /\ \E i \in Pivots :
         /\ rowSwaps' = IF i # j THEN rowSwaps + 1 ELSE rowSwaps
         /\ coeff' = Swapped(coeff, j, i)
    /\ pc' = "eliminate"
    /\ UNCHANGED <<args, x, rhs, solution, column, inverse, j, det>>

ChoosePivot ==
    /\ pc = "pivot"
    /\ j < dim
    /\ \E i \in Pivots :
         /\ rowSwaps' = IF i # j THEN rowSwaps + 1 ELSE rowSwaps
         /\ coeff' = Swapped(coeff, j, i)
         /\ rhs' = IF call.function = "determinant" THEN rhs ELSE Swapped(rhs, j, i)
    /\ pc' = "eliminate"
    /\ UNCHANGED <<args, x, solution, column, inverse, j, det>>

ThrowNoPivot ==
    /\ pc = "pivot"
    /\ j < dim
    /\ Pivots = {}
    /\ pc' = "thrown"
    /\ UNCHANGED <<args, x, coeff, rhs, solution, column, inverse, j, rowSwaps, det>>

\* FAULT: the column left of the diagonal is not overwritten by the factors.
EliminateColumnToZero ==
    LET factor == [i \in Row |-> Over(coeff[i][j], coeff[j][j])]
    IN  /\ pc = "eliminate"
        /\ coeff' = [i \in Row |-> [k \in Row |->
                       IF i <= j \/ k < j THEN coeff[i][k]
                       ELSE IF k = j THEN Zero
                       ELSE Minus(coeff[i][k], Times(factor[i], coeff[j][k]))]]
        /\ j' = j + 1
        /\ pc' = "pivot"
        /\ UNCHANGED <<args, x, rhs, solution, column, inverse, rowSwaps, det>>

EliminateColumn ==
    LET factor == [i \in Row |-> Over(coeff[i][j], coeff[j][j])]
    IN  /\ pc = "eliminate"
        /\ coeff' = [i \in Row |-> [k \in Row |->
                       IF i <= j \/ k < j THEN coeff[i][k]
                       ELSE IF k = j THEN factor[i]
                       ELSE Minus(coeff[i][k], Times(factor[i], coeff[j][k]))]]
        /\ j' = j + 1
        /\ pc' = "pivot"
        /\ UNCHANGED <<args, x, rhs, solution, column, inverse, rowSwaps, det>>

-----------------------------------------------------------------------------
(* computeSolution. *)

ComputeSolution ==
    /\ pc = "pivot"
    /\ j >= dim
    /\ call.function # "determinant"
    /\ solution' = Zeros
    /\ j' = 1
    /\ pc' = "forward"
    /\ UNCHANGED <<args, x, coeff, rhs, column, inverse, rowSwaps, det>>

ForwardSubstitution ==
    /\ pc = "forward"
    /\ j <= dim
    /\ rhs' = [rhs EXCEPT ![j] =
         Minus(rhs[j], SumOf([k \in Row |-> IF k < j THEN Times(coeff[j][k], rhs[k]) ELSE Zero], dim))]
    /\ j' = j + 1
    /\ UNCHANGED <<args, x, coeff, solution, column, inverse, rowSwaps, det, pc>>

StartBackSubstitution ==
    /\ pc = "forward"
    /\ j > dim
    /\ j' = dim
    /\ pc' = "substitute"
    /\ UNCHANGED <<args, x, coeff, rhs, solution, column, inverse, rowSwaps, det>>

\* FAULT: a zero on the diagonal goes unnoticed.
BackSubstitutionUnchecked ==
    /\ pc = "substitute"
    /\ j > 0
    /\ solution' = [solution EXCEPT ![j] =
         Over(Minus(rhs[j], SumOf([k \in Row |-> IF k > j THEN Times(coeff[j][k], solution[k])
                                           ELSE Zero], dim)),
              coeff[j][j])]
    /\ j' = j - 1
    /\ UNCHANGED <<args, x, coeff, rhs, column, inverse, rowSwaps, det, pc>>

BackSubstitution ==
    /\ pc = "substitute"
    /\ j > 0
    /\ coeff[j][j] # Zero
    /\ solution' = [solution EXCEPT ![j] =
         Over(Minus(rhs[j], SumOf([k \in Row |-> IF k > j THEN Times(coeff[j][k], solution[k])
                                           ELSE Zero], dim)),
              coeff[j][j])]
    /\ j' = j - 1
    /\ UNCHANGED <<args, x, coeff, rhs, column, inverse, rowSwaps, det, pc>>

ThrowSingular ==
    /\ pc = "substitute"
    /\ j > 0
    /\ coeff[j][j] = Zero
    /\ pc' = "thrown"
    /\ UNCHANGED <<args, x, coeff, rhs, solution, column, inverse, j, rowSwaps, det>>

-----------------------------------------------------------------------------
(* What becomes of it. *)

\* The position of an index of the caller among those that are kept.
Position(i) == CHOOSE r \in Row : Kept[r] = i

\* FAULT: the vector of the reduced system is handed over as it is.
ReturnSolutionReduced ==
    /\ pc = "substitute"
    /\ j = 0
    /\ call.function = "solve"
    /\ x' = solution
    /\ pc' = "returned"
    /\ UNCHANGED <<args, coeff, rhs, solution, column, inverse, j, rowSwaps, det>>

\* fromStdVec: elements that are skipped keep their value.
ReturnSolution ==
    /\ pc = "substitute"
    /\ j = 0
    /\ call.function = "solve"
    /\ x' = [i \in Index |-> IF i \in skip THEN x[i] ELSE solution[Position(i)]]
    /\ pc' = "returned"
    /\ UNCHANGED <<args, coeff, rhs, solution, column, inverse, j, rowSwaps, det>>

\* FAULT: the number of row swaps is ignored.
ReturnDeterminantUnsigned ==
    /\ pc = "pivot"
    /\ j >= dim
    /\ call.function = "determinant"
    /\ det' = ProductOf(One, [i \in Row |-> coeff[i][i]], dim)
    /\ pc' = "returned"
    /\ UNCHANGED <<args, x, coeff, rhs, solution, column, inverse, j, rowSwaps>>

\* detFromPlu.
ReturnDeterminant ==
    /\ pc = "pivot"
    /\ j >= dim
    /\ call.function = "determinant"
    /\ det' = ProductOf(IF rowSwaps % 2 = 0 THEN One ELSE Neg(One), [i \in Row |-> coeff[i][i]], dim)
    /\ pc' = "returned"
    /\ UNCHANGED <<args, x, coeff, rhs, solution, column, inverse, j, rowSwaps>>

\* FAULT: the factors of the previous column are taken for coefficients.
NextColumnReusingFactors ==
    /\ pc = "substitute"
    /\ j = 0
    /\ call.function = "invert"
    /\ column < dim
    /\ inverse' = [r \in Row |-> [inverse[r] EXCEPT ![column] = solution[r]]]
    /\ column' = column + 1
    /\ rhs' = [r \in Row |-> IF r = column' THEN One ELSE Zero]
    /\ solution' = Zeros
    /\ j' = 1
    /\ rowSwaps' = 0
    /\ pc' = "pivot"
    /\ UNCHANGED <<args, x, det, coeff>>

\* invert() starts over with the original coefficients for every column.
NextColumn ==
    /\ pc = "substitute"
    /\ j = 0
    /\ call.function = "invert"
    /\ column < dim
    /\ inverse' = [r \in Row |-> [inverse[r] EXCEPT ![column] = solution[r]]]
    /\ column' = column + 1
    /\ coeff' = ReducedA
    /\ rhs' = [r \in Row |-> IF r = column' THEN One ELSE Zero]
    /\ solution' = Zeros
    /\ j' = 1
    /\ rowSwaps' = 0
    /\ pc' = "pivot"
    /\ UNCHANGED <<args, x, det>>

ReturnInverse ==
    /\ pc = "substitute"
    /\ j = 0
    /\ call.function = "invert"
    /\ column = dim
    /\ inverse' = [r \in Row |-> [inverse[r] EXCEPT ![column] = solution[r]]]
    /\ x' = [i \in Index |-> [k \in Index |->
               IF i \in skip \/ k \in skip THEN x[i][k]
               ELSE inverse'[Position(i)][Position(k)]]]
    /\ pc' = "returned"
    /\ UNCHANGED <<args, coeff, rhs, solution, column, j, rowSwaps, det>>

Next ==
    \/ ChoosePivot
    \/ ThrowNoPivot
    \/ EliminateColumn
    \/ ComputeSolution
    \/ ForwardSubstitution
    \/ StartBackSubstitution
    \/ BackSubstitution
    \/ ThrowSingular
    \/ ReturnSolution
    \/ ReturnDeterminant
    \/ NextColumn
    \/ ReturnInverse

Spec == Init /\ [][Next]_vars

-----------------------------------------------------------------------------
(* Properties. *)

TypeOK ==
    /\ call \in Call
    /\ IF call.function = "invert" THEN x \in [Index -> [Index -> Entry]] ELSE x \in [Index -> Entry]
    /\ coeff \in [Row -> [Row -> Entry]]
    /\ rhs \in [Row -> Entry]
    /\ solution \in [Row -> Entry]
    /\ inverse \in [Row -> [Row -> Entry]]
    /\ column \in 1 .. dim + 1 /\ j \in 0 .. dim + 1 /\ rowSwaps \in Nat
    /\ det \in Entry
    /\ pc \in {"pivot", "eliminate", "forward", "substitute", "returned", "thrown"}

Singular == IsSingular(ReducedA, dim)

Determinant == DeterminantOf(ReducedA, dim)

\* While the elimination proceeds and has found its pivots, the matrix holds L and U
\* of the columns finished so far, for the rows and the right hand side in an order
\* that has the parity rowSwaps counts: P A = L U.
PartialFactors ==
    (pc \in {"pivot", "eliminate"} /\ NoZeroPivot(coeff, j)) =>
        \E f \in Orders(dim) :
            /\ IsOdd(f, dim) = (rowSwaps % 2 = 1)
            /\ \A r \in Row : rhs[r] = ReducedRhs[f[r]]
            /\ Factored(ReducedA, f, coeff, j, dim)

\* What solve() returns solves the equations that are not skipped, and leaves the
\* skipped unknowns alone.
SolutionSolves ==
    (pc = "returned" /\ call.function = "solve") =>
        /\ \A r \in Index \ skip :
             SumOf([c \in Index |-> IF c \in skip THEN Zero ELSE Times(A[r][c], x[c])], Dim) = b[r]
        /\ \A i \in skip : x[i] = One

\* What invert() returns is the inverse of the part that is not skipped.
InverseInverts ==
    (pc = "returned" /\ call.function = "invert") =>
        /\ \A r, c \in Index \ skip :
             SumOf([k \in Index |-> IF k \in skip THEN Zero ELSE Times(A[r][k], x[k][c])], Dim)
               = IF r = c THEN One ELSE Zero
        /\ \A r, c \in Index : {r, c} \cap skip # {} => x[r][c] = A[r][c]

\* solve() and invert() throw for singular matrices and for no others, although
\* leastComplexityPivot lets a column without pivot pass and the check at the end
\* meets Undefined entries, which are different from zero.
ThrowsIffSingular ==
    call.function # "determinant" =>
        /\ pc = "thrown" => Singular
        /\ pc = "returned" => ~Singular

\* The determinant of a regular matrix is returned and right: pivots and parity of the
\* swaps.  For a singular matrix this says what determinant() really does, against
\* README.md:183-184 (see AllThrowIfSingular): it throws only if firstNonZeroPivot
\* finds no pivot, and returns zero or even Undefined otherwise.
DeterminantCorrect ==
    call.function = "determinant" =>
        /\ pc = "returned" => (det = Determinant \/ (Singular /\ det = Undefined))
        /\ pc = "thrown" => Singular

-----------------------------------------------------------------------------
(* A statement of the repository that the code does not satisfy. *)

\* README.md:183-184, "When the given coefficient matrix is singular, all functions will
\* throw": none of them returns.
AllThrowIfSingular == pc = "returned" => ~Singular

=============================================================================
