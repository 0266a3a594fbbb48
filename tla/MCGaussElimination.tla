-------------------------- MODULE MCGaussElimination --------------------------
EXTENDS GaussElimination

\* The integers modulo three.
Modulus       == 3
Residues      == 0 .. Modulus - 1
PlusMod(u, v) == (u + v) % Modulus
MultMod(u, v) == (u * v) % Modulus
NegMod(u)     == (Modulus - u) % Modulus
InvMod(u)     == CHOOSE w \in Residues : (u * w) % Modulus = 1

Rows == [Index -> Field]

\* Matrices of three rows and columns, with two last rows to choose from.  Nothing,
\* the row and column in the middle, or everything is skipped.
LastRows == {[i \in Index |-> i % 3], [i \in Index |-> i \div 3]}

LargeInputs ==
    [A : {[i \in Index |-> IF i = 1 THEN u ELSE IF i = Dim THEN w ELSE v] :
            u \in Rows, v \in {vec \in Rows : vec[1] < 2}, w \in LastRows},
     b : {[i \in Index |-> i % Modulus]},
     skip : {{}, {2}}]
      \cup [A : [Index -> {[i \in Index |-> 1]}], b : {[i \in Index |-> 1]}, skip : {Index}]

=============================================================================
