------------------------------- MODULE Tensors -------------------------------
(***************************************************************************)
(* Tensors, in row-major order, and how the kernels address them.          *)
(*                                                                         *)
(* Floating-point numbers are the elements of a finite field, so that the  *)
(* laws of arithmetic hold which a rewriting of formulas relies on, and    *)
(* rounding is left out.  A constant is given in millionths; the root of   *)
(* two is an element whose square is two.  Of other functions only what    *)
(* the rewritings use holds: they are odd, or they agree at two.  Integers *)
(* and Booleans are themselves.  Fractions have no useful order, so the    *)
(* limits of clips in the samples are integral.                            *)
(***************************************************************************)
EXTENDS Integers, Sequences, SequencesExt

Prime == 46337      \* its square is below 2^31
Root2 == 6411

Plus(x, y)  == (x + y) % Prime
Minus(x, y) == (x - y) % Prime
Times(x, y) == (x * y) % Prime

(***************************************************************************)
(* The reciprocal is the power Prime - 2, whose binary digits these are.   *)
(***************************************************************************)
Reciprocal(x) ==
    FoldLeft(LAMBDA y, digit : Times(Times(y, y), IF digit = 1 THEN x ELSE 1), 1,
             <<1, 0, 1, 1, 0, 1, 0, 0, 1, 1, 1, 1, 1, 1, 1, 1>>)
Over(x, y) == Times(x, Reciprocal(y))

Millionth == Reciprocal(1000000 % Prime)

Float(v) == CASE v = 1414214 -> Root2
              [] v = 707107  -> Reciprocal(Root2)
              [] OTHER       -> Times(v % Prime, Millionth)

(***************************************************************************)
(* Large elements are negative numbers.                                    *)
(***************************************************************************)
Signed(x) == IF x > Prime \div 2 THEN x - Prime ELSE x
Larger(x, y)  == IF Signed(x) < Signed(y) THEN y ELSE x
Smaller(x, y) == IF Signed(x) < Signed(y) THEN x ELSE y

Cube(x) == Times(x, Times(x, x))
Erf(x)  == Plus(Times(7, Cube(x)), Times(11, x))
Erfc(x) == Minus(1, Erf(x))
Tanh(x) == Plus(Times(5, Cube(x)), Times(3, x))
Sqrt(x) == Plus(Root2, Times(13, Cube(Minus(x, 2))))
Sigmoid(x) == Reciprocal(Plus(Times(17, Cube(x)), 1))
Power(x, y) == IF y = 3 THEN Cube(x) ELSE Plus(Times(x, y), 1)
Relu(x) == Larger(x, 0)
-----------------------------------------------------------------------------
(***************************************************************************)
(* Shapes and positions.  A position in a tensor is a sequence of indices  *)
(* that begin with 0.                                                      *)
(***************************************************************************)
Size(shape) == FoldLeft(LAMBDA s, d : s * d, 1, shape)

DenseStride(shape, i) == Size(SubSeq(shape, i + 1, Len(shape)))

Position(shape, k) == [i \in DOMAIN shape |-> (k \div DenseStride(shape, i)) % shape[i]]

Offset(shape, pos) ==
    FoldLeftDomain(LAMBDA s, i : s + pos[i] * DenseStride(shape, i), 0, pos)

(***************************************************************************)
(* The same sequence, with its elements worked out, once and for all.      *)
(***************************************************************************)
Tabulated(s) == s \o <<>>

Tensor(shape, Element(_)) ==
    [shape |-> Tabulated(shape),
     data  |-> Tabulated([k \in 1..Size(shape) |-> Element(Position(shape, k - 1))])]

At(t, pos) == t.data[1 + Offset(t.shape, pos)]
Scalar(x)  == [shape |-> <<>>, data |-> <<x>>]
Vector(s)  == [shape |-> <<Len(s)>>, data |-> s]
Rank(t)    == Len(t.shape)
LastDim(t) == t.shape[Rank(t)]
View(t, shape) == [t EXCEPT !.shape = Tabulated(shape)]

Sum(s) == FoldLeft(Plus, 0, s)

(***************************************************************************)
(* What a kernel returns that reports an error.                            *)
(***************************************************************************)
Error == [shape |-> <<-1>>, data |-> <<>>]
Checked(condition, t) == IF condition THEN t ELSE Error
-----------------------------------------------------------------------------
(***************************************************************************)
(* Broadcasting: shapes are aligned at their last dimension.               *)
(***************************************************************************)
DimOf(shape, rank, i) == IF i <= rank - Len(shape) THEN 1 ELSE shape[i - (rank - Len(shape))]
LargerOf(m, n) == IF m < n THEN n ELSE m

IsValidBCast(s, t) ==
    LET rank == LargerOf(Len(s), Len(t))
    IN  \A i \in 1..rank : LET d == {DimOf(s, rank, i), DimOf(t, rank, i)}
                           IN  d = {DimOf(s, rank, i)} \/ 1 \in d

BroadcastShapes(s, t) ==
    LET rank == LargerOf(Len(s), Len(t))
    IN  Tabulated([i \in 1..rank |-> IF DimOf(s, rank, i) = 1 THEN DimOf(t, rank, i)
                                     ELSE DimOf(s, rank, i)])

(***************************************************************************)
(* The strides with which a tensor is read as one of the shape out.        *)
(***************************************************************************)
BuildBroadcastStrides(shape, out) ==
    LET rank_delta == Len(out) - Len(shape)
    IN  [i \in DOMAIN out |->
            IF i <= rank_delta THEN 0
            ELSE IF shape[i - rank_delta] = 1 /\ out[i] > 1 THEN 0
            ELSE DenseStride(shape, i - rank_delta)]

ReadStrided(t, strides, pos) ==
    t.data[1 + FoldLeftDomain(LAMBDA s, i : s + pos[i] * strides[i], 0, pos)]

Broadcast(t, out) ==
    LET strides == BuildBroadcastStrides(t.shape, out)
    IN  Tensor(out, LAMBDA pos : ReadStrided(t, strides, pos))

Unary(F(_), t) == [t EXCEPT !.data = Tabulated([k \in DOMAIN @ |-> F(@[k])])]

Combined(F(_, _), x, y) ==
    [x EXCEPT !.data = Tabulated([k \in DOMAIN @ |-> F(@[k], y.data[k])])]

BinaryTo(F(_, _), a, b, out) == Combined(F, Broadcast(a, out), Broadcast(b, out))

Binary(F(_, _), a, b) ==
    Checked(IsValidBCast(a.shape, b.shape), BinaryTo(F, a, b, BroadcastShapes(a.shape, b.shape)))
=============================================================================
