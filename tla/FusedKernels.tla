----------------------------- MODULE FusedKernels -----------------------------
(***************************************************************************)
(* What the kernels in kernels/fusion compute: the operations that the     *)
(* fusion patterns put in the place of others, with the shapes that they   *)
(* require.                                                                *)
(***************************************************************************)
EXTENDS Kernels

MusaClip(x, lo, hi) ==
    LET xlo == BroadcastShapes(x.shape, lo.shape)
    IN  Checked(IsValidBCast(x.shape, lo.shape) /\ IsValidBCast(xlo, hi.shape),
                Binary(Smaller, Binary(Larger, x, lo), hi))

MusaGelu(x, approximate) ==
    LET Scale(y) == Times(Float(797885), Plus(y, Times(Float(44715), Cube(y))))
        Factor(y) == IF approximate THEN Tanh(Scale(y)) ELSE Erf(Over(y, Root2))
    IN  Unary(LAMBDA y : Times(Times(Float(500000), y), Plus(1, Factor(y))), x)

(***************************************************************************)
(* The library's PRELU has the slope of the negative part as its operand,  *)
(* which is the negated input.  The result has the shape of x.             *)
(***************************************************************************)
MusaPRelu(x, alpha) ==
    LET slope == Broadcast(MusaNeg(alpha), x.shape)
    IN  Checked(IsValidBCast(x.shape, alpha.shape) /\ BroadcastShapes(x.shape, alpha.shape) = x.shape,
                [x EXCEPT !.data = [k \in DOMAIN @ |-> IF Signed(@[k]) >= 0 THEN @[k]
                                                       ELSE Times(slope.data[k], @[k])]])

MusaShiftedAffineMap(left, mask, right) ==
    LET out  == BroadcastShapes(BroadcastShapes(left.shape, mask.shape), right.shape)
        l    == Broadcast(left, out)
        m    == Broadcast(mask, out)
        r    == Broadcast(right, out)
    IN  Checked(/\ IsValidBCast(left.shape, mask.shape)
                /\ IsValidBCast(BroadcastShapes(left.shape, mask.shape), right.shape),
                [shape |-> out,
                 data  |-> [k \in DOMAIN l.data |-> Plus(Times(m.data[k], l.data[k]), r.data[k])]])
-----------------------------------------------------------------------------
MusaLinearActivation(a, b, bias, trans_a, trans_b) ==
    LET product == MusaMatMul(a, b, trans_a, trans_b)
    IN  Checked(product # Error /\ bias.shape = <<LastDim(product)>>,
                MusaRelu(MusaAdd(product, bias)))

MusaMatMulBiasAdd(a, b, bias, trans_a, trans_b) ==
    LET product == MusaMatMul(a, b, trans_a, trans_b)
    IN  Checked(/\ product # Error
                /\ bias.shape \in {<<LastDim(product)>>, <<1, LastDim(product)>>},
                MusaAdd(product, View(bias, <<LastDim(product)>>)))

MusaBiasAddReluMatMul(x, bias, other, relu_input_slot, trans_a, trans_b) ==
    LET relu == MusaRelu(MusaAdd(x, bias))
    IN  Checked(bias.shape = <<LastDim(x)>>,
                IF relu_input_slot = "0" THEN MusaMatMul(relu, other, trans_a, trans_b)
                                         ELSE MusaMatMul(other, relu, trans_a, trans_b))

MusaReshapeMatMul(x, w, trans_b) ==
    LET k == IF trans_b THEN w.shape[2] ELSE w.shape[1]
        n == IF trans_b THEN w.shape[1] ELSE w.shape[2]
        m == Len(x.data) \div LastDim(x)
    IN  Checked(Rank(x) >= 2 /\ Rank(w) = 2 /\ LastDim(x) = k,
                View(MusaMatMul(View(x, <<m, k>>), w, FALSE, trans_b),
                     [x.shape EXCEPT ![Rank(x)] = n]))

MusaConcatMatMul(ins, axis, other, concat_input_idx, trans_a, trans_b) ==
    LET concat == MusaConcat(ins, axis)
    IN  IF concat = Error THEN Error
        ELSE IF concat_input_idx = "0" THEN MusaMatMul(concat, other, trans_a, trans_b)
        ELSE MusaMatMul(other, concat, trans_a, trans_b)
-----------------------------------------------------------------------------
(***************************************************************************)
(* Contraction of the dimensions axes_a of a with axes_b of b: both are    *)
(* transposed and viewed as matrices, with the contracted dimensions last  *)
(* in one of them and first in the other.                                  *)
(***************************************************************************)
Normalized(axes, rank) == [i \in DOMAIN axes |-> IF axes[i] < 0 THEN axes[i] + rank ELSE axes[i]]

FreeAxes(axes, rank) == SelectSeq([i \in 1..rank |-> i - 1], LAMBDA i : i \notin ToSet(axes))

DimsOf(a, axes) == [i \in DOMAIN axes |-> a.shape[axes[i] + 1]]

PrepareTensor(a, rows, columns) ==
    View(MusaTranspose(a, Vector(rows \o columns)), <<Size(DimsOf(a, rows)), Size(DimsOf(a, columns))>>)

MusaTensorDot(a, b, axes_a, axes_b) ==
    LET p == Normalized(axes_a, Rank(a))
        q == Normalized(axes_b, Rank(b))
        free_a == FreeAxes(p, Rank(a))
        free_b == FreeAxes(q, Rank(b))
    IN  Checked(/\ Len(p) = Len(q)
                /\ \A i \in DOMAIN p : p[i] \in 0..Rank(a) - 1 /\ q[i] \in 0..Rank(b) - 1
                /\ DimsOf(a, p) = DimsOf(b, q),
                View(Multiply(PrepareTensor(a, free_a, p), PrepareTensor(b, q, free_b)),
                     DimsOf(a, free_a) \o DimsOf(b, free_b)))

(***************************************************************************)
(* A bias with one element, or with the rows of the result, is allocated   *)
(* but not written: the result is undefined, which is an error here.       *)
(***************************************************************************)
MusaTensorDotBias(a, b, bias, axes_a, axes_b) ==
    LET dot == MusaTensorDot(a, b, axes_a, axes_b)
        n   == Size(DimsOf(b, FreeAxes(Normalized(axes_b, Rank(b)), Rank(b))))
    IN  Checked(/\ dot # Error
                /\ \/ bias.shape = <<n>>
                   \/ Len(bias.data) = n /\ n # 1 /\ ~(Rank(bias) = 2 /\ bias.shape[2] = n),
                View(MusaAdd(View(dot, <<Len(dot.data) \div n, n>>), View(bias, <<n>>)), dot.shape))

MusaTokenMixer(x, T, H, d) ==
    Checked(Rank(x) = 3 /\ x.shape[2] = T /\ x.shape[3] = H * d,
            View(MusaTranspose(View(x, <<x.shape[1], T, H, d>>), Vector(<<0, 2, 1, 3>>)),
                 <<x.shape[1], H, T * d>>))
-----------------------------------------------------------------------------
(***************************************************************************)
(* Normalizations over the last dimension, by the clamped deviation or by  *)
(* the root of the variance plus epsilon.                                  *)
(***************************************************************************)
LastMean(x) == MusaMean(x, Vector(<<-1>>), TRUE)
Centered(x) == MusaSub(x, LastMean(x))
Variance(x) == LastMean(MusaSquare(Centered(x)))

MusaNormalize(x, epsilon, max_std) ==
    LET Clipped(s) == Larger(epsilon, Smaller(s, max_std))
    IN  Checked(Rank(x) >= 1, MusaRealDiv(Centered(x), Unary(Clipped, MusaSqrt(Variance(x)))))

MusaLayerNorm(x, gamma, beta, epsilon) ==
    LET std == Unary(LAMBDA v : Sqrt(Plus(v, epsilon)), Variance(x))
        Row(t) == View(t, <<Len(t.data)>>)
    IN  Checked(Rank(x) >= 1 /\ Len(gamma.data) = LastDim(x) /\ Len(beta.data) = LastDim(x),
                MusaAdd(MusaMultiply(MusaRealDiv(Centered(x), std), Row(gamma)), Row(beta)))
-----------------------------------------------------------------------------
(***************************************************************************)
(* A step of a cascade: where the gate has the value on, x is mapped to    *)
(* x * add + bias.  A gate that does not broadcast, but is a vector as     *)
(* long as the first dimension, is a gate of rows.                         *)
(***************************************************************************)
CascadeStep(x, gate, add, bias, on, out) ==
    LET strides == IF IsLeftAligned(gate.shape, x.shape) THEN BuildLeftAligned1DStrides(gate.shape, out)
                   ELSE BuildBroadcastStrides(gate.shape, out)
        a == Broadcast(add, out)
        b == Broadcast(bias, out)
        y == Broadcast(x, out)
    IN  Tensor(out, LAMBDA pos : IF ReadStrided(gate, strides, pos) = on
                                 THEN Plus(Times(At(y, pos), At(a, pos)), At(b, pos))
                                 ELSE At(y, pos))

GatedShape(x, gate) ==
    IF IsLeftAligned(gate, x) THEN x ELSE IF IsValidBCast(x, gate) THEN BroadcastShapes(x, gate)
    ELSE Error.shape

TableRow(table, i) == Vector(SubSeq(table.data, 1 + i * table.shape[2], (i + 1) * table.shape[2]))

MusaPlnCascadeDirect(x, gate, add, bias, on) ==
    LET gated == GatedShape(x.shape, gate.shape)
        wide  == BroadcastShapes(gated, add.shape)
    IN  Checked(gated # Error.shape /\ IsValidBCast(gated, add.shape) /\ IsValidBCast(wide, bias.shape),
                CascadeStep(x, gate, add, bias, on, BroadcastShapes(wide, bias.shape)))

MusaPlnCascadeBlock(x, add, bias, gates, table_indices, on) ==
    LET Widen(s, gate) == IF s = Error.shape THEN s ELSE GatedShape(s, gate.shape)
        out == FoldLeft(Widen, x.shape, gates)
        Step(y, s) == CascadeStep(y, gates[s], TableRow(add, table_indices[s]),
                                  TableRow(bias, table_indices[s]), on[s], out)
    IN  IF /\ Rank(add) = 2 /\ add.shape = bias.shape /\ out \notin {<<>>, Error.shape}
           /\ Last(out) = add.shape[2] /\ Len(table_indices) = Len(gates) /\ Len(on) = Len(gates)
           /\ \A s \in DOMAIN gates : table_indices[s] \in 0..add.shape[1] - 1
        THEN FoldLeftDomain(Step, x, gates) ELSE Error

MusaPlnCascade(x, gate, add, bias, table_index, on) ==
    MusaPlnCascadeBlock(x, add, bias, <<gate>>, <<table_index>>, <<on>>)
=============================================================================
