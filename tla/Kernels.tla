-------------------------------- MODULE Kernels --------------------------------
(***************************************************************************)
(* What the kernels in kernels/math, kernels/nn and kernels/array compute  *)
(* whose operations the fusion patterns look for.  The library that does   *)
(* the arithmetic is taken to do what its mode says.                       *)
(***************************************************************************)
EXTENDS Tensors

(***************************************************************************)
(* Elementwise operations.  MusaMinimum allocates its result with the      *)
(* shape of its first input.                                               *)
(***************************************************************************)
MusaAdd(a, b)      == Binary(Plus, a, b)
MusaSub(a, b)      == Binary(Minus, a, b)
MusaMultiply(a, b) == Binary(Times, a, b)
MusaRealDiv(a, b)  == Binary(Over, a, b)
MusaMaximum(a, b)  == Binary(Larger, a, b)
MusaMinimum(a, b)  == Checked(/\ IsValidBCast(a.shape, b.shape)
                              /\ BroadcastShapes(a.shape, b.shape) = a.shape,
                              Binary(Smaller, a, b))
MusaPow(a, b)      == Binary(Power, a, b)
MusaEqual(a, b)    == Binary(LAMBDA x, y : x = y, a, b)

MusaNeg(a)     == Unary(LAMBDA x : Minus(0, x), a)
MusaRelu(a)    == Unary(Relu, a)
MusaErf(a)     == Unary(Erf, a)
MusaErfc(a)    == Unary(Erfc, a)
MusaTanh(a)    == Unary(Tanh, a)
MusaSqrt(a)    == Unary(Sqrt, a)
MusaSigmoid(a) == Unary(Sigmoid, a)
MusaSquare(a)  == Unary(LAMBDA x : Times(x, x), a)
MusaIdentity(a) == a

(***************************************************************************)
(* A scalar operand is not broadcast: the result is the other operand, or  *)
(* all true.                                                               *)
(***************************************************************************)
MusaLogicalOr(a, b) ==
    LET Shortcut(scalar, other) == IF scalar.data[1] THEN Unary(LAMBDA x : TRUE, other) ELSE other
    IN  IF a.shape = <<>> THEN Shortcut(a, b)
        ELSE IF b.shape = <<>> THEN Shortcut(b, a)
        ELSE Binary(LAMBDA x, y : x \/ y, a, b)

(***************************************************************************)
(* A condition that does not broadcast, but is a vector as long as the     *)
(* first dimension, selects among the rows.                                *)
(***************************************************************************)
BuildLeftAligned1DStrides(shape, out) == [i \in DOMAIN out |-> IF i = 1 THEN 1 ELSE 0]

IsLeftAligned(cond, shape) ==
    ~IsValidBCast(cond, shape) /\ Len(cond) = 1 /\ Len(shape) > 1 /\ cond[1] = shape[1]

MusaSelect(cond, then, else) ==
    LET te   == BroadcastShapes(then.shape, else.shape)
        left == IsLeftAligned(cond.shape, te)
        out  == IF left THEN te ELSE BroadcastShapes(cond.shape, te)
        strides == IF left THEN BuildLeftAligned1DStrides(cond.shape, out)
                           ELSE BuildBroadcastStrides(cond.shape, out)
        x    == Broadcast(then, out)
        y    == Broadcast(else, out)
    IN  Checked(/\ IsValidBCast(then.shape, else.shape)
                /\ left \/ IsValidBCast(cond.shape, te),
                Tensor(out, LAMBDA pos : IF ReadStrided(cond, strides, pos)
                                         THEN At(x, pos) ELSE At(y, pos)))
-----------------------------------------------------------------------------
(***************************************************************************)
(* Products and sums.                                                      *)
(***************************************************************************)
Transposed(a) ==
    Tensor(<<a.shape[2], a.shape[1]>>, LAMBDA pos : At(a, <<pos[2], pos[1]>>))

Multiply(a, b) ==
    Tensor(<<a.shape[1], b.shape[2]>>,
           LAMBDA pos : Sum([k \in 1..a.shape[2] |-> Times(At(a, <<pos[1], k - 1>>),
                                                           At(b, <<k - 1, pos[2]>>))]))

MusaMatMul(a, b, trans_a, trans_b) ==
    LET x == IF trans_a THEN Transposed(a) ELSE a
        y == IF trans_b THEN Transposed(b) ELSE b
    IN  Checked(Rank(a) = 2 /\ Rank(b) = 2 /\ x.shape[2] = y.shape[1], Multiply(x, y))

MusaBiasAdd(a, bias, data_format) ==
    LET channel == IF data_format = "NCHW" THEN 2 ELSE Rank(a)
    IN  Checked(Rank(bias) >= 1 /\ bias.shape[1] = a.shape[channel],
                Tensor(a.shape, LAMBDA pos : Plus(At(a, pos), bias.data[1 + pos[channel]])))

(***************************************************************************)
(* The dimensions that axes name, which may be negative, and a reduction   *)
(* over a set of dimensions.                                               *)
(***************************************************************************)
AxesOf(a, axes) ==
    {i \in 1..Rank(a) : \E x \in ToSet(axes.data) : x = i - 1 \/ x = i - 1 - Rank(a)}

KeptShape(a, dims) == [i \in DOMAIN a.shape |-> IF i \in dims THEN 1 ELSE a.shape[i]]

OtherDims(a, dims) ==
    FoldLeftDomain(LAMBDA s, i : IF i \in dims THEN s ELSE Append(s, a.shape[i]), <<>>, a.shape)

Reduce(a, dims, keep_dims, F(_, _), unit) ==
    LET over == [i \in DOMAIN a.shape |-> IF i \in dims THEN a.shape[i] ELSE 1]
        Cell(pos) == [k \in 1..Size(over) |->
                         At(a, [i \in DOMAIN pos |-> pos[i] + Position(over, k - 1)[i]])]
        kept == Tensor(KeptShape(a, dims), LAMBDA pos : FoldLeft(F, unit, Cell(pos)))
    IN  IF keep_dims THEN kept ELSE View(kept, OtherDims(a, dims))

(***************************************************************************)
(* A product over no axes leaves its input as it is; a mean over no axes   *)
(* is one over all.                                                        *)
(***************************************************************************)
MusaProd(a, axes, keep_dims) == Reduce(a, AxesOf(a, axes), keep_dims, LAMBDA x, y : x * y, 1)

MusaMean(a, axes, keep_dims) ==
    LET dims  == IF axes.data = <<>> THEN DOMAIN a.shape ELSE AxesOf(a, axes)
        count == Size([i \in DOMAIN a.shape |-> IF i \in dims THEN a.shape[i] ELSE 1])
    IN  Unary(LAMBDA x : Over(x, count), Reduce(a, dims, keep_dims, Plus, 0))

(***************************************************************************)
(* Training, with the channels in the second dimension: every channel is   *)
(* normalized with its own mean and variance.                              *)
(***************************************************************************)
MusaFusedBatchNorm(a, scale, offset, epsilon) ==
    LET dims  == DOMAIN a.shape \ {2}
        mean  == MusaMean(a, Vector([i \in 1..Rank(a) - 1 |-> IF i = 1 THEN 0 ELSE i]), TRUE)
        diff  == MusaSub(a, mean)
        count == Size(OtherDims(a, {2}))
        var   == Unary(LAMBDA x : Over(x, count), Reduce(MusaSquare(diff), dims, TRUE, Plus, 0))
        std   == Unary(LAMBDA x : Sqrt(Plus(x, epsilon)), var)
        PerChannel(t) == View(t, [i \in DOMAIN a.shape |-> IF i = 2 THEN Size(t.shape) ELSE 1])
    IN  Checked(Rank(a) = 4 /\ Size(scale.shape) = a.shape[2],
                MusaAdd(MusaMultiply(MusaRealDiv(diff, std), PerChannel(scale)), PerChannel(offset)))
-----------------------------------------------------------------------------
(***************************************************************************)
(* Shapes and slices.                                                      *)
(***************************************************************************)
MusaReshape(a, sizes) ==
    LET unknown == {i \in DOMAIN sizes.data : sizes.data[i] = -1}
        product == Size(SelectSeq(sizes.data, LAMBDA d : d # -1))
        shape   == [i \in DOMAIN sizes.data |->
                       IF i \in unknown THEN IF a.data = <<>> THEN 0 ELSE Len(a.data) \div product
                                        ELSE sizes.data[i]]
    IN  IF \/ \E i, j \in unknown : i # j
           \/ \E i \in DOMAIN sizes.data : sizes.data[i] < -1
           \/ unknown # {} /\ a.data # <<>> /\ (product = 0 \/ Len(a.data) % product # 0)
        THEN Error
        ELSE Checked(Len(a.data) = Size(shape), View(a, shape))

MusaTranspose(a, perm) ==
    Tensor([i \in DOMAIN perm.data |-> a.shape[perm.data[i] + 1]],
           LAMBDA pos : At(a, [i \in 1..Rank(a) |-> pos[SelectInSeq(perm.data, LAMBDA x : x = i - 1)]]))

(***************************************************************************)
(* Empty inputs take no part, but for their length along the axis.         *)
(***************************************************************************)
MusaConcat(ins, axis) ==
    LET ref   == ins[LargerOf(1, SelectInSeq(ins, LAMBDA t : t.data # <<>>))]
        d     == IF axis.data[1] < 0 THEN axis.data[1] + Rank(ref) + 1 ELSE axis.data[1] + 1
        Before(i) == FoldLeft(LAMBDA s, t : s + t.shape[d], 0, SubSeq(ins, 1, i))
        Which(x) == CHOOSE i \in DOMAIN ins : Before(i - 1) <= x /\ x < Before(i)
    IN  IF d \notin 1..Rank(ref) THEN Error
        ELSE Tensor([ref.shape EXCEPT ![d] = Before(Len(ins))],
                    LAMBDA pos : LET i == Which(pos[d])
                                 IN  At(ins[i], [pos EXCEPT ![d] = @ - Before(i - 1)]))

MusaGather(params, indices, axis) ==
    LET d == IF axis.data[1] < 0 THEN axis.data[1] + Rank(params) ELSE axis.data[1]
        out == SubSeq(params.shape, 1, d) \o indices.shape
                   \o SubSeq(params.shape, d + 2, Rank(params))
        Index(pos) == At(indices, SubSeq(pos, d + 1, d + Rank(indices)))
    IN  Checked(axis.shape = <<>> /\ d \in 0..Rank(params) - 1,
                Tensor(out, LAMBDA pos : At(params, SubSeq(pos, 1, d) \o <<Index(pos)>>
                                                    \o SubSeq(pos, d + Rank(indices) + 1, Len(pos)))))

MusaPack(ins) ==
    Checked(\A i \in DOMAIN ins : ins[i].shape = ins[1].shape,
            [shape |-> <<Len(ins)>> \o ins[1].shape,
             data  |-> FlattenSeq([i \in DOMAIN ins |-> ins[i].data])])

MusaUnpack(a, num) ==
    LET shape == Tail(a.shape)
    IN  IF Rank(a) = 0 \/ a.shape[1] # num THEN <<Error>>
        ELSE [i \in 1..num |-> Tensor(shape, LAMBDA pos : At(a, <<i - 1>> \o pos))]

MusaShape(a) == Vector(a.shape)

MusaFill(dims, value) == Tensor(dims.data, LAMBDA pos : value.data[1])

MusaExpandDims(a, dim) ==
    LET d == IF dim.data[1] < 0 THEN dim.data[1] + Rank(a) + 1 ELSE dim.data[1]
    IN  Checked(d \in 0..Rank(a), View(a, InsertAt(a.shape, d + 1, 1)))

(***************************************************************************)
(* A slice of the first dimension with a step of one; shrink removes it.   *)
(***************************************************************************)
MusaStridedSlice(a, begin, end, shrink) ==
    LET From(x) == LET y == IF x < 0 THEN x + a.shape[1] ELSE x
                   IN  IF y < 0 THEN 0 ELSE IF y > a.shape[1] THEN a.shape[1] ELSE y
        first == From(begin.data[1])
        count == IF shrink THEN 1 ELSE LargerOf(0, From(end.data[1]) - first)
        slice == Tensor(<<count>> \o Tail(a.shape), LAMBDA pos : At(a, [pos EXCEPT ![1] = @ + first]))
    IN  Checked(Rank(a) >= 1 /\ (shrink => first < a.shape[1]),
                IF shrink THEN View(slice, Tail(a.shape)) ELSE slice)

(***************************************************************************)
(* A cast to a longer type keeps the values.                               *)
(***************************************************************************)
MusaCast(a) == a

(***************************************************************************)
(* The Adam step: the variable and its two moments afterwards.             *)
(***************************************************************************)
AdamStep(var, m, v, beta1_power, beta2_power, lr, beta1, beta2, epsilon, grad) ==
    LET alpha == IF beta1_power = 1 THEN lr
                 ELSE Over(Times(lr, Sqrt(Minus(1, beta2_power))), Minus(1, beta1_power))
        Moment(beta, old, new) == Plus(Times(beta, old), Times(Minus(1, beta), new))
        m1 == [k \in DOMAIN grad.data |-> Moment(beta1, m.data[k], grad.data[k])]
        v1 == [k \in DOMAIN grad.data |->
                  Moment(beta2, v.data[k], Times(grad.data[k], grad.data[k]))]
        x1 == [k \in DOMAIN grad.data |->
                  Minus(var.data[k], Over(Times(alpha, m1[k]), Plus(Sqrt(v1[k]), epsilon)))]
    IN  IF \A t \in {var, m, v} : t.shape = grad.shape
        THEN [i \in 1..3 |-> [shape |-> grad.shape, data |-> <<x1, m1, v1>>[i]]]
        ELSE <<Error>>
=============================================================================
