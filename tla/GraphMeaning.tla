----------------------------- MODULE GraphMeaning -----------------------------
(***************************************************************************)
(* What a graph computes: the tensors that its nodes produce, when its     *)
(* placeholders are fed.  The fused operations compute what their kernels  *)
(* do, so that a graph can be compared with what the optimizer made of it. *)
(***************************************************************************)
EXTENDS GraphDefs

Kernels == INSTANCE FusedKernels

IsTrue(n, key) == Attr(n, key, "false") = "true"

(***************************************************************************)
(* The shape and the values of a constant; a sequence of no shape that is  *)
(* longer than one is a vector.                                            *)
(***************************************************************************)
MusaConst(n) ==
    [shape |-> IF n.shape # Unknown THEN n.shape ELSE IF Len(n.val) = 1 THEN <<>> ELSE <<Len(n.val)>>,
     data  |-> [k \in DOMAIN n.val |-> IF n.T = "float" THEN Kernels!Float(n.val[k]) ELSE n.val[k]]]

(***************************************************************************)
(* A placeholder is fed with numbers that its first value determines; the  *)
(* others are its shape.                                                   *)
(***************************************************************************)
Fed(n) ==
    LET shape == Tail(n.val)
        Number(k) == (n.val[1] * 977 + (n.val[1] + k) * (k + 5) * 263) % Kernels!Prime
    IN  [shape |-> shape,
         data  |-> [k \in 1..Kernels!Size(shape) |->
                       IF n.T = "bool" THEN Number(k) % 2 = 0 ELSE Number(k)]]

(***************************************************************************)
(* The results of a node, by the kernel of its operation.                  *)
(***************************************************************************)
Elementwise(n, in) ==
    CASE n.op \in {"Add", "AddV2"}  -> Kernels!MusaAdd(in[1], in[2])
      [] n.op = "Sub"               -> Kernels!MusaSub(in[1], in[2])
      [] n.op = "Mul"               -> Kernels!MusaMultiply(in[1], in[2])
      [] n.op \in {"RealDiv", "Div"} -> Kernels!MusaRealDiv(in[1], in[2])
      [] n.op = "Maximum"           -> Kernels!MusaMaximum(in[1], in[2])
      [] n.op = "Minimum"           -> Kernels!MusaMinimum(in[1], in[2])
      [] n.op = "Pow"               -> Kernels!MusaPow(in[1], in[2])
      [] n.op = "Equal"             -> Kernels!MusaEqual(in[1], in[2])
      [] n.op = "LogicalOr"         -> Kernels!MusaLogicalOr(in[1], in[2])
      [] n.op = "Select"            -> Kernels!MusaSelect(in[1], in[2], in[3])
      [] n.op = "Neg"               -> Kernels!MusaNeg(in[1])
      [] n.op = "Relu"              -> Kernels!MusaRelu(in[1])
      [] n.op = "Erf"               -> Kernels!MusaErf(in[1])
      [] n.op = "Erfc"              -> Kernels!MusaErfc(in[1])
      [] n.op = "Tanh"              -> Kernels!MusaTanh(in[1])
      [] n.op = "Sqrt"              -> Kernels!MusaSqrt(in[1])
      [] n.op = "Sigmoid"           -> Kernels!MusaSigmoid(in[1])
      [] n.op = "Square"            -> Kernels!MusaSquare(in[1])
      [] n.op = "Identity"          -> Kernels!MusaIdentity(in[1])
      [] n.op = "Cast"              -> Kernels!MusaCast(in[1])

OnShapes(n, in) ==
    CASE n.op = "MatMul"   -> Kernels!MusaMatMul(in[1], in[2], IsTrue(n, "transpose_a"),
                                                               IsTrue(n, "transpose_b"))
      [] n.op = "BiasAdd"  -> Kernels!MusaBiasAdd(in[1], in[2], Attr(n, "data_format", "NHWC"))
      [] n.op = "Prod"     -> Kernels!MusaProd(in[1], in[2], IsTrue(n, "keep_dims"))
      [] n.op = "Mean"     -> Kernels!MusaMean(in[1], in[2], IsTrue(n, "keep_dims"))
      [] n.op = "Reshape"  -> Kernels!MusaReshape(in[1], in[2])
      [] n.op = "Transpose" -> Kernels!MusaTranspose(in[1], in[2])
      [] n.op = "ConcatV2" -> Kernels!MusaConcat(Front(in), Last(in))
      [] n.op = "GatherV2" -> Kernels!MusaGather(in[1], in[2], in[3])
      [] n.op = "Pack"     -> Kernels!MusaPack(in)
      [] n.op = "Shape"    -> Kernels!MusaShape(in[1])
      [] n.op = "Fill"     -> Kernels!MusaFill(in[1], in[2])
      [] n.op = "ExpandDims" -> Kernels!MusaExpandDims(in[1], in[2])
      [] n.op = "StridedSlice" -> Kernels!MusaStridedSlice(in[1], in[2], in[3], IsTrue(n, "shrink"))
      [] n.op = "FusedBatchNormV3" ->
            Kernels!MusaFusedBatchNorm(in[1], in[2], in[3], Kernels!Float(Attr(n, "epsilon", 1000)))

Fused(n, in) ==
    LET trans_a == IsTrue(n, "transpose_a")
        trans_b == IsTrue(n, "transpose_b")
        epsilon == Kernels!Float(Attr(n, "epsilon", 0))
        on      == Attr(n, "select_on_true", <<>>)
    IN  CASE n.op = "MusaClip"  -> Kernels!MusaClip(in[1], in[2], in[3])
          [] n.op = "MusaGelu"  -> Kernels!MusaGelu(in[1], IsTrue(n, "approximate"))
          [] n.op = "MusaPRelu" -> Kernels!MusaPRelu(in[1], in[2])
          [] n.op = "MusaShiftedAffineMap" -> Kernels!MusaShiftedAffineMap(in[1], in[2], in[3])
          [] n.op = "MusaLinearActivation" ->
                Kernels!MusaLinearActivation(in[1], in[2], in[3], trans_a, trans_b)
          [] n.op = "MusaMatMulBiasAdd" ->
                Kernels!MusaMatMulBiasAdd(in[1], in[2], in[3], trans_a, trans_b)
          [] n.op = "MusaBiasAddReluMatMul" ->
                Kernels!MusaBiasAddReluMatMul(in[1], in[2], in[3], Attr(n, "relu_input_slot", "0"),
                                              trans_a, trans_b)
          [] n.op = "MusaReshapeMatMul" -> Kernels!MusaReshapeMatMul(in[1], in[2], trans_b)
          [] n.op = "MusaConcatMatMul" ->
                Kernels!MusaConcatMatMul(SubSeq(in, 1, Len(in) - 2), in[Len(in) - 1], Last(in),
                                         Attr(n, "concat_input_idx", "0"), trans_a, trans_b)
          [] n.op = "MusaTensorDot" -> Kernels!MusaTensorDot(in[1], in[2], n.val[1], n.val[2])
          [] n.op = "MusaTensorDotBias" ->
                Kernels!MusaTensorDotBias(in[1], in[2], in[3], n.val[1], n.val[2])
          [] n.op = "MusaTokenMixer" -> Kernels!MusaTokenMixer(in[1], n.val[1], n.val[2], n.val[3])
          [] n.op = "MusaNormalize" ->
                Kernels!MusaNormalize(in[1], epsilon, Kernels!Float(Attr(n, "max_std", 0)))
          [] n.op = "MusaLayerNorm" -> Kernels!MusaLayerNorm(in[1], in[2], in[3], epsilon)
          [] n.op = "MusaPlnCascade" ->
                IF IsTrue(n, "use_table")
                THEN Kernels!MusaPlnCascade(in[1], in[2], in[3], in[4], n.val[1], on[1])
                ELSE Kernels!MusaPlnCascadeDirect(in[1], in[2], in[3], in[4], on[1])
          [] n.op = "MusaPlnCascadeBlock" ->
                Kernels!MusaPlnCascadeBlock(in[1], in[2], in[3], SubSeq(in, 4, Len(in)), n.val, on)

ElementwiseOps ==
    {"Add", "AddV2", "Sub", "Mul", "RealDiv", "Div", "Maximum", "Minimum", "Pow", "Equal",
     "LogicalOr", "Select", "Neg", "Relu", "Erf", "Erfc", "Tanh", "Sqrt", "Sigmoid", "Square",
     "Identity", "Cast"}

ShapeOps ==
    {"MatMul", "BiasAdd", "Prod", "Mean", "Reshape", "Transpose", "ConcatV2", "GatherV2", "Pack",
     "Shape", "Fill", "ExpandDims", "StridedSlice", "FusedBatchNormV3"}

AdamOps == {"ResourceApplyAdam", "MusaResourceApplyAdamMixed"}

Results(n, in) ==
    LET x(i) == in[i].data[1]
    IN  CASE n.op = "Const"            -> <<MusaConst(n)>>
          [] n.op = "Placeholder"      -> <<Fed(n)>>
          [] n.op = "Unpack"           -> Kernels!MusaUnpack(in[1], Attr(n, "num", 0))
          [] n.op \in AdamOps          -> Kernels!AdamStep(in[1], in[2], in[3], x(4), x(5), x(6), x(7),
                                                           x(8), x(9), in[10])
          [] n.op \in ElementwiseOps   -> <<Elementwise(n, in)>>
          [] n.op \in ShapeOps         -> <<OnShapes(n, in)>>
          [] OTHER                     -> <<Fused(n, in)>>
-----------------------------------------------------------------------------
(***************************************************************************)
(* The results of all nodes that can be computed: those of a node with a   *)
(* wrong input, or that reports an error, cannot.  In a round, the nodes   *)
(* are computed whose inputs are.                                          *)
(***************************************************************************)
DataInputs(n) == SelectSeq(n.in, LAMBDA e : ~e.ctl)

Computed(values, e) == e.src \in DOMAIN values /\ PortNumber(e) < Len(values[e.src])

Ready(g, values) ==
    {n \in ToSet(g) : /\ n.name \notin DOMAIN values
                      /\ \A e \in ToSet(DataInputs(n)) : Computed(values, e)}

ResultsKept(r) == IF Kernels!Error \in ToSet(r) THEN <<>> ELSE r

ResultsOf(n, values) ==
    ResultsKept(Results(n, Each(DataInputs(n), LAMBDA e : values[e.src][PortNumber(e) + 1])))

Round(g, values) ==
    values @@ [name \in {n.name : n \in Ready(g, values)} |->
                  ResultsOf(CHOOSE n \in Ready(g, values) : n.name = name, values)]

Evaluate(g) == FoldLeftDomain(LAMBDA values, k : Round(g, values), <<>>, g)
=============================================================================
