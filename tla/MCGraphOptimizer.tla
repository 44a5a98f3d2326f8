--------------------------- MODULE MCGraphOptimizer ---------------------------
(***************************************************************************)
(* Graphs for the optimizer: one or more for every fusion pattern, some    *)
(* with nodes that another consumer shares, some for two patterns in a     *)
(* row, each in several orders of its nodes.                               *)
(***************************************************************************)
EXTENDS FusionProperties, AcceptedGraphs

Op(name, op, in)   == Node(<<name>>, op, [i \in DOMAIN in |-> Edge(<<in[i]>>)])
Feed(name, k, s)   == [Node(<<name>>, "Placeholder", <<>>) EXCEPT !.val = <<k>> \o s, !.shape = s]
FloatOf(name, v)      == [Node(<<name>>, "Const", <<>>) EXCEPT !.val = <<v>>, !.shape = <<>>]
FloatsOf(name, s, v) == [Node(<<name>>, "Const", <<>>) EXCEPT !.val = v, !.shape = s]
IntOf(name, v)       == [FloatOf(name, v) EXCEPT !.T = "int32"]
IntsOf(name, v)      == [FloatsOf(name, <<Len(v)>>, v) EXCEPT !.T = "int32"]
With(n, key, v)    == [n EXCEPT !.attr = Append(@, <<key, v>>)]

(***************************************************************************)
(* A graph in a scope: all its names get a prefix.                         *)
(***************************************************************************)
Scoped(p, g) ==
    [i \in DOMAIN g |-> [g[i] EXCEPT !.name = p \o @,
                                     !.in = [j \in DOMAIN @ |-> [@[j] EXCEPT !.src = p \o @]]]]

X == Feed("x", 3, <<2, 3>>)
W == Feed("w", 7, <<3, 2>>)
-----------------------------------------------------------------------------
Clip == <<X, FloatOf("hi", 2000000000), FloatOf("lo", -2000000000), Op("min", "Minimum", <<"x", "hi">>),
          Op("max", "Maximum", <<"min", "lo">>)>>
ClipShared == Append(Clip, Op("other", "Neg", <<"min">>))

Half == <<X, FloatOf("half", kHalf)>>
Gelu == Half \o
    <<FloatOf("one", kOne), FloatOf("root", kSqrt2), Op("div", "RealDiv", <<"x", "root">>), Op("erf", "Erf", <<"div">>),
      Op("add", "AddV2", <<"one", "erf">>), Op("hx", "Mul", <<"half", "x">>),
      Op("gelu", "Mul", <<"hx", "add">>)>>
GeluErfc == Half \o
    <<FloatOf("rroot", kRsqrt2), Op("neg", "Neg", <<"x">>), Op("scaled", "Mul", <<"neg", "rroot">>),
      Op("erfc", "Erfc", <<"scaled">>), Op("xe", "Mul", <<"x", "erfc">>),
      Op("gelu", "Mul", <<"half", "xe">>)>>
GeluTanh == Half \o
    <<FloatOf("one", kOne), FloatOf("three", kPow3), FloatOf("coeff", kApproxCoeff), FloatOf("scale", kApproxScale),
      Op("pow", "Pow", <<"x", "three">>), Op("cubic", "Mul", <<"coeff", "pow">>),
      Op("inner", "AddV2", <<"x", "cubic">>), Op("arg", "Mul", <<"scale", "inner">>),
      Op("tanh", "Tanh", <<"arg">>), Op("add", "AddV2", <<"one", "tanh">>),
      Op("hf", "Mul", <<"half", "add">>), Op("gelu", "Mul", <<"x", "hf">>)>>
GeluShared == Append(Gelu, Op("other", "Neg", <<"erf">>))

PRelu == <<X, FloatOf("alpha", 3000000), Op("relu1", "Relu", <<"x">>), Op("neg", "Neg", <<"x">>),
           Op("relu2", "Relu", <<"neg">>), Op("mul", "Mul", <<"alpha", "relu2">>),
           Op("prelu", "AddV2", <<"relu1", "mul">>)>>

SigmoidCalibration ==
    <<X, FloatOf("one", kOne), FloatOf("c", 5000000), Op("s", "Sigmoid", <<"x">>),
      Op("sub", "Sub", <<"one", "s">>), Op("mul", "Mul", <<"c", "sub">>),
      Op("add", "AddV2", <<"s", "mul">>), Op("div", "RealDiv", <<"s", "add">>)>>

ShiftedAffine ==
    <<X, FloatsOf("left", <<3>>, <<2000000, 3000000, 4000000>>), FloatsOf("right", <<1, 3>>, <<kOne, kTwo, kOne>>),
      Op("mask", "Identity", <<"x">>), Op("mul", "Mul", <<"mask", "left">>),
      Op("map", "AddV2", <<"mul", "right">>)>>

Adam ==
    [i \in 1..3 |-> Feed(<<"var", "m", "v">>[i], i, <<2>>)]
    \o [i \in 1..6 |-> FloatOf(<<"b1p", "b2p", "lr", "b1", "b2", "eps">>[i], i * kTwo)]
    \o <<[Feed("grad", 9, <<2>>) EXCEPT !.T = "half"],
         With(With(Op("cast", "Cast", <<"grad">>), "SrcT", "half"), "DstT", "float"),
         Op("adam", "ResourceApplyAdam",
            <<"var", "m", "v", "b1p", "b2p", "lr", "b1", "b2", "eps", "cast">>)>>
-----------------------------------------------------------------------------
ConcatMatMul ==
    <<Feed("a", 1, <<2, 1>>), Feed("b", 2, <<2, 2>>), W, IntOf("axis", 1),
      Op("concat", "ConcatV2", <<"a", "b", "axis">>), Op("mm", "MatMul", <<"concat", "w">>)>>
ConcatShared == Append(ConcatMatMul, Op("other", "Neg", <<"concat">>))

Bias == Feed("bias", 5, <<2>>)
Product == <<X, W, Bias, Op("mm", "MatMul", <<"x", "w">>)>>
BiasAdd == Append(Product, Op("ba", "BiasAdd", <<"mm", "bias">>))
AddBias == Append(Product, Op("ba", "AddV2", <<"bias", "mm">>))
AddResidual == <<X, W, [Bias EXCEPT !.val = <<5, 2, 2>>, !.shape = Unknown],
                 Op("mm", "MatMul", <<"x", "w">>), Op("ba", "AddV2", <<"mm", "bias">>)>>
LinearActivation == Append(BiasAdd, Op("relu", "Relu", <<"ba">>))
LinearShared == Append(LinearActivation, Op("other", "Neg", <<"ba">>))
TwoLayers == LinearActivation \o
    <<Feed("u", 11, <<2, 2>>), Feed("bias2", 13, <<2>>), Op("mm2", "MatMul", <<"relu", "u">>),
      Op("ba2", "BiasAdd", <<"mm2", "bias2">>)>>

Projection ==
    <<Feed("x", 3, <<2, 2>>), W, Bias, Op("ba", "BiasAdd", <<"x", "bias">>),
      Op("relu", "Relu", <<"ba">>), Op("mm", "MatMul", <<"w", "relu">>)>>

Flat == <<Feed("x", 3, <<2, 2, 3>>), FloatsOf("w", <<3, 2>>, [i \in 1..6 |-> i * kOne]), IntsOf("flat", <<-1, 3>>),
          Op("reshape", "Reshape", <<"x", "flat">>), Op("mm", "MatMul", <<"reshape", "w">>),
          Op("shape", "Shape", <<"x">>), With(Op("dims", "Unpack", <<"shape">>), "num", 3), IntOf("n", 2),
          [Op("pack", "Pack", <<"dims", "dims", "n">>) EXCEPT !.in[2] = Port(<<"dims">>, ":1")]>>
ReshapeMatMul == Append(Flat, Op("back", "Reshape", <<"mm", "pack">>))

TokenMixer ==
    <<Feed("x", 3, <<1, 2, 6>>), IntsOf("there", <<-1, 2, 3, 2>>), IntsOf("perm", <<0, 2, 1, 3>>), IntsOf("back", <<-1, 3, 4>>),
      Op("r1", "Reshape", <<"x", "there">>), Op("t", "Transpose", <<"r1", "perm">>),
      Op("mixed", "Reshape", <<"t", "back">>)>>

(***************************************************************************)
(* tf.tensordot(x, w, axes = 1) of x with two free dimensions.             *)
(***************************************************************************)
Inside(name) == <<"Tensordot", name>>
In(n) == [n EXCEPT !.name = <<"Tensordot">> \o @]
Dot(name, op, in) == Node(name, op, [i \in DOMAIN in |-> Edge(in[i])])
TensorDot ==
    <<Feed("x", 3, <<2, 1, 3>>), [Feed("weight", 7, <<3, 2>>) EXCEPT !.name = <<"weight">>],
      Op("w", "Identity", <<"weight">>),
      In(IntsOf("axes", <<2>>)), In(IntsOf("free", <<0, 1>>)), In(IntOf("zero", 0)), In(IntsOf("n", <<2>>)),
      Dot(Inside("Shape"), "Shape", <<<<"x">>>>),
      Dot(Inside("GatherV2"), "GatherV2", <<Inside("Shape"), Inside("free"), Inside("zero")>>),
      Dot(Inside("GatherV2_1"), "GatherV2", <<Inside("Shape"), Inside("axes"), Inside("zero")>>),
      Dot(Inside("Prod"), "Prod", <<Inside("GatherV2"), Inside("zero")>>),
      Dot(Inside("Prod_1"), "Prod", <<Inside("GatherV2_1"), Inside("zero")>>),
      Dot(Inside("stack"), "Pack", <<Inside("Prod"), Inside("Prod_1")>>),
      Dot(Inside("Reshape"), "Reshape", <<<<"x">>, Inside("stack")>>),
      Dot(Inside("MatMul"), "MatMul", <<Inside("Reshape"), <<"w">>>>),
      Dot(Inside("concat"), "ConcatV2", <<Inside("GatherV2"), Inside("n"), Inside("zero")>>),
      Dot(<<"Tensordot">>, "Reshape", <<Inside("MatMul"), Inside("concat")>>)>>
TensorDotShared == Append(TensorDot, Dot(<<"other">>, "Identity", <<Inside("Shape")>>))
TensorDotBias ==
    TensorDot \o <<Feed("variable", 5, <<2>>), Op("bias", "Identity", <<"variable">>),
                   Op("ba", "BiasAdd", <<"Tensordot", "bias">>)>>
-----------------------------------------------------------------------------
Normalize == Scoped(<<"norm">>,
    <<X, IntsOf("last", <<-1>>), IntOf("dim", -1), FloatOf("eps", kOne), FloatOf("max", 2000000000),
      Op("mean", "Mean", <<"x", "last">>), Op("ed", "ExpandDims", <<"mean", "dim">>),
      Op("sub", "Sub", <<"x", "ed">>), Op("sq", "Square", <<"sub">>), Op("mean2", "Mean", <<"sq", "last">>),
      Op("ed2", "ExpandDims", <<"mean2", "dim">>), Op("sqrt", "Sqrt", <<"ed2">>),
      Op("min", "Minimum", <<"sqrt", "max">>), Op("clip", "Maximum", <<"min", "eps">>),
      Op("div", "RealDiv", <<"sub", "clip">>)>>)
NormalizeShared == Append(Normalize, Dot(<<"other">>, "Neg", <<<<"norm", "mean">>>>))
Affine == Scoped(<<"norm">>,
    <<FloatsOf("gamma", <<3>>, <<kTwo, kOne, kPow3>>), FloatsOf("beta", <<3>>, <<kOne, kTwo, kOne>>),
      Op("mul", "Mul", <<"div", "gamma">>), Op("out", "AddV2", <<"mul", "beta">>)>>)

LayerNormV2 ==
    <<X, Feed("gamma", 11, <<3>>), Feed("beta", 13, <<3>>), Feed("mean", 1, <<0>>), Feed("var", 1, <<0>>),
      IntOf("one", 1), IntOf("one4", 1), FloatOf("fone", kOne), FloatOf("fzero", 0), IntOf("batch", 2), IntOf("features", 3),
      Op("bdims", "Pack", <<"batch">>), Op("scale", "Fill", <<"bdims", "fone">>),
      Op("offset", "Fill", <<"bdims", "fzero">>), Op("dims", "Pack", <<"one", "batch", "features", "one4">>),
      Op("there", "Reshape", <<"x", "dims">>),
      With(With(With(Op("bn", "FusedBatchNormV3", <<"there", "scale", "offset", "mean", "var">>),
                     "data_format", "NCHW"), "is_training", "true"), "epsilon", 1000),
      Op("shape", "Shape", <<"x">>), Op("back", "Reshape", <<"bn", "shape">>),
      Op("mul", "Mul", <<"back", "gamma">>), Op("out", "AddV2", <<"mul", "beta">>)>>

(***************************************************************************)
(* Cascades: Select(gate, x * add + bias, x), some the other way round, in *)
(* a chain, whose biases are constants, a row of a matrix or a range of a  *)
(* vector.                                                                 *)
(***************************************************************************)
Pln(i, add, bias, from, on) ==
    LET s(name) == name \o ToString(i)
    IN  <<Op(s("mul"), "Mul", <<from, add>>), Op(s("map"), "AddV2", <<s("mul"), bias>>),
          [Feed(s("feed"), 20 + i, <<2, 1>>) EXCEPT !.T = "bool"],
          Op(s("gate"), "LogicalOr", <<s("feed"), s("feed")>>),
          Op(s("sel"), "Select", IF on THEN <<s("gate"), s("map"), from>> ELSE <<s("gate"), from, s("map")>>)>>
Vec(name, k) == FloatsOf(name, <<2>>, <<k * kOne, (k + 1) * kOne>>)
Pln1 == Scoped(<<"m", "pln1_0">>,
    <<Feed("x", 3, <<2, 2>>), Vec("a1", 2), Vec("b1", 4)>> \o Pln(1, "a1", "b1", "x", TRUE))
Pln3 == Scoped(<<"m", "pln1_0">>,
    <<Feed("x", 3, <<2, 2>>), Vec("a1", 2), Vec("b1", 4), Vec("a2", 6), FloatsOf("m2", <<2, 2>>, <<1, 2, 3, 4>>),
      IntsOf("begin", <<1>>), IntsOf("end", <<2>>), IntsOf("step", <<1>>),
      With(Op("b2", "StridedSlice", <<"m2", "begin", "end", "step">>), "shrink", "true"), Vec("b3", 8)>>
    \o Pln(1, "a1", "b1", "x", TRUE) \o Pln(2, "a2", "b2", "sel1", FALSE)
    \o Pln(3, "a1", "b3", "sel2", TRUE))
-----------------------------------------------------------------------------
Sample(g, fused) == [graph |-> g, fused |-> fused]

Samples ==
    {Sample(Clip, {"MusaClip"}), Sample(ClipShared, {"MusaClip"}),
     Sample(Gelu, {"MusaGelu"}), Sample(GeluErfc, {"MusaGelu"}), Sample(GeluTanh, {"MusaGelu"}),
     Sample(GeluShared, {"MusaGelu"}), Sample(PRelu, {"MusaPRelu"}), Sample(SigmoidCalibration, {}),
     Sample(ShiftedAffine, {"MusaShiftedAffineMap"}), Sample(Adam, {"MusaResourceApplyAdamMixed"}),
     Sample(ConcatMatMul, {"MusaConcatMatMul"}), Sample(ConcatShared, {"MusaConcatMatMul"}),
     Sample(BiasAdd, {"MusaMatMulBiasAdd"}), Sample(AddBias, {"MusaMatMulBiasAdd"}), Sample(AddResidual, {}),
     Sample(LinearActivation, {"MusaLinearActivation"}), Sample(LinearShared, {"MusaLinearActivation", "MusaMatMulBiasAdd"}),
     Sample(TwoLayers, {"MusaLinearActivation", "MusaMatMulBiasAdd"}),
     Sample(Projection, {"MusaBiasAddReluMatMul"}), Sample(ReshapeMatMul, {"MusaReshapeMatMul"}),
     Sample(TokenMixer, {"MusaTokenMixer"}), Sample(TensorDot, {"MusaTensorDot"}), Sample(TensorDotShared, {"MusaTensorDot"}),
     Sample(TensorDotBias, {"MusaTensorDotBias"}), Sample(Normalize, {"MusaNormalize"}), Sample(NormalizeShared, {"MusaNormalize"}),
     Sample(Normalize \o Affine, {"MusaLayerNorm"}), Sample(LayerNormV2, {"MusaLayerNorm"}),
     Sample(Pln1, {"MusaPlnCascade"}), Sample(Pln3, {"MusaPlnCascadeBlock"})}

Halves(g) == LET Pick(k) == SelectSeq([i \in DOMAIN g |-> <<i, g[i]>>], LAMBDA p : p[1] % 2 = k)
             IN  [i \in DOMAIN g |-> (Pick(0) \o Pick(1))[i][2]]
Orders(g) == {g, Reverse(g), Halves(g)}

MCCascades == {Pln3}
MCItems == UNION {Orders(s.graph) : s \in Samples}

\* The graphs are ones that the theorems on rewriting assume.
ASSUME ItemsServed == \A g \in MCItems : Serves(g, Fetched(g))

Default == [amp |-> FALSE, fusion |-> TRUE, disabled |-> {}]
MCConfigs == {Default, [Default EXCEPT !.amp = TRUE], [Default EXCEPT !.disabled = {"Clip", "TensorDot"}]}

MCDefault == {Default}

MCPlnTokens == {"pln1_0"}

MCExpected(g) == (CHOOSE s \in Samples : ToSet(s.graph) = ToSet(g)).fused
=============================================================================
