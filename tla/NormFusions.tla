----------------------------- MODULE NormFusions -----------------------------
(***************************************************************************)
(* The normalizations of graph/fusion: normalize_fusion.cc,                *)
(* layernorm_fusion.cc and fuselayernormv2_fusion.cc.                      *)
(***************************************************************************)
EXTENDS GraphDefs

MaxFloat == 2147483647     \* std::numeric_limits<float>::max()

(***************************************************************************)
(* (x - mean(x)) / clip(sqrt(mean((x - mean(x))^2))), all in one scope,    *)
(* becomes MusaNormalize.  The axes of the means are not looked at: the    *)
(* kernel takes the last dimension.                                        *)
(***************************************************************************)
IsMean(g, k, scope) ==      \* a mean whose dimension is put back
    /\ IsPart(k, "ExpandDims", scope) /\ IsBinary(k)
    /\ IsPart(Input(g, k, 1), "Mean", scope) /\ IsBinary(Input(g, k, 1))

DividesByRoot(g, n, scope) ==
    LET clip == Input(g, n, 2)
        sqrt == Input(g, clip, 1)
    IN  /\ n.op = "RealDiv" /\ scope # <<>> /\ IsBinary(n)
        /\ IsPart(Input(g, n, 1), "Sub", scope)
        /\ IsPart(clip, "MusaClip", scope) /\ Len(clip.in) >= 3
        /\ IsPart(sqrt, "Sqrt", scope) /\ Len(sqrt.in) = 1

IsMeanSquare(g, expand, sub, scope) ==
    LET square == Input(g, Input(g, expand, 1), 1)
    IN  /\ IsMean(g, expand, scope)
        /\ IsPart(square, "Square", scope) /\ Len(square.in) = 1 /\ Input(g, square, 1) = sub

SubtractsMean(g, sub, scope) ==
    LET x      == Input(g, sub, 1)
        expand == Input(g, sub, 2)
    IN  /\ IsBinary(sub) /\ x # NoNode /\ IsMean(g, expand, scope)
        /\ Input(g, Input(g, expand, 1), 1) = x

ClipLimit(g, clip, i, default) ==
    LET limit == Resolved(g, clip, i) IN IF IsScalar(limit) THEN limit.val[1] ELSE default

MatchNormalize(g, n) ==
    LET scope   == ScopeOf(n.name)
        sub     == Input(g, n, 1)
        clip    == Input(g, n, 2)
        sqrt    == Input(g, clip, 1)
        expand2 == Input(g, sqrt, 1)
        mean2   == Input(g, expand2, 1)
        expand1 == Input(g, sub, 2)
        epsilon == ClipLimit(g, clip, 2, 1)
    IN  IF /\ DividesByRoot(g, n, scope)
           /\ IsMeanSquare(g, expand2, sub, scope)
           /\ SubtractsMean(g, sub, scope)
        THEN [matched |-> TRUE, output |-> n, x |-> Input(g, sub, 1).name,
              epsilon |-> IF epsilon <= 0 THEN 1 ELSE epsilon,
              max_std |-> ClipLimit(g, clip, 3, MaxFloat),
              nodes |-> {n, sub, clip, sqrt, expand2, mean2, Input(g, mean2, 1), expand1,
                         Input(g, expand1, 1)}]
        ELSE NoMatch

(***************************************************************************)
(* The kernel wants parameters: gamma = 1 and beta = 0.                    *)
(***************************************************************************)
NormalizeParameters(m) ==
    LET Parameter(p, v) == [Node(Append(m.output.name, p), "Const", <<>>)
                            EXCEPT !.val = <<v>>, !.shape = <<>>, !.T = m.output.T]
    IN  <<Parameter("gamma", 1000000), Parameter("beta", 0)>>

FusedNormalize(m) ==
    LET Of(parameter) == Edge(Append(m.output.name, parameter))
    IN  [Node(m.output.name, "MusaNormalize", <<Edge(m.x), Of("gamma"), Of("beta")>>)
         EXCEPT !.T = m.output.T, !.device = m.output.device,
                !.attr = <<<<"epsilon", m.epsilon>>, <<"max_std", m.max_std>>>>]

ApplyNormalize(g, m) ==
    Ok(RemoveFused(g, {k.name : k \in m.nodes} \ {m.x}, m.output.name)
           \o Append(NormalizeParameters(m), FusedNormalize(m)))
-----------------------------------------------------------------------------
(***************************************************************************)
(* MusaNormalize(x) * gamma + beta, with constant parameters that may be   *)
(* expanded, becomes MusaLayerNorm, unless something else uses a part.     *)
(***************************************************************************)
IsExpandedConst(g, n) ==
    LET k == ResolveIdentityLike(g, n)
    IN  k.op = "Const" \/ (k.op = "ExpandDims" /\ IsConstLike(g, Input(g, k, 1)))

(***************************************************************************)
(* The operand of n that is an op of the scope: the other one must be a    *)
(* parameter.  0, if it is not so.                                         *)
(***************************************************************************)
SideWithParameter(g, n, op, scope) ==
    LET side == SelectInSeq(<<1, 2>>, LAMBDA i : IsPart(Input(g, n, i), op, scope))
    IN  IF IsBinary(n) /\ side # 0 /\ IsExpandedConst(g, Input(g, n, 3 - side)) THEN side ELSE 0

MatchShifted(g, n, side, mul, slot, norm) ==
    LET parts == {n.name, mul.name, norm.name}
    IN  IF slot # 0 /\ Input(g, norm, 1) # NoNode /\ SharedNodes(g, parts, n.name) = {}
        THEN [matched |-> TRUE, output |-> n, parts |-> parts, x |-> norm.in[1].src,
              gamma |-> mul.in[3 - slot].src, beta |-> n.in[3 - side].src,
              epsilon |-> Attr(norm, "epsilon", 10)]
        ELSE NoMatch

MatchSum(g, n, side, mul, slot) ==
    IF side # 0 THEN MatchShifted(g, n, side, mul, slot, Input(g, mul, slot)) ELSE NoMatch

MatchLayerNorm(g, n) ==
    LET scope == ScopeOf(n.name)
        side  == SideWithParameter(g, n, "Mul", scope)
        mul   == Input(g, n, side)
    IN  IF n.op = "AddV2" /\ scope # <<>>
        THEN MatchSum(g, n, side, mul, SideWithParameter(g, mul, "MusaNormalize", scope))
        ELSE NoMatch

ApplyLayerNorm(g, m) ==
    LET name   == m.output.name
        inputs == <<m.x, m.gamma, m.beta>>
        fused  == [Node(name, "MusaLayerNorm", [i \in 1..3 |-> Edge(inputs[i])])
                   EXCEPT !.T = m.output.T, !.device = m.output.device,
                          !.attr = <<<<"epsilon", m.epsilon>>>>]
    IN  Ok(Append(RemoveFused(g, m.parts \ ToSet(inputs), name), fused))
-----------------------------------------------------------------------------
(***************************************************************************)
(* What Keras builds for a layer normalization: the input is reshaped to   *)
(* [1, batch, features, 1], normalized by FusedBatchNormV3 with the batch  *)
(* as its channels, and reshaped back.                                     *)
(***************************************************************************)
HasIntValue(n, v) == n.T \in {"int32", "int64"} /\ IsScalar(n) /\ n.val[1] = v

IsParameterLike(g, n) ==
    ResolveIdentityLike(g, n).op \in {"Const", "VariableV2", "VarHandleOp", "ReadVariableOp",
                                      "Placeholder"}

(***************************************************************************)
(* Two nodes that compute the same dimensions, up to identities, a pack of *)
(* one element, an expansion at axis 0, or a pack of the same elements.    *)
(***************************************************************************)
UnpackSingleElementPack(g, n) ==
    LET k == ResolveIdentityLike(g, n)
    IN  IF k.op = "Pack" /\ Len(k.in) = 1 THEN Resolved(g, k, 1) ELSE k

UnwrapExpandDimsAxisZero(g, n) ==
    LET k == ResolveIdentityLike(g, n)
    IN  IF k.op = "ExpandDims" /\ IsBinary(k) /\ HasIntValue(Resolved(g, k, 2), 0)
        THEN Resolved(g, k, 1) ELSE k

SameNode(k, l) == k # NoNode /\ k = l

AreEquivalent(g, p, q) ==
    LET Unpacked(n)   == UnpackSingleElementPack(g, n)
        Normalized(n) == UnwrapExpandDimsAxisZero(g, UnpackSingleElementPack(g, n))
    IN  /\ NoNode \notin {p, q}
        /\ \/ p = q
           \/ SameNode(Unpacked(p), Unpacked(q))
           \/ SameNode(Normalized(p), Normalized(q))
           \/ /\ p.op = "Pack" /\ q.op = "Pack" /\ Len(p.in) = Len(q.in)
              /\ \A i \in DOMAIN p.in : Resolved(g, p, i).name = Resolved(g, q, i).name

AreEquivalentDimsNode(g, a, b) ==
    AreEquivalent(g, ResolveIdentityLike(g, a), ResolveIdentityLike(g, b))

MatchReshapeInputShape(g, dims, batch) ==
    /\ dims.op = "Pack" /\ Len(dims.in) = 4
    /\ HasIntValue(Resolved(g, dims, 1), 1) /\ HasIntValue(Resolved(g, dims, 4), 1)
    /\ AreEquivalentDimsNode(g, Resolved(g, dims, 2), batch)

MatchFillWithValue(g, fill, v) ==
    /\ fill.op = "Fill" /\ IsBinary(fill)
    /\ IsScalar(Resolved(g, fill, 2)) /\ Resolved(g, fill, 2).val[1] = v

ResolvedSide(g, k, op) ==
    FirstOf(<<1, 2>>, LAMBDA i : Resolved(g, k, i).op = op, 0)

IsBatchNorm(bn) ==
    /\ bn.op = "FusedBatchNormV3" /\ Len(bn.in) >= 3
    /\ Attr(bn, "data_format", "") = "NCHW" /\ Attr(bn, "is_training", "") = "true"

ReshapesAsItWas(g, there, shape) ==
    /\ shape.op = "Shape" /\ Len(shape.in) = 1
    /\ there.op = "Reshape" /\ IsBinary(there)
    /\ SameNode(Resolved(g, there, 1), Resolved(g, shape, 1))

ScalesByBatch(g, there, scale, offset, batch) ==
    /\ MatchFillWithValue(g, scale, 1000000) /\ MatchFillWithValue(g, offset, 0)
    /\ AreEquivalentDimsNode(g, batch, Resolved(g, offset, 1))
    /\ MatchReshapeInputShape(g, Resolved(g, there, 2), batch)

NormParts(g, there, shape, scale, offset) ==
    IF /\ ReshapesAsItWas(g, there, shape)
       /\ ScalesByBatch(g, there, scale, offset, Resolved(g, scale, 1))
    THEN <<there, shape, scale, offset, Resolved(g, scale, 1), Resolved(g, offset, 1),
           Resolved(g, there, 2)>>
    ELSE <<>>

MatchBatchNorm(n, side, mul, slot, back, bn, parts) ==
    IF IsBatchNorm(bn) /\ parts # <<>>
    THEN [matched |-> TRUE, output |-> n, x |-> parts[1].in[1], gamma |-> mul.in[3 - slot],
          beta |-> n.in[3 - side], epsilon |-> Attr(bn, "epsilon", 1000),
          nodes |-> <<mul, back, bn>> \o parts]
    ELSE NoMatch

MatchReshaped(g, n, side, mul, slot, back, bn) ==
    IF /\ IsParameterLike(g, Input(g, n, 3 - side)) /\ IsBinary(mul)
       /\ slot # 0 /\ IsParameterLike(g, Input(g, mul, 3 - slot)) /\ IsBinary(back)
    THEN MatchBatchNorm(n, side, mul, slot, back, bn,
                        NormParts(g, Resolved(g, bn, 1), Resolved(g, back, 2),
                                  Resolved(g, bn, 2), Resolved(g, bn, 3)))
    ELSE NoMatch

MatchScaled(g, n, side, mul, slot) ==
    LET back == Resolved(g, mul, slot)
    IN  MatchReshaped(g, n, side, mul, slot, back, Resolved(g, back, 1))

MatchFuseLayerNormV2(g, n) ==
    LET side == ResolvedSide(g, n, "Mul")
        mul  == Resolved(g, n, side)
    IN  IF IsAddOp(n) /\ ~HasOriginalSuffix(n.name) /\ IsBinary(n) /\ side # 0
        THEN MatchScaled(g, n, side, mul, ResolvedSide(g, mul, "Reshape"))
        ELSE NoMatch

ApplyFuseLayerNormV2(g, m) ==
    LET name  == m.output.name
        in    == <<m.x, m.gamma, m.beta>>
        fused == [Node(name, "MusaLayerNorm", in)
                  EXCEPT !.T = m.output.T, !.device = m.output.device,
                         !.attr = <<<<"epsilon", m.epsilon>>>>]
    IN  Ok(Replace(g, name, fused, <<Original(name)>> \o NameIn(m.nodes),
                   {e.src : e \in ToSet(in)} \cup {name}))
=============================================================================
