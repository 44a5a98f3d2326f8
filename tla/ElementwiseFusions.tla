------------------------- MODULE ElementwiseFusions -------------------------
(***************************************************************************)
(* The fusion patterns of elementwise operations in graph/fusion: clip,    *)
(* GELU, PReLU, sigmoid calibration, shifted affine maps and Adam with     *)
(* gradients of a shorter type.  A pattern Match...(g, n) looks for its    *)
(* operations in the graph g, starting at the node n; Apply...(g, m)       *)
(* rewrites g as the match m tells.                                        *)
(***************************************************************************)
EXTENDS GraphDefs

kHalf        == 500000
kOne         == 1000000
kTwo         == 2000000
kPow3        == 3000000
kSqrt2       == 1414214
kRsqrt2      == 707107
kApproxCoeff == 44715
kApproxScale == 797885

-----------------------------------------------------------------------------
(***************************************************************************)
(* Maximum(Minimum(x, hi), lo) becomes MusaClip(x, lo, hi).                *)
(***************************************************************************)
MatchClip(g, n) ==
    LET side  == IF Input(g, n, 1).op = "Minimum" THEN 1 ELSE 2
        inner == Input(g, n, side)
    IN  IF n.op = "Maximum" /\ IsBinary(n) /\ inner.op = "Minimum" /\ IsBinary(inner)
        THEN [matched |-> TRUE, output |-> n, inner |-> inner, x |-> inner.in[1],
              hi |-> inner.in[2], lo |-> n.in[3 - side]]
        ELSE NoMatch

\* Mutant of ApplyClip: the two limits trade places.
ApplyClipSwapped(g, m) ==
    LET name  == m.output.name
        fused == [Node(name, "MusaClip", <<m.x, m.hi, m.lo>>) EXCEPT !.T = m.output.T]
    IN  Ok(RemoveNodes(Append(Rename(g, name, Original(name)), fused),
                       {Original(name), m.inner.name}))

ApplyClip(g, m) ==
    LET name  == m.output.name
        fused == [Node(name, "MusaClip", <<m.x, m.lo, m.hi>>)
                  EXCEPT !.T = m.output.T, !.device = m.output.device]
        h     == Append(Rename(g, name, Original(name)), fused)
        users == {n.name : n \in Consumers(h, m.inner.name)} \ {Original(name)}
    IN  Ok(RemoveNodes(h, {Original(name)} \cup IF users = {} THEN {m.inner.name} ELSE {}))
-----------------------------------------------------------------------------
(***************************************************************************)
(* GELU.  0.5 * x * (1 + erf(x / sqrt(2))), or its variant with erfc, or   *)
(* the approximation with tanh, in any order of the operands, becomes      *)
(* MusaGelu(x).                                                            *)
(***************************************************************************)
MatchConstAndOther(g, n, v) ==
    IF IsMulOp(n) /\ IsBinary(n)
    THEN FirstOf(Operands(g, n), LAMBDA p : HasFloatValue(p[1], v) /\ p[2] # NoNode,
                 <<NoNode, NoNode>>)[2]
    ELSE NoNode

IsSqrt2Node(g, n) ==
    \/ HasFloatValue(n, kSqrt2)
    \/ n.op = "Sqrt" /\ Len(n.in) = 1 /\ HasFloatValue(Input(g, n, 1), kTwo)

MatchScaledInput(g, n) ==
    LET numerator == Input(g, n, 1)
    IN  IF /\ n.op \in {"RealDiv", "Div"} /\ IsBinary(n)
           /\ numerator # NoNode /\ numerator.op # "Const" /\ IsSqrt2Node(g, Input(g, n, 2))
        THEN numerator
        ELSE MatchConstAndOther(g, n, kRsqrt2)

(***************************************************************************)
(* The three factors.  What they return is the nodes they matched, none if *)
(* the factor is not the one of the input x.                               *)
(***************************************************************************)
MatchExactErfFactor(g, factor, x) ==
    LET IsErfOfX(p) == /\ HasFloatValue(p[1], kOne)
                       /\ p[2].op = "Erf" /\ Len(p[2].in) = 1
                       /\ MatchScaledInput(g, Input(g, p[2], 1)) = x
        erf == FirstOf(Operands(g, factor), IsErfOfX, <<NoNode, NoNode>>)[2]
    IN  IF IsAddOp(factor) /\ IsBinary(factor) /\ erf # NoNode
        THEN <<factor, erf, Input(g, erf, 1)>> ELSE <<>>

MatchExactErfcFactor(g, factor, x) ==
    LET scaled == Input(g, factor, 1)
        neg    == MatchScaledInput(g, scaled)
    IN  IF /\ factor.op = "Erfc" /\ Len(factor.in) = 1
           /\ neg.op = "Neg" /\ Len(neg.in) = 1 /\ Input(g, neg, 1) = x
        THEN <<factor, scaled, neg>> ELSE <<>>

MatchApproximateFactor(g, factor, x) ==
    LET Other(n, Test(_, _)) ==
            IF IsBinary(n)
            THEN FirstOf(Operands(g, n), LAMBDA p : Test(p[1], p[2]), <<NoNode, NoNode>>)[2]
            ELSE NoNode
        IsPow3(n) == n.op = "Pow" /\ IsBinary(n) /\ Input(g, n, 1) = x
                     /\ HasFloatValue(Input(g, n, 2), kPow3)
        tanh  == Other(factor, LAMBDA a, b : HasFloatValue(a, kOne) /\ b.op = "Tanh")
        scale == Input(g, tanh, 1)
        inner == Other(scale, LAMBDA a, b : HasFloatValue(a, kApproxScale) /\ IsAddOp(b))
        cubic == Other(inner, LAMBDA a, b : a = x /\ IsMulOp(b))
        pow   == Other(cubic, LAMBDA a, b : HasFloatValue(a, kApproxCoeff) /\ IsPow3(b))
    IN  IF IsAddOp(factor) /\ Len(tanh.in) = 1 /\ IsMulOp(scale) /\ pow # NoNode
        THEN <<pow, Input(g, pow, 2), factor, tanh, scale, inner, cubic>> ELSE <<>>

(***************************************************************************)
(* The ways to read a product as one half times the input times a factor:  *)
(* (0.5 * x) * factor, 0.5 * (x * factor) and x * (0.5 * factor).          *)
(***************************************************************************)
Decomposition(x, factor, nodes) == [x |-> x, factor |-> factor, nodes |-> nodes]

FromHalfScaledInput(g, n, p) ==
    <<Decomposition(MatchConstAndOther(g, p[1], kHalf), p[2], <<n, p[1]>>)>>

FromNestedHalfConst(g, n, p) ==
    IF HasFloatValue(p[1], kHalf) /\ IsMulOp(p[2]) /\ IsBinary(p[2])
    THEN Each(Operands(g, p[2]), LAMBDA q : Decomposition(q[1], q[2], <<n, p[2], p[1]>>))
    ELSE <<>>

FromInputAndHalfFactor(g, n, p) ==
    <<Decomposition(p[1], MatchConstAndOther(g, p[2], kHalf), <<n, p[2]>>)>>

OfOperands(g, n, From(_, _, _)) == FlattenSeq(Each(Operands(g, n), LAMBDA p : From(g, n, p)))

Decompositions(g, n) ==
    OfOperands(g, n, FromHalfScaledInput) \o OfOperands(g, n, FromNestedHalfConst)
                                          \o OfOperands(g, n, FromInputAndHalfFactor)

GeluOf(n, d, nodes, approximate) ==
    IF nodes = <<>> THEN NoMatch
    ELSE [matched |-> TRUE, output |-> n, input |-> d.x, approximate |-> approximate,
          nodes |-> d.nodes \o nodes]

MatchByFactor(g, n, approximate, Factor(_, _, _)) ==
    LET Read(d) == IF d.x = NoNode \/ d.x.op = "Const" \/ d.factor = NoNode THEN NoMatch
                   ELSE GeluOf(n, d, Factor(g, d.factor, d.x), approximate)
    IN  IF IsMulOp(n) /\ IsBinary(n) THEN FirstMatch(Each(Decompositions(g, n), Read))
        ELSE NoMatch

MatchGelu(g, n) ==
    IF HasOriginalSuffix(n.name) THEN NoMatch
    ELSE FirstMatch(<<MatchByFactor(g, n, "false", MatchExactErfFactor),
                      MatchByFactor(g, n, "false", MatchExactErfcFactor),
                      MatchByFactor(g, n, "true", MatchApproximateFactor)>>)

ApplyGelu(g, m) ==
    LET name  == m.output.name
        fused == [Node(name, "MusaGelu", <<Edge(m.input.name)>>)
                  EXCEPT !.T = m.output.T, !.device = m.output.device,
                         !.attr = <<<<"approximate", m.approximate>>>>]
        obsolete == [i \in DOMAIN m.nodes |-> IF m.nodes[i] = m.output THEN Original(name)
                                                                  ELSE m.nodes[i].name]
    IN  Ok(Replace(g, name, fused, obsolete, {m.input.name, name}))
-----------------------------------------------------------------------------
(***************************************************************************)
(* Relu(x) + c * Relu(-x) becomes MusaPRelu(x, c).  The nodes in between   *)
(* must have no other consumers.                                           *)
(***************************************************************************)
MatchPRelu(g, n) ==
    LET relu1  == Input(g, n, 1)
        mul    == Input(g, n, 2)
        select == Input(g, relu1, 1)
        alpha  == Input(g, mul, 1)
        relu2  == Input(g, mul, 2)
        neg2   == Input(g, relu2, 1)
    IN  IF /\ IsAddOp(n) /\ ~HasOriginalSuffix(n.name)
           /\ relu1.op = "Relu" /\ mul.op = "Mul" /\ alpha.op = "Const" /\ relu2.op = "Relu"
           /\ neg2.op = "Neg" /\ select # NoNode /\ Input(g, neg2, 1) = select
           /\ \A k \in {relu1, neg2, relu2, alpha, mul} : CountConsumers(g, k.name) = 1
           /\ select.T = n.T
        THEN [matched |-> TRUE, output |-> n, input |-> select, alpha |-> alpha,
              nodes |-> {relu1, neg2, relu2, mul}]
        ELSE NoMatch

(***************************************************************************)
(* The constant is kept: its consumers are counted while the product and   *)
(* the fused node both consume it.                                         *)
(***************************************************************************)
ApplyPRelu(g, m) ==
    LET name  == m.output.name
        fused == [Node(name, "MusaPRelu", <<Edge(m.input.name), Edge(m.alpha.name)>>)
                  EXCEPT !.T = m.output.T, !.device = m.output.device]
        h     == Append(Rename(g, name, Original(name)), fused)
        alpha == IF CountConsumers(h, m.alpha.name) <= 1 THEN {m.alpha.name} ELSE {}
    IN  Ok(RemoveNodes(h, {Original(name)} \cup {k.name : k \in m.nodes} \cup alpha))
-----------------------------------------------------------------------------
(***************************************************************************)
(* s / (s + c * (1 - s)) with s = Sigmoid(x).  There is no kernel for this *)
(* pattern: a match changes nothing.                                       *)
(***************************************************************************)
MatchSigmoidCalibration(g, n) ==
    LET sigmoid == Input(g, n, 1)
        add     == Input(g, n, 2)
        mul     == IF Input(g, add, 1) = sigmoid THEN Input(g, add, 2) ELSE Input(g, add, 1)
        other   == IF Input(g, add, 1) = sigmoid THEN sigmoid ELSE Input(g, add, 2)
        swapped == Input(g, mul, 1).op = "Const"
        sub     == Input(g, mul, IF swapped THEN 2 ELSE 1)
        scale   == Input(g, mul, IF swapped THEN 1 ELSE 2)
    IN  IF /\ n.op = "RealDiv" /\ sigmoid.op = "Sigmoid" /\ IsAddOp(add)
           /\ other = sigmoid /\ mul.op = "Mul" /\ sub.op = "Sub" /\ scale.op = "Const"
           /\ Input(g, sub, 2) = sigmoid /\ HasFloatValue(Input(g, sub, 1), kOne)
        THEN [matched |-> TRUE, output |-> n]
        ELSE NoMatch

ApplySigmoidCalibration(g, m) == Ok(g)
-----------------------------------------------------------------------------
(***************************************************************************)
(* mask * left + right, for constants left and right, perhaps behind       *)
(* identities, becomes MusaShiftedAffineMap(left, mask, right).            *)
(***************************************************************************)
IsMaskOp(n) == n.op \in {"Select", "SelectV2", "Where", "Identity"}

MatchShiftedAffineMap(g, n) ==
    LET right == IF Input(g, n, 1).op = "Mul" /\ IsConstLike(g, Input(g, n, 2)) THEN 2
                 ELSE IF Input(g, n, 2).op = "Mul" /\ IsConstLike(g, Input(g, n, 1)) THEN 1
                 ELSE 0
        mul   == Input(g, n, 3 - right)
        left  == IF IsConstLike(g, Input(g, mul, 1)) /\ IsMaskOp(Input(g, mul, 2)) THEN 1
                 ELSE IF IsConstLike(g, Input(g, mul, 2)) /\ IsMaskOp(Input(g, mul, 1)) THEN 2
                 ELSE 0
    IN  IF n.op = "AddV2" /\ IsBinary(n) /\ right # 0 /\ IsBinary(mul) /\ left # 0
        THEN [matched |-> TRUE, output |-> n, mul |-> mul, left |-> mul.in[left],
              mask |-> mul.in[3 - left], right |-> n.in[right]]
        ELSE NoMatch

ApplyShiftedAffineMap(g, m) ==
    LET name  == m.output.name
        fused == [Node(name, "MusaShiftedAffineMap", <<m.left, m.mask, m.right>>)
                  EXCEPT !.T = m.output.T, !.device = m.output.device]
        h     == RemoveNode(g, FindNodeIndex(g, name))
    IN  Ok(Append(RemoveNodesIfUnused(h, <<m.mul.name>>, {}), fused))
-----------------------------------------------------------------------------
(***************************************************************************)
(* The gradient of ResourceApplyAdam, its tenth input, is cast to float    *)
(* from a shorter type: MusaResourceApplyAdamMixed takes it as it is.  The *)
(* node is rewritten in place.                                             *)
(***************************************************************************)
MatchAdamMixed(g, n) ==
    LET cast == Input(g, n, 10)
    IN  IF /\ n.op = "ResourceApplyAdam" /\ n.device = "MUSA" /\ n.T = "float"
           /\ cast.op = "Cast" /\ cast.in # <<>> /\ Attr(cast, "DstT", "") = "float"
           /\ Attr(cast, "SrcT", "") \in {"half", "bfloat16"}
        THEN [matched |-> TRUE, output |-> n, cast |-> cast]
        ELSE NoMatch

ApplyAdamMixed(g, m) ==
    LET name  == m.output.name
        fused == [m.output EXCEPT !.op = "MusaResourceApplyAdamMixed",
                                  !.T = Attr(m.cast, "SrcT", ""), !.in[10] = m.cast.in[1]]
    IN  Ok(RemoveNodesIfUnused([g EXCEPT ![FindNodeIndex(g, name)] = fused],
                               <<m.cast.name>>, {name, m.cast.in[1].src}))
=============================================================================
