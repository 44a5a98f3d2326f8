---------------------------- MODULE MixedPrecision ----------------------------
(***************************************************************************)
(* OptimizeAMP of mu/optimizer/musa_graph_optimizer.cc: some operations    *)
(* are made to compute with a shorter type, between casts of their inputs  *)
(* and of their output.                                                    *)
(***************************************************************************)
EXTENDS GraphDefs

kLower == "half"    \* the type of MUSA_AMP_MODE

fp16_compute_ops == {"MatMul", "BatchMatMul", "BatchMatMulV2", "Conv2D", "FusedBatchNormV3"}
activation_ops   == {"Relu", "Sigmoid", "Tanh"}
conditional_ops  == {"Add", "AddV2", "Sub", "Mul", "Div", "BiasAdd"}

InputOf(name, j) == name \o <<"Input_" \o ToString(j - 1), "CastF2Lower">>
OutputOf(name)   == name \o <<"Output", "CastLower2F">>
IsInputCast(name) == Last(name) = "CastF2Lower"

InsertCast(name, e, src, dst) ==
    [Node(name, "Cast", <<e>>) EXCEPT !.T = dst, !.attr = <<<<"SrcT", src>>, <<"DstT", dst>>>>]

(***************************************************************************)
(* An activation follows its first input, a conditional operation any of   *)
(* its inputs; what they follow is the operation as it is written, and not *)
(* whether that one is converted.                                          *)
(***************************************************************************)
ShouldConvert(g, n) ==
    LET Low(e) == ~e.ctl /\ FindProducer(g, e).op \in fp16_compute_ops
    IN  \/ n.op \in fp16_compute_ops
        \/ n.op \in activation_ops /\ n.in # <<>> /\ FindProducer(g, n.in[1]).op \in fp16_compute_ops
        \/ n.op \in conditional_ops /\ \E e \in ToSet(n.in) : Low(e)

\* Mutant of ConvertNodeToLowPrecision: the output is not cast back.
ConvertInputsOnly(g, i) ==
    LET name == g[i].name
        casts == [j \in DOMAIN g[i].in |-> InsertCast(InputOf(name, j), g[i].in[j], "float", kLower)]
    IN  [g EXCEPT ![i] = [@ EXCEPT !.T = kLower,
                                   !.in = [j \in DOMAIN @ |-> Edge(InputOf(name, j))]]] \o casts

(***************************************************************************)
(* Every input that is neither a control edge nor such a cast already is   *)
(* cast; the consumers, data and control, take the cast of the output.     *)
(***************************************************************************)
ConvertNodeToLowPrecision(g, i) ==
    LET n        == g[i]
        Keeps(e) == e.ctl \/ IsInputCast(e.src)
        in       == [j \in DOMAIN n.in |-> IF Keeps(n.in[j]) THEN n.in[j]
                                                             ELSE Edge(InputOf(n.name, j))]
        casts    == [j \in DOMAIN n.in |-> InsertCast(InputOf(n.name, j), n.in[j], "float", kLower)]
        new      == SelectSeq(casts, LAMBDA c : ~Keeps(c.in[1]))
        h        == [g EXCEPT ![i] = [n EXCEPT !.T = kLower, !.in = in]] \o new
        out      == InsertCast(OutputOf(n.name), Edge(n.name), kLower, "float")
        Redirect(e) == IF e.src = n.name THEN [e EXCEPT !.src = out.name] ELSE e
    IN  [k \in DOMAIN h |-> [h[k] EXCEPT !.in = [j \in DOMAIN @ |-> Redirect(@[j])]]] \o <<out>>

(***************************************************************************)
(* Which nodes are converted is decided beforehand.                        *)
(***************************************************************************)
OptimizeAMP(g) ==
    LET Convert(h, i) ==
            IF g[i].device = "MUSA" /\ ShouldConvert(g, g[i]) /\ h[i].T = "float"
            THEN ConvertNodeToLowPrecision(h, i) ELSE h
    IN  FoldLeftDomain(Convert, g, g)

(***************************************************************************)
(* The types of a node's outputs and inputs, by port.  T is that of all of *)
(* them, but for a cast, and but for a batch normalization, whose scale,   *)
(* offset and statistics are of type U, which is float whatever T is.      *)
(***************************************************************************)
HasTypeU(n, port) == n.op = "FusedBatchNormV3" /\ port # 0

OutputType(n, port) == IF HasTypeU(n, port) THEN "float" ELSE Attr(n, "DstT", n.T)
InputType(n, port)  == IF HasTypeU(n, port) THEN "float" ELSE Attr(n, "SrcT", n.T)
=============================================================================
