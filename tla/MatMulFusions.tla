---------------------------- MODULE MatMulFusions ----------------------------
(***************************************************************************)
(* The fusion patterns around matrix products in graph/fusion.             *)
(***************************************************************************)
EXTENDS GraphDefs

(***************************************************************************)
(* The attributes of a product that its fused form keeps.                  *)
(***************************************************************************)
Transposes(n) == <<<<"transpose_a", Attr(n, "transpose_a", "false")>>,
                   <<"transpose_b", Attr(n, "transpose_b", "false")>>>>

(***************************************************************************)
(* MatMul with a ConcatV2 as one of its operands.  ConcatV2 has its axis   *)
(* as its last input.                                                      *)
(***************************************************************************)
MatchConcatMatMul(g, n) ==
    LET side == IF Input(g, n, 1).op = "ConcatV2" THEN 1 ELSE 2
    IN  IF /\ n.op = "MatMul" /\ ~HasOriginalSuffix(n.name)
           /\ Input(g, n, side).op = "ConcatV2"
        THEN [matched |-> TRUE, output |-> n, side |-> side, concat |-> Input(g, n, side)]
        ELSE NoMatch

ApplyConcatMatMul(g, m) ==
    LET name  == m.output.name
        fused == [Node(name, "MusaConcatMatMul", Append(m.concat.in, m.output.in[3 - m.side]))
                  EXCEPT !.T = m.output.T, !.device = m.output.device,
                         !.attr = Transposes(m.output) \o
                                  <<<<"concat_input_idx", ToString(m.side - 1)>>>>]
    IN  Ok(Replace(g, name, fused, <<Original(name), m.concat.name>>, {name}))
-----------------------------------------------------------------------------
IsBiasAddLikeOp(n) == n.op \in {"BiasAdd", "Add", "AddV2"}

(***************************************************************************)
(* The operand of an addition that is a product, the first one if both     *)
(* are, and 0 if none is.                                                  *)
(***************************************************************************)
MatMulSide(g, n, IsProduct(_)) ==
    IF IsProduct(Input(g, n, 1)) THEN 1 ELSE IF IsProduct(Input(g, n, 2)) THEN 2 ELSE 0

(***************************************************************************)
(* The names that a set of edges protects from removal: an edge with a     *)
(* port is not a name.                                                     *)
(***************************************************************************)
Protects(edges) == {e.src : e \in {f \in edges : f.port = "" /\ ~f.ctl}}

(***************************************************************************)
(* Relu(MatMul(a, b) + bias).                                              *)
(***************************************************************************)
MatchLinearActivation(g, n) ==
    LET add    == Input(g, n, 1)
        side   == MatMulSide(g, add, LAMBDA k : k.op = "MatMul")
        matmul == Input(g, add, side)
        bias   == Input(g, add, 3 - side)
    IN  IF /\ n.op = "Relu" /\ ~HasOriginalSuffix(n.name)
           /\ IsBiasAddLikeOp(add) /\ Len(add.in) >= 2
           /\ side # 0 /\ bias # NoNode
        THEN [matched |-> TRUE, output |-> n, bias_add |-> add, matmul |-> matmul, bias |-> bias]
        ELSE NoMatch

(***************************************************************************)
(* The bias is the second operand if the first one is, as a string, the    *)
(* name of the product; a product with a port is taken for the bias.       *)
(***************************************************************************)
ApplyLinearActivation(g, m) ==
    LET name  == m.output.name
        bias  == IF m.bias_add.in[1] = Edge(m.matmul.name) THEN 2 ELSE 1
        a     == m.matmul.in[1]
        b     == m.matmul.in[2]
        fused == [Node(name, "MusaLinearActivation", <<a, b, m.bias_add.in[bias]>>)
                  EXCEPT !.T = m.matmul.T, !.device = m.output.device,
                         !.attr = Transposes(m.matmul)]
    IN  Ok(Replace(g, name, fused, <<Original(name), m.bias_add.name, m.matmul.name>>,
                   Protects({a, b}) \cup {m.bias.name, name}))
-----------------------------------------------------------------------------
(***************************************************************************)
(* MatMul(a, b) + bias.  An addition that is not BiasAdd is one if the     *)
(* shape of the other operand is known, and is [n] or [1, n].              *)
(***************************************************************************)
IsStaticBiasLikeAddInput(n) ==
    /\ \A i \in DOMAIN n.shape : n.shape[i] > 0
    /\ (Len(n.shape) = 1 \/ (Len(n.shape) = 2 /\ n.shape[1] = 1))

\* Mutant of MatchMatMulBiasAdd: any operand of an addition will do.
MatchMatMulAnyAdd(g, n) ==
    LET side == MatMulSide(g, n, LAMBDA k : k.op = "MatMul" /\ IsBinary(k))
        bias == Input(g, n, 3 - side)
    IN  IF /\ IsBiasAddLikeOp(n) /\ IsBinary(n) /\ ~HasOriginalSuffix(n.name)
           /\ side # 0 /\ bias # NoNode
        THEN [matched |-> TRUE, output |-> n, matmul |-> Input(g, n, side), bias |-> bias]
        ELSE NoMatch

MatchMatMulBiasAdd(g, n) ==
    LET side == MatMulSide(g, n, LAMBDA k : k.op = "MatMul" /\ IsBinary(k))
        bias == Input(g, n, 3 - side)
    IN  IF /\ IsBiasAddLikeOp(n) /\ IsBinary(n) /\ ~HasOriginalSuffix(n.name)
           /\ side # 0 /\ bias # NoNode
           /\ (n.op = "BiasAdd" \/ IsStaticBiasLikeAddInput(bias))
        THEN [matched |-> TRUE, output |-> n, matmul |-> Input(g, n, side), bias |-> bias]
        ELSE NoMatch

(***************************************************************************)
(* If both operands are the product, Apply fails, after it has renamed the *)
(* addition and put an unfinished node in its place.                       *)
(***************************************************************************)
ApplyMatMulBiasAdd(g, m) ==
    LET name  == m.output.name
        a     == m.matmul.in[1]
        b     == m.matmul.in[2]
        other == {i \in 1..2 : m.output.in[i].src # m.matmul.name}
        draft == [Node(name, "MusaMatMulBiasAdd", <<a, b>>)
                  EXCEPT !.T = m.matmul.T, !.device = m.output.device]
        fused == [draft EXCEPT !.in = Append(@, m.output.in[CHOOSE i \in other : TRUE]),
                               !.attr = Transposes(m.matmul)]
    IN  IF Cardinality(other) # 1
        THEN Failed(Append(Rename(g, name, Original(name)), draft))
        ELSE Ok(Replace(g, name, fused, <<Original(name), m.matmul.name>>,
                        Protects({a, b}) \cup {m.bias.name, name}))
-----------------------------------------------------------------------------
(***************************************************************************)
(* MatMul with an operand Relu(a + b) that nothing else uses, in either    *)
(* position (both, if the product is a square).  The second operand of the *)
(* addition is taken for the bias.                                         *)
(***************************************************************************)
MatchBiasAddReluMatMul(g, n) ==
    LET side == MatMulSide(g, n, LAMBDA k : k.op = "Relu")
        relu == Input(g, n, side)
        add  == Input(g, relu, 1)
    IN  IF /\ n.op = "MatMul" /\ ~HasOriginalSuffix(n.name) /\ Len(n.in) >= 2 /\ side # 0
           /\ IsBiasAddLikeOp(add)
           /\ \A k \in Consumers(g, relu.name) : k.name = n.name
           /\ \A k \in Consumers(g, add.name) : k.name \in {n.name, relu.name}
        THEN [matched |-> TRUE, output |-> n, side |-> side, relu |-> relu, bias_add |-> add]
        ELSE NoMatch

ApplyBiasAddReluMatMul(g, m) ==
    LET name  == m.output.name
        in    == <<m.bias_add.in[1], m.bias_add.in[2], m.output.in[3 - m.side]>>
        fused == [Node(name, "MusaBiasAddReluMatMul", in)
                  EXCEPT !.T = m.output.T, !.device = m.output.device,
                         !.attr = Append(Transposes(m.output),
                                         <<"relu_input_slot", ToString(m.side - 1)>>)]
    IN  Ok(Replace(g, name, fused, <<Original(name), m.relu.name, m.bias_add.name>>,
                   Protects(ToSet(in)) \cup {name}))
-----------------------------------------------------------------------------
(***************************************************************************)
(* A matrix product over the last dimension of a tensor: the tensor is     *)
(* reshaped to [-1, k], multiplied by a constant [k, n], and reshaped back *)
(* to its own dimensions but the last, which the shape of the result packs.*)
(***************************************************************************)
IsScalarInt(n) == n.op = "Const" /\ Len(n.val) = 1

MatchRestoreShapePack(g, source, pack, last_dim) ==
    LET shape == IF source.port \in {"", ":0"} THEN FindProducer(g, source).shape ELSE Unknown
        last  == ResolveIdentityLike(g, Input(g, pack, Len(pack.in)))
        Shape(unpack) == Input(g, unpack, 1)
        IsDimension(e, i) ==    \* the i-th output of an Unpack of the shape of source
            LET unpack == FindProducer(g, e)
            IN  /\ unpack.op = "Unpack" /\ Len(unpack.in) = 1 /\ PortNumber(e) = i - 1
                /\ Attr(unpack, "num", 0) > i - 1
                /\ Shape(unpack).op = "Shape" /\ Len(Shape(unpack).in) = 1
                /\ SameOutput(Shape(unpack).in[1], source)
        IsKnownDimension(k, i) ==
            /\ IsScalarInt(k)
            /\ IF shape # Unknown /\ i <= Len(shape) /\ shape[i] >= 0
               THEN shape[i] = k.val[1]
               ELSE /\ Len(pack.in) = 3 /\ i = 2 /\ Input(g, pack, 1).op = "Unpack"
                    /\ Attr(Input(g, pack, 1), "num", 0) = 3
    IN  /\ pack.op = "Pack" /\ Len(pack.in) >= 2 /\ FindProducer(g, source) # NoNode
        /\ IsScalarInt(last) /\ last.val[1] = last_dim
        /\ \A i \in 1..Len(pack.in) - 1 :
              IsDimension(pack.in[i], i) \/ IsKnownDimension(Input(g, pack, i), i)

(***************************************************************************)
(* The nodes that compute the shape, which the fused node makes needless.  *)
(***************************************************************************)
ShapeNodes(g, pack) ==
    LET inputs == {Input(g, pack, i) : i \in 1..Len(pack.in) - 1}
    IN  {k.name : k \in inputs} \cup {k.in[1].src : k \in {u \in inputs : u.op = "Unpack"}}
        \cup {ResolveIdentityLike(g, Input(g, pack, Len(pack.in))).name}

MatchReshapeMatMul(g, n) ==
    LET matmul  == Input(g, n, 1)
        pack    == Input(g, n, 2)
        reshape == Input(g, matmul, 1)
        weight  == ResolveIdentityLike(g, Input(g, matmul, 2))
        flat    == ResolveIdentityLike(g, Input(g, reshape, 2))
        swap    == Attr(matmul, "transpose_b", "false") = "true"
        dims    == IF swap THEN Reverse(weight.shape) ELSE weight.shape
    IN  IF /\ n.op = "Reshape" /\ ~HasOriginalSuffix(n.name) /\ IsBinary(n)
           /\ matmul.op = "MatMul" /\ IsBinary(matmul) /\ pack.op = "Pack"
           /\ Attr(matmul, "transpose_a", "false") = "false"
           /\ reshape.op = "Reshape" /\ IsBinary(reshape) /\ Input(g, reshape, 1) # NoNode
           /\ weight.op = "Const" /\ Len(weight.shape) = 2 /\ flat.op = "Const"
           /\ flat.val = <<-1, dims[1]>>
           /\ MatchRestoreShapePack(g, reshape.in[1], pack, dims[2])
           /\ CountConsumers(g, reshape.name) = 1 /\ CountConsumers(g, matmul.name) = 1
        THEN [matched |-> TRUE, output |-> n, matmul |-> matmul, reshape |-> reshape,
              pack |-> pack, flat |-> flat, shape_nodes |-> ShapeNodes(g, pack)]
        ELSE NoMatch

ApplyReshapeMatMul(g, m) ==
    LET name  == m.output.name
        in    == <<m.reshape.in[1], m.matmul.in[2]>>
        fused == [Node(name, "MusaReshapeMatMul", in)
                  EXCEPT !.T = m.output.T, !.device = m.output.device,
                         !.attr = SubSeq(Transposes(m.matmul), 2, 2)]
    IN  Ok(Replace(g, name, fused,
                   <<Original(name), m.matmul.name, m.reshape.name, m.pack.name, m.flat.name>>
                       \o SetToSeq(m.shape_nodes),
                   Protects(ToSet(in)) \cup {name}))
=============================================================================
