-------------------------- MODULE TensorDotFusions --------------------------
(***************************************************************************)
(* graph/fusion/tensordot_fusion.cc and tensordot_bias_fusion.cc: the      *)
(* subgraph that tf.tensordot builds, which all has the prefix             *)
(* .../Tensordot in its names, becomes MusaTensorDot, and with an addition *)
(* MusaTensorDotBias.  The axes of a fused node are its val, a pair of     *)
(* sequences.  The token mixer, another pattern of reshapes and            *)
(* transpositions, is here as well.                                        *)
(***************************************************************************)
EXTENDS GraphDefs

IsWeightOp(n) == n.op \in {"Identity", "ReadVariableOp", "Const", "Reshape"}

(***************************************************************************)
(* The name up to its last "Tensordot", or else its last "tensordot".      *)
(***************************************************************************)
FindTensorDotPrefix(name) ==
    LET upper == SelectLastInSeq(name, LAMBDA s : s = "Tensordot")
        lower == SelectLastInSeq(name, LAMBDA s : s = "tensordot")
    IN  SubSeq(name, 1, IF upper # 0 THEN upper ELSE lower)

(***************************************************************************)
(* The final reshape has the name that is the prefix, and gives a product  *)
(* of a reshaped tensor and a weight a concatenated shape.                 *)
(***************************************************************************)
ReshapesProduct(g, n, prefix) ==
    LET matmul == Input(g, n, 1)
    IN  /\ n.op = "Reshape" /\ prefix # <<>> /\ n.name = prefix /\ IsBinary(n)
        /\ IsPart(matmul, "MatMul", prefix) /\ IsPart(Input(g, n, 2), "ConcatV2", prefix)
        /\ IsBinary(matmul) /\ IsPart(Input(g, matmul, 1), "Reshape", prefix)
        /\ IsWeightOp(Input(g, matmul, 2))

(***************************************************************************)
(* The shape and the tensor of the first reshape may come in either order. *)
(* A transposition of the same prefix belongs to the product: the tensor   *)
(* is its input.                                                           *)
(***************************************************************************)
PackSide(g, reshape, prefix) ==
    IF ~IsBinary(reshape) \/ NoNode \in {Input(g, reshape, 1), Input(g, reshape, 2)} THEN 0
    ELSE SelectInSeq(<<1, 2>>, LAMBDA i : IsPart(Input(g, reshape, i), "Pack", prefix))

TensorInput(g, reshape, side, prefix) ==
    LET tensor == Input(g, reshape, side)
    IN  IF IsPart(tensor, "Transpose", prefix) /\ tensor.in # <<>> THEN tensor.in[1].src
                                                                 ELSE reshape.in[side].src

(***************************************************************************)
(* That shape is packed from two products, of the free dimensions and of   *)
(* the contracted ones, gathered from the shape of one tensor.             *)
(***************************************************************************)
GatherOf(g, pack, i) == Resolved(g, Input(g, pack, i), 1)
ConstIn(g, k, i) == Resolved(g, k, i).op = "Const"

PacksProducts(g, pack, prefix) ==
    LET shape == Resolved(g, GatherOf(g, pack, 1), 1)
    IN  /\ IsBinary(pack) /\ IsPart(shape, "Shape", prefix)
        /\ \A i \in 1..2 :
              LET prod   == Input(g, pack, i)
                  gather == GatherOf(g, pack, i)
              IN  /\ IsPart(prod, "Prod", prefix) /\ IsBinary(prod) /\ ConstIn(g, prod, 2)
                  /\ IsPart(gather, "GatherV2", prefix) /\ Len(gather.in) >= 3
                  /\ ConstIn(g, gather, 2) /\ ConstIn(g, gather, 3)
                  /\ Resolved(g, gather, 1) = shape

(***************************************************************************)
(* The final shape is a concatenation of the free dimensions and of        *)
(* constants.                                                              *)
(***************************************************************************)
ConcatenatesFree(g, concat, free) ==
    LET values == {i \in 1..Len(concat.in) - 1 : Input(g, concat, i) # NoNode}
    IN  /\ Len(concat.in) >= 3 /\ ConstIn(g, concat, Len(concat.in))
        /\ \E i \in values : Resolved(g, concat, i) = free
        /\ \A i \in values : Resolved(g, concat, i) = free \/ ConstIn(g, concat, i)

(***************************************************************************)
(* The axes that are contracted are the indices of the second gather.      *)
(***************************************************************************)
ExtractAxes(g, gather) ==
    LET indices == Resolved(g, gather, 2).val IN IF indices = <<>> THEN <<-1>> ELSE indices

MatchTensorDot(g, n) ==
    LET prefix  == FindTensorDotPrefix(n.name)
        matmul  == Input(g, n, 1)
        reshape == Input(g, matmul, 1)
        side    == PackSide(g, reshape, prefix)
        pack    == Input(g, reshape, side)
    IN  IF /\ ReshapesProduct(g, n, prefix) /\ side # 0
           /\ PacksProducts(g, pack, prefix)
           /\ ConcatenatesFree(g, Input(g, n, 2), GatherOf(g, pack, 1))
        THEN [matched |-> TRUE, output |-> n, weight |-> Input(g, matmul, 2),
              a |-> TensorInput(g, reshape, 3 - side, prefix),
              axes_a |-> ExtractAxes(g, GatherOf(g, pack, 2)),
              nodes |-> {k.name : k \in {m \in ToSet(g) : InScope(m.name, prefix)}}]
        ELSE NoMatch

(***************************************************************************)
(* The nodes of the prefix go, except for those that a node which stays    *)
(* consumes.  So do the producers that only they consumed.                 *)
(***************************************************************************)
Orphans(g, obsolete, kept) ==
    UNION {Sources(k) : k \in {k \in ToSet(g) : k.name \in obsolete}} \ (obsolete \cup kept)

RemoveOrphan(g, name) ==
    IF Consumers(g, name) # {} THEN g ELSE RemoveNode(g, FindNodeIndex(g, name))

ApplyTensorDot(g, m) ==
    LET name     == m.output.name
        inputs   == {m.a, m.weight.name}
        fused    == m.nodes \ inputs
        obsolete == fused \ SharedNodes(g, fused, name)
    IN  Ok(Append(FoldLeft(RemoveOrphan, RemoveNodes(g, obsolete),
                           SetToSeq(Orphans(g, obsolete, inputs \cup {name}))),
                  [Node(name, "MusaTensorDot", <<Edge(m.a), Edge(m.weight.name)>>)
                   EXCEPT !.T = m.output.T, !.device = m.output.device,
                          !.val = <<m.axes_a, <<0>>>>]))
-----------------------------------------------------------------------------
(***************************************************************************)
(* BiasAdd of a fused node.                                                *)
(***************************************************************************)
MatchTensorDotBias(g, n) ==
    LET tensordot == Input(g, n, 1)
    IN  IF n.op = "BiasAdd" /\ IsBinary(n) /\ tensordot.op = "MusaTensorDot"
           /\ IsWeightOp(Input(g, n, 2))
        THEN [matched |-> TRUE, bias_add |-> n, tensordot |-> tensordot]
        ELSE NoMatch

ApplyTensorDotBias(g, m) ==
    LET name     == m.bias_add.name
        users    == {k.name : k \in Consumers(g, m.tensordot.name)} \ {name, m.tensordot.name}
        obsolete == {name} \cup IF users = {} THEN {m.tensordot.name} ELSE {}
    IN  Ok(Append(RemoveNodes(g, obsolete),
                  [Node(name, "MusaTensorDotBias", Append(m.tensordot.in, m.bias_add.in[2]))
                   EXCEPT !.T = m.bias_add.T, !.device = m.bias_add.device,
                          !.val = m.tensordot.val]))
-----------------------------------------------------------------------------
(***************************************************************************)
(* graph/fusion/tokenmixer_fusion.cc: a tensor [batch, T, H * d] is        *)
(* reshaped to [-1, T, H, d], its two middle dimensions are swapped, and   *)
(* the result is reshaped to [-1, H, T * d].                               *)
(***************************************************************************)
MatchTokenMixer(g, n) ==
    LET transpose == Input(g, n, 1)
        reshape   == Input(g, transpose, 1)
        x         == Input(g, reshape, 1)
        Ints(k)   == IF k.op = "Const" /\ k.T \in {"int32", "int64"} THEN k.val ELSE <<>>
        perm      == Attr(transpose, "perm", Ints(Input(g, transpose, 2)))
        there     == Ints(Input(g, reshape, 2))
        T == there[2]
        H == there[3]
        d == there[4]
        Agrees(dim, v) == dim <= 0 \/ dim = v
    IN  IF /\ n.op = "Reshape" /\ Len(n.in) >= 2 /\ ~HasOriginalSuffix(n.name)
           /\ transpose.op = "Transpose" /\ perm = <<0, 2, 1, 3>>
           /\ reshape.op = "Reshape" /\ Len(reshape.in) >= 2
           /\ CountConsumers(g, reshape.name) = 1 /\ CountConsumers(g, transpose.name) = 1
           /\ Len(there) = 4 /\ there[1] = -1 /\ T > 0 /\ H > 0 /\ d > 0
           /\ Ints(Input(g, n, 2)) = <<-1, H, T * d>>
           /\ reshape.T = transpose.T /\ transpose.T = n.T
           /\ x # NoNode
           /\ x.shape = Unknown \/ /\ Len(x.shape) = 3
                                   /\ Agrees(x.shape[2], T) /\ Agrees(x.shape[3], H * d)
        THEN [matched |-> TRUE, output |-> n, reshape |-> reshape, transpose |-> transpose,
              dims |-> <<T, H, d>>]
        ELSE NoMatch

(***************************************************************************)
(* A shape or permutation goes, if it is used but once.                    *)
(***************************************************************************)
ApplyTokenMixer(g, m) ==
    LET name   == m.output.name
        fused  == [Node(name, "MusaTokenMixer", <<m.reshape.in[1]>>)
                   EXCEPT !.T = m.output.T, !.device = m.output.device, !.val = m.dims]
        h      == Append(Rename(g, name, Original(name)), fused)
        consts == {k.in[2].src : k \in {k \in {m.output, m.reshape, m.transpose} : IsBinary(k)}}
    IN  Ok(RemoveNodes(h, {Original(name), m.reshape.name, m.transpose.name}
                              \cup {c \in consts : CountConsumers(h, c) <= 1}))
=============================================================================
