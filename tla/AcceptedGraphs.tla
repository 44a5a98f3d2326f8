--------------------------- MODULE AcceptedGraphs ---------------------------
(***************************************************************************)
(* The graphs that an optimizer is given: those that TensorFlow accepts,   *)
(* in which the fusion patterns find what they take for granted.           *)
(***************************************************************************)
EXTENDS GraphDefs

IsSequence(s) == s \in Seq(ToSet(s))

(***************************************************************************)
(* Graphs that TensorFlow accepts: nodes are records with the fields of a  *)
(* NodeDef, their names differ, and every input names a node.              *)
(***************************************************************************)
IsNode(n) ==
    /\ n = [name |-> n.name, op |-> n.op, in |-> n.in, device |-> n.device, T |-> n.T,
            attr |-> n.attr, val |-> n.val, shape |-> n.shape]
    /\ IsSequence(n.name) /\ IsSequence(n.in)

IsGraph(g) ==
    /\ IsSequence(g)
    /\ \A i \in DOMAIN g : IsNode(g[i])
    /\ \A i, j \in DOMAIN g : g[i].name = g[j].name => i = j

Closed(g) == \A i \in DOMAIN g : Sources(g[i]) \subseteq Names(g)

-----------------------------------------------------------------------------
(***************************************************************************)
(* What the patterns rely on: operations that have two inputs have them,   *)
(* and the name that an output would get when it steps aside is not in     *)
(* use, unless the pattern sees that it has stepped aside already.         *)
(***************************************************************************)
RenamedOps == {"Relu", "BiasAdd", "Add", "AddV2", "MatMul", "Reshape"}

HaveOperands(g) ==
    \A n \in ToSet(g) : /\ n.op \in {"MatMul", "BiasAdd", "Add", "AddV2"} => Len(n.in) >= 2
                        /\ n.op = "Unpack" => n.in # <<>>

FreshOriginals(g) ==
    \A n \in ToSet(g) :
        n.op = "Maximum" \/ (n.op \in RenamedOps /\ ~HasOriginalSuffix(n.name)) =>
            Original(n.name) \notin Names(g)

Accepted(g) == IsGraph(g) /\ Closed(g) /\ HaveOperands(g) /\ FreshOriginals(g)

(***************************************************************************)
(* The nodes that a session fetches: they compute something, nothing in    *)
(* the graph consumes them, and no pattern may remove them.                *)
(***************************************************************************)
Inputs(g) == UNION {Sources(n) : n \in ToSet(g)}

Provides(g, names) ==
    \A name \in names :
        /\ name \notin Inputs(g) /\ name # NoNode.name
        /\ \E n \in ToSet(g) : n.name = name /\ n.in # <<>> /\ n.op # "Const"

Serves(g, names) == Accepted(g) /\ Provides(g, names)
=============================================================================
