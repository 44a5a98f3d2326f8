------------------------------ MODULE GraphDefs ------------------------------
(***************************************************************************)
(* TensorFlow graphs, as the graph optimizer sees them: a sequence of      *)
(* nodes, whose inputs name the nodes that produce them, and the           *)
(* operations of graph/fusion/fusion_pattern_manager.cc on such graphs.    *)
(*                                                                         *)
(* A name is a sequence of strings, its path: <<"a", "original">> stands   *)
(* for "a_original".  An input is an edge: "^a" is a control edge, "a:1"   *)
(* an edge with port 1; "a" and "a:0" are the same output, but different   *)
(* strings, and the port of the first is "".  The attributes of a node     *)
(* are pairs <<key, value>>, but for the values of a constant, a sequence  *)
(* of integers (in millionths, if they are floats), and for the shape,     *)
(* which is that of a constant or what is known of a node's first output.  *)
(***************************************************************************)
EXTENDS Integers, Sequences, FiniteSets, SequencesExt, TLC

Unknown == <<-1>>   \* the shape of a tensor whose shape is not known

Edge(src) == [src |-> src, port |-> "", ctl |-> FALSE]
Port(src, port) == [Edge(src) EXCEPT !.port = port]
Control(src) == [Edge(src) EXCEPT !.ctl = TRUE]

Node(name, op, in) ==
    [name |-> name, op |-> op, in |-> in, device |-> "MUSA", T |-> "float",
     attr |-> <<>>, val |-> <<>>, shape |-> Unknown]

PortNumber(e) == CASE e.port \in {"", ":0"} -> 0 [] e.port = ":1" -> 1 [] e.port = ":2" -> 2
SameOutput(e, f) == e.src = f.src /\ PortNumber(e) = PortNumber(f)

(***************************************************************************)
(* What the pointer nullptr stands for: a node that is of no type.         *)
(***************************************************************************)
NoNode == Node(<<>>, "", <<>>)

(***************************************************************************)
(* NodeDef::attr is a map.  Attributes are pairs <<key, value>>.           *)
(***************************************************************************)
Has(n, key) == \E p \in ToSet(n.attr) : p[1] = key
Attr(n, key, default) ==
    IF Has(n, key) THEN (CHOOSE p \in ToSet(n.attr) : p[1] = key)[2] ELSE default
-----------------------------------------------------------------------------
(***************************************************************************)
(* Lookups.                                                                *)
(***************************************************************************)
Names(g) == {g[i].name : i \in DOMAIN g}

FindNodeIndex(g, name) ==
    IF name \in Names(g) THEN CHOOSE i \in DOMAIN g : g[i].name = name ELSE 0

NodeAt(g, i) == IF i = 0 THEN NoNode ELSE g[i]

GetNodeByName(g, name) == NodeAt(g, FindNodeIndex(g, name))

FindProducer(g, e) == GetNodeByName(g, e.src)

(***************************************************************************)
(* The producer of the i-th input of a node, if there is one; the two      *)
(* operands of a binary node, in both orders.                              *)
(***************************************************************************)
Input(g, n, i) == IF i \in DOMAIN n.in THEN FindProducer(g, n.in[i]) ELSE NoNode
Operands(g, n) == <<<<Input(g, n, 1), Input(g, n, 2)>>,
                    <<Input(g, n, 2), Input(g, n, 1)>>>>

(***************************************************************************)
(* The names an input consumes, and the nodes that consume a name.         *)
(***************************************************************************)
Sources(n) == {e.src : e \in ToSet(n.in)}
Consumers(g, name) == {n \in ToSet(g) : name \in Sources(n)}

HasAnyConsumer(g, name) == \E n \in Consumers(g, name) : n.name # name

HasOriginalSuffix(name) == name # <<>> /\ Last(name) = "original"
Original(name) == Append(name, "original")

(***************************************************************************)
(* A node that consumes a name twice counts twice.                         *)
(***************************************************************************)
CountConsumers(g, name) ==
    LET Uses(n) == Cardinality({j \in DOMAIN n.in : n.in[j].src = name})
    IN  FoldLeft(LAMBDA c, n : c + Uses(n), 0, g)

(***************************************************************************)
(* What is behind a chain of identities.  It is no longer than the graph.  *)
(***************************************************************************)
ResolveIdentityLike(g, n) ==
    FoldLeftDomain(LAMBDA k, i : IF k.op = "Identity" /\ k.in # <<>> THEN Input(g, k, 1) ELSE k,
                   n, g)

Resolved(g, n, i) == ResolveIdentityLike(g, Input(g, n, i))

IsConstLike(g, n) == ResolveIdentityLike(g, n).op = "Const"

(***************************************************************************)
(* The first element of a sequence that passes a test, or a default.       *)
(***************************************************************************)
FirstOf(s, Test(_), default) ==
    LET i == SelectInSeq(s, Test) IN IF i = 0 THEN default ELSE s[i]

(***************************************************************************)
(* The images of the elements of a sequence, each worked out once.         *)
(***************************************************************************)
Each(s, F(_)) == [i \in DOMAIN s |-> F(s[i])] \o <<>>

NameIn(s) == Each(s, LAMBDA n : n.name)

(***************************************************************************)
(* Scopes: "a/b" belongs to "a", but "a_original" does not.  The scope of  *)
(* a node is its name but for the last segment.                            *)
(***************************************************************************)
InScope(name, scope) ==
    /\ scope # <<>> /\ IsPrefix(scope, name)
    /\ name # scope => name[Len(scope) + 1] # "original"

IsPart(n, op, scope) == n.op = op /\ InScope(n.name, scope)

ScopeOf(name) == SubSeq(name, 1, Len(name) - IF HasOriginalSuffix(name) THEN 2 ELSE 1)
-----------------------------------------------------------------------------
(***************************************************************************)
(* Changes.                                                                *)
(***************************************************************************)
Rename(g, old, new) ==
    [i \in DOMAIN g |-> IF i = FindNodeIndex(g, old) THEN [g[i] EXCEPT !.name = new]
                                                     ELSE g[i]]

(***************************************************************************)
(* A node is removed by swapping it with the last one.                     *)
(***************************************************************************)
RemoveNode(g, i) ==
    IF i \in DOMAIN g THEN Front([g EXCEPT ![i] = Last(g)]) ELSE g

(***************************************************************************)
(* Candidates that nothing consumes are removed, one at a time, until none *)
(* is left to remove.  As many rounds as there are candidates suffice.     *)
(***************************************************************************)
RemoveNodesIfUnused(g, names, protected) ==
    LET Unused(h, name) == name \notin protected /\ name \in Names(h) /\ ~HasAnyConsumer(h, name)
        RemoveIfUnused(h, name) ==
            IF Unused(h, name) THEN RemoveNode(h, FindNodeIndex(h, name)) ELSE h
        Round(h, k) == IF \E name \in ToSet(names) : Unused(h, name)
                       THEN FoldLeft(RemoveIfUnused, h, names) ELSE h
    IN  FoldLeftDomain(Round, g, names)

(***************************************************************************)
(* Nodes are removed at their indices, the last one first.                 *)
(***************************************************************************)
RemoveNodes(g, names) ==
    FoldRightDomain(LAMBDA i, h : IF h[i].name \in names THEN RemoveNode(h, i) ELSE h, g, g)

(***************************************************************************)
(* Inputs that name old are made to name new, with their port and their    *)
(* prefix, except those of new itself.                                     *)
(***************************************************************************)
RedirectInputs(g, old, new) ==
    LET Redirect(e) == IF e.src = old THEN [e EXCEPT !.src = new] ELSE e
    IN  [i \in DOMAIN g |->
            IF g[i].name = new THEN g[i]
            ELSE [g[i] EXCEPT !.in = [j \in DOMAIN @ |-> Redirect(@[j])]]]

(***************************************************************************)
(* What most patterns do when they apply: the node output steps aside, a   *)
(* fused node takes its name and its consumers, and the nodes that it      *)
(* makes superfluous go.                                                   *)
(***************************************************************************)
Replace(g, output, fused, obsolete, protected) ==
    RemoveNodesIfUnused(Append(Rename(g, output, Original(output)), fused),
                        obsolete, protected)
-----------------------------------------------------------------------------
\* Mutant of SharedNodes: none is.
NoSharedNodes(g, fused, output) == {}

(***************************************************************************)
(* Some patterns remove a set of fused nodes, but for those that a node    *)
(* which stays consumes.                                                   *)
(***************************************************************************)
SharedNodes(g, fused, output) ==
    {name \in fused \ {output} : \E n \in ToSet(g) : n.name \notin fused /\ name \in Sources(n)}

RemoveFused(g, fused, output) == RemoveNodes(g, fused \ SharedNodes(g, fused, output))
-----------------------------------------------------------------------------
(***************************************************************************)
(* The result of Match, and what Apply returns: a status and a graph.      *)
(***************************************************************************)
NoMatch == [matched |-> FALSE]
FirstMatch(s) == FirstOf(s, LAMBDA m : m.matched, NoMatch)
Ok(g) == [ok |-> TRUE, graph |-> g]
Failed(g) == [ok |-> FALSE, graph |-> g]

(***************************************************************************)
(* Scalars.  Only the first value of a constant that lists its values      *)
(* (Attr "enc" is "list") is looked at.                                    *)
(***************************************************************************)
Abs(x) == IF x < 0 THEN -x ELSE x

IsScalar(n) == n.op = "Const" /\ n.val # <<>> /\ (Len(n.val) = 1 \/ Attr(n, "enc", "") = "list")

HasFloatValue(n, v) == IsScalar(n) /\ Abs(n.val[1] - v) < 100

IsAddOp(n) == n.op \in {"Add", "AddV2"}
IsMulOp(n) == n.op = "Mul"
IsBinary(n) == Len(n.in) = 2
=============================================================================
