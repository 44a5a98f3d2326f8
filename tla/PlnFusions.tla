----------------------------- MODULE PlnFusions -----------------------------
(***************************************************************************)
(* graph/fusion/pln_cascade_fusion.cc and pln_cascade_block_fusion.cc.     *)
(* Select(gate, x * add + bias, x), for constants add and bias, becomes    *)
(* MusaPlnCascade.  The constants of all nodes of a group, which share a   *)
(* prefix of their names, are rows of two tables, constants of the graph,  *)
(* and a fused node has the index of its row.  Which row is whose is kept  *)
(* in a cache of the pattern, which outlives a run of the optimizer.       *)
(* Cascades in a chain become one MusaPlnCascadeBlock.                     *)
(*                                                                         *)
(* A cascade has the attribute select_on_true, a sequence of Booleans, and *)
(* its table indices as its val: one of each for every step.               *)
(***************************************************************************)
EXTENDS GraphDefs

CONSTANT PlnTokens      \* the segments of names that begin with pln1_ or pln2_

kMaxBlockSteps == 16

(***************************************************************************)
(* The group of a node is its name up to the first such segment, neither   *)
(* the first of the name nor its last.                                     *)
(***************************************************************************)
PlnGroup(name) ==
    LET i == SelectInSeq(name, LAMBDA s : s \in PlnTokens)
    IN  IF i > 1 /\ i < Len(name) THEN SubSeq(name, 1, i) ELSE <<>>

BelongsToGroup(n, group) == n.name # group /\ InScope(n.name, group)

AddTable(group)  == Append(group, "pln_cascade_add_table")
BiasTable(group) == Append(group, "pln_cascade_bias_table")
-----------------------------------------------------------------------------
(***************************************************************************)
(* The vectors.  A bias may also be a slice of a constant: a range of a    *)
(* vector, or a row of a matrix.                                           *)
(***************************************************************************)
ExtractConstVector(n) ==
    IF n.op = "Const" /\ n.T = "float" /\ (Len(n.shape) < 2 \/ (Len(n.shape) = 2 /\ n.shape[1] = 1))
    THEN n.val ELSE <<>>

IsPositiveRange(begin, end) == begin >= 0 /\ end > begin

SliceOf(data, begin, end) ==
    LET cols == Last(data.shape)
    IN  IF Len(data.shape) = 1 /\ end <= cols THEN SubSeq(data.val, begin + 1, end)
        ELSE IF Len(data.shape) = 2 /\ begin < data.shape[1] /\ end = begin + 1
             THEN SubSeq(data.val, begin * cols + 1, end * cols)
        ELSE <<>>

IsIntConst(n) == n.op = "Const" /\ n.T \in {"int32", "int64"} /\ n.val # <<>>

BiasVector(k, data, begin, end, stride) ==
    IF k.op = "Const" THEN ExtractConstVector(k)
    ELSE IF /\ k.op = "StridedSlice" /\ Len(k.in) >= 4
            /\ \A c \in {begin, end, stride} : IsIntConst(c)
            /\ stride.val[1] = 1 /\ IsPositiveRange(begin.val[1], end.val[1])
            /\ data.op = "Const" /\ data.T = "float"
         THEN SliceOf(data, begin.val[1], end.val[1])
    ELSE <<>>

ExtractBiasVector(g, n) ==
    LET k == ResolveIdentityLike(g, n)
        Operand(i) == Resolved(g, k, i)
    IN  BiasVector(k, Operand(1), Operand(2), Operand(3), Operand(4))

(***************************************************************************)
(* The pair of constants of a shifted affine map, fused or not yet.  It is *)
(* known by the names of the two.                                          *)
(***************************************************************************)
PairWith(a, b, add, bias, data, mul) ==
    [found |-> a # <<>> /\ Len(a) = Len(b), add |-> add, bias |-> bias, data |-> data,
     mul |-> mul, row |-> [key |-> <<add.src, bias.src>>, add |-> a, bias |-> b]]

Pair(g, add, bias, data, mul) ==
    PairWith(ExtractConstVector(ResolveIdentityLike(g, FindProducer(g, add))),
             ExtractBiasVector(g, FindProducer(g, bias)), add, bias, data, mul)

NoPair == [found |-> FALSE]

PairOfMap(g, n) ==
    IF n.op = "MusaShiftedAffineMap" /\ Len(n.in) = 3
    THEN Pair(g, n.in[1], n.in[3], n.in[2], n) ELSE NoPair

PairOfSum(g, n, mul, side, left, right) ==
    LET i == IF left.op = "Const" THEN 1 ELSE 2
    IN  IF /\ n.op = "AddV2" /\ IsBinary(n) /\ NoNode \notin {Input(g, n, 3 - side), left, right}
           /\ mul.op = "Mul" /\ IsBinary(mul)
           /\ (left.op = "Const") # (right.op = "Const")
        THEN Pair(g, mul.in[i], n.in[3 - side], mul.in[3 - i], mul)
        ELSE NoPair

PairOfPending(g, n) ==
    LET side == IF Input(g, n, 1).op = "Mul" THEN 1 ELSE 2
        mul  == Input(g, n, side)
    IN  PairOfSum(g, n, mul, side, Resolved(g, mul, 1), Resolved(g, mul, 2))
-----------------------------------------------------------------------------
(***************************************************************************)
(* A branch of the select is an affine map of the other one.  A fused map  *)
(* is taken even if its constants are no pair: there is no row for it.     *)
(***************************************************************************)
Fits(g, affine, group) ==
    BelongsToGroup(affine, group) /\ CountConsumers(g, affine.name) = 1

IsMap(n) == n.op = "MusaShiftedAffineMap"

IsPendingOf(pair, pass) == pair.found /\ pair.data.src = pass.name

AffineSide(g, n, group) ==
    LET maps    == {i \in {2, 3} : IsMap(Input(g, n, i))}
        pending == {i \in {2, 3} : /\ IsPendingOf(PairOfPending(g, Input(g, n, i)), Input(g, n, 5 - i))
                                   /\ Fits(g, Input(g, n, i), group)}
    IN  FirstOf(<<2, 3>>, LAMBDA i : i \in IF maps # {} THEN maps ELSE pending, 0)

MatchAffine(g, n, group, side, affine, pass) ==
    IF /\ n.op = "Select" /\ Len(n.in) = 3 /\ n.T = "float" /\ group # <<>>
       /\ Input(g, n, 1).op \in {"Equal", "LogicalOr"}
       /\ NoNode \notin {Input(g, n, 2), Input(g, n, 3)}
       /\ side # 0 /\ Fits(g, affine, group)
       /\ IsMap(affine) => Len(affine.in) = 3 /\ affine.in[2].src = pass.name
    THEN [matched |-> TRUE, output |-> n, group |-> group, side |-> side, affine |-> affine,
          pair |-> IF IsMap(affine) THEN PairOfMap(g, affine) ELSE PairOfPending(g, affine)]
    ELSE NoMatch

MatchPlnCascade(g, n) ==
    LET group == PlnGroup(n.name)
        OnSide(side) == MatchAffine(g, n, group, side, Input(g, n, side), Input(g, n, 5 - side))
    IN  OnSide(AffineSide(g, n, group))

(***************************************************************************)
(* BuildGroupTables.  rows are those of the group in the cache.  They are  *)
(* forgotten if the tables are not in the graph.  Rows are added for every *)
(* pair of the group that has none; the first row decides on their width.  *)
(* The tables of the graph are written when there are new rows.            *)
(***************************************************************************)
TableNode(name, rows, Values(_)) ==
    [Node(name, "Const", <<>>)
     EXCEPT !.val = FlattenSeq([i \in DOMAIN rows |-> Values(rows[i])]),
            !.shape = <<Len(rows), Len(rows[1].add)>>]

GroupPairs(g, group) ==
    [i \in DOMAIN g |-> IF BelongsToGroup(g[i], group) THEN PairOfMap(g, g[i]) ELSE NoPair]
    \o [i \in DOMAIN g |-> IF BelongsToGroup(g[i], group) THEN PairOfPending(g, g[i]) ELSE NoPair]

IsNewRow(rows, row) ==
    /\ \A i \in DOMAIN rows : rows[i].key # row.key
    /\ rows # <<>> => Len(row.add) = Len(rows[1].add)

AddRow(rows, pair) ==
    IF pair.found /\ IsNewRow(rows, pair.row) THEN Append(rows, pair.row) ELSE rows

\* Mutant of GroupRows: the rows that are known are not kept.
GroupRowsAnew(g, known, group) == FoldLeft(AddRow, <<>>, GroupPairs(g, group))

GroupRows(g, known, group) == FoldLeft(AddRow, known, GroupPairs(g, group))

WriteTable(h, k, grown) ==
    IF k.name \notin Names(h) THEN Append(h, k)
    ELSE IF grown THEN [h EXCEPT ![FindNodeIndex(h, k.name)] = k] ELSE h

WriteTables(g, group, known, rows) ==
    LET tables == <<TableNode(AddTable(group), rows, LAMBDA r : r.add),
                    TableNode(BiasTable(group), rows, LAMBDA r : r.bias)>>
    IN  [graph |-> IF rows = <<>> THEN g
                   ELSE FoldLeft(LAMBDA h, k : WriteTable(h, k, rows # known), g, tables),
         rows  |-> rows]

BuildGroupTables(g, cached, group) ==
    LET known == IF {AddTable(group), BiasTable(group)} \subseteq Names(g) THEN cached ELSE <<>>
    IN  WriteTables(g, group, known, GroupRows(g, known, group))

(***************************************************************************)
(* The names that may go with a bias that is a slice: the slice, what it   *)
(* slices, and what is behind that if it is an identity.                   *)
(***************************************************************************)
BiasCleanup(g, name) ==
    LET slice == GetNodeByName(g, name)
        Behind(e) == LET k == FindProducer(g, e)
                     IN  IF k.op = "Identity" /\ k.in # <<>> THEN <<e.src, k.in[1].src>> ELSE <<e.src>>
    IN  IF slice.op # "StridedSlice" THEN <<>>
        ELSE <<name>> \o FlattenSeq([i \in DOMAIN slice.in |-> Behind(slice.in[i])])

(***************************************************************************)
(* The result has the rows of the group for the cache.  A pair that has no *)
(* row keeps its own constants.                                            *)
(***************************************************************************)
Replaced(g, m, add, bias, index, rows) ==
    LET name   == m.output.name
        fused  == [Node(name, "MusaPlnCascade",
                        <<m.output.in[5 - m.side], m.output.in[1]>> \o
                        IF index # 0 THEN <<Edge(AddTable(m.group)), Edge(BiasTable(m.group))>>
                                     ELSE <<add, bias>>)
                   EXCEPT !.device = m.output.device,
                          !.val = <<IF index = 0 THEN 0 ELSE index - 1>>,
                          !.attr = <<<<"use_table", IF index # 0 THEN "true" ELSE "false">>,
                                     <<"select_on_true", <<m.side = 2>>>>>>]
        h      == RemoveNode(g, FindNodeIndex(g, name))
        unused == <<m.affine.name>>
                  \o (IF IsMap(m.affine) THEN <<>> ELSE <<m.pair.mul.name>>)
                  \o (IF index # 0 THEN <<add.src, bias.src>> \o BiasCleanup(h, bias.src) ELSE <<>>)
    IN  [ok |-> TRUE, graph |-> Append(RemoveNodesIfUnused(h, unused, {}), fused), rows |-> rows]

WithTables(built, m, add, bias) ==
    Replaced(built.graph, m, add, bias,
             SelectInSeq(built.rows, LAMBDA r : r.key = <<add.src, bias.src>>), built.rows)

ApplyPlnCascade(g, m, cached) ==
    LET built == BuildGroupTables(g, cached, m.group)
    IN  IF IsMap(m.affine) THEN WithTables(built, m, m.affine.in[1], Last(m.affine.in))
                           ELSE WithTables(built, m, m.pair.add, m.pair.bias)
-----------------------------------------------------------------------------
(***************************************************************************)
(* A cascade, or a block of cascades, as a number of steps.  The inputs of *)
(* a cascade are x, the gate and the two tables, those of a block x, the   *)
(* tables and the gates.                                                   *)
(***************************************************************************)
IsEligiblePlnNode(n) ==
    /\ n.T = "float"
    /\ \/ n.op = "MusaPlnCascade" /\ Len(n.in) = 4 /\ Attr(n, "use_table", "") = "true"
       \/ n.op = "MusaPlnCascadeBlock" /\ Len(n.val) <= kMaxBlockSteps /\ Len(n.in) = 3 + Len(n.val)

Tables(n) == IF n.op = "MusaPlnCascade" THEN SubSeq(n.in, 3, 4) ELSE SubSeq(n.in, 2, 3)
Gates(n)  == IF n.op = "MusaPlnCascade" THEN <<n.in[2]>> ELSE SubSeq(n.in, 4, Len(n.in))

Steps(chain) == FoldLeft(LAMBDA s, n : s + Len(n.val), 0, chain)

(***************************************************************************)
(* The chain from its first node on: a node belongs to it if it is the     *)
(* only consumer of the one before.                                        *)
(***************************************************************************)
Chain(g, n) ==
    LET group == PlnGroup(n.name)
        Extend(chain, i) ==
            LET last == Last(chain)
                next == FirstOf(g, LAMBDA k : /\ IsEligiblePlnNode(k) /\ k.in[1].src = last.name
                                              /\ PlnGroup(k.name) = group, NoNode)
            IN  IF /\ CountConsumers(g, last.name) = 1 /\ next # NoNode /\ next \notin ToSet(chain)
                   /\ Tables(next) = Tables(n) /\ Steps(chain) + Len(next.val) <= kMaxBlockSteps
                THEN Append(chain, next) ELSE chain
    IN  FoldLeftDomain(Extend, <<n>>, g)

MatchPlnCascadeBlock(g, n) ==
    LET before == Input(g, n, 1)
        chain  == Chain(g, n)
    IN  IF /\ IsEligiblePlnNode(n) /\ PlnGroup(n.name) # <<>>
           /\ ~(IsEligiblePlnNode(before) /\ PlnGroup(before.name) = PlnGroup(n.name))
           /\ Len(chain) >= 2
        THEN [matched |-> TRUE, output |-> Last(chain), chain |-> chain]
        ELSE NoMatch

ApplyPlnCascadeBlock(g, m) ==
    LET name  == m.output.name
        All(Part(_)) == FlattenSeq([i \in DOMAIN m.chain |-> Part(m.chain[i])])
        fused == [Node(name, "MusaPlnCascadeBlock",
                       <<m.chain[1].in[1]>> \o Tables(m.output) \o All(Gates))
                  EXCEPT !.T = m.output.T, !.device = m.output.device,
                         !.val = All(LAMBDA n : n.val),
                         !.attr = <<<<"select_on_true",
                                      All(LAMBDA n : Attr(n, "select_on_true", <<>>))>>>>]
        h     == RemoveNode(g, FindNodeIndex(g, name))
    IN  Ok(Append(RemoveNodesIfUnused(h, NameIn(Front(m.chain)), {}), fused))
=============================================================================
