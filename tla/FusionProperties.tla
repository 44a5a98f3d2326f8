--------------------------- MODULE FusionProperties ---------------------------
(***************************************************************************)
(* What the graph optimizer must keep, and what it should achieve.         *)
(***************************************************************************)
EXTENDS GraphOptimizer, GraphMeaning

CONSTANT Expected(_)    \* the fused operations that a graph should get

(***************************************************************************)
(* The nodes of the graph of a session that nothing consumes are fetched.  *)
(***************************************************************************)
Fetched(g) == {name \in Names(g) : ~HasAnyConsumer(g, name)}

FusedOperations ==
    {"MusaClip", "MusaGelu", "MusaPRelu", "MusaShiftedAffineMap", "MusaLinearActivation",
     "MusaMatMulBiasAdd", "MusaBiasAddReluMatMul", "MusaReshapeMatMul", "MusaConcatMatMul",
     "MusaTensorDot", "MusaTensorDotBias", "MusaTokenMixer", "MusaNormalize", "MusaLayerNorm",
     "MusaPlnCascade", "MusaPlnCascadeBlock", "MusaResourceApplyAdamMixed"}

Ops(g) == {n.op : n \in ToSet(g)}

Finished(o) == phase[o] = "done"

-----------------------------------------------------------------------------
(***************************************************************************)
(* After every step the names of the nodes differ, every input, also a     *)
(* control input, names a node, and what is fetched is there, or           *)
(* TensorFlow would reject the graph.  A pattern renames nodes, removes    *)
(* them, and finds out itself who consumes them.                           *)
(***************************************************************************)
WellFormed ==
    \A o \in Optimizers :
        LET g == graph[o]
        IN  /\ Cardinality(Names(g)) = Len(g)
            /\ \A n \in ToSet(g) : Sources(n) \subseteq Names(g)
            /\ Fetched(item[o]) \subseteq Names(g)

(***************************************************************************)
(* What is fetched is what the graph of the session computes, whatever     *)
(* patterns have been applied, in whatever order, and with whatever was in *)
(* the cache.  Mixed precision changes the numbers, and so does a layer    *)
(* normalization made of MusaNormalize: the deviation is no longer clipped.*)
(***************************************************************************)
LosesClip(o) == "RealDiv" \in Ops(item[o]) /\ "MusaLayerNorm" \in Ops(graph[o])

Agree(results, names) ==
    \A name \in names : /\ name \in DOMAIN results[2]
                        /\ results[1][name] = results[2][name]

MeaningKept ==
    \A o \in Optimizers :
        (phase[o] = "prune" \/ Finished(o)) /\ ~config[o].amp /\ ~LosesClip(o) =>
            Agree(Each(<<item[o], graph[o]>>, Evaluate), Fetched(item[o]))

(***************************************************************************)
(* Which fused operations a graph gets does not depend on the order of its *)
(* nodes, though the scans stop at the first match, and patterns take each *)
(* other's nodes: the larger one wins.                                     *)
(***************************************************************************)
FusedAsExpected ==
    \A o \in Optimizers :
        Finished(o) /\ config[o] = [amp |-> FALSE, fusion |-> TRUE, disabled |-> {}] =>
            Ops(graph[o]) \cap FusedOperations = Expected(item[o])

(***************************************************************************)
(* Nothing is left to fuse.  A pattern may match only after one of a later *)
(* group has applied, or after the removal of a consumer.                  *)
(***************************************************************************)
NothingLeft ==
    \A o \in Optimizers :
        Finished(o) /\ config[o].fusion =>
            \A k \in DOMAIN PriorityGroups :
                \A p \in ToSet(PriorityGroups[k]) \ config[o].disabled :
                    \A i \in DOMAIN graph[o] : ~Matches(graph[o], p, i)

(***************************************************************************)
(* A scan ends, though it repeats as long as a pattern applies and has no  *)
(* bound of its own: every pattern that applies makes a node of the graph  *)
(* of the session superfluous, and no two patterns undo each other.        *)
(***************************************************************************)
FusionsBounded == \A o \in Optimizers : scan[o].fusion_applied_count <= Len(item[o])

(***************************************************************************)
(* With mixed precision, every floating-point input of a node gets the     *)
(* type that its producer makes at that port, also after fusion: a fused   *)
(* node has the type of the nodes whose place it takes.  The code breaks   *)
(* this for one operation, which is excepted: a batch normalization that   *)
(* is converted gets its scale, offset and statistics cast to the shorter  *)
(* type as well, but keeps taking them as float.                           *)
(***************************************************************************)
FloatTypes == {"float", "half"}
MakesNoFloat(n) == n.op \in {"Shape", "Equal", "LogicalOr", "Unpack", "Pack", "GatherV2", "Prod"}

CastToWrongType(n, port) == HasTypeU(n, port) /\ n.T = kLower

TypeAgrees(g, n, j) ==
    LET k     == FindProducer(g, n.in[j])
        made  == OutputType(k, PortNumber(n.in[j]))
        taken == InputType(n, j - 1)
    IN  {made, taken} \subseteq FloatTypes /\ ~MakesNoFloat(k) => made = taken

TypesAgree ==
    \A o \in Optimizers :
        config[o].amp /\ Finished(o) =>
            \A n \in {k \in ToSet(graph[o]) : k.op \notin AdamOps} : \A j \in DOMAIN n.in :
                n.in[j].ctl \/ CastToWrongType(n, j - 1) \/ TypeAgrees(graph[o], n, j)

(***************************************************************************)
(* A cascade that is in the graph reads the rows that it was given: tables *)
(* only grow, also when the graph is optimized again with an old cache, as *)
(* the comment on BuildGroupTables says.                                   *)
(***************************************************************************)
Rows(table) == IF table = NoNode THEN <<>>
               ELSE [i \in 1..table.shape[1] |->
                        SubSeq(table.val, (i - 1) * table.shape[2] + 1, i * table.shape[2])]

TablesKeptFor(o) ==
    \A n \in ToSet(graph[o]) : n.op \in {"MusaPlnCascade", "MusaPlnCascadeBlock"} =>
        \A e \in ToSet(n.in) : e.src \in {AddTable(PlnGroup(n.name)), BiasTable(PlnGroup(n.name))} =>
            \A i \in ToSet(n.val) :
                /\ i + 1 \in DOMAIN Rows(FindProducer(graph[o], e))
                /\ i + 1 \in DOMAIN Rows(FindProducer(graph'[o], e))
                /\ Rows(FindProducer(graph[o], e))[i + 1] = Rows(FindProducer(graph'[o], e))[i + 1]

TablesStable == [][\A o \in Optimizers : TablesKeptFor(o)]_vars

=============================================================================
