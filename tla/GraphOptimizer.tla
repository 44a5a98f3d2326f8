---------------------------- MODULE GraphOptimizer ----------------------------
(***************************************************************************)
(* The MUSA graph optimizer: MusaGraphOptimizer::Optimize in               *)
(* mu/optimizer/musa_graph_optimizer.cc with the fusion patterns of        *)
(* graph/fusion.                                                           *)
(*                                                                         *)
(* Grappler calls Optimize with the graph of a session, and calls it again *)
(* with what it has made of that graph; the optimizers of several sessions *)
(* run in threads of their own.  Each has a graph of its own, but the      *)
(* patterns are objects that they share, and one of them, the PLN cascade, *)
(* keeps a cache from call to call, for the graph at one address.          *)
(*                                                                         *)
(* A step goes over the nodes of the graph up to the first pattern that    *)
(* applies, or to the end; the other passes are steps as a whole.          *)
(***************************************************************************)
EXTENDS ElementwiseFusions, MatMulFusions, TensorDotFusions, NormFusions, PlnFusions,
        MixedPrecision

CONSTANTS
    Optimizers,     \* the threads that optimize graphs
    Items,          \* the graphs they are given
    Configs,        \* records [amp, fusion, disabled]: what Init may read
    Addresses,      \* where an optimized graph may be
    kMaxIterations, \* of the loops over the groups of patterns
    MaxCalls        \* bound of the calls of Optimize for a session

ASSUME OptimizerAssumption ==
    /\ kMaxIterations \in Nat \ {0} /\ MaxCalls \in Nat \ {0}
    /\ \A c \in Configs : c.amp \in BOOLEAN /\ c.fusion \in BOOLEAN

VARIABLES
    item,       \* item[o]: the graph that the session has
    config,     \* config[o]
    graph,      \* graph[o]: what Optimize has made of it
    address,    \* address[o]: where it is
    phase,      \* phase[o]: the next pass of Optimize
    scan,       \* scan[o]: where the loops of OptimizeFusion are
    calls,      \* calls[o]: the number of calls of Optimize
    cache       \* group_table_cache_ and cache_graph_ of the PLN cascade

vars == <<item, config, graph, address, phase, scan, calls, cache>>
-----------------------------------------------------------------------------
(***************************************************************************)
(* The patterns by descending priority, those of one priority by name.     *)
(***************************************************************************)
PriorityGroups ==
    <<<<"LinearActivation">>,
      <<"FuseLayerNormV2">>,
      <<"Normalize", "TensorDotBias">>,
      <<"Clip", "SigmoidCalibration", "TensorDot", "TokenMixer">>,
      <<"MatMulBiasAdd">>,
      <<"ReshapeMatMul">>,
      <<"Gelu", "ShiftedAffineMap">>,
      <<"PlnCascade">>,
      <<"PlnCascadeBlock">>,
      <<"BiasAddReluMatMul", "ConcatMatMul", "PRelu">>,
      <<"AdamMixed">>,
      <<"LayerNorm">>>>

\* Mutant of IsKernelAvailable: every pattern is applied.
AllKernelsAvailable(p) == TRUE

IsKernelAvailable(p) == p # "SigmoidCalibration"

Match(p, g, n) ==
    CASE p = "LinearActivation"   -> MatchLinearActivation(g, n)
      [] p = "FuseLayerNormV2"    -> MatchFuseLayerNormV2(g, n)
      [] p = "Normalize"          -> MatchNormalize(g, n)
      [] p = "TensorDotBias"      -> MatchTensorDotBias(g, n)
      [] p = "Clip"               -> MatchClip(g, n)
      [] p = "SigmoidCalibration" -> MatchSigmoidCalibration(g, n)
      [] p = "TensorDot"          -> MatchTensorDot(g, n)
      [] p = "TokenMixer"         -> MatchTokenMixer(g, n)
      [] p = "MatMulBiasAdd"      -> MatchMatMulBiasAdd(g, n)
      [] p = "ReshapeMatMul"      -> MatchReshapeMatMul(g, n)
      [] p = "Gelu"               -> MatchGelu(g, n)
      [] p = "ShiftedAffineMap"   -> MatchShiftedAffineMap(g, n)
      [] p = "PlnCascade"         -> MatchPlnCascade(g, n)
      [] p = "PlnCascadeBlock"    -> MatchPlnCascadeBlock(g, n)
      [] p = "BiasAddReluMatMul"  -> MatchBiasAddReluMatMul(g, n)
      [] p = "ConcatMatMul"       -> MatchConcatMatMul(g, n)
      [] p = "PRelu"              -> MatchPRelu(g, n)
      [] p = "AdamMixed"          -> MatchAdamMixed(g, n)
      [] p = "LayerNorm"          -> MatchLayerNorm(g, n)

Rewrite(p, g, m) ==
    CASE p = "LinearActivation"   -> ApplyLinearActivation(g, m)
      [] p = "FuseLayerNormV2"    -> ApplyFuseLayerNormV2(g, m)
      [] p = "Normalize"          -> ApplyNormalize(g, m)
      [] p = "TensorDotBias"      -> ApplyTensorDotBias(g, m)
      [] p = "Clip"               -> ApplyClip(g, m)
      [] p = "SigmoidCalibration" -> ApplySigmoidCalibration(g, m)
      [] p = "TensorDot"          -> ApplyTensorDot(g, m)
      [] p = "TokenMixer"         -> ApplyTokenMixer(g, m)
      [] p = "MatMulBiasAdd"      -> ApplyMatMulBiasAdd(g, m)
      [] p = "ReshapeMatMul"      -> ApplyReshapeMatMul(g, m)
      [] p = "Gelu"               -> ApplyGelu(g, m)
      [] p = "ShiftedAffineMap"   -> ApplyShiftedAffineMap(g, m)
      [] p = "PlnCascadeBlock"    -> ApplyPlnCascadeBlock(g, m)
      [] p = "BiasAddReluMatMul"  -> ApplyBiasAddReluMatMul(g, m)
      [] p = "ConcatMatMul"       -> ApplyConcatMatMul(g, m)
      [] p = "PRelu"              -> ApplyPRelu(g, m)
      [] p = "AdamMixed"          -> ApplyAdamMixed(g, m)
      [] p = "LayerNorm"          -> ApplyLayerNorm(g, m)
-----------------------------------------------------------------------------
(***************************************************************************)
(* The cache is cleared when the graph is at another address.              *)
(***************************************************************************)
Known(c, addr) == IF c.graph = addr THEN c.rows ELSE <<>>

KnownRows(known, group) == IF group \in DOMAIN known THEN known[group] ELSE <<>>

WithRows(known, group, rows) ==
    [k \in DOMAIN known \cup {group} |-> IF k = group THEN rows ELSE known[k]]

(***************************************************************************)
(* Apply of the pattern p, with the cache c, on the graph at addr.         *)
(***************************************************************************)
AfterRewrite(r, c) == [graph |-> r.graph, applied |-> r.ok, cache |-> c]

AfterCascade(r, group, c, addr) ==
    AfterRewrite(r, [graph |-> addr, rows |-> WithRows(Known(c, addr), group, r.rows)])

Apply(p, g, m, c, addr) ==
    IF p # "PlnCascade" THEN AfterRewrite(Rewrite(p, g, m), c)
    ELSE AfterCascade(ApplyPlnCascade(g, m, KnownRows(Known(c, addr), m.group)), m.group, c, addr)

(***************************************************************************)
(* The nodes are visited forwards or backwards, and at each of them the    *)
(* patterns are tried.  Attempt a of a sweep over so many nodes is one     *)
(* pattern at one node.                                                    *)
(***************************************************************************)
PositionOf(a, nodes, patterns, reverse) ==
    LET k == ((a - 1) \div Len(patterns)) + 1 IN IF reverse THEN nodes + 1 - k ELSE k

PatternOf(a, patterns) == patterns[((a - 1) % Len(patterns)) + 1]

Matches(g, p, i) == IsKernelAvailable(p) /\ i <= Len(g) /\ Match(p, g, g[i]).matched

(***************************************************************************)
(* RemoveIsolatedNodes.  Nodes that nothing consumes go, if they have no   *)
(* inputs, or are constants left by the fusion of a GELU or of a layer     *)
(* normalization.  One round is enough for nodes without inputs; that of   *)
(* a constant is a control edge, which may keep another one.               *)
(***************************************************************************)
IsFusionResidualConst(n) ==
    n.op = "Const" /\ \E i \in 2..Len(n.name) - 1 : n.name[i] \in {"Gelu", "LayerNorm"}

Isolated(g) ==
    {n.name : n \in {k \in ToSet(g) : /\ k.in = <<>> \/ IsFusionResidualConst(k)
                                      /\ Consumers(g, k.name) = {}}}

RemoveIsolatedNodes(g) ==
    FoldLeftDomain(LAMBDA h, k : IF Isolated(h) = {} THEN h ELSE RemoveNodes(h, Isolated(h)), g, g)
-----------------------------------------------------------------------------
(***************************************************************************)
(* OptimizeFusion: the group of patterns that is tried, the direction, the *)
(* attempt of the sweep that was made last and the number of nodes when it *)
(* began, whether a pattern of the group, and of any, has applied in this  *)
(* iteration, the numbers of the iterations, and that of the patterns that *)
(* have applied.                                                           *)
(***************************************************************************)
FirstScan == [group |-> 1, reverse |-> FALSE, attempt |-> 0, nodes |-> 0, modified |-> FALSE,
              graph_modified |-> FALSE, priority_iteration |-> 1, iteration |-> 1,
              fusion_applied_count |-> 0]

Patterns(o) == PriorityGroups[scan[o].group]

Active(o, p) == p \notin config[o].disabled

Pattern(o, a) == PatternOf(a, Patterns(o))

Position(o, nodes, a) == PositionOf(a, nodes, Patterns(o), scan[o].reverse)

(***************************************************************************)
(* The first attempt that counts, after the last that was made; it is past *)
(* all of them if there is none.                                           *)
(***************************************************************************)
Attempts(o, nodes) == nodes * Len(Patterns(o))

First(o, nodes) ==
    Min({Attempts(o, nodes) + 1} \cup
        {a \in scan[o].attempt + 1..Attempts(o, nodes) :
            Active(o, Pattern(o, a)) /\ Matches(graph[o], Pattern(o, a), Position(o, nodes, a))})

\* Mutant of AfterScan: the groups are gone through once.
AfterScanOnce(s) ==
    IF ~s.reverse THEN [s EXCEPT !.reverse = TRUE]
    ELSE IF s.modified /\ s.priority_iteration < kMaxIterations
         THEN [s EXCEPT !.reverse = FALSE, !.modified = FALSE, !.priority_iteration = @ + 1]
    ELSE IF s.group < Len(PriorityGroups)
         THEN [s EXCEPT !.reverse = FALSE, !.modified = FALSE, !.priority_iteration = 1,
                        !.group = @ + 1]
    ELSE [s EXCEPT !.group = 0]

(***************************************************************************)
(* After a forward scan comes one backwards, then the same group again if  *)
(* a pattern applied, then the next group, then all groups again if a      *)
(* pattern applied.  There is no group 0: it is the end.                   *)
(***************************************************************************)
AfterScan(s) ==
    IF ~s.reverse THEN [s EXCEPT !.reverse = TRUE]
    ELSE IF s.modified /\ s.priority_iteration < kMaxIterations
         THEN [s EXCEPT !.reverse = FALSE, !.modified = FALSE, !.priority_iteration = @ + 1]
    ELSE IF s.group < Len(PriorityGroups)
         THEN [s EXCEPT !.reverse = FALSE, !.modified = FALSE, !.priority_iteration = 1,
                        !.group = @ + 1]
    ELSE IF s.graph_modified /\ s.iteration < kMaxIterations
         THEN [FirstScan EXCEPT !.iteration = s.iteration + 1,
                           !.fusion_applied_count = s.fusion_applied_count]
    ELSE [s EXCEPT !.group = 0]

HasMusaNodes(g) == \E n \in ToSet(g) : n.device = "MUSA"

Optimize(o) ==
    /\ phase[o] = "start"
    /\ phase' = [phase EXCEPT ![o] = IF HasMusaNodes(graph[o]) THEN "amp" ELSE "done"]
    /\ UNCHANGED <<item, config, graph, address, scan, calls, cache>>

MixPrecision(o) ==
    /\ phase[o] = "amp"
    /\ graph' = [graph EXCEPT ![o] = IF config[o].amp THEN OptimizeAMP(@) ELSE @]
    /\ scan' = [scan EXCEPT ![o] = FirstScan]
    /\ phase' = [phase EXCEPT ![o] = IF config[o].fusion THEN "fusion" ELSE "prune"]
    /\ UNCHANGED <<item, config, address, calls, cache>>

EndScan(o) ==
    LET next == AfterScan([scan[o] EXCEPT !.attempt = 0, !.nodes = 0])
    IN  /\ scan' = [scan EXCEPT ![o] = next]
        /\ phase' = [phase EXCEPT ![o] = IF next.group = 0 THEN "prune" ELSE @]
        /\ UNCHANGED <<graph, cache>>

(***************************************************************************)
(* When a pattern has applied, a new sweep begins.  One that fails may     *)
(* have changed the graph, and the sweep goes on with that.                *)
(***************************************************************************)
AfterFusion(s) ==
    [s EXCEPT !.attempt = 0, !.nodes = 0, !.modified = TRUE, !.graph_modified = TRUE,
              !.fusion_applied_count = @ + 1]

AfterFailure(s, a, nodes) == [s EXCEPT !.attempt = a, !.nodes = nodes]

ApplyFusion(o, a, nodes, p, i) ==
    \E r \in {Apply(p, graph[o], Match(p, graph[o], graph[o][i]), cache, address[o])} :
        /\ graph' = [graph EXCEPT ![o] = r.graph]
        /\ cache' = r.cache
        /\ scan' = [scan EXCEPT ![o] = IF r.applied THEN AfterFusion(@)
                                                    ELSE AfterFailure(@, a, nodes)]
        /\ UNCHANGED phase

Sweep(o, nodes, a) ==
    IF a > Attempts(o, nodes) THEN EndScan(o)
    ELSE ApplyFusion(o, a, nodes, Pattern(o, a), Position(o, nodes, a))

Nodes(o) == IF scan[o].attempt = 0 THEN Len(graph[o]) ELSE scan[o].nodes

Scan(o) ==
    /\ phase[o] = "fusion"
    /\ Sweep(o, Nodes(o), First(o, Nodes(o)))
    /\ UNCHANGED <<item, config, address, calls>>

Prune(o) ==
    /\ phase[o] = "prune"
    /\ graph' = [graph EXCEPT ![o] = RemoveIsolatedNodes(@)]
    /\ phase' = [phase EXCEPT ![o] = "done"]
    /\ UNCHANGED <<item, config, address, scan, calls, cache>>

(***************************************************************************)
(* Grappler optimizes a graph again, which is copied to where it may have  *)
(* been before, or not.                                                    *)
(***************************************************************************)
OptimizeAgain(o) ==
    /\ phase[o] = "done" /\ calls[o] < MaxCalls
    /\ \E a \in Addresses : /\ \A p \in Optimizers \ {o} : address[p] # a
                            /\ address' = [address EXCEPT ![o] = a]
    /\ calls' = [calls EXCEPT ![o] = @ + 1]
    /\ phase' = [phase EXCEPT ![o] = "start"]
    /\ UNCHANGED <<item, config, graph, scan, cache>>

Init ==
    /\ item \in [Optimizers -> Items]
    /\ config \in [Optimizers -> Configs]
    /\ graph = item
    /\ address \in {a \in [Optimizers -> Addresses] : IsInjective(a)}
    /\ phase = [o \in Optimizers |-> "start"]
    /\ scan = [o \in Optimizers |-> FirstScan]
    /\ calls = [o \in Optimizers |-> 1]
    /\ cache = [graph |-> "nullptr", rows |-> <<>>]

Next ==
    \E o \in Optimizers :
        Optimize(o) \/ MixPrecision(o) \/ Scan(o) \/ Prune(o) \/ OptimizeAgain(o)

Spec == Init /\ [][Next]_vars
=============================================================================
