------------------------- MODULE MCResourceVariables -------------------------
(* Instances of ResourceVariables small enough for TLC. *)
EXTENDS ResourceVariables

Does(kernel, handles) == [kernel |-> kernel, handles |-> handles, value |-> 0]

\* Both assign the same tensor.
Assigns(h) == [kernel |-> AssignVariable, handles |-> <<h>>, value |-> 5]

\* What two kernels may do at the same time, while a third reads a moment.
Kernels ==
    <<Assigns(1), Assigns(2), Does(VariableV2, <<1>>), Does(DestroyResource, <<1>>),
      Does(ReadVariable, <<1>>), Does(ResourceGather, <<1>>), Does(AssignUpdateVariable, <<1>>),
      Does(ResourceApplyGradientDescent, <<1>>), Does(ResourceApplyAdagradV2, <<1, 2>>),
      Does(ResourceApplyAdaMax, <<1, 2, 3>>), Does(ResourceApplyAdam, <<1, 2, 3>>),
      Does(ResourceApplyAdam, <<2, 1, 3>>), Does(ResourceApplyAdam, <<1, 1, 2>>),
      Does(ResourceApplyRMSProp, <<3, 2, 1>>), Does(ResourceApplyNadam, <<1, 2, 3>>),
      Does(ResourceSparseApplyAdagradV2, <<1, 2>>), Does(ApplyAdam, <<1, 2, 3>>)>>

\* What a third may do as well.
Few == {1, 4, 7, 14}

\* These differ from others by how they may fail, or by one more moment.
Others ==
    {Does(ResourceApplyFtrl, <<1, 2, 3>>), Does(ResourceSparseApplyFtrl, <<1, 2, 3>>),
     Does(ResourceSparseApplyAdam, <<1, 2, 3>>), Does(ResourceApplyAdamMixed, <<1, 2, 3>>),
     Does(ResourceScatterAdd, <<1>>),
     Does(ResourceApplyCenteredRMSProp, <<1, 4, 2, 3>>)}

(***************************************************************************)
(* What goes wrong is left out.  ApplyAdam takes no mutex: it runs beside  *)
(* kernels that only read.  A sparse Adagrad takes its mutexes in another  *)
(* order than the other optimizers: it runs beside kernels that take one;  *)
(* and it divides by the rows of a variable that may have no storage.      *)
(***************************************************************************)
OnlyReads(k) == k.kernel \in {VariableV2, DestroyResource, ReadVariable, ResourceGather}
TakesOne(k)  == k.kernel.of = 1 /\ k.kernel # VariableV2
GoTogether(k, l) ==
    /\ k.kernel = ApplyAdam => OnlyReads(l)
    /\ k.kernel = ResourceSparseApplyAdagradV2 => TakesOne(l) \/ k = l

MCPrograms ==
    LET pairs   == {<<Kernels[i], Kernels[j], Does(ReadVariable, <<2>>)>> :
                       i \in DOMAIN Kernels, j \in DOMAIN Kernels}
        triples == {<<Kernels[i], Kernels[j], Kernels[k]>> : i \in Few, j \in Few, k \in Few}
        number(k) == CHOOSE i \in DOMAIN Kernels : Kernels[i] = k
        more    == {<<k, Does(ResourceApplyRMSProp, <<3, 2, 1>>), Does(ReadVariable, <<2>>)>> :
                       k \in Others}
    IN  more \cup
        {p \in pairs \cup triples :
            /\ number(p[1]) <= number(p[2])
            /\ p \in pairs \/ number(p[2]) <= number(p[3])
            /\ \A a, b \in 1..3 : a # b => GoTogether(p[a], p[b])}

MCOps     == 1..3
MCHandles == 1..4
MCVars    == 1..6
MCBuffers == 1..14

=============================================================================
