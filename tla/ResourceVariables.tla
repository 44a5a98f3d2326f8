-------------------------- MODULE ResourceVariables --------------------------
(***************************************************************************)
(* Resource variables: the kernels that create, assign, read and destroy   *)
(* them (kernels/state/musa_resource_variable_op.cc and                    *)
(* musa_variable_v2_op.cc, kernels/array/musa_resourcegather_op.cc) and    *)
(* the optimizers that update them (kernels/training).                     *)
(*                                                                         *)
(* Actors: the kernels that a program runs, each on a thread of its own.   *)
(* A kernel looks its variables up in the resource manager, takes their    *)
(* mutexes one after the other, copies the tensors it must not write to    *)
(* (PrepareTensorForMusaUpdate), launches its work and returns.  All work  *)
(* is launched on one stream, which does it in order: a launch stands for  *)
(* what it does.  copy_on_read_mode, which nothing in this library sets,   *)
(* is FALSE.                                                               *)
(*                                                                         *)
(* A Var object is a number, its address: mutexes are taken in the order   *)
(* of these.  The contents of a buffer are the updates it has had.  A      *)
(* buffer is free once nothing refers to it.                               *)
(***************************************************************************)
EXTENDS Integers, Sequences, FiniteSets, SequencesExt

CONSTANTS
    Ops,         \* kernels under way
    Vars,        \* addresses of Var objects
    Buffers,     \* device memory
    Handles,     \* names of variables; the address of one that exists at first
    Programs,    \* what the kernels may be asked to do
    MaxFailures, \* bound on the allocations, launches and waits that fail
    None         \* no Var, no buffer

ASSUME ResourceVariablesAssumption ==
    /\ IsFiniteSet(Ops) /\ Vars \subseteq Nat /\ Buffers \subseteq Nat
    /\ Handles \subseteq Vars /\ Handles \subseteq Buffers
    /\ \A p \in Programs : \A o \in Ops :
          p[o].handles \in Seq(Handles) /\ Len(p[o].handles) = p[o].kernel.of /\ p[o].kernel.of > 0
    /\ None \notin Vars \cup Buffers

VARIABLES
    program,        \* program[o]: what kernel o does, to which handles
    kept,           \* the tensors the program keeps
    resource,       \* resource[h]: the Var the resource manager has for handle h
    tensor,         \* tensor[x]: the buffer of x->tensor()
    is_initialized, \* is_initialized[x]: x->is_initialized
    mu,             \* mu[x]: the kernels that hold x->mu()
    contents,       \* contents[b]: the updates buffer b has had
    pc,             \* where each kernel is
    vars,           \* vars[o]: the Vars that o has looked up
    step,           \* step[o]: the next step of o, where it has several
    locals,         \* locals[o]: the buffers o has references to
    target,         \* target[o]: the buffers that o launches work on
    temp,           \* temp[o]: who updated the moments last that o computed with
    output,         \* output[o]: the buffer that o returns
    written         \* written[x]: the updates of x since it was assigned, in order

vars_of_kernels == <<pc, vars, step, locals, target, temp, output>>
state == <<program, kept, resource, tensor, is_initialized, mu, contents, written,
           vars_of_kernels>>

-----------------------------------------------------------------------------
(***************************************************************************)
(* What a kernel launches.  A part is done to the variable at position at; *)
(* "use" computes the update of the variable from its moments, which are   *)
(* the other variables, and "all" updates all of them at once.             *)
(***************************************************************************)
Part(at, do) == [at |-> at, do |-> do]

AllAtOnce == <<Part(0, "all")>>

AdagradLaunches == <<Part(2, "whole"), Part(0, "use"), Part(1, "whole")>>

AdaMaxLaunches ==
    <<Part(2, "scale"), Part(2, "add"), Part(3, "whole"), Part(0, "use"), Part(1, "whole")>>

AdamLaunches ==
    <<Part(2, "scale"), Part(2, "add"), Part(3, "scale"), Part(3, "add"),
      Part(0, "use"), Part(1, "whole")>>

\* The moments are scaled into other memory.
ApplyAdamLaunches == <<Part(2, "whole"), Part(3, "whole"), Part(0, "use"), Part(1, "whole")>>

(***************************************************************************)
(* The kernels.  Each has a number of variables, takes their mutexes in    *)
(* the order of addresses, in that given, or not at all, and shared or     *)
(* not; may create the variable; may check that the variables have         *)
(* tensors, hold references to these, prepare them; launches its work; and *)
(* may fail at some places.  Types and shapes fit.                         *)
(***************************************************************************)
Simple(launches, fails) ==
    [of |-> 1, mutexes |-> "sorted", shared |-> FALSE, creates |-> FALSE, checks |-> FALSE,
     holds |-> FALSE, prepares |-> FALSE, launches |-> launches, fails |-> fails]

AssignVariable == [Simple(<<Part(1, "assign")>>, {"sync"}) EXCEPT !.creates = TRUE]

VariableV2 == [Simple(<<Part(1, "create")>>, {}) EXCEPT !.creates = TRUE]

ReadVariable == [Simple(<<Part(1, "read")>>, {"launch", "sync"}) EXCEPT !.shared = TRUE]

ResourceGather == [Simple(<<Part(1, "gather")>>, {"launch"}) EXCEPT !.shared = TRUE]

DestroyResource == Simple(<<>>, {})

ResourceScatterAdd == Simple(<<Part(1, "whole")>>, {"launch"})

AssignUpdateVariable == Simple(<<Part(1, "whole")>>, {"launch"})

Optimizer(of, launches, fails) ==
    [Simple(launches, fails) EXCEPT !.of = of, !.checks = TRUE, !.prepares = TRUE]

ResourceApplyGradientDescent == Optimizer(1, <<Part(1, "whole")>>, {"prepare", "sync"})

ResourceApplyAdagradV2 == Optimizer(2, AdagradLaunches, {"prepare", "launch", "sync"})

ResourceApplyAdaMax == Optimizer(3, AdaMaxLaunches, {"prepare", "launch", "sync"})

ResourceApplyAdam ==
    [Optimizer(3, AdamLaunches, {"prepare", "launch", "sync"}) EXCEPT !.holds = TRUE]

ResourceApplyAdamMixed ==
    [Optimizer(3, AllAtOnce, {"prepare", "sync"}) EXCEPT !.holds = TRUE]

ResourceApplyRMSProp == Optimizer(3, AllAtOnce, {"prepare", "launch", "sync"})

ResourceApplyCenteredRMSProp == Optimizer(4, AllAtOnce, {"prepare", "launch", "sync"})

ResourceApplyFtrl == Optimizer(3, AllAtOnce, {"prepare", "sync"})

ResourceSparseApplyFtrl == Optimizer(3, AllAtOnce, {"prepare", "sync"})

ResourceSparseApplyAdam == Optimizer(3, AllAtOnce, {"prepare", "sync"})

ResourceApplyNadam == Optimizer(3, AllAtOnce, {"prepare"})

ResourceSparseApplyAdagradV2 == [Simple(AllAtOnce, {}) EXCEPT !.of = 2, !.mutexes = "given"]

ApplyAdam ==
    [Simple(ApplyAdamLaunches, {}) EXCEPT !.of = 3, !.checks = TRUE, !.mutexes = "none"]

\* What is assigned is a tensor.
ASSUME ValuesAssumption ==
    \A p \in Programs : \A o \in Ops : p[o].kernel = AssignVariable => p[o].value \in Buffers

Kernel(o) == program[o].kernel

-----------------------------------------------------------------------------
(***************************************************************************)
(* References.  A Var lives as long as the resource manager or a kernel    *)
(* refers to it; a buffer, as long as a Var, a kernel or the program does. *)
(***************************************************************************)
Returned(o) == pc[o] \in {"done", "failed"}

Live(x) ==
    \/ \E h \in Handles : resource[h] = x
    \/ \E o \in Ops : x \in ToSet(vars[o])

VarsOf(b)    == {x \in Vars : Live(x) /\ tensor[x] = b}
KernelsOf(b) == {o \in Ops : b \in locals[o] \/ output[o] = b}

RefCountIsOne(x) ==
    LET b == tensor[x] IN VarsOf(b) = {x} /\ KernelsOf(b) = {} /\ b \notin kept

FreeBuffers == {b \in Buffers : VarsOf(b) = {} /\ KernelsOf(b) = {} /\ b \notin kept}
allocate_temp == CHOOSE b \in FreeBuffers : \A c \in FreeBuffers : b <= c

\* An allocation that finds no memory is a failure like the others; that of
\* VariableV2 does not fail.
CanAllocate == FreeBuffers # {}

\* What buffer b has if it was last assigned the value v.
Fresh(v) == [value |-> v, updates |-> <<>>]

Update(o, do) == [by |-> o, do |-> do, moments |-> temp[o]]

-----------------------------------------------------------------------------
(***************************************************************************)
(* At first no kernel has begun.  Every variable of the program exists and *)
(* has a buffer of its own, or none does.  An assignment holds the tensor  *)
(* it assigns, and so may the program, as it may those of the variables.   *)
(***************************************************************************)
Init ==
    /\ program \in Programs
    /\ \E first \in {{}, Handles} :
          /\ resource = [h \in Handles |-> IF h \in first THEN h ELSE None]
          /\ tensor = [x \in Vars |-> IF x \in first THEN x ELSE None]
          /\ is_initialized = [x \in Vars |-> x \in first]
          /\ \E values \in {{}, {program[o].value : o \in {p \in Ops : Kernel(p) = AssignVariable}}} :
                \E old \in {{}, first} : kept = values \cup old
    /\ mu = [x \in Vars |-> {}]
    /\ contents = [b \in Buffers |-> Fresh(b)]
    /\ pc = [o \in Ops |-> "lookup"]
    /\ vars = [o \in Ops |-> <<>>]
    /\ step = [o \in Ops |-> 1]
    /\ locals = [o \in Ops |-> IF Kernel(o) = AssignVariable THEN {program[o].value} ELSE {}]
    /\ target = [o \in Ops |-> <<>>]
    /\ temp = [o \in Ops |-> {}]
    /\ output = [o \in Ops |-> None]
    /\ written = [x \in Vars |-> <<>>]

(***************************************************************************)
(* A kernel returns: the unlockers, the references to the Vars and those   *)
(* to tensors go.                                                          *)
(***************************************************************************)
Leave(o, how) ==
    /\ pc' = [pc EXCEPT ![o] = how]
    /\ mu' = [x \in Vars |-> mu[x] \ {o}]
    /\ vars' = [vars EXCEPT ![o] = <<>>]
    /\ step' = [step EXCEPT ![o] = 1]
    /\ locals' = [locals EXCEPT ![o] = {}]
    /\ target' = [target EXCEPT ![o] = <<>>]
    /\ temp' = [temp EXCEPT ![o] = {}]
    /\ UNCHANGED output

-----------------------------------------------------------------------------
(***************************************************************************)
(* LookupResource and LookupOrCreateResource, one handle after the other.  *)
(***************************************************************************)
Found(o, x) ==
    /\ vars' = [vars EXCEPT ![o] = Append(@, x)]
    /\ pc' = [pc EXCEPT ![o] = IF Len(vars[o]) + 1 < Len(program[o].handles) THEN "lookup"
                               ELSE IF Kernel(o).mutexes = "none" THEN "check" ELSE "lock"]
    /\ UNCHANGED <<program, kept, mu, contents, step, locals, target, temp, output>>

Handle(o) == program[o].handles[Len(vars[o]) + 1]

Lookup(o) ==
    /\ pc[o] = "lookup" /\ Kernel(o) # DestroyResource
    /\ resource[Handle(o)] # None
    /\ Found(o, resource[Handle(o)])
    /\ UNCHANGED <<resource, tensor, is_initialized, written>>

LookupFails(o) ==
    /\ pc[o] = "lookup" /\ Kernel(o) # DestroyResource /\ ~Kernel(o).creates
    /\ resource[Handle(o)] = None
    /\ Leave(o, "failed")
    /\ UNCHANGED <<program, kept, resource, tensor, is_initialized, contents, written>>

\* The Var that an assignment creates has its tensor and is initialized at once.
LookupOrCreate(o) ==
    /\ pc[o] = "lookup" /\ Kernel(o).creates
    /\ resource[Handle(o)] = None
    /\ \E x \in Vars :
          /\ ~Live(x)
          /\ resource' = [resource EXCEPT ![Handle(o)] = x]
          /\ tensor' = [tensor EXCEPT ![x] = IF Kernel(o) = AssignVariable THEN program[o].value ELSE None]
          /\ is_initialized' = [is_initialized EXCEPT ![x] = Kernel(o) = AssignVariable]
          /\ written' = [written EXCEPT ![x] = <<>>]
          /\ Found(o, x)

Destroy(o) ==
    /\ pc[o] = "lookup" /\ Kernel(o) = DestroyResource
    /\ resource' = [resource EXCEPT ![Handle(o)] = None]
    /\ Leave(o, IF resource[Handle(o)] = None THEN "failed" ELSE "done")
    /\ UNCHANGED <<program, kept, tensor, is_initialized, contents, written>>

-----------------------------------------------------------------------------
(***************************************************************************)
(* The mutexes, in the order of their addresses, each once; but a sparse   *)
(* Adagrad takes that of the variable, then that of the accumulator.       *)
(***************************************************************************)
\* Mutant of Unlocked: only the first variable is locked.
UnlockedFirst(o) == {x \in {vars[o][1]} : o \notin mu[x]}

Unlocked(o) == {x \in ToSet(vars[o]) : o \notin mu[x]}

\* Mutant of NextMutex: mutexes are taken in the order of the handles.
NextMutexAsGiven(o) ==
    vars[o][CHOOSE i \in DOMAIN vars[o] :
               vars[o][i] \in Unlocked(o) /\ \A j \in 1..i - 1 : vars[o][j] \notin Unlocked(o)]

NextMutex(o) ==
    IF Kernel(o).mutexes = "given" THEN vars[o][IF vars[o][1] \in Unlocked(o) THEN 1 ELSE 2]
    ELSE CHOOSE x \in Unlocked(o) : \A y \in Unlocked(o) : x <= y

\* Mutant of CanLock: an exclusive lock does not wait for the shared ones.
CanLockPastReaders(o, x) == \A p \in mu[x] : Kernel(o).shared \/ Kernel(p).shared

CanLock(o, x) == \A p \in mu[x] : Kernel(o).shared /\ Kernel(p).shared

Lock(o) ==
    /\ pc[o] = "lock"
    /\ CanLock(o, NextMutex(o))
    /\ mu' = [mu EXCEPT ![NextMutex(o)] = @ \cup {o}]
    /\ pc' = [pc EXCEPT ![o] = IF Unlocked(o) = {NextMutex(o)} THEN "check" ELSE "lock"]
    /\ UNCHANGED <<program, kept, resource, tensor, is_initialized, contents, vars, step,
                   locals, target, temp, output, written>>

-----------------------------------------------------------------------------
(***************************************************************************)
(* The checks after the mutexes are taken.  A Var without storage has no   *)
(* elements: it is refused because it has not the shape of the gradient.   *)
(***************************************************************************)
Valid(o) ==
    /\ Kernel(o).checks => \A x \in ToSet(vars[o]) : tensor[x] # None
    /\ Kernel(o) = ReadVariable => is_initialized[vars[o][1]]

TensorsOf(o) == [i \in DOMAIN vars[o] |-> tensor[vars[o][i]]]

\* Adam has taken references to the tensors before it prepares them.
Check(o) ==
    /\ pc[o] = "check" /\ Valid(o)
    /\ pc' = [pc EXCEPT ![o] = IF Kernel(o).prepares THEN "prepare" ELSE "launch"]
    /\ locals' = [locals EXCEPT ![o] = IF Kernel(o).holds THEN ToSet(TensorsOf(o)) ELSE @]
    /\ target' = [target EXCEPT ![o] = TensorsOf(o)]
    /\ UNCHANGED <<program, kept, resource, tensor, is_initialized, mu, contents, vars, step,
                   temp, output, written>>

CheckFails(o) ==
    /\ pc[o] = "check" /\ ~Valid(o)
    /\ Leave(o, "failed")
    /\ UNCHANGED <<program, kept, resource, tensor, is_initialized, contents, written>>

(***************************************************************************)
(* PrepareTensorForMusaUpdate, for one variable after the other; then the  *)
(* kernel refers to the tensors that these have now.                       *)
(***************************************************************************)
\* Mutant of Targets: the buffers are those from before.
TargetsBefore(o, now) == target[o]

\* The buffers of the variables, if these have the buffers now.
Targets(o, now) == [i \in DOMAIN vars[o] |-> now[vars[o][i]]]

\* Mutant of MustCopy: references of the program and of kernels are not counted.
MustCopyIfVars(o, x) == Kernel(o).holds \/ VarsOf(tensor[x]) # {x}

MustCopy(o, x) == ~RefCountIsOne(x)

Prepare(o) ==
    LET x    == vars[o][step[o]]
        last == step[o] = Len(vars[o])
    IN  /\ pc[o] = "prepare"
        /\ IF MustCopy(o, x)
           THEN /\ CanAllocate
                /\ tensor' = [tensor EXCEPT ![x] = allocate_temp]
                /\ contents' = [contents EXCEPT ![allocate_temp] = contents[tensor[x]]]
           ELSE UNCHANGED <<tensor, contents>>
        /\ pc' = [pc EXCEPT ![o] = IF last THEN "launch" ELSE "prepare"]
        /\ step' = [step EXCEPT ![o] = IF last THEN 1 ELSE @ + 1]
        /\ target' = [target EXCEPT ![o] = Targets(o, tensor')]
        /\ locals' = [locals EXCEPT ![o] = IF last THEN {} ELSE @]
        /\ UNCHANGED <<program, kept, resource, is_initialized, mu, vars, temp, output, written>>

-----------------------------------------------------------------------------
(***************************************************************************)
(* The launches.                                                           *)
(***************************************************************************)
Launch(o) == Kernel(o).launches[step[o]]

Launching(o, parts) == pc[o] = "launch" /\ Launch(o).do \in parts

Advance(o) ==
    /\ pc' = [pc EXCEPT ![o] = IF step[o] = Len(Kernel(o).launches) THEN "sync" ELSE "launch"]
    /\ step' = [step EXCEPT ![o] = @ + 1]
    /\ UNCHANGED <<program, kept, resource, mu, vars, target>>

\* The Var has the tensor of the assignment, not a copy.
Assign(o) ==
    LET x == vars[o][1]
    IN  /\ Launching(o, {"assign"})
        /\ Advance(o)
        /\ tensor' = [tensor EXCEPT ![x] = program[o].value]
        /\ written' = [written EXCEPT ![x] = <<>>]
        /\ UNCHANGED <<is_initialized, contents, locals, temp, output>>

\* Storage for a Var that has none; it is not initialized.
Create(o) ==
    LET x == vars[o][1]
    IN  /\ Launching(o, {"create"})
        /\ Advance(o)
        /\ IF tensor[x] = None
           THEN /\ CanAllocate
                /\ tensor' = [tensor EXCEPT ![x] = allocate_temp]
                /\ contents' = [contents EXCEPT ![allocate_temp] = Fresh(None)]
                /\ is_initialized' = [is_initialized EXCEPT ![x] = FALSE]
           ELSE UNCHANGED <<tensor, contents, is_initialized>>
        /\ UNCHANGED <<locals, temp, output, written>>

\* What is read is copied.  A variable without storage has no elements.
ReadOut(o) ==
    LET b == tensor[vars[o][1]]
    IN  [at |-> allocate_temp, what |-> IF b = None THEN Fresh(None) ELSE contents[b]]

Read(o) ==
    /\ Launching(o, {"read", "gather"})
    /\ CanAllocate
    /\ Advance(o)
    /\ output' = [output EXCEPT ![o] = ReadOut(o).at]
    /\ contents' = [contents EXCEPT ![ReadOut(o).at] = ReadOut(o).what]
    /\ UNCHANGED <<tensor, is_initialized, locals, temp, written>>

\* The part of an update that is computed from the moments.
LastBy(b) ==
    LET updates == contents[b].updates IN IF updates = <<>> THEN None ELSE Last(updates).by

Use(o) ==
    /\ Launching(o, {"use"})
    /\ Advance(o)
    /\ temp' = [temp EXCEPT ![o] = {LastBy(b) : b \in ToSet(Tail(target[o]))}]
    /\ UNCHANGED <<tensor, is_initialized, contents, locals, output, written>>

\* The positions of the variables that a launch updates.
Touched(o) ==
    IF Launch(o).do = "all" THEN DOMAIN vars[o] ELSE {Launch(o).at}

\* A Var without storage has no elements to update.
UpdateTensors(o) ==
    LET bs == {target[o][i] : i \in Touched(o)} \ {None}
        xs == {vars[o][i] : i \in Touched(o)}
        do == IF Launch(o).do = "all" THEN "whole" ELSE Launch(o).do
    IN  /\ Launching(o, {"scale", "add", "whole", "all"})
        /\ Advance(o)
        /\ contents' = [b \in Buffers |->
              IF b \in bs THEN [contents[b] EXCEPT !.updates = Append(@, Update(o, do))]
              ELSE contents[b]]
        /\ written' = [x \in Vars |-> IF x \in xs /\ do # "scale" /\ tensor[x] # None
                                      THEN Append(written[x], o) ELSE written[x]]
        /\ UNCHANGED <<tensor, is_initialized, locals, temp, output>>

-----------------------------------------------------------------------------
Return(o) ==
    /\ pc[o] = "sync"
    /\ Leave(o, "done")
    /\ is_initialized' = IF Kernel(o) = AssignVariable THEN [is_initialized EXCEPT ![vars[o][1]] = TRUE]
                         ELSE is_initialized
    /\ UNCHANGED <<program, kept, resource, tensor, contents, written>>

(***************************************************************************)
(* An allocation, a launch or the wait for the stream fails.               *)
(***************************************************************************)
Fail(o) ==
    /\ pc[o] \in Kernel(o).fails
    /\ Cardinality({p \in Ops : pc[p] = "failed"}) < MaxFailures
    /\ Leave(o, "failed")
    /\ UNCHANGED <<program, kept, resource, tensor, is_initialized, contents, written>>

Step(o) ==
    \/ Lookup(o) \/ LookupFails(o) \/ LookupOrCreate(o) \/ Destroy(o)
    \/ Lock(o)
    \/ Check(o) \/ CheckFails(o)
    \/ Prepare(o)
    \/ Assign(o) \/ Create(o) \/ Read(o) \/ Use(o) \/ UpdateTensors(o)
    \/ Return(o)

AllReturned == (\A o \in Ops : Returned(o)) /\ UNCHANGED state

Next == (\E o \in Ops : Step(o) \/ Fail(o)) \/ AllReturned

Spec == Init /\ [][Next]_state

-----------------------------------------------------------------------------
(***************************************************************************)
(* An optimizer that updates a moment in place does so in two launches.    *)
(* ReadVariableOp and ResourceGather return no half of that, whatever      *)
(* variable they read: they see the moment before both or after both,      *)
(* unless the update failed between them.                                  *)
(***************************************************************************)
IsWhole(updates, i) ==
    \/ updates[i].do # "scale"
    \/ pc[updates[i].by] = "failed"
    \/ i < Len(updates) /\ updates[i + 1].do = "add" /\ updates[i + 1].by = updates[i].by

ReadsAreWhole ==
    \A o \in Ops : output[o] # None =>
        LET updates == contents[output[o]].updates
        IN  \A i \in DOMAIN updates : IsWhole(updates, i)

(***************************************************************************)
(* The update of a variable is computed from the moments that the same     *)
(* kernel has updated just before, although another optimizer may use the  *)
(* same moments, or the variable as a moment.                              *)
(***************************************************************************)
OwnMoments ==
    \A b \in Buffers : \A i \in DOMAIN contents[b].updates :
        LET u == contents[b].updates[i] IN u.moments \subseteq {u.by}

(***************************************************************************)
(* A variable has every update that was made to it since it was assigned,  *)
(* whichever buffer it has got meanwhile.                                  *)
(***************************************************************************)
NoUpdateLost ==
    \A x \in Vars : Live(x) /\ tensor[x] # None =>
        \A o \in ToSet(written[x]) :
            \E i \in DOMAIN contents[tensor[x]].updates :
                LET u == contents[tensor[x]].updates[i] IN u.by = o /\ u.do # "scale"

(***************************************************************************)
(* A launch changes no tensor that ReadVariableOp or ResourceGather have   *)
(* returned.  A kernel that prepares its variables changes only what       *)
(* nothing but one of these refers to: no tensor that the program keeps,   *)
(* that another variable has, or that another kernel is to assign.         *)
(***************************************************************************)
UpdatesStayPrivate ==
    [][\A o \in Ops : pc[o] = "launch" /\ step'[o] # step[o] =>
          \A b \in Buffers : contents'[b] # contents[b] /\ b \notin FreeBuffers =>
              /\ \A p \in Ops : output[p] # b
              /\ Kernel(o).prepares =>
                    b \notin kept /\ KernelsOf(b) = {} /\ \E x \in ToSet(vars[o]) : VarsOf(b) = {x}]_state

(***************************************************************************)
(* No kernels wait for each other's mutexes.  As every kernel has an end,  *)
(* all of them return.                                                     *)
(***************************************************************************)
WaitsFor(o, p) == pc[o] = "lock" /\ p \in mu[NextMutex(o)]

NoCircularWait ==
    \A S \in SUBSET Ops : S # {} => \E o \in S : \A p \in S : ~WaitsFor(o, p)

=============================================================================
