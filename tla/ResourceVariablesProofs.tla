----------------------- MODULE ResourceVariablesProofs -----------------------
(***************************************************************************)
(* Theorems about ResourceVariables, for any finite number of kernels, any *)
(* programs and any addresses.  Kernels that take their mutexes in one     *)
(* order, of addresses or of names, never wait for each other in a circle. *)
(* Kernels that take their mutexes, in whatever order, lose no update,     *)
(* compute with moments of their own, and neither change nor show what is  *)
(* not theirs: what a kernel has to itself does not change under it.  So   *)
(* does ApplyAdam, which takes no mutex, beside kernels that only read.    *)
(***************************************************************************)
EXTENDS ResourceVariables, FiniteSetTheorems, SequenceTheorems, WellFoundedInduction, TLAPS

\* No kernel is ResourceSparseApplyAdagradV2, which takes its mutexes unsorted.
Sorted(p) == \A o \in Ops : p[o].kernel.mutexes # "given"

\* Every kernel that takes several mutexes takes two, in the order that rank
\* gives to the names of variables.
InRank(p, rank) ==
    \A o \in Ops :
       LET k == p[o].kernel
           h == p[o].handles
       IN  \/ k.of = 1
           \/ k.mutexes = "none"
           \/ k.mutexes = "given" /\ k.of = 2 /\ rank[h[1]] < rank[h[2]]

(***************************************************************************)
(* The programs that do not mix the two orders: nothing keeps a sparse     *)
(* Adagrad from a circle with an optimizer that sorts its mutexes, or with *)
(* another that names the same variables the other way round.              *)
(***************************************************************************)
OneOrder(p) == Sorted(p) \/ \E rank \in [Handles -> Nat] : InRank(p, rank)

Ordered == \A p \in Programs : OneOrder(p)

Places == {"lookup", "lock", "check", "prepare", "launch", "sync", "done", "failed"}

Types ==
    /\ program \in Programs
    /\ resource \in [Handles -> Vars \cup {None}]
    /\ mu \in [Vars -> SUBSET Ops]
    /\ vars \in [Ops -> Seq(Vars)]
    /\ pc \in [Ops -> Places]

\* A kernel that still looks its variables up has no mutex.
LookupInv ==
    \A o \in Ops : pc[o] = "lookup" =>
        /\ Len(vars[o]) < Len(program[o].handles)
        /\ \A x \in Vars : o \notin mu[x]

(***************************************************************************)
(* A kernel that takes its mutexes has found all its variables and has     *)
(* mutexes of these only: those of lower addresses than the rest or, if it *)
(* takes them as they are given, not the last one.                         *)
(***************************************************************************)
InOrder(o) ==
    /\ Kernel(o).mutexes # "none"
    /\ Len(vars[o]) = Len(program[o].handles)
    /\ Unlocked(o) # {}
    /\ \A x \in Vars : o \in mu[x] => x \in ToSet(vars[o])
    /\ IF Kernel(o).mutexes = "given"
       THEN vars[o][Len(vars[o])] \in Unlocked(o)
       ELSE \A x \in Vars : o \in mu[x] => \A y \in Unlocked(o) : x < y

LockInv == \A o \in Ops : pc[o] = "lock" => InOrder(o)

\* The names under which x was found, or would be.
NamesOf(x) ==
    {h \in Handles :
        \/ resource[h] = x
        \/ \E o \in Ops : \E i \in DOMAIN vars[o] : vars[o][i] = x /\ program[o].handles[i] = h}

\* As long as anybody refers to a Var, it has one name.
OneName == \A x \in Vars : \A g, h \in NamesOf(x) : g = h

IInv == Types /\ LookupInv /\ LockInv /\ OneName

LEMMA Minimum ==
    ASSUME NEW S \in SUBSET Nat, S # {}
    PROVE  \E x \in S : \A y \in S : x <= y
<1>1. PICK x \in S : \A y \in S : ~(<<y, x>> \in OpToRel(<, Nat))
  BY NatLessThanWellFounded, WFMin
<1>2. \A y \in S : ~(y < x)
  <2> TAKE y \in S
  <2>1. y \in Nat /\ x \in Nat
    OBVIOUS
  <2> QED BY <1>1, <2>1 DEF OpToRel
<1> QED BY <1>2

LEMMA UnlockedVars ==
    ASSUME Types, NEW o \in Ops
    PROVE  Unlocked(o) \subseteq Vars /\ Unlocked(o) \subseteq Nat
<1>1. vars[o] \in Seq(Vars)
  BY DEF Types
<1>2. ToSet(vars[o]) \subseteq Vars
  BY <1>1 DEF ToSet
<1> QED BY <1>2, ResourceVariablesAssumption DEF Unlocked

LEMMA NextIsLeast ==
    ASSUME Types, NEW o \in Ops, Unlocked(o) # {}, Kernel(o).mutexes # "given"
    PROVE  /\ NextMutex(o) \in Unlocked(o)
           /\ \A y \in Unlocked(o) : NextMutex(o) <= y
<1>1. \E x \in Unlocked(o) : \A y \in Unlocked(o) : x <= y
  BY UnlockedVars, Minimum
<1>2. NextMutex(o) = CHOOSE x \in Unlocked(o) : \A y \in Unlocked(o) : x <= y
  BY DEF NextMutex
<1> QED BY <1>1, <1>2

\* A kernel that takes several mutexes as they are given has two variables.
GivenFits == \A p \in Programs : \A o \in Ops : p[o].kernel.mutexes = "given" => p[o].kernel.of <= 2

LEMMA OrderedFits == Ordered => GivenFits
<1> SUFFICES ASSUME Ordered, NEW p \in Programs, NEW o \in Ops, p[o].kernel.mutexes = "given"
             PROVE  p[o].kernel.of <= 2
  BY DEF GivenFits
<1>1. PICK rank \in [Handles -> Nat] : InRank(p, rank)
  BY DEF Ordered, OneOrder, Sorted
<1>2. p[o].kernel.of \in {1, 2}
  BY <1>1 DEF InRank
<1> QED BY <1>2

\* How many variables a kernel has.
LEMMA KernelSize ==
    ASSUME Types, NEW o \in Ops
    PROVE  /\ program[o].handles \in Seq(Handles) /\ Len(program[o].handles) \in Nat
           /\ Len(program[o].handles) = Kernel(o).of /\ Kernel(o).of > 0
  BY ResourceVariablesAssumption DEF Types, Kernel

\* The next mutex as it is given: the last variable's, once the kernel has the others.
LEMMA NextAsGiven ==
    ASSUME Types, GivenFits, NEW o \in Ops, InOrder(o), Kernel(o).mutexes = "given"
    PROVE  /\ NextMutex(o) \in Unlocked(o)
           /\ \/ NextMutex(o) = vars[o][1] /\ vars[o][1] \in Unlocked(o)
              \/ NextMutex(o) = vars[o][2] /\ vars[o][1] \notin Unlocked(o) /\ Len(vars[o]) = 2
<1>1. Len(vars[o]) \in {1, 2}
  <2>1. Len(vars[o]) = Kernel(o).of /\ Kernel(o).of \in Nat /\ Kernel(o).of > 0
    BY KernelSize DEF InOrder
  <2>2. Kernel(o).of <= 2
    BY DEF GivenFits, Types, Kernel
  <2> QED BY <2>1, <2>2
<1>2. vars[o][Len(vars[o])] \in Unlocked(o)
  BY DEF InOrder
<1> DEFINE i == IF vars[o][1] \in Unlocked(o) THEN 1 ELSE 2
<1>0. NextMutex(o) = vars[o][i]
  BY DEF NextMutex
<1>3. CASE vars[o][1] \in Unlocked(o)
  <2>1. i = 1
    BY <1>3
  <2> HIDE DEF i
  <2> QED BY <1>0, <1>3, <2>1
<1>4. CASE vars[o][1] \notin Unlocked(o)
  <2>1. i = 2
    BY <1>4
  <2> HIDE DEF i
  <2>2. Len(vars[o]) = 2
    BY <1>1, <1>2, <1>4
  <2> QED BY <1>0, <1>2, <1>4, <2>1, <2>2
<1> QED BY <1>3, <1>4

LEMMA NextIsStillFree ==
    ASSUME Types, GivenFits, NEW o \in Ops, InOrder(o)
    PROVE  NextMutex(o) \in Unlocked(o)
  BY NextAsGiven, NextIsLeast DEF InOrder

(***************************************************************************)
(* Sorted: whoever waits, waits for a lower mutex than the one who has it. *)
(***************************************************************************)
LEMMA WaitsUp ==
    ASSUME IInv, Sorted(program), NEW o \in Ops, NEW p \in Ops, WaitsFor(o, p), pc[p] = "lock"
    PROVE  NextMutex(o) < NextMutex(p)
<1>0. pc[o] = "lock" /\ p \in mu[NextMutex(o)]
  BY DEF WaitsFor
<1>1. Types /\ InOrder(o) /\ InOrder(p)
  BY <1>0 DEF IInv, LockInv
<1>2. Kernel(o).mutexes # "given" /\ Kernel(p).mutexes # "given"
  BY DEF Sorted, Kernel
<1>3. NextMutex(o) \in Unlocked(o) /\ NextMutex(p) \in Unlocked(p)
  BY <1>1, <1>2, NextIsLeast DEF InOrder
<1>4. NextMutex(o) \in Vars
  BY <1>1, <1>3, UnlockedVars
<1> QED BY <1>0, <1>1, <1>2, <1>3, <1>4 DEF InOrder

(***************************************************************************)
(* In rank: whoever waits, waits for a mutex whose variable has a name of  *)
(* a lower rank.  The one who has it has one mutex and waits for a second, *)
(* and found the Var under the same name.                                  *)
(***************************************************************************)
NameOf(x) == CHOOSE h \in Handles : h \in NamesOf(x)

LEMMA NameFound ==
    ASSUME IInv, NEW o \in Ops, InOrder(o), NEW i \in DOMAIN vars[o]
    PROVE  NameOf(vars[o][i]) = program[o].handles[i] /\ NameOf(vars[o][i]) \in Handles
<1>1. i \in 1 .. Len(vars[o]) /\ vars[o][i] \in Vars
  BY DEF IInv, Types
<1>2. program[o].handles[i] \in Handles
  BY <1>1, KernelSize DEF InOrder, IInv
<1>3. program[o].handles[i] \in NamesOf(vars[o][i])
  BY <1>2 DEF NamesOf
<1>4. \A h \in NamesOf(vars[o][i]) : h = program[o].handles[i]
  BY <1>1, <1>3 DEF IInv, OneName
<1> QED BY <1>2, <1>3, <1>4 DEF NameOf

LEMMA WaitsUpInRank ==
    ASSUME IInv, GivenFits, NEW rank \in [Handles -> Nat], InRank(program, rank),
           NEW o \in Ops, NEW p \in Ops, WaitsFor(o, p), pc[p] = "lock"
    PROVE  rank[NameOf(NextMutex(o))] < rank[NameOf(NextMutex(p))]
<1>0. pc[o] = "lock" /\ p \in mu[NextMutex(o)]
  BY DEF WaitsFor
<1>1. Types /\ InOrder(o) /\ InOrder(p)
  BY <1>0 DEF IInv, LockInv
<1>2. NextMutex(o) \in Vars
  BY <1>1, NextIsStillFree, UnlockedVars
<1>3. NextMutex(o) \in ToSet(vars[p]) /\ NextMutex(o) \notin Unlocked(p)
  BY <1>0, <1>1, <1>2 DEF InOrder, Unlocked
<1>4. vars[p] \in Seq(Vars) /\ Len(vars[p]) = Kernel(p).of /\ Len(vars[p]) = Len(program[p].handles)
  BY <1>1, KernelSize DEF Types, InOrder
<1>5. Len(vars[p]) # 1
  <2> SUFFICES ASSUME Len(vars[p]) = 1 PROVE FALSE
    OBVIOUS
  <2>1. ToSet(vars[p]) = {vars[p][1]}
    BY <1>4 DEF ToSet
  <2>2. Unlocked(p) \subseteq {NextMutex(o)}
    BY <1>3, <2>1 DEF Unlocked
  <2> QED BY <1>1, <1>3, <2>2 DEF InOrder
<1>6. /\ Kernel(p).mutexes = "given" /\ Kernel(p).of = 2
      /\ rank[program[p].handles[1]] < rank[program[p].handles[2]]
  BY <1>1, <1>4, <1>5 DEF InRank, InOrder, Kernel
<1>7. DOMAIN vars[p] = {1, 2} /\ ToSet(vars[p]) = {vars[p][1], vars[p][2]}
  <2>1. DOMAIN vars[p] = 1 .. Len(vars[p])
    BY <1>1 DEF Types
  <2>2. Len(vars[p]) = 2
    BY <1>4, <1>6
  <2>3. DOMAIN vars[p] = {1, 2}
    BY <2>1, <2>2
  <2> QED BY <2>3 DEF ToSet
<1>8. vars[p][2] \in Unlocked(p)
  BY <1>1, <1>4, <1>6 DEF InOrder
<1>9. NextMutex(o) = vars[p][1] /\ NextMutex(p) = vars[p][2]
  BY <1>1, <1>3, <1>6, <1>7, <1>8, NextAsGiven
<1> QED BY <1>1, <1>6, <1>7, <1>9, NameFound

(***************************************************************************)
(* In a circle, the number of kernels that wait for a higher mutex than a  *)
(* kernel does would have no minimum, if all wait upwards.                 *)
(***************************************************************************)
LEMMA NoCircle ==
    ASSUME NEW key \in [Ops -> Nat],
           \A o, p \in Ops : WaitsFor(o, p) /\ pc[p] = "lock" => key[o] < key[p]
    PROVE  NoCircularWait
<1> SUFFICES ASSUME NEW S \in SUBSET Ops, S # {},
                    \A o \in S : \E p \in S : WaitsFor(o, p)
             PROVE  FALSE
  BY DEF NoCircularWait
<1> DEFINE Above(o) == {p \in S : key[p] > key[o]}
           Counts == {Cardinality(Above(o)) : o \in S}
<1>1. \A o \in S : pc[o] = "lock" /\ key[o] \in Nat
  BY DEF WaitsFor
<1>2. \A o \in S : IsFiniteSet(Above(o)) /\ Cardinality(Above(o)) \in Nat
  <2> TAKE o \in S
  <2>1. Above(o) \in SUBSET Ops /\ IsFiniteSet(Ops)
    BY ResourceVariablesAssumption
  <2>2. IsFiniteSet(Above(o))
    BY <2>1, FS_Subset
  <2> QED BY <2>2, FS_CardinalityType
<1>3. Counts \in SUBSET Nat /\ Counts # {}
  BY <1>2
<1>4. PICK n \in Counts : \A k \in Counts : n <= k
  <2> HIDE DEF Counts
  <2> QED BY <1>3, Minimum
<1>5. PICK o \in S : n = Cardinality(Above(o))
  BY <1>4
<1>6. PICK p \in S : WaitsFor(o, p)
  OBVIOUS
<1>7. key[o] < key[p]
  BY <1>1, <1>6
<1>8. Above(p) \in SUBSET Above(o) /\ p \in Above(o) /\ p \notin Above(p)
  BY <1>1, <1>7
<1>9. Cardinality(Above(p)) \in Counts
  OBVIOUS
<1> HIDE DEF Above, Counts
<1>10. Above(p) # Above(o)
  BY <1>8
<1>11. Cardinality(Above(p)) <= Cardinality(Above(o)) /\ Cardinality(Above(p)) # Cardinality(Above(o))
  BY <1>2, <1>8, <1>10, FS_Subset
<1> QED BY <1>2, <1>4, <1>5, <1>9, <1>11

LEMMA NoWaitInCircle == ASSUME IInv, Ordered PROVE NoCircularWait
<1>0. Types /\ GivenFits /\ program \in Programs
  BY OrderedFits DEF IInv, Types
<1>1. CASE Sorted(program)
  <2> DEFINE key == [o \in Ops |-> IF pc[o] = "lock" THEN NextMutex(o) ELSE 0]
  <2>1. \A o \in Ops : pc[o] = "lock" => NextMutex(o) \in Nat
    <3> SUFFICES ASSUME NEW o \in Ops, pc[o] = "lock" PROVE NextMutex(o) \in Nat
      OBVIOUS
    <3>1. InOrder(o)
      BY DEF IInv, LockInv
    <3> QED BY <1>0, <3>1, NextIsStillFree, UnlockedVars
  <2>2. key \in [Ops -> Nat]
    BY <2>1
  <2>3. \A o, p \in Ops : WaitsFor(o, p) /\ pc[p] = "lock" => key[o] < key[p]
    <3> SUFFICES ASSUME NEW o \in Ops, NEW p \in Ops, WaitsFor(o, p), pc[p] = "lock"
                 PROVE  key[o] < key[p]
      OBVIOUS
    <3>1. NextMutex(o) < NextMutex(p) /\ pc[o] = "lock"
      BY <1>1, WaitsUp DEF WaitsFor
    <3> QED BY <3>1
  <2> HIDE DEF key
  <2> QED BY <2>2, <2>3, NoCircle
<1>2. CASE \E rank \in [Handles -> Nat] : InRank(program, rank)
  <2>1. PICK rank \in [Handles -> Nat] : InRank(program, rank)
    BY <1>2
  <2> DEFINE key == [o \in Ops |-> IF pc[o] = "lock" THEN rank[NameOf(NextMutex(o))] ELSE 0]
  <2>2. \A o \in Ops : pc[o] = "lock" => rank[NameOf(NextMutex(o))] \in Nat
    <3> SUFFICES ASSUME NEW o \in Ops, pc[o] = "lock" PROVE rank[NameOf(NextMutex(o))] \in Nat
      OBVIOUS
    <3>1. InOrder(o)
      BY DEF IInv, LockInv
    <3>2. NextMutex(o) \in ToSet(vars[o])
      BY <1>0, <3>1, NextIsStillFree DEF Unlocked
    <3>3. PICK i \in DOMAIN vars[o] : NextMutex(o) = vars[o][i]
      BY <3>2 DEF ToSet
    <3> QED BY <3>1, <3>3, NameFound
  <2>3. key \in [Ops -> Nat]
    BY <2>2
  <2>4. \A o, p \in Ops : WaitsFor(o, p) /\ pc[p] = "lock" => key[o] < key[p]
    <3> SUFFICES ASSUME NEW o \in Ops, NEW p \in Ops, WaitsFor(o, p), pc[p] = "lock"
                 PROVE  key[o] < key[p]
      OBVIOUS
    <3>1. rank[NameOf(NextMutex(o))] < rank[NameOf(NextMutex(p))] /\ pc[o] = "lock"
      BY <1>0, <2>1, WaitsUpInRank DEF WaitsFor
    <3> QED BY <3>1
  <2> HIDE DEF key
  <2> QED BY <2>3, <2>4, NoCircle
<1> QED BY <1>0, <1>1, <1>2 DEF Ordered, OneOrder

-----------------------------------------------------------------------------
LEMMA InitInv == Init => IInv
<1> SUFFICES ASSUME Init PROVE IInv
    OBVIOUS
<1>1. \A o \in Ops : Len(program[o].handles) > 0
  BY ResourceVariablesAssumption DEF Init
<1>2. Types
  <2>1. resource \in [Handles -> Vars \cup {None}]
    BY ResourceVariablesAssumption DEF Init
  <2>2. mu \in [Vars -> SUBSET Ops]
    BY DEF Init
  <2>3. vars \in [Ops -> Seq(Vars)] /\ pc \in [Ops -> Places]
    BY DEF Init, Places
  <2> QED BY <2>1, <2>2, <2>3 DEF Init, Types
<1>3. LookupInv
  BY <1>1 DEF Init, LookupInv
<1>4. LockInv
  BY DEF Init, LockInv
<1>5. OneName
  BY <1>1, ResourceVariablesAssumption DEF Init, OneName, NamesOf
<1> QED BY <1>2, <1>3, <1>4, <1>5 DEF IInv

(***************************************************************************)
(* A Var keeps the name it has as long as nobody finds another under it;   *)
(* a new one has none.                                                     *)
(***************************************************************************)
LEMMA NamesKept ==
    ASSUME OneName, \A x \in Vars : NamesOf(x)' \subseteq NamesOf(x)
    PROVE  OneName'
  BY DEF OneName

(***************************************************************************)
(* Steps that take no mutex and look up no variable: a kernel returns, or  *)
(* goes on to something else with what it has.                             *)
(***************************************************************************)
LEMMA LeaveKeeps ==
    ASSUME IInv, NEW o \in Ops, NEW how \in {"done", "failed"}, Leave(o, how),
           program' = program, resource' \in [Handles -> Vars \cup {None}],
           \A h \in Handles : resource'[h] \in {resource[h], None}
    PROVE  IInv'
<1>1. /\ pc' = [pc EXCEPT ![o] = how] /\ mu' = [x \in Vars |-> mu[x] \ {o}]
      /\ vars' = [vars EXCEPT ![o] = <<>>]
  BY DEF Leave
<1>2. Types'
  <2>1. mu' \in [Vars -> SUBSET Ops]
    BY <1>1 DEF IInv, Types
  <2>2. vars' \in [Ops -> Seq(Vars)]
    BY <1>1 DEF IInv, Types
  <2>3. pc' \in [Ops -> Places]
    BY <1>1 DEF IInv, Types, Places
  <2> QED BY <2>1, <2>2, <2>3 DEF IInv, Types
<1>3. \A p \in Ops : pc'[p] \in {"lookup", "lock"} =>
         /\ pc'[p] = pc[p] /\ vars'[p] = vars[p]
         /\ \A x \in Vars : p \in mu'[x] <=> p \in mu[x]
  BY <1>1 DEF IInv, Types
<1>4. LookupInv'
  BY <1>3 DEF IInv, LookupInv
<1>5. \A p \in Ops : pc'[p] = "lock" => Unlocked(p)' = Unlocked(p)
  <2> TAKE p \in Ops
  <2> HAVE pc'[p] = "lock"
  <2>1. vars'[p] = vars[p] /\ \A x \in Vars : p \in mu'[x] <=> p \in mu[x]
    BY <1>3
  <2>2. ToSet(vars[p]) \subseteq Vars
    BY DEF ToSet, IInv, Types
  <2> QED BY <2>1, <2>2 DEF Unlocked
<1>6. LockInv'
  BY <1>3, <1>5 DEF IInv, LockInv, InOrder, Kernel
<1>7. \A p \in Ops : vars'[p] = vars[p] \/ vars'[p] = <<>>
  BY <1>1 DEF IInv, Types
<1>8. \A x \in Vars : NamesOf(x)' \subseteq NamesOf(x)
  <2> SUFFICES ASSUME NEW x \in Vars, NEW h \in NamesOf(x)' PROVE h \in NamesOf(x)
    OBVIOUS
  <2>1. CASE resource'[h] = x
    <3>1. resource[h] = x
      BY <2>1, ResourceVariablesAssumption DEF NamesOf
    <3> QED BY <3>1 DEF NamesOf
  <2>2. CASE \E p \in Ops : \E i \in DOMAIN vars'[p] :
                vars'[p][i] = x /\ program'[p].handles[i] = h
    <3>1. PICK p \in Ops : \E i \in DOMAIN vars'[p] : vars'[p][i] = x /\ program'[p].handles[i] = h
      BY <2>2
    <3>2. vars'[p] = vars[p]
      BY <1>7, <3>1
    <3> QED BY <3>1, <3>2 DEF NamesOf
  <2> QED BY <2>1, <2>2 DEF NamesOf
<1> QED BY <1>2, <1>4, <1>6, <1>8, NamesKept DEF IInv

LEMMA GoOnKeeps ==
    ASSUME IInv, NEW o \in Ops, NEW to \in {"check", "prepare", "launch", "sync"},
           pc' = [pc EXCEPT ![o] = to], UNCHANGED <<program, resource, mu, vars>>
    PROVE  IInv'
<1>1. Types'
  BY DEF IInv, Types, Places
<1>2. \A p \in Ops : pc'[p] \in {"lookup", "lock"} => pc'[p] = pc[p]
  BY DEF IInv, Types
<1>3. LookupInv'
  BY <1>2 DEF IInv, LookupInv
<1>4. LockInv'
  BY <1>2 DEF IInv, LockInv, InOrder, Unlocked, Kernel
<1>5. OneName'
  BY DEF IInv, OneName, NamesOf
<1> QED BY <1>1, <1>3, <1>4, <1>5 DEF IInv

\* The last variable that is looked up leads to the mutexes, none of which is held.
LEMMA FoundKeeps ==
    ASSUME IInv, NEW o \in Ops, pc[o] = "lookup", NEW x \in Vars, Found(o, x),
           resource' \in [Handles -> Vars \cup {None}],
           NamesOf(x) \subseteq {Handle(o)},
           \A h \in Handles : resource'[h] = resource[h] \/ (h = Handle(o) /\ resource'[h] = x)
    PROVE  IInv'
<1> DEFINE to == IF Len(vars[o]) + 1 < Len(program[o].handles) THEN "lookup"
                 ELSE IF Kernel(o).mutexes = "none" THEN "check" ELSE "lock"
<1>1. /\ vars' = [vars EXCEPT ![o] = Append(@, x)] /\ pc' = [pc EXCEPT ![o] = to]
      /\ UNCHANGED <<program, mu>>
  BY DEF Found
<1>2. vars[o] \in Seq(Vars)
  BY DEF IInv, Types
<1>3. /\ Append(vars[o], x) \in Seq(Vars) /\ Len(Append(vars[o], x)) = Len(vars[o]) + 1
      /\ x \in ToSet(Append(vars[o], x)) /\ Append(vars[o], x)[Len(vars[o]) + 1] = x
      /\ Len(vars[o]) \in Nat
  <2>1. /\ Append(vars[o], x) \in Seq(Vars) /\ Len(Append(vars[o], x)) = Len(vars[o]) + 1
        /\ Append(vars[o], x)[Len(vars[o]) + 1] = x
    BY <1>2
  <2>2. Len(vars[o]) + 1 \in DOMAIN Append(vars[o], x)
    BY <1>2, <2>1
  <2> QED BY <2>1, <2>2 DEF ToSet
<1> HIDE DEF to
<1>4. Types'
  <2>1. to \in Places
    BY DEF to, Places
  <2> QED BY <1>1, <1>3, <2>1 DEF IInv, Types
<1>5. \A p \in Ops : p # o => pc'[p] = pc[p] /\ vars'[p] = vars[p]
  BY <1>1 DEF IInv, Types
<1>6. pc'[o] = to /\ vars'[o] = Append(vars[o], x)
  BY <1>1 DEF IInv, Types
<1>7. \A y \in Vars : o \notin mu[y]
  BY DEF IInv, LookupInv
<1>8. LookupInv'
  <2> SUFFICES ASSUME NEW p \in Ops, pc'[p] = "lookup"
               PROVE  Len(vars'[p]) < Len(program'[p].handles) /\ \A y \in Vars : p \notin mu'[y]
    BY DEF LookupInv
  <2>1. CASE p = o
    BY <1>1, <1>3, <1>6, <1>7, <2>1 DEF to
  <2>2. CASE p # o
    BY <1>1, <1>5, <2>2 DEF IInv, LookupInv
  <2> QED BY <2>1, <2>2
<1>9. LockInv'
  <2> SUFFICES ASSUME NEW p \in Ops, pc'[p] = "lock"
               PROVE  InOrder(p)'
    BY DEF LockInv
  <2>1. CASE p = o
    <3>1. x \in Unlocked(o)'
      BY <1>1, <1>3, <1>6, <1>7 DEF Unlocked
    <3>2. to = "lock" /\ Kernel(o).mutexes # "none" /\ ~(Len(vars[o]) + 1 < Len(program[o].handles))
      BY <1>6, <2>1 DEF to
    <3>3. /\ Len(vars[o]) < Len(program[o].handles) /\ Len(vars[o]) \in Nat
          /\ Len(program[o].handles) \in Nat
      BY <1>3, KernelSize DEF IInv, LookupInv
    <3>4. Len(vars'[o]) = Len(program[o].handles)
      BY <1>3, <1>6, <3>2, <3>3
    <3>5. vars'[o][Len(vars'[o])] = x
      BY <1>3, <1>6
    <3> QED BY <1>1, <1>7, <2>1, <3>1, <3>2, <3>4, <3>5 DEF InOrder, Kernel
  <2>2. CASE p # o
    <3>1. Unlocked(p)' = Unlocked(p) /\ InOrder(p)
      BY <1>1, <1>5, <2>2 DEF IInv, LockInv, Unlocked
    <3> QED BY <1>1, <1>5, <2>2, <3>1 DEF InOrder, Kernel
  <2> QED BY <2>1, <2>2
<1>10. \A p \in Ops : \A i \in DOMAIN vars'[p] :
          \/ i \in DOMAIN vars[p] /\ vars'[p][i] = vars[p][i]
          \/ p = o /\ vars'[p][i] = x /\ program[p].handles[i] = Handle(o)
  <2> SUFFICES ASSUME NEW p \in Ops, NEW i \in DOMAIN vars'[p]
               PROVE  \/ i \in DOMAIN vars[p] /\ vars'[p][i] = vars[p][i]
                      \/ p = o /\ vars'[p][i] = x /\ program[p].handles[i] = Handle(o)
    OBVIOUS
  <2>1. CASE p = o
    <3>1. i \in 1 .. Len(vars[o]) + 1 /\ 1 .. Len(vars[o]) = DOMAIN vars[o]
      BY <1>2, <1>3, <1>6, <2>1
    <3>2. i # Len(vars[o]) + 1 => i \in DOMAIN vars[o] /\ Append(vars[o], x)[i] = vars[o][i]
      BY <1>2, <1>3, <3>1
    <3> QED BY <1>3, <1>6, <2>1, <3>2 DEF Handle
  <2> QED BY <1>5, <2>1
<1>11. ASSUME NEW y \in Vars
       PROVE  NamesOf(y)' \subseteq NamesOf(y) \cup (IF y = x THEN {Handle(o)} ELSE {})
  <2> SUFFICES ASSUME NEW h \in NamesOf(y)', h \notin NamesOf(y)
               PROVE  y = x /\ h = Handle(o)
    OBVIOUS
  <2>1. CASE resource'[h] = y
    BY <2>1 DEF NamesOf
  <2>2. CASE \E p \in Ops : \E i \in DOMAIN vars'[p] :
                vars'[p][i] = y /\ program'[p].handles[i] = h
    <3>1. PICK p \in Ops : \E i \in DOMAIN vars'[p] : vars'[p][i] = y /\ program[p].handles[i] = h
      BY <1>1, <2>2
    <3> QED BY <1>10, <3>1 DEF NamesOf
  <2> QED BY <2>1, <2>2 DEF NamesOf
<1>12. OneName'
  BY <1>11 DEF IInv, OneName
<1> QED BY <1>4, <1>8, <1>9, <1>12 DEF IInv

(***************************************************************************)
(* The mutex that is taken is higher than those held and lower than the    *)
(* rest, or it is the first of two.                                        *)
(***************************************************************************)
LEMMA LastStaysUnlocked ==
    ASSUME Types, GivenFits, NEW o \in Ops, InOrder(o), Kernel(o).mutexes = "given",
           Unlocked(o) # {NextMutex(o)}
    PROVE  vars[o][Len(vars[o])] # NextMutex(o)
<1> SUFFICES ASSUME vars[o][Len(vars[o])] = NextMutex(o) PROVE FALSE
  OBVIOUS
<1>1. Len(vars[o]) \in {1, 2}
  <2>1. Len(vars[o]) = Kernel(o).of /\ Kernel(o).of \in Nat /\ Kernel(o).of > 0
    BY KernelSize DEF InOrder
  <2>2. Kernel(o).of <= 2
    BY DEF GivenFits, Types, Kernel
  <2> QED BY <2>1, <2>2
<1>2. DOMAIN vars[o] \subseteq {1, Len(vars[o])}
  <2>1. DOMAIN vars[o] = 1 .. Len(vars[o])
    BY DEF Types
  <2> QED BY <1>1, <2>1
<1>3. \A x \in ToSet(vars[o]) : x = vars[o][1] \/ x = NextMutex(o)
  BY <1>2 DEF ToSet
<1>4. vars[o][1] = NextMutex(o) \/ vars[o][1] \notin Unlocked(o)
  BY NextAsGiven
<1>5. Unlocked(o) \subseteq {NextMutex(o)}
  BY <1>3, <1>4 DEF Unlocked
<1> QED BY <1>5, NextAsGiven

LEMMA LockKeeps ==
    ASSUME IInv, GivenFits, NEW o \in Ops, Lock(o)
    PROVE  IInv'
<1> DEFINE next == NextMutex(o)
           to   == IF Unlocked(o) = {next} THEN "check" ELSE "lock"
<1>1. /\ pc[o] = "lock" /\ mu' = [mu EXCEPT ![next] = @ \cup {o}]
      /\ pc' = [pc EXCEPT ![o] = to] /\ UNCHANGED <<program, resource, vars>>
  BY DEF Lock
<1>0. Types /\ InOrder(o)
  BY <1>1 DEF IInv, LockInv
<1>2. /\ next \in Unlocked(o)
      /\ Kernel(o).mutexes # "given" => \A y \in Unlocked(o) : next <= y
      /\ Kernel(o).mutexes = "given" /\ Unlocked(o) # {next} => vars[o][Len(vars[o])] # next
  BY <1>0, NextIsStillFree, NextIsLeast, LastStaysUnlocked DEF InOrder
<1>3. Unlocked(o) \subseteq Vars /\ Vars \subseteq Nat
  BY UnlockedVars, ResourceVariablesAssumption DEF IInv
<1> HIDE DEF next
<1>4. Types'
  <2>1. to \in Places
    BY DEF Places
  <2> HIDE DEF to
  <2> QED BY <1>1, <1>2, <1>3, <2>1 DEF IInv, Types
<1>5. \A x \in Vars : mu'[x] = IF x = next THEN mu[x] \cup {o} ELSE mu[x]
  BY <1>1 DEF IInv, Types
<1>6. \A p \in Ops : pc'[p] = IF p = o THEN to ELSE pc[p]
  BY <1>1 DEF IInv, Types
<1>7. LookupInv'
  BY <1>1, <1>5, <1>6 DEF IInv, LookupInv
<1>8. LockInv'
  <2> SUFFICES ASSUME NEW p \in Ops, pc'[p] = "lock"
               PROVE  InOrder(p)'
    BY DEF LockInv
  <2>0. ToSet(vars[p]) \subseteq Vars
    BY DEF ToSet, IInv, Types
  <2>1. CASE p = o
    <3>1. Unlocked(o) # {next}
      BY <1>6, <2>1
    <3>2. Unlocked(o)' = Unlocked(o) \ {next}
      <4>1. next \in Unlocked(o)
        BY <1>2
      <4> QED BY <1>1, <1>5, <2>0, <2>1, <4>1 DEF Unlocked
    <3>3. Unlocked(o)' # {}
      BY <1>2, <3>1, <3>2
    <3>4. ASSUME Kernel(o).mutexes # "given"
          PROVE  \A x \in Vars : o \in mu'[x] => \A y \in Unlocked(o)' : x < y
      <4> SUFFICES ASSUME NEW x \in Vars, o \in mu'[x], NEW y \in Unlocked(o)'
                   PROVE  x < y
        OBVIOUS
      <4>1. y \in Unlocked(o) /\ y # next
        BY <3>2
      <4>2. next \in Nat /\ y \in Nat /\ next <= y
        BY <1>2, <1>3, <3>4, <4>1
      <4>3. CASE x = next
        BY <4>1, <4>2, <4>3
      <4>4. CASE x # next
        BY <1>0, <1>5, <3>4, <4>1, <4>4 DEF InOrder
      <4> QED BY <4>3, <4>4
    <3>5. Kernel(o).mutexes = "given" => vars'[o][Len(vars'[o])] \in Unlocked(o)'
      BY <1>0, <1>1, <1>2, <3>1, <3>2 DEF InOrder
    <3>6. \A x \in Vars : o \in mu'[x] => x \in ToSet(vars'[o])
      BY <1>0, <1>1, <1>2, <1>5 DEF InOrder, Unlocked
    <3>7. Kernel(o)' = Kernel(o) /\ vars'[o] = vars[o] /\ program' = program
      BY <1>1 DEF Kernel
    <3> QED BY <1>0, <2>1, <3>3, <3>4, <3>5, <3>6, <3>7 DEF InOrder
  <2>2. CASE p # o
    <3>1. \A x \in Vars : p \in mu'[x] <=> p \in mu[x]
      BY <1>5, <2>2
    <3>2. Unlocked(p)' = Unlocked(p)
      BY <1>1, <2>0, <3>1 DEF Unlocked
    <3>3. InOrder(p)
      BY <1>6, <2>2 DEF IInv, LockInv
    <3> QED BY <1>1, <3>1, <3>2, <3>3 DEF InOrder, Kernel
  <2> QED BY <2>1, <2>2
<1>9. OneName'
  BY <1>1 DEF IInv, OneName, NamesOf
<1> QED BY <1>4, <1>7, <1>8, <1>9 DEF IInv

LEMMA HandleType ==
    ASSUME IInv, NEW o \in Ops, pc[o] = "lookup"
    PROVE  Handle(o) \in Handles
<1>1. Len(vars[o]) \in Nat /\ Len(vars[o]) < Len(program[o].handles)
  BY DEF IInv, Types, LookupInv
<1>2. program[o].handles \in Seq(Handles)
  BY ResourceVariablesAssumption DEF IInv, Types
<1> QED BY <1>1, <1>2 DEF Handle

LEMMA StepKeeps ==
    ASSUME IInv, GivenFits, NEW o \in Ops, Step(o) \/ Fail(o)
    PROVE  IInv'
<1>0. resource \in [Handles -> Vars \cup {None}] /\ pc \in [Ops -> Places]
  BY DEF IInv, Types
<1>1. CASE Lookup(o)
  <2> DEFINE x == resource[Handle(o)]
  <2>1. pc[o] = "lookup" /\ x \in Vars /\ Handle(o) \in Handles
    BY <1>0, <1>1, HandleType DEF Lookup
  <2>2. Found(o, x) /\ resource' = resource
    BY <1>1 DEF Lookup
  <2>3. NamesOf(x) \subseteq {Handle(o)}
    BY <2>1 DEF IInv, OneName, NamesOf
  <2>4. /\ resource' \in [Handles -> Vars \cup {None}]
        /\ \A h \in Handles : resource'[h] = resource[h]
    BY <1>0, <2>2
  <2> HIDE DEF x
  <2> QED BY <2>1, <2>2, <2>3, <2>4, FoundKeeps
<1>2. CASE LookupFails(o)
  BY <1>0, <1>2, LeaveKeeps DEF LookupFails
<1>3. CASE LookupOrCreate(o)
  <2>1. pc[o] = "lookup"
    BY <1>3 DEF LookupOrCreate
  <2>2. PICK x \in Vars :
           ~Live(x) /\ resource' = [resource EXCEPT ![Handle(o)] = x] /\ Found(o, x)
    BY <1>3 DEF LookupOrCreate
  <2>3. /\ resource' \in [Handles -> Vars \cup {None}]
        /\ \A h \in Handles : resource'[h] = resource[h] \/ (h = Handle(o) /\ resource'[h] = x)
    BY <1>0, <2>2
  <2>4. NamesOf(x) = {}
    BY <2>2 DEF NamesOf, Live, ToSet
  <2> QED BY <2>1, <2>2, <2>3, <2>4, FoundKeeps
<1>4. CASE Destroy(o)
  <2>1. /\ resource' \in [Handles -> Vars \cup {None}]
        /\ \A h \in Handles : resource'[h] \in {resource[h], None}
    BY <1>0, <1>4 DEF Destroy
  <2>2. CASE Leave(o, "failed")
    BY <1>4, <2>1, <2>2, LeaveKeeps DEF Destroy
  <2>3. CASE Leave(o, "done")
    BY <1>4, <2>1, <2>3, LeaveKeeps DEF Destroy
  <2> QED BY <1>4, <2>2, <2>3 DEF Destroy
<1>5. CASE Lock(o)
  BY <1>5, LockKeeps
<1>6. CASE Check(o)
  BY <1>6, GoOnKeeps DEF Check
<1>7. CASE CheckFails(o)
  BY <1>0, <1>7, LeaveKeeps DEF CheckFails
<1>8. CASE Prepare(o)
  BY <1>8, GoOnKeeps DEF Prepare
<1>9. ASSUME Advance(o) PROVE IInv'
  BY <1>9, GoOnKeeps DEF Advance
<1>10. CASE Assign(o)
  BY <1>9, <1>10 DEF Assign
<1>11. CASE Create(o)
  BY <1>9, <1>11 DEF Create
<1>12. CASE Read(o)
  BY <1>9, <1>12 DEF Read
<1>13. CASE Use(o)
  BY <1>9, <1>13 DEF Use
<1>14. CASE UpdateTensors(o)
  BY <1>9, <1>14 DEF UpdateTensors
<1>15. CASE Return(o)
  BY <1>0, <1>15, LeaveKeeps DEF Return
<1>16. CASE Fail(o)
  BY <1>0, <1>16, LeaveKeeps DEF Fail
<1> QED BY <1>1, <1>2, <1>3, <1>4, <1>5, <1>6, <1>7, <1>8, <1>10, <1>11, <1>12, <1>13,
           <1>14, <1>15, <1>16 DEF Step

LEMMA NextKeeps == ASSUME GivenFits PROVE IInv /\ [Next]_state => IInv'
<1> SUFFICES ASSUME IInv, [Next]_state PROVE IInv'
    OBVIOUS
<1>1. CASE \E o \in Ops : Step(o) \/ Fail(o)
  BY <1>1, StepKeeps
<1>2. CASE UNCHANGED state
  BY <1>2 DEF state, vars_of_kernels, IInv, Types, LookupInv, LockInv, InOrder, Unlocked,
     Kernel, OneName, NamesOf
<1> QED BY <1>1, <1>2 DEF Next, AllReturned

(***************************************************************************)
(* Kernels that sort their mutexes by address (LockResourceVariables in    *)
(* musa_applyrmsprop_op.cc, and each optimizer in its own way) never wait  *)
(* for each other in a circle, whatever variables they share and in        *)
(* whatever order they name them; nor do sparse Adagrads, which lock the   *)
(* variable and then the accumulator, as long as they name these in one    *)
(* order and run beside kernels that take one mutex; also when a variable  *)
(* is destroyed and created again while kernels hold the old one           *)
(* (musa_resource_sparse_apply_ada_grad_op.cc).                            *)
(***************************************************************************)
THEOREM NoDeadlock == ASSUME Ordered PROVE Spec => []NoCircularWait
<1>1. IInv => NoCircularWait
  BY NoWaitInCircle
<1>2. IInv /\ [Next]_state => IInv'
  BY OrderedFits, NextKeeps
<1> QED BY <1>1, <1>2, InitInv, PTL DEF Spec

-----------------------------------------------------------------------------
(* The kernels *)

\* The kernels that take the mutexes of their variables: all but ApplyAdam.
LockingKernels ==
    {AssignVariable, VariableV2, ReadVariable, ResourceGather, DestroyResource,
     ResourceScatterAdd, AssignUpdateVariable, ResourceApplyGradientDescent,
     ResourceApplyAdagradV2, ResourceApplyAdaMax, ResourceApplyAdam,
     ResourceApplyAdamMixed, ResourceApplyRMSProp, ResourceApplyCenteredRMSProp,
     ResourceApplyFtrl, ResourceSparseApplyFtrl, ResourceSparseApplyAdam,
     ResourceApplyNadam, ResourceSparseApplyAdagradV2}

\* Every kernel is one of these.
Locking == \A o \in Ops : Kernel(o) \in LockingKernels

Changing == {"scale", "add", "whole"}

Flags(k) ==
    /\ k.of \in Nat /\ k.of > 0
    /\ k.mutexes # "none" /\ (k.mutexes = "given" => k.of = 2)
    /\ k.fails \subseteq {"prepare", "launch", "sync"}
    /\ k.holds => k.prepares
    /\ k.prepares => k.checks /\ ~k.shared

\* A moment is used once it has been updated, and a scaled one gets the rest next.
PartFits(k, j) ==
    LET part == k.launches[j] IN
    /\ part.do \in Changing => part.at \in 1 .. k.of
    /\ part.do \in {"assign", "create"} =>
          ~k.shared /\ ~k.prepares /\ j = Len(k.launches)
    /\ part.do = "assign" => k = AssignVariable
    /\ k.shared <=> part.do \in {"read", "gather"}
    /\ part.do \in {"use", "scale", "add"} => k.prepares
    /\ part.do = "use" => \A i \in 2 .. k.of : \E m \in 1 .. j - 1 :
          k.launches[m].at = i /\ k.launches[m].do \in Changing
    /\ part.do = "scale" =>
          /\ j + 1 \in DOMAIN k.launches
          /\ k.launches[j + 1] = Part(part.at, "add")

PartsFit(k) ==
    /\ Len(k.launches) \in Nat
    /\ DOMAIN k.launches = 1 .. Len(k.launches)
    /\ \A j \in DOMAIN k.launches : PartFits(k, j)

Fits(k) ==
    /\ Flags(k) /\ PartsFit(k)
    /\ k # DestroyResource => 1 \in DOMAIN k.launches
    /\ k = AssignVariable => ~k.prepares /\ ~k.holds /\ ~k.shared

LEMMA OnePart ==
    ASSUME NEW k, ~k.shared, k.of \in Nat, k.of > 0,
           k.launches \in {AllAtOnce, <<Part(1, "whole")>>}
    PROVE  PartsFit(k) /\ 1 \in DOMAIN k.launches
<1>1. Len(k.launches) = 1 /\ DOMAIN k.launches = {1}
  BY DEF AllAtOnce
<1>2. k.launches[1] \in {Part(0, "all"), Part(1, "whole")}
  BY DEF AllAtOnce
<1>3. 1 \in 1 .. k.of /\ 1 .. 1 = {1}
  OBVIOUS
<1>4. PartFits(k, 1)
  BY <1>2, <1>3 DEF PartFits, Part, Changing
<1> QED BY <1>1, <1>3, <1>4 DEF PartsFit

LEMMA AdagradFits ==
    ASSUME NEW k, ~k.shared, k.prepares, k.of = 2, k.launches = AdagradLaunches
    PROVE  PartsFit(k) /\ 1 \in DOMAIN k.launches
<1>1. Len(k.launches) = 3 /\ DOMAIN k.launches = {1, 2, 3} /\ 1 .. 3 = {1, 2, 3}
  BY DEF AdagradLaunches
<1>2. /\ k.launches[1] = Part(2, "whole") /\ k.launches[2] = Part(0, "use")
      /\ k.launches[3] = Part(1, "whole")
  BY DEF AdagradLaunches
<1>3. \A j \in {1, 2, 3} : PartFits(k, j)
  BY <1>1, <1>2 DEF PartFits, Part, Changing
<1> QED BY <1>1, <1>3 DEF PartsFit

LEMMA AdaMaxFits ==
    ASSUME NEW k, ~k.shared, k.prepares, k.of = 3, k.launches = AdaMaxLaunches
    PROVE  PartsFit(k) /\ 1 \in DOMAIN k.launches
<1>1. /\ Len(k.launches) = 5 /\ DOMAIN k.launches = {1, 2, 3, 4, 5}
      /\ 1 .. 5 = {1, 2, 3, 4, 5}
  BY DEF AdaMaxLaunches
<1>2. /\ k.launches[1] = Part(2, "scale") /\ k.launches[2] = Part(2, "add")
      /\ k.launches[3] = Part(3, "whole") /\ k.launches[4] = Part(0, "use")
      /\ k.launches[5] = Part(1, "whole")
  BY DEF AdaMaxLaunches
<1>3. \A j \in {1, 2, 3, 4, 5} : PartFits(k, j)
  BY <1>1, <1>2 DEF PartFits, Part, Changing
<1> QED BY <1>1, <1>3 DEF PartsFit

LEMMA AdamFits ==
    ASSUME NEW k, ~k.shared, k.prepares, k.of = 3, k.launches = AdamLaunches
    PROVE  PartsFit(k) /\ 1 \in DOMAIN k.launches
<1>1. /\ Len(k.launches) = 6 /\ DOMAIN k.launches = {1, 2, 3, 4, 5, 6}
      /\ 1 .. 6 = {1, 2, 3, 4, 5, 6}
  BY DEF AdamLaunches
<1>2. /\ k.launches[1] = Part(2, "scale") /\ k.launches[2] = Part(2, "add")
      /\ k.launches[3] = Part(3, "scale") /\ k.launches[4] = Part(3, "add")
      /\ k.launches[5] = Part(0, "use") /\ k.launches[6] = Part(1, "whole")
  BY DEF AdamLaunches
<1>3. \A j \in {1, 2, 3, 4, 5, 6} : PartFits(k, j)
  BY <1>1, <1>2 DEF PartFits, Part, Changing
<1> QED BY <1>1, <1>3 DEF PartsFit

LEMMA OptimizerFits ==
    ASSUME NEW k, ~k.shared, k.prepares, k.checks, k.mutexes = "sorted",
           k.fails \subseteq {"prepare", "launch", "sync"}, k.of \in Nat, k.of > 0,
           \/ k.launches \in {AllAtOnce, <<Part(1, "whole")>>}
           \/ k.of = 2 /\ k.launches = AdagradLaunches
           \/ k.of = 3 /\ k.launches \in {AdaMaxLaunches, AdamLaunches}
    PROVE  Fits(k)
<1>0. k # AssignVariable
  <2>1. ~AssignVariable.prepares
    BY DEF AssignVariable, Simple
  <2> QED BY <2>1
<1>1. PartsFit(k) /\ 1 \in DOMAIN k.launches
  BY OnePart, AdagradFits, AdaMaxFits, AdamFits
<1>2. Flags(k)
  BY DEF Flags
<1> QED BY <1>0, <1>1, <1>2 DEF Fits

LEMMA SimpleFits ==
    ASSUME NEW k, k.of = 1, k.mutexes = "sorted", ~k.checks, ~k.holds, ~k.prepares,
           k.fails \subseteq {"launch", "sync"},
           k.launches = <<>> \/ k.launches = <<Part(1, k.launches[1].do)>>,
           k.launches = <<>> <=> k = DestroyResource,
           k.launches # <<>> =>
              \/ k.launches[1].do \in {"read", "gather"} /\ k.shared
              \/ k.launches[1].do \in {"create", "whole"} /\ ~k.shared
              \/ k.launches[1].do = "assign" /\ ~k.shared /\ k = AssignVariable,
           k = AssignVariable => ~k.shared
    PROVE  Fits(k)
<1>1. Flags(k)
  BY DEF Flags
<1>2. CASE k.launches = <<>>
  <2>1. Len(k.launches) = 0 /\ DOMAIN k.launches = {} /\ 1 .. 0 = {}
    BY <1>2
  <2>2. PartsFit(k)
    BY <2>1 DEF PartsFit
  <2> QED BY <1>1, <1>2, <2>2 DEF Fits
<1>3. CASE k.launches # <<>>
  <2>1. PICK do : k.launches = <<Part(1, do)>> /\ do = k.launches[1].do
    BY <1>3
  <2>2. Len(k.launches) = 1 /\ DOMAIN k.launches = {1} /\ 1 .. 1 = {1}
    BY <2>1
  <2>3. k.launches[1] = Part(1, do) /\ Part(1, do).do = do /\ Part(1, do).at = 1
    BY <2>1 DEF Part
  <2>4. PartFits(k, 1)
    <3>1. \/ do \in {"read", "gather"} /\ k.shared
          \/ do \in {"create", "whole"} /\ ~k.shared
          \/ do = "assign" /\ ~k.shared /\ k = AssignVariable
      BY <1>3, <2>1
    <3>2. CASE do \in {"read", "gather"} /\ k.shared
      BY <2>2, <2>3, <3>2 DEF PartFits, Changing
    <3>3. CASE do \in {"create", "whole"} /\ ~k.shared
      BY <2>2, <2>3, <3>3 DEF PartFits, Changing
    <3>4. CASE do = "assign" /\ ~k.shared /\ k = AssignVariable
      BY <2>2, <2>3, <3>4 DEF PartFits, Changing
    <3> QED BY <3>1, <3>2, <3>3, <3>4
  <2>5. PartsFit(k)
    BY <2>2, <2>4 DEF PartsFit
  <2> QED BY <1>1, <1>3, <2>2, <2>5 DEF Fits
<1> QED BY <1>2, <1>3

LEMMA OptimizersFit ==
    \A k \in {ResourceApplyGradientDescent, ResourceApplyAdagradV2, ResourceApplyAdaMax,
              ResourceApplyAdam, ResourceApplyAdamMixed, ResourceApplyRMSProp,
              ResourceApplyCenteredRMSProp, ResourceApplyFtrl, ResourceSparseApplyFtrl,
              ResourceSparseApplyAdam, ResourceApplyNadam} : Fits(k)
<1>1. ASSUME NEW of \in Nat, of > 0, NEW launches, NEW fails,
             fails \subseteq {"prepare", "launch", "sync"},
             \/ launches \in {AllAtOnce, <<Part(1, "whole")>>}
             \/ of = 2 /\ launches = AdagradLaunches
             \/ of = 3 /\ launches \in {AdaMaxLaunches, AdamLaunches}
      PROVE  Fits(Optimizer(of, launches, fails))
  <2> DEFINE k == Optimizer(of, launches, fails)
  <2>1. /\ k.of = of /\ k.launches = launches /\ k.fails = fails
        /\ k.mutexes = "sorted" /\ ~k.shared /\ k.checks /\ k.prepares
    BY DEF Optimizer, Simple
  <2> HIDE DEF k
  <2>2. Fits(k)
    BY <1>1, <2>1, OptimizerFits
  <2> QED BY <2>2 DEF k
<1>2. ASSUME NEW of \in Nat, of > 0, NEW launches, NEW fails,
             fails \subseteq {"prepare", "launch", "sync"},
             \/ launches \in {AllAtOnce, <<Part(1, "whole")>>}
             \/ of = 2 /\ launches = AdagradLaunches
             \/ of = 3 /\ launches \in {AdaMaxLaunches, AdamLaunches}
      PROVE  Fits([Optimizer(of, launches, fails) EXCEPT !.holds = TRUE])
  <2> DEFINE k == [Optimizer(of, launches, fails) EXCEPT !.holds = TRUE]
  <2>1. /\ k.of = of /\ k.launches = launches /\ k.fails = fails
        /\ k.mutexes = "sorted" /\ ~k.shared /\ k.checks /\ k.prepares
    BY DEF Optimizer, Simple
  <2> HIDE DEF k
  <2>2. Fits(k)
    BY <1>2, <2>1, OptimizerFits
  <2> QED BY <2>2 DEF k
<1>3. Fits(ResourceApplyAdam) /\ Fits(ResourceApplyAdamMixed)
  BY <1>2 DEF ResourceApplyAdam, ResourceApplyAdamMixed
<1>4. Fits(ResourceApplyGradientDescent)
  BY <1>1 DEF ResourceApplyGradientDescent
<1>5. Fits(ResourceApplyAdagradV2)
  BY <1>1 DEF ResourceApplyAdagradV2
<1>6. Fits(ResourceApplyAdaMax)
  BY <1>1 DEF ResourceApplyAdaMax
<1>7. Fits(ResourceApplyRMSProp)
  BY <1>1 DEF ResourceApplyRMSProp
<1>8. Fits(ResourceApplyCenteredRMSProp)
  BY <1>1 DEF ResourceApplyCenteredRMSProp
<1>9. Fits(ResourceApplyFtrl)
  BY <1>1 DEF ResourceApplyFtrl
<1>10. Fits(ResourceSparseApplyFtrl)
  BY <1>1 DEF ResourceSparseApplyFtrl
<1>11. Fits(ResourceSparseApplyAdam)
  BY <1>1 DEF ResourceSparseApplyAdam
<1>12. Fits(ResourceApplyNadam)
  BY <1>1 DEF ResourceApplyNadam
<1> QED BY <1>3, <1>4, <1>5, <1>6, <1>7, <1>8, <1>9, <1>10, <1>11, <1>12

LEMMA OthersFit ==
    \A k \in {AssignVariable, VariableV2, ReadVariable, ResourceGather, ResourceScatterAdd,
              AssignUpdateVariable, DestroyResource, ResourceSparseApplyAdagradV2} : Fits(k)
<1>0. /\ AssignVariable.launches = <<Part(1, "assign")>>
      /\ DestroyResource.launches = <<>>
      /\ ~AssignVariable.shared
  BY DEF AssignVariable, DestroyResource, Simple
<1>1. Fits(AssignVariable)
  <2> DEFINE k == AssignVariable
  <2>1. /\ k.of = 1 /\ k.launches = <<Part(1, "assign")>> /\ k.fails = {"sync"} /\ k.mutexes = "sorted"
        /\ ~k.shared /\ ~k.checks /\ ~k.holds /\ ~k.prepares
    BY DEF AssignVariable, Simple
  <2>2. /\ k.launches # <<>> /\ k.launches = <<Part(1, k.launches[1].do)>>
        /\ k.launches[1].do = "assign" /\ k.fails \subseteq {"launch", "sync"}
    BY <2>1 DEF Part
  <2>3. k = AssignVariable
    OBVIOUS
  <2> HIDE DEF k
  <2>4. Fits(k)
    BY <1>0, <2>1, <2>2, <2>3, SimpleFits
  <2> QED BY <2>4 DEF k
<1>2. Fits(VariableV2)
  <2> DEFINE k == VariableV2
  <2>1. /\ k.of = 1 /\ k.launches = <<Part(1, "create")>> /\ k.fails = {} /\ k.mutexes = "sorted"
        /\ ~k.shared /\ ~k.checks /\ ~k.holds /\ ~k.prepares
    BY DEF VariableV2, Simple
  <2>2. /\ k.launches # <<>> /\ k.launches = <<Part(1, k.launches[1].do)>>
        /\ k.launches[1].do = "create" /\ k.fails \subseteq {"launch", "sync"}
    BY <2>1 DEF Part
  <2> HIDE DEF k
  <2>4. Fits(k)
    BY <1>0, <2>1, <2>2, SimpleFits
  <2> QED BY <2>4 DEF k
<1>3. ASSUME NEW do \in {"read", "gather"}, NEW fails, fails \subseteq {"launch", "sync"}
      PROVE  Fits([Simple(<<Part(1, do)>>, fails) EXCEPT !.shared = TRUE])
  <2> DEFINE k == [Simple(<<Part(1, do)>>, fails) EXCEPT !.shared = TRUE]
  <2>1. /\ k.of = 1 /\ k.launches = <<Part(1, do)>> /\ k.fails = fails /\ k.mutexes = "sorted"
        /\ k.shared /\ ~k.checks /\ ~k.holds /\ ~k.prepares
    BY DEF Simple
  <2>2. /\ k.launches # <<>> /\ k.launches = <<Part(1, k.launches[1].do)>>
        /\ k.launches[1].do = do
    BY <2>1 DEF Part
  <2> HIDE DEF k
  <2>3. Fits(k)
    BY <1>0, <1>3, <2>1, <2>2, SimpleFits
  <2> QED BY <2>3 DEF k
<1>4. Fits(ReadVariable)
  BY <1>3 DEF ReadVariable
<1>5. Fits(ResourceGather)
  BY <1>3 DEF ResourceGather
<1>6. ASSUME NEW fails, fails \subseteq {"launch", "sync"}
      PROVE  Fits(Simple(<<Part(1, "whole")>>, fails))
  <2> DEFINE k == Simple(<<Part(1, "whole")>>, fails)
  <2>1. /\ k.of = 1 /\ k.launches = <<Part(1, "whole")>> /\ k.fails = fails /\ k.mutexes = "sorted"
        /\ ~k.shared /\ ~k.checks /\ ~k.holds /\ ~k.prepares
    BY DEF Simple
  <2>2. /\ k.launches # <<>> /\ k.launches = <<Part(1, k.launches[1].do)>>
        /\ k.launches[1].do = "whole"
    BY <2>1 DEF Part
  <2> HIDE DEF k
  <2>3. Fits(k)
    BY <1>0, <1>6, <2>1, <2>2, SimpleFits
  <2> QED BY <2>3 DEF k
<1>7. Fits(ResourceScatterAdd)
  BY <1>6 DEF ResourceScatterAdd
<1>8. Fits(AssignUpdateVariable)
  BY <1>6 DEF AssignUpdateVariable
<1>9. Fits(DestroyResource)
  <2> DEFINE k == DestroyResource
  <2>1. /\ k.of = 1 /\ k.launches = <<>> /\ k.fails = {} /\ k.mutexes = "sorted"
        /\ ~k.shared /\ ~k.checks /\ ~k.holds /\ ~k.prepares
    BY DEF DestroyResource, Simple
  <2>2. k = DestroyResource
    OBVIOUS
  <2> HIDE DEF k
  <2>3. Fits(k)
    BY <2>1, <2>2, SimpleFits
  <2> QED BY <2>3 DEF k
<1>10. Fits(ResourceSparseApplyAdagradV2)
  <2> DEFINE k == ResourceSparseApplyAdagradV2
  <2>1. /\ k.of = 2 /\ k.launches = AllAtOnce /\ k.fails = {} /\ k.mutexes = "given"
        /\ ~k.shared /\ ~k.checks /\ ~k.holds /\ ~k.prepares
    BY DEF ResourceSparseApplyAdagradV2, Simple
  <2> HIDE DEF k
  <2>2. PartsFit(k) /\ 1 \in DOMAIN k.launches
    BY <2>1, OnePart
  <2>3. Flags(k)
    BY <2>1 DEF Flags
  <2>4. Fits(k)
    BY <2>1, <2>2, <2>3 DEF Fits
  <2> QED BY <2>4 DEF k
<1> QED BY <1>1, <1>2, <1>4, <1>5, <1>7, <1>8, <1>9, <1>10

LEMMA KernelFits ==
    ASSUME Locking, Types, NEW o \in Ops
    PROVE  Fits(Kernel(o))
  BY OptimizersFit, OthersFit DEF Locking, LockingKernels, Types, Kernel

-----------------------------------------------------------------------------
(***************************************************************************)
(* The invariant.  It does not need the order of the mutexes, only that    *)
(* they are taken: what a kernel has to itself does not change under it.   *)
(***************************************************************************)
Tensors == Buffers \cup {None}

Updates == [by : Ops, do : Changing, moments : SUBSET Ops]

Inside == {"lock", "check", "prepare", "launch", "sync"}

DataTypes ==
    /\ tensor \in [Vars -> Tensors]
    /\ contents \in [Buffers -> [value : Tensors, updates : Seq(Updates)]]
    /\ step \in [Ops -> Nat]
    /\ locals \in [Ops -> SUBSET Tensors]
    /\ temp \in [Ops -> SUBSET Ops]
    /\ target \in [Ops -> Seq(Tensors)]
    /\ output \in [Ops -> Tensors]
    /\ written \in [Vars -> Seq(Ops)]

\* How far a kernel is, and which mutexes it has.
Held(o) ==
    /\ pc[o] = "lookup" => Len(vars[o]) < Kernel(o).of
    /\ pc[o] \in Inside => Len(vars[o]) = Kernel(o).of /\ Kernel(o) # DestroyResource
    /\ pc[o] = "lock" => Unlocked(o) # {}
    /\ pc[o] \in {"check", "prepare", "launch", "sync"} => Unlocked(o) = {}
    /\ pc[o] \in {"lookup", "lock", "check"} => step[o] = 1
    /\ pc[o] = "prepare" => Kernel(o).prepares /\ step[o] \in 1 .. Kernel(o).of
    /\ pc[o] = "launch" => step[o] \in DOMAIN Kernel(o).launches
    /\ pc[o] \notin Inside => \A x \in Vars : o \notin mu[x]

Exclusive ==
    \A x \in Vars : \A o, p \in mu[x] : o # p => Kernel(o).shared /\ Kernel(p).shared

\* What is to be assigned is not given to anybody else, nor what was read.
Reserved ==
    \A o \in Ops :
        /\ Kernel(o) = AssignVariable /\ ~Returned(o) => program[o].value \in locals[o]
        /\ \A b \in Buffers : output[o] = b =>
            Kernel(o).shared /\ VarsOf(b) = {} /\ KernelsOf(b) = {o} /\ b \notin kept

\* A kernel works on the tensors that its variables have, and that nothing else
\* refers to if it has prepared them.
Prepared(o) ==
    /\ pc[o] = "launch" => target[o] = TensorsOf(o)
    /\ pc[o] \in {"prepare", "launch"} /\ Kernel(o).prepares =>
        \A i \in DOMAIN vars[o] : \A x \in Vars : vars[o][i] = x =>
            /\ tensor[x] # None
            /\ pc[o] = "launch" \/ i < step[o] => RefCountIsOne(x)

LastIs(o, b) ==
    LET updates == contents[b].updates
    IN  updates # <<>> /\ updates[Len(updates)].by = o

\* An optimizer has updated its moments last once it has launched that.
Latest(o) ==
    pc[o] = "launch" /\ Kernel(o).prepares =>
        \A j \in DOMAIN Kernel(o).launches : LET part == Kernel(o).launches[j] IN
            j < step[o] /\ part.do \in Changing =>
                \A b \in Buffers : tensor[vars[o][part.at]] = b => LastIs(o, b)

\* A moment that was scaled gets the rest next, unless the kernel fails.
Adding(o, b) == Launching(o, {"add"}) /\ tensor[vars[o][Launch(o).at]] = b

Half(b, i) ==
    LET updates == contents[b].updates
    IN  i = Len(updates) /\ \E o \in Ops : updates[i].by = o /\ Adding(o, b)

Wholes ==
    \A b \in Buffers : \A i \in DOMAIN contents[b].updates :
        IsWhole(contents[b].updates, i) \/ Half(b, i)

Unwritten == \A x \in Vars : Live(x) /\ tensor[x] = None => written[x] = <<>>

AllHeld     == \A o \in Ops : Held(o)
AllPrepared == \A o \in Ops : Prepared(o)
AllLatest   == \A o \in Ops : Latest(o)
OwnTemps    == \A o \in Ops : temp[o] \subseteq {o}

BaseInv == Types /\ DataTypes /\ AllHeld /\ Exclusive /\ Reserved /\ AllPrepared

DataInv == AllLatest /\ OwnTemps /\ OwnMoments /\ Wholes /\ NoUpdateLost /\ Unwritten

-----------------------------------------------------------------------------
(* What a step leaves alone *)

\* The step of o leaves what the other kernels have.
Others(o) ==
    \A p \in Ops \ {o} :
        /\ pc'[p] = pc[p] /\ vars'[p] = vars[p] /\ step'[p] = step[p]
        /\ locals'[p] = locals[p] /\ target'[p] = target[p] /\ temp'[p] = temp[p]
        /\ output'[p] = output[p]
        /\ \A x \in Vars : p \in mu'[x] <=> p \in mu[x]

LEMMA LeaveOthers ==
    ASSUME Types, DataTypes, NEW o \in Ops, NEW how, Leave(o, how)
    PROVE  Others(o)
  BY DEF Leave, Others, Types, DataTypes

LEMMA FoundOthers ==
    ASSUME Types, DataTypes, NEW o \in Ops, NEW x, Found(o, x)
    PROVE  Others(o)
  BY DEF Found, Others, Types, DataTypes

LEMMA OthersStay ==
    ASSUME Types, DataTypes, NEW o \in Ops, Step(o) \/ Fail(o)
    PROVE  Others(o) /\ program' = program /\ kept' = kept
<1>1. CASE Lookup(o)
  BY <1>1, FoundOthers DEF Lookup, Found
<1>2. CASE LookupFails(o)
  BY <1>2, LeaveOthers DEF LookupFails
<1>3. CASE LookupOrCreate(o)
  BY <1>3, FoundOthers DEF LookupOrCreate, Found
<1>4. CASE Destroy(o)
  <2>1. PICK how : Leave(o, how)
    BY <1>4 DEF Destroy
  <2> QED BY <1>4, <2>1, LeaveOthers DEF Destroy
<1>5. CASE Lock(o)
  BY <1>5 DEF Lock, Others, Types, DataTypes
<1>6. CASE Check(o)
  BY <1>6 DEF Check, Others, Types, DataTypes
<1>7. CASE CheckFails(o)
  BY <1>7, LeaveOthers DEF CheckFails
<1>8. CASE Prepare(o)
  BY <1>8 DEF Prepare, Others, Types, DataTypes
<1>9. CASE Assign(o)
  BY <1>9 DEF Assign, Advance, Others, Types, DataTypes
<1>10. CASE Create(o)
  BY <1>10 DEF Create, Advance, Others, Types, DataTypes
<1>11. CASE Read(o)
  BY <1>11 DEF Read, Advance, Others, Types, DataTypes
<1>12. CASE Use(o)
  BY <1>12 DEF Use, Advance, Others, Types, DataTypes
<1>13. CASE UpdateTensors(o)
  BY <1>13 DEF UpdateTensors, Advance, Others, Types, DataTypes
<1>14. CASE Return(o)
  BY <1>14, LeaveOthers DEF Return
<1>15. CASE Fail(o)
  BY <1>15, LeaveOthers DEF Fail
<1> QED BY <1>1, <1>2, <1>3, <1>4, <1>5, <1>6, <1>7, <1>8, <1>9, <1>10, <1>11, <1>12,
           <1>13, <1>14, <1>15 DEF Step

LEMMA VarsAt ==
    ASSUME Types, AllHeld, NEW o \in Ops, pc[o] \in Inside
    PROVE  /\ Kernel(o).of \in Nat /\ DOMAIN vars[o] = 1 .. Kernel(o).of
           /\ \A i \in DOMAIN vars[o] :
                 /\ vars[o][i] \in Vars /\ vars[o][i] \in ToSet(vars[o]) /\ Live(vars[o][i])
                 /\ pc[o] # "lock" => o \in mu[vars[o][i]]
<1>1. vars[o] \in Seq(Vars) /\ Len(vars[o]) = Kernel(o).of
  BY DEF Types, AllHeld, Held
<1>2. \A i \in DOMAIN vars[o] : vars[o][i] \in Vars /\ vars[o][i] \in ToSet(vars[o])
  BY <1>1 DEF ToSet
<1>3. pc[o] # "lock" => Unlocked(o) = {}
  BY DEF AllHeld, Held, Inside
<1> QED BY <1>1, <1>2, <1>3 DEF Unlocked, Live

LEMMA HandleIsOne ==
    ASSUME Types, AllHeld, NEW o \in Ops, pc[o] = "lookup"
    PROVE  Handle(o) \in Handles /\ Len(program[o].handles) = Kernel(o).of
<1>1. Len(vars[o]) \in Nat /\ Len(vars[o]) < Kernel(o).of
  BY DEF AllHeld, Held, Types
<1>2. program[o].handles \in Seq(Handles) /\ Len(program[o].handles) = Kernel(o).of
  BY ResourceVariablesAssumption DEF Types, Kernel
<1> QED BY <1>1, <1>2 DEF Handle

LEMMA Allocated ==
    ASSUME CanAllocate
    PROVE  allocate_temp \in FreeBuffers /\ allocate_temp \in Buffers
<1>1. FreeBuffers \in SUBSET Nat /\ FreeBuffers # {} /\ FreeBuffers \subseteq Buffers
  BY ResourceVariablesAssumption DEF CanAllocate, FreeBuffers
<1>2. \E b \in FreeBuffers : \A c \in FreeBuffers : b <= c
  BY <1>1, Minimum
<1> QED BY <1>1, <1>2 DEF allocate_temp

\* Variables stay alive, but for those that nothing refers to any more.
LEMMA NoneRevived ==
    ASSUME Types, NEW o \in Ops, Others(o), NEW y \in Vars, Live(y)',
           \A h \in Handles : resource'[h] \in {resource[h], None},
           y \in ToSet(vars'[o]) => Live(y)
    PROVE  Live(y)
<1>1. CASE \E h \in Handles : resource'[h] = y
  BY <1>1, ResourceVariablesAssumption DEF Live
<1>2. CASE \E p \in Ops : y \in ToSet(vars'[p])
  BY <1>2 DEF Live, Others
<1> QED BY <1>1, <1>2 DEF Live

LEMMA AppendSet ==
    ASSUME NEW S, NEW s \in Seq(S), NEW x \in S
    PROVE  /\ Append(s, x) \in Seq(S) /\ Len(Append(s, x)) = Len(s) + 1
           /\ ToSet(Append(s, x)) = ToSet(s) \cup {x}
           /\ DOMAIN Append(s, x) = 1 .. Len(s) + 1 /\ DOMAIN s = 1 .. Len(s)
           /\ \A i \in 1 .. Len(s) : Append(s, x)[i] = s[i]
           /\ Append(s, x)[Len(s) + 1] = x
<1>1. /\ Append(s, x) \in Seq(S) /\ Len(Append(s, x)) = Len(s) + 1 /\ Len(s) \in Nat
      /\ \A i \in 1 .. Len(s) : Append(s, x)[i] = s[i]
      /\ Append(s, x)[Len(s) + 1] = x
  OBVIOUS
<1>2. DOMAIN Append(s, x) = 1 .. Len(s) + 1 /\ DOMAIN s = 1 .. Len(s)
  BY <1>1
<1>3. ToSet(Append(s, x)) = ToSet(s) \cup {x}
  <2>1. \A i \in 1 .. Len(s) + 1 : i \in 1 .. Len(s) \/ i = Len(s) + 1
    BY <1>1
  <2> QED BY <1>1, <1>2, <2>1 DEF ToSet
<1> QED BY <1>1, <1>2, <1>3

\* The kernel o has x to itself.
Has(o, x) == x \in ToSet(vars[o]) /\ o \in mu[x] /\ ~Kernel(o).shared

LEMMA ItsOwn ==
    ASSUME Types, AllHeld, NEW o \in Ops, pc[o] \in {"prepare", "launch"}, ~Kernel(o).shared,
           NEW i \in DOMAIN vars[o]
    PROVE  Has(o, vars[o][i])
  BY VarsAt DEF Has, Inside

\* Where a variable gets another tensor.
Changed(o, y) ==
    \/ /\ ~Live(y) /\ pc[o] = "lookup" /\ written'[y] = <<>>
       /\ \/ tensor'[y] = None
          \/ Kernel(o) = AssignVariable /\ tensor'[y] = program[o].value
    \/ /\ Has(o, y) /\ ~Returned(o)
       /\ \/ tensor'[y] \in FreeBuffers
          \/ Kernel(o) = AssignVariable /\ tensor'[y] = program[o].value

LEMMA TensorEffect ==
    ASSUME Locking, BaseInv, NEW o \in Ops, Step(o) \/ Fail(o), NEW y \in Vars
    PROVE  \/ tensor'[y] = tensor[y] /\ (Live(y)' => Live(y))
           \/ Changed(o, y)
<1>0. Types /\ DataTypes /\ AllHeld
  BY DEF BaseInv
<1>1. Others(o) /\ program' = program /\ kept' = kept
  BY <1>0, OthersStay
<1>2. Fits(Kernel(o))
  BY <1>0, KernelFits
<1>3. ASSUME NEW how, Leave(o, how), resource' = resource
      PROVE  Live(y)' => Live(y)
  <2>1. vars'[o] = <<>>
    BY <1>0, <1>3 DEF Leave, Types
  <2>2. ToSet(vars'[o]) = {}
    BY <2>1 DEF ToSet
  <2> QED BY <1>0, <1>1, <1>3, <2>2, NoneRevived
<1>4. ASSUME UNCHANGED <<resource, vars>>
      PROVE  Live(y)' => Live(y)
  BY <1>4 DEF Live
<1>5. CASE LookupFails(o) \/ CheckFails(o) \/ Return(o) \/ Fail(o)
  BY <1>3, <1>5 DEF LookupFails, CheckFails, Return, Fail
<1>6. CASE Lock(o) \/ Check(o)
  BY <1>4, <1>6 DEF Lock, Check
<1>7. CASE Read(o) \/ Use(o) \/ UpdateTensors(o)
  BY <1>4, <1>7 DEF Read, Use, UpdateTensors, Advance
<1>8. CASE Lookup(o)
  <2>1. Handle(o) \in Handles
    BY <1>0, <1>8, HandleIsOne DEF Lookup
  <2>2. PICK x \in Vars : x = resource[Handle(o)] /\ vars'[o] = Append(vars[o], x)
    BY <1>0, <1>8, <2>1 DEF Lookup, Found, Types
  <2>3. y \in ToSet(vars'[o]) => Live(y)
    BY <1>0, <2>1, <2>2, AppendSet DEF Live, Types
  <2>4. Live(y)' => Live(y)
    BY <1>0, <1>1, <1>8, <2>3, NoneRevived DEF Lookup
  <2> QED BY <1>8, <2>4 DEF Lookup
<1>9. CASE LookupOrCreate(o)
  <2>1. PICK x \in Vars :
           /\ ~Live(x)
           /\ resource' = [resource EXCEPT ![Handle(o)] = x]
           /\ tensor' = [tensor EXCEPT ![x] = IF Kernel(o) = AssignVariable THEN program[o].value ELSE None]
           /\ written' = [written EXCEPT ![x] = <<>>]
           /\ Found(o, x)
    BY <1>9 DEF LookupOrCreate
  <2>2. pc[o] = "lookup"
    BY <1>9 DEF LookupOrCreate
  <2>3. CASE y = x
    BY <1>0, <2>1, <2>2, <2>3 DEF DataTypes, Changed
  <2>4. CASE y # x
    <3>1. tensor'[y] = tensor[y]
      BY <1>0, <2>1, <2>4 DEF DataTypes
    <3>2. vars'[o] = Append(vars[o], x)
      BY <1>0, <2>1 DEF Found, Types
    <3>3. y \in ToSet(vars'[o]) => y \in ToSet(vars[o])
      BY <1>0, <2>4, <3>2, AppendSet DEF Types
    <3>4. \A h \in Handles : resource'[h] \in {resource[h], x}
      BY <1>0, <2>1 DEF Types
    <3>5. Live(y)' => Live(y)
      BY <1>1, <2>4, <3>3, <3>4 DEF Live, Others
    <3> QED BY <3>1, <3>5
  <2> QED BY <2>3, <2>4
<1>10. CASE Destroy(o)
  <2>1. PICK how : Leave(o, how)
    BY <1>10 DEF Destroy
  <2>2. ToSet(vars'[o]) = {}
    BY <1>0, <2>1 DEF Leave, Types, ToSet
  <2>3. \A h \in Handles : resource'[h] \in {resource[h], None}
    BY <1>0, <1>10 DEF Destroy, Types
  <2>4. Live(y)' => Live(y)
    BY <1>0, <1>1, <2>2, <2>3, NoneRevived
  <2> QED BY <1>10, <2>4 DEF Destroy
<1>11. CASE Prepare(o)
  <2> DEFINE x == vars[o][step[o]]
  <2>1. pc[o] = "prepare" /\ UNCHANGED <<resource, vars>> /\ Kernel(o).prepares
    BY <1>0, <1>11 DEF Prepare, AllHeld, Held
  <2>2. step[o] \in DOMAIN vars[o]
    BY <1>0, <2>1, VarsAt DEF AllHeld, Held, Inside
  <2>3. ~Kernel(o).shared
    BY <1>2, <2>1 DEF Fits, Flags
  <2>4. x \in Vars /\ Has(o, x)
    BY <1>0, <2>1, <2>2, <2>3, VarsAt, ItsOwn DEF Inside
  <2>5. \/ tensor' = tensor
        \/ CanAllocate /\ tensor' = [tensor EXCEPT ![x] = allocate_temp]
    BY <1>11 DEF Prepare
  <2> HIDE DEF x
  <2>6. tensor'[y] = tensor[y] \/ (y = x /\ tensor'[y] \in FreeBuffers)
    BY <1>0, <2>5, Allocated DEF DataTypes
  <2> QED BY <1>4, <2>1, <2>4, <2>6 DEF Changed, Returned
<1>12. CASE Assign(o) \/ Create(o)
  <2>1. pc[o] = "launch" /\ UNCHANGED <<resource, vars>> /\ Launch(o).do \in {"assign", "create"}
    BY <1>12 DEF Assign, Create, Launching, Advance
  <2>2. ~Kernel(o).shared /\ 1 \in 1 .. Kernel(o).of
    <3>1. step[o] \in DOMAIN Kernel(o).launches
      BY <1>0, <2>1 DEF AllHeld, Held
    <3> QED BY <1>2, <2>1, <3>1 DEF Fits, PartsFit, PartFits, Flags, Launch
  <2>3. 1 \in DOMAIN vars[o]
    BY <1>0, <2>1, <2>2, VarsAt DEF Inside
  <2>4. vars[o][1] \in Vars /\ Has(o, vars[o][1])
    BY <1>0, <2>1, <2>2, <2>3, VarsAt, ItsOwn DEF Inside
  <2>5. CASE Assign(o)
    <3>1. Kernel(o) = AssignVariable
      <4>1. step[o] \in DOMAIN Kernel(o).launches /\ Launch(o).do = "assign"
        BY <1>0, <2>1, <2>5 DEF AllHeld, Held, Assign, Launching
      <4> QED BY <1>2, <4>1 DEF Fits, PartsFit, PartFits, Launch
    <3>2. tensor' = [tensor EXCEPT ![vars[o][1]] = program[o].value]
      BY <2>5 DEF Assign
    <3>3. tensor'[y] = tensor[y] \/ (y = vars[o][1] /\ tensor'[y] = program[o].value)
      BY <1>0, <3>2 DEF DataTypes
    <3> QED BY <1>4, <2>1, <2>4, <3>1, <3>3 DEF Changed, Returned
  <2>6. CASE Create(o)
    <3>1. \/ tensor' = tensor
          \/ CanAllocate /\ tensor' = [tensor EXCEPT ![vars[o][1]] = allocate_temp]
      BY <2>6 DEF Create
    <3>2. tensor'[y] = tensor[y] \/ (y = vars[o][1] /\ tensor'[y] \in FreeBuffers)
      BY <1>0, <3>1, Allocated DEF DataTypes
    <3> QED BY <1>4, <2>1, <2>4, <3>2 DEF Changed, Returned
  <2> QED BY <1>12, <2>5, <2>6
<1> QED BY <1>5, <1>6, <1>7, <1>8, <1>9, <1>10, <1>11, <1>12 DEF Step

\* A tensor gets another variable when it is allocated, or when it is assigned
\* by a kernel that held it.
LEMMA VarsGrow ==
    ASSUME Locking, BaseInv, NEW o \in Ops, Step(o) \/ Fail(o), NEW b \in Buffers,
           NEW y \in VarsOf(b)', b \notin FreeBuffers,
           Kernel(o) = AssignVariable => o \notin KernelsOf(b)
    PROVE  y \in VarsOf(b)
<1>1. y \in Vars /\ Live(y)' /\ tensor'[y] = b
  BY DEF VarsOf
<1>2. b # None
  BY ResourceVariablesAssumption
<1>3. Kernel(o) = AssignVariable /\ ~Returned(o) => program[o].value # b
  BY DEF BaseInv, Reserved, KernelsOf
<1>4. ~Changed(o, y)
  BY <1>1, <1>2, <1>3 DEF Changed, Returned
<1> QED BY <1>1, <1>4, TensorEffect DEF VarsOf

\* A kernel starts to refer to what it allocates, and to tensors of variables
\* that it has to itself.
LEMMA KernelsGrow ==
    ASSUME Locking, BaseInv, NEW o \in Ops, Step(o) \/ Fail(o), NEW b \in Buffers,
           NEW q \in KernelsOf(b)', q \notin KernelsOf(b)
    PROVE  q = o /\ (b \in FreeBuffers \/ \E y \in VarsOf(b) : Has(o, y))
<1>0. Types /\ DataTypes /\ AllHeld
  BY DEF BaseInv
<1>1. Others(o)
  BY <1>0, OthersStay
<1>2. Fits(Kernel(o))
  BY <1>0, KernelFits
<1>3. q \in Ops /\ (b \in locals'[q] \/ output'[q] = b) /\ b \notin locals[q] /\ output[q] # b
  BY DEF KernelsOf
<1>4. q = o
  BY <1>1, <1>3 DEF Others
<1>5. CASE Check(o)
  <2>1. pc[o] = "check"
    BY <1>5 DEF Check
  <2>2. Kernel(o).holds /\ b \in ToSet(TensorsOf(o))
    <3>1. locals' = [locals EXCEPT ![o] = IF Kernel(o).holds THEN ToSet(TensorsOf(o)) ELSE @]
          /\ output' = output
      BY <1>5 DEF Check
    <3>2. locals'[o] = IF Kernel(o).holds THEN ToSet(TensorsOf(o)) ELSE locals[o]
      BY <1>0, <3>1 DEF DataTypes
    <3> QED BY <1>3, <1>4, <3>1, <3>2
  <2>3. PICK i \in DOMAIN vars[o] : b = tensor[vars[o][i]]
    BY <2>2 DEF ToSet, TensorsOf
  <2>4. ~Kernel(o).shared
    BY <1>2, <2>2 DEF Fits, Flags
  <2>5. vars[o][i] \in VarsOf(b) /\ Has(o, vars[o][i])
    BY <1>0, <2>1, <2>3, <2>4, VarsAt DEF Inside, VarsOf, Has
  <2> QED BY <1>4, <2>5
<1>6. CASE Read(o)
  <2>1. CanAllocate /\ output' = [output EXCEPT ![o] = allocate_temp] /\ locals' = locals
    BY <1>6 DEF Read, ReadOut
  <2>2. b = allocate_temp
    BY <1>0, <1>3, <1>4, <2>1 DEF DataTypes
  <2> QED BY <1>4, <2>1, <2>2, Allocated
<1>7. \A how : Leave(o, how) => locals'[o] = {} /\ output' = output
  BY <1>0 DEF Leave, DataTypes
<1>8. \A x : Found(o, x) => locals' = locals /\ output' = output
  BY DEF Found
<1>9. ASSUME ~Check(o), ~Read(o)
      PROVE  locals'[o] \in {locals[o], {}} /\ output' = output
  <2>1. CASE Lookup(o) \/ LookupOrCreate(o)
    BY <1>8, <2>1 DEF Lookup, LookupOrCreate
  <2>2. CASE LookupFails(o) \/ Destroy(o) \/ CheckFails(o) \/ Return(o) \/ Fail(o)
    BY <1>7, <2>2 DEF LookupFails, Destroy, CheckFails, Return, Fail
  <2>3. CASE Lock(o)
    BY <2>3 DEF Lock
  <2>4. CASE Prepare(o)
    BY <1>0, <2>4 DEF Prepare, DataTypes
  <2>5. CASE Assign(o) \/ Create(o) \/ Use(o) \/ UpdateTensors(o)
    BY <2>5 DEF Assign, Create, Use, UpdateTensors
  <2> QED BY <1>9, <2>1, <2>2, <2>3, <2>4, <2>5 DEF Step
<1> QED BY <1>3, <1>4, <1>5, <1>6, <1>9

\* A launch works on the tensors of variables that the kernel has to itself.
LEMMA UpdateEffect ==
    ASSUME Locking, BaseInv, NEW o \in Ops, UpdateTensors(o)
    PROVE  /\ ~Kernel(o).shared /\ Touched(o) \subseteq DOMAIN vars[o]
           /\ Launch(o).do # "all" => Launch(o).do \in Changing /\ Touched(o) = {Launch(o).at}
           /\ \A i \in Touched(o) : target[o][i] = tensor[vars[o][i]]
           /\ \A i \in DOMAIN vars[o] : vars[o][i] \in Vars /\ Live(vars[o][i]) /\ Has(o, vars[o][i])
<1>0. Types /\ DataTypes /\ AllHeld
  BY DEF BaseInv
<1>1. /\ pc[o] = "launch" /\ Launch(o).do \in {"scale", "add", "whole", "all"}
      /\ step[o] \in DOMAIN Kernel(o).launches
  BY <1>0 DEF UpdateTensors, Launching, AllHeld, Held
<1>2. PartFits(Kernel(o), step[o])
  BY <1>0, <1>1, KernelFits DEF Fits, PartsFit
<1>3. ~Kernel(o).shared
  BY <1>1, <1>2 DEF PartFits, Launch
<1>4. /\ \A i \in DOMAIN vars[o] : vars[o][i] \in Vars /\ Live(vars[o][i]) /\ Has(o, vars[o][i])
      /\ DOMAIN vars[o] = 1 .. Kernel(o).of
  BY <1>0, <1>1, <1>3, VarsAt, ItsOwn DEF Inside
<1>5. Launch(o).do # "all" =>
         /\ Launch(o).do \in Changing /\ Touched(o) = {Launch(o).at}
         /\ Launch(o).at \in DOMAIN vars[o]
  BY <1>1, <1>2, <1>4 DEF PartFits, Launch, Changing, Touched
<1>6. Touched(o) \subseteq DOMAIN vars[o]
  BY <1>5 DEF Touched
<1>7. target[o] = TensorsOf(o)
  BY <1>1 DEF BaseInv, AllPrepared, Prepared
<1>8. \A i \in Touched(o) : target[o][i] = tensor[vars[o][i]]
  BY <1>6, <1>7 DEF TensorsOf
<1> QED BY <1>3, <1>4, <1>5, <1>6, <1>8

\* What is done to buffer b by a launch.
Doing(o) == IF Launch(o).do = "all" THEN "whole" ELSE Launch(o).do

Updated(o, b) ==
    /\ UpdateTensors(o)
    /\ \E i \in Touched(o) : tensor[vars[o][i]] = b
    /\ contents'[b] = [contents[b] EXCEPT !.updates = Append(@, Update(o, Doing(o)))]

LEMMA ContentsEffect ==
    ASSUME Locking, BaseInv, NEW o \in Ops, Step(o) \/ Fail(o), NEW b \in Buffers
    PROVE  contents'[b] = contents[b] \/ b \in FreeBuffers \/ Updated(o, b)
<1>0. DataTypes
  BY DEF BaseInv
<1>1. CASE UpdateTensors(o)
  <2> DEFINE bs == {target[o][i] : i \in Touched(o)} \ {None}
  <2>1. contents' = [c \in Buffers |->
              IF c \in bs THEN [contents[c] EXCEPT !.updates = Append(@, Update(o, Doing(o)))]
              ELSE contents[c]]
    BY <1>1 DEF UpdateTensors, Doing
  <2>2. b \in bs => \E i \in Touched(o) : tensor[vars[o][i]] = b
    BY <1>1, UpdateEffect
  <2> HIDE DEF bs
  <2> QED BY <1>1, <2>1, <2>2 DEF Updated
<1>2. CASE Prepare(o) \/ Create(o) \/ Read(o)
  <2>1. \/ contents' = contents
        \/ CanAllocate /\ \E c : contents' = [contents EXCEPT ![allocate_temp] = c]
    BY <1>2 DEF Prepare, Create, Read, ReadOut
  <2> QED BY <1>0, <2>1, Allocated DEF DataTypes
<1>3. CASE Lookup(o) \/ LookupOrCreate(o)
  BY <1>3 DEF Lookup, LookupOrCreate, Found
<1>4. CASE LookupFails(o) \/ Destroy(o) \/ CheckFails(o) \/ Return(o) \/ Fail(o)
  BY <1>4 DEF LookupFails, Destroy, CheckFails, Return, Fail
<1>5. CASE Lock(o) \/ Check(o) \/ Assign(o) \/ Use(o)
  BY <1>5 DEF Lock, Check, Assign, Use
<1> QED BY <1>1, <1>2, <1>3, <1>4, <1>5 DEF Step

\* What a kernel has to itself does not change under it.
LEMMA TensorStays ==
    ASSUME Locking, BaseInv, NEW o \in Ops, Step(o) \/ Fail(o), NEW q \in Ops \ {o},
           NEW x \in ToSet(vars[q]), q \in mu[x]
    PROVE  x \in Vars /\ tensor'[x] = tensor[x] /\ ~Has(o, x)
<1>1. x \in Vars /\ Live(x)
  BY DEF BaseInv, Types, ToSet, Live
<1>2. ~Has(o, x)
  BY <1>1 DEF BaseInv, Exclusive, Has
<1> QED BY <1>1, <1>2, TensorEffect DEF Changed

LEMMA Undisturbed ==
    ASSUME Locking, BaseInv, NEW o \in Ops, Step(o) \/ Fail(o), NEW q \in Ops \ {o},
           NEW x \in ToSet(vars[q]), q \in mu[x], tensor[x] # None, RefCountIsOne(x)
    PROVE  RefCountIsOne(x)' /\ contents'[tensor[x]] = contents[tensor[x]]
<1>0. Types /\ DataTypes /\ Others(o) /\ kept' = kept
  BY OthersStay DEF BaseInv
<1>1. x \in Vars /\ tensor'[x] = tensor[x] /\ ~Has(o, x)
  BY TensorStays
<1>2. PICK b \in Buffers :
         b = tensor[x] /\ VarsOf(b) = {x} /\ KernelsOf(b) = {} /\ b \notin kept
  BY <1>0, <1>1 DEF DataTypes, Tensors, RefCountIsOne
<1>3. tensor'[x] = b
  BY <1>1, <1>2
<1>4. b \notin FreeBuffers
  BY <1>2 DEF FreeBuffers
<1>5. VarsOf(b)' = {x}
  <2>1. VarsOf(b)' \subseteq {x}
    BY <1>2, <1>4, VarsGrow
  <2>2. x \in VarsOf(b)'
    BY <1>0, <1>1, <1>3 DEF VarsOf, Live, Others
  <2> QED BY <2>1, <2>2
<1>6. KernelsOf(b)' = {}
  BY <1>1, <1>2, <1>4, KernelsGrow
<1>7. ~Updated(o, b)
  <2> SUFFICES ASSUME Updated(o, b) PROVE FALSE
    OBVIOUS
  <2>1. PICK i \in Touched(o) : tensor[vars[o][i]] = b
    BY DEF Updated
  <2>2. vars[o][i] \in Vars /\ Live(vars[o][i]) /\ Has(o, vars[o][i])
    BY UpdateEffect DEF Updated
  <2> QED BY <1>1, <1>2, <2>1, <2>2 DEF VarsOf
<1>8. contents'[b] = contents[b]
  BY <1>2, <1>4, <1>7, ContentsEffect
<1>9. RefCountIsOne(x)'
  BY <1>0, <1>2, <1>3, <1>5, <1>6 DEF RefCountIsOne
<1> QED BY <1>2, <1>8, <1>9

-----------------------------------------------------------------------------
(* Types *)

LEMMA TensorsSeq ==
    ASSUME Types, NEW o \in Ops, NEW now \in [Vars -> Tensors]
    PROVE  /\ [i \in DOMAIN vars[o] |-> now[vars[o][i]]] \in Seq(Tensors)
           /\ DOMAIN vars[o] = 1 .. Len(vars[o])
<1>1. vars[o] \in Seq(Vars) /\ Len(vars[o]) \in Nat /\ DOMAIN vars[o] = 1 .. Len(vars[o])
  BY DEF Types
<1>2. [i \in 1 .. Len(vars[o]) |-> now[vars[o][i]]] \in [1 .. Len(vars[o]) -> Tensors]
  BY <1>1
<1> QED BY <1>1, <1>2, SeqDef

\* The update of a variable is computed from moments updated by the same kernel.
LEMMA UseOwn ==
    ASSUME Locking, BaseInv, AllLatest, NEW o \in Ops, Use(o)
    PROVE  temp'[o] \subseteq {o} /\ \A p \in Ops \ {o} : temp'[p] = temp[p]
<1>0. Types /\ DataTypes /\ AllHeld
  BY DEF BaseInv
<1>1. /\ pc[o] = "launch" /\ Launch(o).do = "use" /\ step[o] \in DOMAIN Kernel(o).launches
      /\ temp' = [temp EXCEPT ![o] = {LastBy(b) : b \in ToSet(Tail(target[o]))}]
  BY <1>0 DEF Use, Launching, AllHeld, Held
<1>2. PartFits(Kernel(o), step[o]) /\ PartsFit(Kernel(o)) /\ Flags(Kernel(o))
  BY <1>0, <1>1, KernelFits DEF Fits, PartsFit
<1>3. /\ Kernel(o).prepares
      /\ \A i \in 2 .. Kernel(o).of : \E m \in 1 .. step[o] - 1 :
          Kernel(o).launches[m].at = i /\ Kernel(o).launches[m].do \in Changing
  BY <1>1, <1>2 DEF PartFits, Launch
<1>4. /\ DOMAIN vars[o] = 1 .. Kernel(o).of /\ Kernel(o).of \in Nat /\ Kernel(o).of > 0
      /\ target[o] = TensorsOf(o)
  BY <1>0, <1>1, <1>2, VarsAt DEF Inside, BaseInv, AllPrepared, Prepared, Flags
<1>5. ASSUME NEW i \in 2 .. Kernel(o).of
      PROVE  LastBy(tensor[vars[o][i]]) = o
  <2>1. PICK m \in 1 .. step[o] - 1 :
           Kernel(o).launches[m].at = i /\ Kernel(o).launches[m].do \in Changing
    BY <1>3
  <2>2. m \in DOMAIN Kernel(o).launches /\ m < step[o]
    BY <1>0, <1>1, <1>2, <2>1 DEF PartsFit, DataTypes
  <2>3. tensor[vars[o][i]] \in Buffers
    <3>1. i \in DOMAIN vars[o] /\ vars[o][i] \in Vars
      BY <1>0, <1>1, <1>4, VarsAt DEF Inside
    <3>2. tensor[vars[o][i]] # None
      BY <1>1, <1>3, <3>1 DEF BaseInv, AllPrepared, Prepared
    <3> QED BY <1>0, <3>1, <3>2 DEF DataTypes, Tensors
  <2>4. LastIs(o, tensor[vars[o][i]])
    BY <1>1, <1>3, <2>1, <2>2, <2>3 DEF AllLatest, Latest
  <2> QED BY <2>4 DEF LastIs, LastBy, Last
<1>6. ASSUME NEW b \in ToSet(Tail(target[o]))
      PROVE  \E i \in 2 .. Kernel(o).of : b = tensor[vars[o][i]]
  <2>1. target[o] \in Seq(Tensors) /\ Len(target[o]) = Kernel(o).of
    <3>1. target[o] \in Seq(Tensors) /\ Len(target[o]) \in Nat /\ DOMAIN target[o] = 1 .. Len(target[o])
      BY <1>0 DEF DataTypes
    <3>2. DOMAIN target[o] = 1 .. Kernel(o).of
      BY <1>4 DEF TensorsOf
    <3> QED BY <1>4, <3>1, <3>2
  <2>2. target[o] # <<>>
    BY <1>4, <2>1
  <2>3. /\ Tail(target[o]) \in Seq(Tensors) /\ Len(Tail(target[o])) = Kernel(o).of - 1
        /\ \A i \in 1 .. Kernel(o).of - 1 : Tail(target[o])[i] = target[o][i + 1]
    BY <1>4, <2>1, <2>2
  <2>4. PICK i \in 1 .. Kernel(o).of - 1 : b = target[o][i + 1]
    BY <2>3 DEF ToSet
  <2>5. i + 1 \in 2 .. Kernel(o).of /\ i + 1 \in 1 .. Kernel(o).of
    BY <1>4, <2>4
  <2>6. b = tensor[vars[o][i + 1]]
    BY <1>4, <2>4, <2>5 DEF TensorsOf
  <2> QED BY <2>5, <2>6
<1>7. {LastBy(b) : b \in ToSet(Tail(target[o]))} \subseteq {o}
  BY <1>5, <1>6
<1> QED BY <1>0, <1>1, <1>7 DEF DataTypes

LEMMA LeaveTypes ==
    ASSUME Types, DataTypes, NEW o \in Ops, NEW how \in {"done", "failed"}, Leave(o, how),
           program' = program, resource' \in [Handles -> Vars \cup {None}],
           UNCHANGED <<tensor, contents, written>>
    PROVE  Types' /\ DataTypes'
<1>1. /\ pc' \in [Ops -> Places] /\ mu' \in [Vars -> SUBSET Ops] /\ vars' \in [Ops -> Seq(Vars)]
  BY DEF Leave, Types, Places
<1>2. /\ step' \in [Ops -> Nat] /\ locals' \in [Ops -> SUBSET Tensors]
      /\ temp' \in [Ops -> SUBSET Ops] /\ target' \in [Ops -> Seq(Tensors)]
      /\ output' \in [Ops -> Tensors]
  BY DEF Leave, DataTypes
<1> QED BY <1>1, <1>2 DEF Types, DataTypes

LEMMA FoundTypes ==
    ASSUME Types, DataTypes, NEW o \in Ops, NEW x \in Vars, Found(o, x),
           resource' \in [Handles -> Vars \cup {None}], tensor' \in [Vars -> Tensors],
           written' \in [Vars -> Seq(Ops)]
    PROVE  Types' /\ DataTypes'
<1>1. vars' \in [Ops -> Seq(Vars)]
  BY DEF Found, Types
<1>2. pc' \in [Ops -> Places]
  BY DEF Found, Types, Places
<1> QED BY <1>1, <1>2 DEF Found, Types, DataTypes

LEMMA AdvanceTypes ==
    ASSUME Types, DataTypes, NEW o \in Ops, Advance(o)
    PROVE  Types' /\ step' \in [Ops -> Nat] /\ target' \in [Ops -> Seq(Tensors)]
<1>1. pc' \in [Ops -> Places] /\ step' \in [Ops -> Nat]
  BY DEF Advance, Types, DataTypes, Places
<1> QED BY <1>1 DEF Advance, Types, DataTypes

LEMMA UpdateTypes ==
    ASSUME Locking, BaseInv, OwnTemps, NEW o \in Ops, UpdateTensors(o)
    PROVE  Types' /\ DataTypes'
<1>0. Types /\ DataTypes
  BY DEF BaseInv
<1>1. Types' /\ step' \in [Ops -> Nat] /\ target' \in [Ops -> Seq(Tensors)]
  BY <1>0, AdvanceTypes DEF UpdateTensors
<1>2. Doing(o) \in Changing
  BY UpdateEffect DEF Doing, Changing
<1>3. Update(o, Doing(o)) \in Updates
  BY <1>0, <1>2 DEF Update, Updates, DataTypes
<1>4. \A b \in Buffers : [contents[b] EXCEPT !.updates = Append(@, Update(o, Doing(o)))]
                            \in [value : Tensors, updates : Seq(Updates)]
  <2> TAKE b \in Buffers
  <2>1. contents[b] \in [value : Tensors, updates : Seq(Updates)]
    BY <1>0 DEF DataTypes
  <2>2. Append(contents[b].updates, Update(o, Doing(o))) \in Seq(Updates)
    BY <1>3, <2>1
  <2> QED BY <2>1, <2>2
<1>5. contents' \in [Buffers -> [value : Tensors, updates : Seq(Updates)]]
  <2> DEFINE bs == {target[o][i] : i \in Touched(o)} \ {None}
  <2>1. contents' = [b \in Buffers |->
              IF b \in bs THEN [contents[b] EXCEPT !.updates = Append(@, Update(o, Doing(o)))]
              ELSE contents[b]]
    BY DEF UpdateTensors, Doing
  <2> HIDE DEF bs
  <2> QED BY <1>0, <1>4, <2>1 DEF DataTypes
<1>6. written' \in [Vars -> Seq(Ops)]
  <2>1. \A x \in Vars : Append(written[x], o) \in Seq(Ops)
    BY <1>0 DEF DataTypes
  <2> QED BY <1>0, <2>1 DEF UpdateTensors, DataTypes
<1> QED BY <1>0, <1>1, <1>5, <1>6 DEF UpdateTensors, DataTypes

LEMMA TypesStep ==
    ASSUME Locking, BaseInv, AllLatest, OwnTemps, NEW o \in Ops, Step(o) \/ Fail(o)
    PROVE  Types' /\ DataTypes'
<1>0. Types /\ DataTypes /\ AllHeld
  BY DEF BaseInv
<1>1. resource \in [Handles -> Vars \cup {None}] /\ <<>> \in Seq(Ops)
  BY <1>0 DEF Types
<1>2. CASE LookupFails(o) \/ CheckFails(o) \/ Return(o) \/ Fail(o)
  BY <1>0, <1>1, <1>2, LeaveTypes DEF LookupFails, CheckFails, Return, Fail
<1>3. CASE Destroy(o)
  <2>1. resource' \in [Handles -> Vars \cup {None}]
    BY <1>1, <1>3 DEF Destroy
  <2>2. PICK how \in {"done", "failed"} : Leave(o, how)
    BY <1>3 DEF Destroy
  <2> QED BY <1>0, <1>3, <2>1, <2>2, LeaveTypes DEF Destroy
<1>4. CASE Lookup(o)
  <2>1. resource[Handle(o)] \in Vars
    BY <1>0, <1>1, <1>4, HandleIsOne DEF Lookup
  <2> QED BY <1>0, <1>1, <1>4, <2>1, FoundTypes DEF Lookup, DataTypes
<1>5. CASE LookupOrCreate(o)
  <2>1. PICK x \in Vars :
           /\ resource' = [resource EXCEPT ![Handle(o)] = x]
           /\ tensor' = [tensor EXCEPT ![x] = IF Kernel(o) = AssignVariable THEN program[o].value ELSE None]
           /\ written' = [written EXCEPT ![x] = <<>>]
           /\ Found(o, x)
    BY <1>5 DEF LookupOrCreate
  <2>2. Kernel(o) = AssignVariable => program[o].value \in Tensors
    BY <1>0, ValuesAssumption DEF Types, Kernel, Tensors
  <2>3. None \in Tensors
    BY DEF Tensors
  <2>4. tensor' \in [Vars -> Tensors]
    BY <1>0, <2>1, <2>2, <2>3 DEF DataTypes
  <2>5. resource' \in [Handles -> Vars \cup {None}] /\ written' \in [Vars -> Seq(Ops)]
    BY <1>0, <1>1, <2>1 DEF DataTypes
  <2> QED BY <1>0, <2>1, <2>4, <2>5, FoundTypes
<1>6. CASE Lock(o)
  <2>1. mu' \in [Vars -> SUBSET Ops] /\ pc' \in [Ops -> Places]
    BY <1>0, <1>6 DEF Lock, Types, Places
  <2> QED BY <1>0, <1>6, <2>1 DEF Lock, Types, DataTypes
<1>7. CASE Check(o)
  <2>1. TensorsOf(o) \in Seq(Tensors)
    BY <1>0, TensorsSeq DEF TensorsOf, DataTypes
  <2>2. ToSet(TensorsOf(o)) \subseteq Tensors
    BY <2>1 DEF ToSet
  <2>3. pc' \in [Ops -> Places] /\ locals' \in [Ops -> SUBSET Tensors] /\ target' \in [Ops -> Seq(Tensors)]
    BY <1>0, <1>7, <2>1, <2>2 DEF Check, Types, DataTypes, Places
  <2> QED BY <1>0, <1>7, <2>3 DEF Check, Types, DataTypes
<1>8. CASE Prepare(o)
  <2> DEFINE x == vars[o][step[o]]
  <2>0. pc[o] = "prepare" /\ Kernel(o).prepares /\ step[o] \in DOMAIN vars[o]
    BY <1>0, <1>8, VarsAt DEF Prepare, AllHeld, Held, Inside
  <2>1. x \in Vars
    BY <1>0, <2>0, VarsAt DEF Inside
  <2>2. tensor' \in [Vars -> Tensors]
    BY <1>0, <1>8, <2>1, Allocated DEF Prepare, DataTypes, Tensors
  <2>3. tensor[x] \in Buffers
    <3>1. tensor[x] # None
      BY <2>0, <2>1 DEF BaseInv, AllPrepared, Prepared
    <3> QED BY <1>0, <2>1, <3>1 DEF DataTypes, Tensors
  <2>4. contents' \in [Buffers -> [value : Tensors, updates : Seq(Updates)]]
    BY <1>0, <1>8, <2>3, Allocated DEF Prepare, DataTypes
  <2>5. Targets(o, tensor') \in Seq(Tensors)
    BY <1>0, <2>2, TensorsSeq DEF Targets
  <2>6. pc' \in [Ops -> Places] /\ step' \in [Ops -> Nat]
    BY <1>0, <1>8 DEF Prepare, Types, DataTypes, Places
  <2>7. locals' \in [Ops -> SUBSET Tensors] /\ target' \in [Ops -> Seq(Tensors)]
    BY <1>0, <1>8, <2>5 DEF Prepare, DataTypes
  <2> QED BY <1>0, <1>8, <2>2, <2>4, <2>6, <2>7 DEF Prepare, Types, DataTypes
<1>9. CASE Assign(o)
  <2>1. Kernel(o) = AssignVariable
    <3>1. step[o] \in DOMAIN Kernel(o).launches /\ Launch(o).do = "assign"
      BY <1>0, <1>9 DEF AllHeld, Held, Assign, Launching
    <3> QED BY <1>0, <3>1, KernelFits DEF Fits, PartsFit, PartFits, Launch
  <2>2. program[o].value \in Tensors
    BY <1>0, <2>1, ValuesAssumption DEF Types, Kernel, Tensors
  <2>3. tensor' \in [Vars -> Tensors] /\ written' \in [Vars -> Seq(Ops)]
    BY <1>0, <1>1, <1>9, <2>2 DEF Assign, DataTypes
  <2>4. Types' /\ step' \in [Ops -> Nat] /\ target' \in [Ops -> Seq(Tensors)]
    BY <1>0, <1>9, AdvanceTypes DEF Assign
  <2> QED BY <1>0, <1>9, <2>3, <2>4 DEF Assign, DataTypes
<1>10. ASSUME NEW v \in Tensors
       PROVE  Fresh(v) \in [value : Tensors, updates : Seq(Updates)]
  BY DEF Fresh
<1>11. CASE Create(o)
  <2>1. Fresh(None) \in [value : Tensors, updates : Seq(Updates)]
    BY <1>10 DEF Tensors
  <2>2. tensor' \in [Vars -> Tensors]
    BY <1>0, <1>11, Allocated DEF Create, DataTypes, Tensors
  <2>3. contents' \in [Buffers -> [value : Tensors, updates : Seq(Updates)]]
    BY <1>0, <1>11, <2>1, Allocated DEF Create, DataTypes
  <2>4. Types' /\ step' \in [Ops -> Nat] /\ target' \in [Ops -> Seq(Tensors)]
    BY <1>0, <1>11, AdvanceTypes DEF Create
  <2> QED BY <1>0, <1>11, <2>2, <2>3, <2>4 DEF Create, DataTypes
<1>12. CASE Read(o)
  <2>1. Fresh(None) \in [value : Tensors, updates : Seq(Updates)]
    BY <1>10 DEF Tensors
  <2>2. ReadOut(o).what \in [value : Tensors, updates : Seq(Updates)]
    <3>1. tensor[vars[o][1]] # None => tensor[vars[o][1]] \in Buffers
      <4>1. 1 \in DOMAIN vars[o]
        BY <1>0, <1>12, VarsAt, KernelFits DEF Read, Launching, Inside, Fits, Flags
      <4>2. vars[o][1] \in Vars
        BY <1>0, <1>12, <4>1, VarsAt DEF Read, Launching, Inside
      <4> QED BY <1>0, <4>2 DEF DataTypes, Tensors
    <3> QED BY <1>0, <2>1, <3>1 DEF ReadOut, DataTypes
  <2>3. output' \in [Ops -> Tensors]
    BY <1>0, <1>12, Allocated DEF Read, ReadOut, DataTypes, Tensors
  <2>4. contents' \in [Buffers -> [value : Tensors, updates : Seq(Updates)]]
    <3>1. contents' = [contents EXCEPT ![ReadOut(o).at] = ReadOut(o).what]
      BY <1>12 DEF Read
    <3> QED BY <1>0, <2>2, <3>1 DEF DataTypes
  <2>5. Types' /\ step' \in [Ops -> Nat] /\ target' \in [Ops -> Seq(Tensors)]
    BY <1>0, <1>12, AdvanceTypes DEF Read
  <2> QED BY <1>0, <1>12, <2>3, <2>4, <2>5 DEF Read, DataTypes
<1>13. CASE Use(o)
  <2>1. temp' \in [Ops -> SUBSET Ops]
    <3>1. temp' = [temp EXCEPT ![o] = {LastBy(b) : b \in ToSet(Tail(target[o]))}]
      BY <1>13 DEF Use
    <3>2. temp'[o] \subseteq {o}
      BY <1>13, UseOwn
    <3>3. temp'[o] = {LastBy(b) : b \in ToSet(Tail(target[o]))}
      BY <1>0, <3>1 DEF DataTypes
    <3> QED BY <1>0, <3>1, <3>2, <3>3 DEF DataTypes
  <2>2. Types' /\ step' \in [Ops -> Nat] /\ target' \in [Ops -> Seq(Tensors)]
    BY <1>0, <1>13, AdvanceTypes DEF Use
  <2> QED BY <1>0, <1>13, <2>1, <2>2 DEF Use, DataTypes
<1>14. CASE UpdateTensors(o)
  BY <1>14, UpdateTypes
<1> QED BY <1>2, <1>3, <1>4, <1>5, <1>6, <1>7, <1>8, <1>9, <1>11, <1>12, <1>13, <1>14 DEF Step

-----------------------------------------------------------------------------
(* Mutexes *)

LEMMA NextIsUnlocked ==
    ASSUME Locking, Types, AllHeld, NEW o \in Ops, pc[o] = "lock"
    PROVE  NextMutex(o) \in Unlocked(o) /\ NextMutex(o) \in Vars
<1>1. Unlocked(o) # {} /\ Unlocked(o) \subseteq Vars /\ Unlocked(o) \in SUBSET Nat
  BY UnlockedVars DEF AllHeld, Held
<1>2. CASE Kernel(o).mutexes = "given"
  <2>1. DOMAIN vars[o] = {1, 2}
    <3>1. DOMAIN vars[o] = 1 .. 2
      BY <1>2, KernelFits, VarsAt DEF Fits, Flags, Inside
    <3> QED BY <3>1
  <2>2. Unlocked(o) \subseteq {vars[o][1], vars[o][2]}
    BY <2>1 DEF Unlocked, ToSet
  <2> QED BY <1>1, <1>2, <2>2 DEF NextMutex
<1>3. CASE Kernel(o).mutexes # "given"
  <2>1. \E x \in Unlocked(o) : \A y \in Unlocked(o) : x <= y
    BY <1>1, Minimum
  <2> QED BY <1>1, <1>3, <2>1 DEF NextMutex
<1> QED BY <1>2, <1>3

LEMMA UnlockedStays ==
    ASSUME Types, NEW q \in Ops, vars'[q] = vars[q], \A x \in Vars : q \in mu'[x] <=> q \in mu[x]
    PROVE  Unlocked(q)' = Unlocked(q)
<1>1. ToSet(vars[q]) \subseteq Vars
  BY DEF Types, ToSet
<1> QED BY <1>1 DEF Unlocked

LEMMA HeldStays ==
    ASSUME Types, AllHeld, NEW q \in Ops, program' = program, vars'[q] = vars[q],
           pc'[q] = pc[q], step'[q] = step[q], \A x \in Vars : q \in mu'[x] <=> q \in mu[x]
    PROVE  Held(q)'
<1>1. Unlocked(q)' = Unlocked(q)
  BY UnlockedStays
<1>2. Kernel(q)' = Kernel(q)
  BY DEF Kernel
<1>3. Held(q)
  BY DEF AllHeld
<1> QED BY <1>1, <1>2, <1>3 DEF Held

LEMMA LeaveHeld ==
    ASSUME Types, NEW o \in Ops, NEW how \in {"done", "failed"}, Leave(o, how)
    PROVE  Held(o)'
<1>1. pc'[o] = how /\ \A x \in Vars : o \notin mu'[x]
  BY DEF Leave, Types
<1> QED BY <1>1 DEF Held, Inside

LEMMA FoundHeld ==
    ASSUME Locking, Types, DataTypes, AllHeld, NEW o \in Ops, pc[o] = "lookup",
           Kernel(o) # DestroyResource, NEW x \in Vars, Found(o, x)
    PROVE  Held(o)'
<1>1. /\ Len(program[o].handles) = Kernel(o).of /\ Kernel(o).mutexes # "none"
      /\ Kernel(o).of \in Nat
  BY HandleIsOne, KernelFits DEF Fits, Flags
<1>2. /\ vars[o] \in Seq(Vars) /\ Len(vars[o]) < Kernel(o).of /\ step[o] = 1
      /\ \A y \in Vars : o \notin mu[y]
  BY DEF Types, AllHeld, Held, Inside
<1>3. /\ vars'[o] = Append(vars[o], x) /\ UNCHANGED <<mu, step, program>>
      /\ pc'[o] = IF Len(vars[o]) + 1 < Kernel(o).of THEN "lookup" ELSE "lock"
  BY <1>1 DEF Found, Types
<1>4. /\ Len(vars'[o]) = Len(vars[o]) + 1 /\ x \in ToSet(vars'[o])
      /\ Len(vars[o]) \in Nat
  BY <1>2, <1>3, AppendSet
<1>5. x \in Unlocked(o)' /\ Kernel(o)' = Kernel(o)
  BY <1>2, <1>3, <1>4 DEF Unlocked, Kernel
<1>6. CASE Len(vars[o]) + 1 < Kernel(o).of
  BY <1>2, <1>3, <1>4, <1>5, <1>6 DEF Held, Inside
<1>7. CASE ~(Len(vars[o]) + 1 < Kernel(o).of)
  <2>1. Len(vars'[o]) = Kernel(o).of
    BY <1>1, <1>2, <1>4, <1>7
  <2> QED BY <1>2, <1>3, <1>5, <1>7, <2>1 DEF Held, Inside
<1> QED BY <1>6, <1>7

LEMMA AdvanceHeld ==
    ASSUME Locking, Types, DataTypes, AllHeld, NEW o \in Ops, pc[o] = "launch", Advance(o)
    PROVE  Held(o)'
<1>1. /\ UNCHANGED <<program, vars, mu>> /\ step'[o] = step[o] + 1
      /\ pc'[o] = IF step[o] = Len(Kernel(o).launches) THEN "sync" ELSE "launch"
  BY DEF Advance, Types, DataTypes
<1>2. Held(o)
  BY DEF AllHeld
<1>3. /\ Len(Kernel(o).launches) \in Nat
      /\ DOMAIN Kernel(o).launches = 1 .. Len(Kernel(o).launches)
      /\ step[o] \in 1 .. Len(Kernel(o).launches)
  BY <1>2, KernelFits DEF Fits, PartsFit, Held
<1>4. Unlocked(o)' = Unlocked(o) /\ Kernel(o)' = Kernel(o)
  BY <1>1, UnlockedStays DEF Kernel
<1>5. step[o] # Len(Kernel(o).launches) => step[o] + 1 \in 1 .. Len(Kernel(o).launches)
  BY <1>3
<1> QED BY <1>1, <1>2, <1>3, <1>4, <1>5 DEF Held, Inside

LEMMA LockEffect ==
    ASSUME Locking, Types, AllHeld, NEW o \in Ops, Lock(o)
    PROVE  /\ Unlocked(o)' = Unlocked(o) \ {NextMutex(o)} /\ UNCHANGED <<program, vars, step>>
           /\ pc'[o] = IF Unlocked(o) = {NextMutex(o)} THEN "check" ELSE "lock"
           /\ pc[o] = "lock" /\ NextMutex(o) \in Unlocked(o) /\ NextMutex(o) \in Vars
           /\ \A x \in Vars : mu'[x] = IF x = NextMutex(o) THEN mu[x] \cup {o} ELSE mu[x]
<1>1. /\ pc[o] = "lock" /\ UNCHANGED <<program, vars, step>>
      /\ mu' = [mu EXCEPT ![NextMutex(o)] = @ \cup {o}]
      /\ pc'[o] = IF Unlocked(o) = {NextMutex(o)} THEN "check" ELSE "lock"
  BY DEF Lock, Types
<1>2. NextMutex(o) \in Unlocked(o) /\ NextMutex(o) \in Vars
  BY <1>1, NextIsUnlocked
<1>3. \A x \in Vars : mu'[x] = IF x = NextMutex(o) THEN mu[x] \cup {o} ELSE mu[x]
  BY <1>1, <1>2 DEF Types
<1>4. ToSet(vars[o]) \subseteq Vars
  BY DEF Types, ToSet
<1>5. Unlocked(o)' = Unlocked(o) \ {NextMutex(o)}
  BY <1>1, <1>3, <1>4 DEF Unlocked
<1> QED BY <1>1, <1>2, <1>3, <1>5

LEMMA HeldStep ==
    ASSUME Locking, BaseInv, NEW o \in Ops, Step(o) \/ Fail(o)
    PROVE  AllHeld'
<1>0. Types /\ DataTypes /\ AllHeld
  BY DEF BaseInv
<1>1. Others(o) /\ program' = program
  BY <1>0, OthersStay
<1>2. \A q \in Ops \ {o} : Held(q)'
  BY <1>0, <1>1, HeldStays DEF Others
<1>3. Held(o) /\ Fits(Kernel(o))
  BY <1>0, KernelFits DEF AllHeld
<1>4. CASE LookupFails(o) \/ Destroy(o) \/ CheckFails(o) \/ Return(o) \/ Fail(o)
  <2>1. PICK how \in {"done", "failed"} : Leave(o, how)
    BY <1>4 DEF LookupFails, Destroy, CheckFails, Return, Fail
  <2>2. Held(o)'
    BY <1>0, <2>1, LeaveHeld
  <2> QED BY <1>2, <2>2 DEF AllHeld
<1>5. CASE Lookup(o) \/ LookupOrCreate(o)
  <2>1. PICK x \in Vars : Found(o, x)
    BY <1>0, <1>5, HandleIsOne DEF Lookup, LookupOrCreate, Types
  <2>2. pc[o] = "lookup" /\ Kernel(o) # DestroyResource
    <3>1. ~DestroyResource.creates
      BY DEF DestroyResource, Simple
    <3> QED BY <1>5, <3>1 DEF Lookup, LookupOrCreate
  <2>3. Held(o)'
    BY <1>0, <2>1, <2>2, FoundHeld
  <2> QED BY <1>2, <2>3 DEF AllHeld
<1>6. CASE Lock(o)
  <2>1. Kernel(o)' = Kernel(o)
    BY <1>1 DEF Kernel
  <2>2. Held(o)'
    BY <1>0, <1>3, <1>6, <2>1, LockEffect DEF Held, Inside
  <2> QED BY <1>2, <2>2 DEF AllHeld
<1>7. CASE Check(o)
  <2>1. /\ pc[o] = "check" /\ UNCHANGED <<program, vars, mu, step>>
        /\ pc'[o] = IF Kernel(o).prepares THEN "prepare" ELSE "launch"
    BY <1>0, <1>7 DEF Check, Types
  <2>2. Unlocked(o)' = Unlocked(o) /\ Kernel(o)' = Kernel(o)
    BY <1>0, <2>1, UnlockedStays DEF Kernel
  <2>3. 1 \in 1 .. Kernel(o).of
    BY <1>3 DEF Fits, Flags
  <2>4. Kernel(o) # DestroyResource /\ 1 \in DOMAIN Kernel(o).launches /\ step[o] = 1
    BY <1>3, <2>1 DEF Fits, Held, Inside
  <2>5. ASSUME Kernel(o).prepares PROVE Held(o)'
    <3>1. pc'[o] = "prepare" /\ step'[o] = 1 /\ Len(vars'[o]) = Kernel(o).of /\ Unlocked(o) = {}
      BY <1>3, <2>1, <2>4, <2>5 DEF Held, Inside
    <3>2. Kernel(o)'.prepares
      BY <2>2, <2>5, Zenon
    <3> QED BY <2>2, <2>3, <2>4, <3>1, <3>2 DEF Held, Inside
  <2>6. ASSUME ~Kernel(o).prepares PROVE Held(o)'
    <3>1. pc'[o] = "launch" /\ step'[o] = 1 /\ Len(vars'[o]) = Kernel(o).of /\ Unlocked(o) = {}
      BY <1>3, <2>1, <2>4, <2>6 DEF Held, Inside
    <3> QED BY <2>2, <2>4, <3>1 DEF Held, Inside
  <2> QED BY <1>2, <2>5, <2>6 DEF AllHeld
<1>8. CASE Prepare(o)
  <2> DEFINE last == step[o] = Len(vars[o])
  <2>1. /\ pc[o] = "prepare" /\ UNCHANGED <<program, vars, mu>>
        /\ pc'[o] = IF last THEN "launch" ELSE "prepare"
        /\ step'[o] = IF last THEN 1 ELSE step[o] + 1
    BY <1>0, <1>8 DEF Prepare, Types, DataTypes
  <2>2. Unlocked(o)' = Unlocked(o) /\ Kernel(o)' = Kernel(o)
    BY <1>0, <2>1, UnlockedStays DEF Kernel
  <2>3. Kernel(o) # DestroyResource /\ 1 \in DOMAIN Kernel(o).launches
    BY <1>3, <2>1 DEF Fits, Held, Inside
  <2>4. /\ Len(vars[o]) = Kernel(o).of /\ step[o] \in 1 .. Kernel(o).of /\ Kernel(o).of \in Nat
        /\ Kernel(o).prepares
    BY <1>3, <2>1 DEF Fits, Flags, Held, Inside
  <2>5. Len(vars'[o]) = Kernel(o).of /\ Unlocked(o) = {}
    BY <1>3, <2>1 DEF Held, Inside
  <2>6. ASSUME last PROVE Held(o)'
    <3>1. pc'[o] = "launch" /\ step'[o] = 1
      BY <2>1, <2>6
    <3> QED BY <2>2, <2>3, <2>5, <3>1 DEF Held, Inside
  <2>7. ASSUME ~last PROVE Held(o)'
    <3>1. pc'[o] = "prepare" /\ step'[o] \in 1 .. Kernel(o).of
      BY <2>1, <2>4, <2>7
    <3>2. Kernel(o)'.prepares
      BY <2>2, <2>4, Zenon
    <3> QED BY <2>2, <2>3, <2>5, <3>1, <3>2 DEF Held, Inside
  <2> QED BY <1>2, <2>6, <2>7 DEF AllHeld
<1>9. CASE Assign(o) \/ Create(o) \/ Read(o) \/ Use(o) \/ UpdateTensors(o)
  <2>1. pc[o] = "launch" /\ Advance(o)
    BY <1>9 DEF Assign, Create, Read, Use, UpdateTensors, Launching
  <2>2. Held(o)'
    BY <1>0, <2>1, AdvanceHeld
  <2> QED BY <1>2, <2>2 DEF AllHeld
<1> QED BY <1>4, <1>5, <1>6, <1>7, <1>8, <1>9 DEF Step

LEMMA ExclusiveStep ==
    ASSUME Locking, BaseInv, NEW o \in Ops, Step(o) \/ Fail(o)
    PROVE  Exclusive'
<1>0. Types /\ DataTypes /\ AllHeld /\ Exclusive
  BY DEF BaseInv
<1>1. \A q \in Ops : Kernel(q)' = Kernel(q)
  BY <1>0, OthersStay DEF Kernel
<1>2. CASE \A x \in Vars : mu'[x] \subseteq mu[x]
  BY <1>0, <1>1, <1>2 DEF Exclusive, Types
<1>3. CASE Lock(o)
  <2>1. \A x \in Vars : mu'[x] = IF x = NextMutex(o) THEN mu[x] \cup {o} ELSE mu[x]
    BY <1>0, <1>3, LockEffect
  <2>2. \A r \in mu[NextMutex(o)] : Kernel(o).shared /\ Kernel(r).shared
    BY <1>3 DEF Lock, CanLock
  <2>3. \A x \in Vars : \A p, q \in mu'[x] : p # q => Kernel(p).shared /\ Kernel(q).shared
    BY <1>0, <2>1, <2>2 DEF Exclusive
  <2>4. \A x \in Vars : mu'[x] \subseteq Ops
    BY <1>0, <1>3, <2>1 DEF Types
  <2>5. \A x \in Vars : \A p, q \in mu'[x] : p # q => Kernel(p)'.shared /\ Kernel(q)'.shared
    BY <1>1, <2>3, <2>4, Zenon
  <2> QED BY <2>5 DEF Exclusive
<1>4. CASE LookupFails(o) \/ Destroy(o) \/ CheckFails(o) \/ Return(o) \/ Fail(o)
  <2>1. PICK how : Leave(o, how)
    BY <1>4 DEF LookupFails, Destroy, CheckFails, Return, Fail
  <2> QED BY <1>0, <1>2, <2>1 DEF Leave, Types
<1>5. CASE Lookup(o) \/ LookupOrCreate(o) \/ Check(o) \/ Prepare(o)
  BY <1>2, <1>5 DEF Lookup, LookupOrCreate, Found, Check, Prepare
<1>6. CASE Assign(o) \/ Create(o) \/ Read(o) \/ Use(o) \/ UpdateTensors(o)
  BY <1>2, <1>6 DEF Assign, Create, Read, Use, UpdateTensors, Advance
<1> QED BY <1>3, <1>4, <1>5, <1>6 DEF Step

-----------------------------------------------------------------------------
(* References *)

LEMMA ReservedStep ==
    ASSUME Locking, BaseInv, NEW o \in Ops, Step(o) \/ Fail(o)
    PROVE  Reserved'
<1>0. Types /\ DataTypes /\ AllHeld /\ Reserved
  BY DEF BaseInv
<1>1. Others(o) /\ program' = program /\ kept' = kept
  BY <1>0, OthersStay
<1>2. Fits(Kernel(o)) /\ \A q \in Ops : Kernel(q)' = Kernel(q)
  BY <1>0, <1>1, KernelFits DEF Kernel
<1>3. ASSUME Kernel(o) = AssignVariable, ~Returned(o)'
      PROVE  ~Returned(o) /\ locals'[o] = locals[o]
  <2>1. ~Kernel(o).holds /\ ~Kernel(o).prepares
    BY <1>2, <1>3 DEF Fits
  <2>2. ~(\E how \in {"done", "failed"} : Leave(o, how))
    BY <1>0, <1>3 DEF Leave, Returned, Types
  <2>3. CASE Lookup(o) \/ LookupOrCreate(o)
    BY <2>3 DEF Lookup, LookupOrCreate, Found, Returned
  <2>4. CASE Lock(o)
    BY <2>4 DEF Lock, Returned
  <2>5. CASE Check(o)
    BY <1>0, <2>1, <2>5 DEF Check, Returned, DataTypes
  <2>6. CASE Prepare(o)
    BY <1>0, <2>1, <2>6 DEF Prepare, AllHeld, Held
  <2>7. CASE Assign(o) \/ Create(o) \/ Read(o) \/ Use(o) \/ UpdateTensors(o)
    BY <2>7 DEF Assign, Create, Read, Use, UpdateTensors, Launching, Returned
  <2> QED BY <2>2, <2>3, <2>4, <2>5, <2>6, <2>7
         DEF Step, LookupFails, Destroy, CheckFails, Return, Fail
<1>4. ASSUME NEW q \in Ops, Kernel(q) = AssignVariable, ~Returned(q)'
      PROVE  program'[q].value \in locals'[q]
  <2>1. CASE q = o
    BY <1>0, <1>1, <1>3, <1>4, <2>1 DEF Reserved
  <2>2. CASE q # o
    BY <1>0, <1>1, <1>4, <2>2 DEF Reserved, Others, Returned
  <2> QED BY <2>1, <2>2
<1>5. ASSUME NEW q \in Ops, NEW b \in Buffers, output[q] = b, output'[q] = b
      PROVE  Kernel(q).shared /\ VarsOf(b)' = {} /\ KernelsOf(b)' = {q} /\ b \notin kept
  <2>1. Kernel(q).shared /\ VarsOf(b) = {} /\ KernelsOf(b) = {q} /\ b \notin kept
    BY <1>0, <1>5 DEF Reserved
  <2>2. b \notin FreeBuffers
    BY <2>1 DEF FreeBuffers
  <2>3. Kernel(o) = AssignVariable => o \notin KernelsOf(b)
    BY <1>2, <2>1 DEF Fits
  <2>4. VarsOf(b)' = {}
    BY <2>1, <2>2, <2>3, VarsGrow
  <2>5. KernelsOf(b)' \subseteq {q}
    BY <2>1, <2>2, KernelsGrow
  <2>6. q \in KernelsOf(b)'
    BY <1>5 DEF KernelsOf
  <2> QED BY <2>1, <2>4, <2>5, <2>6
<1>6. ASSUME NEW q \in Ops, NEW b \in Buffers, output[q] # b, output'[q] = b
      PROVE  Kernel(q).shared /\ VarsOf(b)' = {} /\ KernelsOf(b)' = {q} /\ b \notin kept
  <2>1. q = o
    BY <1>1, <1>6 DEF Others
  <2>2. Read(o)
    <3>1. \A how : Leave(o, how) => output' = output
      BY DEF Leave
    <3>2. CASE LookupFails(o) \/ Destroy(o) \/ CheckFails(o) \/ Return(o) \/ Fail(o)
      BY <1>6, <3>1, <3>2 DEF LookupFails, Destroy, CheckFails, Return, Fail
    <3>3. CASE Lookup(o) \/ LookupOrCreate(o) \/ Lock(o) \/ Check(o) \/ Prepare(o)
      BY <1>6, <3>3 DEF Lookup, LookupOrCreate, Found, Lock, Check, Prepare
    <3>4. CASE Assign(o) \/ Create(o) \/ Use(o) \/ UpdateTensors(o)
      BY <1>6, <3>4 DEF Assign, Create, Use, UpdateTensors
    <3> QED BY <3>2, <3>3, <3>4 DEF Step
  <2>3. b \in FreeBuffers /\ output' = [output EXCEPT ![o] = b]
    BY <1>0, <1>6, <2>1, <2>2, Allocated DEF Read, ReadOut, DataTypes
  <2>4. VarsOf(b) = {} /\ KernelsOf(b) = {} /\ b \notin kept
    BY <2>3 DEF FreeBuffers
  <2>5. UNCHANGED <<resource, vars, tensor, locals>>
    BY <2>2 DEF Read, Advance
  <2>6. VarsOf(b)' = {}
    BY <2>4, <2>5 DEF VarsOf, Live
  <2>7. KernelsOf(b)' = {o}
    <3>1. \A r \in Ops : output'[r] = b <=> r = o \/ output[r] = b
      BY <1>0, <2>3 DEF DataTypes
    <3> QED BY <2>4, <2>5, <3>1 DEF KernelsOf
  <2>8. Kernel(o).shared
    <3>1. step[o] \in DOMAIN Kernel(o).launches /\ Launch(o).do \in {"read", "gather"}
      BY <1>0, <2>2 DEF Read, Launching, AllHeld, Held
    <3> QED BY <1>2, <3>1 DEF Fits, PartsFit, PartFits, Launch
  <2> QED BY <2>1, <2>4, <2>6, <2>7, <2>8
<1>7. ASSUME NEW q \in Ops, NEW b \in Buffers, output'[q] = b
      PROVE  Kernel(q)'.shared /\ VarsOf(b)' = {} /\ KernelsOf(b)' = {q} /\ b \notin kept'
  <2>1. Kernel(q).shared /\ VarsOf(b)' = {} /\ KernelsOf(b)' = {q} /\ b \notin kept
    BY <1>5, <1>6, <1>7
  <2>2. Kernel(q)'.shared
    BY <1>2, <2>1, Zenon
  <2> QED BY <1>1, <2>1, <2>2, Zenon
<1>8. \A q \in Ops : Kernel(q)' = AssignVariable /\ ~Returned(q)' => program'[q].value \in locals'[q]
  BY <1>2, <1>4
<1> QED BY <1>7, <1>8, Zenon DEF Reserved

LEMMA PreparedStays ==
    ASSUME Locking, BaseInv, NEW o \in Ops, Step(o) \/ Fail(o), NEW q \in Ops \ {o}
    PROVE  Prepared(q)'
<1>0. Types /\ DataTypes /\ AllHeld /\ Prepared(q) /\ Others(o) /\ Kernel(q)' = Kernel(q)
  BY OthersStay DEF BaseInv, AllPrepared, Kernel
<1>1. /\ pc'[q] = pc[q] /\ vars'[q] = vars[q] /\ step'[q] = step[q] /\ target'[q] = target[q]
  BY <1>0 DEF Others
<1>2. CASE pc[q] \notin {"prepare", "launch"}
  BY <1>1, <1>2 DEF Prepared
<1>3. CASE pc[q] \in {"prepare", "launch"}
  <2>1. \A i \in DOMAIN vars[q] : vars[q][i] \in ToSet(vars[q]) /\ q \in mu[vars[q][i]]
    BY <1>0, <1>3, VarsAt DEF Inside
  <2>2. \A i \in DOMAIN vars[q] : tensor'[vars[q][i]] = tensor[vars[q][i]]
    BY <2>1, TensorStays
  <2>3. TensorsOf(q)' = TensorsOf(q)
    BY <1>1, <2>2 DEF TensorsOf
  <2>4. pc'[q] = "launch" => target'[q] = TensorsOf(q)'
    BY <1>0, <1>1, <2>3 DEF Prepared
  <2>5. ASSUME Kernel(q).prepares, NEW i \in DOMAIN vars[q], NEW x \in Vars, vars[q][i] = x
        PROVE  /\ tensor'[x] # None
               /\ pc'[q] = "launch" \/ i < step'[q] => RefCountIsOne(x)'
    <3>1. /\ tensor[x] # None
          /\ pc[q] = "launch" \/ i < step[q] => RefCountIsOne(x)
      BY <1>0, <1>3, <2>5 DEF Prepared
    <3>2. tensor'[x] = tensor[x] /\ x \in ToSet(vars[q]) /\ q \in mu[x]
      BY <2>1, <2>2, <2>5
    <3>3. RefCountIsOne(x) => RefCountIsOne(x)'
      BY <3>1, <3>2, Undisturbed
    <3> QED BY <1>1, <3>1, <3>2, <3>3
  <2>6. Kernel(q)'.prepares => Kernel(q).prepares
    BY <1>0, Zenon
  <2> QED BY <1>1, <2>4, <2>5, <2>6, Zenon DEF Prepared
<1> QED BY <1>2, <1>3

LEMMA RefsStay ==
    ASSUME NEW x \in Vars, UNCHANGED <<resource, vars, tensor, kept, locals, output>>
    PROVE  RefCountIsOne(x)' <=> RefCountIsOne(x)
  BY DEF RefCountIsOne, VarsOf, KernelsOf, Live

\* A copy is made for a tensor that somebody else refers to.
LEMMA PrepareOwn ==
    ASSUME Locking, BaseInv, NEW o \in Ops, Prepare(o)
    PROVE  Prepared(o)'
<1>0. Types /\ DataTypes /\ AllHeld /\ Others(o) /\ Kernel(o)' = Kernel(o) /\ Fits(Kernel(o))
  BY OthersStay, KernelFits DEF BaseInv, Kernel, Step
<1> DEFINE last == step[o] = Len(vars[o])
<1>1. /\ pc[o] = "prepare" /\ UNCHANGED <<vars, resource, kept, output>>
      /\ pc'[o] = IF last THEN "launch" ELSE "prepare"
      /\ step'[o] = IF last THEN 1 ELSE step[o] + 1
      /\ target'[o] = Targets(o, tensor') /\ locals'[o] \in {locals[o], {}}
      /\ \A q \in Ops \ {o} : locals'[q] = locals[q]
  BY <1>0 DEF Prepare, Types, DataTypes
<1>2. /\ step[o] \in 1 .. Kernel(o).of /\ Kernel(o).prepares /\ ~Kernel(o).shared
      /\ Len(vars[o]) = Kernel(o).of /\ Kernel(o).of \in Nat /\ DOMAIN vars[o] = 1 .. Kernel(o).of
  BY <1>0, <1>1, VarsAt DEF AllHeld, Held, Inside, Fits, Flags
<1>3. PICK x \in Vars : x = vars[o][step[o]]
  BY <1>0, <1>1, <1>2, VarsAt DEF Inside
<1>4. Live(x) /\ \A y \in Vars : Live(y)' <=> Live(y)
  BY <1>0, <1>1, <1>2, <1>3, VarsAt DEF Inside, Live
<1>5. \A b \in Buffers : KernelsOf(b)' \subseteq KernelsOf(b)
  BY <1>1 DEF KernelsOf
<1>6. \/ RefCountIsOne(x) /\ tensor' = tensor
      \/ CanAllocate /\ tensor' = [tensor EXCEPT ![x] = allocate_temp]
  BY <1>3 DEF Prepare, MustCopy
<1>7. ASSUME NEW y \in Vars, tensor[y] # None
      PROVE  tensor'[y] # None
  BY <1>0, <1>6, <1>7, Allocated, ResourceVariablesAssumption DEF DataTypes
<1>8. ASSUME NEW y \in Vars, NEW b \in Buffers, b = tensor[y], RefCountIsOne(y), b \notin FreeBuffers
      PROVE  tensor'[y] = b => RefCountIsOne(y)'
  <2>1. VarsOf(b) = {y} /\ KernelsOf(b) = {} /\ b \notin kept
    BY <1>8 DEF RefCountIsOne
  <2>2. \A z \in Vars : z # y /\ Live(z) => tensor'[z] # b
    BY <1>0, <1>6, <1>8, <2>1, Allocated DEF VarsOf, DataTypes
  <2>3. KernelsOf(b)' = {} /\ b \notin kept'
    BY <1>1, <1>5, <2>1
  <2>4. Live(y)
    BY <2>1 DEF VarsOf
  <2>5. tensor'[y] = b => VarsOf(b)' = {y}
    BY <1>4, <2>2, <2>4 DEF VarsOf
  <2> QED BY <2>3, <2>5 DEF RefCountIsOne
<1>9. tensor[x] # None
  BY <1>1, <1>2, <1>3 DEF BaseInv, AllPrepared, Prepared
<1>10. ASSUME CanAllocate, tensor' = [tensor EXCEPT ![x] = allocate_temp]
       PROVE  RefCountIsOne(x)'
  <2>1. PICK b \in FreeBuffers : b = allocate_temp
    BY <1>10, Allocated
  <2>2. VarsOf(b) = {} /\ KernelsOf(b) = {} /\ b \notin kept /\ b \in Buffers
    BY <2>1 DEF FreeBuffers
  <2>3. tensor'[x] = b /\ \A y \in Vars : y # x => tensor'[y] = tensor[y]
    BY <1>0, <1>10, <2>1 DEF DataTypes
  <2>4. VarsOf(b)' = {x}
    BY <1>4, <2>2, <2>3 DEF VarsOf
  <2>5. KernelsOf(b)' = {} /\ b \notin kept'
    BY <1>1, <1>5, <2>2
  <2> QED BY <2>3, <2>4, <2>5 DEF RefCountIsOne
<1>11. ASSUME NEW y \in Vars, RefCountIsOne(y), tensor[y] # None
       PROVE  RefCountIsOne(y)'
  <2>1. PICK b \in Buffers : b = tensor[y]
    BY <1>0, <1>11 DEF DataTypes, Tensors
  <2>2. b \notin FreeBuffers
    BY <1>11, <2>1 DEF RefCountIsOne, FreeBuffers
  <2>3. CASE tensor'[y] = b
    BY <1>8, <1>11, <2>1, <2>2, <2>3
  <2>4. CASE tensor'[y] # b
    <3>1. y = x /\ CanAllocate /\ tensor' = [tensor EXCEPT ![x] = allocate_temp]
      BY <1>0, <1>6, <2>1, <2>4 DEF DataTypes
    <3> QED BY <1>10, <3>1
  <2> QED BY <2>3, <2>4
<1>12. RefCountIsOne(x)'
  BY <1>6, <1>9, <1>10, <1>11
<1>13. ASSUME NEW i \in DOMAIN vars[o], NEW y \in Vars, vars[o][i] = y
       PROVE  /\ tensor'[y] # None
              /\ i < step[o] \/ i = step[o] => RefCountIsOne(y)'
  <2>1. tensor[y] # None /\ (i < step[o] => RefCountIsOne(y))
    BY <1>1, <1>2, <1>13 DEF BaseInv, AllPrepared, Prepared
  <2> QED BY <1>3, <1>7, <1>11, <1>12, <1>13, <2>1
<1>14. \A i \in DOMAIN vars[o] : pc'[o] = "launch" \/ i < step'[o] => i < step[o] \/ i = step[o]
  BY <1>1, <1>2
<1>15. target'[o] = TensorsOf(o)'
  BY <1>1 DEF TensorsOf, Targets
<1>16. ASSUME NEW i \in DOMAIN vars'[o], NEW y \in Vars, vars'[o][i] = y
       PROVE  /\ tensor'[y] # None
              /\ pc'[o] = "launch" \/ i < step'[o] => RefCountIsOne(y)'
  BY <1>1, <1>13, <1>14, <1>16
<1> QED BY <1>15, <1>16 DEF Prepared

LEMMA PreparedOwn ==
    ASSUME Locking, BaseInv, NEW o \in Ops, Step(o) \/ Fail(o)
    PROVE  Prepared(o)'
<1>0. Types /\ DataTypes /\ AllHeld /\ Kernel(o)' = Kernel(o) /\ Fits(Kernel(o))
  BY OthersStay, KernelFits DEF BaseInv, Kernel
<1>1. CASE pc'[o] \notin {"prepare", "launch"}
  BY <1>1 DEF Prepared
<1>2. CASE Prepare(o)
  BY <1>2, PrepareOwn
<1>3. CASE Check(o)
  <2>1. /\ pc[o] = "check" /\ Valid(o) /\ UNCHANGED <<vars, tensor, step>>
        /\ pc'[o] = IF Kernel(o).prepares THEN "prepare" ELSE "launch"
        /\ target'[o] = TensorsOf(o)
    BY <1>0, <1>3 DEF Check, Types, DataTypes
  <2>2. TensorsOf(o)' = TensorsOf(o)
    BY <2>1 DEF TensorsOf
  <2>3. step'[o] = 1 /\ \A i \in DOMAIN vars[o] : ~(i < 1)
    BY <1>0, <2>1, VarsAt DEF AllHeld, Held, Inside
  <2>4. Kernel(o).prepares => \A i \in DOMAIN vars[o] : tensor[vars[o][i]] # None
    BY <1>0, <2>1 DEF Valid, ToSet, Fits, Flags
  <2>5. Kernel(o)'.prepares => Kernel(o).prepares
    BY <1>0, Zenon
  <2>6. Kernel(o).prepares => pc'[o] # "launch"
    BY <2>1
  <2> QED BY <2>1, <2>2, <2>3, <2>4, <2>5, <2>6 DEF Prepared
<1>4. CASE /\ Assign(o) \/ Create(o) \/ Read(o) \/ Use(o) \/ UpdateTensors(o)
           /\ pc'[o] = "launch"
  <2>0. pc[o] = "launch" /\ Advance(o)
    BY <1>4 DEF Assign, Create, Read, Use, UpdateTensors, Launching
  <2>1. ~Assign(o) /\ ~Create(o)
    <3>1. step[o] \in DOMAIN Kernel(o).launches /\ step[o] # Len(Kernel(o).launches)
      BY <1>0, <1>4, <2>0 DEF AllHeld, Held, Advance, Types
    <3> QED BY <1>0, <3>1 DEF Fits, PartsFit, PartFits, Launch, Launching, Assign, Create
  <2>2. Read(o) \/ Use(o) \/ UpdateTensors(o)
    BY <1>4, <2>1
  <2>3. UNCHANGED <<resource, vars, tensor, kept, locals, target>>
    BY <2>2 DEF Read, Use, UpdateTensors, Advance
  <2>4. Prepared(o) /\ TensorsOf(o)' = TensorsOf(o)
    BY <2>3 DEF BaseInv, AllPrepared, TensorsOf
  <2>5. Kernel(o).prepares => output' = output
    <3>1. CASE Read(o)
      <4>1. step[o] \in DOMAIN Kernel(o).launches /\ Launch(o).do \in {"read", "gather"}
        BY <1>0, <3>1 DEF Read, Launching, AllHeld, Held
      <4> QED BY <1>0, <4>1 DEF Fits, Flags, PartsFit, PartFits, Launch
    <3> QED BY <2>2, <3>1 DEF Use, UpdateTensors
  <2>6. Kernel(o).prepares => \A x \in Vars : RefCountIsOne(x)' <=> RefCountIsOne(x)
    BY <2>3, <2>5, RefsStay
  <2>7. Kernel(o)'.prepares => Kernel(o).prepares
    BY <1>0, Zenon
  <2> QED BY <1>4, <2>0, <2>3, <2>4, <2>6, <2>7 DEF Prepared
<1>5. CASE LookupFails(o) \/ Destroy(o) \/ CheckFails(o) \/ Return(o) \/ Fail(o)
  BY <1>0, <1>1, <1>5 DEF LookupFails, Destroy, CheckFails, Return, Fail, Leave, Types
<1>6. CASE Lookup(o) \/ LookupOrCreate(o)
  <2>1. Kernel(o).mutexes # "none"
    BY <1>0 DEF Fits, Flags
  <2> QED BY <1>0, <1>1, <1>6, <2>1 DEF Lookup, LookupOrCreate, Found, Types
<1>7. CASE Lock(o)
  BY <1>0, <1>1, <1>7 DEF Lock, Types
<1>8. CASE Assign(o) \/ Create(o) \/ Read(o) \/ Use(o) \/ UpdateTensors(o)
  <2>1. pc[o] = "launch" /\ Advance(o)
    BY <1>8 DEF Assign, Create, Read, Use, UpdateTensors, Launching
  <2>2. pc'[o] \in {"sync", "launch"}
    BY <1>0, <2>1 DEF Advance, Types
  <2> QED BY <1>1, <1>4, <1>8, <2>2
<1> QED BY <1>2, <1>3, <1>5, <1>6, <1>7, <1>8 DEF Step

LEMMA BaseStep ==
    ASSUME Locking, BaseInv, AllLatest, OwnTemps, NEW o \in Ops, Step(o) \/ Fail(o)
    PROVE  BaseInv'
<1>1. \A q \in Ops : Prepared(q)'
  BY PreparedOwn, PreparedStays
<1> QED BY <1>1, TypesStep, HeldStep, ExclusiveStep, ReservedStep DEF BaseInv, AllPrepared

-----------------------------------------------------------------------------
(* Updates *)

\* The buffer of a variable that a kernel has prepared is its own.
LEMMA PreparedBuffer ==
    ASSUME Locking, BaseInv, NEW q \in Ops, pc[q] = "launch", Kernel(q).prepares,
           NEW i \in DOMAIN vars[q]
    PROVE  /\ vars[q][i] \in Vars /\ vars[q][i] \in ToSet(vars[q]) /\ q \in mu[vars[q][i]]
           /\ tensor[vars[q][i]] \in Buffers /\ RefCountIsOne(vars[q][i])
           /\ Has(q, vars[q][i])
<1>0. Types /\ DataTypes /\ AllHeld /\ ~Kernel(q).shared
  BY KernelFits DEF BaseInv, Fits, Flags
<1>1. vars[q][i] \in Vars /\ vars[q][i] \in ToSet(vars[q]) /\ q \in mu[vars[q][i]]
  BY <1>0, VarsAt DEF Inside
<1>2. tensor[vars[q][i]] # None /\ RefCountIsOne(vars[q][i])
  BY <1>1 DEF BaseInv, AllPrepared, Prepared
<1> QED BY <1>0, <1>1, <1>2, ItsOwn DEF DataTypes, Tensors

\* A buffer that has been changed by o is that of its variables.
LEMMA UpdatedOwn ==
    ASSUME Locking, BaseInv, NEW o \in Ops, NEW b \in Buffers, Updated(o, b),
           NEW q \in Ops, pc[q] = "launch", Kernel(q).prepares,
           NEW i \in DOMAIN vars[q], tensor[vars[q][i]] = b
    PROVE  q = o
<1>1. RefCountIsOne(vars[q][i]) /\ q \in mu[vars[q][i]]
  BY PreparedBuffer
<1>2. PICK j \in Touched(o) : tensor[vars[o][j]] = b
  BY DEF Updated
<1>3. /\ vars[o][j] \in Vars /\ Live(vars[o][j]) /\ Has(o, vars[o][j])
  BY <1>2, UpdateEffect DEF Updated
<1>4. vars[o][j] = vars[q][i]
  BY <1>1, <1>2, <1>3 DEF RefCountIsOne, VarsOf
<1> QED BY <1>1, <1>3, <1>4 DEF BaseInv, Exclusive, Has

LEMMA UpdatedUpdates ==
    ASSUME Locking, BaseInv, OwnTemps, NEW o \in Ops, NEW b \in Buffers, Updated(o, b)
    PROVE  LET us == contents[b].updates
               u  == Update(o, Doing(o))
           IN  /\ u \in Updates /\ us \in Seq(Updates)
               /\ contents'[b].updates = Append(us, u)
               /\ u.by = o /\ u.do = Doing(o) /\ u.moments = temp[o]
<1>0. Types /\ DataTypes
  BY DEF BaseInv
<1>1. Doing(o) \in Changing
  BY UpdateEffect DEF Updated, Doing, Changing
<1>2. Update(o, Doing(o)) \in Updates
  BY <1>0, <1>1 DEF Update, Updates, DataTypes
<1>3. contents[b] \in [value : Tensors, updates : Seq(Updates)]
  BY <1>0 DEF DataTypes
<1>4. contents'[b].updates = Append(contents[b].updates, Update(o, Doing(o)))
  BY <1>3 DEF Updated
<1> QED BY <1>2, <1>3, <1>4 DEF Update

LEMMA TempsStep ==
    ASSUME Locking, BaseInv, AllLatest, OwnTemps, NEW o \in Ops, Step(o) \/ Fail(o)
    PROVE  OwnTemps'
<1>0. Types /\ DataTypes
  BY DEF BaseInv
<1>1. CASE Use(o)
  BY <1>1, UseOwn DEF OwnTemps
<1>2. CASE temp' = temp \/ \E how : Leave(o, how)
  BY <1>0, <1>2 DEF OwnTemps, Leave, DataTypes
<1>3. CASE LookupFails(o) \/ Destroy(o) \/ CheckFails(o) \/ Return(o) \/ Fail(o)
  BY <1>2, <1>3 DEF LookupFails, Destroy, CheckFails, Return, Fail
<1>4. CASE Lookup(o) \/ LookupOrCreate(o) \/ Lock(o) \/ Check(o) \/ Prepare(o)
  BY <1>2, <1>4 DEF Lookup, LookupOrCreate, Found, Lock, Check, Prepare
<1>5. CASE Assign(o) \/ Create(o) \/ Read(o) \/ UpdateTensors(o)
  BY <1>2, <1>5 DEF Assign, Create, Read, UpdateTensors
<1> QED BY <1>1, <1>3, <1>4, <1>5 DEF Step

\* What a buffer has that was copied or made anew.
LEMMA FreshContents ==
    ASSUME Locking, BaseInv, NEW o \in Ops, Step(o) \/ Fail(o), NEW b \in FreeBuffers,
           contents'[b] # contents[b]
    PROVE  \/ contents'[b].updates = <<>>
           \/ \E x \in Vars : /\ tensor[x] \in Buffers /\ contents'[b] = contents[tensor[x]]
                              /\ Live(x) /\ o \in mu[x]
                              /\ (pc[o] = "prepare" /\ Has(o, x)) \/ Kernel(o).shared
<1>0. Types /\ DataTypes /\ AllHeld /\ b \in Buffers /\ Fits(Kernel(o))
  BY KernelFits DEF BaseInv, FreeBuffers
<1>1. ~UpdateTensors(o)
  <2> SUFFICES ASSUME UpdateTensors(o) PROVE FALSE
    OBVIOUS
  <2>1. b \notin {target[o][i] : i \in Touched(o)}
    BY UpdateEffect DEF FreeBuffers, VarsOf
  <2> QED BY <1>0, <2>1 DEF UpdateTensors
<1>2. CASE Prepare(o)
  <2>1. pc[o] = "prepare" /\ Kernel(o).prepares /\ step[o] \in DOMAIN vars[o]
    BY <1>0, <1>2, VarsAt DEF Prepare, AllHeld, Held, Inside
  <2>2. PICK x \in Vars : x = vars[o][step[o]] /\ Live(x) /\ o \in mu[x] /\ Has(o, x)
    BY <1>0, <2>1, VarsAt, ItsOwn DEF Inside, Fits, Flags
  <2>3. tensor[x] \in Buffers
    BY <1>0, <2>1, <2>2 DEF BaseInv, AllPrepared, Prepared, DataTypes, Tensors
  <2>4. contents'[b] = contents[tensor[x]]
    BY <1>0, <1>2, <2>2 DEF Prepare, DataTypes
  <2> QED BY <2>1, <2>2, <2>3, <2>4
<1>3. CASE Create(o)
  BY <1>0, <1>3 DEF Create, DataTypes, Fresh
<1>4. CASE Read(o)
  <2>1. 1 \in DOMAIN vars[o] /\ pc[o] = "launch"
    BY <1>0, <1>4, VarsAt DEF Read, Launching, Inside, Fits, Flags
  <2>2. PICK x \in Vars : x = vars[o][1] /\ Live(x) /\ o \in mu[x]
    BY <1>0, <2>1, VarsAt DEF Inside
  <2>3. Kernel(o).shared
    <3>1. step[o] \in DOMAIN Kernel(o).launches /\ Launch(o).do \in {"read", "gather"}
      BY <1>0, <1>4 DEF Read, Launching, AllHeld, Held
    <3> QED BY <1>0, <3>1 DEF Fits, PartsFit, PartFits, Launch
  <2>4. contents'[b] = IF tensor[x] = None THEN Fresh(None) ELSE contents[tensor[x]]
    BY <1>0, <1>4, <2>2 DEF Read, ReadOut, DataTypes
  <2>5. CASE tensor[x] = None
    BY <2>4, <2>5 DEF Fresh
  <2>6. CASE tensor[x] # None
    BY <1>0, <2>2, <2>3, <2>4, <2>6 DEF DataTypes, Tensors
  <2> QED BY <2>5, <2>6
<1>5. contents' # contents
  OBVIOUS
<1>6. ~(Lookup(o) \/ LookupOrCreate(o) \/ LookupFails(o) \/ Destroy(o) \/ CheckFails(o) \/ Return(o) \/ Fail(o))
  BY <1>5 DEF Lookup, LookupOrCreate, Found, LookupFails, Destroy, CheckFails, Return, Fail
<1>7. ~(Lock(o) \/ Check(o) \/ Assign(o) \/ Use(o))
  BY <1>5 DEF Lock, Check, Assign, Use
<1> QED BY <1>1, <1>2, <1>3, <1>4, <1>6, <1>7 DEF Step

LEMMA LatestStep ==
    ASSUME Locking, BaseInv, AllLatest, OwnTemps, NEW o \in Ops, Step(o) \/ Fail(o)
    PROVE  AllLatest'
<1>0. Types /\ DataTypes /\ AllHeld /\ Others(o) /\ \A q \in Ops : Kernel(q)' = Kernel(q)
  BY OthersStay DEF BaseInv, Kernel
<1>1. ASSUME NEW q \in Ops, pc'[q] = "launch", Kernel(q).prepares,
             NEW j \in DOMAIN Kernel(q).launches, j < step'[q], NEW b \in Buffers,
             Kernel(q).launches[j].do \in Changing,
             tensor'[vars'[q][Kernel(q).launches[j].at]] = b
      PROVE  LastIs(q, b)'
  <2> DEFINE at == Kernel(q).launches[j].at
  <2>1. at \in 1 .. Kernel(q).of
    BY <1>0, <1>1, KernelFits DEF Fits, PartsFit, PartFits
  <2>2. contents'[b] = contents[b] /\ LastIs(q, b) => LastIs(q, b)'
    BY DEF LastIs
  <2>3. ASSUME q # o
        PROVE  LastIs(q, b)'
    <3>1. pc[q] = "launch" /\ vars'[q] = vars[q] /\ step'[q] = step[q]
      BY <1>0, <1>1, <2>3 DEF Others
    <3>2. at \in DOMAIN vars[q]
      BY <1>0, <2>1, <3>1, VarsAt DEF Inside
    <3>3. /\ vars[q][at] \in ToSet(vars[q]) /\ q \in mu[vars[q][at]]
          /\ tensor[vars[q][at]] \in Buffers /\ RefCountIsOne(vars[q][at])
      BY <1>1, <3>1, <3>2, PreparedBuffer
    <3>4. tensor[vars[q][at]] # None
      BY <3>3, ResourceVariablesAssumption
    <3> HIDE DEF at
    <3>5. /\ tensor'[vars[q][at]] = tensor[vars[q][at]]
          /\ contents'[tensor[vars[q][at]]] = contents[tensor[vars[q][at]]]
      BY <2>3, <3>3, <3>4, TensorStays, Undisturbed
    <3>6. LastIs(q, b)
      BY <1>1, <3>1, <3>5 DEF AllLatest, Latest, at
    <3> QED BY <1>1, <2>2, <3>1, <3>5, <3>6 DEF at
  <2>4. ASSUME q = o
        PROVE  LastIs(q, b)'
    <3>0. Fits(Kernel(o)) /\ step[o] \in Nat
      BY <1>0, KernelFits DEF DataTypes
    <3>1. j \in 1 .. Len(Kernel(o).launches) /\ Len(Kernel(o).launches) \in Nat
      BY <1>1, <2>4, <3>0 DEF Fits, PartsFit
    <3>2. ~Check(o) /\ ~Prepare(o)
      <4>1. Check(o) \/ Prepare(o) => step'[o] = 1
        BY <1>0, <1>1, <2>4 DEF Check, Prepare, AllHeld, Held, Types, DataTypes
      <4> QED BY <1>1, <2>4, <3>1, <4>1
    <3>3. ~(LookupFails(o) \/ Destroy(o) \/ CheckFails(o) \/ Return(o) \/ Fail(o))
      BY <1>0, <1>1, <2>4 DEF LookupFails, Destroy, CheckFails, Return, Fail, Leave, Types
    <3>4. ~(Lookup(o) \/ LookupOrCreate(o) \/ Lock(o))
      <4>1. Kernel(o).mutexes # "none"
        BY <3>0 DEF Fits, Flags
      <4> QED BY <1>0, <1>1, <2>4, <4>1 DEF Lookup, LookupOrCreate, Found, Lock, Types
    <3>5. pc[o] = "launch" => PartFits(Kernel(o), step[o])
      BY <1>0, <3>0 DEF AllHeld, Held, Fits, PartsFit
    <3>6. ~(Assign(o) \/ Create(o) \/ Read(o))
      BY <1>1, <2>4, <3>0, <3>5 DEF Assign, Create, Read, Launching, Launch, PartFits, Fits, Flags
    <3>7. /\ Use(o) \/ UpdateTensors(o)
          /\ pc[o] = "launch" /\ Advance(o)
      BY <3>2, <3>3, <3>4, <3>6 DEF Step, Use, UpdateTensors, Launching
    <3>8. step'[o] = step[o] + 1 /\ UNCHANGED <<vars, tensor>>
      BY <1>0, <3>7 DEF Advance, DataTypes, Use, UpdateTensors
    <3>9. tensor[vars[o][at]] = b
      BY <1>1, <2>4, <3>8
    <3>10. j < step[o] => LastIs(o, b)
      BY <1>1, <2>4, <3>7, <3>9 DEF AllLatest, Latest
    <3>11. CASE Use(o)
      <4>1. j # step[o]
        BY <1>1, <2>4, <3>11 DEF Use, Launching, Launch, Changing
      <4>2. j < step[o]
        BY <1>1, <2>4, <3>0, <3>1, <3>8, <4>1
      <4> QED BY <2>2, <2>4, <3>10, <3>11, <4>2 DEF Use
    <3>12. CASE UpdateTensors(o)
      <4>1. CASE Updated(o, b)
        <5>1. /\ contents'[b].updates = Append(contents[b].updates, Update(o, Doing(o)))
              /\ contents[b].updates \in Seq(Updates) /\ Update(o, Doing(o)) \in Updates
              /\ Update(o, Doing(o)).by = o
          BY <4>1, UpdatedUpdates
        <5>2. LET us == contents'[b].updates IN us # <<>> /\ us[Len(us)] = Update(o, Doing(o))
          BY <5>1, AppendSet, EmptySeq
        <5> QED BY <2>4, <5>1, <5>2 DEF LastIs
      <4>2. CASE ~Updated(o, b)
        <5>1. j # step[o]
          <6> SUFFICES ASSUME j = step[o] PROVE Updated(o, b)
            BY <4>2
          <6>1. Launch(o).do # "all" /\ Touched(o) = {at}
            BY <1>1, <2>4 DEF Launch, Changing, Touched
          <6>2. target[o][at] = b /\ b # None
            BY <3>9, <3>12, <6>1, UpdateEffect, ResourceVariablesAssumption
          <6>3. contents'[b] = [contents[b] EXCEPT !.updates = Append(@, Update(o, Doing(o)))]
            BY <3>12, <6>1, <6>2 DEF UpdateTensors, Doing
          <6> QED BY <3>9, <3>12, <6>1, <6>3 DEF Updated
        <5>2. j < step[o]
          BY <1>1, <2>4, <3>0, <3>1, <3>8, <5>1
        <5>3. b \notin FreeBuffers
          <6>1. at \in DOMAIN vars[o]
            BY <1>0, <2>1, <2>4, <3>7, VarsAt DEF Inside
          <6>2. RefCountIsOne(vars[o][at])
            BY <1>1, <2>4, <3>7, <6>1, PreparedBuffer
          <6> QED BY <3>9, <6>2 DEF RefCountIsOne, FreeBuffers
        <5> QED BY <2>2, <2>4, <3>10, <4>2, <5>2, <5>3, ContentsEffect
      <4> QED BY <4>1, <4>2
    <3> QED BY <3>7, <3>11, <3>12
  <2> QED BY <2>3, <2>4
<1>2. \A q \in Ops : Kernel(q)'.prepares => Kernel(q).prepares
  BY <1>0, Zenon
<1>3. ASSUME NEW q \in Ops, pc'[q] = "launch", Kernel(q)'.prepares,
             NEW j \in DOMAIN Kernel(q)'.launches, j < step'[q], NEW b \in Buffers,
             Kernel(q)'.launches[j].do \in Changing,
             tensor'[vars'[q][Kernel(q)'.launches[j].at]] = b
      PROVE  LastIs(q, b)'
  <2>1. Kernel(q)'.launches = Kernel(q).launches
    BY <1>0
  <2> QED BY <1>1, <1>2, <1>3, <2>1
<1> QED BY <1>3, Zenon DEF AllLatest, Latest

LEMMA MomentsStep ==
    ASSUME Locking, BaseInv, OwnTemps, OwnMoments, NEW o \in Ops, Step(o) \/ Fail(o)
    PROVE  OwnMoments'
<1> SUFFICES ASSUME NEW b \in Buffers, NEW i \in DOMAIN contents'[b].updates
             PROVE  contents'[b].updates[i].moments \subseteq {contents'[b].updates[i].by}
  BY DEF OwnMoments
<1>1. ASSUME NEW c \in Buffers, contents'[b] = contents[c]
      PROVE  contents'[b].updates[i].moments \subseteq {contents'[b].updates[i].by}
  BY <1>1 DEF OwnMoments
<1>2. CASE Updated(o, b)
  <2> DEFINE us == contents[b].updates
             u  == Update(o, Doing(o))
  <2>1. /\ u \in Updates /\ us \in Seq(Updates) /\ contents'[b].updates = Append(us, u)
        /\ u.by = o /\ u.moments = temp[o]
    BY <1>2, UpdatedUpdates
  <2>2. temp[o] \subseteq {o}
    BY DEF OwnTemps
  <2>3. \A j \in DOMAIN us : us[j].moments \subseteq {us[j].by}
    BY DEF OwnMoments
  <2> HIDE DEF us, u
  <2>4. i \in 1 .. Len(us) + 1 /\ DOMAIN us = 1 .. Len(us) /\ Len(us) \in Nat
    BY <2>1, AppendSet
  <2>5. CASE i = Len(us) + 1
    BY <2>1, <2>2, <2>5
  <2>6. CASE i \in 1 .. Len(us)
    BY <2>1, <2>3, <2>4, <2>6, AppendSet
  <2> QED BY <2>4, <2>5, <2>6
<1>3. CASE contents'[b] # contents[b] /\ b \in FreeBuffers
  <2>1. \/ contents'[b].updates = <<>>
        \/ \E x \in Vars : tensor[x] \in Buffers /\ contents'[b] = contents[tensor[x]]
    BY <1>3, FreshContents
  <2> QED BY <1>1, <2>1
<1> QED BY <1>1, <1>2, <1>3, ContentsEffect

-----------------------------------------------------------------------------
(* Moments that are updated in place *)

LEMMA FailedStays ==
    ASSUME Locking, BaseInv, NEW o \in Ops, Step(o) \/ Fail(o), NEW q \in Ops, pc[q] = "failed"
    PROVE  pc'[q] = "failed"
<1>0. Others(o) /\ Fits(Kernel(o))
  BY OthersStay, KernelFits DEF BaseInv
<1>1. pc[o] # "failed"
  BY <1>0 DEF Step, Lookup, LookupFails, LookupOrCreate, Destroy, Lock, Check, CheckFails, Prepare,
              Assign, Create, Read, Use, UpdateTensors, Launching, Return, Fail, Fits, Flags
<1> QED BY <1>0, <1>1 DEF Others

\* A kernel that is about to update a moment the second time does that or fails.
LEMMA AddingKernel ==
    ASSUME Locking, BaseInv, NEW q \in Ops, NEW b \in Buffers, Adding(q, b)
    PROVE  /\ pc[q] = "launch" /\ Launch(q).do = "add" /\ Kernel(q).prepares /\ ~Kernel(q).shared
           /\ Launch(q).at \in DOMAIN vars[q] /\ tensor[vars[q][Launch(q).at]] = b
<1>0. Types /\ DataTypes /\ AllHeld /\ Fits(Kernel(q))
  BY KernelFits DEF BaseInv
<1>1. pc[q] = "launch" /\ Launch(q).do = "add" /\ tensor[vars[q][Launch(q).at]] = b
  BY DEF Adding, Launching
<1>2. PartFits(Kernel(q), step[q])
  BY <1>0, <1>1 DEF AllHeld, Held, Fits, PartsFit
<1>3. Kernel(q).prepares /\ Launch(q).at \in 1 .. Kernel(q).of
  BY <1>1, <1>2 DEF PartFits, Launch, Changing
<1>4. DOMAIN vars[q] = 1 .. Kernel(q).of
  BY <1>0, <1>1, VarsAt DEF Inside
<1> QED BY <1>0, <1>1, <1>3, <1>4 DEF Fits, Flags

LEMMA AddingStays ==
    ASSUME Locking, BaseInv, OwnTemps, NEW o \in Ops, Step(o) \/ Fail(o), NEW b \in Buffers,
           NEW q \in Ops, Adding(q, b), contents'[b] = contents[b]
    PROVE  Adding(q, b)' \/ pc'[q] = "failed"
<1>0. Types /\ DataTypes /\ Others(o) /\ Kernel(q)' = Kernel(q)
  BY OthersStay DEF BaseInv, Kernel
<1>1. PICK at \in DOMAIN vars[q] :
         at = Launch(q).at /\ pc[q] = "launch" /\ Launch(q).do = "add" /\ Kernel(q).prepares
         /\ tensor[vars[q][at]] = b
  BY AddingKernel
<1>2. PICK x \in Vars : x = vars[q][at] /\ x \in ToSet(vars[q]) /\ q \in mu[x]
  BY <1>1, PreparedBuffer
<1>3. CASE q # o
  <2>1. tensor'[x] = tensor[x]
    BY <1>2, <1>3, TensorStays
  <2>2. pc'[q] = pc[q] /\ vars'[q] = vars[q] /\ step'[q] = step[q]
    BY <1>0, <1>3 DEF Others
  <2>3. Launch(q)' = Launch(q)
    BY <1>0, <2>2 DEF Launch
  <2> QED BY <1>1, <1>2, <2>1, <2>2, <2>3 DEF Adding, Launching
<1>4. CASE q = o
  <2>1. Fail(o) \/ UpdateTensors(o)
    BY <1>1, <1>4 DEF Step, Lookup, LookupFails, LookupOrCreate, Destroy, Lock, Check, CheckFails,
                      Prepare, Assign, Create, Read, Use, Launching, Return
  <2>2. ~UpdateTensors(o)
    <3> SUFFICES ASSUME UpdateTensors(o) PROVE FALSE
      OBVIOUS
    <3>1. Touched(o) = {at} /\ Launch(o).do # "all"
      BY <1>1, <1>4 DEF Touched
    <3>2. target[o][at] = b /\ b # None
      BY <1>1, <1>4, <3>1, UpdateEffect, ResourceVariablesAssumption
    <3>3. contents'[b] = [contents[b] EXCEPT !.updates = Append(@, Update(o, Doing(o)))]
      BY <3>1, <3>2 DEF UpdateTensors, Doing
    <3>4. Updated(o, b)
      BY <1>1, <1>4, <3>1, <3>3 DEF Updated
    <3>5. PICK us \in Seq(Updates), u \in Updates :
             us = contents[b].updates /\ contents'[b].updates = Append(us, u)
      BY <3>4, UpdatedUpdates
    <3>6. Len(Append(us, u)) = Len(us) + 1 /\ Len(us) \in Nat
      BY <3>5
    <3> QED BY <3>5, <3>6
  <2> QED BY <1>0, <1>4, <2>1, <2>2 DEF Fail, Leave, Types
<1> QED BY <1>3, <1>4

\* Nobody copies a moment between the two launches.
LEMMA NoHalfCopied ==
    ASSUME Locking, BaseInv, NEW o \in Ops, NEW q \in Ops, NEW b \in Buffers, Adding(q, b),
           NEW x \in Vars, Live(x), tensor[x] = b, o \in mu[x],
           pc[o] = "prepare" \/ Kernel(o).shared
    PROVE  FALSE
<1>1. PICK y \in Vars : RefCountIsOne(y) /\ q \in mu[y] /\ tensor[y] = b
  BY AddingKernel, PreparedBuffer
<1>2. x = y
  BY <1>1 DEF RefCountIsOne, VarsOf
<1>3. pc[q] = "launch" /\ ~Kernel(q).shared
  BY AddingKernel
<1> QED BY <1>1, <1>2, <1>3 DEF BaseInv, Exclusive

LEMMA WholesStep ==
    ASSUME Locking, BaseInv, OwnTemps, Wholes, NEW o \in Ops, Step(o) \/ Fail(o)
    PROVE  Wholes'
<1>0. Types /\ DataTypes /\ Fits(Kernel(o)) /\ Kernel(o)' = Kernel(o)
  BY OthersStay, KernelFits DEF BaseInv, Kernel
<1>1. ASSUME NEW us \in Seq(Updates), NEW i \in DOMAIN us, IsWhole(us, i)
      PROVE  IsWhole(us, i)'
  <2>1. us[i] \in Updates
    OBVIOUS
  <2>2. us[i].by \in Ops
    BY <2>1 DEF Updates
  <2> QED BY <1>1, <2>2, FailedStays DEF IsWhole
<1>2. ASSUME NEW b \in Buffers, NEW c \in Buffers, contents'[b] = contents[c],
             \A q \in Ops : Adding(q, c) => Adding(q, b)' \/ pc'[q] = "failed",
             NEW i \in DOMAIN contents'[b].updates
      PROVE  IsWhole(contents[b].updates, i)' \/ Half(b, i)'
  <2>1. PICK us \in Seq(Updates) : us = contents[c].updates /\ us = contents'[b].updates
    BY <1>0, <1>2 DEF DataTypes
  <2>2. IsWhole(us, i) \/ Half(c, i)
    BY <1>2, <2>1 DEF Wholes
  <2>3. IsWhole(us, i) => IsWhole(us, i)'
    BY <1>1, <1>2, <2>1
  <2>4. ASSUME Half(c, i)
        PROVE  IsWhole(us, i)' \/ Half(b, i)'
    <3>1. PICK q \in Ops : i = Len(us) /\ us[i].by = q /\ Adding(q, c)
      BY <2>1, <2>4 DEF Half
    <3>2. CASE pc'[q] = "failed"
      BY <3>1, <3>2 DEF IsWhole
    <3>3. CASE Adding(q, b)'
      BY <2>1, <3>1, <3>3 DEF Half
    <3> QED BY <1>2, <3>1, <3>2, <3>3
  <2>5. IsWhole(us, i)' => IsWhole(contents[b].updates, i)'
    BY <2>1 DEF IsWhole
  <2> QED BY <2>2, <2>3, <2>4, <2>5
<1>3. ASSUME NEW b \in Buffers, Updated(o, b), NEW i \in DOMAIN contents'[b].updates
      PROVE  IsWhole(contents[b].updates, i)' \/ Half(b, i)'
  <2>1. PICK us \in Seq(Updates), u \in Updates :
           us = contents[b].updates /\ contents'[b].updates = Append(us, u)
           /\ u.by = o /\ u.do = Doing(o)
    BY <1>3, UpdatedUpdates
  <2>2. PICK now \in Seq(Updates) : now = Append(us, u) /\ now = contents'[b].updates
    BY <2>1, AppendSet
  <2>3. /\ i \in 1 .. Len(us) + 1 /\ DOMAIN us = 1 .. Len(us) /\ Len(us) \in Nat
        /\ Len(now) = Len(us) + 1 /\ now[Len(us) + 1] = u
        /\ \A j \in 1 .. Len(us) : now[j] = us[j]
    BY <1>3, <2>1, <2>2, AppendSet
  <2>4. IsWhole(now, i)' => IsWhole(contents[b].updates, i)'
    BY <2>2 DEF IsWhole
  <2>5. CASE i \in 1 .. Len(us)
    <3>1. IsWhole(us, i) \/ Half(b, i)
      BY <2>1, <2>3, <2>5 DEF Wholes
    <3>2. CASE IsWhole(us, i)
      <4>1. IsWhole(us, i)'
        BY <1>1, <2>3, <2>5, <3>2
      <4>2. i < Len(us) => i + 1 \in 1 .. Len(us) /\ i < Len(now)
        BY <2>3, <2>5
      <4> QED BY <2>3, <2>4, <2>5, <4>1, <4>2 DEF IsWhole
    <3>3. CASE Half(b, i)
      <4>1. PICK q \in Ops : i = Len(us) /\ us[i].by = q /\ Adding(q, b)
        BY <2>1, <3>3 DEF Half
      <4>2. q = o
        <5>1. /\ pc[q] = "launch" /\ Kernel(q).prepares /\ Launch(q).at \in DOMAIN vars[q]
              /\ tensor[vars[q][Launch(q).at]] = b
          BY <4>1, AddingKernel
        <5> QED BY <1>3, <5>1, UpdatedOwn
      <4>3. u.do = "add"
        BY <2>1, <4>1, <4>2 DEF Adding, Launching, Doing
      <4>4. now[i] = us[i] /\ now[i + 1] = u /\ i < Len(now)
        BY <2>3, <2>5, <4>1
      <4> QED BY <2>1, <2>4, <4>1, <4>2, <4>3, <4>4 DEF IsWhole
    <3> QED BY <3>1, <3>2, <3>3
  <2>6. CASE i = Len(us) + 1
    <3>1. CASE Doing(o) # "scale"
      BY <2>1, <2>3, <2>4, <2>6, <3>1 DEF IsWhole
    <3>2. CASE Doing(o) = "scale"
      <4>1. Launch(o).do = "scale" /\ pc[o] = "launch" /\ Advance(o) /\ tensor' = tensor
        BY <1>3, <3>2 DEF Doing, Updated, UpdateTensors, Launching
      <4>2. step[o] \in DOMAIN Kernel(o).launches
        BY <4>1 DEF BaseInv, AllHeld, Held
      <4>3. /\ step[o] + 1 \in DOMAIN Kernel(o).launches
            /\ Kernel(o).launches[step[o] + 1] = Part(Launch(o).at, "add")
        BY <1>0, <4>1, <4>2 DEF Fits, PartsFit, PartFits, Launch
      <4>4. step[o] # Len(Kernel(o).launches)
        BY <1>0, <4>2, <4>3 DEF Fits, PartsFit
      <4>5. pc'[o] = "launch" /\ step'[o] = step[o] + 1 /\ vars' = vars
        BY <1>0, <4>1, <4>4 DEF Advance, Types, DataTypes
      <4>6. Launch(o)' = Part(Launch(o).at, "add")
        BY <1>0, <4>3, <4>5 DEF Launch
      <4>7. tensor[vars[o][Launch(o).at]] = b
        BY <1>3, <4>1 DEF Updated, Touched
      <4>8. PICK at : at = Launch(o).at
        OBVIOUS
      <4>9. Launch(o)'.do = "add" /\ Launch(o)'.at = at /\ tensor'[vars'[o][at]] = b
        BY <4>1, <4>5, <4>6, <4>7, <4>8 DEF Part
      <4>10. Adding(o, b)'
        BY <4>5, <4>9 DEF Adding, Launching
      <4>11. i = Len(contents'[b].updates) /\ contents'[b].updates[i].by = o
        BY <2>1, <2>2, <2>3, <2>6
      <4> QED BY <4>10, <4>11 DEF Half
    <3> QED BY <3>1, <3>2
  <2> QED BY <2>3, <2>5, <2>6
<1>4. ASSUME NEW b \in Buffers, contents'[b] # contents[b], b \in FreeBuffers,
             NEW i \in DOMAIN contents'[b].updates
      PROVE  IsWhole(contents[b].updates, i)' \/ Half(b, i)'
  <2>1. contents'[b].updates # <<>>
    BY <1>4
  <2>2. PICK x \in Vars :
           /\ tensor[x] \in Buffers /\ contents'[b] = contents[tensor[x]]
           /\ Live(x) /\ o \in mu[x] /\ (pc[o] = "prepare" \/ Kernel(o).shared)
    BY <1>4, <2>1, FreshContents
  <2>3. PICK c \in Buffers : c = tensor[x]
    BY <2>2
  <2>4. \A q \in Ops : ~Adding(q, c)
    BY <2>2, <2>3, NoHalfCopied
  <2> QED BY <1>2, <1>4, <2>2, <2>3, <2>4
<1>5. ASSUME NEW b \in Buffers, contents'[b] = contents[b], NEW i \in DOMAIN contents'[b].updates
      PROVE  IsWhole(contents[b].updates, i)' \/ Half(b, i)'
  <2>1. \A q \in Ops : Adding(q, b) => Adding(q, b)' \/ pc'[q] = "failed"
    BY <1>5, AddingStays
  <2> QED BY <1>2, <1>5, <2>1
<1>6. \A b \in Buffers : \A i \in DOMAIN contents'[b].updates :
         IsWhole(contents[b].updates, i)' \/ Half(b, i)'
  BY <1>3, <1>4, <1>5, ContentsEffect
<1> QED BY <1>6, Zenon DEF Wholes

-----------------------------------------------------------------------------
(* Updates of a variable *)

\* The updates have one, and not its first half only, of each kernel in kernels.
Show(kernels, updates) ==
    \A o \in ToSet(kernels) : \E i \in DOMAIN updates : updates[i].by = o /\ updates[i].do # "scale"

LEMMA ShowMore ==
    ASSUME NEW kernels \in Seq(Ops), NEW updates \in Seq(Updates), Show(kernels, updates),
           NEW u \in Updates
    PROVE  /\ Show(kernels, Append(updates, u))
           /\ u.do # "scale" => Show(Append(kernels, u.by), Append(updates, u))
<1>1. /\ DOMAIN Append(updates, u) = 1 .. Len(updates) + 1 /\ DOMAIN updates = 1 .. Len(updates)
      /\ \A i \in 1 .. Len(updates) : Append(updates, u)[i] = updates[i]
      /\ Append(updates, u)[Len(updates) + 1] = u /\ Len(updates) \in Nat
  BY AppendSet
<1>2. Show(kernels, Append(updates, u))
  <2> SUFFICES ASSUME NEW o \in ToSet(kernels)
               PROVE  \E i \in DOMAIN Append(updates, u) :
                         Append(updates, u)[i].by = o /\ Append(updates, u)[i].do # "scale"
    BY DEF Show
  <2>1. PICK i \in DOMAIN updates : updates[i].by = o /\ updates[i].do # "scale"
    BY DEF Show
  <2>2. i \in DOMAIN Append(updates, u) /\ Append(updates, u)[i] = updates[i]
    BY <1>1, <2>1
  <2> QED BY <2>1, <2>2
<1>3. ASSUME u.do # "scale"
      PROVE  Show(Append(kernels, u.by), Append(updates, u))
  <2>1. u.by \in Ops
    BY DEF Updates
  <2>2. ToSet(Append(kernels, u.by)) = ToSet(kernels) \cup {u.by}
    BY <2>1, AppendSet
  <2>3. Len(updates) + 1 \in DOMAIN Append(updates, u)
    BY <1>1
  <2> QED BY <1>1, <1>2, <1>3, <2>2, <2>3 DEF Show
<1> QED BY <1>2, <1>3

\* What a step makes of the updates of a variable.
LEMMA WrittenEffect ==
    ASSUME Locking, BaseInv, Unwritten, NEW o \in Ops, Step(o) \/ Fail(o), NEW y \in Vars, Live(y)'
    PROVE  \/ written'[y] = <<>>
           \/ /\ Live(y) /\ tensor'[y] = tensor[y]
              /\ \/ written'[y] = written[y]
                 \/ /\ tensor[y] \in Buffers /\ Updated(o, tensor[y]) /\ Doing(o) # "scale"
                    /\ written'[y] = Append(written[y], o)
           \/ /\ Live(y) /\ tensor[y] \in Buffers /\ tensor'[y] \in Buffers
              /\ contents'[tensor'[y]] = contents[tensor[y]] /\ written'[y] = written[y]
<1>0. Types /\ DataTypes /\ AllHeld
  BY DEF BaseInv
<1>1. CASE Prepare(o)
  <2>1. pc[o] = "prepare" /\ Kernel(o).prepares /\ step[o] \in DOMAIN vars[o] /\ written' = written
    BY <1>0, <1>1, VarsAt DEF Prepare, AllHeld, Held, Inside
  <2>2. PICK x \in Vars : x = vars[o][step[o]] /\ Live(x)
    BY <1>0, <2>1, VarsAt DEF Inside
  <2>3. tensor[x] \in Buffers
    BY <1>0, <2>1, <2>2 DEF BaseInv, AllPrepared, Prepared, DataTypes, Tensors
  <2>4. \/ tensor' = tensor
        \/ /\ CanAllocate /\ tensor' = [tensor EXCEPT ![x] = allocate_temp]
           /\ contents' = [contents EXCEPT ![allocate_temp] = contents[tensor[x]]]
    BY <1>1, <2>2 DEF Prepare
  <2>5. Live(y)
    BY <1>1 DEF Prepare, Live
  <2>6. \/ tensor'[y] = tensor[y]
        \/ /\ y = x /\ tensor'[y] \in Buffers /\ contents'[tensor'[y]] = contents[tensor[y]]
    BY <1>0, <2>3, <2>4, Allocated DEF DataTypes
  <2> QED BY <2>1, <2>3, <2>5, <2>6
<1>2. CASE Assign(o)
  <2>1. /\ tensor' = [tensor EXCEPT ![vars[o][1]] = program[o].value]
        /\ written' = [written EXCEPT ![vars[o][1]] = <<>>] /\ Live(y)
    BY <1>2 DEF Assign, Advance, Live
  <2> QED BY <1>0, <2>1 DEF DataTypes
<1>3. CASE Create(o)
  <2>1. /\ written' = written /\ Live(y)
        /\ tensor' = tensor \/ \E b : tensor[vars[o][1]] = None /\ tensor' = [tensor EXCEPT ![vars[o][1]] = b]
    BY <1>3 DEF Create, Advance, Live
  <2>2. tensor'[y] = tensor[y] \/ tensor[y] = None
    BY <1>0, <2>1 DEF DataTypes
  <2> QED BY <2>1, <2>2 DEF Unwritten
<1>4. CASE LookupOrCreate(o)
  <2>1. PICK x \in Vars :
           /\ tensor' = [tensor EXCEPT ![x] = IF Kernel(o) = AssignVariable THEN program[o].value ELSE None]
           /\ written' = [written EXCEPT ![x] = <<>>]
    BY <1>4 DEF LookupOrCreate
  <2>2. (tensor'[y] = tensor[y] /\ written'[y] = written[y]) \/ written'[y] = <<>>
    BY <1>0, <2>1 DEF DataTypes
  <2>3. Live(y) \/ written'[y] = <<>>
    BY TensorEffect DEF Changed, Has, Live
  <2> QED BY <2>2, <2>3
<1>5. CASE UpdateTensors(o)
  <2>1. Live(y) /\ tensor'[y] = tensor[y]
    BY <1>5 DEF UpdateTensors, Advance, Live
  <2>2. written' = [x \in Vars |-> IF /\ x \in {vars[o][i] : i \in Touched(o)}
                                      /\ Doing(o) # "scale" /\ tensor[x] # None
                                   THEN Append(written[x], o) ELSE written[x]]
    BY <1>5 DEF UpdateTensors, Doing
  <2>3. ASSUME written'[y] # written[y]
        PROVE  /\ Doing(o) # "scale" /\ tensor[y] # None /\ written'[y] = Append(written[y], o)
               /\ \E i \in Touched(o) : y = vars[o][i]
    BY <2>2, <2>3
  <2>4. ASSUME NEW b \in Buffers, tensor[y] = b, NEW i \in Touched(o), y = vars[o][i]
        PROVE  Updated(o, b)
    <3>1. target[o][i] = b /\ b # None
      BY <1>5, <2>4, UpdateEffect, ResourceVariablesAssumption
    <3>2. contents'[b] = [contents[b] EXCEPT !.updates = Append(@, Update(o, Doing(o)))]
      BY <1>5, <3>1 DEF UpdateTensors, Doing
    <3> QED BY <1>5, <2>4, <3>2 DEF Updated
  <2>5. tensor[y] \in Tensors
    BY <1>0 DEF DataTypes
  <2> QED BY <2>1, <2>3, <2>4, <2>5 DEF Tensors
<1>6. ASSUME UNCHANGED <<tensor, written>>
      PROVE  \/ Live(y) /\ tensor'[y] = tensor[y] /\ written'[y] = written[y]
             \/ written'[y] = <<>>
  BY <1>6, TensorEffect DEF Changed, Has, Live
<1>7. CASE LookupFails(o) \/ Destroy(o) \/ CheckFails(o) \/ Return(o) \/ Fail(o)
  BY <1>6, <1>7 DEF LookupFails, Destroy, CheckFails, Return, Fail
<1>8. CASE Lookup(o) \/ Lock(o) \/ Check(o) \/ Read(o) \/ Use(o)
  BY <1>6, <1>8 DEF Lookup, Lock, Check, Read, Use
<1> QED BY <1>1, <1>2, <1>3, <1>4, <1>5, <1>7, <1>8 DEF Step

LEMMA ShowIsKept ==
    NoUpdateLost <=> \A x \in Vars : \A b : Live(x) /\ tensor[x] = b /\ b # None =>
                        Show(written[x], contents[b].updates)
  BY DEF NoUpdateLost, Show

LEMMA KeptStep ==
    ASSUME Locking, BaseInv, AllLatest, OwnTemps, NoUpdateLost, Unwritten, NEW o \in Ops, Step(o) \/ Fail(o)
    PROVE  NoUpdateLost' /\ Unwritten'
<1>0. DataTypes /\ None \notin Buffers
  BY ResourceVariablesAssumption DEF BaseInv
<1>1. ASSUME NEW y \in Vars, Live(y)', tensor'[y] = None
      PROVE  written'[y] = <<>>
  <2>1. Live(y) /\ tensor[y] = None => written[y] = <<>>
    BY DEF Unwritten
  <2> QED BY <1>0, <1>1, <2>1, WrittenEffect
<1>2. ASSUME NEW y \in Vars, Live(y)', NEW b \in Buffers, tensor'[y] = b
      PROVE  Show(written'[y], contents'[b].updates)
  <2>1. ASSUME Live(y), NEW c \in Buffers, tensor[y] = c
        PROVE  /\ Show(written[y], contents[c].updates) /\ c \notin FreeBuffers
               /\ written[y] \in Seq(Ops) /\ contents[c].updates \in Seq(Updates)
    <3>1. Show(written[y], contents[c].updates)
      BY <1>0, <2>1, ShowIsKept
    <3>2. c \notin FreeBuffers
      BY <2>1 DEF FreeBuffers, VarsOf
    <3> QED BY <1>0, <3>1, <3>2 DEF DataTypes
  <2>2. CASE written'[y] = <<>>
    BY <2>2 DEF Show, ToSet
  <2>3. CASE Live(y) /\ tensor'[y] = tensor[y] /\ written'[y] = written[y]
    <3>1. /\ Show(written[y], contents[b].updates) /\ b \notin FreeBuffers
          /\ written[y] \in Seq(Ops) /\ contents[b].updates \in Seq(Updates)
      BY <1>2, <2>1, <2>3
    <3>2. CASE contents'[b] = contents[b]
      BY <2>3, <3>1, <3>2
    <3>3. CASE Updated(o, b)
      <4>1. PICK us \in Seq(Updates), u \in Updates :
               us = contents[b].updates /\ contents'[b].updates = Append(us, u)
        BY <3>3, UpdatedUpdates
      <4> QED BY <2>3, <3>1, <4>1, ShowMore
    <3> QED BY <3>1, <3>2, <3>3, ContentsEffect
  <2>4. CASE /\ Live(y) /\ tensor'[y] = tensor[y] /\ Updated(o, tensor[y]) /\ Doing(o) # "scale"
             /\ written'[y] = Append(written[y], o)
    <3>1. /\ Show(written[y], contents[b].updates) /\ Updated(o, b)
          /\ written[y] \in Seq(Ops) /\ contents[b].updates \in Seq(Updates)
      BY <1>2, <2>1, <2>4
    <3>2. PICK us \in Seq(Updates), u \in Updates :
             us = contents[b].updates /\ contents'[b].updates = Append(us, u)
             /\ u.by = o /\ u.do = Doing(o)
      BY <3>1, UpdatedUpdates
    <3> QED BY <2>4, <3>1, <3>2, ShowMore
  <2>5. CASE /\ Live(y) /\ tensor[y] \in Buffers /\ contents'[tensor'[y]] = contents[tensor[y]]
             /\ written'[y] = written[y]
    <3>1. PICK c \in Buffers : c = tensor[y] /\ contents'[b] = contents[c]
      BY <1>2, <2>5
    <3> QED BY <2>1, <2>5, <3>1
  <2>6. \/ written'[y] = <<>>
        \/ /\ Live(y) /\ tensor'[y] = tensor[y]
           /\ \/ written'[y] = written[y]
              \/ /\ tensor[y] \in Buffers /\ Updated(o, tensor[y]) /\ Doing(o) # "scale"
                 /\ written'[y] = Append(written[y], o)
        \/ /\ Live(y) /\ tensor[y] \in Buffers /\ tensor'[y] \in Buffers
           /\ contents'[tensor'[y]] = contents[tensor[y]] /\ written'[y] = written[y]
    BY <1>2, WrittenEffect
  <2> QED BY <2>2, <2>3, <2>4, <2>5, <2>6, Zenon
<1>3. Unwritten'
  BY <1>1 DEF Unwritten
<1>4. tensor' \in [Vars -> Tensors]
  BY TypesStep DEF DataTypes
<1>5. NoUpdateLost'
  BY <1>2, <1>4 DEF NoUpdateLost, Show, Tensors
<1> QED BY <1>3, <1>5

-----------------------------------------------------------------------------
(***************************************************************************)
(* ApplyAdam takes no mutex.  Nothing goes wrong as long as the kernels    *)
(* beside it update no variable, though one of them may create the storage *)
(* of a variable that has none, which ApplyAdam refuses.                   *)
(***************************************************************************)
ReadingKernels == {VariableV2, DestroyResource, ReadVariable, ResourceGather}

AdamAmongReaders(p) ==
    \E w \in Ops : /\ p[w].kernel = ApplyAdam
                   /\ \A o \in Ops \ {w} : p[o].kernel \in ReadingKernels

Among(w) == Kernel(w) = ApplyAdam /\ \A o \in Ops \ {w} : Kernel(o) \in ReadingKernels

UpdatesOf(w) == [by : {w}, do : {"whole"}, moments : SUBSET {w}]

\* All updates are those of w, with moments that w has updated.
AdamTypes(w) ==
    /\ tensor \in [Vars -> Tensors]
    /\ contents \in [Buffers -> [value : Tensors, updates : Seq(UpdatesOf(w))]]
    /\ step \in [Ops -> Nat]
    /\ locals = [o \in Ops |-> {}]
    /\ temp \in [Ops -> SUBSET {w}]
    /\ target \in [Ops -> Seq(Tensors)]
    /\ output \in [Ops -> Tensors]
    /\ written \in [Vars -> Seq({w})]

Placed(o) ==
    /\ pc[o] # "prepare"
    /\ pc[o] = "lookup" => Len(vars[o]) < Kernel(o).of
    /\ pc[o] \in Inside => Len(vars[o]) = Kernel(o).of /\ Kernel(o) # DestroyResource
    /\ pc[o] \in {"lookup", "lock", "check"} => step[o] = 1
    /\ pc[o] = "launch" => step[o] \in DOMAIN Kernel(o).launches

AllPlaced == \A o \in Ops : Placed(o)

OutputsOwn == \A o \in Ops : \A b \in Buffers : output[o] = b => VarsOf(b) = {}

\* The moments have been updated once the update is computed from them.
Working(w) ==
    pc[w] = "launch" =>
        /\ target[w] = TensorsOf(w)
        /\ \A i \in DOMAIN vars[w] : tensor[vars[w][i]] \in Buffers
        /\ \A i \in {2, 3} : i <= step[w] => contents[target[w][i]].updates # <<>>

Shown ==
    \A x \in Vars : Live(x) /\ written[x] # <<>> =>
        tensor[x] \in Buffers /\ contents[tensor[x]].updates # <<>>

AdamInv(w) ==
    /\ Among(w) /\ Types /\ AdamTypes(w)
    /\ AllPlaced /\ OutputsOwn /\ Working(w) /\ Shown

LEMMA ReadingKernel ==
    ASSUME NEW k \in ReadingKernels
    PROVE  /\ k.of = 1 /\ ~k.prepares /\ ~k.holds
           /\ k # ApplyAdam /\ k # AssignVariable
           /\ \/ k = DestroyResource /\ k.launches = <<>>
              \/ /\ Len(k.launches) = 1 /\ DOMAIN k.launches = {1}
                 /\ k.launches[1].at = 1 /\ k.launches[1].do \in {"create", "read", "gather"}
<1>1. ApplyAdam.of = 3 /\ AssignVariable.launches = <<Part(1, "assign")>>
  BY DEF ApplyAdam, AssignVariable, Simple
<1>2. /\ k.of = 1 /\ ~k.prepares /\ ~k.holds
      /\ \/ k = DestroyResource /\ k.launches = <<>>
         \/ k.launches \in {<<Part(1, "create")>>, <<Part(1, "read")>>, <<Part(1, "gather")>>}
  BY DEF ReadingKernels, VariableV2, DestroyResource, ReadVariable, ResourceGather, Simple
<1>3. \A do : /\ Len(<<Part(1, do)>>) = 1 /\ DOMAIN <<Part(1, do)>> = {1}
              /\ <<Part(1, do)>>[1].at = 1 /\ <<Part(1, do)>>[1].do = do
  BY DEF Part
<1>4. k # AssignVariable
  <2>1. AssignVariable.launches # <<>> /\ AssignVariable.launches[1].do = "assign"
    BY <1>1, <1>3
  <2> QED BY <1>2, <1>3, <2>1
<1> QED BY <1>1, <1>2, <1>3, <1>4

LEMMA AdamKernel ==
    /\ ApplyAdam.of = 3 /\ ApplyAdam.checks /\ ~ApplyAdam.prepares /\ ~ApplyAdam.holds
    /\ ~ApplyAdam.creates /\ ApplyAdam # AssignVariable /\ ApplyAdam # DestroyResource
    /\ Len(ApplyAdam.launches) = 4 /\ DOMAIN ApplyAdam.launches = 1 .. 4
    /\ ApplyAdam.launches[1] = Part(2, "whole") /\ ApplyAdam.launches[2] = Part(3, "whole")
    /\ ApplyAdam.launches[3] = Part(0, "use") /\ ApplyAdam.launches[4] = Part(1, "whole")
<1>1. /\ ApplyAdam.of = 3 /\ ApplyAdam.checks /\ ~ApplyAdam.prepares /\ ~ApplyAdam.holds
      /\ ~ApplyAdam.creates /\ ApplyAdam.launches = ApplyAdamLaunches
  BY DEF ApplyAdam, Simple
<1>2. AssignVariable.of = 1 /\ DestroyResource.of = 1
  BY DEF AssignVariable, DestroyResource, Simple
<1>3. Len(ApplyAdamLaunches) = 4 /\ DOMAIN ApplyAdamLaunches = 1 .. 4
  BY DEF ApplyAdamLaunches
<1>4. /\ ApplyAdamLaunches[1] = Part(2, "whole") /\ ApplyAdamLaunches[2] = Part(3, "whole")
      /\ ApplyAdamLaunches[3] = Part(0, "use") /\ ApplyAdamLaunches[4] = Part(1, "whole")
  BY DEF ApplyAdamLaunches
<1> QED BY <1>1, <1>2, <1>3, <1>4

LEMMA AdamDataTypes ==
    ASSUME NEW w \in Ops, AdamTypes(w)
    PROVE  DataTypes
<1>1. UpdatesOf(w) \subseteq Updates
  BY DEF UpdatesOf, Updates, Changing
<1>2. \A S, T : S \subseteq T => Seq(S) \subseteq Seq(T)
  BY SeqDef
<1>3. Seq(UpdatesOf(w)) \subseteq Seq(Updates) /\ Seq({w}) \subseteq Seq(Ops)
  BY <1>1, <1>2
<1>4. contents \in [Buffers -> [value : Tensors, updates : Seq(Updates)]]
  BY <1>3 DEF AdamTypes
<1>5. written \in [Vars -> Seq(Ops)] /\ temp \in [Ops -> SUBSET Ops] /\ locals \in [Ops -> SUBSET Tensors]
  BY <1>3 DEF AdamTypes
<1> QED BY <1>4, <1>5 DEF AdamTypes, DataTypes

\* Which kernel is at which launch.
LEMMA AdamLaunch ==
    ASSUME NEW w \in Ops, AdamInv(w), NEW o \in Ops, pc[o] = "launch"
    PROVE  /\ o # w => /\ Launch(o).do \in {"create", "read", "gather"} /\ Launch(o).at = 1
                       /\ step[o] = 1 /\ Len(Kernel(o).launches) = 1
           /\ o = w => /\ step[o] \in 1 .. 4 /\ Len(Kernel(o).launches) = 4
                       /\ Launch(o) = ApplyAdam.launches[step[o]]
                       /\ Launch(o).do \in {"whole", "use"}
                       /\ Launch(o).do = "use" <=> step[o] = 3
                       /\ step[o] # 3 => Launch(o).at \in 1 .. 3
<1>1. step[o] \in DOMAIN Kernel(o).launches /\ Kernel(o) # DestroyResource
  BY DEF AdamInv, AllPlaced, Placed, Inside
<1>2. CASE o # w
  <2>1. Kernel(o) \in ReadingKernels
    BY <1>2 DEF AdamInv, Among
  <2> QED BY <1>1, <1>2, <2>1, ReadingKernel DEF Launch
<1>3. CASE o = w
  <2>1. Kernel(o) = ApplyAdam
    BY <1>3 DEF AdamInv, Among
  <2>2. step[o] \in {1, 2, 3, 4}
    BY <1>1, <2>1, AdamKernel
  <2> QED BY <1>3, <2>1, <2>2, AdamKernel DEF Launch, Part
<1> QED BY <1>2, <1>3

\* The steps that change neither tensors nor what they have.
Quiet(o) ==
    \/ Lookup(o) \/ LookupFails(o) \/ Destroy(o) \/ Lock(o) \/ Check(o) \/ CheckFails(o)
    \/ Return(o) \/ Fail(o)

LEMMA AdamSteps ==
    ASSUME NEW w \in Ops, AdamInv(w), NEW o \in Ops, Step(o) \/ Fail(o)
    PROVE  \/ Quiet(o)
           \/ o # w /\ (LookupOrCreate(o) \/ Create(o) \/ Read(o))
           \/ o = w /\ (Use(o) \/ UpdateTensors(o))
<1>1. ~Prepare(o)
  BY DEF AdamInv, AllPlaced, Placed, Prepare
<1>2. ~Assign(o)
  BY AdamLaunch DEF Assign, Launching
<1>3. Create(o) \/ Read(o) => o # w
  BY AdamLaunch DEF Create, Read, Launching
<1>4. Use(o) \/ UpdateTensors(o) => o = w
  BY AdamLaunch DEF Use, UpdateTensors, Launching
<1>5. LookupOrCreate(o) => o # w
  BY AdamKernel DEF LookupOrCreate, AdamInv, Among
<1> QED BY <1>1, <1>2, <1>3, <1>4, <1>5 DEF Step, Quiet

LEMMA AdamHandle ==
    ASSUME NEW w \in Ops, AdamInv(w), NEW o \in Ops, pc[o] = "lookup"
    PROVE  Handle(o) \in Handles
<1>1. Types /\ Len(vars[o]) \in Nat /\ Len(vars[o]) < Kernel(o).of
  BY DEF AdamInv, AllPlaced, Placed, Types
<1>2. program[o].handles \in Seq(Handles) /\ Len(program[o].handles) = Kernel(o).of
  BY <1>1, KernelSize
<1> QED BY <1>1, <1>2 DEF Handle

LEMMA QuietEffect ==
    ASSUME NEW w \in Ops, AdamInv(w), NEW o \in Ops, Quiet(o)
    PROVE  /\ UNCHANGED <<tensor, contents, written, output>>
           /\ \A y \in Vars : Live(y)' => Live(y)
<1>0. Types /\ DataTypes /\ Others(o)
  BY AdamDataTypes, OthersStay DEF AdamInv, Quiet, Step
<1>1. UNCHANGED <<tensor, contents, written, output>>
  BY DEF Quiet, Lookup, LookupFails, Destroy, Lock, Check, CheckFails, Return, Fail, Found, Leave
<1>2. \A h \in Handles : resource'[h] \in {resource[h], None}
  BY <1>0 DEF Quiet, Lookup, LookupFails, Destroy, Lock, Check, CheckFails, Return, Fail, Types
<1>3. ToSet(vars'[o]) \subseteq {x \in Vars : Live(x)}
  <2>1. CASE Lookup(o)
    <3>1. Handle(o) \in Handles
      BY <2>1, AdamHandle DEF Lookup
    <3>2. PICK x \in Vars : x = resource[Handle(o)] /\ vars'[o] = Append(vars[o], x)
      BY <1>0, <2>1, <3>1 DEF Lookup, Found, Types
    <3>3. \A y \in ToSet(vars[o]) : y \in Vars /\ Live(y)
      BY <1>0 DEF Live, Types, ToSet
    <3> QED BY <1>0, <3>1, <3>2, <3>3, AppendSet DEF Live, Types
  <2>2. CASE Lock(o) \/ Check(o)
    <3>1. vars' = vars
      BY <2>2 DEF Lock, Check
    <3> QED BY <1>0, <3>1 DEF Live, Types, ToSet
  <2>3. CASE LookupFails(o) \/ Destroy(o) \/ CheckFails(o) \/ Return(o) \/ Fail(o)
    <3>1. PICK how : Leave(o, how)
      BY <2>3 DEF LookupFails, Destroy, CheckFails, Return, Fail
    <3> QED BY <1>0, <3>1 DEF Leave, Types, ToSet
  <2> QED BY <2>1, <2>2, <2>3 DEF Quiet
<1>4. \A y \in Vars : Live(y)' => Live(y)
  BY <1>0, <1>2, <1>3, NoneRevived
<1> QED BY <1>1, <1>4

\* A variable that is created has no storage.
LEMMA AdamCreates ==
    ASSUME NEW w \in Ops, AdamInv(w), NEW o \in Ops, LookupOrCreate(o)
    PROVE  \E x \in Vars :
              /\ ~Live(x) /\ Found(o, x) /\ UNCHANGED contents
              /\ resource' = [resource EXCEPT ![Handle(o)] = x]
              /\ tensor' = [tensor EXCEPT ![x] = None]
              /\ written' = [written EXCEPT ![x] = <<>>]
              /\ \A y \in Vars : Live(y)' => Live(y) \/ y = x
<1>0. Types /\ DataTypes /\ Others(o)
  BY AdamDataTypes, OthersStay DEF AdamInv, Step
<1>1. Kernel(o) # AssignVariable
  BY ReadingKernel, AdamKernel DEF AdamInv, Among
<1>2. PICK x \in Vars :
         /\ ~Live(x) /\ Found(o, x)
         /\ resource' = [resource EXCEPT ![Handle(o)] = x]
         /\ tensor' = [tensor EXCEPT ![x] = None]
         /\ written' = [written EXCEPT ![x] = <<>>]
  BY <1>1 DEF LookupOrCreate
<1>3. \A h \in Handles : resource'[h] \in {resource[h], x}
  BY <1>0, <1>2 DEF Types
<1>4. ToSet(vars'[o]) = ToSet(vars[o]) \cup {x}
  <2>1. vars'[o] = Append(vars[o], x)
    BY <1>0, <1>2 DEF Found, Types
  <2> QED BY <1>0, <2>1, AppendSet DEF Types
<1>5. \A y \in Vars : Live(y)' => Live(y) \/ y = x
  BY <1>0, <1>3, <1>4 DEF Live, Others
<1> QED BY <1>2, <1>5 DEF Found

LEMMA AdamVars ==
    ASSUME NEW w \in Ops, AdamInv(w), pc[w] = "launch"
    PROVE  DOMAIN vars[w] = 1 .. 3 /\ vars[w] \in Seq(Vars)
<1>1. Len(vars[w]) = 3
  BY AdamKernel DEF AdamInv, AllPlaced, Placed, Among, Inside
<1>2. vars[w] \in Seq(Vars)
  BY DEF AdamInv, Types
<1> QED BY <1>1, <1>2

\* What a launch of w updates.
LEMMA AdamUpdates ==
    ASSUME NEW w \in Ops, AdamInv(w), UpdateTensors(w)
    PROVE  \E i \in 1 .. 3 : \E x \in Vars : \E b \in Buffers :
              /\ i \in DOMAIN vars[w] /\ x = vars[w][i] /\ b = tensor[x] /\ b = target[w][i]
              /\ Live(x) /\ i = Launch(w).at
              /\ UNCHANGED <<tensor, output, temp, target>>
              /\ contents' = [contents EXCEPT ![b].updates = Append(@, Update(w, "whole"))]
              /\ written' = [written EXCEPT ![x] = Append(@, w)]
<1>0. Types /\ AdamTypes(w) /\ pc[w] = "launch"
  BY DEF AdamInv, UpdateTensors, Launching
<1>1. /\ Launch(w).do = "whole" /\ Launch(w).at \in 1 .. 3 /\ step[w] # 3
  BY <1>0, AdamLaunch DEF UpdateTensors, Launching
<1>2. DOMAIN vars[w] = 1 .. 3 /\ vars[w] \in Seq(Vars)
  BY <1>0, AdamVars
<1>3. PICK i \in 1 .. 3 : i = Launch(w).at
  BY <1>1
<1>4. Touched(w) = {i}
  BY <1>1, <1>3 DEF Touched
<1>5. PICK x \in Vars : x = vars[w][i] /\ Live(x)
  <2>1. vars[w][i] \in Vars /\ i \in DOMAIN vars[w]
    BY <1>2
  <2>2. Live(vars[w][i])
    BY <2>1 DEF ToSet, Live
  <2> QED BY <2>1, <2>2
<1>6. PICK b \in Buffers : b = tensor[x] /\ b = target[w][i]
  BY <1>0, <1>2, <1>5 DEF AdamInv, Working, TensorsOf
<1>7. b # None
  BY ResourceVariablesAssumption
<1>8. {target[w][j] : j \in Touched(w)} \ {None} = {b} /\ {vars[w][j] : j \in Touched(w)} = {x}
  BY <1>4, <1>5, <1>6, <1>7
<1>9. contents' = [c \in Buffers |->
           IF c \in {b} THEN [contents[c] EXCEPT !.updates = Append(@, Update(w, "whole"))]
           ELSE contents[c]]
  BY <1>1, <1>8 DEF UpdateTensors
<1>10. written' = [y \in Vars |-> IF y \in {x} /\ tensor[y] # None THEN Append(written[y], w)
                                  ELSE written[y]]
  BY <1>1, <1>8 DEF UpdateTensors
<1>11. contents' = [contents EXCEPT ![b].updates = Append(@, Update(w, "whole"))]
  BY <1>0, <1>9 DEF AdamTypes
<1>12. written' = [written EXCEPT ![x] = Append(@, w)]
  BY <1>0, <1>6, <1>7, <1>10 DEF AdamTypes
<1>13. UNCHANGED <<tensor, output, temp, target>>
  BY DEF UpdateTensors, Advance
<1> QED BY <1>2, <1>3, <1>5, <1>6, <1>11, <1>12, <1>13

\* Where the tensor of a variable, or what has been written to it, changes.
LEMMA AdamTensorEffect ==
    ASSUME NEW w \in Ops, AdamInv(w), NEW o \in Ops, Step(o) \/ Fail(o), NEW y \in Vars, Live(y)'
    PROVE  \/ ~Live(y) /\ tensor'[y] = None /\ written'[y] = <<>>
           \/ /\ Live(y) /\ tensor[y] = None /\ tensor'[y] \in FreeBuffers
              /\ written'[y] = written[y] /\ output' = output
           \/ Live(y) /\ tensor'[y] = tensor[y] /\ written'[y] = written[y]
           \/ /\ Live(y) /\ tensor'[y] = tensor[y] /\ tensor[y] \in Buffers
              /\ contents'[tensor[y]].updates # <<>>
<1>0. Types /\ AdamTypes(w) /\ DataTypes
  BY AdamDataTypes DEF AdamInv
<1>1. CASE Quiet(o)
  BY <1>1, QuietEffect
<1>2. CASE LookupOrCreate(o)
  <2>1. PICK x \in Vars :
           /\ ~Live(x)
           /\ tensor' = [tensor EXCEPT ![x] = None]
           /\ written' = [written EXCEPT ![x] = <<>>]
           /\ Live(y) \/ y = x
    BY <1>2, AdamCreates
  <2> QED BY <1>0, <2>1 DEF DataTypes
<1>3. CASE Create(o) \/ Read(o) \/ Use(o)
  <2>1. UNCHANGED <<resource, vars>>
    BY <1>3 DEF Create, Read, Use, Advance
  <2>2. Live(y)
    BY <2>1 DEF Live
  <2>3. CASE Create(o)
    <3>1. \/ tensor' = tensor
          \/ CanAllocate /\ tensor' = [tensor EXCEPT ![vars[o][1]] = allocate_temp]
             /\ tensor[vars[o][1]] = None
      BY <2>3 DEF Create
    <3>2. written' = written /\ output' = output
      BY <2>3 DEF Create
    <3> QED BY <1>0, <2>2, <3>1, <3>2, Allocated DEF DataTypes
  <2>4. CASE Read(o) \/ Use(o)
    BY <2>2, <2>4 DEF Read, Use
  <2> QED BY <1>3, <2>3, <2>4
<1>4. CASE o = w /\ UpdateTensors(w)
  <2>1. UNCHANGED <<resource, vars>>
    BY <1>4 DEF UpdateTensors, Advance
  <2>2. Live(y)
    BY <2>1 DEF Live
  <2>3. PICK x \in Vars, b \in Buffers :
           /\ b = tensor[x] /\ UNCHANGED tensor
           /\ contents' = [contents EXCEPT ![b].updates = Append(@, Update(w, "whole"))]
           /\ written' = [written EXCEPT ![x] = Append(@, w)]
    BY <1>4, AdamUpdates
  <2>4. contents'[b].updates # <<>>
    <3>1. contents'[b].updates = Append(contents[b].updates, Update(w, "whole"))
      BY <1>0, <2>3 DEF DataTypes
    <3>2. contents[b].updates \in Seq(Updates)
      BY <1>0 DEF DataTypes
    <3> QED BY <3>1, <3>2
  <2>5. CASE y = x
    BY <2>2, <2>3, <2>4, <2>5
  <2>6. CASE y # x
    BY <1>0, <2>2, <2>3, <2>6 DEF DataTypes
  <2> QED BY <2>5, <2>6
<1> QED BY <1>1, <1>2, <1>3, <1>4, AdamSteps

\* What a buffer has only grows, until it is free.
LEMMA AdamContentsEffect ==
    ASSUME NEW w \in Ops, AdamInv(w), NEW o \in Ops, Step(o) \/ Fail(o),
           NEW b \in Buffers, b \notin FreeBuffers
    PROVE  \/ contents'[b] = contents[b]
           \/ /\ o = w /\ UpdateTensors(w) /\ contents'[b].updates # <<>>
              /\ VarsOf(b) # {}
<1>0. DataTypes
  BY AdamDataTypes DEF AdamInv
<1>1. CASE Quiet(o) \/ LookupOrCreate(o) \/ Use(o)
  BY <1>1, QuietEffect, AdamCreates DEF Use
<1>2. CASE Create(o) \/ Read(o)
  <2>1. \/ contents' = contents
        \/ CanAllocate /\ \E c : contents' = [contents EXCEPT ![allocate_temp] = c]
    BY <1>2 DEF Create, Read, ReadOut
  <2> QED BY <1>0, <2>1, Allocated DEF DataTypes
<1>3. CASE o = w /\ UpdateTensors(w)
  <2>1. PICK x \in Vars, c \in Buffers :
           /\ c = tensor[x] /\ Live(x)
           /\ contents' = [contents EXCEPT ![c].updates = Append(@, Update(w, "whole"))]
    BY <1>3, AdamUpdates
  <2>2. contents'[c].updates = Append(contents[c].updates, Update(w, "whole"))
    BY <1>0, <2>1 DEF DataTypes
  <2>3. contents[c].updates \in Seq(Updates)
    BY <1>0 DEF DataTypes
  <2>4. contents'[c].updates # <<>>
    BY <2>2, <2>3
  <2>5. b # c => contents'[b] = contents[b]
    BY <1>0, <2>1 DEF DataTypes
  <2>6. VarsOf(c) # {}
    BY <2>1 DEF VarsOf
  <2> QED BY <1>3, <2>4, <2>5, <2>6
<1> QED BY <1>1, <1>2, <1>3, AdamSteps

LEMMA AdamOutputs ==
    ASSUME NEW w \in Ops, AdamInv(w), NEW o \in Ops, Step(o) \/ Fail(o), NEW p \in Ops
    PROVE  \/ output'[p] = output[p]
           \/ output'[p] \in FreeBuffers /\ UNCHANGED tensor
<1>0. DataTypes
  BY AdamDataTypes DEF AdamInv
<1>1. CASE Quiet(o)
  BY <1>1, QuietEffect
<1>3. CASE LookupOrCreate(o) \/ Create(o) \/ Use(o) \/ UpdateTensors(o)
  BY <1>3 DEF LookupOrCreate, Found, Create, Use, UpdateTensors
<1>2. CASE Read(o)
  <2>1. CanAllocate /\ output' = [output EXCEPT ![o] = allocate_temp] /\ UNCHANGED tensor
    BY <1>2 DEF Read, ReadOut
  <2> QED BY <1>0, <2>1, Allocated DEF DataTypes
<1> QED BY <1>1, <1>2, <1>3, AdamSteps

LEMMA OutputsOwnStep ==
    ASSUME NEW w \in Ops, AdamInv(w), NEW o \in Ops, Step(o) \/ Fail(o)
    PROVE  OutputsOwn'
<1> SUFFICES ASSUME NEW p \in Ops, NEW b \in Buffers, output'[p] = b, NEW y \in VarsOf(b)'
             PROVE  FALSE
  BY DEF OutputsOwn
<1>0. None \notin Buffers
  BY ResourceVariablesAssumption
<1>1. y \in Vars /\ Live(y)' /\ tensor'[y] = b
  BY DEF VarsOf
<1>2. output[p] = b \/ b \in FreeBuffers => ~(Live(y) /\ tensor[y] = b)
  BY <1>1 DEF AdamInv, OutputsOwn, FreeBuffers, VarsOf
<1>3. CASE Live(y) /\ tensor[y] = b
  BY <1>2, <1>3, AdamOutputs
<1>4. CASE ~(Live(y) /\ tensor[y] = b)
  <2>1. tensor[y] = None /\ b \in FreeBuffers /\ output' = output
    BY <1>0, <1>1, <1>4, AdamTensorEffect
  <2>2. output[p] # b
    BY <2>1 DEF FreeBuffers, KernelsOf
  <2> QED BY <2>1, <2>2
<1> QED BY <1>3, <1>4

LEMMA ShownStep ==
    ASSUME NEW w \in Ops, AdamInv(w), NEW o \in Ops, Step(o) \/ Fail(o)
    PROVE  Shown'
<1> SUFFICES ASSUME NEW y \in Vars, Live(y)', written'[y] # <<>>
             PROVE  tensor'[y] \in Buffers /\ contents'[tensor'[y]].updates # <<>>
  BY DEF Shown
<1>0. None \notin Buffers
  BY ResourceVariablesAssumption
<1>1. Live(y) /\ written[y] # <<>> => tensor[y] \in Buffers /\ contents[tensor[y]].updates # <<>>
  BY DEF AdamInv, Shown
<1>2. CASE Live(y) /\ tensor'[y] = tensor[y] /\ written'[y] = written[y]
  <2>1. PICK b \in Buffers : b = tensor[y] /\ contents[b].updates # <<>>
    BY <1>1, <1>2
  <2>2. b \notin FreeBuffers
    BY <1>2, <2>1 DEF FreeBuffers, VarsOf
  <2> QED BY <1>2, <2>1, <2>2, AdamContentsEffect
<1> QED BY <1>0, <1>1, <1>2, AdamTensorEffect

LEMMA AdamLeaves ==
    ASSUME NEW w \in Ops, AdamInv(w), NEW o \in Ops, NEW how \in {"done", "failed"}, Leave(o, how),
           program' = program, resource' \in [Handles -> Vars \cup {None}],
           UNCHANGED <<tensor, contents, written>>
    PROVE  Types' /\ AdamTypes(w)'
<1>0. Types /\ AdamTypes(w) /\ DataTypes
  BY AdamDataTypes DEF AdamInv
<1>1. Types' /\ DataTypes'
  BY <1>0, LeaveTypes
<1>2. locals' = [p \in Ops |-> {}] /\ temp' \in [Ops -> SUBSET {w}]
  BY <1>0 DEF Leave, AdamTypes
<1> QED BY <1>0, <1>1, <1>2 DEF AdamTypes, DataTypes

LEMMA AdamQuietTypes ==
    ASSUME NEW w \in Ops, AdamInv(w), NEW o \in Ops, Quiet(o)
    PROVE  Types' /\ AdamTypes(w)'
<1>0. Types /\ AdamTypes(w) /\ DataTypes
  BY AdamDataTypes DEF AdamInv
<1>1. resource \in [Handles -> Vars \cup {None}]
  BY <1>0 DEF Types
<1>2. CASE LookupFails(o) \/ CheckFails(o) \/ Return(o) \/ Fail(o)
  BY <1>1, <1>2, AdamLeaves DEF LookupFails, CheckFails, Return, Fail
<1>3. CASE Destroy(o)
  <2>1. resource' \in [Handles -> Vars \cup {None}]
    BY <1>1, <1>3 DEF Destroy
  <2>2. PICK how \in {"done", "failed"} : Leave(o, how)
    BY <1>3 DEF Destroy
  <2> QED BY <1>3, <2>1, <2>2, AdamLeaves DEF Destroy
<1>4. CASE Lookup(o)
  <2>1. resource[Handle(o)] \in Vars
    BY <1>1, <1>4, AdamHandle DEF Lookup
  <2>2. Types' /\ DataTypes'
    BY <1>0, <1>1, <1>4, <2>1, FoundTypes DEF Lookup, DataTypes
  <2> QED BY <1>0, <1>4, <2>2 DEF Lookup, Found, AdamTypes
<1>5. CASE Lock(o)
  <2>1. mu' \in [Vars -> SUBSET Ops] /\ pc' \in [Ops -> Places]
    BY <1>0, <1>5 DEF Lock, Types, Places
  <2> QED BY <1>0, <1>5, <2>1 DEF Lock, Types, AdamTypes
<1>6. CASE Check(o)
  <2>1. pc' \in [Ops -> Places]
    BY <1>0, <1>6 DEF Check, Types, Places
  <2>2. ~Kernel(o).holds
    BY ReadingKernel, AdamKernel DEF AdamInv, Among
  <2>3. locals' = locals
    BY <1>0, <1>6, <2>2 DEF Check, AdamTypes
  <2>4. TensorsOf(o) \in Seq(Tensors)
    BY <1>0, TensorsSeq DEF TensorsOf, AdamTypes
  <2>5. target' \in [Ops -> Seq(Tensors)]
    BY <1>0, <1>6, <2>4 DEF Check, AdamTypes
  <2> QED BY <1>0, <1>6, <2>1, <2>3, <2>5 DEF Check, Types, AdamTypes
<1> QED BY <1>2, <1>3, <1>4, <1>5, <1>6 DEF Quiet

LEMMA TailOfThree ==
    ASSUME NEW S, NEW s \in Seq(S), Len(s) = 3
    PROVE  DOMAIN Tail(s) = 1 .. 2 /\ \A i \in 1 .. 2 : Tail(s)[i] = s[i + 1]
<1>1. s # <<>>
  BY EmptySeq
<1>2. Tail(s) \in Seq(S) /\ Len(Tail(s)) = 2
  BY <1>1, HeadTailProperties
<1>3. \A i \in 1 .. 2 : Tail(s)[i] = s[i + 1]
  <2>1. \A i \in 1 .. Len(Tail(s)) : Tail(s)[i] = s[i + 1]
    BY <1>1, HeadTailProperties, Zenon
  <2> QED BY <1>2, <2>1, Zenon
<1>4. DOMAIN Tail(s) = 1 .. 2
  BY <1>2, LenProperties
<1> QED BY <1>3, <1>4

\* The update is computed from moments that w has updated.
LEMMA AdamUses ==
    ASSUME NEW w \in Ops, AdamInv(w), Use(w)
    PROVE  {LastBy(b) : b \in ToSet(Tail(target[w]))} \subseteq {w}
<1>0. Types /\ AdamTypes(w) /\ pc[w] = "launch" /\ Launch(w).do = "use"
  BY DEF AdamInv, Use, Launching
<1>1. step[w] = 3
  BY <1>0, AdamLaunch
<1>2. DOMAIN vars[w] = 1 .. 3 /\ vars[w] \in Seq(Vars)
  BY <1>0, AdamVars
<1>3. target[w] = TensorsOf(w) /\ target[w] \in Seq(Tensors)
  BY <1>0 DEF AdamInv, Working, AdamTypes
<1>4. DOMAIN target[w] = 1 .. 3
  BY <1>2, <1>3 DEF TensorsOf
<1>5. Len(target[w]) = 3
  BY <1>3, <1>4
<1>6. /\ DOMAIN Tail(target[w]) = 1 .. 2
      /\ \A i \in 1 .. 2 : Tail(target[w])[i] = target[w][i + 1]
  BY <1>3, <1>5, TailOfThree
<1>7. ASSUME NEW i \in {2, 3}
      PROVE  LastBy(target[w][i]) = w
  <2>1. target[w][i] \in Buffers /\ contents[target[w][i]].updates # <<>>
    BY <1>0, <1>1, <1>2, <1>3 DEF AdamInv, Working, TensorsOf
  <2>2. PICK us \in Seq(UpdatesOf(w)) : us = contents[target[w][i]].updates /\ us # <<>>
    BY <1>0, <2>1 DEF AdamTypes
  <2>3. Last(us) \in UpdatesOf(w)
    BY <2>2 DEF Last
  <2> QED BY <2>2, <2>3 DEF LastBy, UpdatesOf
<1>8. ASSUME NEW b \in ToSet(Tail(target[w]))
      PROVE  LastBy(b) = w
  <2>1. PICK i \in 1 .. 2 : b = target[w][i + 1]
    BY <1>6 DEF ToSet
  <2>2. i + 1 \in {2, 3}
    OBVIOUS
  <2> QED BY <1>7, <2>1, <2>2
<1> QED BY <1>8

LEMMA AdamTypesStep ==
    ASSUME NEW w \in Ops, AdamInv(w), NEW o \in Ops, Step(o) \/ Fail(o)
    PROVE  Types' /\ AdamTypes(w)'
<1>0. Types /\ AdamTypes(w) /\ DataTypes
  BY AdamDataTypes DEF AdamInv
<1>1. None \in Tensors /\ Buffers \subseteq Tensors
  BY DEF Tensors
<1>2. CASE LookupOrCreate(o)
  <2>1. PICK x \in Vars :
           /\ Found(o, x) /\ UNCHANGED contents
           /\ resource' = [resource EXCEPT ![Handle(o)] = x]
           /\ tensor' = [tensor EXCEPT ![x] = None]
           /\ written' = [written EXCEPT ![x] = <<>>]
    BY <1>2, AdamCreates
  <2>2. tensor' \in [Vars -> Tensors]
    BY <1>0, <1>1, <2>1 DEF AdamTypes
  <2>3. resource' \in [Handles -> Vars \cup {None}]
    BY <1>0, <2>1 DEF Types
  <2>5. written' \in [Vars -> Seq({w})]
    BY <1>0, <2>1 DEF AdamTypes
  <2>6. written' \in [Vars -> Seq(Ops)]
    BY <1>0, <2>1 DEF DataTypes
  <2>4. Types' /\ DataTypes'
    BY <1>0, <2>1, <2>2, <2>3, <2>6, FoundTypes
  <2> QED BY <1>0, <2>1, <2>2, <2>4, <2>5 DEF Found, AdamTypes
<1>3. CASE Create(o)
  <2>1. Types' /\ step' \in [Ops -> Nat] /\ target' \in [Ops -> Seq(Tensors)]
    BY <1>0, <1>3, AdvanceTypes DEF Create
  <2>2. \/ UNCHANGED <<tensor, contents>>
        \/ /\ CanAllocate
           /\ tensor' = [tensor EXCEPT ![vars[o][1]] = allocate_temp]
           /\ contents' = [contents EXCEPT ![allocate_temp] = Fresh(None)]
    BY <1>3 DEF Create
  <2>3. Fresh(None) \in [value : Tensors, updates : Seq(UpdatesOf(w))]
    BY <1>1 DEF Fresh
  <2>4. /\ tensor' \in [Vars -> Tensors]
        /\ contents' \in [Buffers -> [value : Tensors, updates : Seq(UpdatesOf(w))]]
    BY <1>0, <1>1, <2>2, <2>3, Allocated DEF AdamTypes
  <2>5. UNCHANGED <<locals, temp, output, written>>
    BY <1>3 DEF Create
  <2> QED BY <1>0, <2>1, <2>4, <2>5 DEF AdamTypes
<1>4. CASE o # w /\ Read(o)
  <2>1. Types' /\ step' \in [Ops -> Nat] /\ target' \in [Ops -> Seq(Tensors)]
    BY <1>0, <1>4, AdvanceTypes DEF Read
  <2>2. /\ CanAllocate /\ output' = [output EXCEPT ![o] = ReadOut(o).at]
        /\ contents' = [contents EXCEPT ![ReadOut(o).at] = ReadOut(o).what]
        /\ UNCHANGED <<tensor, locals, temp, written>>
    BY <1>4 DEF Read
  <2>3. vars[o][1] \in Vars
    <3>1. Kernel(o).of = 1 /\ pc[o] = "launch"
      BY <1>4, ReadingKernel DEF AdamInv, Among, Read, Launching
    <3>2. vars[o] \in Seq(Vars) /\ Len(vars[o]) = 1
      BY <1>0, <3>1 DEF AdamInv, AllPlaced, Placed, Inside, Types
    <3> QED BY <3>2
  <2>4. ReadOut(o).at = allocate_temp /\ allocate_temp \in Buffers
    BY <2>2, Allocated DEF ReadOut
  <2>5. ReadOut(o).what \in [value : Tensors, updates : Seq(UpdatesOf(w))]
    <3>1. tensor[vars[o][1]] \in Buffers \/ tensor[vars[o][1]] = None
      BY <1>0, <2>3 DEF AdamTypes, Tensors
    <3>2. Fresh(None) \in [value : Tensors, updates : Seq(UpdatesOf(w))]
      BY <1>1 DEF Fresh
    <3> QED BY <1>0, <3>1, <3>2 DEF ReadOut, AdamTypes
  <2>6. /\ output' \in [Ops -> Tensors]
        /\ contents' \in [Buffers -> [value : Tensors, updates : Seq(UpdatesOf(w))]]
    BY <1>0, <1>1, <2>2, <2>4, <2>5 DEF AdamTypes
  <2> QED BY <1>0, <2>1, <2>2, <2>6 DEF AdamTypes
<1>5. CASE o = w /\ Use(w)
  <2>1. Types' /\ step' \in [Ops -> Nat] /\ target' \in [Ops -> Seq(Tensors)]
    BY <1>0, <1>5, AdvanceTypes DEF Use
  <2>2. temp' = [temp EXCEPT ![w] = {LastBy(b) : b \in ToSet(Tail(target[w]))}]
    BY <1>5 DEF Use
  <2>3. temp' \in [Ops -> SUBSET {w}]
    BY <1>0, <1>5, <2>2, AdamUses DEF AdamTypes
  <2>4. UNCHANGED <<tensor, contents, locals, output, written>>
    BY <1>5 DEF Use
  <2> QED BY <1>0, <2>1, <2>3, <2>4 DEF AdamTypes
<1>6. CASE o = w /\ UpdateTensors(w)
  <2>1. Types' /\ step' \in [Ops -> Nat] /\ target' \in [Ops -> Seq(Tensors)]
    BY <1>0, <1>6, AdvanceTypes DEF UpdateTensors
  <2>2. PICK x \in Vars, b \in Buffers :
           /\ UNCHANGED <<tensor, output, temp>>
           /\ contents' = [contents EXCEPT ![b].updates = Append(@, Update(w, "whole"))]
           /\ written' = [written EXCEPT ![x] = Append(@, w)]
    BY <1>6, AdamUpdates
  <2>3. Update(w, "whole") \in UpdatesOf(w)
    BY <1>0 DEF Update, UpdatesOf, AdamTypes
  <2>4. contents[b].updates \in Seq(UpdatesOf(w)) /\ contents[b].value \in Tensors
    BY <1>0 DEF AdamTypes
  <2>5. Append(contents[b].updates, Update(w, "whole")) \in Seq(UpdatesOf(w))
    BY <2>3, <2>4
  <2>6. contents' \in [Buffers -> [value : Tensors, updates : Seq(UpdatesOf(w))]]
    BY <1>0, <2>2, <2>5 DEF AdamTypes
  <2>7. Append(written[x], w) \in Seq({w})
    BY <1>0 DEF AdamTypes
  <2>8. written' \in [Vars -> Seq({w})]
    BY <1>0, <2>2, <2>7 DEF AdamTypes
  <2>9. locals' = locals
    BY <1>6 DEF UpdateTensors
  <2> QED BY <1>0, <2>1, <2>2, <2>6, <2>8, <2>9 DEF AdamTypes
<1> QED BY <1>2, <1>3, <1>4, <1>5, <1>6, AdamQuietTypes, AdamSteps

LEMMA PlacedStep ==
    ASSUME NEW w \in Ops, AdamInv(w), NEW o \in Ops, Step(o) \/ Fail(o)
    PROVE  AllPlaced'
<1>0. Types /\ AdamTypes(w) /\ DataTypes /\ AllPlaced
  BY AdamDataTypes DEF AdamInv
<1>1. Others(o) /\ program' = program
  BY <1>0, OthersStay
<1>2. \A q \in Ops \ {o} : Placed(q)'
  BY <1>0, <1>1 DEF Others, AllPlaced, Placed, Kernel
<1> SUFFICES Placed(o)'
  BY <1>2 DEF AllPlaced
<1>3. ASSUME NEW how \in {"done", "failed"}, Leave(o, how)
      PROVE  Placed(o)'
  BY <1>0, <1>3 DEF Leave, Placed, Inside, Types
<1>4. ASSUME NEW x \in Vars, Found(o, x), pc[o] = "lookup", Kernel(o) # DestroyResource
      PROVE  Placed(o)'
  <2>1. Len(vars[o]) \in Nat /\ Len(vars[o]) < Kernel(o).of /\ step[o] = 1
    BY <1>0, <1>4 DEF Types, AllPlaced, Placed
  <2>2. Kernel(o).of \in Nat /\ Len(program[o].handles) = Kernel(o).of
    BY <1>0, KernelSize
  <2>3. Len(vars'[o]) = Len(vars[o]) + 1
    BY <1>0, <1>4 DEF Found, Types
  <2>4. /\ pc'[o] \in {"lookup", "check", "lock"} /\ step'[o] = 1
        /\ pc'[o] = "lookup" <=> Len(vars[o]) + 1 < Len(program[o].handles)
    BY <1>0, <1>4, <2>1 DEF Found, Types
  <2> QED BY <1>1, <1>4, <2>1, <2>2, <2>3, <2>4 DEF Placed, Kernel, Inside
<1>5. ASSUME pc[o] = "launch", Advance(o)
      PROVE  Placed(o)'
  <2>1. /\ Len(vars[o]) = Kernel(o).of /\ Kernel(o) # DestroyResource
        /\ step[o] \in 1 .. Len(Kernel(o).launches) /\ Len(Kernel(o).launches) \in Nat
        /\ DOMAIN Kernel(o).launches = 1 .. Len(Kernel(o).launches)
    <3>1. Len(vars[o]) = Kernel(o).of /\ Kernel(o) # DestroyResource
      BY <1>0, <1>5 DEF AllPlaced, Placed, Inside
    <3>2. Kernel(o) = ApplyAdam \/ Kernel(o) \in ReadingKernels
      BY DEF AdamInv, Among
    <3>3. Len(Kernel(o).launches) \in Nat /\ DOMAIN Kernel(o).launches = 1 .. Len(Kernel(o).launches)
      BY <3>1, <3>2, AdamKernel, ReadingKernel
    <3> QED BY <1>0, <1>5, <3>1, <3>3 DEF AllPlaced, Placed
  <2>2. /\ vars' = vars /\ step'[o] = step[o] + 1
        /\ pc'[o] = IF step[o] = Len(Kernel(o).launches) THEN "sync" ELSE "launch"
    BY <1>0, <1>5 DEF Advance, Types, DataTypes
  <2> QED BY <1>1, <2>1, <2>2 DEF Placed, Kernel, Inside
<1>6. CASE Lookup(o)
  <2>1. resource[Handle(o)] \in Vars
    BY <1>0, <1>6, AdamHandle DEF Lookup, Types
  <2> QED BY <1>4, <1>6, <2>1 DEF Lookup
<1>7. CASE LookupOrCreate(o)
  <2>1. PICK x \in Vars : Found(o, x)
    BY <1>7, AdamCreates
  <2>2. Kernel(o) # DestroyResource
    <3>1. ~DestroyResource.creates
      BY DEF DestroyResource, Simple
    <3> QED BY <1>7, <3>1 DEF LookupOrCreate
  <2> QED BY <1>4, <1>7, <2>1, <2>2 DEF LookupOrCreate
<1>8. CASE LookupFails(o) \/ Destroy(o) \/ CheckFails(o) \/ Return(o) \/ Fail(o)
  <2>1. PICK how \in {"done", "failed"} : Leave(o, how)
    BY <1>8 DEF LookupFails, Destroy, CheckFails, Return, Fail
  <2> QED BY <1>3, <2>1
<1>9. CASE Lock(o)
  <2>1. /\ pc[o] = "lock" /\ pc'[o] \in {"lock", "check"} /\ UNCHANGED <<vars, step>>
    BY <1>0, <1>9 DEF Lock, Types
  <2> QED BY <1>0, <1>1, <2>1 DEF AllPlaced, Placed, Kernel, Inside
<1>10. CASE Check(o)
  <2>1. ~Kernel(o).prepares
    BY ReadingKernel, AdamKernel DEF AdamInv, Among
  <2>2. pc[o] = "check" /\ pc'[o] = "launch" /\ UNCHANGED <<vars, step>>
    BY <1>0, <1>10, <2>1 DEF Check, Types
  <2>3. Len(vars[o]) = Kernel(o).of /\ Kernel(o) # DestroyResource /\ step[o] = 1
    BY <1>0, <2>2 DEF AllPlaced, Placed, Inside
  <2>4. 1 \in DOMAIN Kernel(o).launches
    BY <2>3, ReadingKernel, AdamKernel DEF AdamInv, Among
  <2> QED BY <1>1, <2>2, <2>3, <2>4 DEF Placed, Kernel, Inside
<1>11. CASE Create(o) \/ Read(o) \/ Use(o) \/ UpdateTensors(o)
  BY <1>5, <1>11 DEF Create, Read, Use, UpdateTensors, Launching
<1> QED BY <1>6, <1>7, <1>8, <1>9, <1>10, <1>11, AdamSteps DEF Quiet

LEMMA WorkingStep ==
    ASSUME NEW w \in Ops, AdamInv(w), NEW o \in Ops, Step(o) \/ Fail(o)
    PROVE  Working(w)'
<1> SUFFICES ASSUME pc'[w] = "launch" PROVE Working(w)'
  BY DEF Working
<1>0. Types /\ AdamTypes(w) /\ DataTypes
  BY AdamDataTypes DEF AdamInv
<1>1. Others(o)
  BY <1>0, OthersStay
<1>2. None \notin Buffers
  BY ResourceVariablesAssumption
<1>3. ASSUME pc[w] = "launch", vars'[w] = vars[w], target'[w] = target[w]
      PROVE  /\ target'[w] = TensorsOf(w)'
             /\ \A i \in DOMAIN vars'[w] : tensor'[vars'[w][i]] \in Buffers
             /\ \A i \in DOMAIN vars[w] :
                   contents[target[w][i]].updates # <<>> => contents'[target[w][i]].updates # <<>>
  <2>1. /\ target[w] = TensorsOf(w)
        /\ \A i \in DOMAIN vars[w] : tensor[vars[w][i]] \in Buffers
    BY <1>3 DEF AdamInv, Working
  <2>2. ASSUME NEW i \in DOMAIN vars[w]
        PROVE  \E y \in Vars : y = vars[w][i] /\ Live(y) /\ Live(y)'
    <3>1. PICK y \in Vars : y = vars[w][i]
      BY <1>0 DEF Types
    <3>2. y \in ToSet(vars[w]) /\ y \in ToSet(vars'[w])
      BY <1>3, <3>1 DEF ToSet
    <3> QED BY <3>1, <3>2 DEF Live
  <2>3. ASSUME NEW i \in DOMAIN vars[w]
        PROVE  tensor'[vars[w][i]] = tensor[vars[w][i]]
    <3>1. PICK y \in Vars : y = vars[w][i] /\ Live(y) /\ Live(y)' /\ tensor[y] \in Buffers
      BY <2>1, <2>2
    <3>2. Live(y) /\ tensor[y] # None
      BY <1>2, <3>1
    <3> QED BY <3>1, <3>2, AdamTensorEffect
  <2>4. TensorsOf(w)' = TensorsOf(w)
    BY <1>3, <2>3 DEF TensorsOf
  <2>5. ASSUME NEW i \in DOMAIN vars[w], contents[target[w][i]].updates # <<>>
        PROVE  contents'[target[w][i]].updates # <<>>
    <3>1. PICK b \in Buffers : b = target[w][i] /\ b = tensor[vars[w][i]]
      BY <2>1 DEF TensorsOf
    <3>2. b \notin FreeBuffers
      BY <2>2, <3>1 DEF FreeBuffers, VarsOf
    <3> QED BY <2>5, <3>1, <3>2, AdamContentsEffect
  <2> QED BY <1>3, <2>1, <2>3, <2>4, <2>5
<1>4. CASE o # w
  <2>1. /\ pc[w] = "launch" /\ vars'[w] = vars[w] /\ target'[w] = target[w] /\ step'[w] = step[w]
    BY <1>1, <1>4 DEF Others
  <2>2. DOMAIN vars[w] = 1 .. 3
    BY <2>1, AdamVars
  <2>3. \A i \in {2, 3} : i <= step[w] => contents[target[w][i]].updates # <<>>
    BY <2>1 DEF AdamInv, Working
  <2> QED BY <1>3, <2>1, <2>2, <2>3 DEF Working
<1>5. CASE o = w /\ Check(w)
  <2>1. /\ pc[w] = "check" /\ Valid(w) /\ target' = [target EXCEPT ![w] = TensorsOf(w)]
        /\ UNCHANGED <<tensor, vars, step>>
    BY <1>5 DEF Check
  <2>2. step[w] = 1 /\ Kernel(w).checks
    BY <2>1, AdamKernel DEF AdamInv, Among, AllPlaced, Placed
  <2>3. \A i \in DOMAIN vars[w] : tensor[vars[w][i]] \in Buffers
    <3>1. \A i \in DOMAIN vars[w] : vars[w][i] \in Vars /\ vars[w][i] \in ToSet(vars[w])
      BY <1>0 DEF Types, ToSet
    <3> QED BY <1>0, <2>1, <2>2, <3>1 DEF Valid, AdamTypes, Tensors
  <2>4. target'[w] = TensorsOf(w)'
    BY <1>0, <2>1 DEF TensorsOf, AdamTypes
  <2> QED BY <2>1, <2>2, <2>3, <2>4 DEF Working
<1>6. CASE o = w /\ (Use(w) \/ UpdateTensors(w))
  <2>1. /\ pc[w] = "launch" /\ vars'[w] = vars[w] /\ target'[w] = target[w]
        /\ step'[w] = step[w] + 1
    BY <1>0, <1>6 DEF Use, UpdateTensors, Launching, Advance, DataTypes
  <2>2. DOMAIN vars[w] = 1 .. 3 /\ target[w] = TensorsOf(w)
    BY <2>1, AdamVars DEF AdamInv, Working
  <2>3. step[w] \in 1 .. 4 /\ (Launch(w).do = "use" <=> step[w] = 3)
    BY <2>1, AdamLaunch
  <2>4. ASSUME NEW i \in {2, 3}, i <= step'[w]
        PROVE  contents'[target[w][i]].updates # <<>>
    <3>1. CASE i <= step[w]
      BY <1>3, <2>1, <2>2, <3>1 DEF AdamInv, Working
    <3>2. CASE i = step[w] + 1
      <4>1. step[w] \in {1, 2} /\ Launch(w) = ApplyAdam.launches[step[w]]
        BY <2>1, <2>3, <3>2, AdamLaunch
      <4>2. Launch(w).at = i
        BY <3>2, <4>1, AdamKernel DEF Part
      <4>3. UpdateTensors(w)
        BY <1>6, <2>3, <4>1 DEF Use, Launching
      <4>4. PICK x \in Vars, b \in Buffers :
               /\ b = target[w][i]
               /\ contents' = [contents EXCEPT ![b].updates = Append(@, Update(w, "whole"))]
        BY <4>2, <4>3, AdamUpdates
      <4>5. contents'[b].updates = Append(contents[b].updates, Update(w, "whole"))
        BY <1>0, <4>4 DEF DataTypes
      <4>6. contents[b].updates \in Seq(Updates)
        BY <1>0 DEF DataTypes
      <4>7. contents'[b].updates # <<>>
        BY <4>5, <4>6
      <4> QED BY <4>4, <4>7
    <3> QED BY <2>1, <2>3, <2>4, <3>1, <3>2
  <2> QED BY <1>3, <2>1, <2>4 DEF Working
<1>7. CASE o = w /\ Quiet(w) /\ ~Check(w)
  <2>1. CASE Lookup(w)
    BY <1>0, <2>1 DEF Lookup, Found, Types
  <2>2. CASE LookupFails(w) \/ Destroy(w) \/ CheckFails(w) \/ Return(w) \/ Fail(w)
    <3>1. PICK how \in {"done", "failed"} : Leave(w, how)
      BY <2>2 DEF LookupFails, Destroy, CheckFails, Return, Fail
    <3> QED BY <1>0, <3>1 DEF Leave, Types
  <2>3. CASE Lock(w)
    BY <1>0, <2>3 DEF Lock, Types
  <2> QED BY <1>7, <2>1, <2>2, <2>3 DEF Quiet
<1> QED BY <1>4, <1>5, <1>6, <1>7, AdamSteps

LEMMA AdamStep ==
    ASSUME NEW w \in Ops, AdamInv(w), NEW o \in Ops, Step(o) \/ Fail(o)
    PROVE  AdamInv(w)'
<1>1. Among(w)'
  <2>1. program' = program
    BY AdamDataTypes, OthersStay DEF AdamInv
  <2> QED BY <2>1 DEF AdamInv, Among, Kernel
<1> QED BY <1>1, AdamTypesStep, PlacedStep, OutputsOwnStep, WorkingStep, ShownStep DEF AdamInv

LEMMA AdamStutters ==
    ASSUME NEW w \in Ops, AdamInv(w), UNCHANGED state
    PROVE  AdamInv(w)'
<1>1. UNCHANGED <<program, kept, resource, tensor, is_initialized, mu, contents, written,
                  pc, vars, step, locals, target, temp, output>>
  BY DEF state, vars_of_kernels
<1>2. Among(w)' /\ Types' /\ AdamTypes(w)'
  BY <1>1 DEF AdamInv, Among, Kernel, Types, AdamTypes
<1>3. AllPlaced'
  BY <1>1 DEF AdamInv, AllPlaced, Placed, Kernel
<1>4. OutputsOwn' /\ Shown'
  BY <1>1 DEF AdamInv, OutputsOwn, Shown, VarsOf, Live
<1>5. Working(w)'
  BY <1>1 DEF AdamInv, Working, TensorsOf
<1> QED BY <1>2, <1>3, <1>4, <1>5 DEF AdamInv

LEMMA InitAdam == ASSUME NEW w \in Ops, Among(w), Init PROVE AdamInv(w)
<1>1. Types
  BY InitInv DEF IInv
<1>2. PICK first \in {{}, Handles} :
         tensor = [x \in Vars |-> IF x \in first THEN x ELSE None]
  BY DEF Init
<1>3. first \subseteq Buffers
  BY <1>2, ResourceVariablesAssumption
<1>4. \A o \in Ops : Kernel(o) # AssignVariable /\ Kernel(o).of \in {1, 3}
  BY ReadingKernel, AdamKernel DEF Among
<1>5. AdamTypes(w)
  <2>1. tensor \in [Vars -> Tensors]
    BY <1>2, <1>3 DEF Tensors
  <2>2. contents \in [Buffers -> [value : Tensors, updates : Seq(UpdatesOf(w))]]
    BY DEF Init, Fresh, Tensors
  <2>3. locals = [o \in Ops |-> {}]
    BY <1>4 DEF Init
  <2>4. /\ step \in [Ops -> Nat] /\ temp \in [Ops -> SUBSET {w}]
        /\ target \in [Ops -> Seq(Tensors)] /\ output \in [Ops -> Tensors]
        /\ written \in [Vars -> Seq({w})]
    BY DEF Init, Tensors
  <2> QED BY <2>1, <2>2, <2>3, <2>4 DEF AdamTypes
<1>6. AllPlaced
  <2>1. \A o \in Ops : pc[o] = "lookup" /\ Len(vars[o]) = 0 /\ step[o] = 1
    BY DEF Init
  <2> QED BY <1>4, <2>1 DEF AllPlaced, Placed, Inside
<1>7. OutputsOwn
  BY ResourceVariablesAssumption DEF Init, OutputsOwn
<1>8. Working(w) /\ Shown
  BY DEF Init, Working, Shown
<1> QED BY <1>1, <1>5, <1>6, <1>7, <1>8 DEF AdamInv

LEMMA AdamShows ==
    ASSUME NEW w \in Ops, AdamInv(w)
    PROVE  ReadsAreWhole /\ OwnMoments /\ NoUpdateLost
<1>0. AdamTypes(w) /\ None \notin Buffers
  BY ResourceVariablesAssumption DEF AdamInv
<1>1. ASSUME NEW b \in Buffers
      PROVE  /\ contents[b].updates \in Seq(UpdatesOf(w))
             /\ \A i \in DOMAIN contents[b].updates : contents[b].updates[i] \in UpdatesOf(w)
  BY <1>0 DEF AdamTypes
<1>2. ReadsAreWhole
  <2> SUFFICES ASSUME NEW o \in Ops, output[o] # None, NEW i \in DOMAIN contents[output[o]].updates
               PROVE  IsWhole(contents[output[o]].updates, i)
    BY DEF ReadsAreWhole
  <2>1. output[o] \in Buffers
    BY <1>0 DEF AdamTypes, Tensors
  <2>2. contents[output[o]].updates[i] \in UpdatesOf(w)
    BY <1>1, <2>1
  <2> QED BY <2>2 DEF IsWhole, UpdatesOf
<1>3. OwnMoments
  BY <1>1 DEF OwnMoments, UpdatesOf
<1>4. NoUpdateLost
  <2> SUFFICES ASSUME NEW x \in Vars, Live(x), tensor[x] # None, NEW o \in ToSet(written[x])
               PROVE  \E i \in DOMAIN contents[tensor[x]].updates :
                         LET u == contents[tensor[x]].updates[i] IN u.by = o /\ u.do # "scale"
    BY DEF NoUpdateLost
  <2>1. written[x] \in Seq({w})
    BY <1>0 DEF AdamTypes
  <2>2. o = w /\ written[x] # <<>>
    BY <2>1 DEF ToSet
  <2>3. PICK b \in Buffers : b = tensor[x] /\ contents[b].updates # <<>>
    BY <2>2 DEF AdamInv, Shown
  <2>4. 1 \in DOMAIN contents[b].updates
    BY <1>1, <2>3, EmptySeq, LenProperties
  <2>5. contents[b].updates[1] \in UpdatesOf(w)
    BY <1>1, <2>4
  <2> QED BY <2>2, <2>3, <2>4, <2>5 DEF UpdatesOf
<1> QED BY <1>2, <1>3, <1>4

LEMMA AdamPrivate ==
    ASSUME NEW w \in Ops, AdamInv(w), NEW a \in Ops, Step(a) \/ Fail(a), NEW o \in Ops,
           NEW b \in Buffers, contents'[b] # contents[b], b \notin FreeBuffers
    PROVE  /\ \A p \in Ops : output[p] # b
           /\ ~Kernel(o).prepares
<1>1. VarsOf(b) # {}
  BY AdamContentsEffect
<1>2. \A p \in Ops : output[p] # b
  BY <1>1 DEF AdamInv, OutputsOwn
<1>3. ~Kernel(o).prepares
  BY ReadingKernel, AdamKernel DEF AdamInv, Among
<1> QED BY <1>2, <1>3

-----------------------------------------------------------------------------
(* The theorems *)

LEMMA InitBase == ASSUME Locking, Init PROVE BaseInv
<1>1. Types
  BY InitInv DEF IInv
<1>2. PICK first \in {{}, Handles} :
         tensor = [x \in Vars |-> IF x \in first THEN x ELSE None]
  BY DEF Init
<1>3. first \subseteq Buffers
  BY <1>2, ResourceVariablesAssumption
<1>4. DataTypes
  <2>1. tensor \in [Vars -> Tensors]
    BY <1>2, <1>3 DEF Tensors
  <2>2. contents \in [Buffers -> [value : Tensors, updates : Seq(Updates)]]
    BY DEF Init, Fresh, Tensors
  <2>3. locals \in [Ops -> SUBSET Tensors]
    BY <1>1, ValuesAssumption DEF Init, Kernel, Types, Tensors
  <2>4. /\ step \in [Ops -> Nat] /\ temp \in [Ops -> SUBSET Ops]
        /\ target \in [Ops -> Seq(Tensors)] /\ output \in [Ops -> Tensors]
        /\ written \in [Vars -> Seq(Ops)]
    BY DEF Init, Tensors
  <2> QED BY <2>1, <2>2, <2>3, <2>4 DEF DataTypes
<1>5. AllHeld
  <2>1. \A o \in Ops : Len(vars[o]) = 0 /\ Kernel(o).of \in Nat /\ Kernel(o).of > 0
    BY <1>1, KernelFits DEF Init, Fits, Flags
  <2> QED BY <2>1 DEF Init, AllHeld, Held, Inside
<1>6. Exclusive /\ AllPrepared
  BY DEF Init, Exclusive, AllPrepared, Prepared
<1>7. Reserved
  BY ResourceVariablesAssumption DEF Init, Reserved
<1> QED BY <1>1, <1>4, <1>5, <1>6, <1>7 DEF BaseInv

LEMMA InitData == ASSUME Init PROVE DataInv
<1>1. \A b \in Buffers : contents[b].updates = <<>>
  BY DEF Init, Fresh
<1>2. \A x \in Vars : written[x] = <<>> /\ ToSet(written[x]) = {}
  BY DEF Init, ToSet
<1>3. OwnMoments /\ Wholes
  BY <1>1 DEF OwnMoments, Wholes
<1>4. NoUpdateLost /\ Unwritten
  BY <1>2 DEF NoUpdateLost, Unwritten
<1>5. AllLatest /\ OwnTemps
  BY DEF Init, AllLatest, Latest, OwnTemps
<1> QED BY <1>3, <1>4, <1>5 DEF DataInv

LEMMA StutterKeeps == ASSUME UNCHANGED state, BaseInv, DataInv PROVE BaseInv' /\ DataInv'
<1>1. UNCHANGED <<program, kept, resource, tensor, is_initialized, mu, contents, written,
                  pc, vars, step, locals, target, temp, output>>
  BY DEF state, vars_of_kernels
<1>2. Types' /\ DataTypes' /\ Exclusive' /\ OwnTemps' /\ OwnMoments'
  BY <1>1 DEF BaseInv, DataInv, Types, DataTypes, Exclusive, Kernel, OwnTemps, OwnMoments
<1>3. AllHeld'
  BY <1>1 DEF BaseInv, AllHeld, Held, Kernel, Unlocked
<1>4. Reserved'
  BY <1>1 DEF BaseInv, Reserved, Kernel, Returned, VarsOf, KernelsOf, Live
<1>5. AllPrepared'
  BY <1>1 DEF BaseInv, AllPrepared, Prepared, Kernel, TensorsOf, RefCountIsOne, VarsOf, KernelsOf, Live
<1>6. AllLatest'
  BY <1>1 DEF DataInv, AllLatest, Latest, LastIs, Kernel
<1>7. Wholes'
  <2>1. \A us, i : IsWhole(us, i) => IsWhole(us, i)'
    BY <1>1 DEF IsWhole
  <2>2. \A b, i : Half(b, i) => Half(b, i)'
    BY <1>1 DEF Half, Adding, Launching, Launch, Kernel
  <2> SUFFICES ASSUME NEW b \in Buffers, NEW i \in DOMAIN contents[b].updates
               PROVE  IsWhole(contents[b].updates, i)' \/ Half(b, i)'
    BY <1>1 DEF Wholes
  <2>3. PICK us : us = contents[b].updates
    OBVIOUS
  <2>4. IsWhole(us, i) \/ Half(b, i)
    BY <2>3 DEF DataInv, Wholes
  <2>5. IsWhole(us, i)' => IsWhole(contents[b].updates, i)'
    BY <1>1, <2>3 DEF IsWhole
  <2> QED BY <2>1, <2>2, <2>4, <2>5
<1>8. NoUpdateLost' /\ Unwritten'
  BY <1>1 DEF DataInv, NoUpdateLost, Unwritten, Live
<1> QED BY <1>2, <1>3, <1>4, <1>5, <1>6, <1>7, <1>8 DEF BaseInv, DataInv

LEMMA DataKept ==
    ASSUME Locking PROVE BaseInv /\ DataInv /\ [Next]_state => BaseInv' /\ DataInv'
<1> SUFFICES ASSUME BaseInv, DataInv, [Next]_state PROVE BaseInv' /\ DataInv'
    OBVIOUS
<1>1. CASE \E o \in Ops : Step(o) \/ Fail(o)
  <2>1. PICK o \in Ops : Step(o) \/ Fail(o)
    BY <1>1
  <2>2. AllLatest /\ OwnTemps /\ OwnMoments /\ Wholes /\ NoUpdateLost /\ Unwritten
    BY DEF DataInv
  <2>3. BaseInv' /\ AllLatest' /\ OwnTemps' /\ OwnMoments'
    BY <2>1, <2>2, BaseStep, LatestStep, TempsStep, MomentsStep
  <2>4. Wholes' /\ NoUpdateLost' /\ Unwritten'
    BY <2>1, <2>2, WholesStep, KeptStep
  <2> QED BY <2>3, <2>4 DEF DataInv
<1>2. CASE UNCHANGED state
  BY <1>2, StutterKeeps
<1> QED BY <1>1, <1>2 DEF Next, AllReturned

\* Nothing has what was read but the kernel that returns it: no moment has it.
LEMMA WholeOutputs == ASSUME Locking, BaseInv, Wholes PROVE ReadsAreWhole
<1> SUFFICES ASSUME NEW o \in Ops, output[o] # None, NEW i \in DOMAIN contents[output[o]].updates
             PROVE  IsWhole(contents[output[o]].updates, i)
  BY DEF ReadsAreWhole
<1>1. PICK b \in Buffers : b = output[o]
  BY DEF BaseInv, DataTypes, Tensors
<1>2. VarsOf(b) = {}
  BY <1>1 DEF BaseInv, Reserved
<1>3. \A q \in Ops : ~Adding(q, b)
  <2> SUFFICES ASSUME NEW q \in Ops, Adding(q, b) PROVE FALSE
    OBVIOUS
  <2>1. PICK y \in Vars : RefCountIsOne(y) /\ tensor[y] = b
    BY AddingKernel, PreparedBuffer
  <2> QED BY <1>2, <2>1 DEF RefCountIsOne
<1> QED BY <1>1, <1>3 DEF Wholes, Half

LEMMA PrivateStep ==
    ASSUME Locking, BaseInv, NEW a \in Ops, Step(a) \/ Fail(a), NEW o \in Ops, pc[o] = "launch",
           step'[o] # step[o], NEW b \in Buffers, contents'[b] # contents[b], b \notin FreeBuffers
    PROVE  /\ \A p \in Ops : output[p] # b
           /\ Kernel(o).prepares =>
                b \notin kept /\ KernelsOf(b) = {} /\ \E x \in ToSet(vars[o]) : VarsOf(b) = {x}
<1>1. a = o
  BY OthersStay DEF BaseInv, Others
<1>2. Updated(o, b)
  BY <1>1, ContentsEffect
<1>3. PICK i \in DOMAIN vars[o] : tensor[vars[o][i]] = b
  BY <1>2, UpdateEffect DEF Updated
<1>4. vars[o][i] \in VarsOf(b)
  BY <1>2, <1>3, UpdateEffect DEF Updated, VarsOf
<1>5. \A p \in Ops : output[p] # b
  BY <1>4 DEF BaseInv, Reserved
<1>6. ASSUME Kernel(o).prepares
      PROVE  b \notin kept /\ KernelsOf(b) = {} /\ \E x \in ToSet(vars[o]) : VarsOf(b) = {x}
  <2>1. RefCountIsOne(vars[o][i]) /\ vars[o][i] \in ToSet(vars[o])
    BY <1>3, <1>6, PreparedBuffer
  <2> QED BY <1>3, <2>1 DEF RefCountIsOne
<1> QED BY <1>5, <1>6

(***************************************************************************)
(* The programs in which ApplyAdam, if it runs at all, runs beside kernels *)
(* that only read: it takes no mutex, whatever use_locking says            *)
(* (musa_applyadam_op.cc), so that the launches of two of them may mix and *)
(* one compute with the moments of the other.                              *)
(***************************************************************************)
AdamApart ==
    \A p \in Programs :
        (\A o \in Ops : p[o].kernel \in LockingKernels) \/ AdamAmongReaders(p)

ProgramInv == (Locking /\ BaseInv /\ DataInv) \/ \E w \in Ops : AdamInv(w)

LEMMA InitProgram == ASSUME AdamApart, Init PROVE ProgramInv
<1>1. program \in Programs
  BY DEF Init
<1>2. Locking \/ \E w \in Ops : Among(w)
  BY <1>1 DEF AdamApart, AdamAmongReaders, Locking, Among, Kernel
<1> QED BY <1>2, InitBase, InitData, InitAdam DEF ProgramInv

LEMMA ProgramKept == ProgramInv /\ [Next]_state => ProgramInv'
<1> SUFFICES ASSUME ProgramInv, [Next]_state PROVE ProgramInv'
  OBVIOUS
<1>1. CASE Locking /\ BaseInv /\ DataInv
  <2>1. BaseInv' /\ DataInv'
    BY <1>1, DataKept
  <2>2. program' = program
    <3>1. ASSUME NEW o \in Ops, Step(o) \/ Fail(o) PROVE program' = program
      BY <1>1, <3>1, OthersStay DEF BaseInv
    <3> QED BY <3>1 DEF Next, AllReturned, state
  <2> QED BY <1>1, <2>1, <2>2 DEF ProgramInv, Locking, Kernel
<1>2. CASE \E w \in Ops : AdamInv(w)
  <2>1. PICK w \in Ops : AdamInv(w)
    BY <1>2
  <2>2. ASSUME NEW o \in Ops, Step(o) \/ Fail(o) PROVE AdamInv(w)'
    BY <2>1, <2>2, AdamStep
  <2>3. UNCHANGED state => AdamInv(w)'
    BY <2>1, AdamStutters
  <2> QED BY <2>2, <2>3 DEF ProgramInv, Next, AllReturned
<1> QED BY <1>1, <1>2 DEF ProgramInv

LEMMA ProgramAlways == ASSUME AdamApart PROVE Spec => []ProgramInv
<1>1. Init => ProgramInv
  BY InitProgram
<1>2. ProgramInv /\ [Next]_state => ProgramInv'
  BY ProgramKept
<1> QED BY <1>1, <1>2, PTL DEF Spec

(***************************************************************************)
(* ReadVariableOp and ResourceGather (musa_resource_variable_op.cc,        *)
(* musa_resourcegather_op.cc) return no half of an update in place,        *)
(* whatever kernels run beside them, if ApplyAdam runs beside kernels that *)
(* only read.                                                              *)
(***************************************************************************)
THEOREM ReadWhole == ASSUME AdamApart PROVE Spec => []ReadsAreWhole
<1>1. ProgramInv => ReadsAreWhole
  BY WholeOutputs, AdamShows DEF ProgramInv, DataInv
<1> QED BY <1>1, ProgramAlways, PTL

(***************************************************************************)
(* An optimizer (kernels/training) computes the update from moments that   *)
(* it has updated itself just before: the mutexes of its variables see to  *)
(* that whoever else uses these; ApplyAdam, which takes none, does so      *)
(* beside kernels that only read.                                          *)
(***************************************************************************)
THEOREM MomentsOwn == ASSUME AdamApart PROVE Spec => []OwnMoments
<1>1. ProgramInv => OwnMoments
  BY AdamShows DEF ProgramInv, DataInv
<1> QED BY <1>1, ProgramAlways, PTL

(***************************************************************************)
(* A variable has the updates of every kernel that has updated it since it *)
(* was assigned, also after PrepareTensorForMusaUpdate has given it        *)
(* another buffer, and also those of ApplyAdam beside kernels that only    *)
(* read.                                                                   *)
(***************************************************************************)
THEOREM UpdatesKept == ASSUME AdamApart PROVE Spec => []NoUpdateLost
<1>1. ProgramInv => NoUpdateLost
  BY AdamShows DEF ProgramInv, DataInv
<1> QED BY <1>1, ProgramAlways, PTL

(***************************************************************************)
(* What PrepareTensorForMusaUpdate has found to be the variable's own when *)
(* it counted the references is still its own when the launches change it; *)
(* and no launch changes what has been read, not even those of ApplyAdam   *)
(* beside kernels that only read.                                          *)
(***************************************************************************)
THEOREM UpdatesPrivate == ASSUME AdamApart PROVE Spec => UpdatesStayPrivate
<1> DEFINE Private ==
             \A o \in Ops : pc[o] = "launch" /\ step'[o] # step[o] =>
                \A b \in Buffers : contents'[b] # contents[b] /\ b \notin FreeBuffers =>
                    /\ \A p \in Ops : output[p] # b
                    /\ Kernel(o).prepares =>
                        b \notin kept /\ KernelsOf(b) = {} /\ \E x \in ToSet(vars[o]) : VarsOf(b) = {x}
<1>1. ProgramInv /\ [Next]_state => [Private]_state
  <2> SUFFICES ASSUME ProgramInv, Next PROVE Private \/ UNCHANGED state
    OBVIOUS
  <2>1. ASSUME NEW a \in Ops, Step(a) \/ Fail(a), Locking, BaseInv
        PROVE  Private
    BY <2>1, PrivateStep
  <2>2. ASSUME NEW a \in Ops, Step(a) \/ Fail(a), NEW w \in Ops, AdamInv(w)
        PROVE  Private
    BY <2>2, AdamPrivate
  <2> QED BY <2>1, <2>2 DEF Next, AllReturned, ProgramInv
<1>2. [][Private]_state => UpdatesStayPrivate
  BY DEF UpdatesStayPrivate
<1> QED BY <1>1, <1>2, ProgramAlways, PTL DEF Spec

=============================================================================
