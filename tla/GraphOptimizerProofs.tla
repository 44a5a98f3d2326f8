------------------------- MODULE GraphOptimizerProofs -------------------------
(***************************************************************************)
(* What holds of the graph optimizer for every graph, and for every number *)
(* of sessions: the tables of the PLN cascade, the loops of                *)
(* OptimizeFusion, and, for the patterns of KeepingPatterns, that a graph  *)
(* stays one that TensorFlow accepts and provides what is fetched, and     *)
(* that there are at most as many fusions as it had nodes.                 *)
(***************************************************************************)
EXTENDS FusionProperties, AcceptedGraphs, SequenceTheorems, FiniteSetTheorems, WellFoundedInduction, TLAPS

-----------------------------------------------------------------------------
(***************************************************************************)
(* Induction, for sets of numbers: it comes from the fact that every set   *)
(* of natural numbers that is not empty has a least element.               *)
(***************************************************************************)
LEMMA Minimum ==
    ASSUME NEW S \in SUBSET Nat, S # {}
    PROVE  \E x \in S : \A y \in S : x <= y
<1>1. PICK x \in S : \A y \in S : ~(<<y, x>> \in OpToRel(<, Nat))
  BY NatLessThanWellFounded, WFMin
<1>2. \A y \in S : ~(y < x)
  <2> TAKE y \in S
  <2>1. y \in Nat /\ x \in Nat
    OBVIOUS
  <2> QED BY <1>1, <2>1 DEF OpToRel
<1> QED BY <1>2

LEMMA UpTo ==
    ASSUME NEW n \in Nat, NEW P, 0 \in P, \A k \in 0..n : k \in P /\ k < n => k + 1 \in P
    PROVE  n \in P
<1> SUFFICES ASSUME n \notin P PROVE FALSE
  OBVIOUS
<1> DEFINE S == {k \in 0..n : k \notin P}
<1>1. S \in SUBSET Nat /\ S # {}
  OBVIOUS
<1>2. PICK x \in S : \A y \in S : x <= y
  BY <1>1, Minimum
<1>3. x \in 1..n
  OBVIOUS
<1>4. x - 1 \in 0..n /\ x - 1 < n /\ x - 1 \notin S
  BY <1>2, <1>3
<1>5. x - 1 \in P /\ x - 1 + 1 = x
  BY <1>3, <1>4
<1> QED BY <1>4, <1>5

LEMMA MaxOf ==
    ASSUME NEW n \in Nat, NEW s \in SUBSET (1..n), s # {}
    PROVE  Max(s) \in s /\ \A y \in s : y <= Max(s)
<1> DEFINE Below == {n - y : y \in s}
<1>0. \A y \in s : y \in Int /\ y <= n
  OBVIOUS
<1>1. Below \in SUBSET Nat /\ Below # {}
  <2>1. \A y \in s : n - y \in Nat
    BY <1>0
  <2> QED BY <2>1
<1>2. PICK b \in Below : \A c \in Below : b <= c
  BY <1>1, Minimum
<1>3. PICK x \in s : b = n - x
  OBVIOUS
<1>4. \A y \in s : x >= y
  <2> TAKE y \in s
  <2>1. n - y \in Below
    OBVIOUS
  <2>2. n - x <= n - y
    BY <1>2, <1>3, <2>1
  <2>3. x \in Int /\ y \in Int
    BY <1>0
  <2> QED BY <2>2, <2>3
<1>5. Max(s) \in s /\ \A y \in s : Max(s) >= y
  BY <1>4 DEF Max
<1>6. Max(s) \in Int /\ \A y \in s : y \in Int
  BY <1>0, <1>5
<1> QED BY <1>5, <1>6

LEMMA MaxUpTo ==
    ASSUME NEW k \in Nat \ {0}
    PROVE  Max(1..k) = k /\ (1..k) \ {k} = 1..k - 1
<1>1. 1..k \in SUBSET (1..k) /\ k \in 1..k
  OBVIOUS
<1>2. 1..k # {} /\ k \in Nat
  BY <1>1
<1>3. Max(1..k) \in 1..k /\ k <= Max(1..k)
  BY <1>1, <1>2, MaxOf
<1> QED BY <1>3

(***************************************************************************)
(* A fold is defined by a function of the sets of indices.  There is one,  *)
(* whatever is folded.                                                     *)
(***************************************************************************)
IsIteration(f, n, base, F) ==
    \A s \in SUBSET (1..n) : f[s] = IF s = {} THEN base ELSE F[<<f[s \ {Max(s)}], Max(s)>>]

LEMMA IterationExists ==
    ASSUME NEW X, NEW base \in X, NEW n \in Nat, NEW F \in [X \X (1..n) -> X]
    PROVE  \E f \in [SUBSET (1..n) -> X] : IsIteration(f, n, base, F)
<1> DEFINE P == {k \in 0..n : \E f \in [SUBSET (1..k) -> X] : IsIteration(f, k, base, F)}
<1>1. 0 \in P
  <2> DEFINE f == [s \in SUBSET (1..0) |-> base]
  <2>1. f \in [SUBSET (1..0) -> X]
    OBVIOUS
  <2>2. \A s \in SUBSET (1..0) : s = {}
    OBVIOUS
  <2>3. IsIteration(f, 0, base, F)
    BY <2>2 DEF IsIteration
  <2> QED BY <2>1, <2>3
<1>2. ASSUME NEW k \in 0..n, k \in P, k < n
      PROVE  k + 1 \in P
  <2>1. PICK f \in [SUBSET (1..k) -> X] : IsIteration(f, k, base, F)
    BY <1>2
  <2> DEFINE h == [s \in SUBSET (1..k + 1) |->
                     IF k + 1 \in s THEN F[<<f[s \ {k + 1}], k + 1>>] ELSE f[s]]
  <2>2. ASSUME NEW s \in SUBSET (1..k + 1)
        PROVE  /\ s \ {k + 1} \in SUBSET (1..k)
               /\ k + 1 \notin s => s \in SUBSET (1..k)
    OBVIOUS
  <2>3. h \in [SUBSET (1..k + 1) -> X]
    <3> SUFFICES ASSUME NEW s \in SUBSET (1..k + 1)
                 PROVE  (IF k + 1 \in s THEN F[<<f[s \ {k + 1}], k + 1>>] ELSE f[s]) \in X
      OBVIOUS
    <3>1. CASE k + 1 \in s
      <4>1. f[s \ {k + 1}] \in X /\ k + 1 \in 1..n
        BY <1>2, <2>2
      <4> QED BY <3>1, <4>1
    <3>2. CASE k + 1 \notin s
      BY <3>2, <2>2
    <3> QED BY <3>1, <3>2
  <2>4. ASSUME NEW s \in SUBSET (1..k + 1)
        PROVE  h[s] = IF s = {} THEN base ELSE F[<<h[s \ {Max(s)}], Max(s)>>]
    <3>1. CASE k + 1 \in s
      <4>1. Max(s) \in s /\ k + 1 <= Max(s)
        BY <3>1, MaxOf, k + 1 \in Nat
      <4>2. Max(s) = k + 1
        <5>1. Max(s) \in 1..k + 1
          BY <4>1
        <5> QED BY <4>1, <5>1
      <4>3. s \ {k + 1} \in SUBSET (1..k + 1) /\ k + 1 \notin s \ {k + 1}
        OBVIOUS
      <4>4. h[s \ {k + 1}] = f[s \ {k + 1}]
        BY <4>3
      <4> QED BY <3>1, <4>2, <4>4
    <3>2. CASE k + 1 \notin s /\ s = {}
      <4>1. h[s] = f[s] /\ f[s] = base
        BY <3>2, <2>1, <2>2 DEF IsIteration
      <4> QED BY <3>2, <4>1
    <3>3. CASE k + 1 \notin s /\ s # {}
      <4>1. s \in SUBSET (1..k)
        BY <3>3, <2>2
      <4>2. f[s] = F[<<f[s \ {Max(s)}], Max(s)>>]
        BY <3>3, <4>1, <2>1 DEF IsIteration
      <4>3. s \ {Max(s)} \in SUBSET (1..k + 1) /\ k + 1 \notin s \ {Max(s)}
        BY <3>3
      <4>4. h[s \ {Max(s)}] = f[s \ {Max(s)}]
        BY <4>3
      <4> QED BY <3>3, <4>2, <4>4
    <3> QED BY <3>1, <3>2, <3>3
  <2>5. IsIteration(h, k + 1, base, F)
    BY <2>4 DEF IsIteration
  <2>6. k + 1 \in 0..n
    BY <1>2
  <2> HIDE DEF h
  <2> QED BY <2>3, <2>5, <2>6
<1> HIDE DEF P
<1>3. n \in P
  BY <1>1, <1>2, UpTo
<1> QED BY <1>3 DEF P
-----------------------------------------------------------------------------
(***************************************************************************)
(* The rows of a group, in the cache: no two have the same key, and all    *)
(* have as many values in the one table as in the other, and as the first  *)
(* row has.                                                                *)
(***************************************************************************)
IsRow(row) == row.add # <<>> /\ Len(row.bias) = Len(row.add)

HasRow(rows, key) == \E i \in DOMAIN rows : rows[i].key = key

Consistent(rows) ==
    /\ IsSequence(rows)
    /\ \A i, j \in DOMAIN rows : rows[i].key = rows[j].key => i = j
    /\ \A i \in DOMAIN rows : IsRow(rows[i]) /\ Len(rows[i].add) = Len(rows[1].add)

Begins(rows, known) ==
    DOMAIN known \subseteq DOMAIN rows /\ \A i \in DOMAIN known : rows[i] = known[i]

LEMMA Indices ==
    ASSUME NEW s, IsSequence(s)
    PROVE  /\ Len(s) \in Nat /\ DOMAIN s = 1..Len(s)
           /\ s # <<>> => 1 \in DOMAIN s
<1>1. s \in Seq(ToSet(s))
  BY DEF IsSequence
<1>2. Len(s) \in Nat /\ DOMAIN s = 1..Len(s)
  BY <1>1
<1>3. ASSUME s # <<>> PROVE Len(s) # 0
  BY <1>1, <1>3, EmptySeq
<1> QED BY <1>2, <1>3

LEMMA PairsOfGroup ==
    ASSUME NEW g, NEW group, IsSequence(g)
    PROVE  /\ IsSequence(GroupPairs(g, group))
           /\ \A i \in DOMAIN GroupPairs(g, group) :
                 GroupPairs(g, group)[i].found => IsRow(GroupPairs(g, group)[i].row)
<1> DEFINE maps    == [i \in DOMAIN g |-> IF BelongsToGroup(g[i], group) THEN PairOfMap(g, g[i])
                                                                         ELSE NoPair]
           pending == [i \in DOMAIN g |-> IF BelongsToGroup(g[i], group) THEN PairOfPending(g, g[i])
                                                                         ELSE NoPair]
           Good(pair) == pair.found => IsRow(pair.row)
<1>1. Len(g) \in Nat /\ DOMAIN g = 1..Len(g)
  BY Indices
<1>2. \A a, b, add, bias, data, mul : Good(PairWith(a, b, add, bias, data, mul))
  <2> TAKE a, b, add, bias, data, mul
  <2>1. /\ PairWith(a, b, add, bias, data, mul).found <=> a # <<>> /\ Len(a) = Len(b)
        /\ PairWith(a, b, add, bias, data, mul).row.add = a
        /\ PairWith(a, b, add, bias, data, mul).row.bias = b
    BY Zenon DEF PairWith
  <2> QED BY <2>1 DEF IsRow
<1>3. Good(NoPair)
  BY DEF NoPair
<1>4. \A n : Good(PairOfMap(g, n))
  BY <1>2, <1>3 DEF PairOfMap, Pair
<1>5. \A n : Good(PairOfPending(g, n))
  BY <1>2, <1>3 DEF PairOfPending, PairOfSum, Pair
<1>6. \A i \in DOMAIN g : Good(maps[i]) /\ Good(pending[i])
  BY <1>3, <1>4, <1>5
<1>7. maps \in Seq({maps[i] : i \in DOMAIN g} \cup {pending[i] : i \in DOMAIN g})
  BY <1>1
<1>8. pending \in Seq({maps[i] : i \in DOMAIN g} \cup {pending[i] : i \in DOMAIN g})
  BY <1>1
<1> DEFINE both == maps \o pending
<1>9. /\ both \in Seq({maps[i] : i \in DOMAIN g} \cup {pending[i] : i \in DOMAIN g})
      /\ \A i \in DOMAIN both : \E j \in DOMAIN g : both[i] = maps[j] \/ both[i] = pending[j]
  <2> HIDE DEF maps, pending
  <2> QED BY <1>7, <1>8
<1>10. both = GroupPairs(g, group)
  BY DEF GroupPairs
<1> HIDE DEF both
<1>11. IsSequence(both)
  BY <1>9 DEF IsSequence, ToSet
<1>12. \A i \in DOMAIN both : Good(both[i])
  <2> HIDE DEF Good, maps, pending
  <2> QED BY <1>6, <1>9
<1> QED BY <1>10, <1>11, <1>12

LEMMA RowAdded ==
    ASSUME NEW rows, NEW pair, Consistent(rows), pair.found => IsRow(pair.row)
    PROVE  /\ Consistent(AddRow(rows, pair)) /\ Begins(AddRow(rows, pair), rows)
           /\ \A i \in DOMAIN AddRow(rows, pair) \ DOMAIN rows :
                 pair.found /\ AddRow(rows, pair)[i] = pair.row
           /\ pair.found /\ (rows # <<>> => Len(pair.row.add) = Len(rows[1].add))
                 => HasRow(AddRow(rows, pair), pair.row.key)
<1>0. IsSequence(rows) /\ Len(rows) \in Nat /\ DOMAIN rows = 1..Len(rows)
  BY Indices DEF Consistent
<1>1. CASE pair.found /\ IsNewRow(rows, pair.row)
  <2> DEFINE more == Append(rows, pair.row)
  <2>1. AddRow(rows, pair) = more
    BY <1>1 DEF AddRow
  <2>2. rows \in Seq(ToSet(rows) \cup {pair.row})
    BY <1>0 DEF IsSequence, ToSet
  <2>3. /\ more \in Seq(ToSet(rows) \cup {pair.row}) /\ Len(more) = Len(rows) + 1
        /\ \A i \in 1..Len(rows) : more[i] = rows[i]
        /\ more[Len(rows) + 1] = pair.row
    BY <2>2
  <2> HIDE DEF more
  <2>4. DOMAIN more = 1..Len(rows) + 1 /\ DOMAIN more = DOMAIN rows \cup {Len(rows) + 1}
    BY <1>0, <2>3
  <2>5. IsSequence(more)
    BY <2>3 DEF IsSequence, ToSet
  <2>6. Begins(more, rows)
    BY <1>0, <2>3, <2>4 DEF Begins
  <2>7. \A i, j \in DOMAIN more : more[i].key = more[j].key => i = j
    <3>1. \A i, j \in DOMAIN rows : rows[i].key = rows[j].key => i = j
      BY DEF Consistent
    <3>2. \A i \in DOMAIN rows : rows[i].key # pair.row.key
      BY <1>1 DEF IsNewRow
    <3> QED BY <1>0, <2>3, <2>4, <3>1, <3>2
  <2>8. \A i \in DOMAIN more : IsRow(more[i]) /\ Len(more[i].add) = Len(more[1].add)
    <3>1. \A i \in DOMAIN rows : IsRow(rows[i]) /\ Len(rows[i].add) = Len(rows[1].add)
      BY DEF Consistent
    <3>2. CASE rows = <<>>
      <4>1. Len(rows) = 0
        BY <3>2
      <4>2. \A i \in DOMAIN more : i = 1 /\ more[1] = pair.row
        BY <2>3, <2>4, <4>1
      <4> QED BY <1>1, <4>2
    <3>3. CASE rows # <<>>
      <4>1. 1 \in DOMAIN rows /\ more[1] = rows[1] /\ Len(pair.row.add) = Len(rows[1].add)
        BY <1>0, <1>1, <2>3, <3>3, Indices DEF IsNewRow
      <4> QED BY <1>0, <1>1, <2>3, <2>4, <3>1, <4>1
    <3> QED BY <3>2, <3>3
  <2>9. HasRow(more, pair.row.key)
    BY <2>3, <2>4 DEF HasRow
  <2>10. \A i \in DOMAIN more \ DOMAIN rows : more[i] = pair.row
    BY <2>3, <2>4
  <2> QED BY <1>1, <2>1, <2>5, <2>6, <2>7, <2>8, <2>9, <2>10 DEF Consistent
<1>2. CASE ~(pair.found /\ IsNewRow(rows, pair.row))
  <2>1. AddRow(rows, pair) = rows
    BY <1>2 DEF AddRow
  <2>2. pair.found /\ (rows # <<>> => Len(pair.row.add) = Len(rows[1].add))
            => HasRow(rows, pair.row.key)
    BY <1>2 DEF IsNewRow, HasRow
  <2> QED BY <2>1, <2>2 DEF Begins
<1> QED BY <1>1, <1>2

(***************************************************************************)
(* What the fold over the pairs of a group keeps, and what has been done   *)
(* after the first k of them.                                              *)
(***************************************************************************)
LEMMA BeginsTransitive ==
    ASSUME NEW a, NEW b, NEW c, Begins(b, a), Begins(c, b)
    PROVE  Begins(c, a)
  BY DEF Begins

Collected(rows, known, pairs, k) ==
    /\ Consistent(rows) /\ Begins(rows, known)
    /\ rows = <<>> => \A j \in 1..k : ~pairs[j].found
    /\ \A j \in 1..k : pairs[j].found /\ Len(pairs[j].row.add) = Len(rows[1].add)
                           => HasRow(rows, pairs[j].row.key)
    /\ \A i \in DOMAIN rows \ DOMAIN known :
          \E j \in 1..k : pairs[j].found /\ pairs[j].row = rows[i]

LEMMA OneMore ==
    ASSUME NEW rows, NEW known, NEW pairs, NEW k \in Nat, Collected(rows, known, pairs, k),
           pairs[k + 1].found => IsRow(pairs[k + 1].row)
    PROVE  Collected(AddRow(rows, pairs[k + 1]), known, pairs, k + 1)
<1> DEFINE pair == pairs[k + 1]
           more == AddRow(rows, pair)
<1>0. Consistent(rows) /\ Begins(rows, known)
  BY DEF Collected
<1>1. /\ Consistent(more) /\ Begins(more, rows)
      /\ \A i \in DOMAIN more \ DOMAIN rows : pair.found /\ more[i] = pair.row
      /\ pair.found /\ (rows # <<>> => Len(pair.row.add) = Len(rows[1].add))
            => HasRow(more, pair.row.key)
  BY <1>0, RowAdded
<1> HIDE DEF more, pair
<1>2. 1..k + 1 = 1..k \cup {k + 1} /\ k + 1 \in 1..k + 1
  OBVIOUS
<1>3. Begins(more, known)
  BY <1>0, <1>1, BeginsTransitive
<1>4. \A key : HasRow(rows, key) => HasRow(more, key)
  BY <1>1 DEF Begins, HasRow
<1>5. rows # <<>> => more # <<>> /\ more[1] = rows[1]
  <2> SUFFICES ASSUME rows # <<>> PROVE more # <<>> /\ more[1] = rows[1]
    OBVIOUS
  <2>1. 1 \in DOMAIN rows
    BY <1>0, Indices DEF Consistent
  <2>2. 1 \in DOMAIN more /\ more[1] = rows[1]
    BY <1>1, <2>1 DEF Begins
  <2>3. DOMAIN <<>> = {}
    OBVIOUS
  <2> QED BY <2>2, <2>3
<1>6. more = <<>> => \A j \in 1..k + 1 : ~pairs[j].found
  <2> SUFFICES ASSUME more = <<>>, NEW j \in 1..k + 1, pairs[j].found PROVE FALSE
    OBVIOUS
  <2>1. rows = <<>>
    BY <1>5
  <2>2. ~pair.found
    <3>1. DOMAIN more = {}
      OBVIOUS
    <3> QED BY <1>1, <2>1, <3>1 DEF HasRow
  <2> QED BY <1>2, <2>1, <2>2 DEF Collected, pair
<1>7. ASSUME NEW j \in 1..k + 1, pairs[j].found, Len(pairs[j].row.add) = Len(more[1].add)
      PROVE  HasRow(more, pairs[j].row.key)
  <2>1. CASE j = k + 1
    BY <1>1, <1>5, <1>7, <2>1 DEF pair
  <2>2. CASE j # k + 1
    <3>1. j \in 1..k /\ rows # <<>>
      BY <1>2, <1>7, <2>2 DEF Collected
    <3> QED BY <1>4, <1>5, <1>7, <3>1 DEF Collected
  <2> QED BY <2>1, <2>2
<1>8. ASSUME NEW i \in DOMAIN more \ DOMAIN known
      PROVE  \E j \in 1..k + 1 : pairs[j].found /\ pairs[j].row = more[i]
  <2>1. CASE i \in DOMAIN rows
    <3>1. more[i] = rows[i]
      BY <1>1, <2>1 DEF Begins
    <3>2. \E j \in 1..k : pairs[j].found /\ pairs[j].row = rows[i]
      BY <1>8, <2>1 DEF Collected
    <3> QED BY <1>2, <3>1, <3>2
  <2>2. CASE i \notin DOMAIN rows
    BY <1>1, <1>2, <2>2 DEF pair
  <2> QED BY <2>1, <2>2
<1> QED BY <1>1, <1>3, <1>6, <1>7, <1>8 DEF Collected, more, pair

(***************************************************************************)
(* The rows of a group that a fusion finds, whatever the graph and the     *)
(* cache: they begin with those that are known, so that an index keeps its *)
(* meaning ("existing table_index values remain stable"); no two have the  *)
(* same key; both tables have as many values as they have rows of the      *)
(* width, so that BuildGroupTables never finds its cache inconsistent; a   *)
(* row that is new is that of a pair of the group; and every pair whose    *)
(* width is that of the rows has one.                                      *)
(***************************************************************************)
THEOREM RowsOfGroup ==
    ASSUME NEW g, NEW known, NEW group, IsSequence(g), Consistent(known)
    PROVE  Collected(GroupRows(g, known, group), known, GroupPairs(g, group),
                     Len(GroupPairs(g, group)))
<1> DEFINE pairs == GroupPairs(g, group)
           n == Len(pairs)
           Values == ToSet(known) \cup {pairs[j].row : j \in 1..n}
           X == {rows \in Seq(Values) : Consistent(rows)}
           F == [x \in X \X (1..n) |-> AddRow(x[1], pairs[x[2]])]
           iter == CHOOSE iter : iter = [s \in SUBSET (DOMAIN pairs) |->
                      IF s = {} THEN known
                      ELSE AddRow(iter[s \ {Max(s)}], pairs[Max(s)])]
<1>1. /\ IsSequence(pairs) /\ n \in Nat /\ DOMAIN pairs = 1..n
      /\ \A j \in 1..n : pairs[j].found => IsRow(pairs[j].row)
  BY PairsOfGroup, Indices
<1>2. GroupRows(g, known, group) = iter[DOMAIN pairs]
  BY DEF GroupRows, FoldLeft, MapThenFoldSet
<1> HIDE DEF pairs, n
<1>3. known \in X
  <2>1. known \in Seq(ToSet(known))
    BY DEF Consistent, IsSequence
  <2>2. known \in Seq(Values)
    BY <2>1, SeqMonotonic
  <2> QED BY <2>2
<1>4. F \in [X \X (1..n) -> X]
  <2> SUFFICES ASSUME NEW rows \in X, NEW j \in 1..n
               PROVE  AddRow(rows, pairs[j]) \in X
    OBVIOUS
  <2>1. Consistent(AddRow(rows, pairs[j]))
    BY <1>1, RowAdded
  <2>2. AddRow(rows, pairs[j]) \in Seq(Values)
    BY DEF AddRow
  <2> QED BY <2>1, <2>2
<1>5. PICK f \in [SUBSET (1..n) -> X] : IsIteration(f, n, known, F)
  BY <1>1, <1>3, <1>4, IterationExists
<1>6. f = [s \in SUBSET (DOMAIN pairs) |->
             IF s = {} THEN known ELSE AddRow(f[s \ {Max(s)}], pairs[Max(s)])]
  <2>1. ASSUME NEW s \in SUBSET (1..n), s # {}
        PROVE  f[s] = AddRow(f[s \ {Max(s)}], pairs[Max(s)])
    <3>1. Max(s) \in 1..n
      BY <1>1, <2>1, MaxOf
    <3>2. f[s \ {Max(s)}] \in X
      OBVIOUS
    <3>3. f[s] = F[<<f[s \ {Max(s)}], Max(s)>>]
      BY <1>5, <2>1 DEF IsIteration
    <3> HIDE DEF X
    <3> QED BY <3>1, <3>2, <3>3
  <2>2. ASSUME NEW s \in SUBSET (1..n), s = {}
        PROVE  f[s] = known
    BY <1>5, <2>2 DEF IsIteration
  <2> HIDE DEF X, F
  <2> QED BY <1>1, <1>5, <2>1, <2>2
<1> HIDE DEF F, X
<1>7. iter = [s \in SUBSET (DOMAIN pairs) |->
                IF s = {} THEN known ELSE AddRow(iter[s \ {Max(s)}], pairs[Max(s)])]
  BY <1>6
<1> HIDE DEF iter
<1> DEFINE P == {k \in 0..n : Collected(iter[1..k], known, pairs, k)}
<1>8. 0 \in P
  <2>1. iter[{}] = known /\ 1..0 = {}
    BY <1>7
  <2>2. Begins(known, known)
    BY DEF Begins
  <2>3. Collected(known, known, pairs, 0)
    BY <2>1, <2>2 DEF Collected
  <2> QED BY <1>1, <2>1, <2>3
<1>9. ASSUME NEW k \in 0..n, k \in P, k < n
      PROVE  k + 1 \in P
  <2>1. k + 1 \in 1..n /\ k \in Nat /\ k + 1 - 1 = k
    BY <1>1, <1>9
  <2>2. Max(1..k + 1) = k + 1 /\ (1..k + 1) \ {k + 1} = 1..k
    BY <2>1, MaxUpTo
  <2>3. 1..k + 1 \in SUBSET (DOMAIN pairs) /\ 1..k + 1 # {}
    <3>1. k + 1 \in 1..k + 1 /\ \A j \in 1..k + 1 : j \in 1..n
      BY <1>1, <2>1
    <3> QED BY <1>1, <3>1
  <2>4. iter[1..k + 1] = AddRow(iter[1..k], pairs[k + 1])
    BY <1>7, <2>2, <2>3
  <2>5. Collected(iter[1..k + 1], known, pairs, k + 1)
    BY <1>1, <1>9, <2>1, <2>4, OneMore
  <2> QED BY <1>1, <2>1, <2>5
<1>10. n \in P
  <2> HIDE DEF P
  <2> QED BY <1>1, <1>8, <1>9, UpTo
<1>11. Collected(iter[1..n], known, pairs, n)
  BY <1>10
<1> QED BY <1>1, <1>2, <1>11 DEF pairs, n
-----------------------------------------------------------------------------
(***************************************************************************)
(* The cache.  That a graph is a sequence is what the message of protobuf  *)
(* is; the definitions of the patterns are of no use otherwise.            *)
(***************************************************************************)
GraphsAreSequences == \A o \in Optimizers : IsSequence(graph[o])

\* Whatever is in the cache is consistent.
CacheConsistent ==
    /\ cache = [graph |-> cache.graph, rows |-> cache.rows]
    /\ \A group \in DOMAIN cache.rows : Consistent(cache.rows[group])

(***************************************************************************)
(* The rows of a group, from one step to the next: if the cache is still   *)
(* for the same graph, and that graph has the tables, they are kept, at    *)
(* their indices.                                                          *)
(***************************************************************************)
HasTables(g, group) == {AddTable(group), BiasTable(group)} \subseteq Names(g)

RowsKept ==
    \A group \in DOMAIN cache.rows :
        /\ cache'.graph = cache.graph
        /\ \A o \in Optimizers : address[o] = cache.graph => HasTables(graph[o], group)
        => group \in DOMAIN cache'.rows /\ Begins(cache'.rows[group], cache.rows[group])

LEMMA CascadeRows ==
    ASSUME NEW g, NEW m, NEW cached
    PROVE  ApplyPlnCascade(g, m, cached).rows =
              GroupRows(g, IF HasTables(g, m.group) THEN cached ELSE <<>>, m.group)
<1>1. \A a, group, known, rows : WriteTables(a, group, known, rows).rows = rows
  BY DEF WriteTables
<1>2. BuildGroupTables(g, cached, m.group).rows =
         GroupRows(g, IF HasTables(g, m.group) THEN cached ELSE <<>>, m.group)
  BY <1>1 DEF BuildGroupTables, HasTables
<1>3. \A built, add, bias : WithTables(built, m, add, bias).rows = built.rows
  BY DEF WithTables, Replaced
<1> QED BY <1>2, <1>3 DEF ApplyPlnCascade

LEMMA NoRows == Consistent(<<>>)
<1>1. <<>> \in Seq(ToSet(<<>>)) /\ DOMAIN <<>> = {}
  OBVIOUS
<1> QED BY <1>1 DEF Consistent, IsSequence

LEMMA KnownConsistent ==
    ASSUME CacheConsistent, NEW addr
    PROVE  \A group : Consistent(KnownRows(Known(cache, addr), group))
<1>1. \A group \in DOMAIN Known(cache, addr) : Consistent(Known(cache, addr)[group])
  BY DEF CacheConsistent, Known
<1> QED BY <1>1, NoRows DEF KnownRows

\* What a cascade leaves in the cache, for its group and for the others.
LEMMA CascadeCache ==
    ASSUME NEW r, NEW group, NEW addr
    PROVE  LET c == AfterCascade(r, group, cache, addr).cache
           IN  /\ c = [graph |-> addr, rows |-> c.rows]
               /\ DOMAIN c.rows = DOMAIN Known(cache, addr) \cup {group}
               /\ c.rows[group] = r.rows
               /\ \A h \in DOMAIN Known(cache, addr) \ {group} : c.rows[h] = Known(cache, addr)[h]
<1> DEFINE rows == WithRows(Known(cache, addr), group, r.rows)
           c == AfterCascade(r, group, cache, addr).cache
<1>1. c = [graph |-> addr, rows |-> rows]
  BY DEF AfterCascade, AfterRewrite
<1> HIDE DEF c, rows
<1>2. c.rows = rows
  BY <1>1
<1>3. /\ DOMAIN rows = DOMAIN Known(cache, addr) \cup {group}
      /\ rows[group] = r.rows
      /\ \A h \in DOMAIN Known(cache, addr) \ {group} : rows[h] = Known(cache, addr)[h]
  BY DEF rows, WithRows
<1> QED BY <1>1, <1>2, <1>3 DEF c

(***************************************************************************)
(* What a step does to the cache: nothing, or what the cascade does with   *)
(* the graph of a session.                                                 *)
(***************************************************************************)
FusesCascade(o, m) ==
    cache' = AfterCascade(ApplyPlnCascade(graph[o], m,
                                          KnownRows(Known(cache, address[o]), m.group)),
                          m.group, cache, address[o]).cache

LEMMA CascadeFused ==
    ASSUME NEW o, NEW m, FusesCascade(o, m)
    PROVE  LET known   == Known(cache, address[o])
               cascade == ApplyPlnCascade(graph[o], m, KnownRows(known, m.group))
           IN  /\ cache' = [graph |-> address[o], rows |-> cache'.rows]
               /\ cache'.graph = address[o]
               /\ DOMAIN cache'.rows = DOMAIN known \cup {m.group}
               /\ cache'.rows[m.group] = cascade.rows
               /\ \A h \in DOMAIN known \ {m.group} : cache'.rows[h] = known[h]
<1> DEFINE cascade == ApplyPlnCascade(graph[o], m, KnownRows(Known(cache, address[o]), m.group))
<1>1. cache' = AfterCascade(cascade, m.group, cache, address[o]).cache
  BY DEF FusesCascade
<1> HIDE DEF cascade
<1>2. /\ cache' = [graph |-> address[o], rows |-> cache'.rows]
      /\ DOMAIN cache'.rows = DOMAIN Known(cache, address[o]) \cup {m.group}
      /\ cache'.rows[m.group] = cascade.rows
      /\ \A h \in DOMAIN Known(cache, address[o]) \ {m.group} :
            cache'.rows[h] = Known(cache, address[o])[h]
  BY <1>1, CascadeCache
<1>3. cache'.graph = address[o]
  BY <1>2
<1> QED BY <1>2, <1>3 DEF cascade

LEMMA CacheSteps ==
    ASSUME [Next]_vars
    PROVE  cache' = cache \/ \E o \in Optimizers : \E m : FusesCascade(o, m)
<1>1. ASSUME NEW o \in Optimizers, Scan(o)
      PROVE  cache' = cache \/ \E m : FusesCascade(o, m)
  <2> DEFINE nodes == Nodes(o)
             a == First(o, nodes)
  <2>1. Sweep(o, nodes, a)
    BY <1>1 DEF Scan
  <2> HIDE DEF nodes, a
  <2>2. CASE a > Attempts(o, nodes)
    BY <2>1, <2>2 DEF Sweep, EndScan
  <2>3. CASE ~(a > Attempts(o, nodes))
    <3> DEFINE p == Pattern(o, a)
               i == Position(o, nodes, a)
               m == Match(p, graph[o], graph[o][i])
    <3>1. ApplyFusion(o, a, nodes, p, i)
      BY <2>1, <2>3 DEF Sweep
    <3> HIDE DEF p, i
    <3>2. cache' = Apply(p, graph[o], m, cache, address[o]).cache
      BY <3>1 DEF ApplyFusion
    <3> HIDE DEF m
    <3>3. CASE p = "PlnCascade"
      BY <3>2, <3>3 DEF Apply, FusesCascade
    <3>4. CASE p # "PlnCascade"
      BY <3>2, <3>4 DEF Apply, AfterRewrite
    <3> QED BY <3>3, <3>4
  <2> QED BY <2>2, <2>3
<1>2. ASSUME NEW o \in Optimizers,
             Optimize(o) \/ MixPrecision(o) \/ Prune(o) \/ OptimizeAgain(o)
      PROVE  cache' = cache
  BY <1>2 DEF Optimize, MixPrecision, Prune, OptimizeAgain
<1>3. CASE UNCHANGED vars
  BY <1>3 DEF vars
<1> QED BY <1>1, <1>2, <1>3 DEF Next

LEMMA CacheStaysConsistent ==
    ASSUME CacheConsistent, GraphsAreSequences, [Next]_vars
    PROVE  CacheConsistent'
<1>1. CASE cache' = cache
  BY <1>1 DEF CacheConsistent
<1>2. ASSUME NEW o \in Optimizers, NEW m, FusesCascade(o, m)
      PROVE  CacheConsistent'
  <2> DEFINE known == KnownRows(Known(cache, address[o]), m.group)
             cascade == ApplyPlnCascade(graph[o], m, known)
             kept == IF HasTables(graph[o], m.group) THEN known ELSE <<>>
  <2>1. Consistent(kept)
    BY KnownConsistent, NoRows
  <2>2. IsSequence(graph[o])
    BY DEF GraphsAreSequences
  <2>3. cascade.rows = GroupRows(graph[o], kept, m.group)
    BY CascadeRows
  <2> HIDE DEF kept
  <2>4. Consistent(cascade.rows)
    BY <2>1, <2>2, <2>3, RowsOfGroup DEF Collected
  <2>5. /\ cache' = [graph |-> address[o], rows |-> cache'.rows]
        /\ DOMAIN cache'.rows = DOMAIN Known(cache, address[o]) \cup {m.group}
        /\ cache'.rows[m.group] = cascade.rows
        /\ \A h \in DOMAIN Known(cache, address[o]) \ {m.group} :
              cache'.rows[h] = Known(cache, address[o])[h]
    BY <1>2, CascadeFused
  <2> HIDE DEF cascade
  <2>6. \A h \in DOMAIN Known(cache, address[o]) : Consistent(Known(cache, address[o])[h])
    BY DEF CacheConsistent, Known
  <2>7. \A h \in DOMAIN cache'.rows : Consistent(cache'.rows[h])
    BY <2>4, <2>5, <2>6
  <2>8. cache' = [graph |-> cache'.graph, rows |-> cache'.rows]
    BY <2>5
  <2> QED BY <2>7, <2>8 DEF CacheConsistent
<1> QED BY <1>1, <1>2, CacheSteps

LEMMA RowsKeptByStep ==
    ASSUME CacheConsistent, GraphsAreSequences, [Next]_vars
    PROVE  RowsKept
<1> SUFFICES ASSUME NEW group \in DOMAIN cache.rows, cache'.graph = cache.graph,
                    \A o \in Optimizers : address[o] = cache.graph => HasTables(graph[o], group)
             PROVE  group \in DOMAIN cache'.rows /\ Begins(cache'.rows[group], cache.rows[group])
  BY DEF RowsKept
<1>1. CASE cache' = cache
  BY <1>1 DEF Begins
<1>2. ASSUME NEW o \in Optimizers, NEW m, FusesCascade(o, m)
      PROVE  group \in DOMAIN cache'.rows /\ Begins(cache'.rows[group], cache.rows[group])
  <2> DEFINE known == KnownRows(Known(cache, address[o]), m.group)
             cascade == ApplyPlnCascade(graph[o], m, known)
  <2>1. /\ cache'.graph = address[o]
        /\ DOMAIN cache'.rows = DOMAIN Known(cache, address[o]) \cup {m.group}
        /\ cache'.rows[m.group] = cascade.rows
        /\ \A h \in DOMAIN Known(cache, address[o]) \ {m.group} :
              cache'.rows[h] = Known(cache, address[o])[h]
    BY <1>2, CascadeFused
  <2>2. Known(cache, address[o]) = cache.rows /\ HasTables(graph[o], group)
    BY <2>1 DEF Known
  <2>3. CASE group = m.group
    <3>1. known = cache.rows[group] /\ Consistent(known)
      BY <2>2, <2>3 DEF KnownRows, CacheConsistent
    <3>2. cascade.rows = GroupRows(graph[o], known, group)
      BY <2>2, <2>3, CascadeRows
    <3> HIDE DEF known
    <3>3. IsSequence(graph[o])
      BY DEF GraphsAreSequences
    <3>4. Begins(cascade.rows, known)
      BY <3>1, <3>2, <3>3, RowsOfGroup DEF Collected
    <3> QED BY <2>1, <2>3, <3>1, <3>4
  <2>4. CASE group # m.group
    <3>1. cache'.rows[group] = cache.rows[group] /\ group \in DOMAIN cache'.rows
      BY <2>1, <2>2, <2>4
    <3> QED BY <3>1 DEF Begins
  <2> QED BY <2>3, <2>4
<1> QED BY <1>1, <1>2, CacheSteps

(***************************************************************************)
(* What the cache has for any group is always consistent, for any number   *)
(* of sessions that share it: the branch of BuildGroupTables that warns of *)
(* an inconsistent cached table is never taken.                            *)
(***************************************************************************)
THEOREM TablesConsistent == Spec /\ []GraphsAreSequences => []CacheConsistent
<1>1. Init => CacheConsistent
  <2> SUFFICES ASSUME Init PROVE CacheConsistent
    OBVIOUS
  <2>1. cache = [graph |-> "nullptr", rows |-> <<>>]
    BY DEF Init
  <2>2. DOMAIN <<>> = {}
    OBVIOUS
  <2> QED BY <2>1, <2>2 DEF CacheConsistent
<1>2. CacheConsistent /\ GraphsAreSequences /\ [Next]_vars => CacheConsistent'
  BY CacheStaysConsistent
<1> QED BY <1>1, <1>2, PTL DEF Spec

(***************************************************************************)
(* The rows that a graph has been given are kept at their indices, as the  *)
(* comment on the rewriting of the tables says, whatever the sessions do.  *)
(***************************************************************************)
THEOREM RowsAreKept == Spec /\ []GraphsAreSequences => [][RowsKept]_vars
<1>1. CacheConsistent /\ GraphsAreSequences /\ [Next]_vars => RowsKept
  BY RowsKeptByStep
<1> QED BY <1>1, TablesConsistent, PTL DEF Spec
-----------------------------------------------------------------------------
(***************************************************************************)
(* The loops of OptimizeFusion.                                            *)
(***************************************************************************)
Groups == 1..Len(PriorityGroups)

ScanStates ==
    [group : {0} \cup Groups, reverse : BOOLEAN, attempt : Nat, nodes : Nat, modified : BOOLEAN,
     graph_modified : BOOLEAN, priority_iteration : 1..kMaxIterations,
     iteration : 1..kMaxIterations, fusion_applied_count : Nat]

\* Outside of the sweep that goes on there is nothing to go over, and no group is left at the end.
ScanInBounds ==
    /\ scan \in [Optimizers -> ScanStates]
    /\ phase \in [Optimizers -> {"start", "amp", "fusion", "prune", "done"}]
    /\ \A o \in Optimizers :
          phase[o] = "fusion" => /\ scan[o].group \in Groups
                                 /\ scan[o].attempt <= Attempts(o, scan[o].nodes)

(***************************************************************************)
(* A later place in the loops, from the outermost to the innermost: the    *)
(* iterations over all groups, the groups, the iterations over one, the    *)
(* directions, and the attempts of a sweep.                                *)
(***************************************************************************)
Later(t, s) ==
    \/ t.iteration > s.iteration
    \/ /\ t.iteration = s.iteration
       /\ \/ t.group > s.group
          \/ /\ t.group = s.group
             /\ \/ t.priority_iteration > s.priority_iteration
                \/ /\ t.priority_iteration = s.priority_iteration
                   /\ \/ t.reverse /\ ~s.reverse
                      \/ /\ t.reverse = s.reverse
                         /\ t.attempt > s.attempt
                         /\ s.attempt # 0 => t.nodes = s.nodes

Advances(o) ==
    \/ scan'[o].fusion_applied_count = scan[o].fusion_applied_count + 1
    \/ /\ scan'[o].fusion_applied_count = scan[o].fusion_applied_count
       /\ phase'[o] = "prune" \/ Later(scan'[o], scan[o])

ScanAdvances == \A o \in Optimizers : Scan(o) => Advances(o)

LEMMA GroupSizes ==
    /\ Len(PriorityGroups) = 12
    /\ \A k \in Groups : Len(PriorityGroups[k]) \in Nat
<1>1. Len(PriorityGroups) = 12
  BY DEF PriorityGroups
<1>2. ASSUME NEW k \in 1..12 PROVE Len(PriorityGroups[k]) \in Nat
  BY DEF PriorityGroups
<1> QED BY <1>1, <1>2 DEF Groups

LEMMA AttemptsNat ==
    ASSUME NEW o, scan[o].group \in Groups, NEW nodes \in Nat
    PROVE  Attempts(o, nodes) \in Nat
<1>1. Len(Patterns(o)) \in Nat
  BY GroupSizes DEF Patterns
<1> QED BY <1>1 DEF Attempts

LEMMA FirstCounts ==
    ASSUME NEW o, scan[o].group \in Groups, NEW nodes \in Nat,
           scan[o].attempt \in Nat, scan[o].attempt <= Attempts(o, nodes)
    PROVE  /\ First(o, nodes) \in Nat /\ First(o, nodes) > scan[o].attempt
           /\ First(o, nodes) <= Attempts(o, nodes) + 1
<1>1. Attempts(o, nodes) \in Nat
  BY AttemptsNat
<1> DEFINE S == {Attempts(o, nodes) + 1} \cup
                {a \in scan[o].attempt + 1..Attempts(o, nodes) :
                    /\ Active(o, Pattern(o, a))
                    /\ Matches(graph[o], Pattern(o, a), Position(o, nodes, a))}
<1>2. S \in SUBSET (scan[o].attempt + 1..Attempts(o, nodes) + 1) /\ S # {}
  BY <1>1
<1>3. First(o, nodes) = Min(S)
  BY DEF First
<1> HIDE DEF S
<1>4. S \in SUBSET Nat
  BY <1>1, <1>2
<1>5. PICK x \in S : \A y \in S : x <= y
  BY <1>2, <1>4, Minimum
<1>6. Min(S) \in S
  BY <1>5 DEF Min
<1>7. First(o, nodes) \in scan[o].attempt + 1..Attempts(o, nodes) + 1
  BY <1>2, <1>3, <1>6
<1> QED BY <1>1, <1>7

LEMMA SweepCounts ==
    ASSUME ScanInBounds, GraphsAreSequences, NEW o \in Optimizers, phase[o] = "fusion"
    PROVE  /\ Nodes(o) \in Nat /\ Attempts(o, Nodes(o)) \in Nat
           /\ scan[o].attempt # 0 => Nodes(o) = scan[o].nodes
           /\ First(o, Nodes(o)) \in Nat /\ First(o, Nodes(o)) > scan[o].attempt
           /\ First(o, Nodes(o)) <= Attempts(o, Nodes(o)) + 1
<1>1. scan[o] \in ScanStates /\ scan[o].group \in Groups
      /\ scan[o].attempt <= Attempts(o, scan[o].nodes)
  BY DEF ScanInBounds
<1>2. scan[o].attempt \in Nat /\ scan[o].nodes \in Nat
  BY <1>1 DEF ScanStates
<1>3. Len(graph[o]) \in Nat
  BY Indices DEF GraphsAreSequences
<1>4. Nodes(o) \in Nat /\ (scan[o].attempt # 0 => Nodes(o) = scan[o].nodes)
  BY <1>2, <1>3 DEF Nodes
<1>5. Attempts(o, Nodes(o)) \in Nat
  BY <1>1, <1>4, AttemptsNat
<1>6. scan[o].attempt <= Attempts(o, Nodes(o))
  BY <1>1, <1>2, <1>4, <1>5
<1> QED BY <1>1, <1>2, <1>4, <1>5, <1>6, FirstCounts

LEMMA NextPlace ==
    ASSUME NEW s \in ScanStates, s.group \in Groups
    PROVE  LET t == AfterScan([s EXCEPT !.attempt = 0, !.nodes = 0])
           IN  /\ t \in ScanStates /\ t.attempt = 0 /\ t.nodes = 0
               /\ t.fusion_applied_count = s.fusion_applied_count
               /\ t.group = 0 \/ (t.group \in Groups /\ Later(t, s))
<1> DEFINE b == [s EXCEPT !.attempt = 0, !.nodes = 0]
<1>1. /\ b \in ScanStates /\ b.attempt = 0 /\ b.nodes = 0 /\ b.group = s.group
      /\ b.fusion_applied_count = s.fusion_applied_count /\ b.iteration = s.iteration
      /\ b.priority_iteration = s.priority_iteration /\ b.reverse = s.reverse
  BY DEF ScanStates
<1> HIDE DEF b
<1>2. /\ s.group \in 1..12 /\ s.iteration \in 1..kMaxIterations /\ s.reverse \in BOOLEAN
      /\ s.priority_iteration \in 1..kMaxIterations /\ kMaxIterations \in Nat \ {0}
      /\ Len(PriorityGroups) = 12 /\ Groups = 1..12
  BY GroupSizes, OptimizerAssumption DEF ScanStates, Groups
<1> DEFINE t == AfterScan(b)
<1>3. CASE ~b.reverse
  <2>1. t = [b EXCEPT !.reverse = TRUE]
    BY <1>3 DEF AfterScan
  <2> HIDE DEF t
  <2>2. /\ t \in ScanStates /\ t.attempt = 0 /\ t.nodes = 0 /\ t.group = b.group
        /\ t.fusion_applied_count = b.fusion_applied_count /\ t.iteration = b.iteration
        /\ t.priority_iteration = b.priority_iteration /\ t.reverse
    BY <1>1, <2>1 DEF ScanStates
  <2>3. Later(t, s)
    BY <1>1, <1>2, <1>3, <2>2 DEF Later
  <2> QED BY <1>1, <2>2, <2>3 DEF t, b
<1>4. CASE b.reverse /\ b.modified /\ b.priority_iteration < kMaxIterations
  <2>1. t = [b EXCEPT !.reverse = FALSE, !.modified = FALSE, !.priority_iteration = @ + 1]
    BY <1>4 DEF AfterScan
  <2> HIDE DEF t
  <2>2. /\ t \in ScanStates /\ t.attempt = 0 /\ t.nodes = 0 /\ t.group = b.group
        /\ t.fusion_applied_count = b.fusion_applied_count /\ t.iteration = b.iteration
        /\ t.priority_iteration = b.priority_iteration + 1
    <3>1. b.priority_iteration + 1 \in 1..kMaxIterations
      BY <1>1, <1>2, <1>4
    <3> QED BY <1>1, <2>1, <3>1 DEF ScanStates
  <2>3. Later(t, s)
    BY <1>1, <1>2, <2>2 DEF Later
  <2> QED BY <1>1, <2>2, <2>3 DEF t, b
<1>5. CASE b.reverse /\ ~(b.modified /\ b.priority_iteration < kMaxIterations)
           /\ b.group < Len(PriorityGroups)
  <2>1. t = [b EXCEPT !.reverse = FALSE, !.modified = FALSE, !.priority_iteration = 1,
                      !.group = @ + 1]
    BY <1>5 DEF AfterScan
  <2> HIDE DEF t
  <2>2. /\ t \in ScanStates /\ t.attempt = 0 /\ t.nodes = 0 /\ t.group = b.group + 1
        /\ t.fusion_applied_count = b.fusion_applied_count /\ t.iteration = b.iteration
        /\ t.group \in Groups
    <3>1. b.group + 1 \in Groups /\ 1 \in 1..kMaxIterations
      BY <1>1, <1>2, <1>5
    <3> QED BY <1>1, <2>1, <3>1 DEF ScanStates
  <2>3. Later(t, s)
    BY <1>1, <1>2, <2>2 DEF Later
  <2> QED BY <1>1, <2>2, <2>3 DEF t, b
<1>6. CASE b.reverse /\ ~(b.modified /\ b.priority_iteration < kMaxIterations)
           /\ ~(b.group < Len(PriorityGroups)) /\ b.graph_modified /\ b.iteration < kMaxIterations
  <2>1. t = [FirstScan EXCEPT !.iteration = b.iteration + 1,
                              !.fusion_applied_count = b.fusion_applied_count]
    BY <1>6 DEF AfterScan
  <2> HIDE DEF t
  <2>2. /\ t \in ScanStates /\ t.attempt = 0 /\ t.nodes = 0 /\ t.group = 1
        /\ t.fusion_applied_count = b.fusion_applied_count /\ t.iteration = b.iteration + 1
    <3>1. /\ b.iteration + 1 \in 1..kMaxIterations /\ 1 \in 1..kMaxIterations
          /\ 1 \in {0} \cup Groups /\ b.fusion_applied_count \in Nat
      BY <1>1, <1>2, <1>6 DEF ScanStates
    <3> QED BY <2>1, <3>1 DEF ScanStates, FirstScan
  <2>3. Later(t, s)
    BY <1>1, <1>2, <2>2 DEF Later
  <2> QED BY <1>1, <1>2, <2>2, <2>3 DEF t, b
<1>7. CASE b.reverse /\ ~(b.modified /\ b.priority_iteration < kMaxIterations)
           /\ ~(b.group < Len(PriorityGroups)) /\ ~(b.graph_modified /\ b.iteration < kMaxIterations)
  <2>1. t = [b EXCEPT !.group = 0]
    BY <1>7 DEF AfterScan
  <2> HIDE DEF t
  <2>2. /\ t \in ScanStates /\ t.attempt = 0 /\ t.nodes = 0 /\ t.group = 0
        /\ t.fusion_applied_count = b.fusion_applied_count
    BY <1>1, <2>1 DEF ScanStates
  <2> QED BY <1>1, <2>2 DEF t, b
<1> QED BY <1>3, <1>4, <1>5, <1>6, <1>7

\* Where a step leaves the loops, if no attempt has been made there.
Fresh(s) == s \in ScanStates /\ s.attempt = 0 /\ s.nodes = 0

LEMMA FreshInBounds ==
    ASSUME NEW o, Fresh(scan[o]), scan[o].group \in Groups
    PROVE  scan[o].attempt <= Attempts(o, scan[o].nodes)
<1>1. Len(Patterns(o)) \in Nat
  BY GroupSizes DEF Patterns
<1> QED BY <1>1 DEF Fresh, Attempts

LEMMA FirstScanFresh == Fresh(FirstScan) /\ FirstScan.group \in Groups
<1>1. 1 \in 1..kMaxIterations /\ 1 \in Groups
  BY OptimizerAssumption, GroupSizes DEF Groups
<1> QED BY <1>1 DEF Fresh, FirstScan, ScanStates

\* A sweep in which no pattern is left to try.
LEMMA EndOfScan ==
    ASSUME ScanInBounds, NEW o \in Optimizers, phase[o] = "fusion", EndScan(o)
    PROVE  ScanInBounds' /\ Advances(o)
<1> DEFINE t == AfterScan([scan[o] EXCEPT !.attempt = 0, !.nodes = 0])
<1>1. scan[o] \in ScanStates /\ scan[o].group \in Groups
  BY DEF ScanInBounds
<1>2. /\ t \in ScanStates /\ t.attempt = 0 /\ t.nodes = 0
      /\ t.fusion_applied_count = scan[o].fusion_applied_count
      /\ t.group = 0 \/ (t.group \in Groups /\ Later(t, scan[o]))
  BY <1>1, NextPlace
<1>3. /\ scan' = [scan EXCEPT ![o] = t]
      /\ phase' = [phase EXCEPT ![o] = IF t.group = 0 THEN "prune" ELSE @]
  BY DEF EndScan
<1> HIDE DEF t
<1>4. scan'[o] = t /\ phase'[o] = IF t.group = 0 THEN "prune" ELSE "fusion"
  BY <1>3 DEF ScanInBounds
<1>5. scan' \in [Optimizers -> ScanStates]
  BY <1>2, <1>3 DEF ScanInBounds
<1>6. phase' \in [Optimizers -> {"start", "amp", "fusion", "prune", "done"}]
  BY <1>3 DEF ScanInBounds
<1>7. ASSUME NEW p \in Optimizers, phase'[p] = "fusion"
      PROVE  scan'[p].group \in Groups /\ scan'[p].attempt <= Attempts(p, scan[p].nodes)'
  <2>1. CASE p = o
    <3>1. Fresh(scan[o])' /\ scan'[o].group \in Groups
      BY <1>2, <1>4, <1>7, <2>1 DEF Fresh
    <3>2. Len(PriorityGroups[scan'[o].group]) \in Nat
      BY <3>1, GroupSizes
    <3> QED BY <2>1, <3>1, <3>2 DEF Fresh, Attempts, Patterns
  <2>2. CASE p # o
    <3>1. scan'[p] = scan[p] /\ phase'[p] = phase[p]
      BY <1>3, <2>2 DEF ScanInBounds
    <3> QED BY <1>7, <3>1 DEF ScanInBounds, Attempts, Patterns
  <2> QED BY <2>1, <2>2
<1>8. Advances(o)
  BY <1>2, <1>4 DEF Advances
<1> QED BY <1>5, <1>6, <1>7, <1>8 DEF ScanInBounds

\* A pattern that matches, whether it applies or not.
LEMMA OneAttempt ==
    ASSUME ScanInBounds, GraphsAreSequences, NEW o \in Optimizers, phase[o] = "fusion",
           NEW a \in Nat, a > scan[o].attempt, a <= Attempts(o, Nodes(o)), NEW p, NEW i,
           ApplyFusion(o, a, Nodes(o), p, i)
    PROVE  ScanInBounds' /\ Advances(o)
<1> DEFINE s == scan[o]
           n == Nodes(o)
<1>1. s \in ScanStates /\ s.group \in Groups
  BY DEF ScanInBounds
<1>2. n \in Nat /\ (s.attempt # 0 => n = s.nodes)
  BY SweepCounts
<1>3. PICK r : /\ scan' = [scan EXCEPT ![o] = IF r.applied THEN AfterFusion(@)
                                                          ELSE AfterFailure(@, a, n)]
               /\ phase' = phase
  BY DEF ApplyFusion
<1>4. /\ s.attempt \in Nat /\ s.nodes \in Nat /\ s.fusion_applied_count \in Nat
  BY <1>1 DEF ScanStates
<1>5. phase'[o] = "fusion"
  BY <1>3
<1> DEFINE t == scan'[o]
<1>6. CASE r.applied
  <2>1. t = AfterFusion(s)
    BY <1>3, <1>6 DEF ScanInBounds
  <2> HIDE DEF t, s
  <2>2. s.fusion_applied_count + 1 \in Nat
    BY <1>4
  <2>3. /\ t \in ScanStates /\ t.group \in Groups /\ t.attempt = 0 /\ t.nodes = 0
        /\ t.fusion_applied_count = s.fusion_applied_count + 1
    BY <1>1, <2>1, <2>2 DEF ScanStates, AfterFusion
  <2>4. Len(PriorityGroups[t.group]) \in Nat
    BY <2>3, GroupSizes
  <2>5. t.attempt <= Attempts(o, scan[o].nodes)'
    BY <2>3, <2>4 DEF Attempts, Patterns, t
  <2>6. Advances(o)
    BY <2>3 DEF Advances, t, s
  <2> USE DEF t, s
  <2>7. scan' \in [Optimizers -> ScanStates]
    BY <1>3, <2>3 DEF ScanInBounds
  <2>8. \A q \in Optimizers \ {o} : scan'[q] = scan[q] /\ phase'[q] = phase[q]
    BY <1>3 DEF ScanInBounds
  <2> QED BY <1>3, <2>3, <2>5, <2>6, <2>7, <2>8 DEF ScanInBounds, Attempts, Patterns
<1>7. CASE ~r.applied
  <2>1. t = AfterFailure(s, a, n)
    BY <1>3, <1>7 DEF ScanInBounds
  <2> HIDE DEF t, s, n
  <2>3. /\ t \in ScanStates /\ t.group = s.group /\ t.attempt = a /\ t.nodes = n
        /\ t.fusion_applied_count = s.fusion_applied_count /\ t.iteration = s.iteration
        /\ t.priority_iteration = s.priority_iteration /\ t.reverse = s.reverse
    BY <1>1, <1>2, <2>1 DEF ScanStates, AfterFailure
  <2>5. t.attempt <= Attempts(o, scan[o].nodes)'
    BY <2>3 DEF Attempts, Patterns, t, s, n
  <2>6. Later(t, s)
    BY <1>2, <2>3 DEF Later, s
  <2>7. Advances(o)
    BY <2>3, <2>6 DEF Advances, t, s
  <2> USE DEF t, s
  <2>8. scan' \in [Optimizers -> ScanStates]
    BY <1>3, <2>3 DEF ScanInBounds
  <2>9. \A q \in Optimizers \ {o} : scan'[q] = scan[q] /\ phase'[q] = phase[q]
    BY <1>3 DEF ScanInBounds
  <2> QED BY <1>1, <1>3, <2>3, <2>5, <2>7, <2>8, <2>9 DEF ScanInBounds, Attempts, Patterns
<1> QED BY <1>6, <1>7

LEMMA ScanStep ==
    ASSUME ScanInBounds, GraphsAreSequences, NEW o \in Optimizers, Scan(o)
    PROVE  ScanInBounds' /\ Advances(o)
<1> DEFINE a == First(o, Nodes(o))
<1>1. phase[o] = "fusion" /\ Sweep(o, Nodes(o), a)
  BY DEF Scan
<1>2. /\ Attempts(o, Nodes(o)) \in Nat /\ a \in Nat
      /\ a > scan[o].attempt /\ a <= Attempts(o, Nodes(o)) + 1
  BY <1>1, SweepCounts
<1> HIDE DEF a
<1>3. CASE a > Attempts(o, Nodes(o))
  BY <1>1, <1>3, EndOfScan DEF Sweep
<1>4. CASE ~(a > Attempts(o, Nodes(o)))
  <2>1. a <= Attempts(o, Nodes(o))
    BY <1>2, <1>4
  <2>2. ApplyFusion(o, a, Nodes(o), Pattern(o, a), Position(o, Nodes(o), a))
    BY <1>1, <1>4 DEF Sweep
  <2> QED BY <1>1, <1>2, <2>1, <2>2, OneAttempt
<1> QED BY <1>3, <1>4

\* The other steps leave the loops alone, or go to their beginning.
LEMMA OtherSteps ==
    ASSUME ScanInBounds, NEW o \in Optimizers,
           Optimize(o) \/ MixPrecision(o) \/ Prune(o) \/ OptimizeAgain(o)
    PROVE  ScanInBounds'
<1>1. CASE MixPrecision(o)
  <2>1. /\ scan' = [scan EXCEPT ![o] = FirstScan]
        /\ phase' = [phase EXCEPT ![o] = IF config[o].fusion THEN "fusion" ELSE "prune"]
    BY <1>1 DEF MixPrecision
  <2>2. Fresh(FirstScan) /\ FirstScan.group \in Groups
    BY FirstScanFresh
  <2>3. scan' \in [Optimizers -> ScanStates]
    BY <2>1, <2>2 DEF ScanInBounds, Fresh
  <2>4. phase' \in [Optimizers -> {"start", "amp", "fusion", "prune", "done"}]
    BY <2>1 DEF ScanInBounds
  <2>5. ASSUME NEW p \in Optimizers, phase'[p] = "fusion"
        PROVE  scan'[p].group \in Groups /\ scan'[p].attempt <= Attempts(p, scan[p].nodes)'
    <3>1. CASE p = o
      <4>1. scan'[o] = FirstScan
        BY <2>1 DEF ScanInBounds
      <4>2. Len(PriorityGroups[FirstScan.group]) \in Nat
        BY <2>2, GroupSizes
      <4> QED BY <2>2, <3>1, <4>1, <4>2 DEF Fresh, Attempts, Patterns
    <3>2. CASE p # o
      <4>1. scan'[p] = scan[p] /\ phase'[p] = phase[p]
        BY <2>1, <3>2 DEF ScanInBounds
      <4> QED BY <2>5, <4>1 DEF ScanInBounds, Attempts, Patterns
    <3> QED BY <3>1, <3>2
  <2> QED BY <2>3, <2>4, <2>5 DEF ScanInBounds
<1>2. CASE Optimize(o) \/ Prune(o) \/ OptimizeAgain(o)
  <2>1. /\ scan' = scan
        /\ phase' \in [Optimizers -> {"start", "amp", "fusion", "prune", "done"}]
        /\ \A p \in Optimizers : phase'[p] = "fusion" => phase[p] = "fusion"
    BY <1>2 DEF Optimize, Prune, OptimizeAgain, ScanInBounds
  <2> QED BY <2>1 DEF ScanInBounds, Attempts, Patterns
<1> QED BY <1>1, <1>2

LEMMA ScanStaysInBounds ==
    ASSUME ScanInBounds, GraphsAreSequences, [Next]_vars
    PROVE  ScanInBounds'
<1>1. CASE UNCHANGED vars
  BY <1>1 DEF vars, ScanInBounds, Attempts, Patterns
<1> QED BY <1>1, ScanStep, OtherSteps DEF Next

(***************************************************************************)
(* The loops stay within their bounds, for any graph.                      *)
(***************************************************************************)
THEOREM LoopsInBounds == Spec /\ []GraphsAreSequences => []ScanInBounds
<1>1. Init => ScanInBounds
  BY FirstScanFresh DEF Init, ScanInBounds, Fresh
<1>2. ScanInBounds /\ GraphsAreSequences /\ [Next]_vars => ScanInBounds'
  BY ScanStaysInBounds
<1> QED BY <1>1, <1>2, PTL DEF Spec

(***************************************************************************)
(* The loop of run_scan has no bound: it says while (true), and starts     *)
(* anew when a pattern applies.  But every step of the loops is either an  *)
(* application of a pattern, or their end, or it comes to a place that is  *)
(* later in them, among those that LoopsInBounds bounds.  OptimizeFusion   *)
(* can only fail to end if the patterns never stop applying.               *)
(***************************************************************************)
THEOREM LoopsAdvance == Spec /\ []GraphsAreSequences => [][ScanAdvances]_vars
<1>1. ScanInBounds /\ GraphsAreSequences => ScanAdvances
  BY ScanStep DEF ScanAdvances
<1> QED BY <1>1, LoopsInBounds, PTL DEF Spec
-----------------------------------------------------------------------------
(***************************************************************************)
(* A node at an index is removed: the others stay, one of them moved.      *)
(***************************************************************************)
LEMMA NodeRemoved ==
    ASSUME NEW g, IsSequence(g), NEW i \in DOMAIN g
    PROVE  /\ RemoveNode(g, i) \in Seq(ToSet(g))
           /\ Len(RemoveNode(g, i)) = Len(g) - 1
           /\ \A j \in 1..Len(g) - 1 : RemoveNode(g, i)[j] = IF j = i THEN g[Len(g)] ELSE g[j]
<1>1. g \in Seq(ToSet(g)) /\ Len(g) \in Nat /\ DOMAIN g = 1..Len(g)
  BY Indices DEF IsSequence
<1> DEFINE n == Len(g)
           swapped == [g EXCEPT ![i] = Last(g)]
<1>2. i \in 1..n /\ n \in 1..n /\ g[n] \in ToSet(g)
  BY <1>1 DEF ToSet
<1>3. /\ swapped \in Seq(ToSet(g)) /\ Len(swapped) = n
      /\ \A j \in 1..n : swapped[j] = IF j = i THEN g[n] ELSE g[j]
  BY <1>1, <1>2 DEF Last
<1>4. RemoveNode(g, i) = SubSeq(swapped, 1, n - 1)
  BY <1>3 DEF RemoveNode, Front
<1> HIDE DEF swapped
<1>5. /\ SubSeq(swapped, 1, n - 1) \in Seq(ToSet(g)) /\ Len(SubSeq(swapped, 1, n - 1)) = n - 1
      /\ \A j \in 1..n - 1 : SubSeq(swapped, 1, n - 1)[j] = swapped[j]
  BY <1>2, <1>3
<1> QED BY <1>3, <1>4, <1>5

(***************************************************************************)
(* The nodes of h are among those of g, without the nodes that are gone.   *)
(***************************************************************************)
Reduced(h, g) ==
    /\ h \in Seq(ToSet(g))
    /\ \A i, j \in DOMAIN h : h[i].name = h[j].name => i = j

LEMMA ReducedGraph ==
    ASSUME NEW g, NEW h, IsGraph(g), Reduced(h, g)
    PROVE  IsGraph(h) /\ Names(h) \subseteq Names(g) /\ ToSet(h) \subseteq ToSet(g)
<1>1. \A i \in DOMAIN h : \E j \in DOMAIN g : h[i] = g[j]
  BY DEF Reduced, ToSet
<1>2. IsSequence(h)
  BY DEF Reduced, IsSequence, ToSet
<1> QED BY <1>1, <1>2 DEF IsGraph, Reduced, Names, ToSet

LEMMA OneRemoved ==
    ASSUME NEW g, IsGraph(g), NEW i \in DOMAIN g
    PROVE  /\ Reduced(RemoveNode(g, i), g)
           /\ ToSet(RemoveNode(g, i)) = ToSet(g) \ {g[i]}
           /\ Names(RemoveNode(g, i)) = Names(g) \ {g[i].name}
<1> DEFINE h == RemoveNode(g, i)
           n == Len(g)
           From(j) == IF j = i THEN n ELSE j
<1>1. n \in Nat /\ DOMAIN g = 1..n
  BY Indices DEF IsGraph
<1>2. /\ h \in Seq(ToSet(g)) /\ Len(h) = n - 1
      /\ \A j \in 1..n - 1 : h[j] = IF j = i THEN g[n] ELSE g[j]
  BY NodeRemoved DEF IsGraph
<1> HIDE DEF h, n
<1>3. DOMAIN h = 1..n - 1 /\ i \in 1..n
  BY <1>1, <1>2
<1>4. \A j \in DOMAIN h : From(j) \in DOMAIN g /\ From(j) # i /\ h[j] = g[From(j)]
  BY <1>1, <1>2, <1>3
<1>5. \A k \in DOMAIN g \ {i} : \E j \in DOMAIN h : From(j) = k
  <2> TAKE k \in DOMAIN g \ {i}
  <2>1. CASE k = n
    BY <1>1, <1>3, <2>1
  <2>2. CASE k # n
    BY <1>1, <1>3, <2>2
  <2> QED BY <2>1, <2>2
<1>6. \A j, k \in DOMAIN h : From(j) = From(k) => j = k
  BY <1>1, <1>3
<1> HIDE DEF From
<1>7. Reduced(h, g)
  BY <1>2, <1>4, <1>6 DEF Reduced, IsGraph
<1>8. \A j \in DOMAIN g : g[j] = g[i] => j = i
  BY DEF IsGraph
<1>9. ToSet(h) = ToSet(g) \ {g[i]}
  BY <1>4, <1>5, <1>8 DEF ToSet
<1>10. Names(h) = Names(g) \ {g[i].name}
  BY <1>4, <1>5 DEF Names, IsGraph
<1> QED BY <1>7, <1>9, <1>10 DEF h

(***************************************************************************)
(* What is left of a graph when candidates have been removed that nothing  *)
(* consumed: still a graph, with all the names that are no candidates.     *)
(***************************************************************************)
Pruned(h, g, candidates) ==
    /\ Reduced(h, g) /\ Closed(h)
    /\ Names(g) \ candidates \subseteq Names(h)

LEMMA PrunedItself ==
    ASSUME NEW g, IsGraph(g), Closed(g), NEW candidates
    PROVE  Pruned(g, g, candidates)
  BY DEF Pruned, Reduced, IsGraph, IsSequence

LEMMA PrunedTwice ==
    ASSUME NEW g, NEW h, NEW k, NEW candidates, IsGraph(g),
           Pruned(h, g, candidates), Pruned(k, h, candidates)
    PROVE  Pruned(k, g, candidates)
<1>1. ToSet(h) \subseteq ToSet(g)
  BY ReducedGraph DEF Pruned
<1>2. k \in Seq(ToSet(g))
  BY <1>1, SeqMonotonic DEF Pruned, Reduced
<1> QED BY <1>2 DEF Pruned, Reduced

LEMMA IndexOfName ==
    ASSUME NEW g, NEW name \in Names(g)
    PROVE  FindNodeIndex(g, name) \in DOMAIN g /\ g[FindNodeIndex(g, name)].name = name
<1>1. \E i \in DOMAIN g : g[i].name = name
  BY DEF Names
<1> QED BY <1>1 DEF FindNodeIndex

Unused(h, name, protected) ==
    name \notin protected /\ name \in Names(h) /\ ~HasAnyConsumer(h, name)

RemoveIfUnused(h, name, protected) ==
    IF Unused(h, name, protected) THEN RemoveNode(h, FindNodeIndex(h, name)) ELSE h

LEMMA UnusedRemoved ==
    ASSUME NEW g, NEW name, NEW candidates, NEW protected, IsGraph(g), Closed(g),
           name \in candidates
    PROVE  Pruned(RemoveIfUnused(g, name, protected), g, candidates \ protected)
<1>1. CASE Unused(g, name, protected)
  <2> DEFINE i == FindNodeIndex(g, name)
             h == RemoveNode(g, i)
  <2>1. i \in DOMAIN g /\ g[i].name = name
    BY <1>1, IndexOfName DEF Unused
  <2> HIDE DEF i
  <2>2. Reduced(h, g) /\ ToSet(h) = ToSet(g) \ {g[i]} /\ Names(h) = Names(g) \ {name}
    BY <2>1, OneRemoved
  <2> HIDE DEF h
  <2>3. \A n \in ToSet(h) : n \in ToSet(g) /\ n.name # name
    BY <2>1, <2>2 DEF IsGraph, ToSet
  <2>4. \A n \in ToSet(h) : name \notin Sources(n)
    BY <1>1, <2>3 DEF Unused, HasAnyConsumer, Consumers
  <2>5. \A n \in ToSet(g) : Sources(n) \subseteq Names(g)
    BY DEF Closed, ToSet
  <2>6. Closed(h)
    BY <2>2, <2>3, <2>4, <2>5 DEF Closed, ToSet
  <2>7. RemoveIfUnused(g, name, protected) = h
    BY <1>1 DEF RemoveIfUnused, h, i
  <2> QED BY <1>1, <2>2, <2>6, <2>7 DEF Pruned, Unused
<1>2. CASE ~Unused(g, name, protected)
  BY <1>2, PrunedItself DEF RemoveIfUnused
<1> QED BY <1>1, <1>2

RemovalPass(h, names, protected) ==
    IF \E name \in ToSet(names) : Unused(h, name, protected)
    THEN FoldLeft(LAMBDA k, name : RemoveIfUnused(k, name, protected), h, names)
    ELSE h

(***************************************************************************)
(* A fold stays within a set that its steps do not leave.                  *)
(***************************************************************************)
LEMMA FoldWithin ==
    ASSUME NEW X, NEW n \in Nat, NEW iter, iter[{}] \in X,
           \A k \in 1..n : iter[(1..k) \ {Max(1..k)}] \in X => iter[1..k] \in X
    PROVE  iter[1..n] \in X
<1> DEFINE P == {k \in 0..n : iter[1..k] \in X}
<1>1. 0 \in P
  BY 1..0 = {}
<1>2. ASSUME NEW k \in 0..n, k \in P, k < n
      PROVE  k + 1 \in P
  <2>1. k + 1 \in 1..n /\ k + 1 \in Nat \ {0} /\ k + 1 - 1 = k
    BY <1>2
  <2>2. (1..k + 1) \ {Max(1..k + 1)} = 1..k
    BY <2>1, MaxUpTo
  <2> QED BY <1>2, <2>1, <2>2
<1> HIDE DEF P
<1>3. n \in P
  BY <1>1, <1>2, UpTo
<1> QED BY <1>3 DEF P

LEMMA PassPrunes ==
    ASSUME NEW g, NEW names, NEW protected, IsGraph(g), Closed(g), IsSequence(names)
    PROVE  Pruned(RemovalPass(g, names, protected), g, ToSet(names) \ protected)
<1> DEFINE C == ToSet(names) \ protected
           X == {h \in Seq(ToSet(g)) : Pruned(h, g, C)}
           n == Len(names)
           Step(h, i) == RemoveIfUnused(h, names[i], protected)
           F == [x \in X \X (1..n) |-> Step(x[1], x[2])]
           iter == CHOOSE iter : iter = [s \in SUBSET (DOMAIN names) |->
                      IF s = {} THEN g ELSE Step(iter[s \ {Max(s)}], Max(s))]
<1>1. n \in Nat /\ DOMAIN names = 1..n
  BY Indices
<1>2. FoldLeft(LAMBDA k, name : RemoveIfUnused(k, name, protected), g, names) = iter[DOMAIN names]
  BY DEF FoldLeft, MapThenFoldSet
<1> HIDE DEF n
<1>3. g \in X
  BY PrunedItself DEF IsGraph, IsSequence
<1>4. ASSUME NEW h \in X, NEW i \in 1..n
      PROVE  Step(h, i) \in X
  <2>1. IsGraph(h) /\ Closed(h)
    BY ReducedGraph DEF Pruned
  <2>2. names[i] \in ToSet(names)
    BY <1>1 DEF ToSet
  <2>3. Pruned(Step(h, i), h, C)
    BY <2>1, <2>2, UnusedRemoved
  <2>4. Pruned(Step(h, i), g, C)
    BY <2>3, PrunedTwice
  <2> QED BY <2>4 DEF Pruned, Reduced
<1> HIDE DEF X, Step, C
<1>5. F \in [X \X (1..n) -> X]
  BY <1>4
<1>6. PICK f \in [SUBSET (1..n) -> X] : IsIteration(f, n, g, F)
  BY <1>1, <1>3, <1>5, IterationExists
<1>7. f = [s \in SUBSET (DOMAIN names) |->
             IF s = {} THEN g ELSE Step(f[s \ {Max(s)}], Max(s))]
  <2>1. ASSUME NEW s \in SUBSET (1..n), s # {}
        PROVE  f[s] = Step(f[s \ {Max(s)}], Max(s))
    <3>1. Max(s) \in 1..n
      BY <1>1, <2>1, MaxOf
    <3>2. f[s \ {Max(s)}] \in X
      OBVIOUS
    <3>3. f[s] = F[<<f[s \ {Max(s)}], Max(s)>>]
      BY <1>6, <2>1 DEF IsIteration
    <3> QED BY <3>1, <3>2, <3>3
  <2>2. ASSUME NEW s \in SUBSET (1..n), s = {}
        PROVE  f[s] = g
    BY <1>6, <2>2 DEF IsIteration
  <2> HIDE DEF F
  <2> QED BY <1>1, <1>6, <2>1, <2>2
<1> HIDE DEF F
<1>8. iter = [s \in SUBSET (DOMAIN names) |->
                IF s = {} THEN g ELSE Step(iter[s \ {Max(s)}], Max(s))]
  BY <1>7
<1> HIDE DEF iter
<1>9. iter[{}] = g
  BY <1>8
<1>10. ASSUME NEW k \in 1..n, iter[(1..k) \ {Max(1..k)}] \in X
       PROVE  iter[1..k] \in X
  <2>1. 1..k \in SUBSET (DOMAIN names) /\ 1..k # {} /\ k \in Nat \ {0}
    <3>1. k \in 1..k /\ \A j \in 1..k : j \in 1..n
      BY <1>1
    <3> QED BY <1>1, <3>1
  <2>2. Max(1..k) \in 1..n
    BY <2>1, MaxUpTo
  <2>3. iter[1..k] = Step(iter[(1..k) \ {Max(1..k)}], Max(1..k))
    BY <1>8, <2>1
  <2> QED BY <1>4, <1>10, <2>2, <2>3
<1>11. iter[1..n] \in X
  BY <1>1, <1>3, <1>9, <1>10, FoldWithin
<1>12. RemovalPass(g, names, protected) \in X
  BY <1>1, <1>2, <1>3, <1>11 DEF RemovalPass
<1> QED BY <1>12 DEF X, C

(***************************************************************************)
(* RemoveNodesIfUnused, for any candidates: what is left is a graph whose  *)
(* inputs all name a node, and only candidates have gone.                  *)
(***************************************************************************)
LEMMA UnusedNodesRemoved ==
    ASSUME NEW g, NEW names, NEW protected, IsGraph(g), Closed(g), IsSequence(names)
    PROVE  Pruned(RemoveNodesIfUnused(g, names, protected), g, ToSet(names) \ protected)
<1> DEFINE C == ToSet(names) \ protected
           X == {h \in Seq(ToSet(g)) : Pruned(h, g, C)}
           n == Len(names)
           Step(h, i) == RemovalPass(h, names, protected)
           F == [x \in X \X (1..n) |-> Step(x[1], x[2])]
           iter == CHOOSE iter : iter = [s \in SUBSET (DOMAIN names) |->
                      IF s = {} THEN g ELSE Step(iter[s \ {Max(s)}], Max(s))]
<1>1. n \in Nat /\ DOMAIN names = 1..n
  BY Indices
<1>2. RemoveNodesIfUnused(g, names, protected) = iter[DOMAIN names]
  BY DOMAIN [i \in DOMAIN names |-> i] = DOMAIN names
  DEF RemoveNodesIfUnused, RemovalPass, RemoveIfUnused, Unused, FoldLeftDomain, FoldLeft,
      MapThenFoldSet
<1> HIDE DEF n
<1>3. g \in X
  BY PrunedItself DEF IsGraph, IsSequence
<1>4. ASSUME NEW h \in X, NEW i \in 1..n
      PROVE  Step(h, i) \in X
  <2>1. IsGraph(h) /\ Closed(h)
    BY ReducedGraph DEF Pruned
  <2>2. Pruned(Step(h, i), h, C)
    BY <2>1, PassPrunes
  <2>3. Pruned(Step(h, i), g, C)
    BY <2>2, PrunedTwice
  <2> QED BY <2>3 DEF Pruned, Reduced
<1> HIDE DEF X, Step, C
<1>5. F \in [X \X (1..n) -> X]
  BY <1>4
<1>6. PICK f \in [SUBSET (1..n) -> X] : IsIteration(f, n, g, F)
  BY <1>1, <1>3, <1>5, IterationExists
<1>7. f = [s \in SUBSET (DOMAIN names) |->
             IF s = {} THEN g ELSE Step(f[s \ {Max(s)}], Max(s))]
  <2>1. ASSUME NEW s \in SUBSET (1..n), s # {}
        PROVE  f[s] = Step(f[s \ {Max(s)}], Max(s))
    <3>1. Max(s) \in 1..n
      BY <1>1, <2>1, MaxOf
    <3>2. f[s \ {Max(s)}] \in X
      OBVIOUS
    <3>3. f[s] = F[<<f[s \ {Max(s)}], Max(s)>>]
      BY <1>6, <2>1 DEF IsIteration
    <3> QED BY <3>1, <3>2, <3>3
  <2>2. ASSUME NEW s \in SUBSET (1..n), s = {}
        PROVE  f[s] = g
    BY <1>6, <2>2 DEF IsIteration
  <2> HIDE DEF F
  <2> QED BY <1>1, <1>6, <2>1, <2>2
<1> HIDE DEF F
<1>8. iter = [s \in SUBSET (DOMAIN names) |->
                IF s = {} THEN g ELSE Step(iter[s \ {Max(s)}], Max(s))]
  BY <1>7
<1> HIDE DEF iter
<1>9. iter[{}] = g
  BY <1>8
<1>10. ASSUME NEW k \in 1..n, iter[(1..k) \ {Max(1..k)}] \in X
       PROVE  iter[1..k] \in X
  <2>1. 1..k \in SUBSET (DOMAIN names) /\ 1..k # {} /\ k \in Nat \ {0}
    <3>1. k \in 1..k /\ \A j \in 1..k : j \in 1..n
      BY <1>1
    <3> QED BY <1>1, <3>1
  <2>2. Max(1..k) \in 1..n
    BY <2>1, MaxUpTo
  <2>3. iter[1..k] = Step(iter[(1..k) \ {Max(1..k)}], Max(1..k))
    BY <1>8, <2>1
  <2> QED BY <1>4, <1>10, <2>2, <2>3
<1>11. iter[1..n] \in X
  BY <1>1, <1>3, <1>9, <1>10, FoldWithin
<1>12. RemoveNodesIfUnused(g, names, protected) \in X
  BY <1>1, <1>2, <1>11
<1> QED BY <1>12 DEF X, C

(***************************************************************************)
(* A node steps aside for a fused one, which takes its name.               *)
(***************************************************************************)
SteppedAside(g, output, fused) == Append(Rename(g, output, Original(output)), fused)

LEMMA OfItsElements ==
    ASSUME NEW S, NEW s \in Seq(S)
    PROVE  IsSequence(s)
  BY DEF IsSequence, ToSet

LEMMA StepsAside ==
    ASSUME NEW g, NEW output \in Names(g), NEW fused, IsGraph(g), Closed(g),
           Original(output) \notin Names(g), IsSequence(output),
           IsNode(fused), fused.name = output, Sources(fused) \subseteq Names(g)
    PROVE  LET h == SteppedAside(g, output, fused)
           IN  /\ IsGraph(h) /\ Closed(h)
               /\ Names(h) = Names(g) \cup {Original(output)}
               /\ \A n \in ToSet(h) :
                     \/ n \in ToSet(g) /\ n.name # output
                     \/ n = fused
                     \/ \E k \in ToSet(g) : k.name = output /\ n = [k EXCEPT !.name = Original(output)]
               /\ \A n \in ToSet(g) : n.name # output => n \in ToSet(h)
<1> DEFINE at == FindNodeIndex(g, output)
           aside == Rename(g, output, Original(output))
           n == Len(g)
           old == g[at]
           new == [old EXCEPT !.name = Original(output)]
           h == Append(aside, fused)
<1>1. at \in DOMAIN g /\ old.name = output
  BY IndexOfName
<1>2. n \in Nat /\ DOMAIN g = 1..n /\ g \in Seq(ToSet(g))
  BY Indices DEF IsGraph, IsSequence
<1>3. IsNode(old)
  BY <1>1 DEF IsGraph
<1>4. aside = [i \in 1..n |-> IF i = at THEN new ELSE g[i]]
  BY <1>2 DEF Rename
<1> HIDE DEF at, old, n
<1>5. /\ IsNode(new) /\ new.name = Original(output) /\ new.in = old.in
  <2>1. /\ new = [name |-> Original(output), op |-> old.op, in |-> old.in, device |-> old.device,
                  T |-> old.T, attr |-> old.attr, val |-> old.val, shape |-> old.shape]
    BY <1>3 DEF IsNode
  <2>2. IsSequence(Original(output))
    <3>1. output \in Seq(ToSet(output))
      BY DEF IsSequence
    <3>2. output \in Seq(ToSet(output) \cup {"original"})
      BY <3>1, SeqMonotonic
    <3>3. Append(output, "original") \in Seq(ToSet(output) \cup {"original"})
      BY <3>2
    <3> QED BY <3>3, OfItsElements DEF Original
  <2> HIDE DEF new
  <2> QED BY <1>3, <2>1, <2>2 DEF IsNode
<1> HIDE DEF new, aside
<1>6. aside \in Seq(ToSet(g) \cup {new}) /\ Len(aside) = n
  <2>1. \A i \in 1..n : g[i] \in ToSet(g)
    BY <1>2 DEF ToSet
  <2> QED BY <1>2, <1>4, <2>1
<1>7. /\ h \in Seq(ToSet(g) \cup {new, fused}) /\ Len(h) = n + 1
      /\ \A i \in 1..n : h[i] = IF i = at THEN new ELSE g[i]
      /\ h[n + 1] = fused
  <2>1. aside \in Seq(ToSet(g) \cup {new, fused})
    BY <1>6, SeqMonotonic
  <2> QED BY <1>2, <1>4, <1>6, <2>1
<1> HIDE DEF h
<1>8. DOMAIN h = 1..n + 1 /\ IsSequence(h)
  BY <1>2, <1>7, OfItsElements
<1>9. /\ \A i \in 1..n + 1 : i = n + 1 \/ i = at \/ (i \in DOMAIN g /\ i # at)
      /\ \A i \in DOMAIN h : \/ h[i] = fused \/ h[i] = new
                             \/ \E j \in DOMAIN g \ {at} : h[i] = g[j]
  <2>1. \A i \in 1..n + 1 : i = n + 1 \/ i = at \/ (i \in DOMAIN g /\ i # at)
    BY <1>2
  <2> QED BY <1>2, <1>7, <1>8, <2>1
<1>10. \A i \in DOMAIN g \ {at} : g[i].name # output /\ g[i].name # Original(output)
  <2>1. \A i \in DOMAIN g : g[i].name # Original(output)
    BY DEF Names
  <2>2. \A i \in DOMAIN g : g[i].name = output => i = at
    BY <1>1 DEF IsGraph, old
  <2> QED BY <2>1, <2>2
<1>11. output # Original(output)
  OBVIOUS
<1>12. \A i \in DOMAIN h : IsNode(h[i])
  BY <1>2, <1>5, <1>7, <1>8, <1>9 DEF IsGraph
<1>13. \A i, j \in DOMAIN h : h[i].name = h[j].name => i = j
  BY <1>2, <1>5, <1>7, <1>8, <1>9, <1>10, <1>11 DEF IsGraph
<1>14. Names(h) = Names(g) \cup {Original(output)}
  <2>1. \A i \in DOMAIN h : h[i].name \in Names(g) \cup {Original(output)}
    BY <1>5, <1>9 DEF Names
  <2>2. \A i \in DOMAIN g : \E j \in DOMAIN h : h[j].name = g[i].name
    <3> TAKE i \in DOMAIN g
    <3>1. CASE i = at
      BY <1>1, <1>2, <1>7, <1>8, <3>1 DEF old
    <3>2. CASE i # at
      BY <1>2, <1>7, <1>8, <3>2
    <3> QED BY <3>1, <3>2
  <2>3. \E j \in DOMAIN h : h[j].name = Original(output)
    BY <1>1, <1>2, <1>5, <1>7, <1>8
  <2> QED BY <2>1, <2>2, <2>3 DEF Names
<1>15. Closed(h)
  <2>1. Sources(new) = Sources(old)
    BY <1>5 DEF Sources
  <2>2. \A i \in DOMAIN g : Sources(g[i]) \subseteq Names(g)
    BY DEF Closed
  <2>3. Sources(old) \subseteq Names(g)
    BY <1>1, <2>2 DEF old
  <2>4. \A i \in DOMAIN h : Sources(h[i]) \subseteq Names(g)
    BY <1>9, <2>1, <2>2, <2>3
  <2> QED BY <1>14, <2>4 DEF Closed
<1>16. \A i \in DOMAIN h : \/ h[i] \in ToSet(g) /\ h[i].name # output
                           \/ h[i] = fused
                           \/ h[i] = new
  BY <1>9, <1>10 DEF ToSet
<1>17. old \in ToSet(g) /\ old.name = output
  BY <1>1 DEF ToSet, old
<1>18. \A i \in DOMAIN g : g[i].name # output => \E j \in DOMAIN h : h[j] = g[i]
  BY <1>1, <1>2, <1>7, <1>8 DEF old
<1>19. h = SteppedAside(g, output, fused)
  BY DEF h, aside, SteppedAside
<1> QED BY <1>8, <1>12, <1>13, <1>14, <1>15, <1>16, <1>17, <1>18, <1>19 DEF IsGraph, ToSet, new
-----------------------------------------------------------------------------
\* No fused node has one of these operations.
PlainOps == RenamedOps \cup {"Maximum", "Const", "Unpack", "ResourceApplyAdam"}

(***************************************************************************)
(* The nodes at which one of these patterns may apply.  A fused node is    *)
(* none of them, nor is one that has stepped aside for it.                 *)
(***************************************************************************)
IsFusible(n) == \/ n.op \in {"Maximum", "ResourceApplyAdam"}
                \/ n.op \in RenamedOps /\ ~HasOriginalSuffix(n.name)

Fusible(g) == {n.name : n \in {k \in ToSet(g) : IsFusible(k)}}

LEMMA AcceptedPruned ==
    ASSUME NEW g, NEW h, NEW candidates, Accepted(g), Pruned(h, g, candidates)
    PROVE  Accepted(h)
<1>1. IsGraph(h) /\ Names(h) \subseteq Names(g) /\ ToSet(h) \subseteq ToSet(g)
  BY ReducedGraph DEF Accepted, Pruned
<1> QED BY <1>1 DEF Accepted, Pruned, HaveOperands, FreshOriginals

LEMMA OriginalsDiffer ==
    ASSUME NEW a, NEW b, IsSequence(a), IsSequence(b), Original(a) = Original(b)
    PROVE  a = b
<1>1. a \in Seq(ToSet(a) \cup ToSet(b) \cup {"original"}) /\ b \in Seq(ToSet(a) \cup ToSet(b) \cup {"original"})
  BY SeqMonotonic DEF IsSequence
<1>2. /\ Len(a) \in Nat /\ Len(b) \in Nat /\ a = [i \in 1..Len(a) |-> a[i]] /\ b = [i \in 1..Len(b) |-> b[i]]
      /\ Len(Original(a)) = Len(a) + 1 /\ Len(Original(b)) = Len(b) + 1
      /\ \A i \in 1..Len(a) : Original(a)[i] = a[i]
      /\ \A i \in 1..Len(b) : Original(b)[i] = b[i]
  BY <1>1 DEF Original
<1>3. Len(a) = Len(b)
  <2>1. Len(a) + 1 = Len(b) + 1 /\ Len(a) \in Nat /\ Len(b) \in Nat
    BY <1>2
  <2> QED BY <2>1
<1>4. \A i \in 1..Len(a) : a[i] = b[i]
  BY <1>2, <1>3
<1> QED BY <1>2, <1>3, <1>4

LEMMA AcceptedAside ==
    ASSUME NEW g, NEW n \in ToSet(g), NEW fused, Accepted(g),
           n.op \in RenamedOps, ~HasOriginalSuffix(n.name),
           IsNode(fused), fused.name = n.name, Sources(fused) \subseteq Names(g),
           fused.op \notin PlainOps
    PROVE  /\ Accepted(SteppedAside(g, n.name, fused))
           /\ Names(SteppedAside(g, n.name, fused)) = Names(g) \cup {Original(n.name)}
           /\ \A k \in ToSet(SteppedAside(g, n.name, fused)) :
                 IsFusible(k) => k \in ToSet(g) /\ k.name # n.name
<1> DEFINE output == n.name
           h == SteppedAside(g, output, fused)
<1>1. n.name \in Names(g) /\ IsSequence(n.name) /\ Original(n.name) \notin Names(g)
  BY DEF ToSet, Names, Accepted, IsGraph, IsNode, FreshOriginals
<1>2. \A k \in ToSet(g) : IsNode(k) /\ (k.name = n.name => k = n)
  BY DEF ToSet, Accepted, IsGraph
<1> HIDE DEF h
<1>3. /\ IsGraph(h) /\ Closed(h)
      /\ Names(h) = Names(g) \cup {Original(output)}
      /\ \A k \in ToSet(h) :
            \/ k \in ToSet(g) /\ k.name # output
            \/ k = fused
            \/ \E q \in ToSet(g) : q.name = output /\ k = [q EXCEPT !.name = Original(output)]
  BY <1>1, StepsAside DEF Accepted, h
<1>4. \A k \in ToSet(h) :
            \/ k \in ToSet(g) /\ k.name # output
            \/ k = fused
            \/ k.name = Original(output) /\ k.op = n.op /\ k.in = n.in
  BY <1>2, <1>3 DEF IsNode
<1>5. HaveOperands(h)
  <2>1. fused.op \notin {"MatMul", "BiasAdd", "Add", "AddV2", "Unpack"}
    BY DEF RenamedOps, PlainOps
  <2> QED BY <1>4, <2>1 DEF HaveOperands, Accepted
<1>6. HasOriginalSuffix(Original(output))
  <2>1. output \in Seq(ToSet(output) \cup {"original"})
    BY <1>1, SeqMonotonic DEF IsSequence
  <2>2. /\ Original(output) \in Seq(ToSet(output) \cup {"original"})
        /\ Len(Original(output)) = Len(output) + 1 /\ Len(output) \in Nat
        /\ Original(output)[Len(output) + 1] = "original"
    BY <2>1 DEF Original
  <2> QED BY <2>2, EmptySeq DEF HasOriginalSuffix, Last
<1>7. FreshOriginals(h)
  <2> SUFFICES ASSUME NEW k \in ToSet(h),
                      k.op = "Maximum" \/ (k.op \in RenamedOps /\ ~HasOriginalSuffix(k.name))
               PROVE  Original(k.name) \notin Names(h)
    BY DEF FreshOriginals
  <2>1. k \in ToSet(g) /\ k.name # output
    BY <1>4, <1>6 DEF RenamedOps, PlainOps
  <2>2. Original(k.name) \notin Names(g)
    BY <2>1 DEF Accepted, FreshOriginals
  <2>3. Original(k.name) # Original(output)
    BY <1>1, <1>2, <2>1, OriginalsDiffer DEF IsNode
  <2> QED BY <1>3, <2>2, <2>3
<1>8. \A k \in ToSet(h) : IsFusible(k) => k \in ToSet(g) /\ k.name # output
  BY <1>4, <1>6 DEF IsFusible, RenamedOps, PlainOps
<1> QED BY <1>3, <1>5, <1>7, <1>8 DEF Accepted, h

(***************************************************************************)
(* A rewrite also leaves less to fuse.                                     *)
(***************************************************************************)
Improves(h, g, names) ==
    Serves(h, names) /\ Fusible(h) \subseteq Fusible(g) /\ Fusible(h) # Fusible(g)

LEMMA FusibleShrinks ==
    ASSUME NEW g, NEW h, NEW n \in ToSet(g), IsFusible(n),
           \A k \in ToSet(h) : IsFusible(k) => k \in ToSet(g) /\ k.name # n.name
    PROVE  Fusible(h) \subseteq Fusible(g) /\ Fusible(h) # Fusible(g)
<1>1. n.name \in Fusible(g) /\ n.name \notin Fusible(h)
  BY DEF Fusible
<1>2. Fusible(h) \subseteq Fusible(g)
  BY DEF Fusible
<1> QED BY <1>1, <1>2

LEMMA InputsInGraph ==
    ASSUME NEW g, Closed(g)
    PROVE  Inputs(g) \subseteq Names(g)
  BY DEF Closed, Inputs, ToSet

LEMMA ProvidedPruned ==
    ASSUME NEW g, NEW h, NEW candidates, NEW names, IsGraph(g), Pruned(h, g, candidates),
           Provides(g, names), names \cap candidates = {}
    PROVE  Provides(h, names)
<1>1. ToSet(h) \subseteq ToSet(g)
  BY ReducedGraph DEF Pruned
<1>2. Inputs(h) \subseteq Inputs(g)
  BY <1>1 DEF Inputs
<1>3. \A k, l \in ToSet(g) : k.name = l.name => k = l
  BY DEF IsGraph, ToSet
<1>4. ASSUME NEW n \in ToSet(g), n.name \in names
      PROVE  n \in ToSet(h)
  <2>1. n.name \in Names(h)
    BY <1>4 DEF Pruned, Names, ToSet
  <2>2. PICK k \in ToSet(h) : k.name = n.name
    BY <2>1 DEF Names, ToSet
  <2> QED BY <1>1, <1>3, <2>2
<1> QED BY <1>2, <1>4 DEF Provides

LEMMA FusedIsThere ==
    ASSUME NEW g, NEW output, NEW fused, IsSequence(g)
    PROVE  fused \in ToSet(SteppedAside(g, output, fused))
<1> DEFINE aside == Rename(g, output, Original(output))
<1>1. aside = [i \in 1..Len(g) |-> aside[i]] /\ Len(g) \in Nat
  BY Indices DEF Rename
<1> HIDE DEF aside
<1>2. aside \in Seq({aside[i] : i \in 1..Len(g)} \cup {fused})
  BY <1>1
<1>3. Append(aside, fused)[Len(aside) + 1] = fused /\ Len(aside) + 1 \in DOMAIN Append(aside, fused)
  BY <1>2
<1> QED BY <1>3 DEF SteppedAside, ToSet, aside

LEMMA ProvidedAside ==
    ASSUME NEW g, NEW n \in ToSet(g), NEW fused, NEW names, Accepted(g), Provides(g, names),
           Original(n.name) \notin Names(g),
           IsNode(fused), fused.name = n.name, Sources(fused) \subseteq Inputs(g),
           fused.in # <<>>, fused.op # "Const"
    PROVE  Provides(SteppedAside(g, n.name, fused), names)
<1> DEFINE h == SteppedAside(g, n.name, fused)
<1>1. /\ n.name \in Names(g) /\ IsSequence(n.name)
      /\ \A k \in ToSet(g) : IsNode(k) /\ (k.name = n.name => k = n)
  BY DEF ToSet, Names, Serves, Accepted, IsGraph, IsNode
<1>2. Sources(fused) \subseteq Names(g)
  BY InputsInGraph DEF Accepted
<1> HIDE DEF h
<1>3. /\ \A k \in ToSet(h) :
            \/ k \in ToSet(g) /\ k.name # n.name
            \/ k = fused
            \/ \E q \in ToSet(g) : q.name = n.name /\ k = [q EXCEPT !.name = Original(n.name)]
      /\ \A k \in ToSet(g) : k.name # n.name => k \in ToSet(h)
  BY <1>1, <1>2, StepsAside DEF Accepted, h
<1>4. fused \in ToSet(h)
  BY FusedIsThere DEF Accepted, IsGraph, h
<1>5. Inputs(h) \subseteq Inputs(g)
  <2> SUFFICES ASSUME NEW k \in ToSet(h) PROVE Sources(k) \subseteq Inputs(g)
    BY DEF Inputs
  <2>1. CASE k \in ToSet(g)
    BY <2>1 DEF Inputs
  <2>2. CASE k = fused
    BY <2>2
  <2>3. ASSUME NEW q \in ToSet(g), k = [q EXCEPT !.name = Original(n.name)]
        PROVE  Sources(k) \subseteq Inputs(g)
    <3>1. k.in = q.in
      BY <1>1, <2>3 DEF IsNode
    <3> QED BY <3>1 DEF Sources, Inputs
  <2> QED BY <1>3, <2>1, <2>2, <2>3
<1>6. ASSUME NEW name \in names
      PROVE  \E k \in ToSet(h) : k.name = name /\ k.in # <<>> /\ k.op # "Const"
  <2>1. CASE name = n.name
    BY <1>4, <2>1
  <2>2. CASE name # n.name
    BY <1>3, <2>2 DEF Provides
  <2> QED BY <2>1, <2>2
<1> QED BY <1>5, <1>6 DEF Provides, h

LEMMA AcceptedReplaced ==
    ASSUME NEW g, NEW n \in ToSet(g), NEW fused, NEW obsolete, NEW protected, NEW names,
           Accepted(g), Provides(g, names), n.op \in RenamedOps, ~HasOriginalSuffix(n.name),
           IsNode(fused), fused.name = n.name, Sources(fused) \subseteq Inputs(g),
           fused.op \notin PlainOps, fused.in # <<>>,
           IsSequence(obsolete),
           ToSet(obsolete) \subseteq Inputs(g) \cup {Original(n.name), NoNode.name}
    PROVE  Improves(Replace(g, n.name, fused, obsolete, protected), g, names)
<1> DEFINE h == SteppedAside(g, n.name, fused)
<1>0. Sources(fused) \subseteq Names(g) /\ Original(n.name) \notin Names(g)
  BY InputsInGraph DEF Accepted, FreshOriginals
<1>1. Accepted(h) /\ \A k \in ToSet(h) : IsFusible(k) => k \in ToSet(g) /\ k.name # n.name
  BY <1>0, AcceptedAside
<1>4. Provides(h, names)
  BY <1>0, ProvidedAside DEF PlainOps
<1>5. names \cap ToSet(obsolete) = {}
  BY <1>0 DEF Provides, Names, ToSet
<1>2. Pruned(RemoveNodesIfUnused(h, obsolete, protected), h, ToSet(obsolete) \ protected)
  BY <1>1, UnusedNodesRemoved DEF Accepted
<1>3. Replace(g, n.name, fused, obsolete, protected) = RemoveNodesIfUnused(h, obsolete, protected)
  BY DEF Replace, SteppedAside
<1>6. Accepted(RemoveNodesIfUnused(h, obsolete, protected))
  BY <1>1, <1>2, AcceptedPruned
<1>7. Provides(RemoveNodesIfUnused(h, obsolete, protected), names)
  BY <1>1, <1>2, <1>4, <1>5, ProvidedPruned DEF Accepted
<1>8. ToSet(RemoveNodesIfUnused(h, obsolete, protected)) \subseteq ToSet(h)
  BY <1>1, <1>2, ReducedGraph DEF Pruned, Accepted
<1>9. IsFusible(n)
  BY DEF IsFusible
<1> HIDE DEF h
<1> QED BY <1>1, <1>3, <1>6, <1>7, <1>8, <1>9, FusibleShrinks DEF Serves, Improves

(***************************************************************************)
(* The nodes that a match finds are in the graph, and so are the nodes     *)
(* that theirs inputs name.                                                *)
(***************************************************************************)
LEMMA InputInGraph ==
    ASSUME NEW g, NEW n, NEW i, IsGraph(g), Input(g, n, i) # NoNode
    PROVE  /\ Input(g, n, i) \in ToSet(g) /\ i \in DOMAIN n.in
           /\ n.in[i].src = Input(g, n, i).name
<1>1. i \in DOMAIN n.in /\ Input(g, n, i) = NodeAt(g, FindNodeIndex(g, n.in[i].src))
  BY DEF Input, FindProducer, GetNodeByName
<1>2. n.in[i].src \in Names(g)
  BY <1>1 DEF FindNodeIndex, NodeAt
<1>3. /\ FindNodeIndex(g, n.in[i].src) \in DOMAIN g
      /\ g[FindNodeIndex(g, n.in[i].src)].name = n.in[i].src
  BY <1>2, IndexOfName
<1>4. FindNodeIndex(g, n.in[i].src) # 0
  BY <1>3, Indices DEF IsGraph
<1> QED BY <1>1, <1>3, <1>4 DEF NodeAt, ToSet

LEMMA OperandOf ==
    ASSUME NEW g, NEW n, NEW i, IsGraph(g), Input(g, n, i) # NoNode
    PROVE  Input(g, n, i) \in ToSet(g) /\ Input(g, n, i).name \in Sources(n)
  BY InputInGraph DEF Sources, ToSet

LEMMA NoNodeOp == NoNode.op = "" /\ NoNode.in = <<>>
  BY DEF NoNode, Node

FusedAs(name, op, in, T, device, attr) ==
    [Node(name, op, in) EXCEPT !.T = T, !.device = device, !.attr = attr]

LEMMA FusedNode ==
    ASSUME NEW name, NEW op, NEW in, NEW T, NEW device, NEW attr,
           IsSequence(name), IsSequence(in)
    PROVE  LET f == FusedAs(name, op, in, T, device, attr)
           IN  IsNode(f) /\ f.name = name /\ f.op = op /\ f.in = in
<1>1. PICK f : f = FusedAs(name, op, in, T, device, attr)
  OBVIOUS
<1>2. f = [name |-> name, op |-> op, in |-> in, device |-> device, T |-> T, attr |-> attr,
           val |-> <<>>, shape |-> Unknown]
  BY <1>1 DEF Node, FusedAs
<1>3. IsNode(f) /\ f.name = name /\ f.op = op /\ f.in = in
  BY <1>2 DEF IsNode
<1> QED BY <1>1, <1>3

\* The inputs of a fused node are inputs of nodes of the graph.
LEMMA TakenInputs ==
    ASSUME NEW g, NEW f, NEW in, f.in = in,
           \A i \in DOMAIN in : \E k \in ToSet(g) : \E j \in DOMAIN k.in : in[i] = k.in[j]
    PROVE  Sources(f) \subseteq Inputs(g)
<1>1. \A k \in ToSet(g) : \A j \in DOMAIN k.in : k.in[j].src \in Inputs(g)
  BY DEF Inputs, Sources, ToSet
<1> QED BY <1>1 DEF Sources, ToSet

LEMMA ConcatMatMulKeeps ==
    ASSUME NEW g, NEW n \in ToSet(g), NEW names, Accepted(g), Provides(g, names),
           MatchConcatMatMul(g, n).matched
    PROVE  Improves(ApplyConcatMatMul(g, MatchConcatMatMul(g, n)).graph, g, names)
<1> DEFINE side   == IF Input(g, n, 1).op = "ConcatV2" THEN 1 ELSE 2
           concat == Input(g, n, side)
           in     == Append(concat.in, n.in[3 - side])
           attr   == Transposes(n) \o <<<<"concat_input_idx", ToString(side - 1)>>>>
           fused  == FusedAs(n.name, "MusaConcatMatMul", in, n.T, n.device, attr)
           m      == MatchConcatMatMul(g, n)
           obsolete == <<Original(n.name), concat.name>>
<1>1. /\ n.op = "MatMul" /\ ~HasOriginalSuffix(n.name) /\ concat.op = "ConcatV2"
      /\ m = [matched |-> TRUE, output |-> n, side |-> side, concat |-> concat]
  BY DEF MatchConcatMatMul, NoMatch
<1>2. ApplyConcatMatMul(g, m).graph = Replace(g, n.name, fused, obsolete, {n.name})
  BY <1>1 DEF ApplyConcatMatMul, Ok, FusedAs
<1> HIDE DEF m, attr
<1>3. IsNode(n) /\ Len(n.in) >= 2
  BY <1>1 DEF Accepted, IsGraph, ToSet, HaveOperands
<1>4. 3 - side \in DOMAIN n.in
  BY <1>3, Indices DEF IsNode
<1>5. concat \in ToSet(g) /\ IsNode(concat) /\ concat.name \in Inputs(g)
  <2>1. concat # NoNode
    BY <1>1, NoNodeOp
  <2>2. concat \in ToSet(g) /\ concat.name \in Sources(n)
    BY <2>1, OperandOf DEF Accepted
  <2> QED BY <2>2 DEF Accepted, IsGraph, ToSet, Inputs
<1> HIDE DEF side, concat
<1>6. /\ IsSequence(in) /\ in # <<>>
      /\ \A i \in DOMAIN in : \E k \in ToSet(g) : \E j \in DOMAIN k.in : in[i] = k.in[j]
  <2>1. concat.in \in Seq(ToSet(concat.in) \cup {n.in[3 - side]}) /\ DOMAIN concat.in = 1..Len(concat.in)
    BY <1>5, SeqMonotonic DEF IsNode, IsSequence
  <2>2. /\ in \in Seq(ToSet(concat.in) \cup {n.in[3 - side]})
        /\ DOMAIN in = 1..Len(concat.in) + 1
        /\ \A i \in 1..Len(concat.in) : in[i] = concat.in[i]
        /\ in[Len(concat.in) + 1] = n.in[3 - side]
    BY <2>1
  <2> HIDE DEF in
  <2>3. \A i \in DOMAIN in : i \in 1..Len(concat.in) \/ i = Len(concat.in) + 1
    BY <2>1, <2>2
  <2>4. in # <<>>
    <3>1. Len(concat.in) + 1 \in DOMAIN in
      BY <2>1, <2>2
    <3>2. DOMAIN <<>> = {}
      OBVIOUS
    <3> QED BY <3>1, <3>2
  <2> QED BY <1>4, <1>5, <2>1, <2>2, <2>3, <2>4, OfItsElements
<1> HIDE DEF in
<1>7. IsNode(fused) /\ fused.name = n.name /\ fused.op = "MusaConcatMatMul" /\ fused.in = in
  <2>1. IsSequence(n.name)
    BY <1>3 DEF IsNode
  <2> QED BY <1>6, <2>1, FusedNode
<1> HIDE DEF fused
<1>8. Sources(fused) \subseteq Inputs(g)
  BY <1>6, <1>7, TakenInputs
<1>9. IsSequence(obsolete) /\ ToSet(obsolete) \subseteq Inputs(g) \cup {Original(n.name)}
  <2>1. IsSequence(obsolete)
    BY OfItsElements, obsolete \in Seq({Original(n.name), concat.name})
  <2> QED BY <1>5, <2>1 DEF ToSet
<1>10. n.op \in RenamedOps /\ fused.op \notin PlainOps
  BY <1>1, <1>7 DEF RenamedOps, PlainOps
<1> HIDE DEF obsolete
<1> QED BY <1>1, <1>2, <1>6, <1>7, <1>8, <1>9, <1>10, AcceptedReplaced DEF m

LEMMA ThreeInputs ==
    ASSUME NEW g, NEW a, NEW b, NEW c, {a.src, b.src, c.src} \subseteq Inputs(g)
    PROVE  /\ IsSequence(<<a, b, c>>) /\ IsSequence(<<a, b>>)
           /\ \A f : f.in = <<a, b, c>> \/ f.in = <<a, b>> => Sources(f) \subseteq Inputs(g) /\ f.in # <<>>
<1>1. <<a, b, c>> \in Seq({a, b, c}) /\ <<a, b>> \in Seq({a, b, c})
  OBVIOUS
<1>2. IsSequence(<<a, b, c>>) /\ IsSequence(<<a, b>>)
  BY <1>1, OfItsElements
<1>3. ToSet(<<a, b, c>>) = {a, b, c} /\ ToSet(<<a, b>>) = {a, b}
  BY DEF ToSet
<1>4. <<a, b, c>> # <<>> /\ <<a, b>> # <<>>
  OBVIOUS
<1> QED BY <1>2, <1>3, <1>4 DEF Sources

\* A node that is found as an input of another.
LEMMA FoundNode ==
    ASSUME NEW g, NEW n, NEW i, Accepted(g), Input(g, n, i).op # ""
    PROVE  /\ Input(g, n, i) \in ToSet(g) /\ IsNode(Input(g, n, i)) /\ i \in DOMAIN n.in
           /\ n \in ToSet(g) => Input(g, n, i).name \in Inputs(g)
<1>1. Input(g, n, i) # NoNode
  BY NoNodeOp
<1>2. Input(g, n, i) \in ToSet(g) /\ i \in DOMAIN n.in
  BY <1>1, InputInGraph DEF Accepted
<1>3. Input(g, n, i).name \in Sources(n)
  BY <1>1, OperandOf DEF Accepted
<1> QED BY <1>2, <1>3 DEF Accepted, IsGraph, ToSet, Inputs

LEMMA OperandNamed ==
    ASSUME NEW g, NEW n \in ToSet(g), NEW i \in 1..2, Accepted(g), Len(n.in) >= 2
    PROVE  i \in DOMAIN n.in /\ n.in[i].src \in Inputs(g)
<1>1. IsNode(n)
  BY DEF Accepted, IsGraph, ToSet
<1>2. i \in DOMAIN n.in
  BY <1>1, Indices DEF IsNode
<1> QED BY <1>2 DEF Inputs, Sources, ToSet

LEMMA LinearActivationKeeps ==
    ASSUME NEW g, NEW n \in ToSet(g), NEW names, Accepted(g), Provides(g, names),
           MatchLinearActivation(g, n).matched
    PROVE  Improves(ApplyLinearActivation(g, MatchLinearActivation(g, n)).graph, g, names)
<1> DEFINE add    == Input(g, n, 1)
           side   == MatMulSide(g, add, LAMBDA k : k.op = "MatMul")
           matmul == Input(g, add, side)
           other  == Input(g, add, 3 - side)
           bias   == IF add.in[1] = Edge(matmul.name) THEN 2 ELSE 1
           a      == matmul.in[1]
           b      == matmul.in[2]
           in     == <<a, b, add.in[bias]>>
           attr   == Transposes(matmul)
           fused  == FusedAs(n.name, "MusaLinearActivation", in, matmul.T, n.device, attr)
           obsolete == <<Original(n.name), add.name, matmul.name>>
           kept   == Protects({a, b}) \cup {other.name, n.name}
           m      == MatchLinearActivation(g, n)
<1>1. /\ n.op = "Relu" /\ ~HasOriginalSuffix(n.name)
      /\ IsBiasAddLikeOp(add) /\ Len(add.in) >= 2 /\ side # 0
      /\ m = [matched |-> TRUE, output |-> n, bias_add |-> add, matmul |-> matmul, bias |-> other]
  BY DEF MatchLinearActivation, NoMatch
<1>2. ApplyLinearActivation(g, m).graph = Replace(g, n.name, fused, obsolete, kept)
  BY <1>1 DEF ApplyLinearActivation, Ok, FusedAs
<1>3. matmul.op = "MatMul"
  BY <1>1 DEF MatMulSide
<1> HIDE DEF m, attr, kept, side, matmul, add, other
<1>4. add \in ToSet(g) /\ add.name \in Inputs(g)
  BY <1>1, FoundNode DEF IsBiasAddLikeOp, add
<1>5. matmul \in ToSet(g) /\ matmul.name \in Inputs(g)
  BY <1>3, <1>4, FoundNode DEF matmul
<1>6. Len(matmul.in) >= 2
  BY <1>3, <1>5 DEF Accepted, HaveOperands
<1>7. {a.src, b.src, add.in[bias].src} \subseteq Inputs(g)
  <2>1. bias \in 1..2
    OBVIOUS
  <2> HIDE DEF bias
  <2> QED BY <1>1, <1>4, <1>5, <1>6, <2>1, OperandNamed
<1> HIDE DEF a, b, bias
<1>8. IsSequence(n.name)
  BY DEF Accepted, IsGraph, IsNode, ToSet
<1>9. IsSequence(in) /\ \A f : f.in = in => Sources(f) \subseteq Inputs(g) /\ f.in # <<>>
  BY <1>7, ThreeInputs
<1> HIDE DEF in
<1>10. IsNode(fused) /\ fused.name = n.name /\ fused.op = "MusaLinearActivation" /\ fused.in = in
  BY <1>8, <1>9, FusedNode
<1> HIDE DEF fused
<1>11. IsSequence(obsolete) /\ ToSet(obsolete) \subseteq Inputs(g) \cup {Original(n.name)}
  <2>1. IsSequence(obsolete)
    BY OfItsElements, obsolete \in Seq({Original(n.name), add.name, matmul.name})
  <2> QED BY <1>4, <1>5, <2>1 DEF ToSet
<1>12. n.op \in RenamedOps /\ fused.op \notin PlainOps
  BY <1>1, <1>10 DEF RenamedOps, PlainOps
<1> HIDE DEF obsolete
<1> QED BY <1>1, <1>2, <1>9, <1>10, <1>11, <1>12, AcceptedReplaced DEF m

LEMMA ThirdInput ==
    ASSUME NEW a, NEW b, NEW c
    PROVE  Append(<<a, b>>, c) = <<a, b, c>>
<1>1. PICK two : two = <<a, b>>
  OBVIOUS
<1>2. PICK t : t = <<a, b, c>>
  OBVIOUS
<1>3. two \in Seq({a, b, c}) /\ Len(two) = 2 /\ two[1] = a /\ two[2] = b
  BY <1>1
<1>4. t \in Seq({a, b, c}) /\ Len(t) = 3 /\ t[1] = a /\ t[2] = b /\ t[3] = c
  BY <1>2
<1>5. PICK s : s = Append(two, c)
  OBVIOUS
<1>6. /\ s \in Seq({a, b, c}) /\ Len(s) = 3
      /\ \A i \in 1..2 : s[i] = two[i]
      /\ s[3] = c
  <2>1. PICK S : S = {a, b, c}
    OBVIOUS
  <2>2. two \in Seq(S) /\ c \in S
    BY <1>3, <2>1
  <2>3. /\ s \in Seq(S) /\ Len(s) = Len(two) + 1
        /\ \A i \in 1..Len(two) : s[i] = two[i]
        /\ s[Len(two) + 1] = c
    BY <1>5, <2>2, AppendProperties
  <2>4. Len(two) = 2 /\ Len(two) + 1 = 3
    BY <1>3
  <2> QED BY <2>1, <2>3, <2>4
<1>7. \A i \in 1..3 : s[i] = t[i]
  <2> TAKE i \in 1..3
  <2>1. i = 1 \/ i = 2 \/ i = 3
    OBVIOUS
  <2> QED BY <1>3, <1>4, <1>6, <2>1
<1>8. s = t
  BY <1>4, <1>6, <1>7, SeqEqual
<1> QED BY <1>1, <1>2, <1>5, <1>8

LEMMA MatMulBiasAddKeeps ==
    ASSUME NEW g, NEW n \in ToSet(g), NEW names, Accepted(g), Provides(g, names),
           MatchMatMulBiasAdd(g, n).matched
    PROVE  Improves(ApplyMatMulBiasAdd(g, MatchMatMulBiasAdd(g, n)).graph, g, names)
<1> DEFINE side   == MatMulSide(g, n, LAMBDA k : k.op = "MatMul" /\ IsBinary(k))
           matmul == Input(g, n, side)
           bias   == Input(g, n, 3 - side)
           a      == matmul.in[1]
           b      == matmul.in[2]
           other  == {i \in 1..2 : n.in[i].src # matmul.name}
           c      == n.in[CHOOSE i \in other : TRUE]
           draft  == [Node(n.name, "MusaMatMulBiasAdd", <<a, b>>)
                      EXCEPT !.T = matmul.T, !.device = n.device]
           attr   == Transposes(matmul)
           fused  == [draft EXCEPT !.in = Append(@, c), !.attr = attr]
           obsolete == <<Original(n.name), matmul.name>>
           kept   == Protects({a, b}) \cup {bias.name, n.name}
           m      == MatchMatMulBiasAdd(g, n)
<1>1. /\ IsBiasAddLikeOp(n) /\ IsBinary(n) /\ ~HasOriginalSuffix(n.name) /\ side # 0
      /\ m = [matched |-> TRUE, output |-> n, matmul |-> matmul, bias |-> bias]
  BY DEF MatchMatMulBiasAdd, NoMatch
<1>2. ApplyMatMulBiasAdd(g, m).graph =
         IF Cardinality(other) # 1 THEN SteppedAside(g, n.name, draft)
                                   ELSE Replace(g, n.name, fused, obsolete, kept)
  BY <1>1 DEF ApplyMatMulBiasAdd, Ok, Failed, SteppedAside
<1>3. matmul.op = "MatMul" /\ Len(matmul.in) = 2
  BY <1>1 DEF MatMulSide, IsBinary
<1> HIDE DEF m, attr, kept, side, matmul, bias
<1>4. matmul \in ToSet(g) /\ matmul.name \in Inputs(g)
  BY <1>3, FoundNode DEF matmul
<1>5. {a.src, b.src} \subseteq Inputs(g)
  BY <1>3, <1>4, OperandNamed
<1>6. \A i \in 1..2 : n.in[i].src \in Inputs(g)
  <2>1. Len(n.in) >= 2
    BY <1>1 DEF IsBinary
  <2> QED BY <2>1, OperandNamed
<1>7. IsSequence(n.name)
  BY DEF Accepted, IsGraph, IsNode, ToSet
<1> HIDE DEF a, b
<1>8. n.op \in RenamedOps /\ "MusaMatMulBiasAdd" \notin PlainOps
  BY <1>1 DEF RenamedOps, PlainOps, IsBiasAddLikeOp
<1>9. CASE Cardinality(other) # 1
  <2>1. PICK f : f = draft
    OBVIOUS
  <2>2. f = [name |-> n.name, op |-> "MusaMatMulBiasAdd", in |-> <<a, b>>, device |-> n.device,
             T |-> matmul.T, attr |-> <<>>, val |-> <<>>, shape |-> Unknown]
    BY <2>1 DEF Node
  <2>3. IsSequence(<<a, b>>) /\ \A k : k.in = <<a, b>> =>
            Sources(k) \subseteq Inputs(g) /\ k.in # <<>>
    BY <1>5, ThreeInputs
  <2>4. IsNode(f) /\ f.name = n.name /\ f.op = "MusaMatMulBiasAdd" /\ f.in = <<a, b>>
    BY <1>7, <2>2, <2>3 DEF IsNode
  <2>5. Improves(SteppedAside(g, n.name, f), g, names)
    <3>1. Original(n.name) \notin Names(g) /\ Sources(f) \subseteq Names(g)
      BY <1>1, <1>8, <2>3, <2>4, InputsInGraph DEF Accepted, FreshOriginals
    <3>2. /\ Accepted(SteppedAside(g, n.name, f))
          /\ \A k \in ToSet(SteppedAside(g, n.name, f)) :
                 IsFusible(k) => k \in ToSet(g) /\ k.name # n.name
      BY <1>1, <1>8, <2>4, <3>1, AcceptedAside
    <3>3. Provides(SteppedAside(g, n.name, f), names)
      BY <1>8, <2>3, <2>4, <3>1, ProvidedAside
    <3>4. IsFusible(n)
      BY <1>1, <1>8 DEF IsFusible
    <3> QED BY <3>2, <3>3, <3>4, FusibleShrinks DEF Serves, Improves
  <2> HIDE DEF draft
  <2> QED BY <1>2, <1>9, <2>1, <2>5 DEF m
<1>10. CASE Cardinality(other) = 1
  <2>1. c.src \in Inputs(g)
    <3>1. Cardinality({}) = 0
      BY FS_EmptySet
    <3>2. other # {}
      BY <1>10, <3>1
    <3> QED BY <1>6, <3>2
  <2> HIDE DEF c, other
  <2>2. PICK f : f = fused
    OBVIOUS
  <2>3. f = [name |-> n.name, op |-> "MusaMatMulBiasAdd", in |-> <<a, b, c>>, device |-> n.device,
             T |-> matmul.T, attr |-> attr, val |-> <<>>, shape |-> Unknown]
    <3>1. Append(<<a, b>>, c) = <<a, b, c>>
      BY ThirdInput
    <3> QED BY <2>2, <3>1 DEF Node
  <2>4. IsSequence(<<a, b, c>>) /\ \A k : k.in = <<a, b, c>> =>
            Sources(k) \subseteq Inputs(g) /\ k.in # <<>>
    BY <1>5, <2>1, ThreeInputs
  <2>5. IsNode(f) /\ f.name = n.name /\ f.op = "MusaMatMulBiasAdd" /\ f.in = <<a, b, c>>
    BY <1>7, <2>3, <2>4 DEF IsNode
  <2>6. IsSequence(obsolete) /\ ToSet(obsolete) \subseteq Inputs(g) \cup {Original(n.name)}
    <3>1. IsSequence(obsolete)
      BY OfItsElements, obsolete \in Seq({Original(n.name), matmul.name})
    <3> QED BY <1>4, <3>1 DEF ToSet
  <2> HIDE DEF obsolete, fused
  <2>7. Improves(Replace(g, n.name, f, obsolete, kept), g, names)
    BY <1>1, <1>8, <2>4, <2>5, <2>6, AcceptedReplaced
  <2> QED BY <1>2, <1>10, <2>2, <2>7 DEF m
<1> QED BY <1>9, <1>10

LEMMA BiasAddReluMatMulKeeps ==
    ASSUME NEW g, NEW n \in ToSet(g), NEW names, Accepted(g), Provides(g, names),
           MatchBiasAddReluMatMul(g, n).matched
    PROVE  Improves(ApplyBiasAddReluMatMul(g, MatchBiasAddReluMatMul(g, n)).graph, g, names)
<1> DEFINE side == MatMulSide(g, n, LAMBDA k : k.op = "Relu")
           relu == Input(g, n, side)
           add  == Input(g, relu, 1)
           a    == add.in[1]
           b    == add.in[2]
           c    == n.in[3 - side]
           in   == <<a, b, c>>
           attr == Append(Transposes(n), <<"relu_input_slot", ToString(side - 1)>>)
           fused == FusedAs(n.name, "MusaBiasAddReluMatMul", in, n.T, n.device, attr)
           obsolete == <<Original(n.name), relu.name, add.name>>
           kept == Protects(ToSet(in)) \cup {n.name}
           m    == MatchBiasAddReluMatMul(g, n)
<1>1. /\ n.op = "MatMul" /\ ~HasOriginalSuffix(n.name) /\ Len(n.in) >= 2 /\ side # 0
      /\ IsBiasAddLikeOp(add)
      /\ m = [matched |-> TRUE, output |-> n, side |-> side, relu |-> relu, bias_add |-> add]
  BY DEF MatchBiasAddReluMatMul, NoMatch
<1>2. ApplyBiasAddReluMatMul(g, m).graph = Replace(g, n.name, fused, obsolete, kept)
  BY <1>1 DEF ApplyBiasAddReluMatMul, Ok, FusedAs
<1>3. 3 - side \in 1..2 /\ relu.op = "Relu"
  BY <1>1 DEF MatMulSide
<1> HIDE DEF m, attr, kept, side, relu, add
<1>4. /\ add \in ToSet(g) /\ Len(add.in) >= 2
      /\ relu.name \in Inputs(g) /\ add.name \in Inputs(g)
  <2>1. relu \in ToSet(g) /\ relu.name \in Inputs(g)
    BY <1>3, FoundNode DEF relu
  <2>2. add \in ToSet(g) /\ add.name \in Inputs(g)
    BY <1>1, <2>1, FoundNode DEF IsBiasAddLikeOp, add
  <2> QED BY <2>2, <1>1, <2>1 DEF Accepted, HaveOperands, IsBiasAddLikeOp
<1>5. {a.src, b.src, c.src} \subseteq Inputs(g)
  BY <1>1, <1>3, <1>4, OperandNamed
<1> HIDE DEF a, b, c
<1>6. IsSequence(n.name)
  BY DEF Accepted, IsGraph, IsNode, ToSet
<1>7. IsSequence(in) /\ \A f : f.in = in => Sources(f) \subseteq Inputs(g) /\ f.in # <<>>
  BY <1>5, ThreeInputs
<1> HIDE DEF in
<1>8. IsNode(fused) /\ fused.name = n.name /\ fused.op = "MusaBiasAddReluMatMul" /\ fused.in = in
  BY <1>6, <1>7, FusedNode
<1> HIDE DEF fused
<1>9. IsSequence(obsolete) /\ ToSet(obsolete) \subseteq Inputs(g) \cup {Original(n.name)}
  <2>1. IsSequence(obsolete)
    BY OfItsElements, obsolete \in Seq({Original(n.name), relu.name, add.name})
  <2> QED BY <1>4, <2>1 DEF ToSet
<1>10. n.op \in RenamedOps /\ fused.op \notin PlainOps
  BY <1>1, <1>8 DEF RenamedOps, PlainOps
<1> HIDE DEF obsolete
<1> QED BY <1>1, <1>2, <1>7, <1>8, <1>9, <1>10, AcceptedReplaced DEF m

LEMMA ImageFinite ==
    ASSUME NEW S, IsFiniteSet(S), NEW f
    PROVE  IsFiniteSet({f[x] : x \in S})
<1> DEFINE h == [x \in S |-> f[x]]
<1>1. h \in Surjection(S, {f[x] : x \in S})
  BY DEF Surjection
<1> QED BY <1>1, FS_Surjection

LEMMA ListOfSet ==
    ASSUME NEW S, IsFiniteSet(S)
    PROVE  SetToSeq(S) \in Seq(S)
<1>1. Cardinality(S) \in Nat /\ ExistsBijection(1..Cardinality(S), S)
  BY FS_CardinalityType
<1>2. \E f \in [1..Cardinality(S) -> S] : IsInjective(f)
  BY <1>1 DEF ExistsBijection, Bijection, Injection
<1>3. SetToSeq(S) \in [1..Cardinality(S) -> S]
  BY <1>2 DEF SetToSeq
<1> QED BY <1>1, <1>3

LEMMA ShapeNodesFinite ==
    ASSUME NEW g, NEW pack, IsSequence(pack.in)
    PROVE  IsFiniteSet(ShapeNodes(g, pack))
<1> DEFINE n == Len(pack.in)
           f == [i \in 1..n - 1 |-> Input(g, pack, i)]
           inputs == {f[i] : i \in 1..n - 1}
           names == [k \in inputs |-> k.name]
           unpacks == {u \in inputs : u.op = "Unpack"}
           sources == [k \in unpacks |-> k.in[1].src]
           last == ResolveIdentityLike(g, Input(g, pack, n)).name
<1>1. IsFiniteSet(1..n - 1)
  BY Indices, FS_Interval
<1>2. IsFiniteSet(inputs)
  BY <1>1, ImageFinite
<1>3. IsFiniteSet(unpacks)
  BY <1>2, FS_Subset
<1>4. inputs = {Input(g, pack, i) : i \in 1..n - 1}
  OBVIOUS
<1> HIDE DEF inputs, unpacks, n, last
<1>5. IsFiniteSet({names[k] : k \in inputs}) /\ IsFiniteSet({sources[k] : k \in unpacks})
  BY <1>2, <1>3, ImageFinite
<1>6. {names[k] : k \in inputs} = {k.name : k \in inputs}
  OBVIOUS
<1>7. {sources[k] : k \in unpacks} = {k.in[1].src : k \in unpacks}
  OBVIOUS
<1>8. IsFiniteSet({last})
  BY FS_Singleton
<1>9. ShapeNodes(g, pack) = {k.name : k \in inputs} \cup {k.in[1].src : k \in unpacks} \cup {last}
  BY <1>4 DEF ShapeNodes, unpacks, n, last
<1>10. /\ IsFiniteSet({k.name : k \in inputs}) /\ IsFiniteSet({k.in[1].src : k \in unpacks})
  <2> HIDE DEF names, sources
  <2> QED BY <1>5, <1>6, <1>7
<1>11. \A A, B, C : IsFiniteSet(A) /\ IsFiniteSet(B) /\ IsFiniteSet(C) => IsFiniteSet(A \cup B \cup C)
  BY FS_Union
<1> QED BY <1>8, <1>9, <1>10, <1>11

\* Looking through identities ends at a node that is consumed, or nowhere.
Found(g) == {NoNode} \cup {k \in ToSet(g) : k.name \in Inputs(g)}

LEMMA InputFound ==
    ASSUME NEW g, IsGraph(g), NEW n \in ToSet(g) \cup {NoNode}, NEW i
    PROVE  Input(g, n, i) \in Found(g)
<1>1. CASE Input(g, n, i) = NoNode
  BY <1>1 DEF Found
<1>2. CASE Input(g, n, i) # NoNode
  <2>1. Input(g, n, i) \in ToSet(g) /\ Input(g, n, i).name \in Sources(n)
    BY <1>2, OperandOf
  <2>2. Sources(NoNode) = {}
    <3>1. DOMAIN <<>> = {}
      OBVIOUS
    <3> QED BY <3>1, NoNodeOp DEF Sources, ToSet
  <2>3. n \in ToSet(g)
    BY <2>1, <2>2
  <2> QED BY <2>1, <2>3 DEF Found, Inputs
<1> QED BY <1>1, <1>2

LEMMA ResolvedFound ==
    ASSUME NEW g, IsGraph(g), NEW start \in Found(g)
    PROVE  ResolveIdentityLike(g, start) \in Found(g)
<1> DEFINE Step(k) == IF k.op = "Identity" /\ k.in # <<>> THEN Input(g, k, 1) ELSE k
           X == Found(g)
           n == Len(g)
           F == [x \in X \X (1..n) |-> Step(x[1])]
           iter == CHOOSE iter : iter = [s \in SUBSET (DOMAIN g) |->
                      IF s = {} THEN start ELSE Step(iter[s \ {Max(s)}])]
<1>1. n \in Nat /\ DOMAIN g = 1..n
  BY Indices DEF IsGraph
<1>2. ResolveIdentityLike(g, start) = iter[DOMAIN g]
  BY DOMAIN [i \in DOMAIN g |-> i] = DOMAIN g
  DEF ResolveIdentityLike, FoldLeftDomain, FoldLeft, MapThenFoldSet
<1> HIDE DEF n
<1>3. ASSUME NEW k \in X
      PROVE  Step(k) \in X
  BY InputFound DEF Found
<1> HIDE DEF X, Step
<1>4. start \in X
  BY DEF X
<1>5. F \in [X \X (1..n) -> X]
  BY <1>3
<1>6. PICK f \in [SUBSET (1..n) -> X] : IsIteration(f, n, start, F)
  BY <1>1, <1>4, <1>5, IterationExists
<1>7. f = [s \in SUBSET (DOMAIN g) |-> IF s = {} THEN start ELSE Step(f[s \ {Max(s)}])]
  <2>1. ASSUME NEW s \in SUBSET (1..n), s # {}
        PROVE  f[s] = Step(f[s \ {Max(s)}])
    <3>1. Max(s) \in 1..n
      BY <1>1, <2>1, MaxOf
    <3>2. f[s \ {Max(s)}] \in X
      OBVIOUS
    <3>3. f[s] = F[<<f[s \ {Max(s)}], Max(s)>>]
      BY <1>6, <2>1 DEF IsIteration
    <3> QED BY <3>1, <3>2, <3>3
  <2>2. ASSUME NEW s \in SUBSET (1..n), s = {}
        PROVE  f[s] = start
    BY <1>6, <2>2 DEF IsIteration
  <2> HIDE DEF F
  <2> QED BY <1>1, <1>6, <2>1, <2>2
<1> HIDE DEF F
<1>8. iter = [s \in SUBSET (DOMAIN g) |-> IF s = {} THEN start ELSE Step(iter[s \ {Max(s)}])]
  BY <1>7
<1> HIDE DEF iter
<1>9. iter[{}] = start
  BY <1>8
<1>10. ASSUME NEW k \in 1..n, iter[(1..k) \ {Max(1..k)}] \in X
       PROVE  iter[1..k] \in X
  <2>1. 1..k \in SUBSET (DOMAIN g) /\ 1..k # {}
    <3>1. k \in 1..k /\ \A j \in 1..k : j \in 1..n
      BY <1>1
    <3> QED BY <1>1, <3>1
  <2>2. iter[1..k] = Step(iter[(1..k) \ {Max(1..k)}])
    BY <1>8, <2>1
  <2> QED BY <1>3, <1>10, <2>2
<1>11. iter[1..n] \in X
  BY <1>1, <1>4, <1>9, <1>10, FoldWithin
<1> QED BY <1>1, <1>2, <1>11 DEF X

LEMMA FoundNames ==
    ASSUME NEW g, NEW k \in Found(g)
    PROVE  k.name \in Inputs(g) \cup {NoNode.name}
  BY DEF Found

LEMMA ShapeNodesFound ==
    ASSUME NEW g, Accepted(g), NEW pack \in ToSet(g)
    PROVE  ShapeNodes(g, pack) \subseteq Inputs(g) \cup {NoNode.name}
<1> DEFINE inputs == {Input(g, pack, i) : i \in 1..Len(pack.in) - 1}
           last == ResolveIdentityLike(g, Input(g, pack, Len(pack.in)))
<1>1. \A k \in inputs : k \in Found(g)
  BY InputFound DEF Accepted
<1>2. last \in Found(g)
  BY InputFound, ResolvedFound DEF Accepted
<1>3. ASSUME NEW k \in inputs, k.op = "Unpack"
      PROVE  k.in[1].src \in Inputs(g)
  <2>1. k \in ToSet(g)
    BY <1>1, <1>3, NoNodeOp DEF Found
  <2>2. k.in # <<>> /\ IsSequence(k.in)
    BY <1>3, <2>1 DEF Accepted, HaveOperands, IsGraph, IsNode, ToSet
  <2>3. 1 \in DOMAIN k.in
    BY <2>2, EmptySeq, Indices DEF IsSequence
  <2> QED BY <2>1, <2>3 DEF Inputs, Sources, ToSet
<1>4. ShapeNodes(g, pack) = {k.name : k \in inputs}
                              \cup {k.in[1].src : k \in {u \in inputs : u.op = "Unpack"}}
                              \cup {last.name}
  BY DEF ShapeNodes
<1> HIDE DEF inputs, last
<1> QED BY <1>1, <1>2, <1>3, <1>4, FoundNames

LEMMA Listed ==
    ASSUME NEW s, NEW t, NEW S, s \in Seq(S), t \in Seq(S)
    PROVE  IsSequence(s \o t) /\ ToSet(s \o t) \subseteq S
<1>1. PICK q : q = s \o t
  OBVIOUS
<1>2. q \in Seq(S)
  BY <1>1
<1>3. IsSequence(q)
  BY <1>2, OfItsElements
<1>4. \A i \in DOMAIN q : q[i] \in S
  BY <1>2
<1> QED BY <1>1, <1>3, <1>4 DEF ToSet

LEMMA ReshapeMatMulKeeps ==
    ASSUME NEW g, NEW n \in ToSet(g), NEW names, Accepted(g), Provides(g, names),
           MatchReshapeMatMul(g, n).matched
    PROVE  Improves(ApplyReshapeMatMul(g, MatchReshapeMatMul(g, n)).graph, g, names)
<1> DEFINE matmul  == Input(g, n, 1)
           pack    == Input(g, n, 2)
           reshape == Input(g, matmul, 1)
           flat    == ResolveIdentityLike(g, Input(g, reshape, 2))
           shape_nodes == ShapeNodes(g, pack)
           a    == reshape.in[1]
           b    == matmul.in[2]
           in   == <<a, b>>
           attr == SubSeq(Transposes(matmul), 2, 2)
           fused == FusedAs(n.name, "MusaReshapeMatMul", in, n.T, n.device, attr)
           own  == <<Original(n.name), matmul.name, reshape.name, pack.name, flat.name>>
           obsolete == own \o SetToSeq(shape_nodes)
           kept == Protects(ToSet(in)) \cup {n.name}
           m    == MatchReshapeMatMul(g, n)
<1>1. /\ n.op = "Reshape" /\ ~HasOriginalSuffix(n.name)
      /\ matmul.op = "MatMul" /\ IsBinary(matmul) /\ pack.op = "Pack"
      /\ reshape.op = "Reshape" /\ IsBinary(reshape)
      /\ m = [matched |-> TRUE, output |-> n, matmul |-> matmul, reshape |-> reshape,
              pack |-> pack, flat |-> flat, shape_nodes |-> shape_nodes]
  BY DEF MatchReshapeMatMul, NoMatch
<1>2. ApplyReshapeMatMul(g, m).graph = Replace(g, n.name, fused, obsolete, kept)
  BY <1>1 DEF ApplyReshapeMatMul, Ok, FusedAs
<1> HIDE DEF m, attr, kept, matmul, reshape, pack, flat, own, shape_nodes
<1>3. /\ matmul \in ToSet(g) /\ Len(matmul.in) >= 2
      /\ reshape \in ToSet(g) /\ Len(reshape.in) >= 2
      /\ pack \in ToSet(g) /\ IsSequence(pack.in)
      /\ {matmul.name, reshape.name, pack.name} \subseteq Inputs(g)
  <2>1. matmul \in ToSet(g) /\ matmul.name \in Inputs(g)
    BY <1>1, FoundNode DEF matmul
  <2>2. reshape \in ToSet(g) /\ reshape.name \in Inputs(g)
    BY <1>1, <2>1, FoundNode DEF reshape
  <2>3. IsNode(pack) /\ pack \in ToSet(g) /\ pack.name \in Inputs(g)
    BY <1>1, FoundNode DEF pack
  <2> QED BY <1>1, <2>1, <2>2, <2>3 DEF IsBinary, IsNode
<1>4. {a.src, b.src} \subseteq Inputs(g)
  BY <1>3, OperandNamed
<1> HIDE DEF a, b
<1>5. IsSequence(n.name)
  BY DEF Accepted, IsGraph, IsNode, ToSet
<1>6. IsSequence(in) /\ \A f : f.in = in => Sources(f) \subseteq Inputs(g) /\ f.in # <<>>
  BY <1>4, ThreeInputs
<1> HIDE DEF in
<1>7. IsNode(fused) /\ fused.name = n.name /\ fused.op = "MusaReshapeMatMul" /\ fused.in = in
  BY <1>5, <1>6, FusedNode
<1> HIDE DEF fused
<1>8. /\ IsSequence(obsolete)
      /\ ToSet(obsolete) \subseteq Inputs(g) \cup {Original(n.name), NoNode.name}
  <2> DEFINE S == Inputs(g) \cup {Original(n.name), NoNode.name}
  <2>1. IsFiniteSet(shape_nodes) /\ shape_nodes \subseteq S
    BY <1>3, ShapeNodesFinite, ShapeNodesFound DEF shape_nodes
  <2>2. SetToSeq(shape_nodes) \in Seq(S)
    BY <2>1, ListOfSet, SeqMonotonic
  <2>3. flat.name \in S
    BY <1>3, InputFound, ResolvedFound, FoundNames DEF Accepted, flat
  <2>4. {Original(n.name), matmul.name, reshape.name, pack.name, flat.name} \subseteq S
    BY <1>3, <2>3
  <2> HIDE DEF S
  <2>5. own \in Seq(S)
    BY <2>4 DEF own
  <2> QED BY <2>2, <2>5, Listed DEF S
<1>9. n.op \in RenamedOps /\ fused.op \notin PlainOps
  BY <1>1, <1>7 DEF RenamedOps, PlainOps
<1> HIDE DEF obsolete
<1> QED BY <1>1, <1>2, <1>6, <1>7, <1>8, <1>9, AcceptedReplaced DEF m
-----------------------------------------------------------------------------
(***************************************************************************)
(* Folds from the right: the same, with the smallest index first.          *)
(***************************************************************************)
LEMMA MinOf ==
    ASSUME NEW n \in Nat, NEW s \in SUBSET (1..n), s # {}
    PROVE  Min(s) \in s /\ \A y \in s : Min(s) <= y
<1>1. s \in SUBSET Nat
  OBVIOUS
<1>2. PICK x \in s : \A y \in s : x <= y
  BY <1>1, Minimum
<1> QED BY <1>2 DEF Min

IsIterationDown(f, n, base, F) ==
    \A s \in SUBSET (1..n) : f[s] = IF s = {} THEN base ELSE F[<<f[s \ {Min(s)}], Min(s)>>]

LEMMA IterationDownExists ==
    ASSUME NEW X, NEW base \in X, NEW n \in Nat, NEW F \in [X \X (1..n) -> X]
    PROVE  \E f \in [SUBSET (1..n) -> X] : IsIterationDown(f, n, base, F)
<1> DEFINE G == [x \in X \X (1..n) |-> F[<<x[1], n + 1 - x[2]>>]]
           Mirror(s) == {n + 1 - y : y \in s}
<1>1. \A i \in 1..n : n + 1 - i \in 1..n /\ n + 1 - (n + 1 - i) = i
  OBVIOUS
<1>2. G \in [X \X (1..n) -> X]
  BY <1>1
<1>3. PICK f \in [SUBSET (1..n) -> X] : IsIteration(f, n, base, G)
  BY <1>2, IterationExists
<1> DEFINE h == [s \in SUBSET (1..n) |-> f[Mirror(s)]]
<1>4. \A s \in SUBSET (1..n) : Mirror(s) \in SUBSET (1..n) /\ (s # {} => Mirror(s) # {})
  <2> TAKE s \in SUBSET (1..n)
  <2>1. \A y \in s : y \in 1..n /\ n + 1 - y \in 1..n
    BY <1>1
  <2>2. ASSUME s # {} PROVE Mirror(s) # {}
    <3>1. PICK y \in s : TRUE
      BY <2>2
    <3>2. n + 1 - y \in Mirror(s)
      OBVIOUS
    <3> QED BY <3>2
  <2> QED BY <2>1, <2>2
<1>5. h \in [SUBSET (1..n) -> X]
  BY <1>4
<1>6. ASSUME NEW s \in SUBSET (1..n), s # {}
      PROVE  /\ Max(Mirror(s)) = n + 1 - Min(s)
             /\ Mirror(s) \ {Max(Mirror(s))} = Mirror(s \ {Min(s)})
  <2>0. \A y \in s : y \in 1..n
    OBVIOUS
  <2>1. Min(s) \in s /\ \A y \in s : Min(s) <= y
    BY <1>6, MinOf
  <2>2. Max(Mirror(s)) \in Mirror(s) /\ \A y \in Mirror(s) : y <= Max(Mirror(s))
    BY <1>4, <1>6, MaxOf
  <2>3. PICK x \in s : Max(Mirror(s)) = n + 1 - x
    BY <2>2
  <2>4. n + 1 - Min(s) <= n + 1 - x
    BY <2>1, <2>2, <2>3
  <2>5. x = Min(s)
    <3>1. x \in 1..n /\ Min(s) \in 1..n /\ Min(s) <= x
      BY <2>0, <2>1
    <3> QED BY <2>4, <3>1
  <2>6. \A y \in s : n + 1 - y = n + 1 - Min(s) => y = Min(s)
    <3> TAKE y \in s
    <3>1. y \in 1..n /\ Min(s) \in 1..n
      BY <2>0, <2>1
    <3> QED BY <3>1
  <2> QED BY <2>3, <2>5, <2>6
<1>7. ASSUME NEW s \in SUBSET (1..n)
      PROVE  h[s] = IF s = {} THEN base ELSE F[<<h[s \ {Min(s)}], Min(s)>>]
  <2>1. CASE s = {}
    <3>1. Mirror(s) = {}
      BY <2>1
    <3> QED BY <1>3, <1>4, <2>1, <3>1 DEF IsIteration
  <2>2. CASE s # {}
    <3> DEFINE t == Mirror(s)
               r == s \ {Min(s)}
    <3>1. t \in SUBSET (1..n) /\ t # {}
      BY <1>4, <2>2
    <3>2. Min(s) \in 1..n /\ r \in SUBSET (1..n) /\ Max(t) \in 1..n
      BY <2>2, <3>1, MinOf, MaxOf
    <3>3. h[s] = f[t] /\ h[r] = f[Mirror(r)]
      BY <3>2
    <3>4. Max(t) = n + 1 - Min(s) /\ t \ {Max(t)} = Mirror(r)
      BY <1>6, <2>2
    <3>5. f[t] = G[<<f[t \ {Max(t)}], Max(t)>>] /\ f[t \ {Max(t)}] \in X
      BY <1>3, <3>1 DEF IsIteration
    <3> HIDE DEF t, r, h, Mirror
    <3>6. G[<<f[t \ {Max(t)}], Max(t)>>] = F[<<f[t \ {Max(t)}], n + 1 - Max(t)>>]
      BY <3>2, <3>5
    <3>7. n + 1 - Max(t) = Min(s)
      BY <1>1, <3>2, <3>4
    <3> QED BY <2>2, <3>3, <3>4, <3>5, <3>6, <3>7 DEF r
  <2> QED BY <2>1, <2>2
<1>8. IsIterationDown(h, n, base, F)
  BY <1>7 DEF IsIterationDown
<1> HIDE DEF h
<1> QED BY <1>5, <1>8

LEMMA MinFrom ==
    ASSUME NEW n \in Nat, NEW k \in 1..n
    PROVE  Min(k..n) = k /\ (k..n) \ {k} = k + 1..n
<1>1. k..n \in SUBSET (1..n) /\ k \in k..n
  OBVIOUS
<1>2. Min(k..n) \in k..n /\ Min(k..n) <= k
  BY <1>1, MinOf
<1> QED BY <1>2

(***************************************************************************)
(* RemoveNodes: what it has done when it has come down to the index k.     *)
(***************************************************************************)
Cut(h, g, names, k) ==
    /\ Reduced(h, g) /\ Len(h) >= k - 1
    /\ \A j \in 1..k - 1 : h[j] = g[j]
    /\ \A j \in k..Len(h) : h[j].name \notin names
    /\ \A j \in k..Len(g) : g[j].name \notin names => g[j] \in ToSet(h)

CutAt(h, names, i) == IF h[i].name \in names THEN RemoveNode(h, i) ELSE h

LEMMA OneCut ==
    ASSUME NEW g, NEW h, NEW names, NEW i \in 1..Len(g), IsGraph(g), Cut(h, g, names, i + 1)
    PROVE  Cut(CutAt(h, names, i), g, names, i)
<1>1. IsGraph(h) /\ Names(h) \subseteq Names(g) /\ ToSet(h) \subseteq ToSet(g)
  BY ReducedGraph DEF Cut
<1>2. /\ Len(g) \in Nat /\ DOMAIN g = 1..Len(g) /\ Len(h) \in Nat /\ DOMAIN h = 1..Len(h)
  BY <1>1, Indices DEF IsGraph
<1>3. i \in DOMAIN h /\ h[i] = g[i] /\ i + 1 - 1 = i
  BY <1>2 DEF Cut
<1>4. /\ \A j \in 1..i : h[j] = g[j]
      /\ \A j \in i + 1..Len(h) : h[j].name \notin names
      /\ \A j \in i + 1..Len(g) : g[j].name \notin names => g[j] \in ToSet(h)
  BY <1>3 DEF Cut
<1>5. \A j \in i..Len(g) : j = i \/ j \in i + 1..Len(g)
  BY <1>2
<1>6. CASE h[i].name \in names
  <2> DEFINE r == RemoveNode(h, i)
  <2>1. Reduced(r, h) /\ ToSet(r) = ToSet(h) \ {h[i]}
    BY <1>1, <1>3, OneRemoved
  <2>2. /\ Len(r) = Len(h) - 1
        /\ \A j \in 1..Len(h) - 1 : r[j] = IF j = i THEN h[Len(h)] ELSE h[j]
    BY <1>1, <1>3, NodeRemoved DEF IsGraph
  <2> HIDE DEF r
  <2>3. Reduced(r, g)
    <3>1. r \in Seq(ToSet(g))
      BY <1>1, <2>1, SeqMonotonic DEF Reduced
    <3> QED BY <2>1, <3>1 DEF Reduced
  <2>4. Len(r) >= i - 1
    BY <1>2, <1>3, <2>2
  <2>5. \A j \in 1..i - 1 : r[j] = g[j]
    <3> TAKE j \in 1..i - 1
    <3>1. j \in 1..Len(h) - 1 /\ j # i /\ j \in 1..i
      BY <1>2, <1>3
    <3> QED BY <1>4, <2>2, <3>1
  <2>6. \A j \in i..Len(r) : r[j].name \notin names
    <3> TAKE j \in i..Len(r)
    <3>1. j \in 1..Len(h) - 1 /\ Len(h) \in i + 1..Len(h) /\ (j # i => j \in i + 1..Len(h))
      BY <1>2, <1>3, <2>2
    <3> QED BY <1>4, <2>2, <3>1
  <2>7. \A j \in i..Len(g) : g[j].name \notin names => g[j] \in ToSet(r)
    BY <1>3, <1>4, <1>5, <1>6, <2>1
  <2>8. CutAt(h, names, i) = r
    BY <1>6 DEF CutAt, r
  <2> QED BY <2>3, <2>4, <2>5, <2>6, <2>7, <2>8 DEF Cut
<1>7. CASE h[i].name \notin names
  <2>1. CutAt(h, names, i) = h
    BY <1>7 DEF CutAt
  <2>2. \A j \in i..Len(h) : j = i \/ j \in i + 1..Len(h)
    BY <1>2
  <2>3. \A j \in i..Len(h) : h[j].name \notin names
    BY <1>4, <1>7, <2>2
  <2>4. h[i] \in ToSet(h)
    BY <1>3 DEF ToSet
  <2>5. \A j \in i..Len(g) : g[j].name \notin names => g[j] \in ToSet(h)
    BY <1>3, <1>4, <1>5, <2>4
  <2>6. Len(h) >= i - 1 /\ \A j \in 1..i - 1 : j \in 1..i
    BY <1>2, <1>3
  <2> QED BY <1>4, <2>1, <2>3, <2>5, <2>6 DEF Cut
<1> QED BY <1>6, <1>7

LEMMA CutWithin ==
    ASSUME NEW S, NEW h \in Seq(S), NEW names, NEW i \in Nat
    PROVE  CutAt(h, names, i) \in Seq(S)
<1> DEFINE swapped == [h EXCEPT ![i] = Last(h)]
<1>1. Len(h) \in Nat /\ DOMAIN h = 1..Len(h) /\ \A j \in DOMAIN h : h[j] \in S
  OBVIOUS
<1>2. ASSUME i \in DOMAIN h PROVE Last(h) \in S
  BY <1>1, <1>2 DEF Last
<1>3. swapped \in [1..Len(h) -> S]
  BY <1>1, <1>2
<1>4. swapped \in Seq(S) /\ Len(swapped) = Len(h)
  BY <1>1, <1>3
<1> HIDE DEF swapped
<1>5. SubSeq(swapped, 1, Len(h) - 1) \in Seq(S)
  BY <1>1, <1>4
<1> QED BY <1>4, <1>5 DEF CutAt, RemoveNode, Front, swapped

(***************************************************************************)
(* RemoveNodes: exactly the nodes with these names go, also if there are   *)
(* others that consume them.                                               *)
(***************************************************************************)
LEMMA NodesRemoved ==
    ASSUME NEW g, NEW names, IsGraph(g)
    PROVE  /\ Reduced(RemoveNodes(g, names), g)
           /\ ToSet(RemoveNodes(g, names)) = {n \in ToSet(g) : n.name \notin names}
<1> DEFINE n == Len(g)
           X == Seq(ToSet(g))
           F == [x \in X \X (1..n) |-> CutAt(x[1], names, x[2])]
           idx == [i \in DOMAIN g |-> i]
           iter == CHOOSE iter : iter = [s \in SUBSET (DOMAIN g) |->
                      IF s = {} THEN g ELSE CutAt(iter[s \ {Min(s)}], names, idx[Min(s)])]
<1>1. n \in Nat /\ DOMAIN g = 1..n
  BY Indices DEF IsGraph
<1>2. RemoveNodes(g, names) = iter[DOMAIN g]
  BY DOMAIN idx = DOMAIN g DEF RemoveNodes, CutAt, FoldRightDomain, FoldRight, MapThenFoldSet
<1> HIDE DEF n
<1>3. g \in X
  BY DEF IsGraph, IsSequence
<1>4. F \in [X \X (1..n) -> X]
  BY CutWithin
<1> HIDE DEF X
<1>5. PICK f \in [SUBSET (1..n) -> X] : IsIterationDown(f, n, g, F)
  BY <1>1, <1>3, <1>4, IterationDownExists
<1>6. f = [s \in SUBSET (DOMAIN g) |->
             IF s = {} THEN g ELSE CutAt(f[s \ {Min(s)}], names, idx[Min(s)])]
  <2>1. ASSUME NEW s \in SUBSET (1..n), s # {}
        PROVE  f[s] = CutAt(f[s \ {Min(s)}], names, idx[Min(s)])
    <3>1. Min(s) \in 1..n /\ idx[Min(s)] = Min(s)
      BY <1>1, <2>1, MinOf
    <3>2. f[s \ {Min(s)}] \in X
      OBVIOUS
    <3>3. f[s] = F[<<f[s \ {Min(s)}], Min(s)>>]
      BY <1>5, <2>1 DEF IsIterationDown
    <3> QED BY <3>1, <3>2, <3>3
  <2>2. ASSUME NEW s \in SUBSET (1..n), s = {}
        PROVE  f[s] = g
    BY <1>5, <2>2 DEF IsIterationDown
  <2> HIDE DEF F
  <2> QED BY <1>1, <1>5, <2>1, <2>2
<1> HIDE DEF F
<1>7. iter = [s \in SUBSET (DOMAIN g) |->
                IF s = {} THEN g ELSE CutAt(iter[s \ {Min(s)}], names, idx[Min(s)])]
  BY <1>6
<1> HIDE DEF iter
<1> DEFINE P == {k \in 0..n : Cut(iter[n + 1 - k..n], g, names, n + 1 - k)}
<1>8. 0 \in P
  <2>1. n + 1 - 0..n = {} /\ n + 1 - 0 = n + 1 /\ 0 \in 0..n
    BY <1>1
  <2>2. iter[{}] = g
    BY <1>7
  <2>3. Cut(g, g, names, n + 1)
    BY <1>1, <1>3 DEF Cut, Reduced, IsGraph, X, n
  <2> QED BY <2>1, <2>2, <2>3
<1>9. ASSUME NEW k \in 0..n, k \in P, k < n
      PROVE  k + 1 \in P
  <2> DEFINE i == n - k
  <2>1. i \in 1..n /\ i + 1 = n + 1 - k /\ i = n + 1 - (k + 1) /\ k + 1 \in 0..n
    BY <1>1, <1>9
  <2> HIDE DEF i
  <2>2. Min(i..n) = i /\ (i..n) \ {i} = i + 1..n
    BY <1>1, <2>1, MinFrom
  <2>3. i..n \in SUBSET (DOMAIN g) /\ i..n # {}
    <3>1. i \in i..n /\ \A j \in i..n : j \in 1..n
      BY <1>1, <2>1
    <3> QED BY <1>1, <3>1
  <2>4. iter[i..n] = CutAt(iter[i + 1..n], names, i)
    <3>1. i \in DOMAIN g /\ idx[i] = i
      BY <1>1, <2>1
    <3> HIDE DEF idx
    <3>2. iter[i..n] = CutAt(iter[(i..n) \ {Min(i..n)}], names, idx[Min(i..n)])
      BY <1>7, <2>3
    <3> QED BY <2>2, <3>1, <3>2
  <2>5. Cut(iter[i + 1..n], g, names, i + 1)
    BY <1>9, <2>1
  <2>6. Cut(iter[i..n], g, names, i)
    BY <2>1, <2>4, <2>5, OneCut DEF n
  <2> QED BY <2>1, <2>6
<1> HIDE DEF P
<1>10. n \in P
  BY <1>1, <1>8, <1>9, UpTo
<1>11. Cut(iter[1..n], g, names, 1)
  BY <1>1, <1>10 DEF P
<1> DEFINE r == iter[1..n]
<1> HIDE DEF r
<1>12. Cut(r, g, names, 1) /\ r = RemoveNodes(g, names)
  BY <1>1, <1>2, <1>11 DEF r
<1>13. Reduced(r, g) /\ r \in Seq(ToSet(g)) /\ DOMAIN r = 1..Len(r)
  BY <1>12 DEF Cut, Reduced
<1>14. \A j \in DOMAIN r : r[j].name \notin names /\ r[j] \in ToSet(g)
  BY <1>12, <1>13 DEF Cut
<1>15. \A j \in DOMAIN g : g[j].name \notin names => g[j] \in ToSet(r)
  BY <1>1, <1>12 DEF Cut, n
<1> QED BY <1>12, <1>13, <1>14, <1>15 DEF ToSet

(***************************************************************************)
(* RemoveIsolatedNodes: nothing consumes what it removes, so that the      *)
(* graph stays accepted.                                                   *)
(***************************************************************************)
LEMMA IsolatedRemoved ==
    ASSUME NEW g, NEW names, Serves(g, names)
    PROVE  Serves(RemoveNodes(g, Isolated(g)), names)
<1> DEFINE h == RemoveNodes(g, Isolated(g))
<1>1. Reduced(h, g) /\ ToSet(h) = {n \in ToSet(g) : n.name \notin Isolated(g)}
  BY NodesRemoved DEF Serves, Accepted
<1>2. \A n \in ToSet(g) : Sources(n) \subseteq Names(g)
  BY DEF Serves, Accepted, Closed, ToSet
<1>3. \A n \in ToSet(g) : Sources(n) \cap Isolated(g) = {}
  BY DEF Isolated, Consumers
<1> HIDE DEF h
<1>4. Names(g) \ Isolated(g) \subseteq Names(h)
  BY <1>1 DEF Names, ToSet
<1>5. \A n \in ToSet(h) : Sources(n) \subseteq Names(h)
  BY <1>1, <1>2, <1>3, <1>4
<1>6. Pruned(h, g, Isolated(g))
  BY <1>1, <1>4, <1>5 DEF Pruned, Closed, ToSet
<1>7. Accepted(h)
  BY <1>6, AcceptedPruned DEF Serves
<1>8. names \cap Isolated(g) = {}
  <2> SUFFICES ASSUME NEW name \in names, name \in Isolated(g) PROVE FALSE
    OBVIOUS
  <2>1. PICK n \in ToSet(g) : n.name = name /\ n.in # <<>> /\ n.op # "Const"
    BY DEF Serves, Provides
  <2>2. PICK k \in ToSet(g) : k.name = name /\ (k.op = "Const" \/ k.in = <<>>)
    BY DEF Isolated, IsFusionResidualConst
  <2>3. \A q, r \in ToSet(g) : q.name = r.name => q = r
    BY DEF Serves, Accepted, IsGraph, ToSet
  <2> QED BY <2>1, <2>2, <2>3
<1>9. Provides(h, names)
  BY <1>6, <1>8, ProvidedPruned DEF Serves, Accepted
<1> QED BY <1>7, <1>9 DEF Serves, h

(***************************************************************************)
(* RemoveIsolatedNodes, all its rounds: the graph stays accepted, keeps    *)
(* what it provides, and has nothing new to fuse.                          *)
(***************************************************************************)
LEMMA IsolatedNodesRemoved ==
    ASSUME NEW g, NEW names, Serves(g, names)
    PROVE  /\ Serves(RemoveIsolatedNodes(g), names)
           /\ Fusible(RemoveIsolatedNodes(g)) \subseteq Fusible(g)
<1> DEFINE Step(h) == IF Isolated(h) = {} THEN h ELSE RemoveNodes(h, Isolated(h))
           X == {h \in Seq(ToSet(g)) : Serves(h, names)}
           n == Len(g)
           F == [x \in X \X (1..n) |-> Step(x[1])]
           iter == CHOOSE iter : iter = [s \in SUBSET (DOMAIN g) |->
                      IF s = {} THEN g ELSE Step(iter[s \ {Max(s)}])]
<1>1. n \in Nat /\ DOMAIN g = 1..n
  BY Indices DEF Serves, Accepted, IsGraph
<1>2. RemoveIsolatedNodes(g) = iter[DOMAIN g]
  BY DOMAIN [i \in DOMAIN g |-> i] = DOMAIN g
  DEF RemoveIsolatedNodes, FoldLeftDomain, FoldLeft, MapThenFoldSet
<1> HIDE DEF n
<1>3. g \in X
  BY DEF Serves, Accepted, IsGraph, IsSequence
<1>4. ASSUME NEW h \in X
      PROVE  Step(h) \in X
  <2>1. Serves(Step(h), names)
    BY IsolatedRemoved
  <2>2. Step(h) \in Seq(ToSet(h))
    BY NodesRemoved DEF Serves, Accepted, IsGraph, IsSequence, Reduced
  <2>3. ToSet(h) \subseteq ToSet(g)
    BY DEF ToSet
  <2>4. Step(h) \in Seq(ToSet(g))
    BY <2>2, <2>3, SeqMonotonic
  <2> QED BY <2>1, <2>4
<1> HIDE DEF X, Step
<1>5. F \in [X \X (1..n) -> X]
  BY <1>4
<1>6. PICK f \in [SUBSET (1..n) -> X] : IsIteration(f, n, g, F)
  BY <1>1, <1>3, <1>5, IterationExists
<1>7. f = [s \in SUBSET (DOMAIN g) |-> IF s = {} THEN g ELSE Step(f[s \ {Max(s)}])]
  <2>1. ASSUME NEW s \in SUBSET (1..n), s # {}
        PROVE  f[s] = Step(f[s \ {Max(s)}])
    <3>1. Max(s) \in 1..n
      BY <1>1, <2>1, MaxOf
    <3>2. f[s \ {Max(s)}] \in X
      OBVIOUS
    <3>3. f[s] = F[<<f[s \ {Max(s)}], Max(s)>>]
      BY <1>6, <2>1 DEF IsIteration
    <3> QED BY <3>1, <3>2, <3>3
  <2>2. ASSUME NEW s \in SUBSET (1..n), s = {}
        PROVE  f[s] = g
    BY <1>6, <2>2 DEF IsIteration
  <2> HIDE DEF F
  <2> QED BY <1>1, <1>6, <2>1, <2>2
<1> HIDE DEF F
<1>8. iter = [s \in SUBSET (DOMAIN g) |-> IF s = {} THEN g ELSE Step(iter[s \ {Max(s)}])]
  BY <1>7
<1> HIDE DEF iter
<1>9. iter[{}] = g
  BY <1>8
<1>10. ASSUME NEW k \in 1..n, iter[(1..k) \ {Max(1..k)}] \in X
       PROVE  iter[1..k] \in X
  <2>1. 1..k \in SUBSET (DOMAIN g) /\ 1..k # {}
    <3>1. k \in 1..k /\ \A j \in 1..k : j \in 1..n
      BY <1>1
    <3> QED BY <1>1, <3>1
  <2>2. iter[1..k] = Step(iter[(1..k) \ {Max(1..k)}])
    BY <1>8, <2>1
  <2> QED BY <1>4, <1>10, <2>2
<1>11. iter[1..n] \in X
  BY <1>1, <1>3, <1>9, <1>10, FoldWithin
<1>12. RemoveIsolatedNodes(g) \in X
  BY <1>1, <1>2, <1>11
<1>13. ToSet(RemoveIsolatedNodes(g)) \subseteq ToSet(g)
  BY <1>12 DEF X, ToSet
<1> QED BY <1>12, <1>13 DEF X, Fusible

(***************************************************************************)
(* Patterns that remove nodes whatever consumes them: the graph stays      *)
(* accepted if only nodes that go as well consume them.                    *)
(***************************************************************************)
LEMMA AcceptedWithout ==
    ASSUME NEW g, NEW n \in ToSet(g), NEW fused, NEW gone, NEW names,
           Accepted(g), Provides(g, names), gone \cap names = {},
           IsFusible(n), Original(n.name) \notin Names(g),
           IsNode(fused), fused.name = n.name, Sources(fused) \subseteq Inputs(g) \ gone,
           fused.op \notin PlainOps, fused.in # <<>>,
           Original(n.name) \in gone,
           \A k \in ToSet(g) : k.name = n.name \/ k.name \in gone \/ Sources(k) \cap gone = {}
    PROVE  Improves(RemoveNodes(SteppedAside(g, n.name, fused), gone), g, names)
<1> DEFINE output == n.name
           h == SteppedAside(g, output, fused)
           r == RemoveNodes(h, gone)
<1>1. n.name \in Names(g) /\ IsSequence(n.name)
  BY DEF ToSet, Names, Accepted, IsGraph, IsNode
<1>12. Provides(h, names)
  BY ProvidedAside DEF PlainOps
<1>13. Sources(fused) \subseteq Names(g)
  BY InputsInGraph DEF Accepted
<1> HIDE DEF h
<1>2. /\ IsGraph(h) /\ Closed(h)
      /\ Names(h) = Names(g) \cup {Original(output)}
      /\ \A k \in ToSet(h) :
            \/ k \in ToSet(g) /\ k.name # output
            \/ k = fused
            \/ \E q \in ToSet(g) : q.name = output /\ k = [q EXCEPT !.name = Original(output)]
  BY <1>1, <1>13, StepsAside DEF Accepted, h
<1>3. \A k \in ToSet(g) : IsNode(k)
  BY DEF ToSet, Accepted, IsGraph
<1>4. \A k \in ToSet(h) :
            \/ k \in ToSet(g) /\ k.name # output
            \/ k = fused
            \/ k.name = Original(output)
  BY <1>2, <1>3 DEF IsNode
<1>5. Reduced(r, h) /\ ToSet(r) = {k \in ToSet(h) : k.name \notin gone}
  BY <1>2, NodesRemoved
<1> HIDE DEF r
<1>6. IsGraph(r) /\ Names(r) \subseteq Names(h)
  BY <1>2, <1>5, ReducedGraph
<1>7. \A k \in ToSet(r) : k = fused \/ (k \in ToSet(g) /\ k.name # output /\ k.name \notin gone)
  BY <1>4, <1>5
<1>8. Names(h) \ gone \subseteq Names(r)
  BY <1>5 DEF Names, ToSet
<1>9. Closed(r)
  <2>1. \A k \in ToSet(g) : Sources(k) \subseteq Names(g)
    BY DEF Accepted, Closed, ToSet
  <2>2. \A k \in ToSet(r) : Sources(k) \subseteq Names(r)
    BY <1>2, <1>7, <1>8, <1>13, <2>1
  <2> QED BY <2>2 DEF Closed, ToSet
<1>10. HaveOperands(r)
  BY <1>7 DEF HaveOperands, Accepted, RenamedOps, PlainOps
<1>11. FreshOriginals(r)
  <2> SUFFICES ASSUME NEW k \in ToSet(r),
                      k.op = "Maximum" \/ (k.op \in RenamedOps /\ ~HasOriginalSuffix(k.name))
               PROVE  Original(k.name) \notin Names(r)
    BY DEF FreshOriginals
  <2>1. k \in ToSet(g) /\ k.name # output
    BY <1>7 DEF RenamedOps, PlainOps
  <2>2. Original(k.name) \notin Names(g)
    BY <2>1 DEF Accepted, FreshOriginals
  <2>3. Original(k.name) # Original(output)
    BY <1>1, <1>3, <2>1, OriginalsDiffer DEF IsNode
  <2> QED BY <1>2, <1>6, <2>2, <2>3
<1>14. Provides(r, names)
  <2>1. Inputs(r) \subseteq Inputs(h)
    BY <1>5 DEF Inputs
  <2> QED BY <1>5, <1>12, <2>1 DEF Provides
<1>15. \A k \in ToSet(r) : IsFusible(k) => k \in ToSet(g) /\ k.name # n.name
  BY <1>7 DEF IsFusible, RenamedOps, PlainOps
<1>16. Fusible(r) \subseteq Fusible(g) /\ Fusible(r) # Fusible(g)
  BY <1>15, FusibleShrinks
<1> QED BY <1>6, <1>9, <1>10, <1>11, <1>14, <1>16 DEF Serves, Improves, Accepted, r, h

Plain(name, op, in, T, device) == [Node(name, op, in) EXCEPT !.T = T, !.device = device]

LEMMA PlainNode ==
    ASSUME NEW name, NEW op, NEW in, NEW T, NEW device, IsSequence(name), IsSequence(in)
    PROVE  LET f == Plain(name, op, in, T, device)
           IN  IsNode(f) /\ f.name = name /\ f.op = op /\ f.in = in
<1>1. PICK f : f = Plain(name, op, in, T, device)
  OBVIOUS
<1>2. f = [name |-> name, op |-> op, in |-> in, device |-> device, T |-> T, attr |-> <<>>,
           val |-> <<>>, shape |-> Unknown]
  BY <1>1 DEF Node, Plain
<1>3. IsNode(f) /\ f.name = name /\ f.op = op /\ f.in = in
  BY <1>2 DEF IsNode
<1> QED BY <1>1, <1>3

LEMMA ClipKeeps ==
    ASSUME NEW g, NEW n \in ToSet(g), NEW names, Accepted(g), Provides(g, names),
           MatchClip(g, n).matched
    PROVE  Improves(ApplyClip(g, MatchClip(g, n)).graph, g, names)
<1> DEFINE side  == IF Input(g, n, 1).op = "Minimum" THEN 1 ELSE 2
           inner == Input(g, n, side)
           x     == inner.in[1]
           hi    == inner.in[2]
           lo    == n.in[3 - side]
           in    == <<x, lo, hi>>
           fused == Plain(n.name, "MusaClip", in, n.T, n.device)
           h     == SteppedAside(g, n.name, fused)
           users == {k.name : k \in Consumers(h, inner.name)} \ {Original(n.name)}
           gone  == {Original(n.name)} \cup IF users = {} THEN {inner.name} ELSE {}
           m     == MatchClip(g, n)
<1>1. /\ n.op = "Maximum" /\ Len(n.in) = 2 /\ inner.op = "Minimum" /\ Len(inner.in) = 2
      /\ m = [matched |-> TRUE, output |-> n, inner |-> inner, x |-> x, hi |-> hi, lo |-> lo]
  BY DEF MatchClip, NoMatch, IsBinary
<1>2. ApplyClip(g, m).graph = RemoveNodes(h, gone)
  BY <1>1 DEF ApplyClip, Ok, Plain, SteppedAside
<1> HIDE DEF m
<1>3. IsNode(n) /\ \A k \in ToSet(g) : IsNode(k)
  BY DEF Accepted, IsGraph, ToSet
<1>4. inner \in ToSet(g) /\ inner.name \in Inputs(g)
  BY <1>1, FoundNode
<1>5. 3 - side \in DOMAIN n.in /\ 1 \in DOMAIN inner.in /\ 2 \in DOMAIN inner.in
  BY <1>1, <1>3, <1>4, Indices DEF IsNode
<1> HIDE DEF side, inner
<1>6. /\ IsSequence(in)
      /\ \A i \in DOMAIN in : \E k \in ToSet(g) : \E j \in DOMAIN k.in : in[i] = k.in[j]
  <2>1. in \in Seq({x, lo, hi}) /\ DOMAIN in = 1..3 /\ in[1] = x /\ in[2] = lo /\ in[3] = hi
    OBVIOUS
  <2>2. \A i \in 1..3 : i = 1 \/ i = 2 \/ i = 3
    OBVIOUS
  <2>3. \A v \in {x, lo, hi} : \E k \in ToSet(g) : \E j \in DOMAIN k.in : v = k.in[j]
    BY <1>4, <1>5
  <2> HIDE DEF in, x, lo, hi
  <2> QED BY <2>1, <2>2, <2>3, OfItsElements
<1>20. in # <<>>
  OBVIOUS
<1> HIDE DEF in
<1>7. IsNode(fused) /\ fused.name = n.name /\ fused.op = "MusaClip" /\ fused.in = in
  BY <1>3, <1>6, PlainNode DEF IsNode
<1> HIDE DEF fused
<1>8. Sources(fused) \subseteq Inputs(g) /\ Sources(fused) \subseteq Names(g)
  BY <1>6, <1>7, TakenInputs, InputsInGraph DEF Accepted
<1>9. Original(n.name) \notin Names(g) /\ n.name \in Names(g) /\ IsSequence(n.name)
  BY <1>1, <1>3 DEF Accepted, FreshOriginals, Names, ToSet, IsNode
<1>10. /\ fused \in ToSet(h)
       /\ \A k \in ToSet(g) : k.name # n.name => k \in ToSet(h)
  <2>1. fused \in ToSet(h)
    BY FusedIsThere DEF h, Accepted, IsGraph
  <2>2. \A k \in ToSet(g) : k.name # n.name => k \in ToSet(h)
    BY <1>7, <1>8, <1>9, StepsAside DEF Accepted, h
  <2> QED BY <2>1, <2>2
<1>11. \A k \in ToSet(g) : Sources(k) \subseteq Names(g)
  BY DEF Accepted, Closed, ToSet
<1>12. \A k \in ToSet(g) : k.name \in Names(g)
  BY DEF Names, ToSet
<1> HIDE DEF h
<1>14. Sources(fused) \cap gone = {}
  BY <1>7, <1>8, <1>9, <1>10 DEF Consumers
<1>15. \A k \in ToSet(g) : k.name = n.name \/ k.name \in gone \/ Sources(k) \cap gone = {}
  BY <1>9, <1>10, <1>11, <1>12 DEF Consumers
<1>16. /\ Original(n.name) \in gone /\ Sources(fused) \subseteq Inputs(g) \ gone
       /\ IsFusible(n) /\ fused.op \notin PlainOps
  BY <1>1, <1>7, <1>8, <1>14 DEF IsFusible, RenamedOps, PlainOps
<1>21. gone \cap names = {}
  BY <1>4, <1>9 DEF Provides, Names, ToSet
<1> HIDE DEF gone
<1>17. Improves(RemoveNodes(SteppedAside(g, n.name, fused), gone), g, names)
  BY <1>7, <1>9, <1>15, <1>16, <1>20, <1>21, AcceptedWithout
<1> QED BY <1>2, <1>17 DEF m, h

(***************************************************************************)
(* CountConsumers counts two nodes that consume a name.                    *)
(***************************************************************************)
LEMMA CountedUses ==
    ASSUME NEW n, NEW name, IsNode(n)
    PROVE  LET uses == Cardinality({j \in DOMAIN n.in : n.in[j].src = name})
           IN  uses \in Nat /\ (name \in Sources(n) => uses >= 1)
<1> DEFINE S == {j \in DOMAIN n.in : n.in[j].src = name}
<1>1. DOMAIN n.in = 1..Len(n.in) /\ Len(n.in) \in Nat
  BY Indices DEF IsNode
<1>2. IsFiniteSet(S) /\ Cardinality(S) \in Nat
  <2>1. S \subseteq 1..Len(n.in) /\ IsFiniteSet(1..Len(n.in))
    BY <1>1, FS_Interval
  <2> HIDE DEF S
  <2>2. IsFiniteSet(S)
    BY <2>1, FS_Subset
  <2> QED BY <2>2, FS_CardinalityType
<1>3. name \in Sources(n) => S # {}
  BY DEF Sources, ToSet
<1>4. S # {} => Cardinality(S) # 0
  BY <1>2, FS_EmptySet
<1> QED BY <1>2, <1>3, <1>4

LEMMA TwoConsumers ==
    ASSUME NEW g, IsGraph(g), NEW name, NEW a \in ToSet(g), NEW b \in ToSet(g), a # b,
           name \in Sources(a), name \in Sources(b)
    PROVE  CountConsumers(g, name) \in Nat /\ CountConsumers(g, name) >= 2
<1> DEFINE n == Len(g)
           Uses(k) == Cardinality({j \in DOMAIN k.in : k.in[j].src = name})
           F == [x \in Nat \X (1..n) |-> x[1] + Uses(g[x[2]])]
           iter == CHOOSE iter : iter = [s \in SUBSET (DOMAIN g) |->
                      IF s = {} THEN 0 ELSE iter[s \ {Max(s)}] + Uses(g[Max(s)])]
<1>1. n \in Nat /\ DOMAIN g = 1..n
  BY Indices DEF IsGraph
<1>2. CountConsumers(g, name) = iter[DOMAIN g]
  BY DEF CountConsumers, FoldLeft, MapThenFoldSet
<1> HIDE DEF n
<1>3. \A i \in 1..n : Uses(g[i]) \in Nat /\ (name \in Sources(g[i]) => Uses(g[i]) >= 1)
  BY <1>1, CountedUses DEF IsGraph
<1> HIDE DEF Uses
<1>4. F \in [Nat \X (1..n) -> Nat]
  BY <1>3
<1>5. PICK f \in [SUBSET (1..n) -> Nat] : IsIteration(f, n, 0, F)
  BY <1>1, <1>4, IterationExists
<1>6. f = [s \in SUBSET (DOMAIN g) |-> IF s = {} THEN 0 ELSE f[s \ {Max(s)}] + Uses(g[Max(s)])]
  <2>1. ASSUME NEW s \in SUBSET (1..n), s # {}
        PROVE  f[s] = f[s \ {Max(s)}] + Uses(g[Max(s)])
    <3>1. Max(s) \in 1..n
      BY <1>1, <2>1, MaxOf
    <3>2. f[s \ {Max(s)}] \in Nat
      OBVIOUS
    <3>3. f[s] = F[<<f[s \ {Max(s)}], Max(s)>>]
      BY <1>5, <2>1 DEF IsIteration
    <3> QED BY <3>1, <3>2, <3>3
  <2>2. ASSUME NEW s \in SUBSET (1..n), s = {}
        PROVE  f[s] = 0
    BY <1>5, <2>2 DEF IsIteration
  <2> HIDE DEF F
  <2> QED BY <1>1, <1>5, <2>1, <2>2
<1> HIDE DEF F
<1>7. iter = [s \in SUBSET (DOMAIN g) |->
                IF s = {} THEN 0 ELSE iter[s \ {Max(s)}] + Uses(g[Max(s)])]
  BY <1>6
<1> HIDE DEF iter
<1>8. PICK i \in 1..n, j \in 1..n : g[i] = a /\ g[j] = b
  BY <1>1 DEF ToSet
<1> DEFINE P == {k \in 0..n : /\ iter[1..k] \in Nat
                              /\ (i <= k \/ j <= k) => iter[1..k] >= 1
                              /\ (i <= k /\ j <= k) => iter[1..k] >= 2}
<1>9. 0 \in P
  <2>1. iter[{}] = 0 /\ 1..0 = {}
    BY <1>7
  <2> QED BY <1>1, <2>1
<1>10. ASSUME NEW k \in 0..n, k \in P, k < n
       PROVE  k + 1 \in P
  <2>1. k + 1 \in 1..n /\ k + 1 \in Nat \ {0} /\ k + 1 - 1 = k
    BY <1>1, <1>10
  <2>2. Max(1..k + 1) = k + 1 /\ (1..k + 1) \ {Max(1..k + 1)} = 1..k
    BY <2>1, MaxUpTo
  <2>3. 1..k + 1 \in SUBSET (DOMAIN g) /\ 1..k + 1 # {}
    <3>1. k + 1 \in 1..k + 1 /\ \A l \in 1..k + 1 : l \in 1..n
      BY <1>1, <2>1
    <3> QED BY <1>1, <3>1
  <2>4. iter[1..k + 1] = iter[1..k] + Uses(g[k + 1])
    BY <1>7, <2>2, <2>3
  <2>5. /\ iter[1..k] \in Nat
        /\ (i <= k \/ j <= k) => iter[1..k] >= 1
        /\ (i <= k /\ j <= k) => iter[1..k] >= 2
    BY <1>10
  <2>6. Uses(g[k + 1]) \in Nat /\ (i = k + 1 \/ j = k + 1 => Uses(g[k + 1]) >= 1)
    BY <1>3, <1>8, <2>1
  <2>7. i # j
    BY <1>8
  <2> HIDE DEF P
  <2>8. PICK u : u = Uses(g[k + 1])
    OBVIOUS
  <2>9. PICK c : c = iter[1..k]
    OBVIOUS
  <2>10. /\ c + u \in Nat
         /\ (i <= k + 1 \/ j <= k + 1) => c + u >= 1
         /\ (i <= k + 1 /\ j <= k + 1) => c + u >= 2
    BY <2>1, <2>5, <2>6, <2>7, <2>8, <2>9
  <2> QED BY <2>1, <2>4, <2>8, <2>9, <2>10 DEF P
<1> HIDE DEF P
<1>11. n \in P
  BY <1>1, <1>9, <1>10, UpTo
<1> QED BY <1>1, <1>2, <1>11 DEF P

LEMMA OriginalIsThere ==
    ASSUME NEW g, IsGraph(g), NEW n \in ToSet(g), NEW fused
    PROVE  [n EXCEPT !.name = Original(n.name)] \in ToSet(SteppedAside(g, n.name, fused))
<1> DEFINE aside == Rename(g, n.name, Original(n.name))
           at == FindNodeIndex(g, n.name)
           new == [n EXCEPT !.name = Original(n.name)]
<1>1. n.name \in Names(g)
  BY DEF Names, ToSet
<1>2. at \in DOMAIN g /\ g[at] = n
  <2>1. at \in DOMAIN g /\ g[at].name = n.name
    BY <1>1, IndexOfName
  <2> QED BY <2>1 DEF IsGraph, ToSet
<1>3. aside = [i \in 1..Len(g) |-> aside[i]] /\ Len(g) \in Nat /\ at \in 1..Len(g)
  BY <1>2, Indices DEF Rename, IsGraph
<1>4. aside[at] = new
  BY <1>2 DEF Rename
<1> HIDE DEF aside, at, new
<1>5. aside \in Seq({aside[i] : i \in 1..Len(g)} \cup {fused}) /\ Len(aside) = Len(g)
  BY <1>3
<1>6. Append(aside, fused)[at] = aside[at] /\ at \in DOMAIN Append(aside, fused)
  BY <1>3, <1>5
<1> QED BY <1>4, <1>6 DEF SteppedAside, ToSet, aside, new

LEMMA PReluKeeps ==
    ASSUME NEW g, NEW n \in ToSet(g), NEW names, Accepted(g), Provides(g, names),
           MatchPRelu(g, n).matched
    PROVE  Improves(ApplyPRelu(g, MatchPRelu(g, n)).graph, g, names)
<1> DEFINE relu1  == Input(g, n, 1)
           mul    == Input(g, n, 2)
           select == Input(g, relu1, 1)
           alpha  == Input(g, mul, 1)
           relu2  == Input(g, mul, 2)
           neg2   == Input(g, relu2, 1)
           nodes  == {relu1, neg2, relu2, mul}
           in     == <<Edge(select.name), Edge(alpha.name)>>
           fused  == Plain(n.name, "MusaPRelu", in, n.T, n.device)
           h      == SteppedAside(g, n.name, fused)
           gone   == {Original(n.name)} \cup {k.name : k \in nodes}
                        \cup IF CountConsumers(h, alpha.name) <= 1 THEN {alpha.name} ELSE {}
           m      == MatchPRelu(g, n)
<1>1. /\ n.op \in {"Add", "AddV2"} /\ ~HasOriginalSuffix(n.name)
      /\ relu1.op = "Relu" /\ mul.op = "Mul" /\ alpha.op = "Const" /\ relu2.op = "Relu"
      /\ neg2.op = "Neg" /\ select # NoNode /\ Input(g, neg2, 1) = select
      /\ \A k \in {relu1, neg2, relu2, alpha, mul} : CountConsumers(g, k.name) = 1
      /\ m = [matched |-> TRUE, output |-> n, input |-> select, alpha |-> alpha, nodes |-> nodes]
  BY DEF MatchPRelu, NoMatch, IsAddOp
<1>2. ApplyPRelu(g, m).graph = RemoveNodes(h, gone)
  BY <1>1 DEF ApplyPRelu, Ok, Plain, SteppedAside
<1> HIDE DEF m
<1>3. IsGraph(g) /\ \A k \in ToSet(g) : IsNode(k)
  BY DEF Accepted, IsGraph, ToSet
<1>4. /\ relu1 \in ToSet(g) /\ relu1.name \in Sources(n)
      /\ mul \in ToSet(g) /\ mul.name \in Sources(n)
      /\ alpha \in ToSet(g) /\ alpha.name \in Sources(mul)
      /\ relu2 \in ToSet(g) /\ relu2.name \in Sources(mul)
      /\ neg2 \in ToSet(g) /\ neg2.name \in Sources(relu2)
      /\ select \in ToSet(g) /\ select.name \in Sources(relu1)
  <2>1. relu1 # NoNode /\ mul # NoNode /\ alpha # NoNode /\ relu2 # NoNode /\ neg2 # NoNode
    BY <1>1, NoNodeOp
  <2> QED BY <1>1, <1>3, <2>1, OperandOf
<1>5. \A k \in ToSet(g) : /\ relu1.name \in Sources(k) => k = n
                          /\ mul.name \in Sources(k) => k = n
                          /\ relu2.name \in Sources(k) => k = mul
                          /\ neg2.name \in Sources(k) => k = relu2
  BY <1>1, <1>3, <1>4, TwoConsumers
<1> HIDE DEF relu1, mul, select, alpha, relu2, neg2
<1>6. n # relu1 /\ n # mul /\ relu1 # mul /\ relu1 # relu2
  BY <1>1, <1>4, <1>5
<1>7. \A k, l \in ToSet(g) : k.name = l.name => k = l
  BY DEF Accepted, IsGraph, ToSet
<1>8. Original(n.name) \notin Names(g) /\ n.name \in Names(g) /\ IsSequence(n.name)
  BY <1>1, <1>3 DEF Accepted, FreshOriginals, Names, ToSet, IsNode, RenamedOps
<1>9. \A k \in ToSet(g) : k.name \in Names(g) /\ Sources(k) \subseteq Names(g)
  BY DEF Accepted, Closed, Names, ToSet
<1>10. IsSequence(in) /\ in[1].src = select.name /\ in[2].src = alpha.name /\ DOMAIN in = 1..2
  <2>1. in \in Seq({Edge(select.name), Edge(alpha.name)})
    OBVIOUS
  <2>2. IsSequence(in)
    BY <2>1, OfItsElements
  <2>3. Edge(select.name).src = select.name /\ Edge(alpha.name).src = alpha.name
    BY DEF Edge
  <2>4. in[1] = Edge(select.name) /\ in[2] = Edge(alpha.name) /\ DOMAIN in = 1..2
    OBVIOUS
  <2> HIDE DEF in
  <2> QED BY <2>2, <2>3, <2>4
<1>22. in # <<>>
  OBVIOUS
<1> HIDE DEF in
<1>11. IsNode(fused) /\ fused.name = n.name /\ fused.op = "MusaPRelu" /\ fused.in = in
  BY <1>8, <1>10, PlainNode
<1> HIDE DEF fused
<1>12. Sources(fused) = {select.name, alpha.name}
  <2>1. \A i \in 1..2 : i = 1 \/ i = 2
    OBVIOUS
  <2>2. 1 \in 1..2 /\ 2 \in 1..2
    OBVIOUS
  <2> QED BY <1>10, <1>11, <2>1, <2>2 DEF Sources, ToSet
<1>13. Sources(fused) \subseteq Names(g) /\ Sources(fused) \subseteq Inputs(g)
  BY <1>4, <1>9, <1>12 DEF Inputs
<1>14. IsGraph(h) /\ mul \in ToSet(h) /\ fused \in ToSet(h)
  <2>1. fused \in ToSet(h)
    BY FusedIsThere DEF h, Accepted, IsGraph
  <2>2. mul.name # n.name
    BY <1>4, <1>6, <1>7
  <2> QED BY <1>4, <1>8, <1>11, <1>13, <2>1, <2>2, StepsAside DEF Accepted, h
<1>15. ~(CountConsumers(h, alpha.name) <= 1)
  <2>1. mul # fused
    BY <1>1, <1>11
  <2>2. CountConsumers(h, alpha.name) \in Nat /\ CountConsumers(h, alpha.name) >= 2
    BY <1>4, <1>12, <1>14, <2>1, TwoConsumers
  <2> QED BY <2>2
<1>16. gone = {Original(n.name)} \cup {k.name : k \in nodes}
  BY <1>15
<1> HIDE DEF gone, h
<1>17. \A k \in nodes : k.name # select.name /\ k.name # alpha.name
  BY <1>1, <1>4, <1>5, <1>6, <1>7
<1>18. Sources(fused) \subseteq Inputs(g) \ gone
  BY <1>8, <1>12, <1>13, <1>16, <1>17
<1>19. \A k \in ToSet(g) : k.name = n.name \/ k.name \in gone \/ Sources(k) \cap gone = {}
  BY <1>5, <1>8, <1>9, <1>16
<1>20. IsFusible(n) /\ fused.op \notin PlainOps
  BY <1>1, <1>11 DEF IsFusible, RenamedOps, PlainOps
<1>23. gone \cap names = {}
  <2>1. \A k \in nodes : k.name \in Inputs(g)
    BY <1>4 DEF Inputs
  <2> QED BY <1>8, <1>16, <2>1 DEF Provides, Names, ToSet
<1>24. Original(n.name) \in gone
  BY <1>16
<1> HIDE DEF nodes
<1>21. Improves(RemoveNodes(SteppedAside(g, n.name, fused), gone), g, names)
  BY <1>8, <1>11, <1>18, <1>19, <1>20, <1>22, <1>23, <1>24, AcceptedWithout
<1> QED BY <1>2, <1>21 DEF m, h

LEMMA TokenMixerKeeps ==
    ASSUME NEW g, NEW n \in ToSet(g), NEW names, Accepted(g), Provides(g, names),
           MatchTokenMixer(g, n).matched
    PROVE  Improves(ApplyTokenMixer(g, MatchTokenMixer(g, n)).graph, g, names)
<1> DEFINE transpose == Input(g, n, 1)
           reshape   == Input(g, transpose, 1)
           Ints(k)   == IF k.op = "Const" /\ k.T \in {"int32", "int64"} THEN k.val ELSE <<>>
           there     == Ints(Input(g, reshape, 2))
           dims      == <<there[2], there[3], there[4]>>
           in        == <<reshape.in[1]>>
           fused     == [Node(n.name, "MusaTokenMixer", in)
                         EXCEPT !.T = n.T, !.device = n.device, !.val = dims]
           h         == SteppedAside(g, n.name, fused)
           consts    == {k.in[2].src : k \in {k \in {n, reshape, transpose} : IsBinary(k)}}
           gone      == {Original(n.name), reshape.name, transpose.name}
                           \cup {c \in consts : CountConsumers(h, c) <= 1}
           m         == MatchTokenMixer(g, n)
<1>1. /\ n.op = "Reshape" /\ ~HasOriginalSuffix(n.name) /\ transpose.op = "Transpose"
      /\ reshape.op = "Reshape" /\ Len(reshape.in) >= 2
      /\ CountConsumers(g, reshape.name) = 1 /\ CountConsumers(g, transpose.name) = 1
      /\ Len(there) = 4 /\ Ints(Input(g, n, 2)) = <<-1, there[3], there[2] * there[4]>>
      /\ m = [matched |-> TRUE, output |-> n, reshape |-> reshape, transpose |-> transpose,
              dims |-> dims]
  BY DEF MatchTokenMixer, NoMatch
<1>2. ApplyTokenMixer(g, m).graph = RemoveNodes(h, gone)
  BY <1>1 DEF ApplyTokenMixer, Ok, SteppedAside
<1>3. n # reshape
  BY <1>1
<1> HIDE DEF m, there
<1>4. IsGraph(g) /\ \A k \in ToSet(g) : IsNode(k)
  BY DEF Accepted, IsGraph, ToSet
<1>5. /\ transpose \in ToSet(g) /\ transpose.name \in Sources(n)
      /\ reshape \in ToSet(g) /\ reshape.name \in Sources(transpose)
  BY <1>1, <1>4, NoNodeOp, OperandOf
<1>6. n # transpose /\ reshape # transpose
  BY <1>1
<1>7. \A k \in ToSet(g) : /\ transpose.name \in Sources(k) => k = n
                          /\ reshape.name \in Sources(k) => k = transpose
  BY <1>1, <1>4, <1>5, TwoConsumers
<1> HIDE DEF transpose, reshape
<1>8. \A k, l \in ToSet(g) : k.name = l.name => k = l
  BY DEF Accepted, IsGraph, ToSet
<1>9. Original(n.name) \notin Names(g) /\ n.name \in Names(g) /\ IsSequence(n.name)
  BY <1>1, <1>4 DEF Accepted, FreshOriginals, Names, ToSet, IsNode, RenamedOps
<1>10. \A k \in ToSet(g) : k.name \in Names(g) /\ Sources(k) \subseteq Names(g)
  BY DEF Accepted, Closed, Names, ToSet
<1>11. 1 \in DOMAIN reshape.in /\ reshape.in[1].src \in Sources(reshape)
  <2>1. 1 \in DOMAIN reshape.in
    BY <1>1, <1>4, <1>5, Indices DEF IsNode
  <2> QED BY <2>1 DEF Sources, ToSet
<1>12. IsSequence(in) /\ DOMAIN in = 1..1 /\ in[1] = reshape.in[1]
  <2>1. in \in Seq({reshape.in[1]}) /\ DOMAIN in = 1..1 /\ in[1] = reshape.in[1]
    OBVIOUS
  <2> HIDE DEF in
  <2> QED BY <2>1, OfItsElements
<1>25. in # <<>>
  OBVIOUS
<1> HIDE DEF in, dims
<1>13. IsNode(fused) /\ fused.name = n.name /\ fused.op = "MusaTokenMixer" /\ fused.in = in
  <2>1. PICK f : f = fused
    OBVIOUS
  <2>2. f = [name |-> n.name, op |-> "MusaTokenMixer", in |-> in, device |-> n.device,
             T |-> n.T, attr |-> <<>>, val |-> dims, shape |-> Unknown]
    BY <2>1 DEF Node
  <2> HIDE DEF fused
  <2>3. IsNode(f) /\ f.name = n.name /\ f.op = "MusaTokenMixer" /\ f.in = in
    BY <1>9, <1>12, <2>2 DEF IsNode
  <2> QED BY <2>1, <2>3
<1> HIDE DEF fused
<1>14. Sources(fused) = {reshape.in[1].src}
  <2>1. \A i \in 1..1 : i = 1
    OBVIOUS
  <2>2. 1 \in 1..1
    OBVIOUS
  <2> QED BY <1>12, <1>13, <2>1, <2>2 DEF Sources, ToSet
<1>15. Sources(fused) \subseteq Names(g) /\ Sources(fused) \subseteq Inputs(g)
  BY <1>5, <1>10, <1>11, <1>14 DEF Inputs
<1> DEFINE original == [n EXCEPT !.name = Original(n.name)]
<1>16. /\ IsGraph(h) /\ fused \in ToSet(h) /\ original \in ToSet(h)
       /\ \A k \in ToSet(g) : k # n => k \in ToSet(h)
  <2>1. fused \in ToSet(h)
    BY FusedIsThere DEF h, Accepted, IsGraph
  <2>2. original \in ToSet(h)
    BY <1>4, OriginalIsThere DEF h
  <2>3. IsGraph(h) /\ \A k \in ToSet(g) : k.name # n.name => k \in ToSet(h)
    BY <1>9, <1>13, <1>15, StepsAside DEF Accepted, h
  <2> QED BY <1>8, <2>1, <2>2, <2>3
<1>17. original.name = Original(n.name) /\ Sources(original) = Sources(n)
  BY <1>4 DEF IsNode, Sources
<1> HIDE DEF h, original
<1>18. \A k \in {n, reshape, transpose} : IsBinary(k) => k.in[2].src \in Sources(k)
  <2> SUFFICES ASSUME NEW k \in {n, reshape, transpose}, IsBinary(k)
               PROVE  k.in[2].src \in Sources(k)
    OBVIOUS
  <2>1. IsNode(k)
    BY <1>4, <1>5
  <2>2. 2 \in DOMAIN k.in
    BY <2>1, Indices DEF IsNode, IsBinary
  <2> QED BY <2>2 DEF Sources, ToSet
<1>19. ASSUME NEW c \in consts, CountConsumers(h, c) <= 1,
              NEW k \in ToSet(h), c \in Sources(k)
       PROVE  k \in {original, reshape, transpose}
  <2>1. PICK q \in {original, reshape, transpose} : c \in Sources(q)
    BY <1>17, <1>18
  <2>2. q \in ToSet(h)
    BY <1>3, <1>5, <1>6, <1>16
  <2>3. ASSUME k # q PROVE FALSE
    <3>1. CountConsumers(h, c) \in Nat /\ CountConsumers(h, c) >= 2
      BY <1>16, <1>19, <2>1, <2>2, <2>3, TwoConsumers
    <3> QED BY <1>19, <3>1
  <2> QED BY <2>3
<1>26. consts \cup {reshape.name, transpose.name} \subseteq Inputs(g)
  BY <1>5, <1>18 DEF Inputs
<1> HIDE DEF consts
<1>20. reshape.in[1].src \notin gone
  <2>1. reshape.in[1].src # Original(n.name)
    BY <1>9, <1>14, <1>15
  <2>2. reshape.in[1].src # reshape.name /\ reshape.in[1].src # transpose.name
    BY <1>3, <1>5, <1>6, <1>7, <1>11
  <2>3. fused \notin {original, reshape, transpose}
    BY <1>1, <1>9, <1>13, <1>17
  <2>4. ASSUME reshape.in[1].src \in consts, CountConsumers(h, reshape.in[1].src) <= 1
        PROVE  FALSE
    BY <1>14, <1>16, <1>19, <2>3, <2>4
  <2> QED BY <2>1, <2>2, <2>4
<1>21. \A k \in ToSet(g) : k.name = n.name \/ k.name \in gone \/ Sources(k) \cap gone = {}
  <2> SUFFICES ASSUME NEW k \in ToSet(g), k.name # n.name, k.name \notin gone,
                      NEW c \in gone, c \in Sources(k)
               PROVE  FALSE
    OBVIOUS
  <2>1. k \notin {n, reshape, transpose} /\ k.name # Original(n.name)
    BY <1>9, <1>10
  <2>2. c # Original(n.name) /\ c # reshape.name /\ c # transpose.name
    BY <1>7, <1>9, <1>10, <2>1
  <2>3. c \in consts /\ CountConsumers(h, c) <= 1
    BY <2>2
  <2>4. k \in ToSet(h)
    BY <1>16, <2>1
  <2>5. k \in {original, reshape, transpose}
    BY <1>19, <2>3, <2>4
  <2> QED BY <1>17, <2>1, <2>5
<1>22. Original(n.name) \in gone /\ Sources(fused) \subseteq Inputs(g) \ gone
  BY <1>14, <1>15, <1>20
<1>27. gone \cap names = {}
  BY <1>9, <1>26 DEF Provides, Names, ToSet
<1> HIDE DEF gone
<1>23. IsFusible(n) /\ fused.op \notin PlainOps
  BY <1>1, <1>13 DEF IsFusible, RenamedOps, PlainOps
<1>24. Improves(RemoveNodes(SteppedAside(g, n.name, fused), gone), g, names)
  BY <1>9, <1>13, <1>21, <1>22, <1>23, <1>25, <1>27, AcceptedWithout
<1> QED BY <1>2, <1>24 DEF m, h

(***************************************************************************)
(* A node that is rewritten in place.                                      *)
(***************************************************************************)
LEMMA AcceptedInPlace ==
    ASSUME NEW g, NEW n \in ToSet(g), NEW fused, NEW names, Accepted(g), Provides(g, names),
           IsNode(fused), fused.name = n.name, Sources(fused) \subseteq Inputs(g),
           IsFusible(n), fused.op \notin PlainOps, fused.in # <<>>
    PROVE  Improves([g EXCEPT ![FindNodeIndex(g, n.name)] = fused], g, names)
<1> DEFINE at == FindNodeIndex(g, n.name)
           h == [g EXCEPT ![at] = fused]
<1>1. n.name \in Names(g)
  BY DEF Names, ToSet
<1>2. at \in DOMAIN g /\ g[at].name = n.name
  BY <1>1, IndexOfName
<1> HIDE DEF at
<1>3. /\ g \in Seq(ToSet(g)) /\ Len(g) \in Nat /\ DOMAIN g = 1..Len(g)
  BY Indices DEF Accepted, IsGraph, IsSequence
<1>4. g \in Seq(ToSet(g) \cup {fused})
  BY <1>3, SeqMonotonic
<1>5. /\ h \in Seq(ToSet(g) \cup {fused}) /\ DOMAIN h = DOMAIN g
      /\ \A i \in DOMAIN g : h[i] = IF i = at THEN fused ELSE g[i]
  BY <1>2, <1>4
<1> HIDE DEF h
<1>6. IsSequence(h)
  BY <1>5, OfItsElements
<1>7. \A i \in DOMAIN h : h[i].name = g[i].name
  BY <1>2, <1>5
<1>8. IsGraph(h)
  BY <1>5, <1>6, <1>7 DEF IsGraph, Accepted
<1>9. Names(h) = Names(g)
  BY <1>5, <1>7 DEF Names
<1>10. \A k \in ToSet(h) : k \in ToSet(g) \/ k = fused
  BY <1>5 DEF ToSet
<1>11. Closed(h)
  BY <1>5, <1>9, InputsInGraph DEF Accepted, Closed
<1>12. HaveOperands(h)
  <2>1. fused.op \notin {"MatMul", "BiasAdd", "Add", "AddV2", "Unpack"}
    BY DEF RenamedOps, PlainOps
  <2> QED BY <1>10, <2>1 DEF Accepted, HaveOperands
<1>13. FreshOriginals(h)
  BY <1>9, <1>10 DEF Accepted, FreshOriginals, PlainOps
<1>14. fused \in ToSet(h) /\ \A k \in ToSet(g) : k.name # n.name => k \in ToSet(h)
  BY <1>2, <1>5 DEF ToSet
<1>15. Inputs(h) \subseteq Inputs(g)
  BY <1>10 DEF Inputs
<1>16. ASSUME NEW name \in names
       PROVE  \E k \in ToSet(h) : k.name = name /\ k.in # <<>> /\ k.op # "Const"
  <2>1. fused.op # "Const"
    BY DEF PlainOps
  <2> QED BY <1>14, <2>1 DEF Provides
<1>17. Provides(h, names)
  BY <1>15, <1>16 DEF Provides
<1>18. \A k \in ToSet(h) : IsFusible(k) => k \in ToSet(g) /\ k.name # n.name
  <2>1. fused \in ToSet(h) /\ ~IsFusible(fused)
    BY <1>14 DEF IsFusible, RenamedOps, PlainOps
  <2>2. \A k, l \in ToSet(h) : k.name = l.name => k = l
    BY <1>8 DEF IsGraph, ToSet
  <2> QED BY <1>10, <2>1, <2>2
<1>19. Fusible(h) \subseteq Fusible(g) /\ Fusible(h) # Fusible(g)
  BY <1>18, FusibleShrinks
<1> QED BY <1>8, <1>11, <1>12, <1>13, <1>17, <1>19 DEF Serves, Improves, Accepted, h, at

LEMMA AdamMixedKeeps ==
    ASSUME NEW g, NEW n \in ToSet(g), NEW names, Accepted(g), Provides(g, names),
           MatchAdamMixed(g, n).matched
    PROVE  Improves(ApplyAdamMixed(g, MatchAdamMixed(g, n)).graph, g, names)
<1> DEFINE cast  == Input(g, n, 10)
           fused == [n EXCEPT !.op = "MusaResourceApplyAdamMixed", !.T = Attr(cast, "SrcT", ""),
                              !.in[10] = cast.in[1]]
           h     == [g EXCEPT ![FindNodeIndex(g, n.name)] = fused]
           m     == MatchAdamMixed(g, n)
<1>1. /\ cast.op = "Cast" /\ cast.in # <<>> /\ IsFusible(n)
      /\ m = [matched |-> TRUE, output |-> n, cast |-> cast]
  BY DEF MatchAdamMixed, NoMatch, IsFusible
<1>2. ApplyAdamMixed(g, m).graph
        = RemoveNodesIfUnused(h, <<cast.name>>, {n.name, cast.in[1].src})
  BY <1>1 DEF ApplyAdamMixed, Ok
<1> HIDE DEF m
<1>3. IsGraph(g) /\ \A k \in ToSet(g) : IsNode(k)
  BY DEF Accepted, IsGraph, ToSet
<1>4. cast \in ToSet(g) /\ 10 \in DOMAIN n.in /\ cast.name \in Inputs(g)
  BY <1>1, FoundNode
<1> HIDE DEF cast
<1>5. 1 \in DOMAIN cast.in
  <2>1. cast.in \in Seq(ToSet(cast.in))
    BY <1>3, <1>4 DEF IsNode, IsSequence
  <2> QED BY <1>1, <2>1, EmptySeq
<1> DEFINE in == [n.in EXCEPT ![10] = cast.in[1]]
           T  == Attr(cast, "SrcT", "")
<1>6. /\ IsSequence(in) /\ DOMAIN in = DOMAIN n.in
      /\ \A i \in DOMAIN in : in[i] = IF i = 10 THEN cast.in[1] ELSE n.in[i]
  <2>1. n.in \in Seq(ToSet(n.in) \cup {cast.in[1]})
    BY <1>3, SeqMonotonic DEF IsNode, IsSequence
  <2>2. in \in Seq(ToSet(n.in) \cup {cast.in[1]})
    BY <1>4, <2>1
  <2>3. IsSequence(in)
    BY <2>2, OfItsElements
  <2> QED BY <2>3
<1> HIDE DEF T
<1>7. fused = [name |-> n.name, op |-> "MusaResourceApplyAdamMixed", in |-> in,
               device |-> n.device, T |-> T, attr |-> n.attr, val |-> n.val, shape |-> n.shape]
  <2>1. PICK name, op, ins, device, oldT, attr, val, shape :
            n = [name |-> name, op |-> op, in |-> ins, device |-> device, T |-> oldT,
                 attr |-> attr, val |-> val, shape |-> shape]
    BY <1>3 DEF IsNode
  <2>2. PICK input : input = cast.in[1]
    OBVIOUS
  <2>3. n.in = ins /\ n.name = name /\ n.device = device /\ n.attr = attr /\ n.val = val
        /\ n.shape = shape
    BY <2>1
  <2>4. in = [ins EXCEPT ![10] = input]
    BY <2>2, <2>3
  <2>5. fused = [name |-> name, op |-> "MusaResourceApplyAdamMixed",
                 in |-> [ins EXCEPT ![10] = input], device |-> device, T |-> T,
                 attr |-> attr, val |-> val, shape |-> shape]
    <3>1. PICK k : k = [n EXCEPT !.op = "MusaResourceApplyAdamMixed", !.T = T]
      OBVIOUS
    <3>2. k = [name |-> name, op |-> "MusaResourceApplyAdamMixed", in |-> ins,
               device |-> device, T |-> T, attr |-> attr, val |-> val, shape |-> shape]
      BY <2>1, <3>1
    <3>3. fused = [k EXCEPT !.in = [k.in EXCEPT ![10] = cast.in[1]]]
      BY <3>1 DEF T
    <3>4. k.in = ins
      BY <3>2
    <3> HIDE DEF fused
    <3> QED BY <2>2, <3>2, <3>3, <3>4
  <2> HIDE DEF fused, in
  <2> QED BY <2>3, <2>4, <2>5
<1> HIDE DEF fused, in
<1>8. /\ IsNode(fused) /\ fused.name = n.name /\ fused.in = in
      /\ fused.op = "MusaResourceApplyAdamMixed"
  <2>1. PICK f : f = fused
    OBVIOUS
  <2>2. IsSequence(n.name)
    BY <1>3 DEF IsNode
  <2> QED BY <1>6, <1>7, <2>1, <2>2 DEF IsNode
<1>9. Sources(fused) \subseteq Inputs(g) /\ fused.in # <<>>
  <2>1. Sources(fused) \subseteq Inputs(g)
    BY <1>4, <1>5, <1>6, <1>8, TakenInputs
  <2>2. DOMAIN <<>> = {}
    OBVIOUS
  <2> QED BY <1>4, <1>6, <1>8, <2>1, <2>2
<1>10. Improves(h, g, names)
  <2>1. fused.op \notin PlainOps
    BY <1>8 DEF RenamedOps, PlainOps
  <2> QED BY <1>1, <1>8, <1>9, <2>1, AcceptedInPlace
<1> HIDE DEF h
<1>11. IsSequence(<<cast.name>>)
  BY OfItsElements, <<cast.name>> \in Seq({cast.name})
<1>12. Improves(RemoveNodesIfUnused(h, <<cast.name>>, {n.name, cast.in[1].src}), g, names)
  <2>1. PICK obsolete : obsolete = <<cast.name>>
    OBVIOUS
  <2> DEFINE r == RemoveNodesIfUnused(h, obsolete, {n.name, cast.in[1].src})
  <2>2. Accepted(h) /\ Provides(h, names) /\ IsGraph(h) /\ Closed(h)
    BY <1>10 DEF Improves, Serves, Accepted
  <2>3. Pruned(r, h, ToSet(obsolete) \ {n.name, cast.in[1].src})
    BY <1>11, <2>1, <2>2, UnusedNodesRemoved
  <2>4. names \cap (ToSet(obsolete) \ {n.name, cast.in[1].src}) = {}
    BY <1>4, <2>1 DEF Provides, ToSet
  <2> HIDE DEF r
  <2>5. Serves(r, names)
    BY <2>2, <2>3, <2>4, AcceptedPruned, ProvidedPruned DEF Serves
  <2>6. Fusible(r) \subseteq Fusible(h)
    BY <2>2, <2>3, ReducedGraph DEF Pruned, Fusible
  <2> QED BY <1>10, <2>1, <2>5, <2>6 DEF Improves, r
<1> QED BY <1>2, <1>12 DEF m
(***************************************************************************)
(* A producer of an input, past its identities, is of the graph or none.   *)
(***************************************************************************)
LEMMA ResolvedInput ==
    ASSUME NEW g, Accepted(g), NEW k \in Found(g) \cup ToSet(g), NEW i
    PROVE  Resolved(g, k, i) \in Found(g)
<1>1. Input(g, k, i) \in Found(g)
  BY InputFound DEF Accepted, Found
<1> QED BY <1>1, ResolvedFound DEF Resolved, Accepted

(***************************************************************************)
(* The input on which a producer of an operation is found is one of two.   *)
(***************************************************************************)
LEMMA SideFound ==
    ASSUME NEW g, NEW k, NEW op
    PROVE  ResolvedSide(g, k, op) \in 0..2
<1> DEFINE I == {i \in 1..2 : Resolved(g, k, <<1, 2>>[i]).op = op}
           s == SelectInSeq(<<1, 2>>, LAMBDA i : Resolved(g, k, i).op = op)
<1>1. I \in SUBSET Nat
  OBVIOUS
<1>2. s = IF I # {} THEN Min(I) ELSE 0
  BY Len(<<1, 2>>) = 2 DEF SelectInSeq, SelectInSubSeq
<1>3. s \in 0..2
  <2>1. CASE I = {}
    BY <1>2, <2>1
  <2>2. CASE I # {}
    <3> HIDE DEF I
    <3>1. PICK x \in I : \A y \in I : x <= y
      BY <1>1, <2>2, Minimum
    <3>2. Min(I) \in I
      BY <3>1 DEF Min
    <3>3. Min(I) \in 1..2
      BY <3>2 DEF I
    <3> HIDE DEF s
    <3> QED BY <1>2, <2>2, <3>3
  <2> QED BY <2>1, <2>2
<1>4. ResolvedSide(g, k, op) = IF s = 0 THEN 0 ELSE <<1, 2>>[s]
  BY DEF ResolvedSide, FirstOf
<1> HIDE DEF s
<1>5. \A j \in 1..2 : <<1, 2>>[j] \in 0..2
  OBVIOUS
<1> QED BY <1>3, <1>4, <1>5

(***************************************************************************)
(* The names of the nodes of a list are names of the graph.                *)
(***************************************************************************)
LEMMA NamesListed ==
    ASSUME NEW g, NEW nodes, nodes \in Seq(Found(g))
    PROVE  NameIn(nodes) \in Seq(Inputs(g) \cup {NoNode.name})
<1> DEFINE S == Inputs(g) \cup {NoNode.name}
           s == [i \in 1..Len(nodes) |-> nodes[i].name]
<1>1. \A i \in 1..Len(nodes) : nodes[i].name \in S
  BY FoundNames
<1> HIDE DEF S
<1>2. s \in Seq(S)
  BY <1>1
<1>3. NameIn(nodes) = s \o <<>>
  BY DEF NameIn, Each
<1> HIDE DEF s
<1>4. s \o <<>> \in Seq(S)
  BY <1>2
<1> QED BY <1>3, <1>4 DEF S

(***************************************************************************)
(* FuseLayerNormV2: the batch normalization between two reshapes, the scale*)
(* and the offset become one node.                                         *)
(***************************************************************************)
LEMMA FuseLayerNormV2Keeps ==
    ASSUME NEW g, NEW n \in ToSet(g), NEW names, Accepted(g), Provides(g, names),
           MatchFuseLayerNormV2(g, n).matched
    PROVE  Improves(ApplyFuseLayerNormV2(g, MatchFuseLayerNormV2(g, n)).graph, g, names)
<1> DEFINE side   == ResolvedSide(g, n, "Mul")
           mul    == Resolved(g, n, side)
           slot   == ResolvedSide(g, mul, "Reshape")
           back   == Resolved(g, mul, slot)
           bn     == Resolved(g, back, 1)
           there  == Resolved(g, bn, 1)
           shape  == Resolved(g, back, 2)
           scale  == Resolved(g, bn, 2)
           offset == Resolved(g, bn, 3)
           parts  == <<there, shape, scale, offset, Resolved(g, scale, 1), Resolved(g, offset, 1),
                       Resolved(g, there, 2)>>
           nodes  == <<mul, back, bn>> \o parts
           a      == there.in[1]
           b      == mul.in[3 - slot]
           c      == n.in[3 - side]
           in     == <<a, b, c>>
           attr   == <<<<"epsilon", Attr(bn, "epsilon", 1000)>>>>
           fused  == FusedAs(n.name, "MusaLayerNorm", in, n.T, n.device, attr)
           obsolete == <<Original(n.name)>> \o NameIn(nodes)
           kept   == {e.src : e \in ToSet(in)} \cup {n.name}
           m      == MatchFuseLayerNormV2(g, n)
<1>1. /\ n.op \in {"Add", "AddV2"} /\ ~HasOriginalSuffix(n.name) /\ Len(n.in) = 2 /\ side # 0
      /\ Len(mul.in) = 2 /\ slot # 0 /\ m = MatchReshaped(g, n, side, mul, slot, back, bn)
  BY DEF MatchFuseLayerNormV2, MatchScaled, MatchReshaped, NoMatch, IsAddOp, IsBinary
<1>2. m = MatchBatchNorm(n, side, mul, slot, back, bn, NormParts(g, there, shape, scale, offset))
  BY <1>1 DEF MatchReshaped, NoMatch
<1> DEFINE found == NormParts(g, there, shape, scale, offset)
<1>3. found # <<>> /\ m.matched
  BY <1>2 DEF MatchBatchNorm, NoMatch
<1>4. found = parts /\ Len(there.in) = 2
  BY <1>3 DEF NormParts, ReshapesAsItWas, IsBinary
<1> HIDE DEF found, m, mul, back, bn, there, shape, scale, offset, side, slot
<1>5. parts[1] = there
  OBVIOUS
<1> HIDE DEF parts
<1>6. m = [matched |-> TRUE, output |-> n, x |-> a, gamma |-> b, beta |-> c,
           epsilon |-> Attr(bn, "epsilon", 1000), nodes |-> nodes]
  <2>1. m = MatchBatchNorm(n, side, mul, slot, back, bn, parts)
    BY <1>2, <1>4 DEF found
  <2>2. m = IF IsBatchNorm(bn) /\ parts # <<>>
            THEN [matched |-> TRUE, output |-> n, x |-> parts[1].in[1], gamma |-> b, beta |-> c,
                  epsilon |-> Attr(bn, "epsilon", 1000), nodes |-> nodes]
            ELSE NoMatch
    BY <2>1 DEF MatchBatchNorm
  <2>3. m # NoMatch
    BY <1>3 DEF NoMatch
  <2> QED BY <1>5, <2>2, <2>3
<1>7. ApplyFuseLayerNormV2(g, m).graph = Replace(g, n.name, fused, obsolete, kept)
  BY <1>6 DEF ApplyFuseLayerNormV2, Ok, FusedAs
<1>8. /\ {mul, back, bn, there, shape, scale, offset} \subseteq Found(g)
      /\ {Resolved(g, scale, 1), Resolved(g, offset, 1), Resolved(g, there, 2)} \subseteq Found(g)
  <2>1. mul \in Found(g)
    BY ResolvedInput DEF mul
  <2>2. back \in Found(g)
    BY <2>1, ResolvedInput DEF back
  <2>3. bn \in Found(g) /\ shape \in Found(g)
    BY <2>2, ResolvedInput DEF bn, shape
  <2>4. there \in Found(g) /\ scale \in Found(g) /\ offset \in Found(g)
    BY <2>3, ResolvedInput DEF there, scale, offset
  <2> QED BY <2>1, <2>2, <2>3, <2>4, ResolvedInput
<1>9. nodes \in Seq(Found(g))
  <2>1. parts \in Seq(Found(g))
    BY <1>8 DEF parts
  <2>2. <<mul, back, bn>> \in Seq(Found(g))
    BY <1>8
  <2>3. PICK first : first = <<mul, back, bn>>
    OBVIOUS
  <2>4. nodes = first \o parts
    BY <2>3
  <2> HIDE DEF nodes
  <2> QED BY <2>1, <2>2, <2>3, <2>4
<1> HIDE DEF nodes, attr, kept
<1>10. 3 - slot \in 1..2 /\ 3 - side \in 1..2
  <2>1. slot \in 0..2 /\ side \in 0..2
    BY SideFound DEF slot, side
  <2> QED BY <1>1, <2>1
<1>11. {a.src, b.src, c.src} \subseteq Inputs(g)
  <2>1. ASSUME NEW k \in Found(g), Len(k.in) = 2
        PROVE  k \in ToSet(g)
    <3>1. Len(<<>>) # 2
      OBVIOUS
    <3>2. k # NoNode
      BY <2>1, <3>1, NoNodeOp
    <3> QED BY <3>2 DEF Found
  <2>2. mul \in ToSet(g) /\ there \in ToSet(g)
    BY <1>1, <1>4, <1>8, <2>1
  <2>3. Len(mul.in) >= 2 /\ Len(there.in) >= 2 /\ Len(n.in) >= 2
    BY <1>1, <1>4
  <2> QED BY <1>10, <2>2, <2>3, OperandNamed
<1> HIDE DEF a, b, c
<1>12. IsSequence(n.name)
  BY DEF Accepted, IsGraph, IsNode, ToSet
<1>13. IsSequence(in) /\ \A f : f.in = in => Sources(f) \subseteq Inputs(g) /\ f.in # <<>>
  BY <1>11, ThreeInputs
<1> HIDE DEF in
<1>14. IsNode(fused) /\ fused.name = n.name /\ fused.op = "MusaLayerNorm" /\ fused.in = in
  BY <1>12, <1>13, FusedNode
<1> HIDE DEF fused
<1>15. /\ IsSequence(obsolete)
       /\ ToSet(obsolete) \subseteq Inputs(g) \cup {Original(n.name), NoNode.name}
  <2> DEFINE S == Inputs(g) \cup {Original(n.name), NoNode.name}
  <2>1. NameIn(nodes) \in Seq(Inputs(g) \cup {NoNode.name})
    BY <1>9, NamesListed
  <2>2. NameIn(nodes) \in Seq(S)
    BY <2>1, SeqMonotonic
  <2>3. <<Original(n.name)>> \in Seq(S)
    OBVIOUS
  <2> HIDE DEF S
  <2> QED BY <2>2, <2>3, Listed DEF S
<1>16. n.op \in RenamedOps /\ fused.op \notin PlainOps
  BY <1>1, <1>14 DEF RenamedOps, PlainOps
<1> HIDE DEF obsolete
<1> QED BY <1>1, <1>7, <1>13, <1>14, <1>15, <1>16, AcceptedReplaced DEF m
-----------------------------------------------------------------------------
(***************************************************************************)
(* The patterns of which it is proved that they keep a graph accepted.     *)
(***************************************************************************)
KeepingPatterns ==
    {"LinearActivation", "Clip", "TokenMixer", "MatMulBiasAdd", "ReshapeMatMul",
     "BiasAddReluMatMul", "ConcatMatMul", "PRelu", "AdamMixed", "FuseLayerNormV2"}

(***************************************************************************)
(* A rewrite of one of these patterns, with everything its Apply replaces  *)
(* and removes, keeps a graph one that TensorFlow accepts, provides what   *)
(* it provided, and leaves less to fuse.                                   *)
(***************************************************************************)
THEOREM RewritesKeepGraphs ==
    ASSUME NEW g, NEW n \in ToSet(g), NEW names, Serves(g, names),
           NEW p \in KeepingPatterns, Match(p, g, n).matched
    PROVE  Improves(Rewrite(p, g, Match(p, g, n)).graph, g, names)
<1> USE DEF Match, Rewrite, Serves
<1>1. CASE p = "LinearActivation"
  BY <1>1, LinearActivationKeeps
<1>2. CASE p = "Clip"
  BY <1>2, ClipKeeps
<1>3. CASE p = "TokenMixer"
  BY <1>3, TokenMixerKeeps
<1>4. CASE p = "MatMulBiasAdd"
  BY <1>4, MatMulBiasAddKeeps
<1>5. CASE p = "ReshapeMatMul"
  BY <1>5, ReshapeMatMulKeeps
<1>6. CASE p = "BiasAddReluMatMul"
  BY <1>6, BiasAddReluMatMulKeeps
<1>7. CASE p = "ConcatMatMul"
  BY <1>7, ConcatMatMulKeeps
<1>8. CASE p = "PRelu"
  BY <1>8, PReluKeeps
<1>9. CASE p = "AdamMixed"
  BY <1>9, AdamMixedKeeps
<1>10. CASE p = "FuseLayerNormV2"
  BY <1>10, FuseLayerNormV2Keeps
<1> QED BY <1>1, <1>2, <1>3, <1>4, <1>5, <1>6, <1>7, <1>8, <1>9, <1>10 DEF KeepingPatterns

(***************************************************************************)
(* The attempt at which a step of the sweep applies a pattern.             *)
(***************************************************************************)
LEMMA PlaceOfAttempt ==
    ASSUME NEW nodes \in Nat, NEW k \in Groups, NEW a \in Nat, NEW reverse, a > 0,
           a <= nodes * Len(PriorityGroups[k])
    PROVE  PositionOf(a, nodes, PriorityGroups[k], reverse) \in Nat \ {0}
<1> DEFINE L == Len(PriorityGroups[k])
           q == (a - 1) \div L
<1>1. L \in 1..4
  <2>1. k \in 1..12
    BY GroupSizes DEF Groups
  <2> QED BY <2>1 DEF PriorityGroups
<1>2. q \in Nat /\ q + 1 <= nodes
  <2> HIDE DEF L
  <2>1. CASE L = 1
    BY <2>1 DEF L
  <2>2. CASE L = 2
    BY <2>2 DEF L
  <2>3. CASE L = 3
    BY <2>3 DEF L
  <2>4. CASE L = 4
    BY <2>4 DEF L
  <2>5. L = 1 \/ L = 2 \/ L = 3 \/ L = 4
    BY <1>1
  <2> QED BY <2>1, <2>2, <2>3, <2>4, <2>5
<1> HIDE DEF q
<1>3. PositionOf(a, nodes, PriorityGroups[k], reverse) = IF reverse THEN nodes + 1 - (q + 1) ELSE q + 1
  BY DEF PositionOf, q
<1> QED BY <1>2, <1>3

LEMMA FirstMatches ==
    ASSUME ScanInBounds, GraphsAreSequences, NEW o \in Optimizers, phase[o] = "fusion",
           First(o, Nodes(o)) <= Attempts(o, Nodes(o))
    PROVE  LET a == First(o, Nodes(o))
               p == Pattern(o, a)
               i == Position(o, Nodes(o), a)
           IN  /\ i \in DOMAIN graph[o] /\ Match(p, graph[o], graph[o][i]).matched
               /\ Active(o, p) /\ IsKernelAvailable(p) /\ p \in ToSet(Patterns(o))
<1> DEFINE nodes == Nodes(o)
           T == {a \in scan[o].attempt + 1..Attempts(o, nodes) :
                    /\ Active(o, Pattern(o, a))
                    /\ Matches(graph[o], Pattern(o, a), Position(o, nodes, a))}
           S == {Attempts(o, nodes) + 1} \cup T
<1>1. scan[o].group \in Groups /\ scan[o].attempt \in Nat
  BY DEF ScanInBounds, ScanStates
<1>2. nodes \in Nat /\ Attempts(o, nodes) \in Nat /\ First(o, nodes) \in Nat
  BY SweepCounts
<1>3. First(o, nodes) = Min(S)
  BY DEF First
<1> HIDE DEF nodes
<1>4. S \in SUBSET Nat /\ S # {}
  BY <1>1, <1>2
<1> HIDE DEF T
<1>5. Min(S) \in S
  <2> HIDE DEF S
  <2>1. PICK x \in S : \A y \in S : x <= y
    BY <1>4, Minimum
  <2> QED BY <2>1 DEF Min
<1>6. First(o, nodes) # Attempts(o, nodes) + 1
  BY <1>2 DEF nodes
<1>7. First(o, nodes) \in T
  BY <1>3, <1>5, <1>6
<1> DEFINE a == First(o, nodes)
<1>8. /\ a \in scan[o].attempt + 1..Attempts(o, nodes) /\ Active(o, Pattern(o, a))
      /\ Matches(graph[o], Pattern(o, a), Position(o, nodes, a))
  BY <1>7 DEF T
<1> HIDE DEF a, T, S
<1>9. Position(o, nodes, a) \in Nat \ {0}
  <2>1. a \in Nat /\ a > 0 /\ a <= nodes * Len(PriorityGroups[scan[o].group])
    BY <1>1, <1>2, <1>8 DEF Attempts, Patterns
  <2> QED BY <1>1, <1>2, <2>1, PlaceOfAttempt DEF Position, Patterns
<1>10. Len(graph[o]) \in Nat /\ DOMAIN graph[o] = 1..Len(graph[o])
  BY Indices DEF GraphsAreSequences
<1>11. Position(o, nodes, a) \in DOMAIN graph[o]
  BY <1>8, <1>9, <1>10 DEF Matches
<1>12. Pattern(o, a) \in ToSet(Patterns(o))
  <2> DEFINE L == Len(Patterns(o))
  <2>1. L \in 1..4 /\ DOMAIN Patterns(o) = 1..L
    <3>1. scan[o].group \in 1..12
      BY <1>1, GroupSizes DEF Groups
    <3> QED BY <3>1 DEF Patterns, PriorityGroups
  <2> HIDE DEF L
  <2>2. a \in Nat \ {0}
    BY <1>1, <1>2, <1>8
  <2>3. ((a - 1) % L) + 1 \in 1..L
    BY <2>1, <2>2
  <2> QED BY <2>1, <2>3 DEF Pattern, PatternOf, ToSet, L
<1> QED BY <1>8, <1>11, <1>12 DEF Matches, nodes, a

(***************************************************************************)
(* What a step of the session o must not do: mix precisions, or apply a    *)
(* pattern of the others.                                                  *)
(***************************************************************************)
AppliesOnly(o, patterns) ==
    LET a == First(o, Nodes(o)) IN a <= Attempts(o, Nodes(o)) => Pattern(o, a) \in patterns

Keeps(o) ==
    /\ phase[o] = "amp" => ~config[o].amp
    /\ phase[o] = "fusion" => AppliesOnly(o, KeepingPatterns)

KeepsGraph(o) ==
    \A names : Serves(graph[o], names) /\ Keeps(o) => Serves(graph'[o], names)

GraphOfEach == graph = [o \in Optimizers |-> graph[o]]

LEMMA FusionKeepsGraph ==
    ASSUME ScanInBounds, GraphsAreSequences, GraphOfEach, NEW o \in Optimizers, Scan(o),
           NEW names, Serves(graph[o], names), Keeps(o)
    PROVE  \/ Improves(graph'[o], graph[o], names)
           \/ /\ graph'[o] = graph[o]
              /\ scan'[o].fusion_applied_count = scan[o].fusion_applied_count
<1> DEFINE a == First(o, Nodes(o))
           p == Pattern(o, a)
           i == Position(o, Nodes(o), a)
           m == Match(p, graph[o], graph[o][i])
<1>1. phase[o] = "fusion" /\ Sweep(o, Nodes(o), a)
  BY DEF Scan
<1>2. a \in Nat /\ Attempts(o, Nodes(o)) \in Nat
  BY <1>1, SweepCounts
<1>3. CASE a > Attempts(o, Nodes(o))
  <2> DEFINE t == AfterScan([scan[o] EXCEPT !.attempt = 0, !.nodes = 0])
  <2>1. graph' = graph /\ scan' = [scan EXCEPT ![o] = t]
    BY <1>1, <1>3 DEF Sweep, EndScan
  <2>2. t.fusion_applied_count = scan[o].fusion_applied_count
    BY <1>1, NextPlace DEF ScanInBounds
  <2> HIDE DEF t
  <2>3. scan'[o] = t
    BY <2>1 DEF ScanInBounds
  <2> QED BY <2>1, <2>2, <2>3
<1>4. CASE a <= Attempts(o, Nodes(o))
  <2>1. i \in DOMAIN graph[o] /\ m.matched /\ p \in KeepingPatterns
    BY <1>1, <1>4, FirstMatches DEF Keeps, AppliesOnly
  <2>2. ApplyFusion(o, a, Nodes(o), p, i)
    BY <1>1, <1>2, <1>4 DEF Sweep
  <2>3. graph' = [graph EXCEPT ![o] = Apply(p, graph[o], m, cache, address[o]).graph]
    BY <2>2 DEF ApplyFusion
  <2> HIDE DEF p, i, a
  <2>4. graph[o][i] \in ToSet(graph[o])
    BY <2>1 DEF ToSet
  <2>5. Improves(Rewrite(p, graph[o], m).graph, graph[o], names)
    BY <2>1, <2>4, RewritesKeepGraphs
  <2> HIDE DEF m
  <2>6. p # "PlnCascade"
    BY <2>1 DEF KeepingPatterns
  <2>7. Apply(p, graph[o], m, cache, address[o]).graph = Rewrite(p, graph[o], m).graph
    BY <2>6 DEF Apply, AfterRewrite
  <2>8. graph'[o] = Rewrite(p, graph[o], m).graph
    BY <2>3, <2>7 DEF GraphOfEach
  <2> QED BY <2>5, <2>8
<1> QED BY <1>2, <1>3, <1>4

LEMMA StepKeepsGraph ==
    ASSUME ScanInBounds, GraphsAreSequences, GraphOfEach, [Next]_vars, NEW o \in Optimizers
    PROVE  KeepsGraph(o)
<1> SUFFICES ASSUME NEW names, Serves(graph[o], names), Keeps(o)
             PROVE  Serves(graph'[o], names)
  BY DEF KeepsGraph
<1>1. CASE UNCHANGED vars
  BY <1>1 DEF vars
<1>2. ASSUME NEW q \in Optimizers, q # o, \E g : graph' = [graph EXCEPT ![q] = g]
      PROVE  Serves(graph'[o], names)
  BY <1>2 DEF GraphOfEach
<1>3. ASSUME NEW q \in Optimizers,
             Optimize(q) \/ MixPrecision(q) \/ Scan(q) \/ Prune(q) \/ OptimizeAgain(q)
      PROVE  graph' = graph \/ \E g : graph' = [graph EXCEPT ![q] = g]
  BY <1>3 DEF Optimize, MixPrecision, Scan, Sweep, EndScan, ApplyFusion, Prune, OptimizeAgain
<1>4. CASE MixPrecision(o)
  <2>1. graph' = [graph EXCEPT ![o] = graph[o]]
    BY <1>4 DEF MixPrecision, Keeps
  <2> QED BY <2>1 DEF GraphOfEach
<1>5. CASE Prune(o)
  <2>1. graph' = [graph EXCEPT ![o] = RemoveIsolatedNodes(graph[o])]
    BY <1>5 DEF Prune
  <2>2. graph'[o] = RemoveIsolatedNodes(graph[o])
    BY <2>1 DEF GraphOfEach
  <2> QED BY <2>2, IsolatedNodesRemoved
<1>6. CASE Optimize(o) \/ OptimizeAgain(o)
  BY <1>6 DEF Optimize, OptimizeAgain
<1>7. CASE Scan(o)
  BY <1>7, FusionKeepsGraph DEF Improves
<1> QED BY <1>1, <1>2, <1>3, <1>4, <1>5, <1>6, <1>7 DEF Next

LEMMA GraphStaysOfEach == ASSUME GraphOfEach, [Next]_vars PROVE GraphOfEach'
<1>1. ASSUME NEW q \in Optimizers,
             Optimize(q) \/ MixPrecision(q) \/ Scan(q) \/ Prune(q) \/ OptimizeAgain(q)
      PROVE  graph' = graph \/ \E g : graph' = [graph EXCEPT ![q] = g]
  BY <1>1 DEF Optimize, MixPrecision, Scan, Sweep, EndScan, ApplyFusion, Prune, OptimizeAgain
<1>2. CASE graph' = graph
  BY <1>2 DEF GraphOfEach
<1>3. ASSUME NEW q \in Optimizers, NEW g, graph' = [graph EXCEPT ![q] = g]
      PROVE  GraphOfEach'
  BY <1>3 DEF GraphOfEach
<1> QED BY <1>1, <1>2, <1>3 DEF Next, vars

(***************************************************************************)
(* A step of a session that applies one of these patterns, or removes      *)
(* isolated nodes, makes no dangling input, and gives no name twice,       *)
(* whatever the graph: it can be large, in any order, and its nodes can    *)
(* have other consumers.                                                   *)
(***************************************************************************)
THEOREM StepsKeepGraphs ==
    Spec /\ []GraphsAreSequences => [][\A o \in Optimizers : KeepsGraph(o)]_vars
<1>1. Init => GraphOfEach
  BY DEF Init, GraphOfEach
<1>2. GraphOfEach /\ [Next]_vars => GraphOfEach'
  BY GraphStaysOfEach
<1>3. ScanInBounds /\ GraphsAreSequences /\ GraphOfEach /\ [Next]_vars
        => \A o \in Optimizers : KeepsGraph(o)
  BY StepKeepsGraph
<1> QED BY <1>1, <1>2, <1>3, LoopsInBounds, PTL DEF Spec

(***************************************************************************)
(* The sessions are given accepted graphs; they apply none of the other    *)
(* patterns, and do not mix precisions.                                    *)
(***************************************************************************)
ItemsServe == \A o \in Optimizers : Serves(item[o], Fetched(item[o]))

OnlyKeeping == \A o \in Optimizers : Keeps(o)

GraphsServe == \A o \in Optimizers : Serves(graph[o], Fetched(item[o]))

(***************************************************************************)
(* What has been applied in a call, and what there is left to fuse.        *)
(***************************************************************************)
FusionsLeft(o) ==
    Cardinality(Fusible(graph[o])) + scan[o].fusion_applied_count <= Len(item[o])

SessionsServed == ItemsServe /\ GraphsServe /\ GraphOfEach /\ ScanInBounds

ServedInv == SessionsServed /\ \A o \in Optimizers : FusionsLeft(o)

(***************************************************************************)
(* A graph that serves its session is well formed.                         *)
(***************************************************************************)
LEMMA ServingGraph ==
    ASSUME NEW g, NEW names, Serves(g, names)
    PROVE  /\ IsFiniteSet(Names(g)) /\ Cardinality(Names(g)) = Len(g) /\ Len(g) \in Nat
           /\ \A n \in ToSet(g) : Sources(n) \subseteq Names(g)
           /\ names \subseteq Names(g)
<1> DEFINE f == [i \in 1..Len(g) |-> g[i].name]
<1>1. Len(g) \in Nat /\ DOMAIN g = 1..Len(g)
  BY Indices DEF Serves, Accepted, IsGraph
<1>2. \A i, j \in 1..Len(g) : g[i].name = g[j].name => i = j
  BY <1>1 DEF Serves, Accepted, IsGraph
<1>3. Names(g) = {g[i].name : i \in 1..Len(g)}
  BY <1>1 DEF Names
<1>4. f \in Bijection(1..Len(g), Names(g))
  BY <1>2, <1>3 DEF Bijection, Injection, Surjection, IsInjective
<1>5. IsFiniteSet(Names(g)) /\ Cardinality(Names(g)) = Len(g)
  BY <1>1, <1>4, FS_CountingElements, FS_NatBijection DEF ExistsBijection
<1>6. \A n \in ToSet(g) : Sources(n) \subseteq Names(g)
  BY DEF Serves, Accepted, Closed, ToSet
<1>7. names \subseteq Names(g)
  BY DEF Serves, Provides, Names, ToSet
<1> QED BY <1>1, <1>5, <1>6, <1>7

(***************************************************************************)
(* There are at most as many nodes to fuse as nodes.                       *)
(***************************************************************************)
LEMMA FusibleCounted ==
    ASSUME NEW g, NEW names, Serves(g, names)
    PROVE  /\ IsFiniteSet(Fusible(g)) /\ Len(g) \in Nat
           /\ Cardinality(Fusible(g)) \in Nat /\ Cardinality(Fusible(g)) <= Len(g)
<1>1. IsFiniteSet(Names(g)) /\ Cardinality(Names(g)) = Len(g) /\ Len(g) \in Nat
  BY ServingGraph
<1>2. Fusible(g) \subseteq Names(g)
  BY DEF Fusible, Names, ToSet
<1> QED BY <1>1, <1>2, FS_Subset, FS_CardinalityType

(***************************************************************************)
(* Such a step keeps every graph one that serves its session.              *)
(***************************************************************************)
LEMMA SessionStep ==
    ASSUME SessionsServed, OnlyKeeping, [Next]_vars
    PROVE  SessionsServed' /\ item' = item
<1>1. GraphsAreSequences
  BY DEF SessionsServed, GraphsServe, GraphsAreSequences, Serves, Accepted, IsGraph
<1>2. ItemsServe' /\ item' = item
  BY DEF SessionsServed, ItemsServe, Next, vars, Optimize, MixPrecision, Scan, Prune, OptimizeAgain
<1>3. GraphsServe'
  BY <1>1, <1>2, StepKeepsGraph DEF SessionsServed, OnlyKeeping, GraphsServe, KeepsGraph
<1>4. GraphOfEach' /\ ScanInBounds'
  BY <1>1, GraphStaysOfEach, ScanStaysInBounds DEF SessionsServed
<1> QED BY <1>2, <1>3, <1>4 DEF SessionsServed

(***************************************************************************)
(* A fusion takes one of the nodes there are to fuse; no other step makes  *)
(* one.                                                                    *)
(***************************************************************************)
LEMMA StepCountsFusions ==
    ASSUME SessionsServed, OnlyKeeping, [Next]_vars, NEW o \in Optimizers, FusionsLeft(o)
    PROVE  FusionsLeft(o)'
<1> DEFINE names == Fetched(item[o])
           F == Fusible(graph[o])
           c == scan[o].fusion_applied_count
           newF == Fusible(graph'[o])
           newC == scan'[o].fusion_applied_count
<1>1. SessionsServed' /\ item' = item /\ Keeps(o)
  BY SessionStep DEF OnlyKeeping
<1>2. GraphsAreSequences
  BY DEF SessionsServed, GraphsServe, GraphsAreSequences, Serves, Accepted, IsGraph
<1>3. Serves(graph[o], names)
  BY DEF SessionsServed, GraphsServe
<1>4. /\ IsFiniteSet(F) /\ Cardinality(F) \in Nat /\ c \in Nat /\ Len(item[o]) \in Nat
      /\ Cardinality(F) + c <= Len(item[o])
  <2>1. IsFiniteSet(F) /\ Cardinality(F) \in Nat
    BY <1>3, FusibleCounted
  <2>2. c \in Nat
    BY DEF SessionsServed, ScanInBounds, ScanStates
  <2>3. Len(item[o]) \in Nat
    BY FusibleCounted DEF SessionsServed, ItemsServe
  <2> QED BY <2>1, <2>2, <2>3 DEF FusionsLeft
<1>5. \/ newF \subseteq F /\ newC \in {0, c}
      \/ newF \subseteq F /\ newF # F /\ newC \in {c, c + 1}
  <2>1. CASE UNCHANGED vars
    BY <2>1 DEF vars
  <2>2. ASSUME NEW q \in Optimizers, q # o,
               Optimize(q) \/ MixPrecision(q) \/ Scan(q) \/ Prune(q) \/ OptimizeAgain(q)
        PROVE  newF = F /\ newC = c
    <3>1. /\ graph' = graph \/ \E g : graph' = [graph EXCEPT ![q] = g]
          /\ scan' = scan \/ \E s : scan' = [scan EXCEPT ![q] = s]
      BY <2>2 DEF Optimize, MixPrecision, Scan, Sweep, EndScan, ApplyFusion, Prune, OptimizeAgain
    <3> QED BY <2>2, <3>1 DEF SessionsServed, GraphOfEach, ScanInBounds
  <2>3. CASE Optimize(o) \/ OptimizeAgain(o)
    BY <2>3 DEF Optimize, OptimizeAgain
  <2>4. CASE MixPrecision(o)
    <3>1. graph' = [graph EXCEPT ![o] = graph[o]] /\ scan' = [scan EXCEPT ![o] = FirstScan]
      BY <1>1, <2>4 DEF MixPrecision, Keeps
    <3>2. graph'[o] = graph[o] /\ scan'[o] = FirstScan
      BY <3>1 DEF SessionsServed, GraphOfEach, ScanInBounds
    <3> QED BY <3>2 DEF FirstScan
  <2>5. CASE Prune(o)
    <3>1. graph' = [graph EXCEPT ![o] = RemoveIsolatedNodes(graph[o])] /\ scan' = scan
      BY <2>5 DEF Prune
    <3>2. graph'[o] = RemoveIsolatedNodes(graph[o])
      BY <3>1 DEF SessionsServed, GraphOfEach
    <3> QED BY <1>3, <3>1, <3>2, IsolatedNodesRemoved
  <2>6. CASE Scan(o)
    <3>1. newC = c \/ newC = c + 1
      BY <1>2, <2>6, ScanStep DEF SessionsServed, Advances
    <3>2. Improves(graph'[o], graph[o], names) \/ (graph'[o] = graph[o] /\ newC = c)
      BY <1>1, <1>2, <1>3, <2>6, FusionKeepsGraph DEF SessionsServed
    <3> QED BY <3>1, <3>2 DEF Improves
  <2> QED BY <2>1, <2>2, <2>3, <2>4, <2>5, <2>6 DEF Next
<1> HIDE DEF F, c, newF, newC
<1>6. newF \subseteq F =>
         /\ Cardinality(newF) \in Nat /\ Cardinality(newF) <= Cardinality(F)
         /\ newF # F => Cardinality(newF) # Cardinality(F)
  BY <1>4, FS_Subset, FS_CardinalityType
<1>7. Cardinality(newF) + newC <= Len(item[o])
  BY <1>4, <1>5, <1>6
<1> QED BY <1>1, <1>7 DEF FusionsLeft, newF, newC

LEMMA ServedInvInit == ASSUME Init, ItemsServe PROVE ServedInv
<1>1. graph = item /\ GraphOfEach
  BY DEF Init, GraphOfEach
<1>2. ScanInBounds
  BY FirstScanFresh DEF Init, ScanInBounds, Fresh
<1>3. SessionsServed
  BY <1>1, <1>2 DEF SessionsServed, ItemsServe, GraphsServe
<1>4. ASSUME NEW o \in Optimizers PROVE FusionsLeft(o)
  <2>1. Cardinality(Fusible(item[o])) \in Nat /\ Cardinality(Fusible(item[o])) <= Len(item[o])
    BY FusibleCounted DEF ItemsServe
  <2>2. scan[o].fusion_applied_count = 0
    BY DEF Init, FirstScan
  <2> QED BY <1>1, <2>1, <2>2 DEF FusionsLeft
<1> QED BY <1>3, <1>4 DEF ServedInv

LEMMA ServedInvStep == ASSUME ServedInv, OnlyKeeping, [Next]_vars PROVE ServedInv'
  BY SessionStep, StepCountsFusions DEF ServedInv

(***************************************************************************)
(* As long as sessions that were given accepted graphs apply only these    *)
(* patterns, after every step their graphs are ones that TensorFlow        *)
(* accepts, and what they fetch is there.                                  *)
(***************************************************************************)
THEOREM GraphsStayWellFormed == Spec /\ ItemsServe /\ []OnlyKeeping => []WellFormed
<1>1. Init /\ ItemsServe => ServedInv
  BY ServedInvInit
<1>2. ServedInv /\ OnlyKeeping /\ [Next]_vars => ServedInv'
  BY ServedInvStep
<1>3. ServedInv => WellFormed
  BY ServingGraph DEF ServedInv, SessionsServed, GraphsServe, WellFormed
<1> QED BY <1>1, <1>2, <1>3, PTL DEF Spec

(***************************************************************************)
(* Nor does a scan apply more patterns than the graph of the session has   *)
(* nodes, however its nodes are connected and ordered: each of these       *)
(* patterns uses up a node at which one could apply, and makes none.       *)
(***************************************************************************)
THEOREM FusionsStayBounded == Spec /\ ItemsServe /\ []OnlyKeeping => []FusionsBounded
<1>1. Init /\ ItemsServe => ServedInv
  BY ServedInvInit
<1>2. ServedInv /\ OnlyKeeping /\ [Next]_vars => ServedInv'
  BY ServedInvStep
<1>3. ServedInv => FusionsBounded
  <2> SUFFICES ASSUME ServedInv, NEW o \in Optimizers
               PROVE  scan[o].fusion_applied_count <= Len(item[o])
    BY DEF FusionsBounded
  <2>1. Cardinality(Fusible(graph[o])) \in Nat /\ FusionsLeft(o)
    BY FusibleCounted DEF ServedInv, SessionsServed, GraphsServe
  <2>2. scan[o].fusion_applied_count \in Nat /\ Len(item[o]) \in Nat
    BY FusibleCounted DEF ServedInv, SessionsServed, ItemsServe, ScanInBounds, ScanStates
  <2> QED BY <2>1, <2>2 DEF FusionsLeft
<1> QED BY <1>1, <1>2, <1>3, PTL DEF Spec

(***************************************************************************)
(* Sessions that disable mixed precision and the other patterns.           *)
(* SigmoidCalibration has no kernel.                                       *)
(***************************************************************************)
TameSessions ==
    \A o \in Optimizers :
        /\ ~config[o].amp
        /\ \A k \in Groups : ToSet(PriorityGroups[k]) \subseteq
                                KeepingPatterns \cup {"SigmoidCalibration"} \cup config[o].disabled

LEMMA TameSessionsApply == ASSUME SessionsServed, TameSessions PROVE OnlyKeeping
<1>1. GraphsAreSequences
  BY DEF SessionsServed, GraphsServe, GraphsAreSequences, Serves, Accepted, IsGraph
<1> SUFFICES ASSUME NEW o \in Optimizers, phase[o] = "fusion",
                    First(o, Nodes(o)) <= Attempts(o, Nodes(o))
             PROVE  Pattern(o, First(o, Nodes(o))) \in KeepingPatterns
  BY DEF OnlyKeeping, Keeps, AppliesOnly, TameSessions
<1> DEFINE p == Pattern(o, First(o, Nodes(o)))
<1>2. Active(o, p) /\ IsKernelAvailable(p) /\ p \in ToSet(Patterns(o))
  BY <1>1, FirstMatches DEF SessionsServed
<1>3. scan[o].group \in Groups
  BY DEF SessionsServed, ScanInBounds
<1> HIDE DEF p
<1>4. p \in KeepingPatterns \cup {"SigmoidCalibration"} \cup config[o].disabled
  BY <1>2, <1>3 DEF TameSessions, Patterns
<1>5. p \in KeepingPatterns
  BY <1>2, <1>4 DEF Active, IsKernelAvailable
<1> QED BY <1>5 DEF p

(***************************************************************************)
(* In sessions that disable the rest, only these patterns ever apply.      *)
(***************************************************************************)
THEOREM TameSessionsKeep == Spec /\ ItemsServe /\ TameSessions => []OnlyKeeping
<1>1. Init /\ ItemsServe => ServedInv
  BY ServedInvInit
<1>2. ServedInv /\ OnlyKeeping /\ [Next]_vars => ServedInv'
  BY ServedInvStep
<1>3. TameSessions /\ [Next]_vars => TameSessions'
  BY DEF TameSessions, Next, vars, Optimize, MixPrecision, Scan, Prune, OptimizeAgain
<1>4. ServedInv /\ TameSessions => OnlyKeeping
  BY TameSessionsApply DEF ServedInv
<1> QED BY <1>1, <1>2, <1>3, <1>4, PTL DEF Spec
=============================================================================
