----------------------- MODULE BindingsPipelineProofs -----------------------
(***************************************************************************)
(* What the first two tools of a queue member guarantee for every tensor   *)
(* and every overrides.                                                    *)
(***************************************************************************)
EXTENDS BindingsPipeline, RustBindingsProofs, SequenceTheorems, WellFoundedInduction

\* A set of natural numbers that is not empty has a least element.
LEMMA LeastNatural ==
  ASSUME NEW T \in SUBSET Nat, T # {}
  PROVE  \E x \in T : \A y \in T : x <= y
<1> DEFINE R == OpToRel(<, Nat)
<1>1. IsWellFoundedOn(R, Nat) BY NatLessThanWellFounded
<1>2. \E x \in T : \A y \in T : ~(<<y, x>> \in R)
  <2> HIDE DEF R
  <2> QED BY <1>1, WFMin
<1>3. PICK x \in T : \A y \in T : ~(<<y, x>> \in R) BY <1>2
<1>4. ASSUME NEW y \in T PROVE x <= y
  <2>1. ~(<<y, x>> \in {ss \in Nat \X Nat : ss[1] < ss[2]}) BY <1>3 DEF OpToRel
  <2> QED BY <2>1
<1> QED BY <1>4

\* A set of natural numbers with 0 in it, and n + 1 with n, is all of them.
LEMMA Inductive ==
  ASSUME NEW G \in SUBSET Nat, 0 \in G, \A n \in G : n + 1 \in G
  PROVE  \A n \in Nat : n \in G
<1> DEFINE T == Nat \ G
<1> SUFFICES ASSUME T # {} PROVE FALSE
  OBVIOUS
<1>1. PICK x \in T : \A y \in T : x <= y BY LeastNatural
<1>2. x # 0 /\ x - 1 \in Nat /\ x - 1 \notin T BY <1>1
<1>3. x - 1 + 1 \in G BY <1>2
<1> QED BY <1>1, <1>3

\* A recursive definition over D: val[x][f] is what f gives at x, and depends on the
\* values of f at lower rank only.
Ranked(D, S, n, rank, val) ==
  /\ S # {} /\ n \in Nat
  /\ rank \in [D -> Nat] /\ \A x \in D : rank[x] < n
  /\ val \in [D -> [[D -> S] -> S]]
  /\ \A x \in D : \A f, g \in [D -> S] :
       (\A y \in D : rank[y] < rank[x] => f[y] = g[y]) => val[x][f] = val[x][g]

\* Such a definition has a solution.
LEMMA Solved ==
  ASSUME NEW D, NEW S, NEW N, NEW rank, NEW val, Ranked(D, S, N, rank, val)
  PROVE  \E f \in [D -> S] : \A x \in D : f[x] = val[x][f]
<1> USE DEF Ranked
<1> DEFINE G == {n \in Nat : \E f \in [D -> S] : \A x \in D : rank[x] < n => f[x] = val[x][f]}
<1>1. 0 \in G
  <2>0. PICK b \in S : TRUE
    OBVIOUS
  <2>1. [x \in D |-> b] \in [D -> S]
    OBVIOUS
  <2>2. \A x \in D : ~(rank[x] < 0)
    OBVIOUS
  <2> QED BY <2>1, <2>2
<1>2. ASSUME NEW n \in G PROVE n + 1 \in G
  <2>1. n \in Nat /\ n + 1 \in Nat BY <1>2
  <2>2. PICK f \in [D -> S] : \A x \in D : rank[x] < n => f[x] = val[x][f] BY <1>2
  <2> DEFINE g == [x \in D |-> IF rank[x] = n THEN val[x][f] ELSE f[x]]
  <2>3. g \in [D -> S]
    OBVIOUS
  <2>4. \A x \in D : g[x] = IF rank[x] = n THEN val[x][f] ELSE f[x]
    OBVIOUS
  <2> HIDE DEF g
  <2>5. ASSUME NEW x \in D, rank[x] < n + 1 PROVE g[x] = val[x][g]
    <3>1. rank[x] \in Nat
      OBVIOUS
    <3>2. \A y \in D : rank[y] < rank[x] => f[y] = g[y]
      <4> SUFFICES ASSUME NEW y \in D, rank[y] < rank[x] PROVE f[y] = g[y]
        OBVIOUS
      <4>1. rank[y] # n BY <2>1, <2>5, <3>1
      <4> QED BY <2>4, <4>1
    <3>3. val[x][f] = val[x][g] BY <2>3, <3>2
    <3>4. CASE rank[x] = n BY <2>4, <3>3, <3>4
    <3>5. CASE rank[x] # n
      <4>1. PICK q \in Nat : q = rank[x] BY <3>1
      <4>2. q < n + 1 /\ q # n BY <2>5, <3>5, <4>1
      <4>3. q < n BY <2>1, <4>2
      <4> QED BY <2>2, <2>4, <3>3, <3>5, <4>1, <4>3
    <3> QED BY <3>4, <3>5
  <2> QED BY <2>1, <2>3, <2>5
<1>3. N \in G
  <2>1. G \in SUBSET Nat
    OBVIOUS
  <2> HIDE DEF G
  <2> QED BY <1>1, <1>2, <2>1, Inductive
<1> QED BY <1>3

LEMMA Stays ==
  ASSUME t' = t
  PROVE  /\ Aligned' = Aligned
         /\ \A col, n : Leaves(col, n)' = Leaves(col, n)
         /\ \A r : AlignedFrom(r)' = AlignedFrom(r)
<1>1. Aligned' = Aligned
  BY DEF Aligned, AlignedFrom, FindFunction, Named, SameShape, SameKind, Kids, ChildPairs
<1>2. \A r : AlignedFrom(r)' = AlignedFrom(r)
  BY DEF AlignedFrom, SameShape, SameKind, Kids, ChildPairs
<1>3. \A col, n : Leaves(col, n)' = Leaves(col, n)
  BY DEF Leaves, Name, Kids
<1> QED BY <1>1, <1>2, <1>3
-----------------------------------------------------------------------------
(* Tensors, and the nodes of two trees that correspond.                      *)

Tree == IsTensor(t)
Both == Nodes \X Nodes

LEMMA Rows ==
  ASSUME Tree
  PROVE  /\ Len(t.kind) \in Nat /\ Nodes = 1..Len(t.kind)
         /\ \A n \in Nodes : Kids(n) \in Seq(Nat) /\ DOMAIN Kids(n) = 1..Len(Kids(n))
         /\ \A n \in Nodes : \A i \in DOMAIN Kids(n) : Kids(n)[i] \in Nodes /\ n < Kids(n)[i]
         /\ \A n, m \in Nodes : \A i \in DOMAIN Kids(n), j \in DOMAIN Kids(m) :
              Kids(m)[j] = Kids(n)[i] => m = n /\ j = i
         /\ \A col \in Columns, n \in Nodes : Name(col, n) \in STRING
<1>1. t.kind \in Seq(STRING) /\ t.kids \in Seq(Seq(Nat)) /\ Len(t.kids) = Len(t.kind)
  BY DEF Tree, IsTensor, Corpus
<1>2. Len(t.kind) \in Nat /\ Nodes = 1..Len(t.kind) /\ DOMAIN t.kids = Nodes
  BY <1>1 DEF Nodes
<1>3. \A n \in Nodes : Kids(n) \in Seq(Nat)
  BY <1>1, <1>2 DEF Kids
<1>4. \A n \in Nodes : DOMAIN Kids(n) = 1..Len(Kids(n))
  BY <1>3
<1>5. \A n \in Nodes : \A i \in DOMAIN Kids(n) : Kids(n)[i] \in (n + 1)..Len(t.kind)
  BY <1>2 DEF Tree, IsTensor, Kids
<1>6. \A n \in Nodes : \A i \in DOMAIN Kids(n) : Kids(n)[i] \in Nodes /\ n < Kids(n)[i]
  BY <1>2, <1>5
<1>7. \A n, m \in Nodes : \A i \in DOMAIN Kids(n), j \in DOMAIN Kids(m) :
        Kids(m)[j] = Kids(n)[i] => m = n /\ j = i
  BY <1>2 DEF Tree, IsTensor, Kids
<1>8. \A col \in Columns, n \in Nodes : Name(col, n) \in STRING
  <2>1. \A col \in Columns : t.name[col] \in Seq(STRING) /\ Len(t.name[col]) = Len(t.kind)
    BY DEF Tree, IsTensor, Corpus
  <2> QED BY <1>2, <2>1 DEF Name
<1> QED BY <1>2, <1>3, <1>4, <1>6, <1>7, <1>8

LEMMA OnlyParent ==
  ASSUME Tree, NEW n \in Nodes, NEW m \in Nodes, NEW i \in DOMAIN Kids(n), NEW j \in DOMAIN Kids(m),
         Kids(m)[j] = Kids(n)[i]
  PROVE  m = n /\ j = i
BY Rows

LEMMA Children ==
  ASSUME Tree, NEW p \in Both, SameShape(p)
  PROVE  \A q \in ChildPairs(p) : q \in Both /\ p[1] < q[1] /\ p[2] < q[2]
<1>1. p[1] \in Nodes /\ p[2] \in Nodes BY DEF Both
<1>2. DOMAIN Kids(p[1]) = DOMAIN Kids(p[2]) BY <1>1, Rows DEF SameShape
<1>3. \A i \in DOMAIN Kids(p[1]) :
        /\ Kids(p[1])[i] \in Nodes /\ p[1] < Kids(p[1])[i]
        /\ Kids(p[2])[i] \in Nodes /\ p[2] < Kids(p[2])[i]
  BY <1>1, <1>2, Rows
<1> QED BY <1>3 DEF ChildPairs, Both

NextGeneration(gen, d) == UNION {ChildPairs(p) : p \in {q \in gen[d] : SameShape(q)}}

\* The generations of AlignedFrom exist.
LEMMA Generations ==
  ASSUME Tree, NEW roots \in Both
  PROVE  \E gen \in [0..Len(t.kind) -> SUBSET Both] :
           /\ gen[0] = {roots}
           /\ \A d \in 1..Len(t.kind) : gen[d] = NextGeneration(gen, d - 1)
           /\ AlignedFrom(roots) = UNION {gen[d] : d \in 0..Len(t.kind)}
<1> DEFINE L == Len(t.kind)
           D == 0..L
           S == SUBSET Both
           Step(g, d) == IF d = 0 THEN {roots} ELSE NextGeneration(g, d - 1)
           rank == [d \in D |-> d]
           val == [d \in D |-> [g \in [D -> S] |-> Step(g, d)]]
           g0 == CHOOSE g : g = [d \in D |-> Step(g, d)]
<1>1. L \in Nat BY Rows
<1>2. \A d \in D : d # 0 => d - 1 \in D BY <1>1
<1>3. \A g \in [D -> S], d \in D : Step(g, d) \in S
  <2> SUFFICES ASSUME NEW g \in [D -> S], NEW d \in D, d # 0 PROVE NextGeneration(g, d - 1) \in S
    OBVIOUS
  <2>1. g[d - 1] \in S BY <1>2
  <2> QED BY <2>1, Children DEF NextGeneration
<1>4. \A f, g \in [D -> S], d \in D :
        (\A y \in D : rank[y] < rank[d] => f[y] = g[y]) => Step(f, d) = Step(g, d)
  <2> SUFFICES ASSUME NEW f \in [D -> S], NEW g \in [D -> S], NEW d \in D, d # 0,
                      \A y \in D : y < d => f[y] = g[y]
               PROVE  NextGeneration(f, d - 1) = NextGeneration(g, d - 1)
    OBVIOUS
  <2>1. f[d - 1] = g[d - 1] BY <1>1, <1>2
  <2> QED BY <2>1 DEF NextGeneration
<1>5. \E g \in [D -> S] : \A d \in D : g[d] = val[d][g]
  <2>1. PICK n : n = L + 1 OBVIOUS
  <2>2. n \in Nat /\ \A d \in D : rank[d] < n BY <1>1, <2>1
  <2>3. rank \in [D -> Nat] BY <1>1
  <2>4. val \in [D -> [[D -> S] -> S]] BY <1>3
  <2>5. \A x \in D : \A f, g \in [D -> S] :
          (\A y \in D : rank[y] < rank[x] => f[y] = g[y]) => val[x][f] = val[x][g]
    BY <1>4
  <2>6. {} \in S OBVIOUS
  <2> HIDE DEF rank, val, D, S
  <2>7. Ranked(D, S, n, rank, val) BY <2>2, <2>3, <2>4, <2>5, <2>6 DEF Ranked
  <2> QED BY <2>7, Solved
<1>6. PICK g \in [D -> S] : \A d \in D : g[d] = Step(g, d) BY <1>5
<1>7. g0 = [d \in D |-> Step(g0, d)]
  <2>1. g = [d \in D |-> Step(g, d)]
    <3> HIDE DEF D, S, Step
    <3> QED BY <1>6
  <2> HIDE DEF D, Step
  <2> QED BY <2>1
<1>8. \A d \in D : g0[d] = Step(g0, d) 
  <2> HIDE DEF g0, D, Step
  <2> QED BY <1>7
<1>9. \A d \in D : g0[d] \in S
  <2> DEFINE T == {d \in D : g0[d] \notin S}
  <2> SUFFICES ASSUME T # {} PROVE FALSE
    OBVIOUS
  <2>1. T \in SUBSET Nat BY <1>1
  <2>2. PICK d \in T : \A y \in T : d <= y BY <2>1, LeastNatural
  <2>3. d \in D /\ g0[d] = Step(g0, d) /\ g0[d] \notin S BY <1>8
  <2> HIDE DEF g0
  <2>4. d # 0
    <3>1. {roots} \in S OBVIOUS
    <3> QED BY <2>3, <3>1
  <2>5. d - 1 \in D /\ d - 1 \notin T
    <3>1. d \in 0..L BY <2>3
    <3>2. d - 1 \in D /\ d - 1 < d /\ ~(d <= d - 1) BY <1>1, <2>4, <3>1
    <3> HIDE DEF T
    <3> QED BY <2>2, <3>2
  <2>6. g0[d - 1] \in S BY <2>5
  <2> HIDE DEF g0
  <2>7. NextGeneration(g0, d - 1) \in S BY <2>6, Children DEF NextGeneration
  <2> QED BY <2>2, <2>3, <2>4, <2>7
<1>10. AlignedFrom(roots) = UNION {g0[d] : d \in D}
  BY DEF AlignedFrom, NextGeneration
<1>11. g0 \in [D -> S]
  <2> HIDE DEF g0, D, S, Step
  <2> QED BY <1>7, <1>9
<1>12. g0[0] = {roots} /\ \A d \in 1..L : g0[d] = NextGeneration(g0, d - 1)
  <2> HIDE DEF g0
  <2> QED BY <1>1, <1>8
<1> HIDE DEF g0
<1> QED BY <1>10, <1>11, <1>12

\* A set of pairs that holds the child pairs of each of its pairs of one shape.
ClosedBelow(V) == \A p \in V : SameShape(p) => ChildPairs(p) \subseteq V

\* AlignedFrom is the least set with the roots that is closed below.
LEMMA AlignedIsLeast ==
  ASSUME Tree, NEW roots \in Both
  PROVE  /\ roots \in AlignedFrom(roots) /\ AlignedFrom(roots) \subseteq Both
         /\ ClosedBelow(AlignedFrom(roots))
         /\ \A V : roots \in V /\ ClosedBelow(V) => AlignedFrom(roots) \subseteq V
<1> DEFINE L == Len(t.kind)
<1>1. L \in Nat BY Rows
<1>2. PICK gen \in [0..L -> SUBSET Both] :
           /\ gen[0] = {roots}
           /\ \A d \in 1..L : gen[d] = NextGeneration(gen, d - 1)
           /\ AlignedFrom(roots) = UNION {gen[d] : d \in 0..L}
  BY Generations
<1>3. \A p \in AlignedFrom(roots) : \E d \in 0..L : p \in gen[d] BY <1>2
<1>4. \A d \in 0..L : gen[d] \subseteq AlignedFrom(roots) BY <1>2
<1>5. roots \in AlignedFrom(roots) /\ AlignedFrom(roots) \subseteq Both
  <2>1. 0 \in 0..L BY <1>1
  <2> QED BY <1>2, <1>3, <1>4, <2>1
<1>6. \A d \in Nat : d \in 0..L => \A p \in gen[d] : d < p[1]
  <2> DEFINE G == {d \in Nat : d \in 0..L => \A p \in gen[d] : d < p[1]}
  <2>1. 0 \in G
    <3>1. roots[1] \in 1..L BY Rows DEF Both
    <3> QED BY <1>2, <3>1
  <2>2. ASSUME NEW d \in G PROVE d + 1 \in G
    <3>1. d \in Nat /\ d + 1 \in Nat BY <2>2
    <3> SUFFICES ASSUME d + 1 \in 0..L, NEW q \in gen[d + 1] PROVE d + 1 < q[1]
      BY <3>1
    <3>2. d \in 0..L /\ d + 1 \in 1..L /\ (d + 1) - 1 = d BY <1>1, <3>1
    <3>3. q \in NextGeneration(gen, d) BY <1>2, <3>2
    <3>4. PICK p \in gen[d] : SameShape(p) /\ q \in ChildPairs(p) BY <3>3 DEF NextGeneration
    <3>5. p \in Both /\ d < p[1] BY <1>2, <2>2, <3>2, <3>4
    <3>6. p[1] < q[1] /\ q \in Both BY <3>4, <3>5, Children
    <3>7. p[1] \in Nat /\ q[1] \in Nat BY <1>1, <3>5, <3>6, Rows DEF Both
    <3> QED BY <3>1, <3>5, <3>6, <3>7
  <2> HIDE DEF G
  <2>3. \A d \in Nat : d \in G BY <2>1, <2>2, Inductive DEF G
  <2> QED BY <2>3 DEF G
<1>7. ClosedBelow(AlignedFrom(roots))
  <2> SUFFICES ASSUME NEW p \in AlignedFrom(roots), SameShape(p)
               PROVE  ChildPairs(p) \subseteq AlignedFrom(roots)
    BY DEF ClosedBelow
  <2>1. PICK d \in 0..L : p \in gen[d] BY <1>3
  <2>2. p \in Both /\ p[1] \in 1..L BY <1>5, Rows DEF Both
  <2>3. d < p[1] BY <1>6, <2>1
  <2>4. d + 1 \in 1..L /\ (d + 1) - 1 = d BY <1>1, <2>1, <2>2, <2>3
  <2>5. gen[d + 1] = NextGeneration(gen, d) BY <1>2, <2>4
  <2>6. ChildPairs(p) \subseteq gen[d + 1] BY <2>1, <2>5 DEF NextGeneration
  <2> QED BY <1>4, <2>4, <2>6
<1>8. ASSUME NEW V, roots \in V, ClosedBelow(V) PROVE AlignedFrom(roots) \subseteq V
  <2> DEFINE G == {d \in Nat : d \in 0..L => gen[d] \subseteq V}
  <2>1. 0 \in G BY <1>2, <1>8
  <2>2. ASSUME NEW d \in G PROVE d + 1 \in G
    <3>1. d \in Nat /\ d + 1 \in Nat BY <2>2
    <3> SUFFICES ASSUME d + 1 \in 0..L PROVE gen[d + 1] \subseteq V
      BY <3>1
    <3>2. d \in 0..L /\ d + 1 \in 1..L /\ (d + 1) - 1 = d BY <1>1, <3>1
    <3>3. gen[d + 1] = NextGeneration(gen, d) /\ gen[d] \subseteq V BY <1>2, <2>2, <3>2
    <3> QED BY <1>8, <3>3 DEF NextGeneration, ClosedBelow
  <2> HIDE DEF G
  <2>3. \A d \in Nat : d \in G BY <2>1, <2>2, Inductive DEF G
  <2> QED BY <1>2, <1>3, <2>3 DEF G
<1> QED BY <1>5, <1>7, <1>8

\* What lies at and below a pair: the pair, and what lies at and below its child pairs.
LEMMA AlignedUnfolds ==
  ASSUME Tree, NEW p \in Both
  PROVE  AlignedFrom(p) =
           {p} \cup (IF SameShape(p) THEN UNION {AlignedFrom(q) : q \in ChildPairs(p)} ELSE {})
<1> DEFINE U == {p} \cup (IF SameShape(p) THEN UNION {AlignedFrom(q) : q \in ChildPairs(p)} ELSE {})
<1>1. p \in AlignedFrom(p) /\ ClosedBelow(AlignedFrom(p)) BY AlignedIsLeast
<1>2. SameShape(p) => \A q \in ChildPairs(p) :
        q \in Both /\ q \in AlignedFrom(q) /\ ClosedBelow(AlignedFrom(q))
  BY Children, AlignedIsLeast
<1>3. ClosedBelow(U)
  <2> SUFFICES ASSUME NEW r \in U, SameShape(r) PROVE ChildPairs(r) \subseteq U
    BY DEF ClosedBelow
  <2>1. CASE r = p BY <1>2, <2>1
  <2>2. CASE r # p
    <3>1. PICK q \in ChildPairs(p) : SameShape(p) /\ r \in AlignedFrom(q) BY <2>2
    <3>2. ChildPairs(r) \subseteq AlignedFrom(q) BY <1>2, <3>1 DEF ClosedBelow
    <3> QED BY <3>1, <3>2
  <2> QED BY <2>1, <2>2
<1>4. AlignedFrom(p) \subseteq U
  <2>1. p \in U OBVIOUS
  <2> HIDE DEF U
  <2> QED BY <1>3, <2>1, AlignedIsLeast
<1>5. ASSUME SameShape(p), NEW q \in ChildPairs(p) PROVE AlignedFrom(q) \subseteq AlignedFrom(p)
  <2>1. q \in AlignedFrom(p) BY <1>1, <1>5 DEF ClosedBelow
  <2>2. q \in Both BY <1>2, <1>5
  <2> QED BY <1>1, <2>1, <2>2, AlignedIsLeast
<1> QED BY <1>1, <1>4, <1>5
-----------------------------------------------------------------------------
(* Sequences without repetition, and flattened ones.                         *)

LEMMA Appended ==
  ASSUME NEW S, NEW list \in Seq(S), NEW x \in S
  PROVE  /\ Append(list, x) \in Seq(S) /\ Range(Append(list, x)) = Range(list) \cup {x}
         /\ IsInjective(list) /\ x \notin Range(list) => IsInjective(Append(list, x))
<1> DEFINE new == Append(list, x)
<1>1. Len(list) \in Nat /\ DOMAIN list = 1..Len(list) OBVIOUS
<1>2. new \in Seq(S) /\ DOMAIN new = 1..(Len(list) + 1) OBVIOUS
<1>3. \A i \in DOMAIN list : i \in DOMAIN new /\ new[i] = list[i] BY <1>1
<1>4. Len(list) + 1 \in DOMAIN new /\ new[Len(list) + 1] = x BY <1>1
<1>5. \A i \in DOMAIN new : i \in DOMAIN list \/ i = Len(list) + 1 BY <1>1, <1>2
<1> HIDE DEF new
<1>6. Range(new) = Range(list) \cup {x} BY <1>3, <1>4, <1>5 DEF Range
<1>7. ASSUME IsInjective(list), x \notin Range(list) PROVE IsInjective(new)
  <2>1. \A i \in DOMAIN list : list[i] # x BY <1>7 DEF Range
  <2> QED BY <1>3, <1>4, <1>5, <1>7, <2>1 DEF IsInjective
<1> QED BY <1>2, <1>6, <1>7 DEF new

MergeStep(list, more, g, i) ==
  IF i = 0 THEN list
  ELSE IF Contains(g[i - 1], more[i]) THEN g[i - 1] ELSE Append(g[i - 1], more[i])

LEMMA MergeSolved ==
  ASSUME NEW S, NEW list \in Seq(S), NEW more \in Seq(S)
  PROVE  \E g : /\ \A i \in 0..Len(more) : g[i] = MergeStep(list, more, g, i)
                /\ MergeUnique(list, more) = g[Len(more)]
<1> DEFINE L == Len(more)
           D == 0..L
           Z == Seq(S)
           rank == [d \in D |-> d]
           val == [d \in D |-> [g \in [D -> Z] |-> MergeStep(list, more, g, d)]]
           g0 == CHOOSE g : g = [d \in D |-> MergeStep(list, more, g, d)]
<1>1. L \in Nat OBVIOUS
<1>2. \A d \in D : d # 0 => d - 1 \in D /\ d - 1 < d /\ d \in DOMAIN more BY <1>1
<1>3. \A g \in [D -> Z], d \in D : MergeStep(list, more, g, d) \in Z
  <2> SUFFICES ASSUME NEW g \in [D -> Z], NEW d \in D, d # 0
               PROVE  MergeStep(list, more, g, d) \in Z
    BY DEF MergeStep
  <2>1. g[d - 1] \in Seq(S) /\ more[d] \in S BY <1>2
  <2> QED BY <2>1 DEF MergeStep
<1>4. \A f, g \in [D -> Z], d \in D : (\A y \in D : rank[y] < rank[d] => f[y] = g[y]) =>
        MergeStep(list, more, f, d) = MergeStep(list, more, g, d)
  <2> SUFFICES ASSUME NEW f \in [D -> Z], NEW g \in [D -> Z], NEW d \in D, d # 0,
                      \A y \in D : y < d => f[y] = g[y]
               PROVE  MergeStep(list, more, f, d) = MergeStep(list, more, g, d)
    BY DEF MergeStep
  <2>1. f[d - 1] = g[d - 1] BY <1>2
  <2> QED BY <2>1 DEF MergeStep
<1>5. \E g \in [D -> Z] : \A d \in D : g[d] = val[d][g]
  <2>1. PICK n : n = L + 1 OBVIOUS
  <2>2. n \in Nat /\ \A d \in D : rank[d] < n BY <1>1, <2>1
  <2>3. rank \in [D -> Nat] BY <1>1
  <2>4. val \in [D -> [[D -> Z] -> Z]] BY <1>3
  <2>5. \A x \in D : \A f, g \in [D -> Z] :
          (\A y \in D : rank[y] < rank[x] => f[y] = g[y]) => val[x][f] = val[x][g]
    BY <1>4
  <2>6. list \in Z OBVIOUS
  <2> HIDE DEF rank, val, D, Z
  <2>7. Ranked(D, Z, n, rank, val) BY <2>2, <2>3, <2>4, <2>5, <2>6 DEF Ranked
  <2> QED BY <2>7, Solved
<1>6. PICK g \in [D -> Z] : \A d \in D : g[d] = MergeStep(list, more, g, d) BY <1>5
<1>7. g0 = [d \in D |-> MergeStep(list, more, g0, d)]
  <2>1. g = [d \in D |-> MergeStep(list, more, g, d)]
    <3> HIDE DEF D, Z
    <3> QED BY <1>6
  <2> HIDE DEF D
  <2> QED BY <2>1
<1>8. \A d \in D : g0[d] = MergeStep(list, more, g0, d)
  <2> HIDE DEF g0, D
  <2> QED BY <1>7
<1>9. MergeUnique(list, more) = g0[L]
  BY DEF MergeUnique, MergeStep
<1> HIDE DEF g0
<1> QED BY <1>8, <1>9

\* _merge_unique keeps the list without repetition and adds what was missing.
LEMMA Merged ==
  ASSUME NEW S, NEW list \in Seq(S), NEW more \in Seq(S), IsInjective(list)
  PROVE  /\ MergeUnique(list, more) \in Seq(S) /\ IsInjective(MergeUnique(list, more))
         /\ Range(MergeUnique(list, more)) = Range(list) \cup Range(more)
<1> DEFINE L == Len(more)
           Upto(i) == {more[j] : j \in 1..i}
<1>1. PICK g : /\ \A i \in 0..L : g[i] = MergeStep(list, more, g, i)
               /\ MergeUnique(list, more) = g[L]
  BY MergeSolved
<1>2. L \in Nat /\ DOMAIN more = 1..L OBVIOUS
<1> DEFINE Fine(i) == g[i] \in Seq(S) /\ IsInjective(g[i]) /\ Range(g[i]) = Range(list) \cup Upto(i)
           G == {i \in Nat : i \in 0..L => Fine(i)}
<1>3. 0 \in G
  <2>1. g[0] = list BY <1>1, <1>2 DEF MergeStep
  <2>2. Upto(0) = {} OBVIOUS
  <2> HIDE DEF Upto
  <2> QED BY <2>1, <2>2
<1>4. ASSUME NEW i \in G PROVE i + 1 \in G
  <2>1. i \in Nat /\ i + 1 \in Nat BY <1>4
  <2> SUFFICES ASSUME i + 1 \in 0..L PROVE Fine(i + 1)
    BY <2>1
  <2>2. PICK k : k = i + 1 OBVIOUS
  <2>3. i \in 0..L /\ k \in DOMAIN more /\ k \in 0..L /\ k # 0 /\ k - 1 = i BY <1>2, <2>1, <2>2
  <2>4. more[k] \in S BY <2>3
  <2>5. g[k] = IF Contains(g[i], more[k]) THEN g[i] ELSE Append(g[i], more[k])
    BY <1>1, <2>3 DEF MergeStep
  <2>6. Fine(i) BY <1>4, <2>3
  <2>7. Upto(k) = Upto(i) \cup {more[k]}
    <3>1. 1..k = (1..i) \cup {k} BY <2>1, <2>2
    <3> QED BY <3>1
  <2>8. Contains(g[i], more[k]) <=> more[k] \in Range(g[i])
    <3>1. DOMAIN g[i] = 1..Len(g[i]) BY <2>6
    <3> QED BY <3>1 DEF Contains, Range
  <2> HIDE DEF Upto
  <2>9. CASE Contains(g[i], more[k])
    <3>1. g[k] = g[i] BY <2>5, <2>9
    <3>2. Upto(k) \cup Range(list) = Upto(i) \cup Range(list) BY <2>6, <2>7, <2>8, <2>9
    <3> QED BY <2>2, <2>6, <3>1, <3>2
  <2>10. CASE ~Contains(g[i], more[k])
    <3>1. g[k] = Append(g[i], more[k]) BY <2>5, <2>10
    <3>2. g[k] \in Seq(S) /\ IsInjective(g[k]) /\ Range(g[k]) = Range(g[i]) \cup {more[k]}
      BY <2>4, <2>6, <2>8, <2>10, <3>1, Appended
    <3> QED BY <2>2, <2>6, <2>7, <3>2
  <2> QED BY <2>9, <2>10
<1>5. L \in G
  <2> HIDE DEF G
  <2>1. G \in SUBSET Nat BY DEF G
  <2> QED BY <1>2, <1>3, <1>4, <2>1, Inductive
<1>6. Fine(L)
  <2>1. L \in 0..L BY <1>2
  <2> QED BY <1>5, <2>1
<1>7. Upto(L) = Range(more) BY <1>2 DEF Range
<1> QED BY <1>1, <1>6, <1>7

FlatStep(seqs, g, i) == IF i = 1 THEN seqs[i] ELSE g[i - 1] \o seqs[i]

LEMMA FlatSolved ==
  ASSUME NEW S, NEW seqs \in Seq(Seq(S)), Len(seqs) # 0
  PROVE  \E g : /\ \A i \in 1..Len(seqs) : g[i] = FlatStep(seqs, g, i)
                /\ FlattenSeq(seqs) = g[Len(seqs)]
<1> DEFINE L == Len(seqs)
           D == 1..L
           Z == Seq(S)
           rank == [d \in D |-> d]
           val == [d \in D |-> [g \in [D -> Z] |-> FlatStep(seqs, g, d)]]
           g0 == CHOOSE g : g = [d \in D |-> FlatStep(seqs, g, d)]
<1>1. L \in Nat /\ DOMAIN seqs = D OBVIOUS
<1>2. \A d \in D : d # 1 => d - 1 \in D /\ d - 1 < d BY <1>1
<1>3. \A g \in [D -> Z], d \in D : FlatStep(seqs, g, d) \in Z
  <2> SUFFICES ASSUME NEW g \in [D -> Z], NEW d \in D PROVE FlatStep(seqs, g, d) \in Z
    OBVIOUS
  <2>1. seqs[d] \in Seq(S) BY <1>1
  <2>2. CASE d # 1
    <3>1. g[d - 1] \in Seq(S) BY <1>2, <2>2
    <3> QED BY <2>1, <2>2, <3>1 DEF FlatStep
  <2> QED BY <2>1, <2>2 DEF FlatStep
<1>4. \A f, g \in [D -> Z], d \in D : (\A y \in D : rank[y] < rank[d] => f[y] = g[y]) =>
        FlatStep(seqs, f, d) = FlatStep(seqs, g, d)
  <2> SUFFICES ASSUME NEW f \in [D -> Z], NEW g \in [D -> Z], NEW d \in D, d # 1,
                      \A y \in D : y < d => f[y] = g[y]
               PROVE  FlatStep(seqs, f, d) = FlatStep(seqs, g, d)
    BY DEF FlatStep
  <2>1. f[d - 1] = g[d - 1] BY <1>2
  <2> QED BY <2>1 DEF FlatStep
<1>5. \E g \in [D -> Z] : \A d \in D : g[d] = val[d][g]
  <2>1. PICK n : n = L + 1 OBVIOUS
  <2>2. n \in Nat /\ \A d \in D : rank[d] < n BY <1>1, <2>1
  <2>3. rank \in [D -> Nat] BY <1>1
  <2>4. val \in [D -> [[D -> Z] -> Z]] BY <1>3
  <2>5. \A x \in D : \A f, g \in [D -> Z] :
          (\A y \in D : rank[y] < rank[x] => f[y] = g[y]) => val[x][f] = val[x][g]
    BY <1>4
  <2>6. <<>> \in Z OBVIOUS
  <2> HIDE DEF rank, val, D, Z
  <2>7. Ranked(D, Z, n, rank, val) BY <2>2, <2>3, <2>4, <2>5, <2>6 DEF Ranked
  <2> QED BY <2>7, Solved
<1>6. PICK g \in [D -> Z] : \A d \in D : g[d] = FlatStep(seqs, g, d) BY <1>5
<1>7. g0 = [d \in D |-> FlatStep(seqs, g0, d)]
  <2>1. g = [d \in D |-> FlatStep(seqs, g, d)]
    <3> HIDE DEF D, Z
    <3> QED BY <1>6
  <2> HIDE DEF D
  <2> QED BY <2>1
<1>8. \A d \in D : g0[d] = FlatStep(seqs, g0, d)
  <2> HIDE DEF g0, D
  <2> QED BY <1>7
<1>9. FlattenSeq(seqs) = g0[L]
  BY DEF FlattenSeq, FlatStep
<1> HIDE DEF g0
<1> QED BY <1>8, <1>9

\* The parts of a flattened sequence are those of the sequences it was made from.
LEMMA Flattened ==
  ASSUME NEW S, NEW seqs \in Seq(Seq(S))
  PROVE  /\ FlattenSeq(seqs) \in Seq(S)
         /\ Range(FlattenSeq(seqs)) = UNION {Range(seqs[i]) : i \in DOMAIN seqs}
<1> DEFINE L == Len(seqs)
           Upto(i) == UNION {Range(seqs[j]) : j \in 1..i}
<1>1. L \in Nat /\ DOMAIN seqs = 1..L OBVIOUS
<1>2. CASE L = 0
  <2>1. FlattenSeq(seqs) = seqs BY <1>2 DEF FlattenSeq
  <2>2. DOMAIN seqs = {} BY <1>1, <1>2
  <2>3. seqs = <<>> BY <1>2
  <2>4. Range(seqs) = {} BY <2>2 DEF Range
  <2>5. <<>> \in Seq(S) OBVIOUS
  <2> QED BY <2>1, <2>2, <2>3, <2>4, <2>5
<1>3. CASE L # 0
  <2>1. PICK g : /\ \A i \in 1..L : g[i] = FlatStep(seqs, g, i)
                 /\ FlattenSeq(seqs) = g[L]
    BY <1>3, FlatSolved
  <2> DEFINE Fine(i) == g[i] \in Seq(S) /\ Range(g[i]) = Upto(i)
             G == {i \in Nat : i + 1 \in 1..L => Fine(i + 1)}
  <2>2. 0 \in G
    <3>1. 1 \in 1..L /\ g[1] = seqs[1] BY <1>1, <1>3, <2>1 DEF FlatStep
    <3>2. seqs[1] \in Seq(S) BY <1>1, <3>1
    <3>3. 1..1 = {1} OBVIOUS
    <3>4. Upto(1) = Range(seqs[1]) BY <3>3
    <3> HIDE DEF Upto
    <3> QED BY <3>1, <3>2, <3>4
  <2>3. ASSUME NEW i \in G PROVE i + 1 \in G
    <3>0. i \in Nat /\ i + 1 \in Nat BY <2>3
    <3>1. PICK k : k = i + 1 OBVIOUS
    <3> SUFFICES ASSUME k + 1 \in 1..L PROVE Fine(k + 1)
      BY <3>0, <3>1
    <3>2. PICK m : m = k + 1 OBVIOUS
    <3>3. k \in 1..L /\ m \in 1..L /\ m # 1 /\ m - 1 = k BY <1>1, <3>0, <3>1, <3>2
    <3>4. Fine(k) BY <2>3, <3>1, <3>3
    <3>5. g[m] = g[k] \o seqs[m] /\ seqs[m] \in Seq(S)
      <4>1. g[m] = FlatStep(seqs, g, m) BY <2>1, <3>3
      <4>2. g[m] = g[m - 1] \o seqs[m] BY <3>3, <4>1 DEF FlatStep
      <4>3. seqs[m] \in Seq(S)
        <5>1. m \in DOMAIN seqs BY <1>1, <3>3
        <5> QED BY <5>1, ElementOfSeq
      <4> QED BY <3>3, <4>2, <4>3
    <3>6. Upto(m) = Upto(k) \cup Range(seqs[m])
      <4>1. 1..m = (1..k) \cup {m} BY <3>2, <3>3
      <4> QED BY <4>1
    <3> HIDE DEF Upto
    <3>7. PICK a, b : a = g[k] /\ b = seqs[m] OBVIOUS
    <3>8. a \in Seq(S) /\ b \in Seq(S) BY <3>4, <3>5, <3>7
    <3>9. a \o b \in Seq(S) /\ Range(a \o b) = Range(a) \cup Range(b)
      BY <3>8, RangeConcatenation, ConcatProperties
    <3> QED BY <3>2, <3>4, <3>5, <3>6, <3>7, <3>9
  <2>4. G \in SUBSET Nat OBVIOUS
  <2>5. L - 1 \in G
    <3>1. L - 1 \in Nat BY <1>1, <1>3
    <3> HIDE DEF G
    <3>2. \A n \in Nat : n \in G BY <2>2, <2>3, <2>4, Inductive
    <3> QED BY <3>1, <3>2
  <2>6. L - 1 + 1 = L /\ L \in 1..L BY <1>1, <1>3
  <2>7. Fine(L) BY <2>5, <2>6
  <2> QED BY <1>1, <2>1, <2>7
<1> QED BY <1>2, <1>3
-----------------------------------------------------------------------------
(* The names at and below a node.                                            *)

LEMMA SubtreeUnfolds ==
  ASSUME Tree, NEW m \in Nodes
  PROVE  Subtree(m) = {m} \cup UNION {Subtree(Kids(m)[i]) : i \in DOMAIN Kids(m)}
<1> DEFINE p == <<m, m>>
<1>1. p \in Both BY DEF Both
<1>2. SameShape(p) BY DEF SameShape, SameKind
<1>3. AlignedFrom(p) = {p} \cup UNION {AlignedFrom(q) : q \in ChildPairs(p)}
  BY <1>1, <1>2, AlignedUnfolds
<1>4. ChildPairs(p) = {<<Kids(m)[i], Kids(m)[i]>> : i \in DOMAIN Kids(m)}
  BY DEF ChildPairs
<1>5. ASSUME NEW n \in Subtree(m)
      PROVE  n = m \/ \E i \in DOMAIN Kids(m) : n \in Subtree(Kids(m)[i])
  <2>1. PICK r \in AlignedFrom(p) : n = r[1] BY DEF Subtree
  <2>2. CASE r = p BY <2>1, <2>2
  <2>3. CASE r # p
    <3>1. PICK i \in DOMAIN Kids(m) : r \in AlignedFrom(<<Kids(m)[i], Kids(m)[i]>>)
      BY <1>3, <1>4, <2>1, <2>3
    <3> QED BY <2>1, <3>1 DEF Subtree
  <2> QED BY <2>2, <2>3
<1>6. m \in Subtree(m)
  <2>1. p \in AlignedFrom(p) /\ p[1] = m BY <1>3
  <2> QED BY <2>1 DEF Subtree
<1>7. ASSUME NEW i \in DOMAIN Kids(m), NEW n \in Subtree(Kids(m)[i]) PROVE n \in Subtree(m)
  <2>1. PICK r \in AlignedFrom(<<Kids(m)[i], Kids(m)[i]>>) : n = r[1] BY DEF Subtree
  <2>2. r \in AlignedFrom(p) BY <1>3, <1>4, <2>1
  <2> QED BY <2>1, <2>2 DEF Subtree
<1> QED BY <1>5, <1>6, <1>7

Proper == Names \ {""}
Own(col, m) == IF Name(col, m) = "" THEN <<>> ELSE <<Name(col, m)>>
LeavesStep(col, g, m) == Own(col, m) \o FlattenSeq([i \in DOMAIN Kids(m) |-> g[Kids(m)[i]]])

LEMMA OwnName ==
  ASSUME Tree, NEW col \in Columns, NEW m \in Nodes
  PROVE  /\ Own(col, m) \in Seq(Proper) /\ Range(Own(col, m)) = {Name(col, m)} \ {""}
         /\ Name(col, m) \in Names
<1>1. t.name[col] \in Seq(STRING) /\ m \in DOMAIN t.name[col]
  <2>1. t.name[col] \in Seq(STRING) /\ Len(t.name[col]) = Len(t.kind)
    BY DEF Tree, IsTensor, Corpus
  <2> QED BY <2>1, Rows
<1>2. Name(col, m) \in Range(t.name[col]) BY <1>1 DEF Name, Range
<1>3. Name(col, m) \in Names BY <1>2 DEF Names
<1>4. CASE Name(col, m) = ""
  <2>1. Own(col, m) = <<>> BY <1>4 DEF Own
  <2>2. <<>> \in Seq(Proper) /\ Range(<<>>) = {} BY DEF Range
  <2> QED BY <1>3, <1>4, <2>1, <2>2
<1>5. CASE Name(col, m) # ""
  <2>1. PICK x : x = Name(col, m) OBVIOUS
  <2>2. x \in Proper BY <1>3, <1>5, <2>1 DEF Proper
  <2>3. <<x>> \in Seq(Proper) BY <2>2
  <2>4. Range(<<x>>) = {x} BY DEF Range
  <2> QED BY <1>3, <1>5, <2>1, <2>3, <2>4 DEF Own
<1> QED BY <1>4, <1>5

LEMMA LeavesSolved ==
  ASSUME Tree, NEW col \in Columns
  PROVE  \E g : \A m \in Nodes : g[m] = LeavesStep(col, g, m) /\ Leaves(col, m) = g[m]
<1> DEFINE L == Len(t.kind)
           Z == Seq(Proper)
           rank == [d \in Nodes |-> L - d]
           val == [d \in Nodes |-> [g \in [Nodes -> Z] |-> LeavesStep(col, g, d)]]
           g0 == CHOOSE g : g = [d \in Nodes |-> LeavesStep(col, g, d)]
<1>1. L \in Nat /\ Nodes = 1..L BY Rows
<1>2. \A d \in Nodes : \A i \in DOMAIN Kids(d) :
        Kids(d)[i] \in Nodes /\ rank[Kids(d)[i]] < rank[d]
  <2> SUFFICES ASSUME NEW d \in Nodes, NEW i \in DOMAIN Kids(d)
               PROVE  Kids(d)[i] \in Nodes /\ rank[Kids(d)[i]] < rank[d]
    OBVIOUS
  <2>1. PICK k : k = Kids(d)[i] OBVIOUS
  <2>2. k \in Nodes /\ d < k BY <2>1, Rows
  <2>3. L - k < L - d BY <1>1, <2>2
  <2> QED BY <2>1, <2>2, <2>3
<1>3. \A g \in [Nodes -> Z], d \in Nodes : LeavesStep(col, g, d) \in Z
  <2> SUFFICES ASSUME NEW g \in [Nodes -> Z], NEW d \in Nodes
               PROVE  LeavesStep(col, g, d) \in Z
    OBVIOUS
  <2> DEFINE seqs == [i \in DOMAIN Kids(d) |-> g[Kids(d)[i]]]
  <2>1. DOMAIN Kids(d) = 1..Len(Kids(d)) /\ Len(Kids(d)) \in Nat
    <3>1. Kids(d) \in Seq(Nat) BY Rows
    <3> QED BY <3>1
  <2>2. \A i \in DOMAIN Kids(d) : g[Kids(d)[i]] \in Z BY <1>2
  <2>3. seqs \in Seq(Z) 
    <3> HIDE DEF Z
    <3> QED BY <2>1, <2>2
  <2> HIDE DEF seqs
  <2>4. PICK a, b : a = Own(col, d) /\ b = FlattenSeq(seqs) OBVIOUS
  <2>5. a \in Seq(Proper) /\ b \in Seq(Proper) BY <2>3, <2>4, OwnName, Flattened
  <2>6. a \o b \in Seq(Proper) BY <2>5, ConcatProperties
  <2> QED BY <2>4, <2>6 DEF LeavesStep, seqs
<1>4. \A f, g \in [Nodes -> Z], d \in Nodes :
        (\A y \in Nodes : rank[y] < rank[d] => f[y] = g[y]) =>
           LeavesStep(col, f, d) = LeavesStep(col, g, d)
  <2> HIDE DEF rank, Z
  <2> SUFFICES ASSUME NEW f \in [Nodes -> Z], NEW g \in [Nodes -> Z], NEW d \in Nodes,
                      \A y \in Nodes : rank[y] < rank[d] => f[y] = g[y]
               PROVE  LeavesStep(col, f, d) = LeavesStep(col, g, d)
    OBVIOUS
  <2>1. \A i \in DOMAIN Kids(d) : f[Kids(d)[i]] = g[Kids(d)[i]] BY <1>2
  <2>2. [i \in DOMAIN Kids(d) |-> f[Kids(d)[i]]] = [i \in DOMAIN Kids(d) |-> g[Kids(d)[i]]]
    BY <2>1
  <2> QED BY <2>2 DEF LeavesStep
<1>5. \E g \in [Nodes -> Z] : \A d \in Nodes : g[d] = val[d][g]
  <2>1. PICK n : n = L + 1 OBVIOUS
  <2>2. n \in Nat /\ \A d \in Nodes : rank[d] < n BY <1>1, <2>1
  <2>3. rank \in [Nodes -> Nat] BY <1>1
  <2>4. val \in [Nodes -> [[Nodes -> Z] -> Z]] BY <1>3
  <2>5. \A x \in Nodes : \A f, g \in [Nodes -> Z] :
          (\A y \in Nodes : rank[y] < rank[x] => f[y] = g[y]) => val[x][f] = val[x][g]
    BY <1>4
  <2>6. <<>> \in Z OBVIOUS
  <2> HIDE DEF rank, val, Z
  <2>7. Ranked(Nodes, Z, n, rank, val) BY <2>2, <2>3, <2>4, <2>5, <2>6 DEF Ranked
  <2> QED BY <2>7, Solved
<1>6. PICK g \in [Nodes -> Z] : \A d \in Nodes : g[d] = LeavesStep(col, g, d) BY <1>5
<1>7. g0 = [d \in Nodes |-> LeavesStep(col, g0, d)]
  <2>1. g = [d \in Nodes |-> LeavesStep(col, g, d)]
    <3> HIDE DEF Z
    <3> QED BY <1>6
  <2> QED BY <2>1
<1>8. \A d \in Nodes : g0[d] = LeavesStep(col, g0, d)
  <2> HIDE DEF g0
  <2> QED BY <1>7
<1>9. \A m \in Nodes : Leaves(col, m) = g0[m]
  BY DEF Leaves, LeavesStep, Own, Nodes
<1> HIDE DEF g0
<1> QED BY <1>8, <1>9

\* collect_subtree_leaves finds the names of the nodes at and below the root.
LEMMA LeavesAre ==
  ASSUME Tree, NEW col \in Columns, NEW r \in Nodes
  PROVE  /\ Leaves(col, r) \in Seq(Proper)
         /\ Range(Leaves(col, r)) = {Name(col, n) : n \in Subtree(r)} \ {""}
<1> DEFINE L == Len(t.kind)
           NamesBelow(m) == {Name(col, n) : n \in Subtree(m)} \ {""}
<1>1. L \in Nat /\ Nodes = 1..L BY Rows
<1>2. PICK g : \A m \in Nodes : g[m] = LeavesStep(col, g, m) /\ Leaves(col, m) = g[m]
  BY LeavesSolved
<1> DEFINE Fine(m) == g[m] \in Seq(Proper) /\ Range(g[m]) = NamesBelow(m)
           T == {d \in Nat : \E m \in Nodes : d = L - m /\ ~Fine(m)}
<1> SUFFICES ASSUME T # {} PROVE FALSE
  <2>1. PICK k : k = L - r OBVIOUS
  <2>2. r \in 1..L BY <1>1
  <2>3. k \in Nat
    <3> HIDE DEF T
    <3> QED BY <1>1, <2>1, <2>2
  <2> QED BY <1>2, <2>1, <2>3
<1>3. PICK d \in T : \A y \in T : d <= y
  <2>1. T \in SUBSET Nat OBVIOUS
  <2> HIDE DEF T
  <2> QED BY <2>1, LeastNatural
<1>4. PICK m \in Nodes : d = L - m /\ ~Fine(m) BY <1>3
<1> HIDE DEF T, Fine, NamesBelow
<1>5. \A i \in DOMAIN Kids(m) : Kids(m)[i] \in Nodes /\ Fine(Kids(m)[i])
  <2> SUFFICES ASSUME NEW i \in DOMAIN Kids(m), NEW k, k = Kids(m)[i], ~Fine(k) PROVE FALSE
    BY Rows
  <2>1. k \in Nodes /\ m < k BY Rows
  <2>2. PICK lk : lk = L - k OBVIOUS
  <2>3. lk \in Nat /\ ~(d <= lk) BY <1>1, <1>4, <2>1, <2>2
  <2>4. lk \in T BY <2>1, <2>2, <2>3 DEF T
  <2> QED BY <1>3, <2>3, <2>4
<1> DEFINE seqs == [i \in DOMAIN Kids(m) |-> g[Kids(m)[i]]]
<1>6. DOMAIN Kids(m) = 1..Len(Kids(m)) /\ Len(Kids(m)) \in Nat
  <2>1. Kids(m) \in Seq(Nat) BY Rows
  <2> QED BY <2>1
<1>7. \A i \in DOMAIN Kids(m) : g[Kids(m)[i]] \in Seq(Proper) BY <1>5 DEF Fine
<1>8. seqs \in Seq(Seq(Proper))
  <2> DEFINE Z == Seq(Proper)
  <2>1. \A i \in DOMAIN Kids(m) : g[Kids(m)[i]] \in Z BY <1>7
  <2> HIDE DEF Z
  <2>2. seqs \in Seq(Z) BY <1>6, <2>1
  <2> QED BY <2>2 DEF Z
<1>9. DOMAIN seqs = DOMAIN Kids(m) /\ \A i \in DOMAIN seqs : seqs[i] = g[Kids(m)[i]]
  OBVIOUS
<1>10. g[m] = Own(col, m) \o FlattenSeq(seqs) BY <1>2 DEF LeavesStep
<1> HIDE DEF seqs
<1>11. PICK a, b : a = Own(col, m) /\ b = FlattenSeq(seqs) OBVIOUS
<1>12. a \in Seq(Proper) /\ b \in Seq(Proper) BY <1>8, <1>11, OwnName, Flattened
<1>13. a \o b \in Seq(Proper) /\ Range(a \o b) = Range(a) \cup Range(b)
  BY <1>12, ConcatProperties, RangeConcatenation
<1>14. Range(a) = {Name(col, m)} \ {""} BY <1>11, OwnName
<1>15. Range(b) = UNION {NamesBelow(Kids(m)[i]) : i \in DOMAIN Kids(m)}
  <2>1. Range(b) = UNION {Range(seqs[i]) : i \in DOMAIN seqs} BY <1>8, <1>11, Flattened
  <2>2. \A i \in DOMAIN Kids(m) : Range(seqs[i]) = NamesBelow(Kids(m)[i]) BY <1>5, <1>9 DEF Fine
  <2> QED BY <1>9, <2>1, <2>2
<1>16. NamesBelow(m) = ({Name(col, m)} \ {""}) \cup UNION {NamesBelow(Kids(m)[i]) : i \in DOMAIN Kids(m)}
  <2>1. \A x : x \in NamesBelow(m) <=> x # "" /\ \E n \in Subtree(m) : x = Name(col, n)
    BY DEF NamesBelow
  <2>2. \A n : n \in Subtree(m) <=> n = m \/ \E i \in DOMAIN Kids(m) : n \in Subtree(Kids(m)[i])
    BY SubtreeUnfolds
  <2>3. \A i \in DOMAIN Kids(m) : \A x : x \in NamesBelow(Kids(m)[i]) <=>
          x # "" /\ \E n \in Subtree(Kids(m)[i]) : x = Name(col, n)
    BY DEF NamesBelow
  <2> DEFINE U == UNION {NamesBelow(Kids(m)[i]) : i \in DOMAIN Kids(m)}
  <2>4. \A x : x \in U <=> \E i \in DOMAIN Kids(m) : x \in NamesBelow(Kids(m)[i])
    OBVIOUS
  <2>5. \A x : x \in {Name(col, m)} \ {""} <=> x = Name(col, m) /\ x # ""
    OBVIOUS
  <2> DEFINE V == {Name(col, m)} \ {""}
  <2> HIDE DEF U
  <2>6. ASSUME NEW x PROVE x \in NamesBelow(m) <=> x \in V \/ x \in U
    <3>1. x \in U <=> x # "" /\ \E i \in DOMAIN Kids(m) :
            \E n \in Subtree(Kids(m)[i]) : x = Name(col, n)
      BY <2>3, <2>4
    <3>2. (\E n \in Subtree(m) : x = Name(col, n)) <=>
            x = Name(col, m) \/ \E i \in DOMAIN Kids(m) :
              \E n \in Subtree(Kids(m)[i]) : x = Name(col, n)
      BY <2>2
    <3> QED BY <2>1, <2>5, <3>1, <3>2
  <2> HIDE DEF V
  <2>7. NamesBelow(m) = V \cup U BY <2>6
  <2> QED BY <2>7 DEF U, V
<1>17. Fine(m) BY <1>10, <1>11, <1>13, <1>14, <1>15, <1>16 DEF Fine
<1> QED BY <1>4, <1>17
-----------------------------------------------------------------------------
(* The walk in the middle.  V is the set of pairs it has compared.           *)

Roots == <<FindFunction(Canonical), FindFunction(Sibling)>>
Differ(col, p) ==
  SameKind(p) /\ "" \notin Range(NameOf(col, p)) /\ NameOf(col, p)[1] # NameOf(col, p)[2]

\* Each pair met is the roots or a child pair of one compared, and the child pairs
\* of those compared have been met; so no pair is met twice.
Explored(V, pairs) ==
  /\ V \cap Range(pairs) = {} /\ IsInjective(pairs)
  /\ V \subseteq Aligned /\ Range(pairs) \subseteq Aligned
  /\ Roots \in V \cup Range(pairs)
  /\ \A p \in V : SameShape(p) => ChildPairs(p) \subseteq V \cup Range(pairs)
  /\ \A q \in V \cup Range(pairs) :
       q = Roots \/ \E p \in V : SameShape(p) /\ q \in ChildPairs(p)
\* The report is exact on the pairs compared.
NamesBound(V, col) == {NameOf(col, p) : p \in {q \in V : Differ(col, q)}}
Reported(V, parted, bound) ==
  /\ Range(parted) = {p \in V : ~SameShape(p)} /\ IsInjective(parted)
  /\ \A col \in Columns : Range(bound[col]) = NamesBound(V, col)

Walked == \E V \in SUBSET Aligned : Explored(V, todo) /\ Reported(V, holes, bindings)

DiffInv ==
  /\ t \in Corpora
  /\ DiffTypeOK
  /\ diffPhase \in {"find", "exit"} =>
       /\ todo = <<>> /\ holes = <<>> /\ bindings = [col \in Columns |-> <<>>]
  /\ diffPhase \in {"walk", "written"} =>
       Named(Canonical) # {} /\ Named(Sibling) # {} /\ Walked
  /\ diffPhase = "written" => todo = <<>> /\ \A col \in Columns : IsInjective(bindings[col])
  /\ LooseNamesComplete

\* What the second tool reads is what the first one wrote.
Read ==
  [idents |-> ReadPairs(IdentOf, bindings["ident"]),
   types |-> ReadPairs(TypeOf, bindings["type"]),
   looseIdents |-> ReadListing(IdentOf, loose["ident"]),
   looseTypes |-> ReadListing(TypeOf, loose["type"])]

PipeInv ==
  /\ DiffInv
  /\ IInv
  /\ step \in {"diff", "bind", "end"}
  /\ step = "diff" => c = NotRead /\ bindPhase = "parse" /\ at = <<1, 1>> /\ out = <<>>
  /\ step = "diff" \/ diffPhase # "find" => o \in Overrides
  /\ step # "diff" /\ diffPhase = "written" => c = Read
  /\ step = "bind" => diffPhase \in {"find", "written"}
  /\ step = "end" /\ diffPhase = "written" => bindPhase \in {"done", "exit"}
-----------------------------------------------------------------------------
(* What the walk does to the sequence of pairs it has to compare.            *)

LEMMA Taken ==
  ASSUME NEW S, NEW s \in Seq(S), s # <<>>
  PROVE  /\ Head(s) \in S /\ Tail(s) \in Seq(S) /\ Range(s) = {Head(s)} \cup Range(Tail(s))
         /\ IsInjective(s) => IsInjective(Tail(s)) /\ Head(s) \notin Range(Tail(s))
<1>1. PICK n \in Nat : n = Len(s) /\ DOMAIN s = 1..n /\ n >= 1 OBVIOUS
<1>2. PICK h, r : h = Head(s) /\ r = Tail(s) OBVIOUS
<1>3. h = s[1] /\ h \in S /\ r \in Seq(S) BY <1>1, <1>2
<1>4. DOMAIN r = 1..(n - 1) /\ \A i \in 1..(n - 1) : r[i] = s[i + 1]
  BY <1>1, <1>2, HeadTailProperties
<1>5. \A i \in 1..n : i = 1 \/ (i - 1 \in 1..(n - 1) /\ (i - 1) + 1 = i) BY <1>1
<1>6. \A i \in 1..(n - 1) : i + 1 \in 1..n /\ i + 1 # 1 BY <1>1
<1>7. Range(s) = {h} \cup Range(r)
  <2>1. ASSUME NEW x \in Range(s) PROVE x = h \/ x \in Range(r)
    <3>1. PICK i \in 1..n : x = s[i] BY <1>1 DEF Range
    <3>2. CASE i # 1
      <4>1. x = r[i - 1] /\ i - 1 \in DOMAIN r BY <1>4, <1>5, <3>1, <3>2
      <4> QED BY <4>1 DEF Range
    <3> QED BY <1>3, <3>1, <3>2
  <2>2. h \in Range(s) BY <1>1, <1>3 DEF Range
  <2>3. ASSUME NEW x \in Range(r) PROVE x \in Range(s)
    <3>1. PICK i \in 1..(n - 1) : x = r[i] BY <1>4 DEF Range
    <3> QED BY <1>1, <1>4, <1>6, <3>1 DEF Range
  <2> QED BY <2>1, <2>2, <2>3
<1>8. ASSUME IsInjective(s) PROVE IsInjective(r) /\ h \notin Range(r)
  <2>1. ASSUME NEW i \in 1..(n - 1), NEW j \in 1..(n - 1), r[i] = r[j] PROVE i = j
    <3>1. i + 1 = j + 1 BY <1>1, <1>4, <1>6, <1>8, <2>1 DEF IsInjective
    <3> QED BY <3>1
  <2>2. ASSUME NEW i \in 1..(n - 1), r[i] = h PROVE FALSE
    <3>1. s[i + 1] = s[1] /\ i + 1 \in DOMAIN s /\ 1 \in DOMAIN s BY <1>1, <1>3, <1>4, <1>6, <2>2
    <3>2. i + 1 = 1 BY <1>8, <3>1 DEF IsInjective
    <3> QED BY <1>6, <3>2
  <2>3. IsInjective(r) BY <1>4, <2>1 DEF IsInjective
  <2> QED BY <1>4, <2>2, <2>3 DEF Range
<1> QED BY <1>2, <1>3, <1>7, <1>8

LEMMA Joined ==
  ASSUME NEW S, NEW a \in Seq(S), NEW b \in Seq(S), IsInjective(a), IsInjective(b),
         Range(a) \cap Range(b) = {}
  PROVE  IsInjective(a \o b)
<1>1. PICK m, n, s : m = Len(a) /\ n = Len(b) /\ s = a \o b OBVIOUS
<1>2. m \in Nat /\ n \in Nat /\ DOMAIN a = 1..m /\ DOMAIN b = 1..n BY <1>1
<1>3. s \in Seq(S) /\ Len(s) = m + n
      /\ \A i \in 1..(m + n) : s[i] = IF i <= m THEN a[i] ELSE b[i - m]
  BY <1>1, ConcatProperties
<1>4. DOMAIN s = 1..(m + n) BY <1>2, <1>3
<1>5. \A i \in 1..(m + n) : (i <= m /\ i \in DOMAIN a) \/ (~(i <= m) /\ i - m \in DOMAIN b) BY <1>2
<1>6. ASSUME NEW i \in 1..(m + n), NEW j \in 1..(m + n), s[i] = s[j] PROVE i = j
  <2>1. CASE i <= m /\ j <= m BY <1>3, <1>5, <1>6, <2>1 DEF IsInjective
  <2>2. CASE ~(i <= m) /\ ~(j <= m)
    <3>1. b[i - m] = b[j - m] /\ i - m \in DOMAIN b /\ j - m \in DOMAIN b BY <1>3, <1>5, <1>6, <2>2
    <3>2. i - m = j - m BY <3>1 DEF IsInjective
    <3> QED BY <1>2, <3>2
  <2>3. CASE i <= m /\ ~(j <= m)
    <3>1. a[i] = b[j - m] /\ i \in DOMAIN a /\ j - m \in DOMAIN b BY <1>3, <1>5, <1>6, <2>3
    <3>2. a[i] \in Range(a) /\ b[j - m] \in Range(b) BY <3>1 DEF Range
    <3> QED BY <3>1, <3>2
  <2>4. CASE ~(i <= m) /\ j <= m
    <3>1. a[j] = b[i - m] /\ j \in DOMAIN a /\ i - m \in DOMAIN b BY <1>3, <1>5, <1>6, <2>4
    <3>2. a[j] \in Range(a) /\ b[i - m] \in Range(b) BY <3>1 DEF Range
    <3> QED BY <3>1, <3>2
  <2> QED BY <2>1, <2>2, <2>3, <2>4
<1> QED BY <1>1, <1>4, <1>6 DEF IsInjective

LEMMA Zipped ==
  ASSUME Tree, NEW l \in Nodes, NEW r \in Nodes, Len(Kids(l)) = Len(Kids(r))
  PROVE  /\ Zip(Kids(l), Kids(r)) \in Seq(Both) /\ IsInjective(Zip(Kids(l), Kids(r)))
         /\ Range(Zip(Kids(l), Kids(r))) = ChildPairs(<<l, r>>)
<1>1. PICK a, b, n : a = Kids(l) /\ b = Kids(r) /\ n = Len(a) OBVIOUS
<1>2. a \in Seq(Nat) /\ b \in Seq(Nat) /\ n = Len(b) BY <1>1, Rows
<1>3. n \in Nat /\ DOMAIN a = 1..n /\ DOMAIN b = 1..n BY <1>1, <1>2
<1>4. PICK z : z = [i \in 1..n |-> <<a[i], b[i]>>] OBVIOUS
<1>5. z = Zip(Kids(l), Kids(r))
  <2>1. n <= n BY <1>3
  <2> QED BY <1>1, <1>2, <1>4, <2>1 DEF Zip
<1>6. \A i \in 1..n : a[i] \in Nodes /\ b[i] \in Nodes BY <1>1, <1>3, Rows
<1>7. \A i \in 1..n : z[i] \in Both BY <1>4, <1>6 DEF Both
<1>8. z \in Seq(Both)
  <2>1. z \in [1..n -> Both] BY <1>4, <1>7
  <2> HIDE DEF Both
  <2> QED BY <1>3, <2>1
<1>9. DOMAIN z = 1..n BY <1>4
<1>10. \A i, j \in 1..n : a[i] = a[j] => i = j BY <1>1, <1>3, OnlyParent
<1>11. IsInjective(z) BY <1>4, <1>9, <1>10 DEF IsInjective
<1>12. Range(z) = ChildPairs(<<l, r>>) BY <1>1, <1>3, <1>4, <1>9 DEF Range, ChildPairs
<1> QED BY <1>5, <1>8, <1>11, <1>12
-----------------------------------------------------------------------------
(* The pairs that correspond, and where they come from.                      *)

LEMMA Found ==
  ASSUME Tree, NEW name, Named(name) # {}
  PROVE  FindFunction(name) \in Nodes
<1>1. Named(name) \in SUBSET Nat /\ Named(name) \subseteq Nodes
  BY Rows DEF Named, Nodes
<1>2. PICK n \in Named(name) : \A m \in Named(name) : n <= m BY <1>1, LeastNatural
<1>3. FindFunction(name) \in Named(name)
  <2> HIDE DEF Named
  <2> QED BY <1>2 DEF FindFunction
<1> QED BY <1>1, <1>3

LEMMA AlignedAre ==
  ASSUME Tree, Named(Canonical) # {}, Named(Sibling) # {}
  PROVE  /\ Roots \in Both /\ Roots \in Aligned /\ Aligned \subseteq Both
         /\ ClosedBelow(Aligned)
         /\ \A V : Roots \in V /\ ClosedBelow(V) => Aligned \subseteq V
         /\ \A p \in Aligned : Roots[1] <= p[1]
<1>1. Roots \in Both BY Found DEF Roots, Both
<1>2. Aligned = AlignedFrom(Roots) BY DEF Aligned, Roots
<1> DEFINE W == {p \in Both : Roots[1] <= p[1]}
<1>3. Roots \in W
  <2>1. Roots[1] \in Nat BY <1>1, Rows DEF Both
  <2> QED BY <1>1, <2>1
<1>4. ClosedBelow(W)
  <2> SUFFICES ASSUME NEW p \in W, SameShape(p), NEW q \in ChildPairs(p) PROVE q \in W
    BY DEF ClosedBelow
  <2>1. q \in Both /\ p[1] < q[1] BY Children
  <2>2. Roots[1] \in Nat /\ p[1] \in Nat /\ q[1] \in Nat /\ Roots[1] <= p[1]
    BY <1>1, <2>1, Rows DEF Both
  <2> QED BY <2>1, <2>2
<1>5. Aligned \subseteq W
  <2> HIDE DEF W
  <2> QED BY <1>1, <1>2, <1>3, <1>4, AlignedIsLeast
<1> QED BY <1>1, <1>2, <1>5, AlignedIsLeast

\* A pair of nodes has one parent pair at most, and the roots have none.
LEMMA OneParent ==
  ASSUME Tree, NEW p \in Both, NEW r \in Both, SameShape(p), SameShape(r), NEW q,
         q \in ChildPairs(p), q \in ChildPairs(r)
  PROVE  p = r
<1>1. PICK i \in DOMAIN Kids(p[1]) : q = <<Kids(p[1])[i], Kids(p[2])[i]>> BY DEF ChildPairs
<1>2. PICK j \in DOMAIN Kids(r[1]) : q = <<Kids(r[1])[j], Kids(r[2])[j]>> BY DEF ChildPairs
<1>3. p[1] \in Nodes /\ p[2] \in Nodes /\ r[1] \in Nodes /\ r[2] \in Nodes
      /\ p = <<p[1], p[2]>> /\ r = <<r[1], r[2]>>
  BY DEF Both
<1>4. Kids(p[1])[i] = Kids(r[1])[j] /\ Kids(p[2])[i] = Kids(r[2])[j] BY <1>1, <1>2
<1>5. i \in DOMAIN Kids(p[2]) /\ j \in DOMAIN Kids(r[2])
  <2>1. DOMAIN Kids(p[1]) = DOMAIN Kids(p[2]) /\ DOMAIN Kids(r[1]) = DOMAIN Kids(r[2])
    BY <1>3, Rows DEF SameShape
  <2> QED BY <2>1
<1>6. p[1] = r[1] BY <1>3, <1>4, OnlyParent
<1>7. p[2] = r[2] BY <1>3, <1>4, <1>5, OnlyParent
<1> QED BY <1>3, <1>6, <1>7

LEMMA RootsHaveNone ==
  ASSUME Tree, Named(Canonical) # {}, Named(Sibling) # {}, NEW p \in Aligned, SameShape(p)
  PROVE  Roots \notin ChildPairs(p)
<1>1. p \in Both /\ Roots[1] <= p[1] /\ Roots \in Both BY AlignedAre
<1>2. Roots[1] \in Nat /\ p[1] \in Nat BY <1>1, Rows DEF Both
<1> SUFFICES ASSUME Roots \in ChildPairs(p) PROVE FALSE
  OBVIOUS
<1>3. p[1] < Roots[1] BY <1>1, Children
<1> QED BY <1>1, <1>2, <1>3
-----------------------------------------------------------------------------
(* One comparison.                                                           *)

LEMMA Compared ==
  ASSUME Tree, Named(Canonical) # {}, Named(Sibling) # {},
         NEW s \in Seq(Both), s # <<>>, NEW V, Explored(V, s),
         NEW fresh \in Seq(Both), IsInjective(fresh),
         Range(fresh) = IF SameShape(Head(s)) THEN ChildPairs(Head(s)) ELSE {}
  PROVE  /\ Explored(V \cup {Head(s)}, fresh \o Tail(s))
         /\ Head(s) \notin V /\ Head(s) \in Aligned
<1>1. PICK p, r : p = Head(s) /\ r = Tail(s) OBVIOUS
<1>2. /\ p \in Both /\ r \in Seq(Both) /\ Range(s) = {p} \cup Range(r)
      /\ IsInjective(r) /\ p \notin Range(r)
  BY <1>1, Taken DEF Explored
<1>3. p \notin V /\ p \in Aligned BY <1>2 DEF Explored
<1>4. Range(fresh) = IF SameShape(p) THEN ChildPairs(p) ELSE {} BY <1>1
<1>5. Range(fresh \o r) = Range(fresh) \cup Range(r) BY <1>2, RangeConcatenation
<1>6. ASSUME NEW q \in Range(fresh) PROVE q \notin V \cup Range(s)
  <2>1. SameShape(p) /\ q \in ChildPairs(p) BY <1>4, <1>6
  <2>2. q # Roots BY <1>3, <2>1, RootsHaveNone
  <2> SUFFICES ASSUME q \in V \cup Range(s) PROVE FALSE
    OBVIOUS
  <2>3. PICK m \in V : SameShape(m) /\ q \in ChildPairs(m) BY <2>2 DEF Explored
  <2>4. m \in Both BY AlignedAre DEF Explored
  <2>5. m = p BY <1>2, <2>1, <2>3, <2>4, OneParent
  <2> QED BY <1>3, <2>3, <2>5
<1>7. IsInjective(fresh \o r)
  <2>1. Range(fresh) \cap Range(r) = {} BY <1>2, <1>6
  <2> QED BY <1>2, <2>1, Joined
<1> DEFINE W == V \cup {p}
           M == Range(fresh \o r)
<1>8. W \cup M = V \cup Range(s) \cup Range(fresh) BY <1>2, <1>5
<1>9. W \cap M = {}
  <2>1. V \cap Range(s) = {} BY DEF Explored
  <2> QED BY <1>2, <1>3, <1>5, <1>6, <2>1
<1>10. W \subseteq Aligned /\ M \subseteq Aligned
  <2>1. Range(fresh) \subseteq Aligned BY <1>3, <1>4, AlignedAre DEF ClosedBelow
  <2> QED BY <1>2, <1>3, <1>5, <2>1 DEF Explored
<1>11. Roots \in W \cup M BY <1>8 DEF Explored
<1>12. \A q \in W : SameShape(q) => ChildPairs(q) \subseteq W \cup M
  BY <1>4, <1>8 DEF Explored
<1>13. \A q \in W \cup M : q = Roots \/ \E m \in W : SameShape(m) /\ q \in ChildPairs(m)
  <2> SUFFICES ASSUME NEW q \in V \cup Range(s) \cup Range(fresh), q # Roots
               PROVE  \E m \in W : SameShape(m) /\ q \in ChildPairs(m)
    BY <1>8
  <2>1. CASE q \in Range(fresh)
    <3>1. SameShape(p) /\ q \in ChildPairs(p) /\ p \in W BY <1>4, <2>1
    <3> QED BY <3>1
  <2>2. CASE q \in V \cup Range(s) BY <2>2 DEF Explored
  <2> QED BY <2>1, <2>2
<1> HIDE DEF W, M
<1>14. Explored(W, fresh \o r) BY <1>7, <1>9, <1>10, <1>11, <1>12, <1>13 DEF Explored, M
<1> QED BY <1>1, <1>3, <1>14 DEF W

LEMMA RangeOfPair ==
  ASSUME NEW x, NEW y
  PROVE  Range(<<x, y>>) = {x, y}
<1>1. DOMAIN <<x, y>> = {1, 2} OBVIOUS
<1>2. PICK s : s = <<x, y>> OBVIOUS
<1>3. DOMAIN s = {1, 2} /\ s[1] = x /\ s[2] = y BY <1>1, <1>2
<1>4. Range(s) = {x, y} BY <1>3 DEF Range
<1> QED BY <1>2, <1>4

NamePairs == Proper \X Proper
NameAdded(bound, col, p) ==
  IF Name(col, p[1]) # "" /\ Name(col, p[2]) # "" /\ Name(col, p[1]) # Name(col, p[2])
  THEN Append(bound, <<Name(col, p[1]), Name(col, p[2])>>)
  ELSE bound

\* RecordNames reports the difference of the two nodes compared, when there is one.
LEMMA NamesReported ==
  ASSUME Tree, NEW p \in Both, NEW col \in Columns, NEW bound \in Seq(NamePairs), NEW V,
         Range(bound) = NamesBound(V, col), SameKind(p), p \notin V,
         NEW W, W = V \cup {p}
  PROVE  NameAdded(bound, col, p) \in Seq(NamePairs) /\ Range(NameAdded(bound, col, p)) = NamesBound(W, col)
<1>0. PICK new : new = NameAdded(bound, col, p) OBVIOUS
<1>1. PICK x, y : x = Name(col, p[1]) /\ y = Name(col, p[2]) OBVIOUS
<1>2. NameOf(col, p) = <<x, y>> BY <1>1 DEF NameOf
<1>3. Range(<<x, y>>) = {x, y} BY RangeOfPair
<1>4. Differ(col, p) <=> x # "" /\ y # "" /\ x # y
  <2>1. PICK n : n = NameOf(col, p) OBVIOUS
  <2>2. n = <<x, y>> /\ Range(n) = {x, y}
    <3>1. n = <<x, y>> BY <1>2, <2>1
    <3>2. Range(n) = {x, y} BY <3>1, RangeOfPair
    <3> QED BY <3>1, <3>2
  <2>3. Differ(col, p) <=> "" \notin Range(n) /\ n[1] # n[2] BY <2>1 DEF Differ
  <2> QED BY <2>2, <2>3
<1>5. NamesBound(V \cup {p}, col) = NamesBound(V, col) \cup (IF Differ(col, p) THEN {<<x, y>>} ELSE {})
  BY <1>2 DEF NamesBound
<1>6. CASE Differ(col, p)
  <2>1. p[1] \in Nodes /\ p[2] \in Nodes BY DEF Both
  <2>2. x \in Proper /\ y \in Proper BY <1>1, <1>4, <1>6, <2>1, OwnName DEF Proper
  <2>3. PICK z : z = <<x, y>> OBVIOUS
  <2>4. z \in NamePairs BY <2>2, <2>3 DEF NamePairs
  <2>5. new = Append(bound, z) BY <1>0, <1>1, <1>4, <1>6, <2>3 DEF NameAdded
  <2>6. Append(bound, z) \in Seq(NamePairs) /\ Range(Append(bound, z)) = Range(bound) \cup {z}
    BY <2>4, Appended
  <2>7. NamesBound(V \cup {p}, col) = Range(bound) \cup {z} BY <1>5, <1>6, <2>3
  <2> QED BY <1>0, <2>5, <2>6, <2>7
<1>7. CASE ~Differ(col, p)
  <2>1. new = bound BY <1>0, <1>1, <1>4, <1>7 DEF NameAdded
  <2> QED BY <1>0, <1>5, <1>7, <2>1
<1> QED BY <1>6, <1>7

\* A pair of two kinds bears no names to bind.
LEMMA NoNamesReported ==
  ASSUME NEW p, NEW V, ~SameKind(p), NEW col
  PROVE  NamesBound(V \cup {p}, col) = NamesBound(V, col)
BY DEF NamesBound, Differ

\* RecordHole lists the names of one more subtree, once.
LEMMA NamesListed ==
  ASSUME Tree, NEW col \in Columns, NEW r \in Nodes, NEW list \in Seq(Proper), IsInjective(list),
         NEW B, Range(list) = {Name(col, n) : n \in B} \ {""}
  PROVE  /\ MergeNames(list, col, r) \in Seq(Proper) /\ IsInjective(MergeNames(list, col, r))
         /\ Range(MergeNames(list, col, r)) = {Name(col, n) : n \in B \cup Subtree(r)} \ {""}
<1>1. PICK more : more = Leaves(col, r) OBVIOUS
<1>2. more \in Seq(Proper) /\ Range(more) = {Name(col, n) : n \in Subtree(r)} \ {""}
  BY <1>1, LeavesAre
<1>3. PICK new : new = MergeUnique(list, more) OBVIOUS
<1>4. new \in Seq(Proper) /\ IsInjective(new) /\ Range(new) = Range(list) \cup Range(more)
  BY <1>2, <1>3, Merged
<1>5. new = MergeNames(list, col, r) BY <1>1, <1>3 DEF MergeNames
<1>6. Range(new) = {Name(col, n) : n \in B \cup Subtree(r)} \ {""}
  <2> DEFINE P == {Name(col, n) : n \in B} \ {""}
             Q == {Name(col, n) : n \in Subtree(r)} \ {""}
             R == {Name(col, n) : n \in B \cup Subtree(r)} \ {""}
  <2>1. P \cup Q = R OBVIOUS
  <2>2. Range(list) = P /\ Range(more) = Q BY <1>2
  <2> HIDE DEF P, Q, R
  <2>3. Range(new) = R BY <1>4, <2>1, <2>2
  <2> QED BY <2>3 DEF R
<1> QED BY <1>4, <1>5, <1>6

\* Nothing said of the tensor alone changes.
LEMMA TensorStays ==
  ASSUME t' = t
  PROVE  /\ Nodes' = Nodes /\ Names' = Names /\ Tree' = Tree
         /\ Aligned' = Aligned /\ Roots' = Roots
         /\ \A p : SameShape(p)' = SameShape(p) /\ SameKind(p)' = SameKind(p)
                   /\ ChildPairs(p)' = ChildPairs(p)
         /\ \A col, n : Name(col, n)' = Name(col, n)
         /\ \A r : Subtree(r)' = Subtree(r)
         /\ \A name : Named(name)' = Named(name)
<1>1. \A r : AlignedFrom(r)' = AlignedFrom(r) /\ Aligned' = Aligned BY Stays
<1>2. \A r : Subtree(r)' = Subtree(r) BY <1>1 DEF Subtree
<1>3. Roots' = Roots BY DEF Roots, FindFunction, Named
<1>4. Tree' = Tree BY DEF Tree, IsTensor
<1>5. \A p : SameShape(p)' = SameShape(p) /\ SameKind(p)' = SameKind(p)
                   /\ ChildPairs(p)' = ChildPairs(p)
  BY DEF SameShape, SameKind, ChildPairs, Kids
<1>6. Nodes' = Nodes /\ Names' = Names BY DEF Nodes, Names
<1>7. \A col, n : Name(col, n)' = Name(col, n) BY DEF Name
<1>8. \A name : Named(name)' = Named(name) BY DEF Named
<1> QED BY <1>1, <1>2, <1>3, <1>4, <1>5, <1>6, <1>7, <1>8

LEMMA WalkedNext ==
  ASSUME t' = t, NEW W \in SUBSET Aligned, NEW u, NEW h, NEW b,
         Explored(W, u), Reported(W, h, b), todo' = u, holes' = h, bindings' = b
  PROVE  Walked'
<1>1. Explored(W, todo)'
  BY TensorStays DEF Explored
<1>2. \A col : NamesBound(W, col)' = NamesBound(W, col)
  BY TensorStays DEF NamesBound, Differ, NameOf
<1>3. Reported(W, holes, bindings)'
  BY <1>2, TensorStays DEF Reported
<1>4. W \in SUBSET Aligned' BY TensorStays
<1> QED BY <1>1, <1>3, <1>4 DEF Walked

NameListing == [canonical : Seq(Proper), sibling : Seq(Proper)]
BelowHoles(side, parted) == UNION {Subtree(h[side]) : h \in Range(parted)}
NamesIn(col, B) == {Name(col, n) : n \in B} \ {""}
ListedBelow(parted, listing) ==
  \A col \in Columns :
    /\ Range(listing[col].canonical) = NamesIn(col, BelowHoles(1, parted))
    /\ Range(listing[col].sibling) = NamesIn(col, BelowHoles(2, parted))
    /\ IsInjective(listing[col].canonical) /\ IsInjective(listing[col].sibling)

LEMMA ListedNow == LooseNamesComplete <=> ListedBelow(holes, loose)
BY DEF LooseNamesComplete, ListedBelow, InHole, BelowHoles, NamesIn

LEMMA ListedNext ==
  ASSUME t' = t, NEW h, NEW s, holes' = h, loose' = s, ListedBelow(h, s)
  PROVE  LooseNamesComplete'
<1>1. \A side \in {1, 2} : InHole(side)' = BelowHoles(side, h)
  BY TensorStays DEF InHole, BelowHoles
<1>2. InHole(1)' = BelowHoles(1, h) /\ InHole(2)' = BelowHoles(2, h) BY <1>1
<1>3. \A col : {Name(col, n) : n \in InHole(1)}' = {Name(col, n) : n \in BelowHoles(1, h)}
  BY <1>2, TensorStays
<1>4. \A col : {Name(col, n) : n \in InHole(2)}' = {Name(col, n) : n \in BelowHoles(2, h)}
  BY <1>2, TensorStays
<1>5. \A col \in Columns :
        /\ Range(s[col].canonical) = {Name(col, n) : n \in BelowHoles(1, h)} \ {""}
        /\ Range(s[col].sibling) = {Name(col, n) : n \in BelowHoles(2, h)} \ {""}
        /\ IsInjective(s[col].canonical) /\ IsInjective(s[col].sibling)
  BY DEF ListedBelow, NamesIn
<1>6. \A col \in Columns :
        /\ Range(s[col].canonical) = {Name(col, n) : n \in InHole(1)}' \ {""}
        /\ Range(s[col].sibling) = {Name(col, n) : n \in InHole(2)}' \ {""}
        /\ IsInjective(s[col].canonical) /\ IsInjective(s[col].sibling)
  BY <1>3, <1>4, <1>5
<1> QED BY <1>6 DEF LooseNamesComplete

NamesMerged(s, l, r) ==
  [col \in Columns |->
    [canonical |-> MergeNames(s[col].canonical, col, l), sibling |-> MergeNames(s[col].sibling, col, r)]]

LEMMA HoleRecorded ==
  ASSUME Tree, NEW l \in Nodes, NEW r \in Nodes, NEW h \in Seq(Both), NEW s \in [Columns -> NameListing],
         ListedBelow(h, s), NEW h2, NEW s2, h2 = Append(h, <<l, r>>),
         s2 = NamesMerged(s, l, r)
  PROVE  s2 \in [Columns -> NameListing] /\ ListedBelow(h2, s2)
<1>1. PICK q : q = <<l, r>> OBVIOUS
<1>2. q \in Both /\ q[1] = l /\ q[2] = r BY <1>1 DEF Both
<1>3. Range(h2) = Range(h) \cup {q} BY <1>1, <1>2, Appended
<1>4. BelowHoles(1, h2) = BelowHoles(1, h) \cup Subtree(l)
      /\ BelowHoles(2, h2) = BelowHoles(2, h) \cup Subtree(r)
  BY <1>2, <1>3 DEF BelowHoles
<1> USE DEF NamesMerged
<1>5. ASSUME NEW col \in Columns
      PROVE  LET a == s2[col].canonical
                 b == s2[col].sibling
             IN /\ s2[col] \in NameListing
                /\ a \in Seq(Proper) /\ IsInjective(a) /\ Range(a) = NamesIn(col, BelowHoles(1, h2))
                /\ b \in Seq(Proper) /\ IsInjective(b) /\ Range(b) = NamesIn(col, BelowHoles(2, h2))
  <2>1. PICK x, y : x = s[col].canonical /\ y = s[col].sibling OBVIOUS
  <2>2. x \in Seq(Proper) /\ y \in Seq(Proper) BY <2>1 DEF NameListing
  <2>3. IsInjective(x) /\ Range(x) = NamesIn(col, BelowHoles(1, h))
        /\ IsInjective(y) /\ Range(y) = NamesIn(col, BelowHoles(2, h))
    BY <2>1 DEF ListedBelow
  <2>4. PICK a, b : a = MergeNames(x, col, l) /\ b = MergeNames(y, col, r) OBVIOUS
  <2>5. PICK B, C : B = BelowHoles(1, h) /\ C = BelowHoles(2, h) OBVIOUS
  <2>6. Range(x) = {Name(col, n) : n \in B} \ {""} /\ Range(y) = {Name(col, n) : n \in C} \ {""}
    BY <2>3, <2>5 DEF NamesIn
  <2>7. a \in Seq(Proper) /\ IsInjective(a) /\ Range(a) = {Name(col, n) : n \in B \cup Subtree(l)} \ {""}
    BY <2>2, <2>3, <2>4, <2>6, NamesListed
  <2>8. b \in Seq(Proper) /\ IsInjective(b) /\ Range(b) = {Name(col, n) : n \in C \cup Subtree(r)} \ {""}
    BY <2>2, <2>3, <2>4, <2>6, NamesListed
  <2>9. Range(a) = NamesIn(col, BelowHoles(1, h2)) /\ Range(b) = NamesIn(col, BelowHoles(2, h2))
    BY <1>4, <2>5, <2>7, <2>8 DEF NamesIn
  <2>10. s2[col] = [canonical |-> a, sibling |-> b] BY <2>1, <2>4
  <2>11. s2[col].canonical = a /\ s2[col].sibling = b BY <2>10
  <2>12. [canonical |-> a, sibling |-> b] \in NameListing BY <2>7, <2>8 DEF NameListing
  <2> QED BY <2>7, <2>8, <2>9, <2>10, <2>11, <2>12
<1>6. \A col \in Columns : s2[col] \in NameListing BY <1>5
<1>7. s2 \in [Columns -> NameListing]
  <2>1. DOMAIN s2 = Columns /\ s2 = [col \in Columns |-> s2[col]] OBVIOUS
  <2> QED BY <1>6, <2>1
<1>8. ListedBelow(h2, s2) BY <1>5 DEF ListedBelow
<1> QED BY <1>7, <1>8
-----------------------------------------------------------------------------
(* The steps of the diff.                                                    *)

LEMMA Typed ==
  DiffTypeOK <=>
    /\ diffPhase \in {"find", "walk", "written", "exit"}
    /\ todo \in Seq(Both) /\ holes \in Seq(Both)
    /\ bindings \in [Columns -> Seq(NamePairs)]
    /\ loose \in [Columns -> NameListing]
BY DEF DiffTypeOK, Both, Proper, NamePairs, NameListing

LEMMA TypedNext ==
  ASSUME t' = t, diffPhase' \in {"find", "walk", "written", "exit"},
         todo' \in Seq(Both), holes' \in Seq(Both),
         bindings' \in [Columns -> Seq(NamePairs)], loose' \in [Columns -> NameListing]
  PROVE  DiffTypeOK'
BY TensorStays DEF DiffTypeOK, Both, Proper, NamePairs, NameListing

LEMMA CorporaAreTrees == t \in Corpora => Tree
BY CorporaAssumption DEF Tree

NamesRecorded(p) == [col \in Columns |-> NameAdded(bindings[col], col, p)]

\* diff_subtrees on one pair, whichever way it goes.
LEMMA PairInv ==
  ASSUME DiffInv, diffPhase = "walk", todo # <<>>, NEW p, p = Head(todo),
         t' = t, diffPhase' = "walk",
         NEW u, todo' = u, NEW h, holes' = h, NEW b, bindings' = b, NEW s, loose' = s,
         u = (IF SameShape(p) THEN Zip(Kids(p[1]), Kids(p[2])) ELSE <<>>) \o Tail(todo),
         SameShape(p) => h = holes /\ s = loose,
         ~SameShape(p) => h = Append(holes, <<p[1], p[2]>>) /\ s = NamesMerged(loose, p[1], p[2]),
         b = IF SameKind(p) THEN NamesRecorded(p) ELSE bindings
  PROVE  DiffInv'
<1>1. Tree /\ t \in Corpora BY CorporaAreTrees DEF DiffInv
<1>2. /\ todo \in Seq(Both) /\ holes \in Seq(Both)
      /\ bindings \in [Columns -> Seq(NamePairs)]
      /\ loose \in [Columns -> NameListing]
  BY Typed DEF DiffInv
<1>3. Named(Canonical) # {} /\ Named(Sibling) # {} /\ Walked BY DEF DiffInv
<1>4. PICK V \in SUBSET Aligned : Explored(V, todo) /\ Reported(V, holes, bindings)
  BY <1>3 DEF Walked
<1>5. p \in Both /\ p[1] \in Nodes /\ p[2] \in Nodes /\ p = <<p[1], p[2]>>
  <2>1. p \in Both BY <1>2, Taken
  <2> QED BY <2>1 DEF Both
<1>6. PICK fresh : fresh = IF SameShape(p) THEN Zip(Kids(p[1]), Kids(p[2])) ELSE <<>>
  OBVIOUS
<1>7. /\ fresh \in Seq(Both) /\ IsInjective(fresh)
      /\ Range(fresh) = IF SameShape(p) THEN ChildPairs(p) ELSE {}
  <2>1. CASE SameShape(p)
    <3>1. Len(Kids(p[1])) = Len(Kids(p[2])) BY <2>1 DEF SameShape
    <3>2. PICK z : z = Zip(Kids(p[1]), Kids(p[2])) OBVIOUS
    <3>3. z \in Seq(Both) /\ IsInjective(z) /\ Range(z) = ChildPairs(<<p[1], p[2]>>)
      BY <1>1, <1>5, <3>1, <3>2, Zipped
    <3>4. ChildPairs(<<p[1], p[2]>>) = ChildPairs(p) BY <1>5
    <3>5. fresh = z BY <1>6, <2>1, <3>2
    <3> QED BY <2>1, <3>3, <3>4, <3>5
  <2>2. CASE ~SameShape(p)
    <3>1. fresh = <<>> BY <1>6, <2>2
    <3>2. DOMAIN fresh = {} /\ fresh \in Seq(Both) BY <3>1
    <3> QED BY <2>2, <3>2 DEF IsInjective, Range
  <2> QED BY <2>1, <2>2
<1>8. u = fresh \o Tail(todo) BY <1>6
<1> DEFINE W == V \cup {p}
<1>9. Explored(W, u) /\ p \notin V /\ p \in Aligned
  <2>1. PICK td : td = todo OBVIOUS
  <2>2. td \in Seq(Both) /\ td # <<>> /\ Explored(V, td) BY <1>2, <1>4, <2>1
  <2>3. Range(fresh) = IF SameShape(Head(td)) THEN ChildPairs(Head(td)) ELSE {} BY <1>7, <2>1
  <2>4. /\ Explored(V \cup {Head(td)}, fresh \o Tail(td))
        /\ Head(td) \notin V /\ Head(td) \in Aligned
    BY <1>1, <1>3, <1>7, <2>2, <2>3, Compared
  <2> QED BY <1>8, <2>1, <2>4
<1>10. u \in Seq(Both)
  <2>1. Tail(todo) \in Seq(Both) BY <1>2, Taken
  <2> QED BY <1>7, <1>8, <2>1, ConcatProperties
<1>11. b \in [Columns -> Seq(NamePairs)]
       /\ \A col \in Columns : Range(b[col]) = NamesBound(W, col)
  <2>1. \A col \in Columns : Range(bindings[col]) = NamesBound(V, col)
    BY <1>4 DEF Reported
  <2>2. CASE SameKind(p)
    <3>1. b = NamesRecorded(p) BY <2>2
    <3>2. ASSUME NEW col \in Columns
          PROVE  b[col] \in Seq(NamePairs) /\ Range(b[col]) = NamesBound(W, col)
      <4>1. PICK bound, w : bound = bindings[col] /\ w = W OBVIOUS
      <4>2. bound \in Seq(NamePairs) /\ Range(bound) = NamesBound(V, col)
        BY <1>2, <2>1, <4>1
      <4>3. Tree /\ p \in Both /\ p \notin V /\ SameKind(p) /\ w = V \cup {p}
        BY <1>1, <1>5, <1>9, <2>2, <4>1
      <4>4. /\ NameAdded(bound, col, p) \in Seq(NamePairs)
            /\ Range(NameAdded(bound, col, p)) = NamesBound(w, col)
        BY <4>2, <4>3, NamesReported
      <4>5. b[col] = NameAdded(bound, col, p) BY <3>1, <4>1 DEF NamesRecorded
      <4> QED BY <4>1, <4>4, <4>5
    <3>3. DOMAIN b = Columns /\ b = [col \in Columns |-> b[col]] BY <3>1 DEF NamesRecorded
    <3> QED BY <3>2, <3>3
  <2>3. CASE ~SameKind(p)
    <3>1. b = bindings BY <2>3
    <3>2. \A col : NamesBound(W, col) = NamesBound(V, col) BY <2>3, NoNamesReported
    <3> HIDE DEF W
    <3> QED BY <1>2, <2>1, <3>1, <3>2
  <2> QED BY <2>2, <2>3
<1>12. h \in Seq(Both) /\ IsInjective(h) /\ Range(h) = {q \in W : ~SameShape(q)}
  <2>1. Range(holes) = {q \in V : ~SameShape(q)} /\ IsInjective(holes)
    BY <1>4 DEF Reported
  <2>2. CASE SameShape(p)
    <3>1. {q \in W : ~SameShape(q)} = {q \in V : ~SameShape(q)} BY <2>2
    <3> QED BY <1>2, <2>1, <2>2, <3>1
  <2>3. CASE ~SameShape(p)
    <3>1. h = Append(holes, p) BY <1>5, <2>3
    <3>2. p \notin Range(holes) BY <1>9, <2>1
    <3>3. {q \in W : ~SameShape(q)} = {q \in V : ~SameShape(q)} \cup {p} BY <2>3
    <3>4. PICK hs : hs = holes OBVIOUS
    <3>5. hs \in Seq(Both) /\ IsInjective(hs) /\ p \notin Range(hs) BY <1>2, <2>1, <3>2, <3>4
    <3>6. Append(hs, p) \in Seq(Both) /\ IsInjective(Append(hs, p)) /\ Range(Append(hs, p)) = Range(hs) \cup {p}
      BY <1>5, <3>5, Appended
    <3> QED BY <2>1, <3>1, <3>3, <3>4, <3>6
  <2> QED BY <2>2, <2>3
<1>13. Walked'
  <2>1. Reported(W, h, b) BY <1>11, <1>12 DEF Reported
  <2>2. W \in SUBSET Aligned BY <1>9
  <2> HIDE DEF W
  <2> QED BY <1>9, <2>1, <2>2, WalkedNext
<1>14. s \in [Columns -> NameListing] /\ ListedBelow(h, s)
  <2>1. ListedBelow(holes, loose) BY ListedNow DEF DiffInv
  <2>2. CASE SameShape(p) BY <1>2, <2>1, <2>2
  <2>3. CASE ~SameShape(p)
    <3>1. PICK l, r, hs, ss : l = p[1] /\ r = p[2] /\ hs = holes /\ ss = loose OBVIOUS
    <3>2. h = Append(hs, <<l, r>>) BY <2>3, <3>1
    <3>3. s = NamesMerged(ss, l, r) BY <2>3, <3>1
    <3>4. l \in Nodes /\ r \in Nodes /\ hs \in Seq(Both) /\ ss \in [Columns -> NameListing]
          /\ ListedBelow(hs, ss)
      BY <1>2, <1>5, <2>1, <3>1
    <3> QED BY <1>1, <3>2, <3>3, <3>4, HoleRecorded
  <2> QED BY <2>2, <2>3
<1>15. LooseNamesComplete' BY <1>14, ListedNext
<1>16. DiffTypeOK' BY <1>10, <1>11, <1>12, <1>14, TypedNext
<1>17. (Named(Canonical) # {} /\ Named(Sibling) # {})' BY <1>3, TensorStays
<1> QED BY <1>1, <1>13, <1>15, <1>16, <1>17 DEF DiffInv

LEMMA DiffInitInv == DiffInit => DiffInv
<1> SUFFICES ASSUME DiffInit PROVE DiffInv
  OBVIOUS
<1>1. <<>> \in Seq(Proper) /\ <<>> \in Seq(NamePairs) /\ <<>> \in Seq(Both)
      /\ Range(<<>>) = {} /\ IsInjective(<<>>)
  BY DEF Range, IsInjective
<1>2. loose \in [Columns -> NameListing] /\ bindings \in [Columns -> Seq(NamePairs)]
  BY <1>1 DEF DiffInit, NameListing
<1>3. DiffTypeOK BY <1>1, <1>2, Typed DEF DiffInit
<1>4. LooseNamesComplete
  <2>1. holes = <<>> BY DEF DiffInit
  <2>2. Range(holes) = {} BY <1>1, <2>1
  <2>3. \A side : InHole(side) = {} BY <2>2 DEF InHole
  <2>4. \A col \in Columns : loose[col].canonical = <<>> /\ loose[col].sibling = <<>> BY DEF DiffInit
  <2> QED BY <1>1, <2>3, <2>4 DEF LooseNamesComplete
<1> QED BY <1>3, <1>4 DEF DiffInit, DiffInv

LEMMA FindInv == DiffInv /\ Find => DiffInv'
<1> SUFFICES ASSUME DiffInv, Find PROVE DiffInv'
  OBVIOUS
<1>1. Tree /\ t \in Corpora BY CorporaAreTrees DEF DiffInv
<1>2. t' = t /\ holes' = holes /\ bindings' = bindings /\ loose' = loose
  BY DEF Find, report
<1>3. todo = <<>> /\ holes = <<>> /\ bindings = [col \in Columns |-> <<>>]
  BY DEF Find, DiffInv
<1>4. holes \in Seq(Both) /\ bindings \in [Columns -> Seq(NamePairs)] /\ loose \in [Columns -> NameListing]
      /\ todo \in Seq(Both)
  BY Typed DEF DiffInv
<1>5. LooseNamesComplete'
  <2>1. PICK h, s : h = holes /\ s = loose OBVIOUS
  <2>2. ListedBelow(h, s) BY <2>1, ListedNow DEF DiffInv
  <2> QED BY <1>2, <2>1, <2>2, ListedNext
<1>6. CASE Named(Canonical) = {} \/ Named(Sibling) = {}
  <2>1. diffPhase' = "exit" /\ todo' = todo BY <1>6 DEF Find
  <2>2. DiffTypeOK' BY <1>2, <1>4, <2>1, TypedNext
  <2> QED BY <1>1, <1>2, <1>3, <1>5, <2>1, <2>2 DEF DiffInv
<1>7. CASE Named(Canonical) # {} /\ Named(Sibling) # {}
  <2>1. PICK u : u = <<Roots>> OBVIOUS
  <2>2. diffPhase' = "walk" /\ todo' = u BY <1>7, <2>1 DEF Find, Roots
  <2>3. Roots \in Both /\ Roots \in Aligned BY <1>1, <1>7, AlignedAre
  <2>4. u \in Seq(Both) /\ Range(u) = {Roots} /\ IsInjective(u)
    <3>1. PICK r : r = Roots OBVIOUS
    <3>2. u = <<r>> /\ r \in Both BY <2>1, <2>3, <3>1
    <3>3. DOMAIN u = {1} /\ u[1] = r /\ u \in Seq(Both) BY <3>2
    <3> QED BY <3>1, <3>3 DEF Range, IsInjective
  <2>5. Explored({}, u) BY <2>3, <2>4 DEF Explored
  <2>6. PICK h, b : h = holes /\ b = bindings OBVIOUS
  <2>7. Reported({}, h, b)
    <3>1. Range(<<>>) = {} /\ IsInjective(<<>>) BY DEF Range, IsInjective
    <3>2. \A col \in Columns : Range(b[col]) = {} BY <1>3, <2>6, <3>1
    <3>3. \A col : NamesBound({}, col) = {} BY DEF NamesBound
    <3> QED BY <1>3, <2>6, <3>1, <3>2, <3>3 DEF Reported
  <2>8. Walked'
    <3>1. {} \in SUBSET Aligned OBVIOUS
    <3>2. holes' = h /\ bindings' = b BY <1>2, <2>6
    <3> QED BY <1>2, <2>2, <2>5, <2>7, <3>1, <3>2, WalkedNext
  <2>9. DiffTypeOK' BY <1>2, <1>4, <2>2, <2>4, TypedNext
  <2>10. (Named(Canonical) # {} /\ Named(Sibling) # {})' BY <1>2, <1>7, TensorStays
  <2> QED BY <1>1, <1>2, <1>5, <2>2, <2>8, <2>9, <2>10 DEF DiffInv
<1> QED BY <1>6, <1>7

LEMMA KindsDifferInv == DiffInv /\ KindsDiffer => DiffInv'
<1> SUFFICES ASSUME DiffInv, KindsDiffer PROVE DiffInv'
  OBVIOUS
<1> USE DEF KindsDiffer, Walking, Left, Right, RecordHole
<1>1. PICK p, u, h, b, s : p = Head(todo) /\ u = todo' /\ h = holes' /\ b = bindings' /\ s = loose'
  OBVIOUS
<1>2. ~SameKind(p) /\ ~SameShape(p) BY <1>1 DEF SameKind, SameShape
<1>3. h = Append(holes, <<p[1], p[2]>>) /\ s = NamesMerged(loose, p[1], p[2]) /\ b = bindings
  BY <1>1 DEF NamesMerged
<1>4. u = <<>> \o Tail(todo)
  <2>1. Tail(todo) \in Seq(Both)
    <3>1. todo \in Seq(Both) /\ todo # <<>> BY Typed DEF DiffInv
    <3> QED BY <3>1, Taken
  <2> QED BY <1>1, <2>1, ConcatEmptySeq
<1>5. u = (IF SameShape(p) THEN Zip(Kids(p[1]), Kids(p[2])) ELSE <<>>) \o Tail(todo)
  BY <1>2, <1>4
<1>6. diffPhase = "walk" /\ todo # <<>> /\ t' = t /\ diffPhase' = "walk" OBVIOUS
<1>7. b = IF SameKind(p) THEN NamesRecorded(p) ELSE bindings BY <1>2, <1>3
<1>8. /\ SameShape(p) => h = holes /\ s = loose
      /\ ~SameShape(p) => h = Append(holes, <<p[1], p[2]>>) /\ s = NamesMerged(loose, p[1], p[2])
  BY <1>2, <1>3
<1>9. todo' = u /\ holes' = h /\ bindings' = b /\ loose' = s /\ p = Head(todo) BY <1>1
<1> HIDE DEF KindsDiffer, Walking, Left, Right, RecordHole
<1> QED BY <1>5, <1>6, <1>7, <1>8, <1>9, PairInv

LEMMA CountsDifferInv == DiffInv /\ CountsDiffer => DiffInv'
<1> SUFFICES ASSUME DiffInv, CountsDiffer PROVE DiffInv'
  OBVIOUS
<1> USE DEF CountsDiffer, Walking, Left, Right, RecordHole, RecordNames
<1>1. PICK p, u, h, b, s : p = Head(todo) /\ u = todo' /\ h = holes' /\ b = bindings' /\ s = loose'
  OBVIOUS
<1>2. SameKind(p) /\ ~SameShape(p) BY <1>1 DEF SameKind, SameShape
<1>3. h = Append(holes, <<p[1], p[2]>>) /\ s = NamesMerged(loose, p[1], p[2]) /\ b = NamesRecorded(p)
  BY <1>1 DEF NamesMerged, NamesRecorded, NameAdded
<1>4. u = <<>> \o Tail(todo)
  <2>1. Tail(todo) \in Seq(Both)
    <3>1. todo \in Seq(Both) /\ todo # <<>> BY Typed DEF DiffInv
    <3> QED BY <3>1, Taken
  <2> QED BY <1>1, <2>1, ConcatEmptySeq
<1>5. u = (IF SameShape(p) THEN Zip(Kids(p[1]), Kids(p[2])) ELSE <<>>) \o Tail(todo)
  BY <1>2, <1>4
<1>6. diffPhase = "walk" /\ todo # <<>> /\ t' = t /\ diffPhase' = "walk" OBVIOUS
<1>7. b = IF SameKind(p) THEN NamesRecorded(p) ELSE bindings BY <1>2, <1>3
<1>8. /\ SameShape(p) => h = holes /\ s = loose
      /\ ~SameShape(p) => h = Append(holes, <<p[1], p[2]>>) /\ s = NamesMerged(loose, p[1], p[2])
  BY <1>2, <1>3
<1>9. todo' = u /\ holes' = h /\ bindings' = b /\ loose' = s /\ p = Head(todo) BY <1>1
<1> HIDE DEF CountsDiffer, Walking, Left, Right, RecordHole, RecordNames
<1> QED BY <1>5, <1>6, <1>7, <1>8, <1>9, PairInv

LEMMA DescendInv == DiffInv /\ Descend => DiffInv'
<1> SUFFICES ASSUME DiffInv, Descend PROVE DiffInv'
  OBVIOUS
<1> USE DEF Descend, Walking, Left, Right, RecordNames
<1>1. PICK p, u, h, b, s : p = Head(todo) /\ u = todo' /\ h = holes' /\ b = bindings' /\ s = loose'
  OBVIOUS
<1>2. SameKind(p) /\ SameShape(p) BY <1>1 DEF SameKind, SameShape
<1>3. h = holes /\ s = loose /\ b = NamesRecorded(p)
  BY <1>1 DEF NamesRecorded, NameAdded
<1>4. u = Zip(Kids(p[1]), Kids(p[2])) \o Tail(todo) BY <1>1
<1>5. u = (IF SameShape(p) THEN Zip(Kids(p[1]), Kids(p[2])) ELSE <<>>) \o Tail(todo)
  BY <1>2, <1>4
<1>6. diffPhase = "walk" /\ todo # <<>> /\ t' = t /\ diffPhase' = "walk" OBVIOUS
<1>7. b = IF SameKind(p) THEN NamesRecorded(p) ELSE bindings BY <1>2, <1>3
<1>8. /\ SameShape(p) => h = holes /\ s = loose
      /\ ~SameShape(p) => h = Append(holes, <<p[1], p[2]>>) /\ s = NamesMerged(loose, p[1], p[2])
  BY <1>2, <1>3
<1>9. todo' = u /\ holes' = h /\ bindings' = b /\ loose' = s /\ p = Head(todo) BY <1>1
<1> HIDE DEF Descend, Walking, Left, Right, RecordNames
<1> QED BY <1>5, <1>6, <1>7, <1>8, <1>9, PairInv

\* render_toml writes each pair recorded, once.
LEMMA WriteInv == DiffInv /\ Write => DiffInv'
<1> SUFFICES ASSUME DiffInv, Write PROVE DiffInv'
  OBVIOUS
<1>1. t \in Corpora /\ Named(Canonical) # {} /\ Named(Sibling) # {} /\ Walked BY DEF Write, DiffInv
<1>2. PICK u, h, b, s : u = todo /\ h = holes /\ b = bindings' /\ s = loose OBVIOUS
<1>3. t' = t /\ todo' = u /\ holes' = h /\ bindings' = b /\ loose' = s /\ u = <<>>
      /\ diffPhase' = "written" /\ b = [col \in Columns |-> Dedup(bindings[col])]
  BY <1>2 DEF Write
<1>4. u \in Seq(Both) /\ h \in Seq(Both) /\ bindings \in [Columns -> Seq(NamePairs)]
      /\ s \in [Columns -> NameListing]
  BY <1>2, Typed DEF DiffInv
<1>5. ASSUME NEW col \in Columns
      PROVE  b[col] \in Seq(NamePairs) /\ IsInjective(b[col]) /\ Range(b[col]) = Range(bindings[col])
  <2>1. PICK pairs : pairs = bindings[col] OBVIOUS
  <2>2. pairs \in Seq(NamePairs) BY <1>4, <2>1
  <2>3. <<>> \in Seq(NamePairs) /\ IsInjective(<<>>) /\ Range(<<>>) = {} BY DEF IsInjective, Range
  <2>4. /\ MergeUnique(<<>>, pairs) \in Seq(NamePairs) /\ IsInjective(MergeUnique(<<>>, pairs))
        /\ Range(MergeUnique(<<>>, pairs)) = Range(<<>>) \cup Range(pairs)
    BY <2>2, <2>3, Merged
  <2>5. b[col] = MergeUnique(<<>>, pairs) BY <1>3, <2>1 DEF Dedup
  <2> QED BY <2>1, <2>3, <2>4, <2>5
<1>6. b \in [Columns -> Seq(NamePairs)]
  <2>1. b = [col \in Columns |-> b[col]] BY <1>3
  <2> QED BY <1>5, <2>1
<1>7. PICK V \in SUBSET Aligned : Explored(V, todo) /\ Reported(V, holes, bindings)
  BY <1>1 DEF Walked
<1>8. Explored(V, u) /\ Reported(V, h, b) BY <1>2, <1>5, <1>7 DEF Reported
<1>9. Walked' BY <1>3, <1>8, WalkedNext
<1>10. LooseNamesComplete'
  <2>1. ListedBelow(h, s) BY <1>2, ListedNow DEF DiffInv
  <2> QED BY <1>3, <2>1, ListedNext
<1>11. DiffTypeOK' BY <1>3, <1>4, <1>6, TypedNext
<1>12. (Named(Canonical) # {} /\ Named(Sibling) # {})' BY <1>1, <1>3, TensorStays
<1>13. \A col \in Columns : IsInjective(b[col]) BY <1>5
<1> QED BY <1>1, <1>3, <1>9, <1>10, <1>11, <1>12, <1>13 DEF DiffInv

LEMMA DiffStutter == DiffInv /\ UNCHANGED diffVars => DiffInv'
<1> SUFFICES ASSUME DiffInv, UNCHANGED diffVars PROVE DiffInv'
  OBVIOUS
<1>1. PICK u, h, b, s : u = todo /\ h = holes /\ b = bindings /\ s = loose OBVIOUS
<1>2. t' = t /\ todo' = u /\ holes' = h /\ bindings' = b /\ loose' = s /\ diffPhase' = diffPhase
  BY <1>1 DEF diffVars, report
<1>3. DiffTypeOK' BY <1>1, <1>2, Typed, TypedNext DEF DiffInv
<1>4. Walked => Walked'
  <2> SUFFICES ASSUME Walked PROVE Walked'
    OBVIOUS
  <2>1. PICK V \in SUBSET Aligned : Explored(V, u) /\ Reported(V, h, b) BY <1>1 DEF Walked
  <2> QED BY <1>2, <2>1, WalkedNext
<1>5. LooseNamesComplete'
  <2>1. ListedBelow(h, s) BY <1>1, ListedNow DEF DiffInv
  <2> QED BY <1>2, <2>1, ListedNext
<1>6. Named(Canonical)' = Named(Canonical) /\ Named(Sibling)' = Named(Sibling) BY <1>2, TensorStays
<1> QED BY <1>1, <1>2, <1>3, <1>4, <1>5, <1>6 DEF DiffInv

\* At the end of the walk the pairs compared are all that correspond.
LEMMA ExactAtTheEnd == DiffInv => ReportIsExact
<1> SUFFICES ASSUME DiffInv, diffPhase = "written" PROVE ReportIsExact
  BY DEF ReportIsExact
<1>1. Tree /\ Named(Canonical) # {} /\ Named(Sibling) # {} /\ Walked /\ todo = <<>>
      /\ \A col \in Columns : IsInjective(bindings[col])
  BY CorporaAreTrees DEF DiffInv
<1>2. PICK V \in SUBSET Aligned : Explored(V, todo) /\ Reported(V, holes, bindings)
  BY <1>1 DEF Walked
<1>3. Range(todo) = {}
  <2>1. Range(<<>>) = {} BY DEF Range
  <2> QED BY <1>1, <2>1
<1>4. Roots \in V /\ ClosedBelow(V) BY <1>2, <1>3 DEF Explored, ClosedBelow
<1>5. V = Aligned BY <1>1, <1>2, <1>4, AlignedAre
<1>6. \A col \in Columns : Range(bindings[col]) = NamesBound(Aligned, col) BY <1>2, <1>5 DEF Reported
<1>7. Range(holes) = {p \in Aligned : ~SameShape(p)} /\ IsInjective(holes) BY <1>2, <1>5 DEF Reported
<1>8. \A col : NamesBound(Aligned, col) = {NameOf(col, p) : p \in
              {q \in Aligned : SameKind(q) /\ "" \notin Range(NameOf(col, q))
                                /\ NameOf(col, q)[1] # NameOf(col, q)[2]}}
  BY DEF NamesBound, Differ
<1> QED BY <1>1, <1>6, <1>7, <1>8 DEF ReportIsExact
-----------------------------------------------------------------------------
(* The two tools.                                                            *)

LEMMA WrittenPairs ==
  ASSUME NEW S, NEW pairs \in Seq(S), NEW Of
  PROVE  /\ DOMAIN ReadPairs(Of, pairs) = 1..Len(pairs)
         /\ Len(ReadPairs(Of, pairs)) = Len(pairs) /\ Len(pairs) \in Nat
<1>1. DOMAIN pairs = 1..Len(pairs) /\ Len(pairs) \in Nat OBVIOUS
<1>2. ReadPairs(Of, pairs) = [i \in 1..Len(pairs) |-> <<Of[pairs[i][1]], Of[pairs[i][2]]>>]
  BY <1>1 DEF ReadPairs
<1> QED BY <1>1, <1>2

LEMMA OverridesWellFormed ==
  ASSUME NEW ov \in Overrides
  PROVE  \A table \in {ov.pairs, ov.typePairs, ov.extra} :
           Len(table) \in Nat /\ DOMAIN table = 1..Len(table)
BY OverridesAssumption

\* Before the policy has read anything.
LEMMA NothingDone ==
  ASSUME WellFormed, bindPhase = "parse", at = <<1, 1>>, out = <<>>
  PROVE  IInv
<1>1. Graph(out) = {} BY DEF Graph
<1>2. Loops BY DEF Loops, WellFormed
<1> QED BY <1>1, <1>2 DEF IInv, TableIsExact, FailsOnlyWhenAmbiguous

LEMMA TablesAre ==
  ASSUME \A table \in {c.idents, c.types, o.pairs, o.typePairs, o.extra} :
           Len(table) \in Nat /\ DOMAIN table = 1..Len(table)
  PROVE  WellFormed
<1>1. \A n \in 1..5 : Tables[n] \in {c.idents, c.types, o.pairs, o.typePairs, o.extra}
  BY DEF Tables
<1> QED BY <1>1 DEF WellFormed

LEMMA PipeInit == Init => PipeInv
<1> SUFFICES ASSUME Init PROVE PipeInv
  OBVIOUS
<1>1. DiffInv /\ diffPhase = "find"
  BY DiffInitInv DEF Init, InitQueue, InitByHand, DiffInit
<1>2. CASE InitQueue
  <2>1. o \in Overrides /\ c = NotRead BY <1>2 DEF InitQueue
  <2>2. Len(<<>>) \in Nat /\ DOMAIN <<>> = 1..Len(<<>>) OBVIOUS
  <2>3. c.idents = <<>> /\ c.types = <<>> BY <2>1 DEF NotRead
  <2>4. \A table \in {c.idents, c.types, o.pairs, o.typePairs, o.extra} :
           Len(table) \in Nat /\ DOMAIN table = 1..Len(table)
    BY <2>1, <2>2, <2>3, OverridesWellFormed
  <2>5. IInv
    <3>1. bindPhase = "parse" /\ at = <<1, 1>> /\ out = <<>> BY <1>2 DEF InitQueue
    <3>2. WellFormed BY <2>4, TablesAre
    <3> QED BY <3>1, <3>2, NothingDone
  <2> QED BY <1>1, <1>2, <2>1, <2>5 DEF InitQueue, PipeInv
<1>3. CASE InitByHand
  BY <1>1, <1>3, InitInv DEF InitByHand, PipeInv
<1> QED BY <1>2, <1>3 DEF Init

\* The steps of the diff leave the policy's state alone, and the other way around.
LEMMA PolicyAlone == IInv /\ UNCHANGED policyVars => IInv'
BY NextInv

LEMMA DiffStep == PipeInv /\ Diff => PipeInv'
<1> SUFFICES ASSUME PipeInv, Diff PROVE PipeInv'
  OBVIOUS
<1>1. step = "diff" /\ step' = step /\ UNCHANGED policyVars BY DEF Diff
<1>2. DiffInv'
  BY FindInv, KindsDifferInv, CountsDifferInv, DescendInv, WriteInv DEF Diff, PipeInv
<1>3. IInv' BY <1>1, PolicyAlone DEF PipeInv
<1>4. c' = c /\ o' = o /\ bindPhase' = bindPhase /\ at' = at /\ out' = out BY <1>1 DEF policyVars
<1>5. NotRead' = NotRead BY DEF NotRead, NoNames
<1> QED BY <1>1, <1>2, <1>3, <1>4, <1>5 DEF PipeInv

LEMMA HandOverStep == PipeInv /\ HandOver => PipeInv'
<1> SUFFICES ASSUME PipeInv, HandOver PROVE PipeInv'
  OBVIOUS
<1>1. /\ step = "diff" /\ diffPhase = "written" /\ step' = "bind"
      /\ UNCHANGED diffVars /\ o' = o /\ bindPhase' = bindPhase /\ at' = at /\ out' = out
  BY DEF HandOver
<1>2. c' = Read BY DEF HandOver, Read
<1>3. DiffInv' BY <1>1, DiffStutter DEF PipeInv
<1>4. diffPhase' = diffPhase /\ bindings' = bindings /\ loose' = loose
  BY <1>1 DEF diffVars, report
<1>5. Read' = Read BY <1>4 DEF Read, ReadPairs, ReadNames, ReadListing
<1>6. o \in Overrides /\ bindPhase = "parse" /\ at = <<1, 1>> /\ out = <<>>
  BY <1>1 DEF PipeInv
<1>7. WellFormed'
  <2>1. bindings \in [Columns -> Seq(NamePairs)] BY Typed DEF PipeInv, DiffInv
  <2>2. bindings["ident"] \in Seq(NamePairs) /\ bindings["type"] \in Seq(NamePairs)
    BY <2>1 DEF Columns
  <2>3. PICK a, b : a = ReadPairs(IdentOf, bindings["ident"]) /\ b = ReadPairs(TypeOf, bindings["type"])
    OBVIOUS
  <2>4. Len(a) \in Nat /\ DOMAIN a = 1..Len(a) /\ Len(b) \in Nat /\ DOMAIN b = 1..Len(b)
    BY <2>2, <2>3, WrittenPairs
  <2>5. (c.idents)' = a /\ (c.types)' = b BY <1>2, <2>3 DEF Read
  <2>6. \A table \in {a, b, o.pairs, o.typePairs, o.extra} :
           Len(table) \in Nat /\ DOMAIN table = 1..Len(table)
    BY <1>6, <2>4, OverridesWellFormed
  <2>7. Tables' = <<a, b, o.pairs, o.typePairs, o.extra>> BY <1>1, <2>5 DEF Tables
  <2>8. \A n \in 1..5 : Tables'[n] \in {a, b, o.pairs, o.typePairs, o.extra} BY <2>7
  <2> QED BY <2>6, <2>8 DEF WellFormed
<1>8. IInv'
  <2>1. bindPhase' = "parse" /\ at' = <<1, 1>> /\ out' = <<>> BY <1>1, <1>6
  <2>2. Graph(out)' = {} BY <2>1 DEF Graph
  <2>3. Loops' BY <1>7, <2>1 DEF Loops, WellFormed
  <2> QED BY <1>7, <2>1, <2>2, <2>3 DEF IInv, TableIsExact, FailsOnlyWhenAmbiguous
<1> QED BY <1>1, <1>2, <1>3, <1>4, <1>5, <1>6, <1>8 DEF PipeInv

LEMMA PolicyStep == PipeInv /\ Policy => PipeInv'
<1> SUFFICES ASSUME PipeInv, Policy PROVE PipeInv'
  OBVIOUS
<1>1. step = "bind" /\ step' = step /\ UNCHANGED diffVars BY DEF Policy
<1>2. PolicyNext BY DEF Policy, PolicyNext
<1>3. IInv' BY <1>2, NextInv DEF PipeInv
<1>4. c' = c /\ o' = o BY <1>2, InputsStay
<1>5. DiffInv' BY <1>1, DiffStutter DEF PipeInv
<1>6. diffPhase' = diffPhase /\ bindings' = bindings /\ loose' = loose
  BY <1>1 DEF diffVars, report
<1>7. Read' = Read BY <1>6 DEF Read, ReadPairs, ReadNames, ReadListing
<1> QED BY <1>1, <1>3, <1>4, <1>5, <1>6, <1>7 DEF PipeInv

\* DiffFailed, PolicyEnds, Ended, and steps of nothing.
LEMMA OtherStep == PipeInv /\ (DiffFailed \/ PolicyEnds \/ UNCHANGED vars) => PipeInv'
<1> SUFFICES ASSUME PipeInv, DiffFailed \/ PolicyEnds \/ UNCHANGED vars PROVE PipeInv'
  OBVIOUS
<1>1. UNCHANGED diffVars /\ UNCHANGED policyVars BY DEF DiffFailed, PolicyEnds, vars
<1>2. IInv' BY <1>1, PolicyAlone DEF PipeInv
<1>3. DiffInv' BY <1>1, DiffStutter DEF PipeInv
<1>4. diffPhase' = diffPhase /\ bindings' = bindings /\ loose' = loose
  BY <1>1 DEF diffVars, report
<1>5. Read' = Read BY <1>4 DEF Read, ReadPairs, ReadNames, ReadListing
<1>6. c' = c /\ o' = o /\ bindPhase' = bindPhase /\ at' = at /\ out' = out BY <1>1 DEF policyVars
<1>7. CASE UNCHANGED vars
  <2>1. step' = step BY <1>7 DEF vars
  <2>2. NotRead' = NotRead BY DEF NotRead, NoNames
  <2> QED BY <1>2, <1>3, <1>4, <1>5, <1>6, <2>1, <2>2 DEF PipeInv
<1>8. CASE DiffFailed
  BY <1>2, <1>3, <1>4, <1>5, <1>6, <1>8 DEF PipeInv, DiffFailed
<1>9. CASE PolicyEnds
  BY <1>2, <1>3, <1>4, <1>5, <1>6, <1>9 DEF PipeInv, PolicyEnds
<1> QED BY <1>7, <1>8, <1>9

LEMMA PipeInvariant == Spec => []PipeInv
<1>1. PipeInv /\ [Next]_vars => PipeInv'
  BY DiffStep, HandOverStep, PolicyStep, OtherStep DEF Next, Ended
<1> QED BY <1>1, PipeInit, PTL DEF Spec
-----------------------------------------------------------------------------
\* The report of the diff is exact: diff_subtrees pairs the nodes that correspond and
\* no others, whatever the two functions look like.
THEOREM ReportExact == Spec => []ReportIsExact
<1>1. PipeInv => ReportIsExact BY ExactAtTheEnd DEF PipeInv
<1> QED BY <1>1, PipeInvariant, PTL

\* Every name below a hole is listed once, and no other (collect_subtree_leaves).
THEOREM LooseComplete == Spec => []LooseNamesComplete
<1>1. PipeInv => LooseNamesComplete BY DEF PipeInv, DiffInv
<1> QED BY <1>1, PipeInvariant, PTL

\* The types of the two tools' state, in every run of one after the other.
THEOREM PipelineTyping == Spec => []TypeOK
<1>1. PipeInv => TypeOK
  BY PolicyTyped DEF PipeInv, DiffInv, TypeOK
<1> QED BY <1>1, PipeInvariant, PTL

\* In the queue too the table holds the renames its inputs ask for, and the tool fails
\* on the ambiguous ones only.
THEOREM PipelineExact == Spec => [](TableIsExact /\ FailsOnlyWhenAmbiguous)
<1>1. PipeInv => TableIsExact /\ FailsOnlyWhenAmbiguous
  BY DEF PipeInv, IInv
<1> QED BY <1>1, PipeInvariant, PTL
-----------------------------------------------------------------------------
(* From one end to the other.                                                *)

LEMMA NameInColumn ==
  ASSUME Tree, t \in Corpora, NEW col \in Columns, NEW n \in Nodes
  PROVE  Name(col, n) \in Range(t.name[col])
<1>1. t.name[col] \in Seq(STRING) /\ Len(t.name[col]) = Len(t.kind)
  BY DEF Tree, IsTensor, Corpus
<1>2. n \in DOMAIN t.name[col] BY <1>1, Rows
<1> QED BY <1>2 DEF Name, Range

LEMMA NamesRead ==
  ASSUME Tree, t \in Corpora, NEW n \in Nodes
  PROVE  /\ Name("ident", n) # "" => Name("ident", n) \in DOMAIN IdentOf
         /\ Name("type", n) # "" => Name("type", n) \in DOMAIN TypeOf
<1>1. Name("ident", n) \in Range(t.name["ident"]) /\ Name("type", n) \in Range(t.name["type"])
  BY NameInColumn DEF Columns
<1>2. /\ Range(t.name["ident"]) \ {""} \subseteq DOMAIN IdentOf
      /\ Range(t.name["type"]) \ {""} \subseteq DOMAIN TypeOf
  BY ReadingAssumption
<1> QED BY <1>1, <1>2

LEMMA DifferingIs ==
  ASSUME Tree, Aligned \subseteq Both, NEW col \in Columns
  PROVE  \A p : p \in Differing(col) <=> p \in NamesBound(Aligned, col)
<1>1. \A q \in Aligned : \E x, y \in Names : NameOf(col, q) = <<x, y>> /\ Range(NameOf(col, q)) = {x, y}
  <2> SUFFICES ASSUME NEW q \in Aligned
               PROVE  \E x, y \in Names : NameOf(col, q) = <<x, y>> /\ Range(NameOf(col, q)) = {x, y}
    OBVIOUS
  <2>1. PICK x, y : x = Name(col, q[1]) /\ y = Name(col, q[2]) OBVIOUS
  <2>2. q[1] \in Nodes /\ q[2] \in Nodes BY DEF Both
  <2>3. x \in Names /\ y \in Names BY <2>1, <2>2, OwnName
  <2>4. NameOf(col, q) = <<x, y>> BY <2>1 DEF NameOf
  <2>5. Range(NameOf(col, q)) = {x, y} BY <2>4, RangeOfPair
  <2> QED BY <2>3, <2>4, <2>5
<1>2. ASSUME NEW q \in Aligned
      PROVE  NameOf(col, q) \in {<<a, a>> : a \in Names} \cup {p \in Names \X Names : "" \in Range(p)}
               <=> "" \in Range(NameOf(col, q)) \/ NameOf(col, q)[1] = NameOf(col, q)[2]
  <2>1. PICK x \in Names, y \in Names : NameOf(col, q) = <<x, y>> /\ Range(NameOf(col, q)) = {x, y}
    BY <1>1
  <2>2. PICK z : z = NameOf(col, q) OBVIOUS
  <2>3. z = <<x, y>> /\ z[1] = x /\ z[2] = y /\ z \in Names \X Names BY <2>1, <2>2
  <2>4. z \in {<<a, a>> : a \in Names} <=> x = y BY <2>3
  <2>5. z \in {p \in Names \X Names : "" \in Range(p)} <=> "" \in Range(z) BY <2>3
  <2> QED BY <2>2, <2>3, <2>4, <2>5
<1>3. ASSUME NEW p PROVE p \in NamesBound(Aligned, col) <=>
        \E q \in Aligned : p = NameOf(col, q) /\ SameKind(q)
           /\ ~("" \in Range(NameOf(col, q)) \/ NameOf(col, q)[1] = NameOf(col, q)[2])
  BY DEF NamesBound, Differ
<1> DEFINE X == {<<a, a>> : a \in Names} \cup {p \in Names \X Names : "" \in Range(p)}
<1>4. ASSUME NEW p PROVE p \in Differing(col) <=>
        p \notin X /\ \E q \in Aligned : p = NameOf(col, q) /\ SameKind(q)
  BY DEF Differing
<1>5. \A q \in Aligned : NameOf(col, q) \in X <=> "" \in Range(NameOf(col, q)) \/ NameOf(col, q)[1] = NameOf(col, q)[2]
  BY <1>2
<1> HIDE DEF X
<1> QED BY <1>3, <1>4, <1>5

\* What an array of pairs, and one of names, holds after it was written and read.
LEMMA PairsRead ==
  ASSUME NEW S, NEW pairs \in Seq(S), NEW Of
  PROVE  Range(ReadPairs(Of, pairs)) = {<<Of[p[1]], Of[p[2]]>> : p \in Range(pairs)}
BY DEF ReadPairs, Range

LEMMA ListingRead ==
  ASSUME NEW list, NEW Of
  PROVE  Range(ReadNames(Of, list)) = {Of[x] : x \in Range(list)}
BY DEF ReadNames, Range

\* What the tables ask for, table by table.
LEMMA ByTable ==
  ASSUME WellFormed, NEW r
  PROVE  r \in Renames <=>
           \E n \in 1..5 : \E p \in Range(Tables[n]) : Used(n, p) /\ r = Rename(n, p)
<1>1. r \in Renames <=>
        \E q \in Places : Used(q[1], Pair(q[1], q[2])) /\ r = Rename(q[1], Pair(q[1], q[2]))
  BY InRenamesAt DEF Renames
<1>2. ASSUME NEW q \in Places, Used(q[1], Pair(q[1], q[2])), r = Rename(q[1], Pair(q[1], q[2]))
      PROVE  \E n \in 1..5 : \E p \in Range(Tables[n]) : Used(n, p) /\ r = Rename(n, p)
  <2>1. PICK n, i : n = q[1] /\ i = q[2] OBVIOUS
  <2>2. n \in 1..5 /\ i \in 1..Len(Tables[n]) BY <2>1, PlacesArePairs
  <2>3. i \in DOMAIN Tables[n] BY <2>2 DEF WellFormed
  <2>4. Pair(n, i) \in Range(Tables[n]) BY <2>3 DEF Pair, Range
  <2> QED BY <1>2, <2>1, <2>2, <2>4
<1>3. ASSUME NEW n \in 1..5, NEW p \in Range(Tables[n]), Used(n, p), r = Rename(n, p)
      PROVE  \E q \in Places : Used(q[1], Pair(q[1], q[2])) /\ r = Rename(q[1], Pair(q[1], q[2]))
  <2>1. PICK i \in DOMAIN Tables[n] : p = Tables[n][i] BY DEF Range
  <2>2. i \in 1..Len(Tables[n]) BY <2>1 DEF WellFormed
  <2>3. PICK q : q = <<n, i>> OBVIOUS
  <2>4. q \in Places /\ q[1] = n /\ q[2] = i BY <2>2, <2>3, InPlaces
  <2>5. Pair(q[1], q[2]) = p BY <2>1, <2>4 DEF Pair
  <2> QED BY <1>3, <2>4, <2>5
<1> QED BY <1>1, <1>2, <1>3

LEMMA EndFacts ==
  ASSUME PipeInv, FromDiff
  PROVE  /\ Tree /\ t \in Corpora /\ o \in Overrides /\ WellFormed
         /\ c = Read /\ Aligned \subseteq Both
         /\ bindings["ident"] \in Seq(NamePairs) /\ bindings["type"] \in Seq(NamePairs)
         /\ IsInjective(bindings["ident"]) /\ IsInjective(bindings["type"])
         /\ Range(bindings["ident"]) = Differing("ident")
         /\ Range(bindings["type"]) = Differing("type")
<1>1. DiffInv /\ diffPhase = "written" /\ step = "end" BY DEF PipeInv, FromDiff
<1>2. Tree /\ t \in Corpora BY <1>1, CorporaAreTrees DEF DiffInv
<1>3. o \in Overrides /\ WellFormed /\ c = Read BY <1>1 DEF PipeInv, IInv
<1>4. Named(Canonical) # {} /\ Named(Sibling) # {} BY <1>1 DEF DiffInv
<1>5. Aligned \subseteq Both BY <1>2, <1>4, AlignedAre
<1>6. bindings \in [Columns -> Seq(NamePairs)] BY <1>1, Typed DEF DiffInv
<1>7. ReportIsExact BY <1>1, ExactAtTheEnd
<1>8. ASSUME NEW col \in Columns
      PROVE  /\ bindings[col] \in Seq(NamePairs) /\ IsInjective(bindings[col])
             /\ Range(bindings[col]) = Differing(col)
  <2>1. Range(bindings[col]) = {NameOf(col, p) : p \in
              {q \in Aligned : SameKind(q) /\ "" \notin Range(NameOf(col, q))
                                /\ NameOf(col, q)[1] # NameOf(col, q)[2]}}
        /\ IsInjective(bindings[col])
    BY <1>1, <1>7 DEF ReportIsExact
  <2>2. Range(bindings[col]) = NamesBound(Aligned, col) BY <2>1 DEF NamesBound, Differ
  <2>3. Range(bindings[col]) = Differing(col) BY <1>2, <1>5, <2>2, DifferingIs
  <2> QED BY <1>6, <2>1, <2>3
<1>9. "ident" \in Columns /\ "type" \in Columns BY DEF Columns
<1> QED BY <1>2, <1>3, <1>5, <1>8, <1>9

BornBelow(Of, col, side, x) == \E n \in InHole(side) : Name(col, n) # "" /\ Of[Name(col, n)] = x

LEMMA NamedBelow ==
  ASSUME LooseNamesComplete, NEW col \in Columns, NEW Of, NEW x
  PROVE  /\ x \in Range(ReadNames(Of, loose[col].canonical)) <=> BornBelow(Of, col, 1, x)
         /\ x \in Range(ReadNames(Of, loose[col].sibling)) <=> BornBelow(Of, col, 2, x)
<1>1. /\ Range(loose[col].canonical) = {Name(col, n) : n \in InHole(1)} \ {""}
      /\ Range(loose[col].sibling) = {Name(col, n) : n \in InHole(2)} \ {""}
  BY DEF LooseNamesComplete
<1>2. Range(ReadNames(Of, loose[col].canonical)) = {Of[y] : y \in Range(loose[col].canonical)}
  BY ListingRead
<1>3. Range(ReadNames(Of, loose[col].sibling)) = {Of[y] : y \in Range(loose[col].sibling)}
  BY ListingRead
<1>4. x \in Range(ReadNames(Of, loose[col].canonical)) <=>
              \E n \in InHole(1) : Name(col, n) # "" /\ Of[Name(col, n)] = x
  <2>1. \A y : y \in Range(loose[col].canonical) <=> y # "" /\ \E n \in InHole(1) : y = Name(col, n)
    BY <1>1
  <2> QED BY <1>2, <2>1
<1>5. x \in Range(ReadNames(Of, loose[col].sibling)) <=>
              \E n \in InHole(2) : Name(col, n) # "" /\ Of[Name(col, n)] = x
  <2>1. \A y : y \in Range(loose[col].sibling) <=> y # "" /\ \E n \in InHole(2) : y = Name(col, n)
    BY <1>1
  <2> QED BY <1>3, <2>1
<1> QED BY <1>4, <1>5 DEF BornBelow

\* A pair of the overrides is used when both its names are listed below the holes.
LEMMA ListedIs ==
  ASSUME LooseNamesComplete, NEW col \in Columns, NEW Of, NEW pairs, NEW p \in Range(pairs)
  PROVE  Listed(ReadListing(Of, loose[col]), p) <=> p \in Occurring(Of, col, pairs)
<1>1. Listed(ReadListing(Of, loose[col]), p) <=>
        /\ p[1] \in Range(ReadNames(Of, loose[col].canonical))
        /\ p[2] \in Range(ReadNames(Of, loose[col].sibling))
  BY DEF Listed, ReadListing
<1>2. p \in Occurring(Of, col, pairs) <=>
        BornBelow(Of, col, 1, p[1]) /\ BornBelow(Of, col, 2, p[2])
  <2>1. p \in Occurring(Of, col, pairs) <=> \A side \in 1..2 : BornBelow(Of, col, side, p[side])
    BY DEF Occurring, BornBelow
  <2>2. 1..2 = {1, 2} OBVIOUS
  <2> QED BY <2>1, <2>2
<1> QED BY <1>1, <1>2, NamedBelow

\* What the policy is asked for at the end is what is said of the functions and the
\* overrides alone.
LEMMA RenamesAreRenamed ==
  ASSUME PipeInv, FromDiff
  PROVE  \A r : r \in Renames <=> r \in Renamed
<1>1. /\ Tree /\ t \in Corpora /\ o \in Overrides /\ WellFormed /\ c = Read
      /\ bindings["ident"] \in Seq(NamePairs) /\ bindings["type"] \in Seq(NamePairs)
      /\ Range(bindings["ident"]) = Differing("ident") /\ Range(bindings["type"]) = Differing("type")
  BY EndFacts
<1>2. LooseNamesComplete /\ "ident" \in Columns /\ "type" \in Columns
  BY DEF PipeInv, DiffInv, Columns
<1>3. /\ c.idents = ReadPairs(IdentOf, bindings["ident"]) /\ c.types = ReadPairs(TypeOf, bindings["type"])
      /\ c.looseIdents = ReadListing(IdentOf, loose["ident"])
      /\ c.looseTypes = ReadListing(TypeOf, loose["type"])
  BY <1>1 DEF Read
<1>4. Range(c.idents) = Wanted(IdentOf, "ident") /\ Range(c.types) = Wanted(TypeOf, "type")
  BY <1>1, <1>3, PairsRead DEF Wanted
<1>5. /\ Tables[1] = c.idents /\ Tables[2] = c.types /\ Tables[3] = o.pairs
      /\ Tables[4] = o.typePairs /\ Tables[5] = o.extra
  BY DEF Tables
<1>6. \A p : /\ Used(1, p) /\ Used(5, p)
             /\ Used(2, p) <=> NoFunction(p) /\ HasBases(p)
             /\ Used(3, p) <=> Listed(c.looseIdents, p)
             /\ Used(4, p) <=> Listed(c.looseTypes, p) /\ HasBases(p)
  BY DEF Used
<1>7. \A p : /\ Rename(1, p) = <<RustIdent(p[1]), RustIdent(p[2])>>
             /\ Rename(3, p) = <<RustIdent(p[1]), RustIdent(p[2])>>
             /\ Rename(2, p) = <<TypeToRust(p[1].base), TypeToRust(p[2].base)>>
             /\ Rename(4, p) = <<TypeToRust(p[1].base), TypeToRust(p[2].base)>>
             /\ Rename(5, p) = <<p[1], p[2]>>
  BY DEF Rename
<1>8. \A p \in Range(o.pairs) : Listed(c.looseIdents, p) <=> p \in Occurring(IdentOf, "ident", o.pairs)
  BY <1>2, <1>3, ListedIs
<1>9. \A p \in Range(o.typePairs) : Listed(c.looseTypes, p) <=> p \in Occurring(TypeOf, "type", o.typePairs)
  BY <1>2, <1>3, ListedIs
<1>10. Occurring(IdentOf, "ident", o.pairs) \subseteq Range(o.pairs)
       /\ Occurring(TypeOf, "type", o.typePairs) \subseteq Range(o.typePairs)
  BY DEF Occurring
<1>11. \A p \in Range(o.extra) : p = <<p[1], p[2]>>
  <2>1. o.extra \in Seq((STRING \X STRING) \X (STRING \X STRING)) BY <1>1, OverridesAssumption
  <2>2. Range(o.extra) \subseteq (STRING \X STRING) \X (STRING \X STRING) BY <2>1 DEF Range
  <2> QED BY <2>2
<1> SUFFICES ASSUME NEW r PROVE r \in Renames <=> r \in Renamed
  OBVIOUS
<1> DEFINE Asked(n) == \E p \in Range(Tables[n]) : Used(n, p) /\ r = Rename(n, p)
<1>12. r \in Renames <=> Asked(1) \/ Asked(2) \/ Asked(3) \/ Asked(4) \/ Asked(5)
  <2>1. 1..5 = {1, 2, 3, 4, 5} OBVIOUS
  <2>2. r \in Renames <=> \E n \in 1..5 : Asked(n) BY <1>1, ByTable
  <2> HIDE DEF Asked
  <2> QED BY <2>1, <2>2
<1>13. Asked(1) \/ Asked(3) <=> r \in RenamedIdents
  <2>1. Asked(1) <=> \E p \in Wanted(IdentOf, "ident") : r = <<RustIdent(p[1]), RustIdent(p[2])>>
    BY <1>4, <1>5, <1>6, <1>7
  <2>2. Asked(3) <=> \E p \in Occurring(IdentOf, "ident", o.pairs) : r = <<RustIdent(p[1]), RustIdent(p[2])>>
    BY <1>5, <1>6, <1>7, <1>8, <1>10
  <2> QED BY <2>1, <2>2 DEF RenamedIdents
<1>14. Asked(2) \/ Asked(4) <=> r \in RenamedTypes
  <2>1. Asked(2) <=> \E p \in Wanted(TypeOf, "type") : NoFunction(p) /\ HasBases(p)
                        /\ r = <<TypeToRust(p[1].base), TypeToRust(p[2].base)>>
    BY <1>4, <1>5, <1>6, <1>7
  <2>2. Asked(4) <=> \E p \in Occurring(TypeOf, "type", o.typePairs) : HasBases(p)
                        /\ r = <<TypeToRust(p[1].base), TypeToRust(p[2].base)>>
    BY <1>5, <1>6, <1>7, <1>9, <1>10
  <2>3. r \in RenamedTypes <=>
          \/ \E p \in Wanted(TypeOf, "type") : NoFunction(p) /\ HasBases(p)
                        /\ r = <<TypeToRust(p[1].base), TypeToRust(p[2].base)>>
          \/ \E p \in Occurring(TypeOf, "type", o.typePairs) : HasBases(p)
                        /\ r = <<TypeToRust(p[1].base), TypeToRust(p[2].base)>>
    BY DEF RenamedTypes
  <2> QED BY <2>1, <2>2, <2>3
<1>15. Asked(5) <=> r \in Range(o.extra)
  BY <1>5, <1>6, <1>7, <1>11
<1> HIDE DEF Asked
<1> QED BY <1>12, <1>13, <1>14, <1>15 DEF Renamed

\* The keys of a table of the C bindings are apart when the differences are unambiguous.
LEMMA KeysApart ==
  ASSUME NEW pairs \in Seq(NamePairs), IsInjective(pairs), NEW Of, IsInjective(Of),
         \A p \in Range(pairs) : p[1] \in DOMAIN Of,
         NEW read, read = ReadPairs(Of, pairs)
  PROVE  IsInjective([i \in DOMAIN read |-> read[i][1]]) <=> Unambiguous(Range(pairs))
<1>1. DOMAIN read = DOMAIN pairs /\ \A i \in DOMAIN pairs : read[i][1] = Of[pairs[i][1]]
  BY DEF ReadPairs
<1>2. \A i \in DOMAIN pairs : pairs[i] \in NamePairs /\ pairs[i] \in Range(pairs)
  <2>1. \A i \in DOMAIN pairs : pairs[i] \in NamePairs OBVIOUS
  <2> QED BY <2>1 DEF Range
<1>3. \A i \in DOMAIN pairs : pairs[i] = <<pairs[i][1], pairs[i][2]>>
  BY <1>2 DEF NamePairs
<1> DEFINE Keys == \A i, j \in DOMAIN pairs : Of[pairs[i][1]] = Of[pairs[j][1]] => i = j
<1>4. IsInjective([i \in DOMAIN read |-> read[i][1]]) <=> Keys
  BY <1>1 DEF IsInjective
<1>5. ASSUME Keys PROVE Unambiguous(Range(pairs))
  <2> SUFFICES ASSUME NEW p \in Range(pairs), NEW q \in Range(pairs), p[1] = q[1] PROVE p[2] = q[2]
    BY DEF Unambiguous
  <2>1. PICK i \in DOMAIN pairs : p = pairs[i] BY DEF Range
  <2>2. PICK j \in DOMAIN pairs : q = pairs[j] BY DEF Range
  <2>3. i = j BY <1>5, <2>1, <2>2
  <2> QED BY <2>1, <2>2, <2>3
<1>6. ASSUME Unambiguous(Range(pairs)) PROVE Keys
  <2> SUFFICES ASSUME NEW i \in DOMAIN pairs, NEW j \in DOMAIN pairs,
                      Of[pairs[i][1]] = Of[pairs[j][1]]
               PROVE  i = j
    OBVIOUS
  <2>1. PICK p, q : p = pairs[i] /\ q = pairs[j] OBVIOUS
  <2>2. p \in Range(pairs) /\ q \in Range(pairs) /\ p[1] \in DOMAIN Of /\ q[1] \in DOMAIN Of
    BY <1>2, <2>1
  <2>3. p[1] = q[1] BY <2>1, <2>2 DEF IsInjective
  <2>4. p[2] = q[2] BY <1>6, <2>2, <2>3 DEF Unambiguous
  <2>5. p = q BY <1>3, <2>1, <2>3, <2>4
  <2> QED BY <2>1, <2>5 DEF IsInjective
<1> HIDE DEF Keys
<1> QED BY <1>4, <1>5, <1>6

LEMMA DifferingRead ==
  ASSUME Tree, t \in Corpora, Aligned \subseteq Both
  PROVE  /\ \A p \in Differing("ident") : p[1] \in DOMAIN IdentOf
         /\ \A p \in Differing("type") : p[1] \in DOMAIN TypeOf
<1>1. ASSUME NEW col \in Columns, NEW p \in Differing(col)
      PROVE  \E n \in Nodes : p[1] = Name(col, n) /\ Name(col, n) # ""
  <2>1. PICK q \in Aligned : p = NameOf(col, q) /\ Differ(col, q) BY DifferingIs DEF NamesBound
  <2>2. PICK x, y : x = Name(col, q[1]) /\ y = Name(col, q[2]) OBVIOUS
  <2>3. p = <<x, y>> BY <2>1, <2>2 DEF NameOf
  <2>4. Range(p) = {x, y} BY <2>3, RangeOfPair
  <2>5. "" \notin Range(p) BY <2>1 DEF Differ
  <2>6. p[1] = x /\ x # "" BY <2>3, <2>4, <2>5
  <2>7. q[1] \in Nodes BY DEF Both
  <2> QED BY <2>2, <2>6, <2>7
<1>2. "ident" \in Columns /\ "type" \in Columns BY DEF Columns
<1> QED BY <1>1, <1>2, NamesRead

LEMMA RepeatedKeyIs ==
  ASSUME PipeInv, FromDiff
  PROVE  ~HasRepeatedKey <=>
           /\ \A col \in Columns : Unambiguous(Differing(col))
           /\ \A table \in {o.pairs, o.typePairs, o.extra} :
                IsInjective([i \in DOMAIN table |-> table[i][1]])
<1>1. /\ Tree /\ t \in Corpora /\ c = Read /\ Aligned \subseteq Both
      /\ bindings["ident"] \in Seq(NamePairs) /\ bindings["type"] \in Seq(NamePairs)
      /\ IsInjective(bindings["ident"]) /\ IsInjective(bindings["type"])
      /\ Range(bindings["ident"]) = Differing("ident") /\ Range(bindings["type"]) = Differing("type")
  BY EndFacts
<1>2. c.idents = ReadPairs(IdentOf, bindings["ident"]) /\ c.types = ReadPairs(TypeOf, bindings["type"])
  BY <1>1 DEF Read
<1>3. IsInjective(IdentOf) /\ IsInjective(TypeOf) BY ReadingAssumption
<1> DEFINE OneKeyEach(table) == IsInjective([i \in DOMAIN table |-> table[i][1]])
<1>4. OneKeyEach(c.idents) <=> Unambiguous(Differing("ident"))
  <2>1. PICK pairs, read : pairs = bindings["ident"] /\ read = c.idents OBVIOUS
  <2>2. pairs \in Seq(NamePairs) /\ IsInjective(pairs) /\ read = ReadPairs(IdentOf, pairs)
        /\ \A p \in Range(pairs) : p[1] \in DOMAIN IdentOf
    BY <1>1, <1>2, <2>1, DifferingRead
  <2>3. IsInjective([i \in DOMAIN read |-> read[i][1]]) <=> Unambiguous(Range(pairs))
    BY <1>3, <2>2, KeysApart
  <2> QED BY <1>1, <2>1, <2>3
<1>5. OneKeyEach(c.types) <=> Unambiguous(Differing("type"))
  <2>1. PICK pairs, read : pairs = bindings["type"] /\ read = c.types OBVIOUS
  <2>2. pairs \in Seq(NamePairs) /\ IsInjective(pairs) /\ read = ReadPairs(TypeOf, pairs)
        /\ \A p \in Range(pairs) : p[1] \in DOMAIN TypeOf
    BY <1>1, <1>2, <2>1, DifferingRead
  <2>3. IsInjective([i \in DOMAIN read |-> read[i][1]]) <=> Unambiguous(Range(pairs))
    BY <1>3, <2>2, KeysApart
  <2> QED BY <1>1, <2>1, <2>3
<1>6. ~HasRepeatedKey <=> \A n \in 1..5 : OneKeyEach(Tables[n])
  BY FiveTables DEF HasRepeatedKey
<1>7. 1..5 = {1, 2, 3, 4, 5} OBVIOUS
<1>8. /\ Tables[1] = c.idents /\ Tables[2] = c.types /\ Tables[3] = o.pairs
      /\ Tables[4] = o.typePairs /\ Tables[5] = o.extra
  BY DEF Tables
<1> HIDE DEF OneKeyEach
<1>9. ~HasRepeatedKey <=> /\ OneKeyEach(c.idents) /\ OneKeyEach(c.types)
                          /\ OneKeyEach(o.pairs) /\ OneKeyEach(o.typePairs) /\ OneKeyEach(o.extra)
  BY <1>6, <1>7, <1>8
<1>10. (\A col \in Columns : Unambiguous(Differing(col))) <=>
         Unambiguous(Differing("ident")) /\ Unambiguous(Differing("type"))
  BY DEF Columns
<1>11. ~HasRepeatedKey <=>
           /\ \A col \in Columns : Unambiguous(Differing(col))
           /\ \A table \in {o.pairs, o.typePairs, o.extra} : OneKeyEach(table)
  BY <1>4, <1>5, <1>9, <1>10
<1> QED BY <1>11 DEF OneKeyEach
-----------------------------------------------------------------------------
\* Whatever the tensor and the overrides: each two names that differ at corresponding
\* positions, and each pair of the overrides the holes bear out, become a rename of the
\* Rust table, and nothing else does (translation_queue.py, run_member, steps 1 and 2).
THEOREM EndToEnd == Spec => []PositionsAreRenamed
<1>1. PipeInv => PositionsAreRenamed
  <2> SUFFICES ASSUME PipeInv, FromDiff, bindPhase = "done"
               PROVE  {<<k, out[k]>> : k \in DOMAIN out} = {r \in Renamed : r[1] # r[2]}
    BY DEF PositionsAreRenamed
  <2>1. {<<k, out[k]>> : k \in DOMAIN out} = {r \in Renames : r[1] # r[2]}
    BY DEF PipeInv, IInv, TableIsExact
  <2>2. Renames = Renamed BY RenamesAreRenamed
  <2> QED BY <2>1, <2>2
<1> QED BY <1>1, PipeInvariant, PTL

\* There is a table unless the positions, the overrides or the policy ask for two names
\* where there can be one (set_binding; tomllib's refusal of a repeated key).
THEOREM FailsEndToEnd == Spec => []FailsOnAmbiguousPositions
<1>1. PipeInv => FailsOnAmbiguousPositions
  <2> SUFFICES ASSUME PipeInv, FromDiff
               PROVE  bindPhase = "done" <=>
                        /\ \A col \in Columns : Unambiguous(Differing(col))
                        /\ \A table \in {o.pairs, o.typePairs, o.extra} :
                             IsInjective([i \in DOMAIN table |-> table[i][1]])
                        /\ Unambiguous(Renamed)
    BY DEF FailsOnAmbiguousPositions
  <2>1. bindPhase \in {"done", "exit"} /\ FailsOnlyWhenAmbiguous
    BY DEF PipeInv, FromDiff, IInv
  <2>2. bindPhase = "done" <=> ~Ambiguous BY <2>1 DEF FailsOnlyWhenAmbiguous
  <2>3. Renames = Renamed BY RenamesAreRenamed
  <2>4. ~Ambiguous <=> ~HasRepeatedKey /\ Unambiguous(Renamed)
    BY <2>3 DEF Ambiguous, Unambiguous
  <2> QED BY <2>2, <2>4, RepeatedKeyIs
<1> QED BY <1>1, PipeInvariant, PTL
=============================================================================
