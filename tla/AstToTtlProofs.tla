---------------------------- MODULE AstToTtlProofs ----------------------------
(***************************************************************************)
(* Proofs about AstToTtl, for any set of dumps that are forests.           *)
(*                                                                         *)
(* What a recursive function over the dump collects is known by two facts: *)
(* a monotone step on sets has a fixpoint, so that the function equals its *)
(* own body, and a property that every node has when its children have it  *)
(* holds of all nodes, which says which fixpoint it is.                    *)
(***************************************************************************)
EXTENDS AstToTtl, FiniteSetTheorems, TLAPS

-----------------------------------------------------------------------------
(* Recursion and induction over a forest.                                  *)

\* The steps on families of subsets of E that keep their order.
Steps(S, E) ==
  {F \in [[S -> SUBSET E] -> [S -> SUBSET E]] :
     \A g, h \in [S -> SUBSET E] :
       (\A n \in S : g[n] \subseteq h[n]) => \A n \in S : F[g][n] \subseteq F[h][n]}

\* Knaster and Tarski: a step on families of sets that keeps their order has a
\* fixpoint, the smallest family closed under it.
LEMMA Fixpoint ==
  ASSUME NEW S, NEW E, NEW F \in Steps(S, E)
  PROVE  \E g \in [S -> SUBSET E] : g = F[g]
<1> DEFINE Closed == {g \in [S -> SUBSET E] : \A n \in S : F[g][n] \subseteq g[n]}
           least == [n \in S |-> {x \in E : \A g \in Closed : x \in g[n]}]
<1>1. least \in [S -> SUBSET E] /\ F \in [[S -> SUBSET E] -> [S -> SUBSET E]]
  BY DEF Steps
<1>2. ASSUME NEW n \in S PROVE F[least][n] \subseteq least[n]
  <2>1. ASSUME NEW g \in Closed PROVE F[least][n] \subseteq g[n]
    <3>1. \A m \in S : least[m] \subseteq g[m]
      OBVIOUS
    <3>2. F[least][n] \subseteq F[g][n]
      <4> HIDE DEF least
      <4> QED BY <1>1, <3>1 DEF Steps
    <3>3. F[g][n] \subseteq g[n]
      OBVIOUS
    <3> QED BY <3>2, <3>3
  <2>2. F[least][n] \subseteq E
    <3> HIDE DEF least
    <3> QED BY <1>1
  <2> QED BY <2>1, <2>2
<1>3. F[least] \in Closed
  <2> HIDE DEF least
  <2> QED BY <1>1, <1>2 DEF Steps
<1>4. ASSUME NEW n \in S PROVE least[n] \subseteq F[least][n]
  BY <1>3
<1>5. least = F[least]
  <2> HIDE DEF least
  <2>1. \A n \in S : least[n] = F[least][n]
    BY <1>2, <1>4
  <2>2. F[least] \in [S -> SUBSET E]
    BY <1>1
  <2> QED BY <1>1, <2>1, <2>2
<1> QED BY <1>1, <1>5

\* A set that has every node whose children it has is the set of all nodes.
LEMMA FromTheLeaves ==
  ASSUME NEW kids \in [Id -> Seq(Id)], Forest(kids), NEW P \in SUBSET Id,
         \A n \in Id : (\A i \in DOMAIN kids[n] : kids[n][i] \in P) => n \in P
  PROVE  P = Id
<1> SUFFICES ASSUME Id \ P # {} PROVE FALSE
  OBVIOUS
<1>1. PICK n \in Id \ P : \A i \in DOMAIN kids[n] : kids[n][i] \notin Id \ P
  BY DEF Forest
<1>2. \A i \in DOMAIN kids[n] : kids[n][i] \in Id
  OBVIOUS
<1> QED BY <1>1, <1>2

LEMMA DumpTyped ==
  ASSUME NEW d \in Dumps
  PROVE  /\ d \in Dump
         /\ d.kids \in [Id -> Seq(Id)] /\ d.ref \in [Id -> Id] /\ d.kind \in [Id -> Kinds]
         /\ d.tops \in Seq(Id) /\ d.name \in [Id -> Name] /\ d.span \in [Id -> Nat]
         /\ Forest(d.kids) /\ DeclaredFirst(d) /\ ApartInSource(d)
         /\ \A n \in Id : \A i \in DOMAIN d.kids[n] : d.kids[n][i] \in Id
<1>1. d \in Dump /\ Forest(d.kids) /\ DeclaredFirst(d) /\ ApartInSource(d)
  BY DumpsAssumption
<1>2. /\ d.kids \in [Id -> Seq(Id)] /\ d.ref \in [Id -> Id] /\ d.kind \in [Id -> Kinds]
      /\ d.tops \in Seq(Id) /\ d.name \in [Id -> Name] /\ d.span \in [Id -> Nat]
  BY <1>1 DEF Dump
<1>3. \A n \in Id : \A i \in DOMAIN d.kids[n] : d.kids[n][i] \in Id
  BY <1>2
<1> QED BY <1>1, <1>2, <1>3

-----------------------------------------------------------------------------
(* What the recursive functions of the model compute.                      *)

ReferredStep(d, g, n) ==
  (IF d.kind[n] = "DeclRefExpr" THEN {d.ref[n]} ELSE {})
    \cup UNION {g[d.kids[n][i]] : i \in DOMAIN d.kids[n]}

\* ReferredTo is what its body says.
LEMMA ReferredUnfolds ==
  ASSUME NEW d \in Dumps
  PROVE  \A n \in Id : ReferredTo(d)[n] = ReferredStep(d, ReferredTo(d), n)
<1> DEFINE F == [g \in [Id -> SUBSET Id] |-> [n \in Id |-> ReferredStep(d, g, n)]]
<1>1. \A g \in [Id -> SUBSET Id] : \A n \in Id : ReferredStep(d, g, n) \subseteq Id
  BY DumpTyped DEF ReferredStep
<1>2. F \in [[Id -> SUBSET Id] -> [Id -> SUBSET Id]]
  BY <1>1
<1>3. ASSUME NEW g \in [Id -> SUBSET Id], NEW h \in [Id -> SUBSET Id],
             \A n \in Id : g[n] \subseteq h[n], NEW n \in Id
      PROVE  F[g][n] \subseteq F[h][n]
  BY <1>3, DumpTyped DEF ReferredStep
<1>4. \E g \in [Id -> SUBSET Id] : g = F[g]
  <2>1. F \in Steps(Id, Id)
    BY <1>2, <1>3 DEF Steps
  <2> HIDE DEF F
  <2> QED BY <2>1, Fixpoint
<1>5. \E g : g = [n \in Id |-> ReferredStep(d, g, n)]
  BY <1>4
<1>6. ReferredTo(d) = CHOOSE g : g = [n \in Id |-> ReferredStep(d, g, n)]
  BY DEF ReferredTo, ReferredStep
<1> QED BY <1>5, <1>6

LEMMA ReferredTyped ==
  ASSUME NEW d \in Dumps
  PROVE  \A n \in Id : ReferredTo(d)[n] \subseteq Id
<1> DEFINE P == {n \in Id : ReferredTo(d)[n] \subseteq Id}
<1>1. ASSUME NEW n \in Id, \A i \in DOMAIN d.kids[n] : d.kids[n][i] \in P PROVE n \in P
  <2>1. ReferredTo(d)[n] = ReferredStep(d, ReferredTo(d), n)
    BY ReferredUnfolds
  <2>2. \A i \in DOMAIN d.kids[n] : ReferredTo(d)[d.kids[n][i]] \subseteq Id
    BY <1>1
  <2>3. d.ref[n] \in Id
    BY DumpTyped
  <2> QED BY <2>1, <2>2, <2>3 DEF ReferredStep
<1>2. P = Id
  <2> HIDE DEF P
  <2>1. P \in SUBSET Id
    BY DEF P
  <2> QED BY <1>1, <2>1, FromTheLeaves, DumpTyped
<1> QED BY <1>2

\* A child refers to nothing its parent does not refer to.
LEMMA ReferredDescends ==
  ASSUME NEW d \in Dumps, NEW n \in Id, NEW i \in DOMAIN d.kids[n]
  PROVE  ReferredTo(d)[d.kids[n][i]] \subseteq ReferredTo(d)[n]
BY ReferredUnfolds DEF ReferredStep

TargetStep(g, n) ==
  IF Kind(n) = "DeclRefExpr" THEN {dump.ref[n]}
  ELSE IF Kids(n) = <<>> THEN {} ELSE g[Kids(n)[1]]

LEMMA HasFirst == ASSUME NEW s \in Seq(Id), s # <<>> PROVE 1 \in DOMAIN s /\ s[1] \in Id
OBVIOUS

\* Target is what its body says.
LEMMA TargetUnfolds ==
  ASSUME dump \in Dumps
  PROVE  \A n \in Id : Target[n] = TargetStep(Target, n)
<1> DEFINE F == [g \in [Id -> SUBSET Id] |-> [n \in Id |-> TargetStep(g, n)]]
<1>1. \A g \in [Id -> SUBSET Id] : \A n \in Id : TargetStep(g, n) \subseteq Id
  BY DumpTyped, HasFirst DEF TargetStep, Kids
<1>2. F \in [[Id -> SUBSET Id] -> [Id -> SUBSET Id]]
  BY <1>1
<1>3. ASSUME NEW g \in [Id -> SUBSET Id], NEW h \in [Id -> SUBSET Id],
             \A n \in Id : g[n] \subseteq h[n], NEW n \in Id
      PROVE  F[g][n] \subseteq F[h][n]
  BY <1>3, DumpTyped, HasFirst DEF TargetStep, Kids
<1>4. \E g \in [Id -> SUBSET Id] : g = F[g]
  <2>1. F \in Steps(Id, Id)
    BY <1>2, <1>3 DEF Steps
  <2> HIDE DEF F
  <2> QED BY <2>1, Fixpoint
<1>5. \E g : g = [n \in Id |-> TargetStep(g, n)]
  BY <1>4
<1>6. Target = CHOOSE g : g = [n \in Id |-> TargetStep(g, n)]
  BY DEF Target, TargetStep
<1> QED BY <1>5, <1>6

\* The end of the first children is among what the subtree refers to.
LEMMA TargetReferred ==
  ASSUME dump \in Dumps
  PROVE  \A n \in Id : Target[n] \subseteq ReferredTo(dump)[n]
<1> DEFINE P == {n \in Id : Target[n] \subseteq ReferredTo(dump)[n]}
<1>1. ASSUME NEW n \in Id, \A i \in DOMAIN dump.kids[n] : dump.kids[n][i] \in P PROVE n \in P
  <2>1. Target[n] = TargetStep(Target, n) /\ ReferredTo(dump)[n] = ReferredStep(dump, ReferredTo(dump), n)
    BY TargetUnfolds, ReferredUnfolds
  <2>2. dump.kids[n] # <<>> => 1 \in DOMAIN dump.kids[n] /\ dump.kids[n][1] \in P
    BY <1>1, DumpTyped, HasFirst
  <2> QED BY <2>1, <2>2 DEF TargetStep, ReferredStep, Kids, Kind
<1>2. P = Id
  <2> HIDE DEF P
  <2>1. P \in SUBSET Id
    BY DEF P
  <2> QED BY <1>1, <2>1, FromTheLeaves, DumpTyped
<1> QED BY <1>2

ExtractedStep(g, n) ==
  IF Kind(n) = "CallExpr"
  THEN Calls(n) \cup UNION {g[Kids(n)[i]] : i \in DOMAIN Kids(n) \ {1}}
  ELSE (IF Kind(n) = "DeclRefExpr" THEN {<<"refs", dump.ref[n]>>} ELSE {})
       \cup UNION {g[Kids(n)[i]] : i \in DOMAIN Kids(n)}

\* An edge of a statement: its name, and the id it leads to.
Edge(ids) == {"refs", "calls"} \X ids

LEMMA CallsReferred ==
  ASSUME dump \in Dumps, NEW n \in Id
  PROVE  Calls(n) \subseteq Edge(ReferredTo(dump)[n])
<1>1. CASE Kids(n) = <<>>
  BY <1>1 DEF Calls
<1>2. CASE Kids(n) # <<>>
  <2>1. 1 \in DOMAIN dump.kids[n] /\ dump.kids[n][1] \in Id
    BY <1>2, DumpTyped, HasFirst DEF Kids
  <2>2. Target[Kids(n)[1]] \subseteq ReferredTo(dump)[n]
    BY <2>1, TargetReferred, ReferredDescends DEF Kids
  <2> QED BY <1>2, <2>2 DEF Calls, Edge
<1> QED BY <1>1, <1>2

\* Extracted is what its body says.
LEMMA ExtractedUnfolds ==
  ASSUME dump \in Dumps
  PROVE  \A n \in Id : Extracted[n] = ExtractedStep(Extracted, n)
<1> DEFINE F == [g \in [Id -> SUBSET Edge(Id)] |-> [n \in Id |-> ExtractedStep(g, n)]]
<1>0. \A n \in Id : Calls(n) \subseteq Edge(Id)
  <2> TAKE n \in Id
  <2>1. Calls(n) \subseteq Edge(ReferredTo(dump)[n]) /\ ReferredTo(dump)[n] \subseteq Id
    BY CallsReferred, ReferredTyped
  <2> QED BY <2>1 DEF Edge
<1>1. \A g \in [Id -> SUBSET Edge(Id)] : \A n \in Id : ExtractedStep(g, n) \subseteq Edge(Id)
  <2> SUFFICES ASSUME NEW g \in [Id -> SUBSET Edge(Id)], NEW n \in Id
               PROVE  ExtractedStep(g, n) \subseteq Edge(Id)
    OBVIOUS
  <2>1. \A i \in DOMAIN Kids(n) : g[Kids(n)[i]] \subseteq Edge(Id)
    BY DumpTyped DEF Kids
  <2>2. <<"refs", dump.ref[n]>> \in Edge(Id)
    BY DumpTyped DEF Edge
  <2> QED BY <1>0, <2>1, <2>2 DEF ExtractedStep
<1>2. F \in [[Id -> SUBSET Edge(Id)] -> [Id -> SUBSET Edge(Id)]]
  BY <1>1
<1>3. ASSUME NEW g \in [Id -> SUBSET Edge(Id)], NEW h \in [Id -> SUBSET Edge(Id)],
             \A n \in Id : g[n] \subseteq h[n], NEW n \in Id
      PROVE  F[g][n] \subseteq F[h][n]
  BY <1>3, DumpTyped DEF ExtractedStep, Kids
<1>4. \E g \in [Id -> SUBSET Edge(Id)] : g = F[g]
  <2>1. F \in Steps(Id, Edge(Id))
    BY <1>2, <1>3 DEF Steps
  <2> HIDE DEF F
  <2> QED BY <2>1, Fixpoint
<1>5. \E g : g = [n \in Id |-> ExtractedStep(g, n)]
  BY <1>4
<1>6. Extracted = CHOOSE g : g = [n \in Id |-> ExtractedStep(g, n)]
  BY DEF Extracted, ExtractedStep
<1> QED BY <1>5, <1>6

\* What is extracted are references and calls of what the subtree refers to.
LEMMA ExtractedReferred ==
  ASSUME dump \in Dumps
  PROVE  \A n \in Id : Extracted[n] \subseteq Edge(ReferredTo(dump)[n])
<1> DEFINE P == {n \in Id : Extracted[n] \subseteq Edge(ReferredTo(dump)[n])}
<1>1. ASSUME NEW n \in Id, \A i \in DOMAIN dump.kids[n] : dump.kids[n][i] \in P PROVE n \in P
  <2>1. Extracted[n] = ExtractedStep(Extracted, n)
    BY ExtractedUnfolds
  <2>2. ASSUME NEW i \in DOMAIN Kids(n) PROVE Extracted[Kids(n)[i]] \subseteq Edge(ReferredTo(dump)[n])
    BY <1>1, <2>2, ReferredDescends DEF Kids, Edge
  <2>3. Calls(n) \subseteq Edge(ReferredTo(dump)[n])
    BY CallsReferred
  <2>4. Kind(n) = "DeclRefExpr" => <<"refs", dump.ref[n]>> \in Edge(ReferredTo(dump)[n])
    BY ReferredUnfolds DEF Edge, ReferredStep, Kind
  <2> QED BY <2>1, <2>2, <2>3, <2>4 DEF ExtractedStep
<1>2. P = Id
  <2> HIDE DEF P
  <2>1. P \in SUBSET Id
    BY DEF P
  <2> QED BY <1>1, <2>1, FromTheLeaves, DumpTyped
<1> QED BY <1>2

\* The edges of a statement are what its subtree refers to.
LEMMA EdgesReferred ==
  ASSUME dump \in Dumps, NEW n \in Id
  PROVE  Edges(n) \subseteq Edge(ReferredTo(dump)[n])
<1>1. ASSUME NEW i \in DOMAIN Kids(n) PROVE Extracted[Kids(n)[i]] \subseteq Edge(ReferredTo(dump)[n])
  <2>1. Kids(n)[i] \in Id
    BY DumpTyped DEF Kids
  <2>2. Extracted[Kids(n)[i]] \subseteq Edge(ReferredTo(dump)[Kids(n)[i]])
    BY <2>1, ExtractedReferred
  <2>3. ReferredTo(dump)[Kids(n)[i]] \subseteq ReferredTo(dump)[n]
    BY ReferredDescends DEF Kids
  <2> QED BY <2>2, <2>3 DEF Edge
<1> QED BY <1>1 DEF Edges

-----------------------------------------------------------------------------
(* The stack.                                                              *)

DeclIris == {"decl"} \X Kinds \X Name
StmtIris == ({"node"} \X Nat \X Kinds) \cup ({"stmt"} \X Nat \X Kinds)
ParamIris == {"param"} \X (DeclIris \cup StmtIris \cup {Tu}) \X Nat \X Name
Parents == {Tu} \cup DeclIris \cup StmtIris
Item == [role : Roles, parent : Parents, node : Id, index : Nat]

LEMMA ItemsTyped ==
  ASSUME NEW role \in Roles, NEW parent \in Parents, NEW nodes \in Seq(Id)
  PROVE  /\ Items(role, parent, nodes) \in Seq(Item)
         /\ DOMAIN Items(role, parent, nodes) = DOMAIN nodes
         /\ \A i \in DOMAIN nodes :
              LET item == Items(role, parent, nodes)[i]
              IN item.role = role /\ item.parent = parent /\ item.node = nodes[i]
<1>1. ASSUME NEW i \in DOMAIN nodes
      PROVE  Cardinality({j \in 1..(i - 1) : Kind(nodes[j]) = "ParmVarDecl"}) \in Nat
  <2>1. IsFiniteSet(1..(i - 1))
    BY FS_Interval
  <2>2. IsFiniteSet({j \in 1..(i - 1) : Kind(nodes[j]) = "ParmVarDecl"})
    BY <2>1, FS_Subset
  <2> QED BY <2>2, FS_CardinalityType
<1>2. \A i \in DOMAIN nodes : nodes[i] \in Id
  OBVIOUS
<1>3. DOMAIN Items(role, parent, nodes) = 1..Len(nodes) /\ Len(nodes) \in Nat /\ DOMAIN nodes = 1..Len(nodes)
  BY DEF Items
<1>4. \A i \in DOMAIN nodes : Items(role, parent, nodes)[i] \in Item
  BY <1>1, <1>2 DEF Items, Item
<1>5. Items(role, parent, nodes) \in Seq(Item)
  <2>1. Items(role, parent, nodes) = [i \in 1..Len(nodes) |-> Items(role, parent, nodes)[i]]
    BY <1>3 DEF Items
  <2> QED BY <1>3, <1>4, <2>1
<1> QED BY <1>3, <1>5 DEF Items

\* What is on a sequence whose first element has been replaced by others.
LEMMA Replacing ==
  ASSUME NEW S, NEW s \in Seq(S), s # <<>>, NEW new \in Seq(S)
  PROVE  /\ new \o Tail(s) \in Seq(S)
         /\ \A k \in DOMAIN (new \o Tail(s)) :
              \/ k \in DOMAIN new /\ (new \o Tail(s))[k] = new[k]
              \/ \E j \in DOMAIN s :
                   j > 1 /\ k = Len(new) + j - 1 /\ (new \o Tail(s))[k] = s[j]
<1>1. Tail(s) \in Seq(S) /\ Len(Tail(s)) = Len(s) - 1 /\ \A i \in 1..(Len(s) - 1) : Tail(s)[i] = s[i + 1]
  OBVIOUS
<1>2. /\ new \o Tail(s) \in Seq(S) /\ Len(new \o Tail(s)) = Len(new) + Len(s) - 1
      /\ \A k \in 1..Len(new) : (new \o Tail(s))[k] = new[k]
      /\ \A k \in (Len(new) + 1)..(Len(new) + Len(s) - 1) :
            (new \o Tail(s))[k] = Tail(s)[k - Len(new)]
  BY <1>1
<1>3. ASSUME NEW k \in DOMAIN (new \o Tail(s)), k > Len(new)
      PROVE  \E j \in DOMAIN s : j > 1 /\ k = Len(new) + j - 1 /\ (new \o Tail(s))[k] = s[j]
  <2> DEFINE j == k - Len(new) + 1
  <2>1. k \in (Len(new) + 1)..(Len(new) + Len(s) - 1) /\ Len(new) \in Nat /\ Len(s) \in Nat
    BY <1>2, <1>3
  <2>2. j \in DOMAIN s /\ j > 1 /\ k = Len(new) + j - 1 /\ j - 1 \in 1..(Len(s) - 1) /\ k - Len(new) = j - 1
    BY <2>1
  <2>3. (new \o Tail(s))[k] = s[j - 1 + 1]
    BY <1>1, <1>2, <2>1, <2>2
  <2> HIDE DEF j
  <2>4. j - 1 + 1 = j
    BY <2>2
  <2> QED BY <2>2, <2>3, <2>4
<1> QED BY <1>2, <1>3

-----------------------------------------------------------------------------
(* Types.                                                                  *)

\* Of what the state is made.
Base ==
  /\ dump \in Dumps
  /\ stack \in Seq(Item)
  /\ iris \in [Id -> {NoIri} \cup DeclIris \cup ParamIris]
  /\ counter \in Nat
  /\ \A t \in graph : t = <<t[1], t[2], t[3]>>

\* A step takes the first item off the stack, and may put the node's children there
\* on behalf of parent; the order of the declarations left to convert stays.
Shape(parent) ==
  /\ stack' \in Seq(Item)
  /\ \A k \in DOMAIN stack' :
       \/ \E j \in DOMAIN stack : j > 1 /\ stack'[k] = stack[j]
       \/ /\ stack'[k].role # "convert" /\ stack'[k].parent = parent
          /\ \E m \in DOMAIN Kids(Node) : stack'[k].node = Kids(Node)[m]
  /\ \A k, l \in DOMAIN stack' :
       k < l /\ stack'[l].role = "convert" =>
         \E i, j \in DOMAIN stack :
           /\ i < j /\ stack'[l] = stack[j]
           /\ \/ stack'[k] = stack[i]
              \/ i = 1 /\ \E m \in DOMAIN Kids(Node) : stack'[k].node = Kids(Node)[m]

LEMMA TopTyped ==
  ASSUME Base, stack # <<>>
  PROVE  /\ 1 \in DOMAIN stack /\ Top = stack[1] /\ Top \in Item
         /\ Node \in Id /\ Top.parent \in Parents /\ Top.index \in Nat /\ Top.role \in Roles
         /\ Kids(Node) \in Seq(Id) /\ \A i \in DOMAIN Kids(Node) : Kids(Node)[i] \in Id
<1>1. stack \in Seq(Item) /\ dump \in Dumps
  BY DEF Base
<1>2. 1 \in DOMAIN stack /\ Top = stack[1] /\ Top \in Item
  BY <1>1 DEF Top
<1>3. Node \in Id /\ Top.parent \in Parents /\ Top.index \in Nat /\ Top.role \in Roles
  BY <1>2 DEF Item, Node
<1> QED BY <1>1, <1>2, <1>3, DumpTyped DEF Kids

LEMMA Replaces ==
  ASSUME Base, stack # <<>>, NEW parent, NEW new \in Seq(Item), Then(new),
         \A m \in DOMAIN new :
           /\ new[m].role # "convert" /\ new[m].parent = parent
           /\ m \in DOMAIN Kids(Node) /\ new[m].node = Kids(Node)[m]
  PROVE  Shape(parent)
<1> DEFINE r == new \o Tail(stack)
<1>1. /\ r \in Seq(Item)
      /\ \A k \in DOMAIN r :
           \/ k \in DOMAIN new /\ r[k] = new[k]
           \/ \E j \in DOMAIN stack : j > 1 /\ k = Len(new) + j - 1 /\ r[k] = stack[j]
  BY Replacing DEF Base
<1>2. stack' = r
  BY DEF Then
<1>3. 1 \in DOMAIN stack /\ DOMAIN stack \subseteq Nat /\ Len(new) \in Nat /\ DOMAIN new = 1..Len(new)
  BY TopTyped DEF Base
<1> HIDE DEF r
<1>4. ASSUME NEW k \in DOMAIN r, NEW l \in DOMAIN r, k < l, r[l].role = "convert"
      PROVE  \E i, j \in DOMAIN stack :
               /\ i < j /\ r[l] = stack[j]
               /\ \/ r[k] = stack[i]
                  \/ i = 1 /\ \E m \in DOMAIN Kids(Node) : r[k].node = Kids(Node)[m]
  <2>1. PICK j \in DOMAIN stack : j > 1 /\ l = Len(new) + j - 1 /\ r[l] = stack[j]
    BY <1>1, <1>4
  <2>2. CASE k \in DOMAIN new /\ r[k] = new[k]
    BY <2>1, <2>2, <1>3
  <2>3. CASE \E i \in DOMAIN stack : i > 1 /\ k = Len(new) + i - 1 /\ r[k] = stack[i]
    <3>1. PICK i \in DOMAIN stack : i > 1 /\ k = Len(new) + i - 1 /\ r[k] = stack[i]
      BY <2>3
    <3>2. i < j
      BY <1>3, <1>4, <2>1, <3>1
    <3> QED BY <2>1, <3>1, <3>2
  <2> QED BY <1>1, <2>2, <2>3
<1>5. ASSUME NEW k \in DOMAIN r
      PROVE  \/ \E j \in DOMAIN stack : j > 1 /\ r[k] = stack[j]
             \/ /\ r[k].role # "convert" /\ r[k].parent = parent
                /\ \E m \in DOMAIN Kids(Node) : r[k].node = Kids(Node)[m]
  BY <1>1
<1> QED BY <1>1, <1>2, <1>4, <1>5 DEF Shape

LEMMA Popped ==
  ASSUME Base, stack # <<>>, NEW parent, Then(<<>>)
  PROVE  Shape(parent)
<1>1. <<>> \in Seq(Item) /\ DOMAIN <<>> = {}
  OBVIOUS
<1> QED BY <1>1, Replaces

LEMMA Pushed ==
  ASSUME Base, stack # <<>>, NEW role \in {"function", "statement"}, NEW parent \in Parents,
         Then(Items(role, parent, Kids(Node)))
  PROVE  Shape(parent)
<1>1. role \in Roles /\ role # "convert"
  BY DEF Roles
<1>2. Kids(Node) \in Seq(Id)
  BY TopTyped
<1> DEFINE new == Items(role, parent, Kids(Node))
<1>3. /\ new \in Seq(Item) /\ DOMAIN new = DOMAIN Kids(Node)
      /\ \A m \in DOMAIN Kids(Node) :
           new[m].role = role /\ new[m].parent = parent /\ new[m].node = Kids(Node)[m]
  BY <1>1, <1>2, ItemsTyped
<1> HIDE DEF new
<1>4. Then(new)
  BY DEF new
<1> QED BY <1>1, <1>3, <1>4, Replaces

LEMMA IrisTyped ==
  ASSUME Base, NEW n \in Id
  PROVE  /\ Kind(n) \in Kinds /\ dump.name[n] \in Name /\ dump.span[n] \in Nat
         /\ DeclIri(n) \in DeclIris /\ SpanIri(n) \in StmtIris
         /\ \A parent \in Parents, index \in Nat : ParamIri(parent, index, n) \in ParamIris
<1>1. Kind(n) \in Kinds /\ dump.name[n] \in Name /\ dump.span[n] \in Nat /\ counter \in Nat
  BY DumpTyped DEF Base, Kind
<1> QED BY <1>1 DEF DeclIri, DeclIris, SpanIri, StmtIris, ParamIri, ParamIris, Parents

LEMMA Shapes ==
  ASSUME Base
  PROVE  /\ SkipDecl \/ EmitParam \/ SkipChild \/ Descend => stack # <<>> /\ Shape(Top.parent)
         /\ EmitDecl => stack # <<>> /\ Shape(DeclIri(Node))
         /\ EmitBody \/ EmitStmt => stack # <<>> /\ Shape(SpanIri(Node))
<1>1. ASSUME SkipDecl \/ EmitParam \/ SkipChild PROVE stack # <<>> /\ Shape(Top.parent)
  <2>1. stack # <<>> /\ Then(<<>>)
    BY <1>1 DEF SkipDecl, EmitParam, SkipChild, Visiting
  <2> QED BY <2>1, Popped
<1>2. ASSUME Descend PROVE stack # <<>> /\ Shape(Top.parent)
  <2>1. stack # <<>> /\ Then(Items("statement", Top.parent, Kids(Node)))
    BY <1>2 DEF Descend, Visiting
  <2> QED BY <2>1, Pushed, TopTyped
<1>3. ASSUME EmitDecl PROVE stack # <<>> /\ Shape(DeclIri(Node))
  <2>1. stack # <<>>
    BY <1>3 DEF EmitDecl, Visiting
  <2>2. DeclIri(Node) \in Parents
    BY <2>1, TopTyped, IrisTyped DEF Parents
  <2>3. Then(<<>>) \/ Then(Items("function", DeclIri(Node), Kids(Node)))
    BY <1>3 DEF EmitDecl
  <2> QED BY <2>1, <2>2, <2>3, Popped, Pushed
<1>4. ASSUME EmitBody \/ EmitStmt PROVE stack # <<>> /\ Shape(SpanIri(Node))
  <2>1. stack # <<>> /\ Then(Items("statement", SpanIri(Node), Kids(Node)))
    BY <1>4 DEF EmitBody, EmitStmt, Visiting
  <2>2. SpanIri(Node) \in Parents
    BY <2>1, TopTyped, IrisTyped DEF Parents
  <2> QED BY <2>1, <2>2, Pushed
<1> QED BY <1>1, <1>2, <1>3, <1>4

LEMMA BaseInit ==
  ASSUME Init
  PROVE  Base
<1>1. dump \in Dumps /\ dump.tops \in Seq(Id)
  BY DumpTyped DEF Init
<1>2. stack \in Seq(Item)
  BY <1>1, ItemsTyped DEF Init, Roles, Parents
<1>3. iris \in [Id -> {NoIri} \cup DeclIris \cup ParamIris]
  BY DEF Init
<1> QED BY <1>1, <1>2, <1>3 DEF Init, Base

Triples(ts) == \A t \in ts : t = <<t[1], t[2], t[3]>>

LEMMA TripleOf == ASSUME NEW a, NEW b, NEW c PROVE Triples({<<a, b, c>>})
BY DEF Triples

LEMMA WrittenTriples ==
  ASSUME NEW iri, NEW n
  PROVE  Triples(Written(iri, n))
BY DEF Triples, Written

LEMMA BaseStep ==
  ASSUME Base, [Next]_vars
  PROVE  Base'
<1>1. CASE SkipDecl \/ SkipChild \/ Descend
  BY <1>1, Shapes DEF Base, Shape, SkipDecl, SkipChild, Descend
<1>2. CASE EmitDecl
  <2>1. stack' \in Seq(Item) /\ Node \in Id /\ DeclIri(Node) \in DeclIris
    BY <1>2, Shapes, TopTyped, IrisTyped DEF Shape
  <2>2. graph' = graph \cup Written(DeclIri(Node), Node) \cup {<<DeclIri(Node), "declaredIn", Tu>>}
    BY <1>2 DEF EmitDecl
  <2>3. Triples(graph')
    BY <2>2, WrittenTriples DEF Base, Triples
  <2>4. iris' \in [Id -> {NoIri} \cup DeclIris \cup ParamIris]
    BY <1>2, <2>1 DEF EmitDecl, Base
  <2> QED BY <1>2, <2>1, <2>3, <2>4 DEF EmitDecl, Base, Triples
<1>3. CASE EmitParam
  <2>1. stack' \in Seq(Item) /\ Node \in Id /\ ParamIri(Top.parent, Top.index, Node) \in ParamIris
    BY <1>3, Shapes, TopTyped, IrisTyped DEF Shape
  <2>2. Triples(graph')
    BY <1>3 DEF EmitParam, Base, Triples
  <2>3. iris' \in [Id -> {NoIri} \cup DeclIris \cup ParamIris]
    BY <1>3, <2>1 DEF EmitParam, Base
  <2> QED BY <1>3, <2>1, <2>2, <2>3 DEF EmitParam, Base, Triples
<1>4. CASE EmitBody
  <2>1. stack' \in Seq(Item)
    BY <1>4, Shapes DEF Shape
  <2>2. Triples(graph')
    <3> DEFINE edge == {<<Top.parent, "hasBody", SpanIri(Node)>>}
               flag == {<<Top.parent, "isDefinition", TRUE>>}
    <3>1. Triples(edge) /\ Triples(flag)
      BY TripleOf
    <3>2. graph' = graph \cup Written(SpanIri(Node), Node) \cup edge \cup flag
      BY <1>4 DEF EmitBody
    <3> HIDE DEF edge, flag
    <3> QED BY <3>1, <3>2, WrittenTriples DEF Base, Triples
  <2>3. counter' \in Nat
    BY <1>4 DEF EmitBody, CountSpan, Base
  <2> QED BY <1>4, <2>1, <2>2, <2>3 DEF EmitBody, Base, Triples
<1>5. CASE EmitStmt
  <2>1. stack' \in Seq(Item)
    BY <1>5, Shapes DEF Shape
  <2>2. Triples(graph')
    <3> DEFINE edges == {<<SpanIri(Node), e[1], RefIri(e[2])>> : e \in Edges(Node)}
    <3>1. Triples(edges)
      BY DEF Triples
    <3> HIDE DEF edges
    <3>2. graph' = graph \cup Written(SpanIri(Node), Node)
                    \cup {<<Top.parent, "hasChild", SpanIri(Node)>>} \cup edges
      BY <1>5 DEF EmitStmt, edges
    <3>3. Triples({<<Top.parent, "hasChild", SpanIri(Node)>>})
      BY DEF Triples
    <3> QED BY <3>1, <3>2, <3>3, WrittenTriples DEF Base, Triples
  <2>3. counter' \in Nat
    BY <1>5 DEF EmitStmt, CountSpan, Base
  <2> QED BY <1>5, <2>1, <2>2, <2>3 DEF EmitStmt, Base, Triples
<1>6. CASE Done \/ TooDeep \/ UNCHANGED vars
  BY <1>6 DEF Done, TooDeep, vars, Base
<1> QED BY <1>1, <1>2, <1>3, <1>4, <1>5, <1>6 DEF Next

LEMMA RaisedStep ==
  ASSUME raised \in BOOLEAN, [Next]_vars
  PROVE  raised' \in BOOLEAN
<1>1. raised' = raised \/ raised' = TRUE
  BY DEF Next, SkipDecl, EmitDecl, EmitParam, EmitBody, SkipChild, EmitStmt, Descend, Then,
         TooDeep, Done, vars
<1> QED BY <1>1

\* The state is of the types the module gives it (json_to_ttl.py, Ctx): the items to
\* visit are nodes of the dump, an id is recorded with the IRI of a declaration or of
\* a parameter.
THEOREM Typing == Spec => []TypeOK
<1>1. Init => Base /\ raised \in BOOLEAN
  BY BaseInit, DumpTyped DEF Init
<1>2. Base /\ raised \in BOOLEAN /\ [Next]_vars => (Base /\ raised \in BOOLEAN)'
  BY BaseStep, RaisedStep
<1>3. Base /\ raised \in BOOLEAN => TypeOK
  <2> SUFFICES ASSUME Base, raised \in BOOLEAN PROVE TypeOK
    OBVIOUS
  <2>1. ASSUME NEW i \in DOMAIN stack
        PROVE  stack[i].node \in Id /\ stack[i].role \in Roles /\ stack[i].index \in Nat
    <3>1. stack[i] \in Item
      BY DEF Base
    <3> QED BY <3>1 DEF Item
  <2>2. \A t \in graph : Len(t) = 3
    BY DEF Base
  <2>3. \A id \in Id : iris[id] = NoIri \/ iris[id][1] \in {"decl", "param"}
    BY DEF Base, DeclIris, ParamIris
  <2>4. DOMAIN iris = Id
    BY DEF Base
  <2> QED BY <2>1, <2>2, <2>3, <2>4 DEF Base, TypeOK
<1> QED BY <1>1, <1>2, <1>3, PTL DEF Spec

-----------------------------------------------------------------------------
(* The graph is closed.                                                    *)

Classes == Kinds \cup {"TranslationUnitDecl"}
Classed(iri, g) == \E class \in Classes : <<iri, "a", class>> \in g
Closed ==
  /\ Classed(Tu, graph)
  /\ \A i \in DOMAIN stack : Classed(stack[i].parent, graph)
  /\ \A id \in Id : iris[id] # NoIri => Classed(iris[id], graph)
  /\ GraphIsClosed

LEMMA ClosedStack ==
  ASSUME Closed, graph \subseteq graph', NEW parent, Classed(parent, graph'), Shape(parent)
  PROVE  \A i \in DOMAIN stack' : Classed(stack'[i].parent, graph')
<1>1. \A i \in DOMAIN stack : Classed(stack[i].parent, graph')
  BY DEF Closed, Classed
<1> QED BY <1>1 DEF Shape

EdgesClosed(ts, g) ==
  \A t \in ts : t[2] \in EdgeNames =>
    /\ Classed(t[1], g)
    /\ Classed(t[3], g) \/ (t[2] \in {"refs", "calls"} /\ \E id \in Id : t[3] = Unknown(id))

\* A step that adds triples to the graph keeps it closed when the new ones are.
LEMMA ClosedGraph ==
  ASSUME Closed, NEW new, graph' = graph \cup new, EdgesClosed(new, graph')
  PROVE  GraphIsClosed'
<1>1. EdgesClosed(graph, graph')
  BY DEF Closed, GraphIsClosed, EdgesClosed, HasClass, Classed, Classes
<1>2. EdgesClosed(graph', graph')
  BY <1>1 DEF EdgesClosed
<1> QED BY <1>2 DEF EdgesClosed, GraphIsClosed, HasClass, Classed, Classes

LEMMA WrittenClassed ==
  ASSUME NEW iri, NEW n, Kind(n) \in Kinds, NEW g, Written(iri, n) \subseteq g
  PROVE  Classed(iri, g) /\ EdgesClosed(Written(iri, n), g)
<1>1. <<iri, "a", Kind(n)>> \in g
  BY DEF Written
<1> QED BY <1>1 DEF Written, Classed, Classes, EdgesClosed, EdgeNames

LEMMA ClosedInit ==
  ASSUME Init
  PROVE  Closed
<1>1. \A t \in graph : t = <<Tu, "a", "TranslationUnitDecl">>
  BY DEF Init
<1>2. GraphIsClosed
  BY <1>1 DEF GraphIsClosed, EdgeNames
<1>3. Classed(Tu, graph)
  BY DEF Init, Classed, Classes
<1>4. dump.tops \in Seq(Id) /\ Tu \in Parents /\ "convert" \in Roles
  BY DumpTyped DEF Init, Parents, Roles
<1>5. \A i \in DOMAIN stack : stack[i].parent = Tu
  BY <1>4, ItemsTyped DEF Init
<1> QED BY <1>2, <1>3, <1>5 DEF Init, Closed

LEMMA ClosedStep ==
  ASSUME Base, Closed, [Next]_vars
  PROVE  Closed'
<1>1. CASE SkipDecl \/ SkipChild \/ Descend
  <2>1. stack # <<>> /\ Shape(Top.parent) /\ UNCHANGED <<dump, graph, iris>>
    BY <1>1, Shapes DEF SkipDecl, SkipChild, Descend
  <2>2. Classed(Top.parent, graph)
    BY <2>1, TopTyped DEF Closed
  <2>3. \A i \in DOMAIN stack' : Classed(stack'[i].parent, graph')
    BY <2>1, <2>2, ClosedStack
  <2> QED BY <2>1, <2>3 DEF Closed, GraphIsClosed, HasClass, Classed, Classes
<1>2. CASE EmitDecl
  <2> DEFINE iri == DeclIri(Node)
             new == Written(iri, Node) \cup {<<iri, "declaredIn", Tu>>}
  <2>1. Shape(iri) /\ Node \in Id /\ Kind(Node) \in Kinds /\ graph' = graph \cup new
    BY <1>2, Shapes, TopTyped, IrisTyped DEF EmitDecl
  <2>2. Visiting("convert") /\ iris' = [iris EXCEPT ![Node] = iri] /\ dump' = dump
    BY <1>2 DEF EmitDecl
  <2>3. stack # <<>>
    BY <2>2 DEF Visiting
  <2>4. Classed(iri, graph') /\ EdgesClosed(Written(iri, Node), graph')
    BY <2>1, WrittenClassed
  <2>5. Classed(Tu, graph') /\ graph \subseteq graph'
    BY <2>1 DEF Closed, Classed
  <2>6. EdgesClosed({<<iri, "declaredIn", Tu>>}, graph')
    BY <2>4, <2>5 DEF EdgesClosed
  <2>7. EdgesClosed(new, graph')
    BY <2>4, <2>6 DEF EdgesClosed
  <2> HIDE DEF iri, new
  <2>8. \A i \in DOMAIN stack' : Classed(stack'[i].parent, graph')
    BY <2>1, <2>4, <2>5, ClosedStack
  <2>9. GraphIsClosed'
    BY <2>1, <2>7, ClosedGraph
  <2>10. \A id \in Id : iris'[id] # NoIri => Classed(iris'[id], graph')
    BY <2>1, <2>2, <2>4 DEF Closed, Classed, Base
  <2> QED BY <2>5, <2>8, <2>9, <2>10 DEF Closed
<1>3. CASE EmitParam
  <2> DEFINE iri == ParamIri(Top.parent, Top.index, Node)
             new == {<<iri, "a", "ParmVarDecl">>, <<Top.parent, "hasParameter", iri>>}
  <2>1. stack # <<>> /\ Shape(Top.parent) /\ graph' = graph \cup new
    BY <1>3, Shapes DEF EmitParam
  <2>2. iris' = [iris EXCEPT ![Node] = iri] /\ Node \in Id
    BY <1>3, <2>1, TopTyped DEF EmitParam
  <2>3. Classed(Top.parent, graph)
    BY <2>1, TopTyped DEF Closed
  <2>4. Classed(Tu, graph') /\ graph \subseteq graph' /\ Classed(Top.parent, graph')
    BY <2>1, <2>3 DEF Closed, Classed
  <2>5. Classed(iri, graph')
    BY <2>1 DEF Classed, Classes, Kinds
  <2>6. EdgesClosed(new, graph')
    <3> HIDE DEF iri
    <3> QED BY <2>4, <2>5 DEF EdgesClosed, EdgeNames
  <2> HIDE DEF iri, new
  <2>7. \A i \in DOMAIN stack' : Classed(stack'[i].parent, graph')
    BY <2>1, <2>4, ClosedStack
  <2>8. GraphIsClosed'
    BY <2>1, <2>6, ClosedGraph
  <2>9. \A id \in Id : iris'[id] # NoIri => Classed(iris'[id], graph')
    BY <2>1, <2>2, <2>5 DEF Closed, Classed, Base
  <2> QED BY <2>4, <2>7, <2>8, <2>9 DEF Closed
<1>4. CASE EmitBody \/ EmitStmt
  <2> DEFINE iri == SpanIri(Node)
             body == {<<Top.parent, "hasBody", iri>>, <<Top.parent, "isDefinition", TRUE>>}
             statement == {<<Top.parent, "hasChild", iri>>}
             refs == {<<iri, e[1], RefIri(e[2])>> : e \in Edges(Node)}
  <2>1. stack # <<>> /\ Shape(iri) /\ Node \in Id /\ Kind(Node) \in Kinds
    BY <1>4, Shapes, TopTyped, IrisTyped
  <2>2. \/ graph' = graph \cup (Written(iri, Node) \cup body)
        \/ graph' = graph \cup (Written(iri, Node) \cup statement \cup refs)
    BY <1>4 DEF EmitBody, EmitStmt
  <2>3. iris' = iris
    BY <1>4 DEF EmitBody, EmitStmt
  <2>4. graph \subseteq graph' /\ Written(iri, Node) \subseteq graph'
    <3> HIDE DEF iri, body, statement, refs
    <3> QED BY <2>2
  <2>5. Classed(iri, graph') /\ EdgesClosed(Written(iri, Node), graph')
    BY <2>1, <2>4, WrittenClassed
  <2>6. Classed(Top.parent, graph') /\ Classed(Tu, graph')
    <3>1. Classed(Top.parent, graph)
      BY <2>1, TopTyped DEF Closed
    <3> HIDE DEF iri
    <3> QED BY <3>1, <2>4 DEF Closed, Classed
  <2>7. EdgesClosed(body, graph') /\ EdgesClosed(statement, graph')
    <3> HIDE DEF iri
    <3> QED BY <2>5, <2>6 DEF EdgesClosed, EdgeNames
  <2>8. EdgesClosed(refs, graph')
    <3>1. ASSUME NEW e \in Edges(Node)
          PROVE  /\ e[1] \in {"refs", "calls"}
                 /\ Classed(RefIri(e[2]), graph') \/ \E id \in Id : RefIri(e[2]) = Unknown(id)
      <4>1. e[1] \in {"refs", "calls"} /\ e[2] \in Id
        BY <2>1, EdgesReferred, ReferredTyped DEF Edge, Base
      <4>2. CASE iris[e[2]] # NoIri
        <5>1. Classed(iris[e[2]], graph)
          BY <4>1, <4>2 DEF Closed
        <5> HIDE DEF iri
        <5>2. Classed(RefIri(e[2]), graph')
          BY <4>2, <5>1, <2>4 DEF RefIri, Classed
        <5> QED BY <4>1, <5>2
      <4>3. CASE iris[e[2]] = NoIri
        <5>1. RefIri(e[2]) = Unknown(e[2])
          BY <4>3 DEF RefIri
        <5> QED BY <4>1, <5>1
      <4> QED BY <4>2, <4>3
    <3> HIDE DEF iri
    <3> QED BY <3>1, <2>5 DEF EdgesClosed
  <2> HIDE DEF iri, body, statement, refs
  <2>9. GraphIsClosed'
    <3>1. EdgesClosed(Written(iri, Node) \cup body, graph')
      BY <2>5, <2>7 DEF EdgesClosed
    <3>2. EdgesClosed(Written(iri, Node) \cup statement \cup refs, graph')
      BY <2>5, <2>7, <2>8 DEF EdgesClosed
    <3> QED BY <2>2, <3>1, <3>2, ClosedGraph
  <2>10. \A i \in DOMAIN stack' : Classed(stack'[i].parent, graph')
    BY <2>1, <2>4, <2>5, ClosedStack
  <2>11. \A id \in Id : iris'[id] # NoIri => Classed(iris'[id], graph')
    BY <2>3, <2>4 DEF Closed, Classed
  <2> QED BY <2>6, <2>9, <2>10, <2>11 DEF Closed
<1>5. CASE Done \/ TooDeep \/ UNCHANGED vars
  BY <1>5 DEF Done, TooDeep, vars, Closed, GraphIsClosed, HasClass, Classed, Classes
<1> QED BY <1>1, <1>2, <1>3, <1>4, <1>5 DEF Next

\* Every edge joins two nodes with a class, or leads to the unknown node of an id
\* that was never recorded (json_to_ttl.py, _emit_decl, _emit_param, _emit_stmt_subtree,
\* _ref_iri).
THEOREM ClosedAlways == Spec => []GraphIsClosed
<1>1. Init => Base /\ Closed
  BY BaseInit, ClosedInit
<1>2. Base /\ Closed /\ [Next]_vars => (Base /\ Closed)'
  BY BaseStep, ClosedStep
<1>3. Closed => GraphIsClosed
  BY DEF Closed
<1> QED BY <1>1, <1>2, <1>3, PTL DEF Spec

-----------------------------------------------------------------------------
(* References to known ids.                                                *)

\* The ids the nodes of a graph were written for, and those it refers to as unknown.
NodesOf(g) == {n \in Id : \E t \in g : t[2] = "clangNodeId" /\ t[3] = n}
UnknownOf(g) == {id \in Id : \E u \in g : u[2] \in {"refs", "calls"} /\ u[3] = Unknown(id)}
\* The declarations left to convert.
ToConvert(s) == {id \in Id : \E i \in DOMAIN s : s[i].role = "convert" /\ s[i].node = id}

\* An id that was referred to as unknown is no statement and will not be met: the
\* items on the stack refer to no declaration below them.
Resolved ==
  /\ \A t \in graph : t[2] = "clangNodeId" => t[3] \in Id
  /\ \A n \in NodesOf(graph) : iris[n] # NoIri \/ Kind(n) \in StmtKinds
  /\ \A id \in UnknownOf(graph) :
       Kind(id) \notin StmtKinds /\ id \notin NodesOf(graph) /\ id \notin ToConvert(stack)
  /\ \A i, j \in DOMAIN stack :
       i < j /\ stack[j].role = "convert" => stack[j].node \notin ReferredTo(dump)[stack[i].node]

\* What a subtree refers to is no statement.
LEMMA ReferredDeclared ==
  ASSUME dump \in Dumps
  PROVE  \A n \in Id : \A id \in ReferredTo(dump)[n] : Kind(id) \notin StmtKinds
<1> DEFINE P == {n \in Id : \A id \in ReferredTo(dump)[n] : Kind(id) \notin StmtKinds}
<1>1. ASSUME NEW n \in Id, \A i \in DOMAIN dump.kids[n] : dump.kids[n][i] \in P PROVE n \in P
  <2>1. ReferredTo(dump)[n] = ReferredStep(dump, ReferredTo(dump), n)
    BY ReferredUnfolds
  <2>2. \A i \in DOMAIN dump.kids[n] : \A id \in ReferredTo(dump)[dump.kids[n][i]] : Kind(id) \notin StmtKinds
    BY <1>1
  <2>3. dump.kind[n] = "DeclRefExpr" => Kind(dump.ref[n]) \notin StmtKinds
    BY DumpTyped DEF DeclaredFirst, Kind
  <2> QED BY <2>1, <2>2, <2>3 DEF ReferredStep
<1>2. P = Id
  <2> HIDE DEF P
  <2>1. P \in SUBSET Id
    BY DEF P
  <2> QED BY <1>1, <2>1, FromTheLeaves, DumpTyped
<1> QED BY <1>2

LEMMA ConvertsLess ==
  ASSUME NEW parent, Shape(parent)
  PROVE  ToConvert(stack') \subseteq ToConvert(stack)
BY DEF Shape, ToConvert

\* What is left to convert after a step is not what the step's node refers to.
LEMMA ConvertsLater ==
  ASSUME Base, stack # <<>>, Resolved, NEW parent, Shape(parent)
  PROVE  /\ \A id \in ToConvert(stack') : id \notin ReferredTo(dump)[Node]
         /\ Top.role = "convert" => Node \in ToConvert(stack)
<1>1. 1 \in DOMAIN stack /\ Top = stack[1] /\ Node = stack[1].node /\ Node \in Id
  BY TopTyped DEF Node
<1>2. DOMAIN stack \subseteq Nat
  BY DEF Base
<1>3. ASSUME NEW k \in DOMAIN stack', stack'[k].role = "convert"
      PROVE  stack'[k].node \notin ReferredTo(dump)[Node]
  <2>1. PICK j \in DOMAIN stack : j > 1 /\ stack'[k] = stack[j]
    BY <1>3 DEF Shape
  <2> QED BY <1>1, <1>2, <1>3, <2>1 DEF Resolved
<1> QED BY <1>1, <1>3 DEF ToConvert

LEMMA OrderStep ==
  ASSUME Base, stack # <<>>, Resolved, NEW parent, Shape(parent), dump' = dump
  PROVE  \A k, l \in DOMAIN stack' :
           k < l /\ stack'[l].role = "convert"
             => stack'[l].node \notin ReferredTo(dump)[stack'[k].node]
<1> SUFFICES ASSUME NEW k \in DOMAIN stack', NEW l \in DOMAIN stack', k < l, stack'[l].role = "convert"
             PROVE  stack'[l].node \notin ReferredTo(dump)[stack'[k].node]
  OBVIOUS
<1>1. PICK i \in DOMAIN stack, j \in DOMAIN stack :
        /\ i < j /\ stack'[l] = stack[j]
        /\ \/ stack'[k] = stack[i]
           \/ i = 1 /\ \E m \in DOMAIN Kids(Node) : stack'[k].node = Kids(Node)[m]
  BY DEF Shape
<1>2. stack[j].node \notin ReferredTo(dump)[stack[i].node]
  BY <1>1 DEF Resolved
<1>3. CASE stack'[k] = stack[i]
  BY <1>1, <1>2, <1>3
<1>4. CASE i = 1 /\ \E m \in DOMAIN Kids(Node) : stack'[k].node = Kids(Node)[m]
  <2>1. stack[1].node = Node /\ Node \in Id /\ dump \in Dumps
    BY TopTyped DEF Node, Base
  <2>2. PICK m \in DOMAIN Kids(Node) : stack'[k].node = Kids(Node)[m]
    BY <1>4
  <2>3. ReferredTo(dump)[stack'[k].node] \subseteq ReferredTo(dump)[Node]
    BY <2>1, <2>2, ReferredDescends DEF Kids
  <2> QED BY <1>1, <1>2, <1>4, <2>1, <2>3
<1> QED BY <1>1, <1>3, <1>4

\* f has the nodes and the unknown ids of g and h.
OfSum(f, g, h) ==
  NodesOf(f) = NodesOf(g) \cup NodesOf(h) /\ UnknownOf(f) = UnknownOf(g) \cup UnknownOf(h)

LEMMA OfUnion ==
  ASSUME NEW g, NEW h
  PROVE  OfSum(g \cup h, g, h)
BY DEF OfSum, NodesOf, UnknownOf

LEMMA OfWritten ==
  ASSUME NEW iri, NEW n \in Id
  PROVE  NodesOf(Written(iri, n)) = {n} /\ UnknownOf(Written(iri, n)) = {}
<1>1. \A t \in Written(iri, n) : t = <<iri, "a", Kind(n)>> \/ t = <<iri, "clangNodeId", n>>
  BY DEF Written
<1>2. <<iri, "clangNodeId", n>> \in Written(iri, n)
  BY DEF Written
<1> QED BY <1>1, <1>2 DEF NodesOf, UnknownOf

LEMMA OfOthers ==
  ASSUME NEW g, \A t \in g : t[2] \notin {"clangNodeId", "refs", "calls"}
  PROVE  NodesOf(g) = {} /\ UnknownOf(g) = {}
BY DEF NodesOf, UnknownOf

LEMMA ResolvedInit ==
  ASSUME Init
  PROVE  Resolved
<1>1. \A t \in graph : t[2] \notin {"clangNodeId", "refs", "calls"}
  BY DEF Init
<1>2. dump \in Dumps /\ dump.tops \in Seq(Id) /\ Tu \in Parents /\ "convert" \in Roles /\ DeclaredFirst(dump)
  BY DumpTyped DEF Init, Parents, Roles
<1>3. DOMAIN stack = DOMAIN dump.tops /\ \A i \in DOMAIN stack : stack[i].node = dump.tops[i]
  BY <1>2, ItemsTyped DEF Init
<1>4. \A i, j \in DOMAIN stack :
        i < j /\ stack[j].role = "convert" => stack[j].node \notin ReferredTo(dump)[stack[i].node]
  BY <1>2, <1>3 DEF DeclaredFirst
<1> QED BY <1>1, <1>4, OfOthers DEF Resolved

\* The references among the edges of a statement.
References(iri, n) == {<<iri, e[1], RefIri(e[2])>> : e \in Edges(n)}

\* An edge that leads to an unknown id has found nothing recorded for it.
LEMMA OfReferences ==
  ASSUME Base, NEW iri, NEW n \in Id
  PROVE  /\ NodesOf(References(iri, n)) = {}
         /\ \A id \in UnknownOf(References(iri, n)) : id \in ReferredTo(dump)[n] /\ iris[id] = NoIri
         /\ \A t \in References(iri, n) : t[2] \in {"refs", "calls"}
<1>1. Edges(n) \subseteq Edge(ReferredTo(dump)[n]) /\ ReferredTo(dump)[n] \subseteq Id
  BY EdgesReferred, ReferredTyped DEF Base
<1>2. \A t \in References(iri, n) : t[2] \in {"refs", "calls"}
  BY <1>1 DEF References, Edge
<1>3. ASSUME NEW id \in Id, NEW e \in Edges(n), RefIri(e[2]) = Unknown(id)
      PROVE  e[2] = id /\ iris[id] = NoIri
  <2>1. e[2] \in Id
    BY <1>1 DEF Edge
  <2>2. iris[e[2]] = NoIri \/ iris[e[2]] \in DeclIris \/ iris[e[2]] \in ParamIris
    BY <2>1 DEF Base
  <2>3. iris[e[2]] # NoIri => iris[e[2]] # Unknown(id)
    BY <2>2 DEF DeclIris, ParamIris, Unknown
  <2> QED BY <1>3, <2>3 DEF RefIri, Unknown
<1>4. ASSUME NEW id \in UnknownOf(References(iri, n))
      PROVE  id \in ReferredTo(dump)[n] /\ iris[id] = NoIri
  <2>1. PICK e \in Edges(n) : RefIri(e[2]) = Unknown(id)
    BY DEF UnknownOf, References
  <2>2. id \in Id
    BY DEF UnknownOf
  <2> QED BY <1>1, <1>3, <2>1, <2>2 DEF Edge
<1> QED BY <1>2, <1>4 DEF NodesOf

LEMMA ResolvedStep ==
  ASSUME Base, Resolved, [Next]_vars
  PROVE  Resolved'
<1>1. CASE SkipDecl \/ SkipChild \/ Descend
  <2>1. stack # <<>> /\ Shape(Top.parent) /\ UNCHANGED <<dump, graph, iris>>
    BY <1>1, Shapes DEF SkipDecl, SkipChild, Descend
  <2>2. ToConvert(stack') \subseteq ToConvert(stack)
    BY <2>1, ConvertsLess
  <2>3. \A k, l \in DOMAIN stack' :
          k < l /\ stack'[l].role = "convert"
            => stack'[l].node \notin ReferredTo(dump)[stack'[k].node]
    BY <2>1, OrderStep
  <2> QED BY <2>1, <2>2, <2>3 DEF Resolved, Kind
<1>2. CASE EmitDecl
  <2> DEFINE iri == DeclIri(Node)
             edge == {<<iri, "declaredIn", Tu>>}
  <2>1. stack # <<>> /\ Shape(iri) /\ Node \in Id /\ iri \in DeclIris
    BY <1>2, Shapes, TopTyped, IrisTyped
  <2>2. /\ graph' = (graph \cup Written(iri, Node)) \cup edge
        /\ iris' = [iris EXCEPT ![Node] = iri] /\ dump' = dump /\ Top.role = "convert"
    BY <1>2 DEF EmitDecl, Visiting
  <2>3. iri # NoIri
    BY <2>1 DEF DeclIris, NoIri
  <2>4. NodesOf(edge) = {} /\ UnknownOf(edge) = {}
    BY OfOthers
  <2>5. ToConvert(stack') \subseteq ToConvert(stack) /\ Node \in ToConvert(stack)
    BY <2>1, <2>2, ConvertsLess, ConvertsLater
  <2>6. \A k, l \in DOMAIN stack' :
          k < l /\ stack'[l].role = "convert"
            => stack'[l].node \notin ReferredTo(dump)[stack'[k].node]
    BY <2>1, <2>2, OrderStep
  <2>7. \A t \in graph' : t[2] = "clangNodeId" => t[3] \in Id
    BY <2>1, <2>2 DEF Resolved, Written
  <2> HIDE DEF iri, edge
  <2>8. NodesOf(graph') = NodesOf(graph) \cup {Node} /\ UnknownOf(graph') = UnknownOf(graph)
    <3>1. NodesOf(Written(iri, Node)) = {Node} /\ UnknownOf(Written(iri, Node)) = {}
      BY <2>1, OfWritten
    <3>2. OfSum(graph \cup Written(iri, Node), graph, Written(iri, Node))
      BY OfUnion
    <3>3. OfSum(graph', graph \cup Written(iri, Node), edge)
      BY <2>2, OfUnion
    <3> QED BY <2>4, <3>1, <3>2, <3>3 DEF OfSum
  <2>9. \A n \in NodesOf(graph') : iris'[n] # NoIri \/ Kind(n) \in StmtKinds
    BY <2>1, <2>2, <2>3, <2>8 DEF Resolved, Base
  <2>10. \A id \in UnknownOf(graph') :
           Kind(id) \notin StmtKinds /\ id \notin NodesOf(graph') /\ id \notin ToConvert(stack')
    BY <2>5, <2>8 DEF Resolved
  <2> QED BY <2>2, <2>6, <2>7, <2>9, <2>10 DEF Resolved, Kind
<1>3. CASE EmitParam
  <2> DEFINE iri == ParamIri(Top.parent, Top.index, Node)
             new == {<<iri, "a", "ParmVarDecl">>, <<Top.parent, "hasParameter", iri>>}
  <2>1. stack # <<>> /\ Shape(Top.parent) /\ graph' = graph \cup new /\ dump' = dump
    BY <1>3, Shapes DEF EmitParam
  <2>2. iris' = [iris EXCEPT ![Node] = iri] /\ Node \in Id /\ iri \in ParamIris
    BY <1>3, <2>1, TopTyped, IrisTyped DEF EmitParam
  <2>3. iri # NoIri
    BY <2>2 DEF ParamIris, NoIri
  <2>4. NodesOf(new) = {} /\ UnknownOf(new) = {} /\ \A t \in new : t[2] # "clangNodeId"
    BY OfOthers
  <2>5. ToConvert(stack') \subseteq ToConvert(stack)
    BY <2>1, ConvertsLess
  <2>6. \A k, l \in DOMAIN stack' :
          k < l /\ stack'[l].role = "convert"
            => stack'[l].node \notin ReferredTo(dump)[stack'[k].node]
    BY <2>1, OrderStep
  <2> HIDE DEF iri, new
  <2>7. NodesOf(graph') = NodesOf(graph) /\ UnknownOf(graph') = UnknownOf(graph)
    <3>1. OfSum(graph', graph, new)
      BY <2>1, OfUnion
    <3> QED BY <2>4, <3>1 DEF OfSum
  <2>8. \A n \in NodesOf(graph') : iris'[n] # NoIri \/ Kind(n) \in StmtKinds
    BY <2>2, <2>3, <2>7 DEF Resolved, Base
  <2>9. \A t \in graph' : t[2] = "clangNodeId" => t[3] \in Id
    BY <2>1, <2>4 DEF Resolved
  <2> QED BY <2>1, <2>5, <2>6, <2>7, <2>8, <2>9 DEF Resolved, Kind
<1>4. CASE EmitBody \/ EmitStmt
  <2> DEFINE iri == SpanIri(Node)
             edge == {<<Top.parent, "hasBody", iri>>, <<Top.parent, "hasChild", iri>>}
             flag == {<<Top.parent, "isDefinition", TRUE>>}
             refs == References(iri, Node)
  <2>1. stack # <<>> /\ Shape(iri) /\ Node \in Id /\ dump' = dump /\ iris' = iris
    BY <1>4, Shapes, TopTyped DEF EmitBody, EmitStmt
  <2>2. Kind(Node) \in StmtKinds
    BY <1>4 DEF EmitBody, EmitStmt, StmtKinds
  <2>3. \E some : \E more :
          /\ graph' = (graph \cup Written(iri, Node)) \cup (some \cup more)
          /\ some \subseteq edge \cup flag /\ more \in {{}, refs}
    <3>1. CASE EmitBody
      <4> WITNESS {<<Top.parent, "hasBody", iri>>} \cup flag
      <4> WITNESS {}
      <4> QED BY <3>1 DEF EmitBody
    <3>2. CASE EmitStmt
      <4> WITNESS {<<Top.parent, "hasChild", iri>>}
      <4> WITNESS refs
      <4> QED BY <3>2 DEF EmitStmt, References
    <3> QED BY <1>4, <3>1, <3>2
  <2>4. PICK some, more :
          /\ graph' = (graph \cup Written(iri, Node)) \cup (some \cup more)
          /\ some \subseteq edge \cup flag /\ more \in {{}, refs}
    BY <2>3
  <2>5. \A t \in edge : t[2] \notin {"clangNodeId", "refs", "calls"}
    OBVIOUS
  <2>6. \A t \in flag : t[2] \notin {"clangNodeId", "refs", "calls"}
    <3>1. \A x : <<Top.parent, "isDefinition", x>>[2] \notin {"clangNodeId", "refs", "calls"}
      OBVIOUS
    <3> QED BY <3>1
  <2>7. ToConvert(stack') \subseteq ToConvert(stack)
        /\ \A id \in ToConvert(stack') : id \notin ReferredTo(dump)[Node]
    BY <2>1, ConvertsLess, ConvertsLater
  <2>8. \A k, l \in DOMAIN stack' :
          k < l /\ stack'[l].role = "convert"
            => stack'[l].node \notin ReferredTo(dump)[stack'[k].node]
    BY <2>1, OrderStep
  <2>9. \A id \in ReferredTo(dump)[Node] : Kind(id) \notin StmtKinds
    BY <2>1, ReferredDeclared DEF Base
  <2> HIDE DEF iri, edge, flag
  <2>10. /\ NodesOf(refs) = {} /\ \A t \in refs : t[2] \in {"refs", "calls"}
         /\ \A id \in UnknownOf(refs) : id \in ReferredTo(dump)[Node] /\ iris[id] = NoIri
    BY <2>1, OfReferences
  <2> HIDE DEF refs
  <2>11. NodesOf(some) = {} /\ UnknownOf(some) = {} /\ NodesOf({}) = {} /\ UnknownOf({}) = {}
    BY <2>4, <2>5, <2>6, OfOthers
  <2>12. NodesOf(graph') = NodesOf(graph) \cup {Node}
         /\ UnknownOf(graph') \subseteq UnknownOf(graph) \cup UnknownOf(refs)
    <3>1. NodesOf(Written(iri, Node)) = {Node} /\ UnknownOf(Written(iri, Node)) = {}
      BY <2>1, OfWritten
    <3>2. OfSum(graph \cup Written(iri, Node), graph, Written(iri, Node))
      BY OfUnion
    <3>3. OfSum(some \cup more, some, more)
      BY OfUnion
    <3>4. OfSum(graph', graph \cup Written(iri, Node), some \cup more)
      BY <2>4, OfUnion
    <3>5. NodesOf(more) = {} /\ UnknownOf(more) \subseteq UnknownOf(refs)
      BY <2>4, <2>10, <2>11
    <3> QED BY <2>11, <3>1, <3>2, <3>3, <3>4, <3>5 DEF OfSum
  <2>13. \A n \in NodesOf(graph') : iris'[n] # NoIri \/ Kind(n) \in StmtKinds
    BY <2>1, <2>2, <2>12 DEF Resolved
  <2>14. \A id \in UnknownOf(refs) :
           Kind(id) \notin StmtKinds /\ id \notin NodesOf(graph') /\ id \notin ToConvert(stack')
    BY <2>2, <2>7, <2>9, <2>10, <2>12 DEF Resolved
  <2>15. \A id \in UnknownOf(graph) :
           Kind(id) \notin StmtKinds /\ id \notin NodesOf(graph') /\ id \notin ToConvert(stack')
    BY <2>2, <2>7, <2>12 DEF Resolved
  <2>16. \A t \in graph' : t[2] = "clangNodeId" => t[3] \in Id
    <3>1. \A t \in Written(iri, Node) : t[2] = "clangNodeId" => t[3] \in Id
      BY <2>1 DEF Written
    <3> QED BY <2>4, <2>5, <2>6, <2>10, <3>1 DEF Resolved
  <2> QED BY <2>1, <2>8, <2>12, <2>13, <2>14, <2>15, <2>16 DEF Resolved, Kind
<1>5. CASE Done \/ TooDeep \/ UNCHANGED vars
  BY <1>5 DEF Done, TooDeep, vars, Resolved, Kind
<1> QED BY <1>1, <1>2, <1>3, <1>4, <1>5 DEF Next

\* A reference never leads to the unknown node of an id the graph has a node for
\* (json_to_ttl.py, _ref_iri): the id was recorded before the reference was written,
\* or the declaration is not one of the dump's.
THEOREM ResolvedAlways == Spec => []KnownIdsResolve
<1>1. Init => Base /\ Resolved
  BY BaseInit, ResolvedInit
<1>2. Base /\ Resolved /\ [Next]_vars => (Base /\ Resolved)'
  BY BaseStep, ResolvedStep
<1>3. Resolved => KnownIdsResolve
  BY DEF Resolved, KnownIdsResolve, NodesOf, UnknownOf
<1> QED BY <1>1, <1>2, <1>3, PTL DEF Spec

-----------------------------------------------------------------------------
(* An IRI for each statement.                                              *)

\* What kind of IRI a node was written for: the counter's are not larger than it.
Fits(iri, n, count) ==
  \/ iri \in DeclIris /\ Kind(n) \notin StmtKinds
  \/ Kind(n) \in StmtKinds /\ dump.span[n] # 0 /\ iri = <<"stmt", dump.span[n], Kind(n)>>
  \/ Kind(n) \in StmtKinds /\ \E k \in 1..count : iri = <<"node", k, Kind(n)>>

Unique ==
  /\ \A t \in graph : t[2] = "clangNodeId" => t[3] \in Id /\ Fits(t[1], t[3], counter)
  /\ \A t, u \in graph :
       t[2] = "clangNodeId" /\ u[2] = "clangNodeId" /\ t[1] = u[1] /\ t[1][1] = "node" => t[3] = u[3]

LEMMA FitsMore ==
  ASSUME NEW iri, NEW n, NEW count \in Nat, Fits(iri, n, count), NEW more \in Nat, count <= more
  PROVE  Fits(iri, n, more)
BY DEF Fits

\* A step writes one node, for an IRI that the counter has not named yet if it names it.
LEMMA UniqueGraph ==
  ASSUME Base, Unique, dump' = dump, counter' \in Nat, counter <= counter',
         NEW iri, NEW n \in Id, Fits(iri, n, counter'),
         iri[1] = "node" => \A m \in Id : ~Fits(iri, m, counter),
         \A t \in graph' : t[2] = "clangNodeId" => t \in graph \/ (t[1] = iri /\ t[3] = n)
  PROVE  Unique'
<1>1. \A t \in graph' : t[2] = "clangNodeId" => t[3] \in Id /\ Fits(t[1], t[3], counter')
  BY FitsMore DEF Unique, Base
<1>2. ASSUME NEW t \in graph', NEW u \in graph', t[2] = "clangNodeId", u[2] = "clangNodeId",
             t[1] = u[1], t[1][1] = "node"
      PROVE  t[3] = u[3]
  BY <1>2 DEF Unique
<1> QED BY <1>1, <1>2 DEF Unique, Fits, Kind

LEMMA UniqueInit ==
  ASSUME Init
  PROVE  Unique
BY DEF Init, Unique

LEMMA UniqueStep ==
  ASSUME Base, Unique, [Next]_vars
  PROVE  Unique'
<1>1. CASE SkipDecl \/ SkipChild \/ Descend \/ TooDeep \/ Done \/ UNCHANGED vars
  <2>1. UNCHANGED <<dump, graph, counter>>
    BY <1>1 DEF SkipDecl, SkipChild, Descend, Done, TooDeep, vars
  <2> QED BY <2>1 DEF Unique, Fits, Kind
<1>2. CASE EmitDecl
  <2>1. /\ Node \in Id /\ DeclIri(Node) \in DeclIris /\ dump' = dump /\ counter' = counter
        /\ graph' = (graph \cup Written(DeclIri(Node), Node)) \cup {<<DeclIri(Node), "declaredIn", Tu>>}
    BY <1>2, Shapes, TopTyped, IrisTyped DEF EmitDecl
  <2>2. Kind(Node) \notin StmtKinds
    BY <1>2 DEF EmitDecl, Skipped, NamedDeclKinds, RecordKinds, StmtKinds
  <2>3. Fits(DeclIri(Node), Node, counter') /\ DeclIri(Node)[1] # "node"
    BY <2>1, <2>2 DEF Fits, DeclIri
  <2>4. \A t \in graph' : t[2] = "clangNodeId" => t \in graph \/ (t[1] = DeclIri(Node) /\ t[3] = Node)
    BY <2>1 DEF Written
  <2>5. counter' \in Nat /\ counter <= counter'
    BY <2>1 DEF Base
  <2> QED BY <2>1, <2>3, <2>4, <2>5, UniqueGraph
<1>3. CASE EmitParam
  <2>1. \A t \in graph' : t[2] = "clangNodeId" => t \in graph
    BY <1>3 DEF EmitParam
  <2>2. dump' = dump /\ counter' = counter
    BY <1>3 DEF EmitParam
  <2> QED BY <2>1, <2>2 DEF Unique, Fits, Kind
<1>4. CASE EmitBody \/ EmitStmt
  <2> DEFINE iri == SpanIri(Node)
  <2>1. Node \in Id /\ Kind(Node) \in StmtKinds /\ dump' = dump /\ CountSpan(Node) /\ counter \in Nat
    BY <1>4, Shapes, TopTyped DEF EmitBody, EmitStmt, StmtKinds, Base
  <2>2. counter' \in Nat /\ counter <= counter'
    BY <2>1 DEF CountSpan
  <2>3. Fits(iri, Node, counter')
    BY <2>1 DEF SpanIri, Fits, CountSpan
  <2>4. ASSUME NEW m \in Id, iri[1] = "node" PROVE ~Fits(iri, m, counter)
    <3>1. iri = <<"node", counter + 1, Kind(Node)>>
      BY <2>4 DEF SpanIri
    <3>2. \A k \in 1..counter : iri # <<"node", k, Kind(m)>>
      BY <2>1, <3>1
    <3>3. iri # <<"stmt", dump.span[m], Kind(m)>> /\ iri \notin DeclIris
      BY <3>1 DEF DeclIris
    <3> QED BY <3>2, <3>3 DEF Fits
  <2>5. \A t \in graph' : t[2] = "clangNodeId" => t \in graph \/ (t[1] = iri /\ t[3] = Node)
    <3>1. CASE EmitBody
      <4> DEFINE edge == {<<Top.parent, "hasBody", iri>>}
                 flag == {<<Top.parent, "isDefinition", TRUE>>}
      <4>1. graph' = (graph \cup Written(iri, Node)) \cup edge \cup flag
        BY <3>1 DEF EmitBody
      <4>2. \A x : <<Top.parent, "isDefinition", x>>[2] # "clangNodeId"
        OBVIOUS
      <4>3. (\A t \in edge : t[2] # "clangNodeId") /\ \A t \in flag : t[2] # "clangNodeId"
        BY <4>2
      <4> HIDE DEF iri, edge, flag
      <4> QED BY <4>1, <4>3 DEF Written
    <3>2. CASE EmitStmt
      <4> DEFINE edge == {<<Top.parent, "hasChild", iri>>}
      <4>1. graph' = (graph \cup Written(iri, Node)) \cup edge \cup References(iri, Node)
        BY <3>2 DEF EmitStmt, References
      <4>2. \A t \in edge : t[2] # "clangNodeId"
        OBVIOUS
      <4> HIDE DEF iri, edge
      <4>3. \A t \in References(iri, Node) : t[2] # "clangNodeId"
        BY <2>1, OfReferences
      <4> QED BY <4>1, <4>2, <4>3 DEF Written
    <3> QED BY <1>4, <3>1, <3>2
  <2> HIDE DEF iri
  <2> QED BY <2>1, <2>2, <2>3, <2>4, <2>5, UniqueGraph
<1> QED BY <1>1, <1>2, <1>3, <1>4 DEF Next

LEMMA UniqueSuffices ==
  ASSUME Base, Unique
  PROVE  OneNodePerIri
<1> SUFFICES ASSUME NEW t \in graph, NEW u \in graph,
                    t[2] = "clangNodeId", u[2] = "clangNodeId", t[1] = u[1], Kind(t[3]) \in StmtKinds
             PROVE  t = u
  BY DEF OneNodePerIri
<1>1. t = <<t[1], t[2], t[3]>> /\ u = <<u[1], u[2], u[3]>> /\ t[3] \in Id /\ u[3] \in Id
  BY DEF Base, Unique
<1>2. Fits(t[1], t[3], counter) /\ Fits(t[1], u[3], counter)
  BY DEF Unique
<1>3. ApartInSource(dump)
  BY DumpTyped DEF Base
<1>4. CASE t[1][1] = "node"
  BY <1>1, <1>4 DEF Unique
<1>5. CASE t[1][1] # "node"
  <2>1. dump.span[t[3]] # 0 /\ t[1] = <<"stmt", dump.span[t[3]], Kind(t[3])>>
    BY <1>2, <1>5 DEF Fits
  <2>2. t[1] \notin DeclIris
    BY <2>1 DEF DeclIris
  <2>3. t[1] = <<"stmt", dump.span[u[3]], Kind(u[3])>>
    BY <1>2, <1>5, <2>2 DEF Fits
  <2>4. dump.span[t[3]] = dump.span[u[3]] /\ Kind(t[3]) = Kind(u[3])
    BY <2>1, <2>3
  <2>5. t[3] = u[3]
    BY <1>1, <1>3, <2>1, <2>4 DEF ApartInSource, Kind
  <2> QED BY <1>1, <2>5
<1> QED BY <1>4, <1>5

\* No two nodes of the dump share the IRI of a statement, also when clang left out
\* their lines (json_to_ttl.py, _span_iri and fallback_counter).
THEOREM OneNodeAlways == Spec => []OneNodePerIri
<1>1. Init => Base /\ Unique
  BY BaseInit, UniqueInit
<1>2. Base /\ Unique /\ [Next]_vars => (Base /\ Unique)'
  BY BaseStep, UniqueStep
<1>3. Base /\ Unique => OneNodePerIri
  BY UniqueSuffices
<1> QED BY <1>1, <1>2, <1>3, PTL DEF Spec

-----------------------------------------------------------------------------
(* Subtrees.                                                               *)

Subtree(n) == Within(dump.kids)[n]

\* A node with a statement or a reference in it.
Busy(n) == \E s \in Subtree(n) : Kind(s) \in StmtKinds \cup {"DeclRefExpr"}

WithinStep(g, n) == {n} \cup UNION {g[dump.kids[n][i]] : i \in DOMAIN dump.kids[n]}

\* A subtree is its root and the subtrees of the children.
LEMMA SubtreeUnfolds ==
  ASSUME dump \in Dumps
  PROVE  \A n \in Id : Subtree(n) = {n} \cup UNION {Subtree(Kids(n)[i]) : i \in DOMAIN Kids(n)}
<1> DEFINE F == [g \in [Id -> SUBSET Id] |-> [n \in Id |-> WithinStep(g, n)]]
<1>1. \A g \in [Id -> SUBSET Id] : \A n \in Id : WithinStep(g, n) \subseteq Id
  BY DumpTyped DEF WithinStep
<1>2. F \in [[Id -> SUBSET Id] -> [Id -> SUBSET Id]]
  BY <1>1
<1>3. ASSUME NEW g \in [Id -> SUBSET Id], NEW h \in [Id -> SUBSET Id],
             \A n \in Id : g[n] \subseteq h[n], NEW n \in Id
      PROVE  F[g][n] \subseteq F[h][n]
  BY <1>3, DumpTyped DEF WithinStep
<1>4. \E g \in [Id -> SUBSET Id] : g = F[g]
  <2>1. F \in Steps(Id, Id)
    BY <1>2, <1>3 DEF Steps
  <2> HIDE DEF F
  <2> QED BY <2>1, Fixpoint
<1>5. \E g : g = [n \in Id |-> WithinStep(g, n)]
  BY <1>4
<1>6. Within(dump.kids) = CHOOSE g : g = [n \in Id |-> WithinStep(g, n)]
  BY DEF Within, WithinStep
<1>7. \A n \in Id : Within(dump.kids)[n] = WithinStep(Within(dump.kids), n)
  BY <1>5, <1>6
<1>8. \A n \in Id : Within(dump.kids)[n] =
        {n} \cup UNION {Within(dump.kids)[Kids(n)[i]] : i \in DOMAIN Kids(n)}
  BY <1>7, Zenon DEF WithinStep, Kids
<1> QED BY <1>8, Zenon DEF Subtree

LEMMA Rooted ==
  ASSUME dump \in Dumps, NEW n \in Id
  PROVE  n \in Subtree(n) /\ \A i \in DOMAIN Kids(n) : Subtree(Kids(n)[i]) \subseteq Subtree(n)
BY SubtreeUnfolds

LEMMA BelowChild ==
  ASSUME dump \in Dumps, NEW n \in Id, NEW m \in Subtree(n), m # n
  PROVE  \E i \in DOMAIN Kids(n) : m \in Subtree(Kids(n)[i])
BY SubtreeUnfolds

LEMMA SubtreeTyped ==
  ASSUME dump \in Dumps
  PROVE  \A n \in Id : Subtree(n) \subseteq Id
<1> DEFINE P == {n \in Id : Subtree(n) \subseteq Id}
<1>1. ASSUME NEW n \in Id, \A i \in DOMAIN dump.kids[n] : dump.kids[n][i] \in P PROVE n \in P
  BY <1>1, SubtreeUnfolds DEF Kids
<1>2. P = Id
  <2> HIDE DEF P
  <2>1. P \in SUBSET Id
    BY DEF P
  <2> QED BY <1>1, <2>1, FromTheLeaves, DumpTyped
<1> QED BY <1>2

LEMMA SubtreeNests ==
  ASSUME dump \in Dumps, NEW m \in Id
  PROVE  \A n \in Id : m \in Subtree(n) => Subtree(m) \subseteq Subtree(n)
<1> DEFINE P == {n \in Id : m \in Subtree(n) => Subtree(m) \subseteq Subtree(n)}
<1>1. ASSUME NEW n \in Id, \A i \in DOMAIN dump.kids[n] : dump.kids[n][i] \in P PROVE n \in P
  <2> SUFFICES ASSUME m \in Subtree(n), m # n PROVE Subtree(m) \subseteq Subtree(n)
    OBVIOUS
  <2>1. PICK i \in DOMAIN Kids(n) : m \in Subtree(Kids(n)[i])
    BY BelowChild
  <2> QED BY <1>1, <2>1, Rooted DEF Kids
<1>2. P = Id
  <2> HIDE DEF P
  <2>1. P \in SUBSET Id
    BY DEF P
  <2> QED BY <1>1, <2>1, FromTheLeaves, DumpTyped
<1> QED BY <1>2

\* No node is below one of its children.
LEMMA NotBelowItself ==
  ASSUME dump \in Dumps
  PROVE  \A n \in Id : \A i \in DOMAIN Kids(n) : n \notin Subtree(Kids(n)[i])
<1> DEFINE P == {n \in Id : \A i \in DOMAIN Kids(n) : n \notin Subtree(Kids(n)[i])}
<1>1. ASSUME NEW n \in Id, \A i \in DOMAIN dump.kids[n] : dump.kids[n][i] \in P PROVE n \in P
  <2> SUFFICES ASSUME NEW i \in DOMAIN Kids(n), n \in Subtree(Kids(n)[i]) PROVE FALSE
    OBVIOUS
  <2>1. PICK k : k = Kids(n)[i]
    OBVIOUS
  <2>2. k \in Id /\ k \in P /\ n \in Subtree(k) /\ k \in Subtree(n)
    BY <1>1, <2>1, DumpTyped, Rooted DEF Kids
  <2>3. n # k
    BY <2>1, <2>2
  <2>4. PICK j \in DOMAIN Kids(k) : n \in Subtree(Kids(k)[j])
    BY <2>2, <2>3, BelowChild
  <2>5. Kids(k)[j] \in Id
    BY <2>2, DumpTyped DEF Kids
  <2>6. Subtree(n) \subseteq Subtree(Kids(k)[j])
    BY <2>4, <2>5, SubtreeNests
  <2> QED BY <2>2, <2>6
<1>2. P = Id
  <2> HIDE DEF P
  <2>1. P \in SUBSET Id
    BY DEF P
  <2> QED BY <1>1, <2>1, FromTheLeaves, DumpTyped
<1> QED BY <1>2

LEMMA KidTyped ==
  ASSUME dump \in Dumps, NEW n \in Id, NEW i \in DOMAIN Kids(n)
  PROVE  /\ Kids(n)[i] \in Id /\ Kids(n)[i] \in Subtree(n) /\ Kids(n)[i] # n
         /\ Busy(Kids(n)[i]) => Busy(n)
<1>1. Kids(n)[i] \in Id
  BY DumpTyped DEF Kids
<1>2. Kids(n)[i] \in Subtree(Kids(n)[i]) /\ Subtree(Kids(n)[i]) \subseteq Subtree(n)
  BY <1>1, Rooted
<1> QED BY <1>1, <1>2, NotBelowItself DEF Busy

LEMMA Antisymmetric ==
  ASSUME dump \in Dumps, NEW m \in Id, NEW n \in Id, m \in Subtree(n), n \in Subtree(m)
  PROVE  m = n
<1> SUFFICES ASSUME m # n PROVE FALSE
  OBVIOUS
<1>1. PICK i \in DOMAIN Kids(n) : m \in Subtree(Kids(n)[i])
  BY BelowChild
<1>2. Subtree(m) \subseteq Subtree(Kids(n)[i])
  BY <1>1, KidTyped, SubtreeNests
<1> QED BY <1>2, NotBelowItself

\* What encloses a child with a statement in it encloses the node.
LEMMA ParentWithin ==
  ASSUME dump \in Dumps, NEW n \in Id, NEW i \in DOMAIN Kids(n), NEW k, k = Kids(n)[i], Busy(k)
  PROVE  \A c \in Id : k \in Subtree(c) => k = c \/ n \in Subtree(c)
<1> DEFINE P == {c \in Id : k \in Subtree(c) => k = c \/ n \in Subtree(c)}
<1>1. ASSUME NEW c \in Id, \A j \in DOMAIN dump.kids[c] : dump.kids[c][j] \in P PROVE c \in P
  <2> SUFFICES ASSUME k \in Subtree(c), k # c PROVE n \in Subtree(c)
    OBVIOUS
  <2>1. PICK j \in DOMAIN Kids(c) : k \in Subtree(Kids(c)[j])
    BY BelowChild
  <2>2. CASE k = Kids(c)[j]
    <3>1. OnePlace(dump)
      BY PlacesAssumption
    <3>2. \E s \in Within(dump.kids)[dump.kids[n][i]] : dump.kind[s] \in StmtKinds \cup {"DeclRefExpr"}
      BY DEF Busy, Subtree, Kids, Kind
    <3>3. c = n
      BY <2>2, <3>1, <3>2 DEF OnePlace, Kids
    <3> QED BY <3>3, Rooted
  <2>3. CASE k # Kids(c)[j]
    <3>1. Kids(c)[j] \in P
      BY <1>1 DEF Kids
    <3> QED BY <2>1, <2>3, <3>1, Rooted
  <2> QED BY <2>2, <2>3
<1>2. P = Id
  <2> HIDE DEF P
  <2>1. P \in SUBSET Id
    BY DEF P
  <2> QED BY <1>1, <2>1, FromTheLeaves, DumpTyped
<1> QED BY <1>2

\* Of two nodes that enclose such a node, one encloses the other.
LEMMA EnclosersNest ==
  ASSUME dump \in Dumps, NEW s \in Id, Busy(s), NEW p \in Id, s \in Subtree(p)
  PROVE  \A q \in Id : s \in Subtree(q) => p \in Subtree(q) \/ q \in Subtree(p)
<1> DEFINE P == {q \in Id : s \in Subtree(q) => p \in Subtree(q) \/ q \in Subtree(p)}
<1>1. ASSUME NEW q \in Id, \A j \in DOMAIN dump.kids[q] : dump.kids[q][j] \in P PROVE q \in P
  <2> SUFFICES ASSUME s \in Subtree(q), s # q PROVE p \in Subtree(q) \/ q \in Subtree(p)
    OBVIOUS
  <2>1. PICK j \in DOMAIN Kids(q) : s \in Subtree(Kids(q)[j])
    BY BelowChild
  <2>2. PICK k : k = Kids(q)[j]
    OBVIOUS
  <2>3. k \in Id /\ k \in P /\ Subtree(k) \subseteq Subtree(q) /\ Busy(k)
    <3>1. k \in Id /\ k \in P /\ Subtree(k) \subseteq Subtree(q)
      BY <1>1, <2>2, KidTyped, Rooted DEF Kids
    <3>2. Subtree(s) \subseteq Subtree(k)
      BY <2>1, <2>2, <3>1, SubtreeNests
    <3> QED BY <3>1, <3>2 DEF Busy
  <2>4. p \in Subtree(k) \/ k \in Subtree(p)
    BY <2>1, <2>2, <2>3
  <2>5. k \in Subtree(p) => k = p \/ q \in Subtree(p)
    BY <2>2, <2>3, ParentWithin
  <2>6. k \in Subtree(q)
    BY <2>3, Rooted
  <2> QED BY <2>3, <2>4, <2>5, <2>6
<1>2. P = Id
  <2> HIDE DEF P
  <2>1. P \in SUBSET Id
    BY DEF P
  <2> QED BY <1>1, <2>1, FromTheLeaves, DumpTyped
<1> QED BY <1>2

-----------------------------------------------------------------------------
(* The nesting of statements.                                              *)

LEMMA Ancestors ==
  \A n \in Id : Above(n) = {m \in Id : n \in Subtree(m)} /\ Below(n) = {m \in Id : m # n /\ m \in Subtree(n)}
BY DEF Above, Below, Subtree

\* The statement around a statement is one.
LEMMA OneEncloser ==
  ASSUME dump \in Dumps, NEW s \in Id, Kind(s) \in StmtKinds,
         NEW p \in Id, Kind(p) \in StmtKinds, Encloses(p, s),
         NEW q \in Id, Kind(q) \in StmtKinds, Encloses(q, s)
  PROVE  p = q
<1>1. s \in Subtree(p) /\ s \in Subtree(q) /\ s # p /\ s # q
  BY Ancestors DEF Encloses
<1>2. p \in Subtree(q) \/ q \in Subtree(p)
  <2>1. Busy(s)
    BY Rooted DEF Busy
  <2> QED BY <1>1, <2>1, EnclosersNest
<1>3. ~(p # q /\ p \in Subtree(q))
  BY <1>1, Ancestors DEF Encloses, Chain
<1>4. ~(p # q /\ q \in Subtree(p))
  BY <1>1, Ancestors DEF Encloses, Chain
<1> QED BY <1>2, <1>3, <1>4

\* A node encloses its children.
LEMMA EnclosesChild ==
  ASSUME dump \in Dumps, NEW n \in Id, NEW i \in DOMAIN Kids(n), NEW k, k = Kids(n)[i], Busy(k)
  PROVE  Encloses(n, k)
<1>1. k \in Id /\ k \in Subtree(n) /\ k # n
  BY KidTyped
<1>2. ASSUME NEW c \in Chain(n, k) \ {k} PROVE FALSE
  <2>1. c \in Id /\ k \in Subtree(c) /\ c # n /\ c \in Subtree(n) /\ k # c
    BY <1>1, <1>2, Ancestors DEF Chain
  <2>2. n \in Subtree(c)
    BY <2>1, ParentWithin
  <2> QED BY <2>1, <2>2, Antisymmetric
<1> QED BY <1>1, <1>2, Ancestors DEF Encloses

\* And what encloses a node that is no statement encloses its children.
LEMMA EnclosesDown ==
  ASSUME dump \in Dumps, NEW n \in Id, NEW i \in DOMAIN Kids(n), NEW k, k = Kids(n)[i], Busy(k),
         NEW p \in Id, Encloses(p, n), Kind(n) \notin StmtKinds
  PROVE  Encloses(p, k)
<1>1. k \in Id /\ k \in Subtree(n) /\ k # n
  BY KidTyped
<1>2. n \in Subtree(p) /\ n # p
  BY Ancestors DEF Encloses
<1>3. k \in Subtree(p) /\ k # p
  BY <1>1, <1>2, SubtreeNests, Antisymmetric
<1>4. ASSUME NEW c \in Chain(p, k) \ {k} PROVE Kind(c) \notin StmtKinds
  <2>1. c \in Id /\ k \in Subtree(c) /\ c # p /\ c \in Subtree(p) /\ k # c
    BY <1>1, <1>4, Ancestors DEF Chain
  <2>2. n \in Subtree(c)
    BY <2>1, ParentWithin
  <2> QED BY <2>1, <2>2, Ancestors DEF Encloses, Chain
<1> QED BY <1>1, <1>3, <1>4, Ancestors DEF Encloses

\* The nodes of the stack, of the rest of it and of what is put on it.
On(s) == {s[k] : k \in DOMAIN s}

LEMMA OnStack ==
  ASSUME Base, stack # <<>>, NEW new \in Seq(Item), Then(new)
  PROVE  /\ On(stack) = {Top} \cup On(Tail(stack))
         /\ On(stack') = On(new) \cup On(Tail(stack))
         /\ On(Tail(stack)) \subseteq Item /\ On(new) \subseteq Item
<1>1. PICK s, rest, l, n : s = stack /\ rest = Tail(stack) /\ l = Len(stack) - 1 /\ n = Len(new)
  OBVIOUS
<1>2. /\ s \in Seq(Item) /\ s # <<>> /\ rest \in Seq(Item) /\ Len(rest) = l /\ l \in Nat /\ n \in Nat
      /\ Len(s) = l + 1 /\ \A k \in 1..l : rest[k] = s[k + 1]
  BY <1>1 DEF Base
<1>3. Top = s[1] /\ stack' = new \o rest
  BY <1>1, <1>2 DEF Top, Then
<1>4. /\ Len(stack') = n + l /\ DOMAIN stack' = 1..(n + l)
      /\ \A k \in 1..n : stack'[k] = new[k]
      /\ \A k \in 1..l : stack'[n + k] = rest[k]
  BY <1>1, <1>2, <1>3
<1>5. DOMAIN s = 1..(l + 1) /\ DOMAIN rest = 1..l /\ DOMAIN new = 1..n
  BY <1>1, <1>2
<1>6. On(s) = {s[1]} \cup On(rest)
  <2>1. ASSUME NEW k \in 1..(l + 1), k # 1 PROVE s[k] \in On(rest)
    <3>1. k - 1 \in 1..l /\ (k - 1) + 1 = k
      BY <1>2, <2>1
    <3>2. rest[k - 1] = s[k]
      BY <1>2, <3>1
    <3> QED BY <1>5, <3>1, <3>2 DEF On
  <2>2. ASSUME NEW k \in 1..l PROVE rest[k] \in On(s)
    <3>1. k + 1 \in 1..(l + 1)
      BY <1>2
    <3> QED BY <1>2, <1>5, <3>1 DEF On
  <2>3. 1 \in 1..(l + 1)
    BY <1>2
  <2> QED BY <1>5, <2>1, <2>2, <2>3 DEF On
<1>7. On(stack') = On(new) \cup On(rest)
  <2>1. ASSUME NEW k \in 1..(n + l) PROVE stack'[k] \in On(new) \cup On(rest)
    <3>1. CASE k \in 1..n
      BY <1>4, <1>5, <3>1 DEF On
    <3>2. CASE k \notin 1..n
      <4>1. k - n \in 1..l /\ n + (k - n) = k
        BY <1>2, <3>2
      <4>2. stack'[k] = rest[k - n]
        BY <1>4, <4>1
      <4> QED BY <1>5, <4>1, <4>2 DEF On
    <3> QED BY <3>1, <3>2
  <2>2. ASSUME NEW k \in 1..n PROVE new[k] \in On(stack')
    <3>1. k \in 1..(n + l)
      BY <1>2
    <3> QED BY <1>4, <3>1 DEF On
  <2>3. ASSUME NEW k \in 1..l PROVE rest[k] \in On(stack')
    <3>1. n + k \in 1..(n + l)
      BY <1>2
    <3> QED BY <1>4, <3>1 DEF On
  <2> QED BY <1>4, <1>5, <2>1, <2>2, <2>3 DEF On
<1>8. On(rest) \subseteq Item /\ On(new) \subseteq Item
  BY <1>2, <1>5 DEF On
<1> QED BY <1>1, <1>3, <1>6, <1>7, <1>8

\* What a node's children put on the stack.
LEMMA OnItems ==
  ASSUME Base, stack # <<>>, NEW role \in Roles, NEW parent \in Parents
  PROVE  /\ Items(role, parent, Kids(Node)) \in Seq(Item)
         /\ \A item \in On(Items(role, parent, Kids(Node))) :
              item.role = role /\ item.parent = parent /\ \E i \in DOMAIN Kids(Node) : item.node = Kids(Node)[i]
         /\ \A i \in DOMAIN Kids(Node) : \E item \in On(Items(role, parent, Kids(Node))) :
              item.role = role /\ item.parent = parent /\ item.node = Kids(Node)[i]
<1>1. Kids(Node) \in Seq(Id)
  BY TopTyped
<1> DEFINE new == Items(role, parent, Kids(Node))
<1>2. /\ new \in Seq(Item) /\ DOMAIN new = DOMAIN Kids(Node)
      /\ \A m \in DOMAIN Kids(Node) :
           new[m].role = role /\ new[m].parent = parent /\ new[m].node = Kids(Node)[m]
  BY <1>1, ItemsTyped
<1> HIDE DEF new
<1>3. \A item \in On(new) :
        item.role = role /\ item.parent = parent /\ \E i \in DOMAIN Kids(Node) : item.node = Kids(Node)[i]
  BY <1>2 DEF On
<1>4. \A i \in DOMAIN Kids(Node) : new[i] \in On(new)
  BY <1>2 DEF On
<1> QED BY <1>2, <1>3, <1>4 DEF new

\* What a visit of the item will come to.
Reaches(item, s) ==
  \/ item.role = "statement" /\ s \in Subtree(item.node)
  \/ item.role = "function" /\ Kind(item.node) = "CompoundStmt" /\ s \in Below(item.node)
  \/ /\ item.role = "convert" /\ ~Skipped(item.node) /\ Kind(item.node) = "FunctionDecl"
     /\ \E i \in DOMAIN Kids(item.node) :
          Kind(Kids(item.node)[i]) = "CompoundStmt" /\ s \in Below(Kids(item.node)[i])

\* The IRI is one of a statement that encloses n.
Around(g, iri, n) ==
  \E p \in Id : Kind(p) \in StmtKinds /\ <<iri, "clangNodeId", p>> \in g /\ (Busy(n) => Encloses(p, n))
\* The edge is one from a statement to one it encloses.
Joins(g, t) ==
  \E p, s \in Id :
    /\ Kind(p) \in StmtKinds /\ Kind(s) \in StmtKinds /\ Encloses(p, s)
    /\ <<t[1], "clangNodeId", p>> \in g /\ <<t[3], "clangNodeId", s>> \in g
Hung(g, s) == \E t \in g : t[2] = "hasChild" /\ <<t[3], "clangNodeId", s>> \in g

\* What is visited below a statement lies below it, every edge joins a statement to
\* one it encloses, and a statement has an edge or will be come to.
Nested ==
  /\ \A item \in On(stack) : item.role = "statement" => Around(graph, item.parent, item.node)
  /\ \A t \in graph : t[2] = "hasChild" => Joins(graph, t)
  /\ \A s \in Stmts : Hung(graph, s) \/ \E item \in On(stack) : Reaches(item, s)

LEMMA Unmoved ==
  ASSUME dump' = dump
  PROVE  /\ Stmts' = Stmts /\ \A g, iri, n : Around(g, iri, n)' <=> Around(g, iri, n)
         /\ \A g, t : Joins(g, t)' <=> Joins(g, t)
         /\ \A item, s : Reaches(item, s)' <=> Reaches(item, s)
<1>1. \A n : Kind(n)' = Kind(n) /\ Kids(n)' = Kids(n) /\ Subtree(n)' = Subtree(n) /\ (Skipped(n)' <=> Skipped(n))
  BY DEF Kind, Kids, Subtree, Skipped
<1>2. \A n : Above(n)' = Above(n) /\ Below(n)' = Below(n)
  BY DEF Above, Below
<1>3. \A p, n : Encloses(p, n)' <=> Encloses(p, n)
  BY <1>1, <1>2 DEF Encloses, Chain
<1>4. \A n : Busy(n)' <=> Busy(n)
  BY <1>1 DEF Busy
<1>5. Stmts' = Stmts
  BY <1>1, <1>2 DEF Stmts, Bodies
<1>6. \A g, iri, n : Around(g, iri, n)' <=> Around(g, iri, n)
  BY <1>1, <1>3, <1>4 DEF Around
<1>7. \A g, t : Joins(g, t)' <=> Joins(g, t)
  BY <1>1, <1>3 DEF Joins
<1>8. \A item, s : Reaches(item, s)' <=> Reaches(item, s)
  BY <1>1, <1>2 DEF Reaches
<1> QED BY <1>5, <1>6, <1>7, <1>8

LEMMA MoreWritten ==
  ASSUME NEW g, NEW h, g \subseteq h
  PROVE  /\ \A iri, n : Around(g, iri, n) => Around(h, iri, n)
         /\ \A t : Joins(g, t) => Joins(h, t)
         /\ \A s : Hung(g, s) => Hung(h, s)
<1>1. \A iri, n : Around(g, iri, n) => Around(h, iri, n)
  BY DEF Around
<1>2. \A t : Joins(g, t) => Joins(h, t)
  BY DEF Joins
<1>3. \A s : Hung(g, s) => Hung(h, s)
  BY DEF Hung
<1> QED BY <1>1, <1>2, <1>3

\* A step that puts new on the stack in place of the first item.
LEMMA NestedBy ==
  ASSUME Base, Nested, stack # <<>>, dump' = dump, graph \subseteq graph',
         NEW new \in Seq(Item), Then(new),
         \A item \in On(new) : item.role = "statement" => Around(graph', item.parent, item.node),
         \A t \in graph' : t[2] = "hasChild" => t \in graph \/ Joins(graph', t),
         \A s \in Stmts : Reaches(Top, s) => Hung(graph', s) \/ \E item \in On(new) : Reaches(item, s)
  PROVE  Nested'
<1>1. On(stack) = {Top} \cup On(Tail(stack)) /\ On(stack') = On(new) \cup On(Tail(stack))
  BY OnStack
<1>2. ASSUME NEW item \in On(stack'), item.role = "statement" PROVE Around(graph', item.parent, item.node)
  <2>1. CASE item \in On(Tail(stack))
    BY <1>1, <1>2, <2>1, MoreWritten DEF Nested
  <2> QED BY <1>1, <1>2, <2>1
<1>3. ASSUME NEW t \in graph', t[2] = "hasChild" PROVE Joins(graph', t)
  BY <1>3, MoreWritten DEF Nested
<1>4. ASSUME NEW s \in Stmts PROVE Hung(graph', s) \/ \E item \in On(stack') : Reaches(item, s)
  <2>1. CASE Hung(graph, s)
    BY <2>1, MoreWritten
  <2>2. CASE \E item \in On(stack) : Reaches(item, s)
    BY <1>1, <2>2
  <2> QED BY <2>1, <2>2 DEF Nested
<1>5. \A item \in On(stack') : item.role = "statement" => Around(graph, item.parent, item.node)'
  <2>1. ASSUME NEW item \in On(stack'), item.role = "statement" PROVE Around(graph, item.parent, item.node)'
    <3>1. Around(graph', item.parent, item.node)
      BY <1>2, <2>1
    <3> QED BY <3>1 DEF Around, Kind, Busy, Subtree, Encloses, Below, Above, Chain
  <2> QED BY <2>1
<1>6. \A t \in graph' : t[2] = "hasChild" => Joins(graph, t)'
  <2>1. ASSUME NEW t \in graph', t[2] = "hasChild" PROVE Joins(graph, t)'
    <3>1. Joins(graph', t)
      BY <1>3, <2>1
    <3> QED BY <3>1 DEF Joins, Kind, Encloses, Below, Above, Chain
  <2> QED BY <2>1
<1>7. \A s \in Stmts' : Hung(graph, s)' \/ \E item \in On(stack)' : Reaches(item, s)'
  BY <1>4, Unmoved DEF Hung, On
<1> QED BY <1>5, <1>6, <1>7 DEF Nested, On

LEMMA NestedInit ==
  ASSUME Init
  PROVE  Nested
<1>1. /\ dump \in Dumps /\ stack = Items("convert", Tu, dump.tops)
      /\ graph = {<<Tu, "a", "TranslationUnitDecl">>}
  BY DEF Init
<1>2. dump.tops \in Seq(Id) /\ "convert" \in Roles /\ Tu \in Parents
  BY <1>1, DumpTyped DEF Roles, Parents
<1>3. /\ DOMAIN stack = DOMAIN dump.tops
      /\ \A i \in DOMAIN dump.tops : stack[i].role = "convert" /\ stack[i].node = dump.tops[i]
  BY <1>1, <1>2, ItemsTyped
<1>4. \A item \in On(stack) : item.role # "statement"
  BY <1>3 DEF On
<1>5. \A t \in graph : t[2] # "hasChild"
  BY <1>1
<1>6. ASSUME NEW s \in Stmts PROVE \E item \in On(stack) : Reaches(item, s)
  <2>1. PICK b \in Bodies : s \in Below(b)
    BY DEF Stmts
  <2>2. PICK i \in DOMAIN dump.tops :
          /\ ~Skipped(dump.tops[i]) /\ Kind(dump.tops[i]) = "FunctionDecl"
          /\ \E j \in DOMAIN Kids(dump.tops[i]) : Kids(dump.tops[i])[j] = b
    BY DEF Bodies
  <2>3. stack[i] \in On(stack) /\ stack[i].node = dump.tops[i] /\ stack[i].role = "convert"
    BY <1>3 DEF On
  <2>4. Kind(b) = "CompoundStmt"
    BY DEF Bodies
  <2>5. Reaches(stack[i], s)
    BY <2>1, <2>2, <2>3, <2>4 DEF Reaches
  <2> QED BY <2>3, <2>5
<1> QED BY <1>4, <1>5, <1>6 DEF Nested

LEMMA OnNothing == On(<<>>) = {} /\ <<>> \in Seq(Item)
BY DEF On

\* The children of a statement are visited below it.
LEMMA AroundChildren ==
  ASSUME Base, stack # <<>>, Kind(Node) \in StmtKinds, NEW iri \in Parents, NEW g,
         <<iri, "clangNodeId", Node>> \in g
  PROVE  /\ \A item \in On(Items("statement", iri, Kids(Node))) : Around(g, item.parent, item.node)
         /\ \A s \in Below(Node) : \E item \in On(Items("statement", iri, Kids(Node))) : Reaches(item, s)
<1>1. dump \in Dumps /\ Node \in Id /\ "statement" \in Roles
  BY TopTyped DEF Base, Roles
<1> DEFINE new == Items("statement", iri, Kids(Node))
<1>2. /\ \A item \in On(new) : item.parent = iri /\ \E i \in DOMAIN Kids(Node) : item.node = Kids(Node)[i]
      /\ \A i \in DOMAIN Kids(Node) : \E item \in On(new) : item.role = "statement" /\ item.node = Kids(Node)[i]
  BY <1>1, OnItems
<1> HIDE DEF new
<1>3. ASSUME NEW item \in On(new) PROVE Around(g, item.parent, item.node)
  <2>1. PICK i \in DOMAIN Kids(Node) : item.node = Kids(Node)[i]
    BY <1>2
  <2>2. Busy(item.node) => Encloses(Node, item.node)
    BY <1>1, <2>1, EnclosesChild
  <2>3. <<item.parent, "clangNodeId", Node>> \in g
    BY <1>2
  <2> QED BY <1>1, <2>2, <2>3 DEF Around
<1>4. ASSUME NEW s \in Below(Node) PROVE \E item \in On(new) : Reaches(item, s)
  <2>1. s \in Subtree(Node) /\ s # Node
    BY <1>1, Ancestors
  <2>2. PICK i \in DOMAIN Kids(Node) : s \in Subtree(Kids(Node)[i])
    BY <1>1, <2>1, BelowChild
  <2>3. PICK item \in On(new) : item.role = "statement" /\ item.node = Kids(Node)[i]
    BY <1>2
  <2> QED BY <2>2, <2>3 DEF Reaches
<1> QED BY <1>3, <1>4 DEF new

LEMMA NestedStep ==
  ASSUME Base, Nested, [Next]_vars
  PROVE  Nested'
<1>1. CASE SkipDecl \/ SkipChild
  <2>1. stack # <<>> /\ Then(<<>>) /\ dump' = dump /\ graph' = graph
    BY <1>1 DEF SkipDecl, SkipChild, Visiting
  <2>2. \A s \in Stmts : ~Reaches(Top, s)
    BY <1>1 DEF SkipDecl, SkipChild, Visiting, Reaches, Node
  <2> QED BY <2>1, <2>2, OnNothing, NestedBy
<1>2. CASE EmitDecl
  <2>1. /\ stack # <<>> /\ dump' = dump /\ graph \subseteq graph' /\ Top.role = "convert"
        /\ \A t \in graph' : t[2] = "hasChild" => t \in graph
    BY <1>2 DEF EmitDecl, Visiting, Written
  <2>2. Node \in Id /\ DeclIri(Node) \in Parents /\ "function" \in Roles
    BY <2>1, TopTyped, IrisTyped DEF Parents, Roles
  <2>3. CASE Kind(Node) # "FunctionDecl"
    <3>1. Then(<<>>)
      BY <1>2, <2>3 DEF EmitDecl
    <3>2. \A s \in Stmts : ~Reaches(Top, s)
      BY <2>1, <2>3 DEF Reaches, Node
    <3> QED BY <2>1, <3>1, <3>2, OnNothing, NestedBy
  <2>4. CASE Kind(Node) = "FunctionDecl"
    <3> DEFINE new == Items("function", DeclIri(Node), Kids(Node))
    <3>1. Then(new)
      BY <1>2, <2>4 DEF EmitDecl
    <3>2. /\ new \in Seq(Item) /\ \A item \in On(new) : item.role = "function"
          /\ \A i \in DOMAIN Kids(Node) : \E item \in On(new) :
               item.role = "function" /\ item.node = Kids(Node)[i]
      BY <2>1, <2>2, OnItems
    <3> HIDE DEF new
    <3>3. ASSUME NEW s \in Stmts, Reaches(Top, s) PROVE \E item \in On(new) : Reaches(item, s)
      <4>1. PICK i \in DOMAIN Kids(Node) :
              Kind(Kids(Node)[i]) = "CompoundStmt" /\ s \in Below(Kids(Node)[i])
        BY <2>1, <3>3 DEF Reaches, Node
      <4>2. PICK item \in On(new) : item.role = "function" /\ item.node = Kids(Node)[i]
        BY <3>2
      <4> QED BY <4>1, <4>2 DEF Reaches
    <3> QED BY <2>1, <3>1, <3>2, <3>3, NestedBy
  <2> QED BY <2>3, <2>4
<1>3. CASE EmitParam
  <2>1. /\ stack # <<>> /\ Then(<<>>) /\ dump' = dump /\ graph \subseteq graph'
        /\ \A t \in graph' : t[2] = "hasChild" => t \in graph
    BY <1>3 DEF EmitParam, Visiting
  <2>2. \A s \in Stmts : ~Reaches(Top, s)
    BY <1>3 DEF EmitParam, Visiting, Reaches, Node
  <2> QED BY <2>1, <2>2, OnNothing, NestedBy
<1>4. CASE EmitBody
  <2> DEFINE iri == SpanIri(Node)
             new == Items("statement", iri, Kids(Node))
             edge == {<<Top.parent, "hasBody", iri>>}
             flag == {<<Top.parent, "isDefinition", TRUE>>}
  <2>1. /\ stack # <<>> /\ dump' = dump /\ Then(new) /\ Top.role = "function" /\ Kind(Node) = "CompoundStmt"
        /\ graph' = (graph \cup Written(iri, Node)) \cup edge \cup flag
    BY <1>4 DEF EmitBody, Visiting
  <2>2. Node \in Id /\ iri \in Parents /\ "statement" \in Roles /\ Kind(Node) \in StmtKinds
    BY <2>1, TopTyped, IrisTyped DEF Parents, Roles, StmtKinds
  <2>3. new \in Seq(Item)
    BY <2>1, <2>2, OnItems
  <2>4. \A x : <<Top.parent, "isDefinition", x>>[2] # "hasChild"
    OBVIOUS
  <2>5. (\A t \in edge : t[2] # "hasChild") /\ \A t \in flag : t[2] # "hasChild"
    BY <2>4
  <2> HIDE DEF iri, edge, flag
  <2>6. <<iri, "clangNodeId", Node>> \in graph' /\ graph \subseteq graph'
    BY <2>1 DEF Written
  <2>7. \A t \in graph' : t[2] = "hasChild" => t \in graph
    BY <2>1, <2>5 DEF Written
  <2>8. /\ \A item \in On(new) : Around(graph', item.parent, item.node)
        /\ \A s \in Below(Node) : \E item \in On(new) : Reaches(item, s)
    BY <2>1, <2>2, <2>6, AroundChildren
  <2>9. \A s \in Stmts : Reaches(Top, s) => s \in Below(Node)
    BY <2>1 DEF Reaches, Node
  <2> HIDE DEF new
  <2> QED BY <2>1, <2>3, <2>6, <2>7, <2>8, <2>9, NestedBy
<1>5. CASE EmitStmt
  <2> DEFINE iri == SpanIri(Node)
             new == Items("statement", iri, Kids(Node))
             edge == <<Top.parent, "hasChild", iri>>
  <2>1. /\ stack # <<>> /\ dump' = dump /\ Then(new) /\ Top.role = "statement" /\ Kind(Node) \in StmtKinds
        /\ graph' = (graph \cup Written(iri, Node)) \cup {edge} \cup References(iri, Node)
    BY <1>5 DEF EmitStmt, Visiting, References
  <2>2. Node \in Id /\ iri \in Parents /\ "statement" \in Roles /\ dump \in Dumps
    BY <2>1, TopTyped, IrisTyped DEF Parents, Roles, Base
  <2>3. new \in Seq(Item)
    BY <2>1, <2>2, OnItems
  <2>4. edge[1] = Top.parent /\ edge[2] = "hasChild" /\ edge[3] = iri
    OBVIOUS
  <2> HIDE DEF iri, edge
  <2>5. \A t \in References(iri, Node) : t[2] # "hasChild"
    BY <2>2, OfReferences
  <2>6. <<iri, "clangNodeId", Node>> \in graph' /\ graph \subseteq graph' /\ edge \in graph'
    BY <2>1 DEF Written
  <2>7. Joins(graph', edge)
    <3>1. Top \in On(stack)
      BY <2>1, TopTyped DEF On
    <3>2. PICK p \in Id : /\ Kind(p) \in StmtKinds /\ <<Top.parent, "clangNodeId", p>> \in graph
                          /\ Busy(Node) => Encloses(p, Node)
      BY <2>1, <3>1 DEF Nested, Around, Node
    <3>3. Busy(Node)
      BY <2>1, <2>2, Rooted DEF Busy
    <3> QED BY <2>1, <2>2, <2>4, <2>6, <3>2, <3>3 DEF Joins
  <2>8. \A t \in graph' : t[2] = "hasChild" => t \in graph \/ Joins(graph', t)
    BY <2>1, <2>5, <2>7 DEF Written
  <2>9. /\ \A item \in On(new) : Around(graph', item.parent, item.node)
        /\ \A s \in Below(Node) : \E item \in On(new) : Reaches(item, s)
    BY <2>1, <2>2, <2>6, AroundChildren
  <2>10. ASSUME NEW s \in Stmts, Reaches(Top, s)
         PROVE  Hung(graph', s) \/ \E item \in On(new) : Reaches(item, s)
    <3>1. s \in Subtree(Node)
      BY <2>1, <2>10 DEF Reaches, Node
    <3>2. CASE s = Node
      BY <2>4, <2>6, <3>2 DEF Hung
    <3>3. CASE s # Node
      <4>1. s \in Below(Node)
        BY <2>2, <3>1, <3>3, Ancestors, SubtreeTyped
      <4> QED BY <2>9, <4>1
    <3> QED BY <3>2, <3>3
  <2> HIDE DEF new
  <2> QED BY <2>1, <2>3, <2>6, <2>8, <2>9, <2>10, NestedBy
<1>6. CASE Descend
  <2> DEFINE new == Items("statement", Top.parent, Kids(Node))
  <2>1. /\ stack # <<>> /\ dump' = dump /\ Then(new) /\ Top.role = "statement" /\ Kind(Node) \notin StmtKinds
        /\ graph' = graph
    BY <1>6 DEF Descend, Visiting
  <2>2. Node \in Id /\ Top.parent \in Parents /\ "statement" \in Roles /\ dump \in Dumps
    BY <2>1, TopTyped DEF Roles, Base
  <2>3. /\ new \in Seq(Item)
        /\ \A item \in On(new) : item.parent = Top.parent /\ \E i \in DOMAIN Kids(Node) : item.node = Kids(Node)[i]
        /\ \A i \in DOMAIN Kids(Node) : \E item \in On(new) : item.role = "statement" /\ item.node = Kids(Node)[i]
    BY <2>1, <2>2, OnItems
  <2> HIDE DEF new
  <2>4. ASSUME NEW item \in On(new) PROVE Around(graph', item.parent, item.node)
    <3>1. Top \in On(stack)
      BY <2>1, TopTyped DEF On
    <3>2. PICK p \in Id : /\ Kind(p) \in StmtKinds /\ <<Top.parent, "clangNodeId", p>> \in graph
                          /\ Busy(Node) => Encloses(p, Node)
      BY <2>1, <3>1 DEF Nested, Around, Node
    <3>3. PICK i \in DOMAIN Kids(Node) : item.node = Kids(Node)[i]
      BY <2>3
    <3>4. Busy(item.node) => Encloses(p, item.node)
      BY <2>1, <2>2, <3>2, <3>3, KidTyped, EnclosesDown
    <3>5. item.parent = Top.parent
      BY <2>3
    <3> QED BY <2>1, <3>2, <3>4, <3>5 DEF Around
  <2>5. ASSUME NEW s \in Stmts, Reaches(Top, s) PROVE \E item \in On(new) : Reaches(item, s)
    <3>1. s \in Subtree(Node)
      BY <2>1, <2>5 DEF Reaches, Node
    <3>2. s # Node
      BY <2>1 DEF Stmts
    <3>3. PICK i \in DOMAIN Kids(Node) : s \in Subtree(Kids(Node)[i])
      BY <2>2, <3>1, <3>2, BelowChild
    <3>4. PICK item \in On(new) : item.role = "statement" /\ item.node = Kids(Node)[i]
      BY <2>3
    <3> QED BY <3>3, <3>4 DEF Reaches
  <2> QED BY <2>1, <2>3, <2>4, <2>5, NestedBy
<1>7. CASE Done \/ TooDeep \/ UNCHANGED vars
  <2>1. dump' = dump /\ stack' = stack /\ graph' = graph
    BY <1>7 DEF Done, TooDeep, vars
  <2>2. On(stack') = On(stack)
    BY <2>1
  <2>3. \A item \in On(stack') : item.role = "statement" => Around(graph, item.parent, item.node)'
    BY <2>1, <2>2 DEF Nested, Around, Kind, Busy, Subtree, Encloses, Below, Above, Chain
  <2>4. \A t \in graph' : t[2] = "hasChild" => Joins(graph, t)'
    BY <2>1 DEF Nested, Joins, Kind, Encloses, Below, Above, Chain
  <2>5. \A s \in Stmts' : Hung(graph, s)' \/ \E item \in On(stack)' : Reaches(item, s)'
    BY <2>1, Unmoved DEF Nested, Hung, On
  <2> QED BY <2>3, <2>4, <2>5 DEF Nested, On
<1> QED BY <1>1, <1>2, <1>3, <1>4, <1>5, <1>6, <1>7 DEF Next

LEMMA NestedSuffices ==
  ASSUME Base, Unique, Nested
  PROVE  NestingIsTheDumps
<1> SUFFICES ASSUME stack = <<>>, NEW s \in Stmts, NEW p \in Stmts \cup Bodies
             PROVE  (\E t \in graph : t[2] = "hasChild" /\ WrittenFor(t[1], p) /\ WrittenFor(t[3], s))
                      <=> Encloses(p, s)
  BY DEF NestingIsTheDumps, Finished
<1>1. /\ s \in Id /\ Kind(s) \in StmtKinds /\ p \in Id /\ Kind(p) \in StmtKinds /\ dump \in Dumps
  BY DEF Stmts, Bodies, StmtKinds, Base
<1>2. OneNodePerIri
  BY UniqueSuffices
<1>3. ASSUME NEW iri, NEW m \in Id, NEW n \in Id, Kind(m) \in StmtKinds,
             <<iri, "clangNodeId", m>> \in graph, <<iri, "clangNodeId", n>> \in graph
      PROVE  m = n
  <2>1. PICK t, u : t = <<iri, "clangNodeId", m>> /\ u = <<iri, "clangNodeId", n>>
    OBVIOUS
  <2>2. t \in graph /\ u \in graph /\ t[2] = "clangNodeId" /\ u[2] = "clangNodeId" /\ t[1] = u[1]
        /\ t[3] = m /\ u[3] = n
    BY <1>3, <2>1
  <2>3. t = u
    BY <1>2, <1>3, <2>2 DEF OneNodePerIri
  <2> QED BY <2>2, <2>3
<1>4. ASSUME NEW t \in graph, t[2] = "hasChild", WrittenFor(t[3], s)
      PROVE  \E q \in Id : Kind(q) \in StmtKinds /\ Encloses(q, s) /\ WrittenFor(t[1], q)
  <2>1. PICK q \in Id, r \in Id :
          /\ Kind(q) \in StmtKinds /\ Kind(r) \in StmtKinds /\ Encloses(q, r)
          /\ <<t[1], "clangNodeId", q>> \in graph /\ <<t[3], "clangNodeId", r>> \in graph
    BY <1>4 DEF Nested, Joins
  <2>2. r = s
    BY <1>1, <1>3, <1>4, <2>1 DEF WrittenFor
  <2> QED BY <2>1, <2>2 DEF WrittenFor
<1>5. ASSUME NEW t \in graph, t[2] = "hasChild", WrittenFor(t[1], p), WrittenFor(t[3], s)
      PROVE  Encloses(p, s)
  <2>1. PICK q \in Id : Kind(q) \in StmtKinds /\ Encloses(q, s) /\ WrittenFor(t[1], q)
    BY <1>4, <1>5
  <2>2. p = q
    BY <1>1, <1>3, <1>5, <2>1 DEF WrittenFor
  <2> QED BY <2>1, <2>2
<1>6. ASSUME Encloses(p, s)
      PROVE  \E t \in graph : t[2] = "hasChild" /\ WrittenFor(t[1], p) /\ WrittenFor(t[3], s)
  <2>1. On(stack) = {}
    BY OnNothing
  <2>2. PICK t \in graph : t[2] = "hasChild" /\ WrittenFor(t[3], s)
    BY <2>1 DEF Nested, Hung, WrittenFor
  <2>3. PICK q \in Id : Kind(q) \in StmtKinds /\ Encloses(q, s) /\ WrittenFor(t[1], q)
    BY <1>4, <2>2
  <2>4. p = q
    BY <1>1, <1>6, <2>3, OneEncloser
  <2> QED BY <2>2, <2>3, <2>4
<1> QED BY <1>5, <1>6

\* When the visit ends a statement hangs below the nearest statement that encloses
\* it in the dump and below no other (json_to_ttl.py, _emit_stmt_subtree).
THEOREM NestingAlways == Spec => []NestingIsTheDumps
<1>1. Init => Base /\ Unique /\ Nested
  BY BaseInit, UniqueInit, NestedInit
<1>2. Base /\ Unique /\ Nested /\ [Next]_vars => (Base /\ Unique /\ Nested)'
  BY BaseStep, UniqueStep, NestedStep
<1>3. Base /\ Unique /\ Nested => NestingIsTheDumps
  BY NestedSuffices
<1> QED BY <1>1, <1>2, <1>3, PTL DEF Spec

-----------------------------------------------------------------------------
(* What is searched below a statement.                                     *)

\* What is extracted below n: what is not below a callee.
Open(n) ==
  {m \in Subtree(n) : \A c \in Subtree(n) : m \in Subtree(c) => \A call \in Subtree(n) : ~CalleeOf(c, call)}
\* The reference at the end of the first children.
FirstDown(n) ==
  {r \in Subtree(n) :
     Kind(r) = "DeclRefExpr" /\ \A c \in Subtree(n) : r \in Subtree(c) /\ c # n => FirstChild(c)}

LEMMA OneParent ==
  ASSUME dump \in Dumps, NEW m \in Id, NEW n \in Id, NEW i \in DOMAIN Kids(m), NEW j \in DOMAIN Kids(n),
         Kids(m)[i] = Kids(n)[j], Busy(Kids(n)[j])
  PROVE  m = n /\ i = j
<1>1. OnePlace(dump)
  BY PlacesAssumption
<1>2. \E s \in Within(dump.kids)[dump.kids[n][j]] : dump.kind[s] \in StmtKinds \cup {"DeclRefExpr"}
  BY DEF Busy, Subtree, Kids, Kind
<1> QED BY <1>1, <1>2 DEF OnePlace, Kids

LEMMA CalleeFirst ==
  ASSUME dump \in Dumps, NEW call \in Id, Kids(call) # <<>>
  PROVE  1 \in DOMAIN Kids(call)
BY DumpTyped, HasFirst DEF Kids

LEMMA BusyUp ==
  ASSUME dump \in Dumps, NEW r \in Id, Busy(r), NEW n \in Id, r \in Subtree(n)
  PROVE  Busy(n)
BY SubtreeNests DEF Busy

\* What encloses a node of a child's subtree, below the parent, is in that subtree.
LEMMA InThatChild ==
  ASSUME dump \in Dumps, NEW n \in Id, NEW i \in DOMAIN Kids(n), NEW k, k = Kids(n)[i],
         NEW r \in Subtree(k), Busy(r), NEW c \in Subtree(n), c # n, r \in Subtree(c)
  PROVE  c \in Subtree(k)
<1>1. k \in Id /\ c \in Id /\ r \in Id
  BY KidTyped, SubtreeTyped
<1>2. c \in Subtree(k) \/ k \in Subtree(c)
  BY <1>1, EnclosersNest
<1>3. Busy(k)
  BY <1>1, BusyUp
<1>4. k \in Subtree(c) => k = c \/ n \in Subtree(c)
  BY <1>1, <1>3, ParentWithin
<1>5. n \notin Subtree(c)
  BY <1>1, Antisymmetric
<1> QED BY <1>1, <1>2, <1>4, <1>5, Rooted

LEMMA SameChild ==
  ASSUME dump \in Dumps, NEW n \in Id, NEW i \in DOMAIN Kids(n), NEW j \in DOMAIN Kids(n),
         NEW r, r \in Subtree(Kids(n)[i]), r \in Subtree(Kids(n)[j]), Busy(r)
  PROVE  i = j
<1>1. PICK k, l : k = Kids(n)[i] /\ l = Kids(n)[j]
  OBVIOUS
<1>2. k \in Id /\ l \in Id /\ k \in Subtree(n) /\ l \in Subtree(n) /\ k # n /\ l # n
  BY <1>1, KidTyped
<1>3. l \in Subtree(k)
  BY <1>1, <1>2, InThatChild
<1>4. k \in Subtree(l)
  BY <1>1, <1>2, InThatChild
<1>5. k = l
  BY <1>2, <1>3, <1>4, Antisymmetric
<1>6. r \in Id
  BY <1>1, <1>2, SubtreeTyped
<1>7. Busy(l)
  BY <1>1, <1>2, <1>6, BusyUp
<1> QED BY <1>1, <1>5, <1>7, OneParent

\* What is open below n is open below one of its children, not the callee.
LEMMA OpenUnfolds ==
  ASSUME dump \in Dumps, NEW n \in Id, NEW m \in Id, Busy(m)
  PROVE  m \in Open(n) <=>
           \/ m = n
           \/ \E i \in DOMAIN Kids(n) : (Kind(n) = "CallExpr" => i # 1) /\ m \in Open(Kids(n)[i])
<1>1. ASSUME m \in Open(n), m # n
      PROVE  \E i \in DOMAIN Kids(n) : (Kind(n) = "CallExpr" => i # 1) /\ m \in Open(Kids(n)[i])
  <2>1. m \in Subtree(n)
    BY <1>1 DEF Open
  <2>2. PICK i \in DOMAIN Kids(n) : m \in Subtree(Kids(n)[i])
    BY <1>1, <2>1, BelowChild
  <2>3. Kids(n)[i] \in Subtree(n) /\ n \in Subtree(n) /\ Subtree(Kids(n)[i]) \subseteq Subtree(n)
    BY KidTyped, Rooted
  <2>4. ~CalleeOf(Kids(n)[i], n)
    BY <1>1, <2>2, <2>3 DEF Open
  <2>5. Kind(n) = "CallExpr" => i # 1
    BY <2>4 DEF CalleeOf
  <2>6. m \in Open(Kids(n)[i])
    BY <1>1, <2>2, <2>3 DEF Open
  <2> QED BY <2>5, <2>6
<1>2. ASSUME NEW i \in DOMAIN Kids(n), Kind(n) = "CallExpr" => i # 1, m \in Open(Kids(n)[i])
      PROVE  m \in Open(n)
  <2>1. PICK k : k = Kids(n)[i]
    OBVIOUS
  <2>2. k \in Id /\ m \in Subtree(k) /\ m \in Subtree(n) /\ Busy(k)
    BY <1>2, <2>1, KidTyped, Rooted, BusyUp DEF Open
  <2>3. ASSUME NEW c \in Subtree(n), m \in Subtree(c), NEW call \in Subtree(n), CalleeOf(c, call) PROVE FALSE
    <3>1. c \in Id /\ call \in Id
      BY SubtreeTyped
    <3>2. 1 \in DOMAIN Kids(call) /\ c = Kids(call)[1] /\ Kind(call) = "CallExpr"
      BY <2>3, <3>1, CalleeFirst DEF CalleeOf
    <3>3. c # n
      BY <3>1, <3>2, NotBelowItself, Antisymmetric, KidTyped
    <3>4. c \in Subtree(k)
      BY <2>1, <2>2, <2>3, <3>3, InThatChild
    <3>5. Busy(c)
      BY <2>3, <3>1, BusyUp
    <3>6. CASE c = k
      <4>1. Kids(call)[1] = Kids(n)[i] /\ Busy(Kids(n)[i])
        BY <2>1, <3>2, <3>5, <3>6
      <4>2. call = n /\ i = 1
        BY <3>1, <3>2, <4>1, OneParent
      <4> QED BY <1>2, <3>2, <4>2
    <3>7. CASE c # k
      <4>1. call \in Subtree(k)
        BY <2>2, <3>1, <3>2, <3>4, <3>5, <3>7, ParentWithin
      <4> QED BY <1>2, <2>1, <2>3, <3>4, <4>1 DEF Open
    <3> QED BY <3>6, <3>7
  <2> QED BY <2>2, <2>3 DEF Open
<1>3. n \in Open(n)
  <2>1. n \in Subtree(n)
    BY Rooted
  <2>2. ASSUME NEW c \in Subtree(n), n \in Subtree(c), NEW call \in Subtree(n), CalleeOf(c, call) PROVE FALSE
    <3>1. c \in Id /\ call \in Id
      BY SubtreeTyped
    <3>2. 1 \in DOMAIN Kids(call) /\ c = Kids(call)[1]
      BY <2>2, <3>1, CalleeFirst DEF CalleeOf
    <3>3. c = n
      BY <2>2, <3>1, Antisymmetric
    <3> QED BY <2>2, <3>1, <3>2, <3>3, NotBelowItself
  <2> QED BY <2>1, <2>2 DEF Open
<1> QED BY <1>1, <1>2, <1>3

\* What is searched below a statement is open below one of its children, no statement.
LEMMA SearchedUnfolds ==
  ASSUME dump \in Dumps, NEW s \in Id, NEW m \in Id, Busy(m)
  PROVE  m \in Searched(s) <=> \E i \in DOMAIN Kids(s) : Kind(Kids(s)[i]) \notin StmtKinds /\ m \in Open(Kids(s)[i])
<1>1. ASSUME m \in Searched(s)
      PROVE  \E i \in DOMAIN Kids(s) : Kind(Kids(s)[i]) \notin StmtKinds /\ m \in Open(Kids(s)[i])
  <2>1. m \in Subtree(s) /\ m # s
    BY <1>1, Ancestors DEF Searched
  <2>2. PICK i \in DOMAIN Kids(s) : m \in Subtree(Kids(s)[i])
    BY <2>1, BelowChild
  <2>3. PICK k : k = Kids(s)[i]
    OBVIOUS
  <2>4. k \in Id /\ k \in Subtree(s) /\ k # s /\ k \in Subtree(k) /\ Subtree(k) \subseteq Subtree(s) /\ Subtree(k) \subseteq Id
    BY <2>3, KidTyped, Rooted, SubtreeTyped
  <2>5. s \notin Subtree(k)
    BY <2>3, NotBelowItself
  <2>6. \A c \in Subtree(k) : m \in Subtree(c) => c \in Chain(s, m)
    BY <2>4, <2>5, Ancestors DEF Chain
  <2>7. \A call \in Subtree(k) : call \in Below(s)
    BY <2>4, <2>5, Ancestors
  <2>8. Kind(k) \notin StmtKinds
    BY <1>1, <2>2, <2>3, <2>4, <2>6 DEF Searched
  <2>9. m \in Open(k)
    BY <1>1, <2>2, <2>3, <2>6, <2>7 DEF Searched, Open
  <2> QED BY <2>3, <2>8, <2>9
<1>2. ASSUME NEW i \in DOMAIN Kids(s), Kind(Kids(s)[i]) \notin StmtKinds, m \in Open(Kids(s)[i])
      PROVE  m \in Searched(s)
  <2>1. PICK k : k = Kids(s)[i]
    OBVIOUS
  <2>2. k \in Id /\ m \in Subtree(k) /\ Subtree(k) \subseteq Subtree(s) /\ k # s
    BY <1>2, <2>1, KidTyped, Rooted DEF Open
  <2>3. s \notin Subtree(k)
    BY <2>1, NotBelowItself
  <2>4. m \in Below(s)
    BY <2>2, <2>3, Ancestors
  <2>5. ASSUME NEW c \in Chain(s, m)
        PROVE  c \in Id /\ c \in Subtree(k) /\ Busy(c) /\ m \in Subtree(c)
    <3>1. c \in Id /\ m \in Subtree(c) /\ c \in Subtree(s) /\ c # s
      BY <2>5, Ancestors DEF Chain
    <3> QED BY <2>1, <2>2, <3>1, InThatChild, BusyUp
  <2>6. ASSUME NEW c \in Chain(s, m), Kind(c) \in StmtKinds, NEW j \in DOMAIN Kids(s), Kids(s)[j] = c PROVE FALSE
    <3>1. c \in Subtree(Kids(s)[i]) /\ c \in Subtree(Kids(s)[j]) /\ Busy(c)
      BY <2>1, <2>5, <2>6, Rooted
    <3>2. i = j
      BY <3>1, SameChild
    <3> QED BY <1>2, <2>6, <3>2
  <2>7. ASSUME NEW c \in Chain(s, m), NEW call \in Below(s), CalleeOf(c, call) PROVE FALSE
    <3>1. call \in Id /\ call # s
      BY <2>7, Ancestors
    <3>2. 1 \in DOMAIN Kids(call) /\ c = Kids(call)[1]
      BY <2>7, <3>1, CalleeFirst DEF CalleeOf
    <3>3. CASE c = k
      <4>1. Kids(call)[1] = Kids(s)[i] /\ Busy(Kids(s)[i])
        BY <2>1, <2>5, <3>2, <3>3
      <4> QED BY <3>1, <3>2, <4>1, OneParent
    <3>4. CASE c # k
      <4>1. call \in Subtree(k)
        BY <2>2, <2>5, <3>1, <3>2, <3>4, ParentWithin
      <4> QED BY <1>2, <2>1, <2>5, <2>7, <4>1 DEF Open
    <3> QED BY <3>3, <3>4
  <2> QED BY <2>4, <2>6, <2>7 DEF Searched
<1> QED BY <1>1, <1>2

\* The first children lead to what they lead to from the first child.
LEMMA FirstDownUnfolds ==
  ASSUME dump \in Dumps, NEW n \in Id
  PROVE  /\ Kind(n) = "DeclRefExpr" => FirstDown(n) = {n}
         /\ Kind(n) # "DeclRefExpr" /\ Kids(n) = <<>> => FirstDown(n) = {}
         /\ Kind(n) # "DeclRefExpr" /\ Kids(n) # <<>> => FirstDown(n) = FirstDown(Kids(n)[1])
<1>1. ASSUME Kids(n) = <<>> PROVE Subtree(n) = {n}
  BY <1>1, SubtreeUnfolds
<1>2. Kind(n) = "DeclRefExpr" => Kids(n) = <<>>
  BY PlacesAssumption DEF OnePlace, Kind, Kids
<1>3. Kind(n) = "DeclRefExpr" => FirstDown(n) = {n}
  BY <1>1, <1>2 DEF FirstDown
<1>4. Kind(n) # "DeclRefExpr" /\ Kids(n) = <<>> => FirstDown(n) = {}
  BY <1>1 DEF FirstDown
<1>5. ASSUME Kind(n) # "DeclRefExpr", Kids(n) # <<>> PROVE FirstDown(n) = FirstDown(Kids(n)[1])
  <2>1. PICK k : k = Kids(n)[1]
    OBVIOUS
  <2>2. 1 \in DOMAIN Kids(n)
    BY <1>5, CalleeFirst
  <2>3. k \in Id /\ k # n /\ k \in Subtree(n) /\ Subtree(k) \subseteq Subtree(n) /\ FirstChild(k)
    BY <1>5, <2>1, <2>2, KidTyped, Rooted DEF FirstChild
  <2>4. ASSUME NEW r \in FirstDown(n) PROVE r \in FirstDown(k)
    <3>1. r \in Subtree(n) /\ Kind(r) = "DeclRefExpr" /\ r # n /\ r \in Id
      BY <1>5, <2>4, SubtreeTyped DEF FirstDown
    <3>2. PICK i \in DOMAIN Kids(n) : r \in Subtree(Kids(n)[i])
      BY <3>1, BelowChild
    <3>3. PICK l : l = Kids(n)[i]
      OBVIOUS
    <3>4. l \in Id /\ l \in Subtree(n) /\ l # n
      BY <3>3, KidTyped
    <3>5. PICK o \in Id : Kids(o) # <<>> /\ Kids(o)[1] = l
      BY <2>4, <3>2, <3>3, <3>4 DEF FirstDown, FirstChild
    <3>6. Busy(r)
      BY <3>1, Rooted DEF Busy
    <3>7. Busy(l)
      BY <3>1, <3>2, <3>3, <3>4, <3>6, BusyUp
    <3>8. 1 \in DOMAIN Kids(o)
      BY <3>5, CalleeFirst
    <3>9. o = n /\ 1 = i
      BY <3>3, <3>5, <3>7, <3>8, OneParent
    <3>10. r \in Subtree(k)
      BY <2>1, <3>2, <3>9
    <3>11. n \notin Subtree(k)
      BY <2>1, <2>2, NotBelowItself
    <3>12. \A c \in Subtree(k) : r \in Subtree(c) => FirstChild(c)
      BY <2>3, <2>4, <3>11 DEF FirstDown
    <3> QED BY <3>1, <3>10, <3>12 DEF FirstDown
  <2>5. ASSUME NEW r \in FirstDown(k) PROVE r \in FirstDown(n)
    <3>1. r \in Subtree(k) /\ r \in Subtree(n) /\ Kind(r) = "DeclRefExpr" /\ r \in Id
      BY <2>3, <2>5, SubtreeTyped DEF FirstDown
    <3>2. Busy(r)
      BY <3>1, Rooted DEF Busy
    <3>3. ASSUME NEW c \in Subtree(n), r \in Subtree(c), c # n PROVE FirstChild(c)
      <4>1. c \in Subtree(k)
        BY <2>1, <2>2, <3>1, <3>2, <3>3, InThatChild
      <4> QED BY <2>3, <2>5, <3>3, <4>1 DEF FirstDown
    <3> QED BY <3>1, <3>3 DEF FirstDown
  <2> QED BY <2>1, <2>4, <2>5
<1> QED BY <1>3, <1>4, <1>5

\* Target is what the reference at the end of the first children refers to.
LEMMA TargetIs ==
  ASSUME dump \in Dumps
  PROVE  \A n \in Id : Target[n] = {dump.ref[r] : r \in FirstDown(n)}
<1> DEFINE P == {n \in Id : Target[n] = {dump.ref[r] : r \in FirstDown(n)}}
<1>1. ASSUME NEW n \in Id, \A i \in DOMAIN dump.kids[n] : dump.kids[n][i] \in P PROVE n \in P
  <2>1. Target[n] = TargetStep(Target, n)
    BY TargetUnfolds
  <2>2. Kids(n) # <<>> => Kids(n)[1] \in P
    BY <1>1, CalleeFirst DEF Kids
  <2>3. CASE Kind(n) = "DeclRefExpr"
    BY <2>1, <2>3, FirstDownUnfolds DEF TargetStep
  <2>4. CASE Kind(n) # "DeclRefExpr" /\ Kids(n) = <<>>
    BY <2>1, <2>4, FirstDownUnfolds DEF TargetStep
  <2>5. CASE Kind(n) # "DeclRefExpr" /\ Kids(n) # <<>>
    <3>1. FirstDown(n) = FirstDown(Kids(n)[1])
      BY <2>5, FirstDownUnfolds
    <3>2. Target[n] = Target[Kids(n)[1]]
      BY <2>1, <2>5 DEF TargetStep
    <3> QED BY <2>2, <2>5, <3>1, <3>2
  <2> QED BY <2>3, <2>4, <2>5
<1>2. P = Id
  <2> HIDE DEF P
  <2>1. P \in SUBSET Id
    BY DEF P
  <2> QED BY <1>1, <2>1, FromTheLeaves, DumpTyped
<1> QED BY <1>2

\* A call's callee as the dump says and as the converter finds it.
LEMMA CallsAre ==
  ASSUME dump \in Dumps, NEW n \in Id, Kind(n) = "CallExpr"
  PROVE  Calls(n) = {<<"calls", dump.ref[r]>> : r \in Callee(n)}
<1>1. Callee(n) = FirstDown(n)
  <2>1. ASSUME NEW r \in Callee(n) PROVE r \in FirstDown(n)
    <3>1. r \in Subtree(n) /\ Kind(r) = "DeclRefExpr"
      BY Ancestors DEF Callee
    <3>2. \A c \in Subtree(n) : r \in Subtree(c) /\ c # n => c \in Chain(n, r)
      <4>1. r \in Id /\ Subtree(n) \subseteq Id
        BY <3>1, SubtreeTyped
      <4> QED BY <4>1, Ancestors DEF Chain
    <3> QED BY <3>1, <3>2 DEF Callee, FirstDown
  <2>2. ASSUME NEW r \in FirstDown(n) PROVE r \in Callee(n)
    <3>1. r \in Subtree(n) /\ Kind(r) = "DeclRefExpr" /\ r # n /\ r \in Id
      BY SubtreeTyped DEF FirstDown
    <3>2. r \in Below(n)
      BY <3>1, Ancestors
    <3>3. \A c \in Chain(n, r) : c \in Subtree(n) /\ r \in Subtree(c) /\ c # n
      BY <3>1, Ancestors DEF Chain
    <3> QED BY <3>1, <3>2, <3>3 DEF Callee, FirstDown
  <2> QED BY <2>1, <2>2
<1>2. CASE Kids(n) = <<>>
  BY <1>1, <1>2, FirstDownUnfolds DEF Calls
<1>3. CASE Kids(n) # <<>>
  <2>1. Kids(n)[1] \in Id
    BY <1>3, CalleeFirst, KidTyped
  <2>2. Target[Kids(n)[1]] = {dump.ref[r] : r \in FirstDown(Kids(n)[1])}
    BY <2>1, TargetIs
  <2>3. FirstDown(Kids(n)[1]) = Callee(n)
    BY <1>1, <1>3, FirstDownUnfolds
  <2>4. Calls(n) = {<<"calls", id>> : id \in {dump.ref[r] : r \in Callee(n)}}
    BY <1>3, <2>2, <2>3 DEF Calls
  <2> QED BY <2>4
<1> QED BY <1>2, <1>3

\* What a node itself contributes to the edges of its statement.
Uses(n) ==
  {<<"refs", dump.ref[n]>> : k \in {j \in {n} : Kind(j) = "DeclRefExpr"}}
  \cup {<<"calls", dump.ref[r]>> : r \in {j \in Callee(n) : Kind(n) = "CallExpr"}}

LEMMA UsesOfBusy ==
  ASSUME dump \in Dumps, NEW n \in Id, Uses(n) # {}
  PROVE  Busy(n)
<1>1. CASE Kind(n) = "DeclRefExpr"
  BY <1>1, Rooted DEF Busy
<1>2. CASE \E r \in Callee(n) : TRUE
  BY <1>2, Ancestors DEF Callee, Busy
<1> QED BY <1>1, <1>2 DEF Uses

\* _extracted_refs collects what the open nodes contribute.
LEMMA ExtractedIs ==
  ASSUME dump \in Dumps
  PROVE  \A n \in Id : Extracted[n] = UNION {Uses(m) : m \in Open(n)}
<1> DEFINE P == {n \in Id : Extracted[n] = UNION {Uses(m) : m \in Open(n)}}
<1>1. ASSUME NEW n \in Id, \A i \in DOMAIN dump.kids[n] : dump.kids[n][i] \in P PROVE n \in P
  <2> DEFINE I == {i \in DOMAIN Kids(n) : Kind(n) = "CallExpr" => i # 1}
  <2>1. Extracted[n] = Uses(n) \cup UNION {Extracted[Kids(n)[i]] : i \in I}
    <3>1. Extracted[n] = ExtractedStep(Extracted, n)
      BY ExtractedUnfolds
    <3>2. CASE Kind(n) = "CallExpr"
      <4>1. Uses(n) = Calls(n)
        BY <3>2, CallsAre DEF Uses
      <4>2. I = DOMAIN Kids(n) \ {1}
        BY <3>2
      <4> HIDE DEF I
      <4> QED BY <3>1, <3>2, <4>1, <4>2 DEF ExtractedStep
    <3>3. CASE Kind(n) # "CallExpr"
      <4>1. Uses(n) = IF Kind(n) = "DeclRefExpr" THEN {<<"refs", dump.ref[n]>>} ELSE {}
        BY <3>3 DEF Uses
      <4>2. I = DOMAIN Kids(n)
        BY <3>3
      <4> HIDE DEF I
      <4> QED BY <3>1, <3>3, <4>1, <4>2 DEF ExtractedStep
    <3> QED BY <3>2, <3>3
  <2>2. \A i \in DOMAIN Kids(n) :
          Kids(n)[i] \in Id /\ Extracted[Kids(n)[i]] = UNION {Uses(m) : m \in Open(Kids(n)[i])}
    BY <1>1 DEF Kids
  <2>3. ASSUME NEW m \in Id, Busy(m) PROVE m \in Open(n) <=> m = n \/ \E i \in I : m \in Open(Kids(n)[i])
    BY <2>3, OpenUnfolds
  <2>4. n \in Open(n) \/ ~Busy(n)
    BY <2>3
  <2>5. \A i \in DOMAIN Kids(n) : Open(Kids(n)[i]) \subseteq Id
    BY <2>2, SubtreeTyped DEF Open
  <2>6. Open(n) \subseteq Id
    BY SubtreeTyped DEF Open
  <2>7. I \subseteq DOMAIN Kids(n)
    OBVIOUS
  <2> HIDE DEF P, I
  <2>8. ASSUME NEW e \in Extracted[n] PROVE e \in UNION {Uses(m) : m \in Open(n)}
    <3>1. CASE e \in Uses(n)
      <4>1. Busy(n)
        BY <3>1, UsesOfBusy
      <4> QED BY <2>4, <3>1, <4>1
    <3>2. CASE \E i \in I : e \in Extracted[Kids(n)[i]]
      <4>1. PICK i \in I : e \in Extracted[Kids(n)[i]]
        BY <3>2
      <4>2. PICK m \in Open(Kids(n)[i]) : e \in Uses(m)
        BY <2>2, <2>7, <4>1
      <4>3. m \in Id /\ Busy(m)
        BY <2>5, <2>7, <4>2, UsesOfBusy
      <4> QED BY <2>3, <4>2, <4>3
    <3> QED BY <2>1, <3>1, <3>2
  <2>9. ASSUME NEW m \in Open(n), NEW e \in Uses(m) PROVE e \in Extracted[n]
    <3>1. m \in Id /\ Busy(m)
      BY <2>6, <2>9, UsesOfBusy
    <3>2. CASE m = n
      BY <2>1, <2>9, <3>2
    <3>3. CASE \E i \in I : m \in Open(Kids(n)[i])
      BY <2>1, <2>2, <2>7, <2>9, <3>3
    <3> QED BY <2>3, <2>9, <3>1, <3>2, <3>3
  <2> QED BY <2>8, <2>9 DEF P
<1>2. P = Id
  <2> HIDE DEF P
  <2>1. P \in SUBSET Id
    BY DEF P
  <2> QED BY <1>1, <2>1, FromTheLeaves, DumpTyped
<1> QED BY <1>2

\* The edges of a statement are what the nodes searched below it contribute.
LEMMA EdgesAre ==
  ASSUME dump \in Dumps, NEW s \in Id
  PROVE  Edges(s) = UNION {Uses(m) : m \in Searched(s)}
<1> DEFINE I == {j \in DOMAIN Kids(s) : Kind(Kids(s)[j]) \notin StmtKinds}
<1>1. Edges(s) = UNION {Extracted[Kids(s)[i]] : i \in I}
  BY DEF Edges
<1>2. \A i \in I : Extracted[Kids(s)[i]] = UNION {Uses(m) : m \in Open(Kids(s)[i])}
  BY KidTyped, ExtractedIs
<1>3. ASSUME NEW m \in Id, Busy(m) PROVE m \in Searched(s) <=> \E i \in I : m \in Open(Kids(s)[i])
  BY <1>3, SearchedUnfolds
<1>4. \A i \in I : Open(Kids(s)[i]) \subseteq Id
  BY KidTyped, SubtreeTyped DEF Open
<1>5. Searched(s) \subseteq Id
  BY DEF Searched, Below
<1> HIDE DEF I
<1>6. ASSUME NEW i \in I, NEW m \in Open(Kids(s)[i]), NEW e \in Uses(m) PROVE m \in Searched(s)
  BY <1>3, <1>4, <1>6, UsesOfBusy
<1>7. ASSUME NEW m \in Searched(s), NEW e \in Uses(m) PROVE \E i \in I : m \in Open(Kids(s)[i])
  BY <1>3, <1>5, <1>7, UsesOfBusy
<1> QED BY <1>1, <1>2, <1>6, <1>7

\* The same said of any dump.
ExtractedIn(d, target) ==
  LET calls(n) == {<<"calls", id>> : id \in IF d.kids[n] = <<>> THEN {} ELSE target[d.kids[n][1]]}
      all[n \in Id] ==
        IF d.kind[n] = "CallExpr"
        THEN calls(n) \cup UNION {all[d.kids[n][i]] : i \in DOMAIN d.kids[n] \ {1}}
        ELSE (IF d.kind[n] = "DeclRefExpr" THEN {<<"refs", d.ref[n]>>} ELSE {})
             \cup UNION {all[d.kids[n][i]] : i \in DOMAIN d.kids[n]}
  IN all

LEMMA EdgesUnmoved ==
  ASSUME dump' = dump
  PROVE  \A n : Edges(n)' = Edges(n)
<1>1. Target' = Target
  BY Zenon DEF Target, Kind, Kids
<1>2. Extracted' = Extracted
  <2>1. Extracted = ExtractedIn(dump, Target)
    BY Zenon DEF Extracted, ExtractedIn, Calls, Kind, Kids
  <2>2. Extracted' = ExtractedIn(dump', Target')
    BY Zenon DEF Extracted, ExtractedIn, Calls, Kind, Kids
  <2> QED BY <1>1, <2>1, <2>2, Zenon
<1> QED BY <1>2, Zenon DEF Edges, Kind, Kids

-----------------------------------------------------------------------------
(* The edges of a statement.                                               *)

\* The ids that a visit of the item will record.
Records(d, item) ==
  {n \in {item.node} \cup Parameters(d, item.node) : item.role = "convert"}
  \cup {n \in {item.node} : item.role = "function" /\ d.kind[n] = "ParmVarDecl"}
ToRecord(d, st) == UNION {Records(d, item) : item \in On(st)}
\* What is visited earlier does not refer to them.
Order(d, st) ==
  \A k, l \in DOMAIN st : k < l => \A id \in Records(d, st[l]) : id \notin ReferredTo(d)[st[k].node]

RefIn(known, id) == IF known[id] # NoIri THEN known[id] ELSE Unknown(id)
\* The edge is one of the statement it leaves; the statement has all its edges.
Accounted(g, known, t) ==
  \E s \in Id : /\ Kind(s) \in StmtKinds /\ <<t[1], "clangNodeId", s>> \in g
                /\ \E e \in Edges(s) : t[2] = e[1] /\ t[3] = RefIn(known, e[2])
Complete(g, known, iri, s) == \A e \in Edges(s) : <<iri, e[1], RefIn(known, e[2])>> \in g
\* What the statement refers to has been recorded, or never will.
Settled(st, s) == \A e \in Edges(s) : e[2] \notin ToRecord(dump, st)

Exact ==
  /\ \A t \in graph : t[2] \in {"refs", "calls"} => Accounted(graph, iris, t)
  /\ \A t \in graph : t[2] = "hasChild" =>
       \A s \in Id : <<t[3], "clangNodeId", s>> \in graph => Complete(graph, iris, t[3], s)
  /\ \A t \in graph : t[2] = "clangNodeId" /\ Kind(t[3]) \in StmtKinds => Settled(stack, t[3])
  /\ Order(dump, stack)

\* What is put on the stack: children of the node, which record no more than it does.
Pushes(new) ==
  /\ new \in Seq(Item) /\ Then(new)
  /\ \A m \in DOMAIN new : /\ m \in DOMAIN Kids(Node) /\ new[m].node = Kids(Node)[m]
                           /\ Records(dump, new[m]) \subseteq Records(dump, Top)
  /\ Order(dump, new)

LEMMA OrderKept ==
  ASSUME Base, stack # <<>>, Order(dump, stack), NEW new, Pushes(new)
  PROVE  /\ Order(dump, stack') /\ ToRecord(dump, stack') \subseteq ToRecord(dump, stack)
         /\ (\A m \in DOMAIN new : Records(dump, new[m]) = {}) =>
              \A id \in ReferredTo(dump)[Node] : id \notin ToRecord(dump, stack')
<1> DEFINE r == new \o Tail(stack)
<1>1. /\ new \in Seq(Item) /\ stack' = r /\ dump \in Dumps /\ Node \in Id
      /\ 1 \in DOMAIN stack /\ Top = stack[1] /\ DOMAIN stack \subseteq Nat
      /\ DOMAIN new = 1..Len(new) /\ Len(new) \in Nat
  BY TopTyped DEF Pushes, Then, Base
<1>2. /\ r \in Seq(Item)
      /\ \A k \in DOMAIN r :
           \/ k \in DOMAIN new /\ r[k] = new[k]
           \/ \E j \in DOMAIN stack : j > 1 /\ k = Len(new) + j - 1 /\ r[k] = stack[j]
  <2>1. stack \in Seq(Item) /\ stack # <<>> /\ new \in Seq(Item)
    BY <1>1 DEF Base
  <2> QED BY <2>1, Replacing
<1> HIDE DEF r
<1>4. ASSUME NEW k \in DOMAIN r, NEW l \in DOMAIN r, k < l, NEW id \in Records(dump, r[l])
      PROVE  id \notin ReferredTo(dump)[r[k].node]
  <2>1. CASE k \in DOMAIN new /\ r[k] = new[k] /\ l \in DOMAIN new /\ r[l] = new[l]
    BY <1>4, <2>1 DEF Pushes, Order
  <2>2. ASSUME NEW j \in DOMAIN stack, j > 1, l = Len(new) + j - 1, r[l] = stack[j], k \in DOMAIN new, r[k] = new[k]
        PROVE  id \notin ReferredTo(dump)[r[k].node]
    <3>1. id \notin ReferredTo(dump)[Node]
      BY <1>1, <1>4, <2>2 DEF Order, Node
    <3>2. ReferredTo(dump)[r[k].node] \subseteq ReferredTo(dump)[Node]
      BY <1>1, <2>2, ReferredDescends DEF Pushes, Kids
    <3> QED BY <3>1, <3>2
  <2>3. ASSUME NEW j \in DOMAIN stack, j > 1, l = Len(new) + j - 1, r[l] = stack[j],
               NEW i \in DOMAIN stack, i > 1, k = Len(new) + i - 1, r[k] = stack[i]
        PROVE  id \notin ReferredTo(dump)[r[k].node]
    <3>1. i < j
      BY <1>1, <1>4, <2>3
    <3> QED BY <1>4, <2>3, <3>1 DEF Order
  <2>4. ~(l \in DOMAIN new /\ \E i \in DOMAIN stack : i > 1 /\ k = Len(new) + i - 1)
    BY <1>1, <1>4
  <2> QED BY <1>2, <2>1, <2>2, <2>3, <2>4
<1>5. ASSUME NEW item \in On(r), NEW id \in Records(dump, item)
      PROVE  \/ \E m \in DOMAIN new : id \in Records(dump, new[m])
             \/ \E j \in DOMAIN stack : j > 1 /\ id \in Records(dump, stack[j])
  <2>1. PICK k \in DOMAIN r : item = r[k]
    BY DEF On
  <2> QED BY <1>2, <1>5, <2>1
<1>6. ToRecord(dump, r) \subseteq ToRecord(dump, stack)
  <2> SUFFICES ASSUME NEW id \in ToRecord(dump, r) PROVE id \in ToRecord(dump, stack)
    OBVIOUS
  <2>1. \A j \in DOMAIN stack : Records(dump, stack[j]) \subseteq ToRecord(dump, stack)
    BY DEF ToRecord, On
  <2>2. PICK item \in On(r) : id \in Records(dump, item)
    BY DEF ToRecord
  <2>3. CASE \E m \in DOMAIN new : id \in Records(dump, new[m])
    <3>1. id \in Records(dump, stack[1])
      BY <1>1, <2>3 DEF Pushes
    <3> QED BY <1>1, <2>1, <3>1
  <2> QED BY <1>5, <2>1, <2>2, <2>3
<1>7. ASSUME \A m \in DOMAIN new : Records(dump, new[m]) = {}, NEW id \in ReferredTo(dump)[Node]
      PROVE  id \notin ToRecord(dump, r)
  <2>1. \A j \in DOMAIN stack : j > 1 => id \notin Records(dump, stack[j])
    BY <1>1, <1>7 DEF Order, Node
  <2> QED BY <1>5, <1>7, <2>1 DEF ToRecord
<1> QED BY <1>1, <1>4, <1>6, <1>7 DEF Order

LEMMA EdgeTyped ==
  ASSUME dump \in Dumps, NEW s \in Id, NEW e \in Edges(s)
  PROVE  e[1] \in {"refs", "calls"} /\ e[2] \in Id /\ e[2] \in ReferredTo(dump)[s] /\ e = <<e[1], e[2]>>
<1>1. e \in Edge(ReferredTo(dump)[s]) /\ ReferredTo(dump)[s] \subseteq Id
  BY EdgesReferred, ReferredTyped
<1> QED BY <1>1 DEF Edge

\* A step that puts new on the stack, and what it must show of what it writes.
LEMMA ExactBy ==
  ASSUME Base, Nested, Exact, OneNodePerIri', stack # <<>>, dump' = dump, graph \subseteq graph',
         NEW new, Pushes(new),
         \A id \in Id : iris'[id] = iris[id] \/ id \in ToRecord(dump, stack),
         \A t \in graph' : t[2] \in {"refs", "calls"} => t \in graph \/ Accounted(graph', iris', t),
         \A t \in graph' : t[2] = "hasChild" =>
           \/ t \in graph
           \/ \A s \in Id : <<t[3], "clangNodeId", s>> \in graph' => Complete(graph', iris', t[3], s),
         \A t \in graph' : t[2] = "clangNodeId" /\ Kind(t[3]) \in StmtKinds => t \in graph \/ Settled(stack', t[3])
  PROVE  Exact'
<1>1. dump \in Dumps /\ Order(dump, stack') /\ ToRecord(dump, stack') \subseteq ToRecord(dump, stack)
  BY OrderKept DEF Exact, Base
<1>2. ASSUME NEW s \in Id, NEW iri, Kind(s) \in StmtKinds, <<iri, "clangNodeId", s>> \in graph
      PROVE  Settled(stack, s) /\ \A e \in Edges(s) : RefIn(iris', e[2]) = RefIn(iris, e[2])
  <2>1. PICK t : t = <<iri, "clangNodeId", s>>
    OBVIOUS
  <2>2. t \in graph /\ t[2] = "clangNodeId" /\ t[3] = s
    BY <1>2, <2>1
  <2>3. Settled(stack, s)
    BY <1>2, <2>2 DEF Exact
  <2>4. \A e \in Edges(s) : e[2] \in Id /\ e[2] \notin ToRecord(dump, stack)
    BY <1>1, <2>3, EdgeTyped DEF Settled
  <2> QED BY <2>3, <2>4 DEF RefIn
<1>3. ASSUME NEW t \in graph', t[2] \in {"refs", "calls"} PROVE Accounted(graph', iris', t)
  <2>1. CASE t \in graph
    <3>1. PICK s \in Id : /\ Kind(s) \in StmtKinds /\ <<t[1], "clangNodeId", s>> \in graph
                          /\ \E e \in Edges(s) : t[2] = e[1] /\ t[3] = RefIn(iris, e[2])
      BY <1>3, <2>1 DEF Exact, Accounted
    <3>2. \A e \in Edges(s) : RefIn(iris', e[2]) = RefIn(iris, e[2])
      BY <1>2, <3>1
    <3> QED BY <3>1, <3>2 DEF Accounted
  <2> QED BY <1>3, <2>1
<1>4. ASSUME NEW t \in graph', t[2] = "hasChild", NEW s \in Id, <<t[3], "clangNodeId", s>> \in graph'
      PROVE  Complete(graph', iris', t[3], s)
  <2>1. CASE t \in graph
    <3>1. PICK o \in Id : Kind(o) \in StmtKinds /\ <<t[3], "clangNodeId", o>> \in graph
      BY <1>4, <2>1 DEF Nested, Joins
    <3>2. PICK u, v : u = <<t[3], "clangNodeId", o>> /\ v = <<t[3], "clangNodeId", s>>
      OBVIOUS
    <3>3. /\ u \in graph' /\ v \in graph' /\ u[1] = v[1] /\ u[2] = "clangNodeId" /\ v[2] = "clangNodeId"
          /\ u[3] = o /\ v[3] = s
      BY <1>4, <3>1, <3>2
    <3>4. u = v
      BY <3>1, <3>3 DEF OneNodePerIri, Kind
    <3>5. o = s
      BY <3>3, <3>4
    <3>6. Complete(graph, iris, t[3], s)
      BY <1>4, <2>1, <3>1, <3>5 DEF Exact
    <3>7. \A e \in Edges(s) : RefIn(iris', e[2]) = RefIn(iris, e[2])
      BY <1>2, <3>1, <3>5
    <3> QED BY <3>6, <3>7 DEF Complete
  <2> QED BY <1>4, <2>1
<1>5. ASSUME NEW t \in graph', t[2] = "clangNodeId", Kind(t[3]) \in StmtKinds PROVE Settled(stack', t[3])
  <2>1. CASE t \in graph
    BY <1>1, <1>5, <2>1 DEF Exact, Settled
  <2> QED BY <1>5, <2>1
<1>6. \A n : Edges(n)' = Edges(n) /\ Kind(n)' = Kind(n)
  BY EdgesUnmoved DEF Kind
<1>7. \A t \in graph' : t[2] \in {"refs", "calls"} => Accounted(graph, iris, t)'
  BY <1>3, <1>6 DEF Accounted
<1>8. \A t \in graph' : t[2] = "hasChild" =>
        \A s \in Id : <<t[3], "clangNodeId", s>> \in graph' => Complete(graph, iris, t[3], s)'
  BY <1>4, <1>6 DEF Complete
<1>9. \A t \in graph' : t[2] = "clangNodeId" /\ Kind(t[3])' \in StmtKinds => Settled(stack, t[3])'
  BY <1>5, <1>6 DEF Settled
<1> QED BY <1>1, <1>7, <1>8, <1>9 DEF Exact

LEMMA ExactInit ==
  ASSUME Init
  PROVE  Exact
<1>1. /\ dump \in Dumps /\ stack = Items("convert", Tu, dump.tops)
      /\ graph = {<<Tu, "a", "TranslationUnitDecl">>}
  BY DEF Init
<1>2. dump.tops \in Seq(Id) /\ "convert" \in Roles /\ Tu \in Parents /\ DeclaredFirst(dump)
  BY <1>1, DumpTyped DEF Roles, Parents
<1>3. /\ DOMAIN stack = DOMAIN dump.tops
      /\ \A i \in DOMAIN dump.tops : stack[i].role = "convert" /\ stack[i].node = dump.tops[i]
  BY <1>1, <1>2, ItemsTyped
<1>4. ASSUME NEW k \in DOMAIN stack, NEW l \in DOMAIN stack, k < l, NEW id \in Records(dump, stack[l])
      PROVE  id \notin ReferredTo(dump)[stack[k].node]
  <2>1. id \in {dump.tops[l]} \cup Parameters(dump, dump.tops[l])
    BY <1>3, <1>4 DEF Records
  <2> QED BY <1>2, <1>3, <1>4, <2>1 DEF DeclaredFirst
<1>5. \A t \in graph : t[2] = "a"
  BY <1>1
<1> QED BY <1>4, <1>5 DEF Exact, Order

LEMMA PushesNothing ==
  ASSUME Then(<<>>)
  PROVE  Pushes(<<>>)
BY OnNothing DEF Pushes, Order

\* The children of a node, on the stack.
LEMMA PushesChildren ==
  ASSUME Base, stack # <<>>, NEW role \in {"function", "statement"}, NEW parent \in Parents,
         Then(Items(role, parent, Kids(Node))),
         role = "function" => Top.role = "convert" /\ Kind(Node) = "FunctionDecl"
  PROVE  /\ Pushes(Items(role, parent, Kids(Node)))
         /\ role = "statement" => \A m \in DOMAIN Items(role, parent, Kids(Node)) :
                                    Records(dump, Items(role, parent, Kids(Node))[m]) = {}
<1>1. role \in Roles /\ Kids(Node) \in Seq(Id) /\ Node \in Id /\ dump \in Dumps
  BY TopTyped DEF Roles, Base
<1> DEFINE new == Items(role, parent, Kids(Node))
<1>2. /\ new \in Seq(Item) /\ DOMAIN new = DOMAIN Kids(Node)
      /\ \A m \in DOMAIN Kids(Node) : new[m].role = role /\ new[m].node = Kids(Node)[m]
  BY <1>1, ItemsTyped
<1>3. Then(new)
  OBVIOUS
<1> HIDE DEF new
<1>4. role = "statement" => \A m \in DOMAIN new : Records(dump, new[m]) = {}
  BY <1>2 DEF Records
<1>5. ASSUME role = "function", NEW m \in DOMAIN new, NEW id \in Records(dump, new[m])
      PROVE  id = Kids(Node)[m] /\ id \in Parameters(dump, Node)
  <2>1. id = Kids(Node)[m] /\ dump.kind[id] = "ParmVarDecl" /\ id \in Id
    BY <1>1, <1>2, <1>5 DEF Records
  <2> QED BY <1>2, <1>5, <2>1 DEF Parameters, Kind, Kids
<1>6. \A m \in DOMAIN new : Records(dump, new[m]) \subseteq Records(dump, Top)
  <2>1. CASE role = "statement"
    BY <1>4, <2>1
  <2>2. CASE role = "function"
    <3>1. Parameters(dump, Node) \subseteq Records(dump, Top)
      BY <2>2 DEF Records, Node
    <3> QED BY <1>5, <2>2, <3>1
  <2> QED BY <2>1, <2>2
<1>7. Order(dump, new)
  <2>1. CASE role = "statement"
    BY <1>4, <2>1 DEF Order
  <2>2. CASE role = "function"
    <3>1. DeclaredFirst(dump)
      BY <1>1, DumpTyped
    <3>2. ASSUME NEW k \in DOMAIN new, NEW l \in DOMAIN new, k < l, NEW id \in Records(dump, new[l])
          PROVE  id \notin ReferredTo(dump)[new[k].node]
      <4>1. id = Kids(Node)[l] /\ id \in Parameters(dump, Node)
        BY <1>5, <2>2, <3>2
      <4> QED BY <1>1, <1>2, <3>1, <3>2, <4>1 DEF DeclaredFirst, Kids
    <3> QED BY <3>2 DEF Order
  <2> QED BY <2>1, <2>2
<1>8. Pushes(new)
  BY <1>2, <1>3, <1>6, <1>7 DEF Pushes
<1> QED BY <1>4, <1>8 DEF new

LEMMA ExactStep ==
  ASSUME Base, Nested, Exact, OneNodePerIri', [Next]_vars
  PROVE  Exact'
<1>1. CASE SkipDecl \/ SkipChild \/ Descend
  <2>1. /\ stack # <<>> /\ dump' = dump /\ graph' = graph /\ iris' = iris
        /\ \E new : Pushes(new)
    <3>1. CASE SkipDecl \/ SkipChild
      BY <3>1, PushesNothing DEF SkipDecl, SkipChild, Visiting
    <3>2. CASE Descend
      <4>1. stack # <<>> /\ Then(Items("statement", Top.parent, Kids(Node)))
        BY <3>2 DEF Descend, Visiting
      <4>2. Pushes(Items("statement", Top.parent, Kids(Node)))
        BY <4>1, TopTyped, PushesChildren
      <4> QED BY <3>2, <4>1, <4>2 DEF Descend
    <3> QED BY <1>1, <3>1, <3>2
  <2>2. PICK new : Pushes(new)
    BY <2>1
  <2> QED BY <2>1, <2>2, ExactBy
<1>2. CASE EmitDecl
  <2>1. /\ stack # <<>> /\ dump' = dump /\ Top.role = "convert" /\ iris' = [iris EXCEPT ![Node] = DeclIri(Node)]
        /\ graph \subseteq graph' /\ Kind(Node) \notin StmtKinds
    BY <1>2 DEF EmitDecl, Visiting, Skipped, NamedDeclKinds, RecordKinds, StmtKinds
  <2>2. Node \in Id /\ DeclIri(Node) \in Parents
    BY <2>1, TopTyped, IrisTyped DEF Parents
  <2>3. \E new : Pushes(new)
    <3>1. CASE Kind(Node) # "FunctionDecl"
      BY <1>2, <3>1, PushesNothing DEF EmitDecl
    <3>2. CASE Kind(Node) = "FunctionDecl"
      <4>1. Then(Items("function", DeclIri(Node), Kids(Node)))
        BY <1>2, <3>2 DEF EmitDecl
      <4>2. Pushes(Items("function", DeclIri(Node), Kids(Node)))
        BY <2>1, <2>2, <3>2, <4>1, PushesChildren
      <4> QED BY <4>2
    <3> QED BY <3>1, <3>2
  <2>4. PICK new : Pushes(new)
    BY <2>3
  <2>5. Node \in ToRecord(dump, stack)
    BY <2>1, TopTyped DEF ToRecord, On, Records, Node
  <2>6. \A id \in Id : iris'[id] = iris[id] \/ id \in ToRecord(dump, stack)
    BY <2>1, <2>5 DEF Base
  <2>7. \A t \in graph' : t[2] \in {"refs", "calls", "hasChild"} => t \in graph
    BY <1>2 DEF EmitDecl, Written
  <2>8. \A t \in graph' : t[2] = "clangNodeId" /\ Kind(t[3]) \in StmtKinds => t \in graph
    BY <1>2, <2>1 DEF EmitDecl, Written
  <2> QED BY <2>1, <2>4, <2>6, <2>7, <2>8, ExactBy
<1>3. CASE EmitParam
  <2>1. /\ stack # <<>> /\ dump' = dump /\ Top.role = "function" /\ Kind(Node) = "ParmVarDecl"
        /\ iris' = [iris EXCEPT ![Node] = ParamIri(Top.parent, Top.index, Node)]
        /\ graph \subseteq graph' /\ Pushes(<<>>)
    BY <1>3, PushesNothing DEF EmitParam, Visiting
  <2>2. Node \in ToRecord(dump, stack)
    BY <2>1, TopTyped DEF ToRecord, On, Records, Node, Kind
  <2>3. \A id \in Id : iris'[id] = iris[id] \/ id \in ToRecord(dump, stack)
    BY <2>1, <2>2 DEF Base
  <2>4. \A t \in graph' : t[2] \in {"refs", "calls", "hasChild", "clangNodeId"} => t \in graph
    BY <1>3 DEF EmitParam
  <2> QED BY <2>1, <2>3, <2>4, ExactBy
<1>4. CASE EmitBody \/ EmitStmt
  <2> DEFINE iri == SpanIri(Node)
             new == Items("statement", iri, Kids(Node))
             refs == References(iri, Node)
             edges == {<<Top.parent, "hasBody", iri>>}
             child == <<Top.parent, "hasChild", iri>>
             flag == {<<Top.parent, "isDefinition", TRUE>>}
  <2>1. stack # <<>> /\ dump' = dump /\ iris' = iris /\ Then(new) /\ Kind(Node) \in StmtKinds
    BY <1>4 DEF EmitBody, EmitStmt, Visiting, StmtKinds
  <2>2. Node \in Id /\ iri \in Parents /\ dump \in Dumps
    BY <2>1, TopTyped, IrisTyped DEF Parents, Base
  <2>3. Pushes(new) /\ \A m \in DOMAIN new : Records(dump, new[m]) = {}
    BY <2>1, <2>2, PushesChildren
  <2>4. Settled(stack', Node)
    <3>1. \A id \in ReferredTo(dump)[Node] : id \notin ToRecord(dump, stack')
      BY <2>1, <2>3, OrderKept DEF Exact
    <3> QED BY <2>2, <3>1, EdgeTyped DEF Settled
  <2>5. \A x : <<Top.parent, "isDefinition", x>>[2] = "isDefinition"
    OBVIOUS
  <2>6. /\ \A t \in edges : t[2] = "hasBody"
        /\ child[2] = "hasChild" /\ child[3] = iri
        /\ \A t \in flag : t[2] = "isDefinition"
    BY <2>5
  <2> HIDE DEF iri, edges, child, flag
  <2>7. /\ \A t \in refs : t[2] \in {"refs", "calls"} /\ t[1] = iri
                           /\ \E e \in Edges(Node) : t[2] = e[1] /\ t[3] = RefIn(iris, e[2])
        /\ \A e \in Edges(Node) : <<iri, e[1], RefIn(iris, e[2])>> \in refs
    <3>1. \A id : RefIri(id) = RefIn(iris, id)
      BY DEF RefIri, RefIn
    <3>2. \A t \in refs : \E e \in Edges(Node) : t = <<iri, e[1], RefIn(iris, e[2])>>
      BY <3>1 DEF References
    <3>3. \A e \in Edges(Node) : <<iri, e[1], RefIn(iris, e[2])>> \in refs
      BY <3>1 DEF References
    <3>4. \A e \in Edges(Node) : e[1] \in {"refs", "calls"}
      BY <2>2, EdgeTyped
    <3> QED BY <3>2, <3>3, <3>4
  <2> HIDE DEF refs, new
  <2>8. \E some : \E more :
          /\ graph' = (graph \cup Written(iri, Node)) \cup (some \cup more)
          /\ \/ some = edges \cup flag /\ more = {}
             \/ some = {child} /\ more = refs
    <3>1. CASE EmitBody
      <4> WITNESS edges \cup flag
      <4> WITNESS {}
      <4> QED BY <3>1 DEF EmitBody, edges, flag, iri
    <3>2. CASE EmitStmt
      <4> WITNESS {child}
      <4> WITNESS refs
      <4> QED BY <3>2 DEF EmitStmt, References, refs, child, iri
    <3> QED BY <1>4, <3>1, <3>2
  <2>9. PICK some, more :
          /\ graph' = (graph \cup Written(iri, Node)) \cup (some \cup more)
          /\ \/ some = edges \cup flag /\ more = {}
             \/ some = {child} /\ more = refs
    BY <2>8
  <2>10. graph \subseteq graph' /\ <<iri, "clangNodeId", Node>> \in graph'
    BY <2>9 DEF Written
  <2>11. ASSUME NEW t \in graph', t[2] \in {"refs", "calls"} PROVE t \in graph \/ Accounted(graph', iris', t)
    <3>1. t \in graph \/ t \in refs
      BY <2>6, <2>9, <2>11 DEF Written
    <3> QED BY <2>1, <2>2, <2>7, <2>10, <3>1 DEF Accounted
  <2>12. ASSUME NEW t \in graph', t[2] = "hasChild", t \notin graph,
                NEW s \in Id, <<t[3], "clangNodeId", s>> \in graph'
         PROVE  Complete(graph', iris', t[3], s)
    <3>1. t = child /\ refs \subseteq graph'
      BY <2>6, <2>7, <2>9, <2>12 DEF Written
    <3>2. PICK u, v : u = <<iri, "clangNodeId", Node>> /\ v = <<iri, "clangNodeId", s>>
      OBVIOUS
    <3>3. /\ u \in graph' /\ v \in graph' /\ u[1] = v[1] /\ u[2] = "clangNodeId" /\ v[2] = "clangNodeId"
          /\ u[3] = Node /\ v[3] = s
      BY <2>6, <2>10, <2>12, <3>1, <3>2
    <3>4. Kind(u[3])' \in StmtKinds
      BY <2>1, <3>3 DEF Kind
    <3>5. u = v
      BY <3>3, <3>4 DEF OneNodePerIri
    <3>6. s = Node
      BY <3>3, <3>5
    <3> QED BY <2>1, <2>6, <2>7, <3>1, <3>6 DEF Complete
  <2>13. ASSUME NEW t \in graph', t[2] = "clangNodeId", t \notin graph PROVE Settled(stack', t[3])
    <3>1. t[3] = Node
      BY <2>6, <2>7, <2>9, <2>13 DEF Written
    <3> QED BY <2>4, <3>1
  <2> QED BY <2>1, <2>3, <2>10, <2>11, <2>12, <2>13, ExactBy
<1>5. CASE Done \/ TooDeep \/ UNCHANGED vars
  <2>1. dump' = dump /\ stack' = stack /\ graph' = graph /\ iris' = iris
    BY <1>5 DEF Done, TooDeep, vars
  <2>2. \A n : Edges(n)' = Edges(n) /\ Kind(n)' = Kind(n)
    BY <2>1, EdgesUnmoved DEF Kind
  <2> QED BY <2>1, <2>2 DEF Exact, Accounted, Complete, Settled
<1> QED BY <1>1, <1>2, <1>3, <1>4, <1>5 DEF Next

LEMMA ExactSuffices ==
  ASSUME Base, Unique, Nested, Exact
  PROVE  EdgesAreExact
<1> SUFFICES ASSUME stack = <<>>, NEW s \in Stmts
             PROVE  {<<t[2], t[3]>> : t \in {u \in graph : u[2] \in {"refs", "calls"} /\ WrittenFor(u[1], s)}}
                      = {<<"refs", RefIri(dump.ref[r])>> : r \in {n \in Searched(s) : Kind(n) = "DeclRefExpr"}}
                        \cup {<<"calls", RefIri(dump.ref[r])>> :
                               r \in UNION {Callee(k) : k \in {n \in Searched(s) : Kind(n) = "CallExpr"}}}
  BY DEF EdgesAreExact, Finished
<1> DEFINE found == {<<t[2], t[3]>> : t \in {u \in graph : u[2] \in {"refs", "calls"} /\ WrittenFor(u[1], s)}}
           due == {<<e[1], RefIri(e[2])>> : e \in Edges(s)}
           refs == {<<"refs", RefIri(dump.ref[r])>> : r \in {n \in Searched(s) : Kind(n) = "DeclRefExpr"}}
           calls == {<<"calls", RefIri(dump.ref[r])>> :
                       r \in UNION {Callee(k) : k \in {n \in Searched(s) : Kind(n) = "CallExpr"}}}
<1>1. s \in Id /\ Kind(s) \in StmtKinds /\ dump \in Dumps /\ OneNodePerIri
  BY UniqueSuffices DEF Stmts, Base
<1>2. \A id : RefIri(id) = RefIn(iris, id)
  BY DEF RefIri, RefIn
<1>3. ASSUME NEW t \in graph, t[2] \in {"refs", "calls"}, WrittenFor(t[1], s) PROVE <<t[2], t[3]>> \in due
  <2>1. PICK o \in Id : /\ Kind(o) \in StmtKinds /\ <<t[1], "clangNodeId", o>> \in graph
                        /\ \E e \in Edges(o) : t[2] = e[1] /\ t[3] = RefIn(iris, e[2])
    BY <1>3 DEF Exact, Accounted
  <2>2. PICK u, v : u = <<t[1], "clangNodeId", o>> /\ v = <<t[1], "clangNodeId", s>>
    OBVIOUS
  <2>3. /\ u \in graph /\ v \in graph /\ u[1] = v[1] /\ u[2] = "clangNodeId" /\ v[2] = "clangNodeId"
        /\ u[3] = o /\ v[3] = s
    BY <1>3, <2>1, <2>2 DEF WrittenFor
  <2>4. u = v
    BY <1>1, <2>1, <2>3 DEF OneNodePerIri
  <2>5. o = s
    BY <2>3, <2>4
  <2> QED BY <1>2, <2>1, <2>5
<1>4. ASSUME NEW e \in Edges(s) PROVE <<e[1], RefIri(e[2])>> \in found
  <2>1. PICK t \in graph : t[2] = "hasChild" /\ <<t[3], "clangNodeId", s>> \in graph
    BY OnNothing DEF Nested, Hung
  <2>2. <<t[3], e[1], RefIri(e[2])>> \in graph
    BY <1>1, <1>2, <2>1 DEF Exact, Complete
  <2>3. PICK u : u = <<t[3], e[1], RefIri(e[2])>>
    OBVIOUS
  <2>4. u \in graph /\ u[1] = t[3] /\ u[2] = e[1] /\ u[3] = RefIri(e[2])
    BY <2>2, <2>3
  <2>5. e[1] \in {"refs", "calls"}
    BY <1>1, EdgeTyped
  <2>6. WrittenFor(u[1], s)
    BY <2>1, <2>4 DEF WrittenFor
  <2>7. <<u[2], u[3]>> \in found
    BY <2>4, <2>5, <2>6
  <2> QED BY <2>4, <2>7
<1>5. found = due
  BY <1>3, <1>4
<1>6. Edges(s) = UNION {Uses(m) : m \in Searched(s)}
  BY <1>1, EdgesAre
<1>7. ASSUME NEW m \in Searched(s), NEW e \in Uses(m) PROVE <<e[1], RefIri(e[2])>> \in refs \cup calls
  <2>1. CASE Kind(m) = "DeclRefExpr" /\ e = <<"refs", dump.ref[m]>>
    <3>1. <<e[1], RefIri(e[2])>> = <<"refs", RefIri(dump.ref[m])>>
      BY <2>1
    <3> QED BY <2>1, <3>1
  <2>2. CASE Kind(m) = "CallExpr" /\ \E r \in Callee(m) : e = <<"calls", dump.ref[r]>>
    <3>1. PICK r \in Callee(m) : e = <<"calls", dump.ref[r]>>
      BY <2>2
    <3>2. <<e[1], RefIri(e[2])>> = <<"calls", RefIri(dump.ref[r])>>
      BY <3>1
    <3> QED BY <2>2, <3>1, <3>2
  <2> QED BY <1>7, <2>1, <2>2 DEF Uses
<1>8. due \subseteq refs \cup calls
  <2> HIDE DEF refs, calls
  <2> QED BY <1>6, <1>7
<1>9. ASSUME NEW r \in Searched(s), Kind(r) = "DeclRefExpr" PROVE <<"refs", RefIri(dump.ref[r])>> \in due
  <2>1. PICK e : e = <<"refs", dump.ref[r]>>
    OBVIOUS
  <2>2. e \in Uses(r)
    BY <1>9, <2>1 DEF Uses
  <2>3. e \in Edges(s)
    BY <1>6, <2>2
  <2>4. e[1] = "refs" /\ e[2] = dump.ref[r]
    BY <2>1
  <2> QED BY <2>3, <2>4
<1>10. ASSUME NEW k \in Searched(s), Kind(k) = "CallExpr", NEW r \in Callee(k)
       PROVE  <<"calls", RefIri(dump.ref[r])>> \in due
  <2>1. PICK e : e = <<"calls", dump.ref[r]>>
    OBVIOUS
  <2>2. e \in Uses(k)
    BY <1>10, <2>1 DEF Uses
  <2>3. e \in Edges(s)
    BY <1>6, <2>2
  <2>4. e[1] = "calls" /\ e[2] = dump.ref[r]
    BY <2>1
  <2> QED BY <2>3, <2>4
<1>11. refs \cup calls \subseteq due
  <2> HIDE DEF due
  <2> QED BY <1>9, <1>10
<1> QED BY <1>5, <1>8, <1>11

\* A finished graph has, for each statement, an edge for every reference and for
\* the end of the first children of every call in what is searched for the statement,
\* and no other, by the IRIs the graph ends with (json_to_ttl.py, _extracted_refs,
\* _find_referenced_decl_id and _ref_iri).
THEOREM EdgesAlways == Spec => []EdgesAreExact
<1>1. Init => Base /\ Unique /\ Nested /\ Exact
  BY BaseInit, UniqueInit, NestedInit, ExactInit
<1>2. Base /\ Unique /\ Nested /\ [Next]_vars => (Base /\ Unique /\ Nested)'
  BY BaseStep, UniqueStep, NestedStep
<1>3. Base /\ Nested /\ Exact /\ OneNodePerIri' /\ [Next]_vars => Exact'
  BY ExactStep
<1>4. Base /\ Unique => OneNodePerIri
  BY UniqueSuffices
<1>5. Base /\ Unique /\ Nested /\ Exact => EdgesAreExact
  BY ExactSuffices
<1> QED BY <1>1, <1>2, <1>3, <1>4, <1>5, PTL DEF Spec
=============================================================================
