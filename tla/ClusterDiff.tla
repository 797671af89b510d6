---------------------------- MODULE ClusterDiff -----------------------------
(***************************************************************************)
(* rules/c/cli/c_cluster_diff.py: two functions of the tensor walked in    *)
(* lockstep, from the first FunctionDecl of each name, into C bindings.    *)
(*                                                                         *)
(* ident_idx and type_idx are treated alike by the code, as two columns;   *)
(* a name is the decoded vocabulary string, "" the sentinel.  A node's     *)
(* children are what children() finds along first_child and next_sibling.  *)
(***************************************************************************)
EXTENDS Integers, SequencesExt

CONSTANTS
  Corpora,             \* the tensors to diff in, see Corpus
  Canonical, Sibling   \* the two function names

Columns == {"ident", "type"}

\* Nodes are positions, in the order of the arrays.
Corpus == [kind : Seq(STRING), name : [Columns -> Seq(STRING)], kids : Seq(Seq(Nat))]

\* What ast_to_tensor.py writes: the arrays are of one length, a child's row lies
\* after that of its parent, and no row is the child of two.
IsTensor(k) ==
  /\ k \in Corpus
  /\ \A col \in Columns : Len(k.name[col]) = Len(k.kind)
  /\ Len(k.kids) = Len(k.kind)
  /\ \A n \in DOMAIN k.kids : \A i \in DOMAIN k.kids[n] :
       /\ k.kids[n][i] \in (n + 1)..Len(k.kind)
       /\ \A m \in DOMAIN k.kids : \A j \in DOMAIN k.kids[m] :
            k.kids[m][j] = k.kids[n][i] => m = n /\ j = i
ASSUME CorporaAssumption == \A k \in Corpora : IsTensor(k)

VARIABLES
  t,         \* the tensor
  diffPhase,     \* "find", "walk", "written", or "exit": a SystemExit
  todo,      \* the pairs diff_subtrees has still to compare, nearest first
  bindings,  \* bindings[col]: <<canonical, sibling>> names, as recorded
  holes,     \* the pairs of nodes where the trees diverge
  loose      \* loose[col].canonical, .sibling: names inside the holes

report == <<bindings, holes, loose>>
diffVars == <<t, diffPhase, todo, report>>
-----------------------------------------------------------------------------
Named(name) ==
  {n \in DOMAIN t.kind : t.kind[n] = "FunctionDecl" /\ t.name["ident"][n] = name}
FindFunction(name) == CHOOSE n \in Named(name) : \A m \in Named(name) : n <= m

Kids(n) == t.kids[n]
Name(col, n) == t.name[col][n]

\* collect_subtree_leaves: the names at and below a node, in pre-order.
Leaves(col, n) ==
  LET pre[m \in DOMAIN t.kind] ==
        (IF Name(col, m) = "" THEN <<>> ELSE <<Name(col, m)>>)
          \o FlattenSeq([i \in DOMAIN Kids(m) |-> pre[Kids(m)[i]]])
  IN pre[n]

\* _merge_unique: what is not yet in the list is appended, in order.
MergeUnique(list, more) ==
  LET upTo[i \in 0..Len(more)] ==
        IF i = 0 THEN list
        ELSE LET dest == upTo[i - 1]
             IN IF Contains(dest, more[i]) THEN dest ELSE Append(dest, more[i])
  IN upTo[Len(more)]
MergeNames(list, col, root) == MergeUnique(list, Leaves(col, root))

DiffInit ==
  /\ t \in Corpora
  /\ diffPhase = "find" /\ todo = <<>>
  /\ bindings = [col \in Columns |-> <<>>]
  /\ holes = <<>>
  /\ loose = [col \in Columns |-> [canonical |-> <<>>, sibling |-> <<>>]]

Find ==
  /\ diffPhase = "find"
  /\ IF Named(Canonical) = {} \/ Named(Sibling) = {}
     THEN diffPhase' = "exit" /\ UNCHANGED todo
     ELSE diffPhase' = "walk" /\ todo' = << <<FindFunction(Canonical), FindFunction(Sibling)>> >>
  /\ UNCHANGED <<t, report>>

Walking == diffPhase = "walk" /\ todo # <<>>
Left == Head(todo)[1]
Right == Head(todo)[2]

\* Mutated form: the names of the last hole replace those of the holes before it.
RecordLastHole ==
  /\ holes' = Append(holes, <<Left, Right>>)
  /\ loose' = [col \in Columns |->
       [canonical |-> MergeNames(<<>>, col, Left), sibling |-> MergeNames(<<>>, col, Right)]]

RecordHole ==
  /\ holes' = Append(holes, <<Left, Right>>)
  /\ loose' = [col \in Columns |->
       [canonical |-> MergeNames(loose[col].canonical, col, Left),
        sibling |-> MergeNames(loose[col].sibling, col, Right)]]

\* Mutated form: a missing name counts as a different one.
RecordAnyNames ==
  bindings' = [col \in Columns |->
    IF Name(col, Left) # Name(col, Right)
    THEN Append(bindings[col], <<Name(col, Left), Name(col, Right)>>)
    ELSE bindings[col]]

RecordNames ==
  bindings' = [col \in Columns |->
    IF Name(col, Left) # "" /\ Name(col, Right) # "" /\ Name(col, Left) # Name(col, Right)
    THEN Append(bindings[col], <<Name(col, Left), Name(col, Right)>>)
    ELSE bindings[col]]

KindsDiffer ==
  /\ Walking /\ t.kind[Left] # t.kind[Right]
  /\ RecordHole
  /\ todo' = Tail(todo)
  /\ UNCHANGED <<t, diffPhase, bindings>>

\* Mutated form: the children are paired as far as both lists go.
CountsDifferZipped ==
  /\ Walking /\ t.kind[Left] = t.kind[Right] /\ Len(Kids(Left)) # Len(Kids(Right))
  /\ RecordNames
  /\ todo' = Zip(Kids(Left), Kids(Right)) \o Tail(todo)
  /\ UNCHANGED <<t, diffPhase, holes, loose>>

CountsDiffer ==
  /\ Walking /\ t.kind[Left] = t.kind[Right] /\ Len(Kids(Left)) # Len(Kids(Right))
  /\ RecordNames /\ RecordHole
  /\ todo' = Tail(todo)
  /\ UNCHANGED <<t, diffPhase>>

Descend ==
  /\ Walking /\ t.kind[Left] = t.kind[Right] /\ Len(Kids(Left)) = Len(Kids(Right))
  /\ RecordNames
  /\ todo' = Zip(Kids(Left), Kids(Right)) \o Tail(todo)
  /\ UNCHANGED <<t, diffPhase, holes, loose>>

\* Mutated form: only the first pair of a canonical name is kept.
DedupByCanonical(pairs) ==
  FoldLeft(LAMBDA acc, p : IF \E q \in Range(acc) : q[1] = p[1] THEN acc ELSE Append(acc, p), <<>>, pairs)
\* render_toml writes each recorded pair once, in the order first recorded.
Dedup(pairs) == MergeUnique(<<>>, pairs)
Write ==
  /\ diffPhase = "walk" /\ todo = <<>>
  /\ diffPhase' = "written"
  /\ bindings' = [col \in Columns |-> Dedup(bindings[col])]
  /\ UNCHANGED <<t, todo, holes, loose>>

DiffEnded == diffPhase \in {"written", "exit"} /\ UNCHANGED diffVars

DiffNext == Find \/ KindsDiffer \/ CountsDiffer \/ Descend \/ Write \/ DiffEnded
DiffSpec == DiffInit /\ [][DiffNext]_diffVars
-----------------------------------------------------------------------------
Nodes == DOMAIN t.kind
Names == UNION {Range(t.name[col]) : col \in Columns}

DiffTypeOK ==
  /\ diffPhase \in {"find", "walk", "written", "exit"}
  /\ todo \in Seq(Nodes \X Nodes) /\ holes \in Seq(Nodes \X Nodes)
  /\ bindings \in [Columns -> Seq((Names \ {""}) \X (Names \ {""}))]
  /\ loose \in [Columns -> [canonical : Seq(Names \ {""}), sibling : Seq(Names \ {""})]]

(* A reference definition, by generations instead of by walk: which nodes of *)
(* two trees correspond.  The i-th children of two nodes do when the nodes   *)
(* do and are of one kind with as many children.                             *)

SameKind(p) == t.kind[p[1]] = t.kind[p[2]]
SameShape(p) == SameKind(p) /\ Len(Kids(p[1])) = Len(Kids(p[2]))
ChildPairs(p) == {<<Kids(p[1])[i], Kids(p[2])[i]>> : i \in DOMAIN Kids(p[1])}
AlignedFrom(roots) ==
  LET generation[d \in 0..Len(t.kind)] ==
        IF d = 0 THEN {roots}
        ELSE UNION {ChildPairs(p) : p \in {q \in generation[d - 1] : SameShape(q)}}
  IN UNION {generation[d] : d \in 0..Len(t.kind)}
Aligned == AlignedFrom(<<FindFunction(Canonical), FindFunction(Sibling)>>)
NameOf(col, p) == <<Name(col, p[1]), Name(col, p[2])>>

\* The report holds exactly the differences at corresponding positions: a pair
\* of names for every two nodes of one kind that correspond and bear different
\* names, and a hole, once, for every topmost position where the shapes part;
\* nothing from below a hole.
ReportIsExact ==
  diffPhase = "written" =>
    /\ \A col \in Columns :
         /\ Range(bindings[col]) = {NameOf(col, p) : p \in
              {q \in Aligned : SameKind(q) /\ "" \notin Range(NameOf(col, q))
                                /\ NameOf(col, q)[1] # NameOf(col, q)[2]}}
         /\ IsInjective(bindings[col])
    /\ Range(holes) = {p \in Aligned : ~SameShape(p)}
    /\ IsInjective(holes)

\* What the walk cannot align it still names: every name below either side of a
\* hole is listed, once, for [structural_pairs] to refer to, and no other name.
Subtree(root) == {p[1] : p \in AlignedFrom(<<root, root>>)}
InHole(side) == UNION {Subtree(h[side]) : h \in Range(holes)}
LooseNamesComplete ==
  \A col \in Columns :
    /\ Range(loose[col].canonical) = {Name(col, n) : n \in InHole(1)} \ {""}
    /\ Range(loose[col].sibling) = {Name(col, n) : n \in InHole(2)} \ {""}
    /\ IsInjective(loose[col].canonical) /\ IsInjective(loose[col].sibling)
=============================================================================
