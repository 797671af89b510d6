----------------------------- MODULE AstTensor ------------------------------
(***************************************************************************)
(* rules/c/cli/ast_to_tensor.py: the dumps a manifest lists, walked one    *)
(* after the other into parallel arrays and vocabularies.                  *)
(*                                                                         *)
(* The twelve arrays are appended to together, so one sequence of records  *)
(* stands for them (nodes[i + 1] is index i of each array); of the arrays  *)
(* that only copy a value, kind, ident_idx and tu_idx are kept.  The       *)
(* recursion of visit is a stack of frames.                                *)
(***************************************************************************)
EXTENDS Integers, Sequences, Functions

CONSTANTS
  Manifests,     \* the "ok" lists the tool may be given, see Dump
  KeepAll,       \* --include-implicit
  MaxU16,        \* largest value of a uint16 array
  MaxU8,         \* largest value of a uint8 array
  RecursionLimit \* how many visits Python nests

\* A dump: the manifest entry and the file it leads to, "bytes" if that is not
\* UTF-8, "unreadable" if it cannot be opened or is no JSON, "value" if it is JSON
\* but no object, else "object".  Tree nodes are 1..Len(tree.inner), 1 the root; an
\* entry 0 of "inner" is not an object.
Tree == [inner : Seq(Seq(Nat)), main : SUBSET Nat, kind : Seq(STRING),
         name : Seq(STRING), ref : Seq(STRING)]
Files == {"bytes", "unreadable", "value", "object"}
Dump == [source : STRING, hasAst : BOOLEAN, file : Files, tree : Tree]

ASSUME TensorAssumption ==
  /\ KeepAll \in BOOLEAN
  /\ MaxU16 \in Nat /\ MaxU8 \in Nat /\ RecursionLimit \in Nat \ {0}

\* Every node of a tree has a kind, a name and a reference, be they "", and its
\* children are nodes of the tree.
WellFormed(tree) ==
  /\ 1 \in DOMAIN tree.inner
  /\ \A column \in {tree.kind, tree.name, tree.ref} : Len(column) = Len(tree.inner)
  /\ \A n \in DOMAIN tree.inner : \A i \in DOMAIN tree.inner[n] :
       tree.inner[n][i] \in 0..Len(tree.inner)

ASSUME ManifestAssumption ==
  \A m \in Manifests :
    /\ m \in Seq(Dump)
    /\ \A e \in DOMAIN m : WellFormed(m[e].tree)

VARIABLES
  manifest,    \* the "ok" list of this run
  phase,       \* "load", "done" once finalize wrote the corpus, or "died"
  entry,       \* the entry main is at
  stack,       \* the active visits, innermost last
  nodes,       \* the arrays
  kinds, idents, tus   \* the vocabularies

vocabs == <<kinds, idents, tus>>
vars == <<manifest, phase, entry, stack, nodes, vocabs>>
-----------------------------------------------------------------------------
(* Interning: an index is a position counted from 0, where the sentinel is. *)

IdOf(vocab, s) ==
  IF s \in Range(vocab) THEN (CHOOSE i \in DOMAIN vocab : vocab[i] = s) - 1
  ELSE Len(vocab)
\* Mutated form: a string is stored again at each use.
GrowAlways(vocab, s) == Append(vocab, s)
Grow(vocab, s) == IF s \in Range(vocab) THEN vocab ELSE Append(vocab, s)

\* Mutated form: the value is not clamped.
First(a, b) == a
Min2(a, b) == IF a < b THEN a ELSE b

\* The entry main is at.
Now == manifest[entry]
IsMain(n) == KeepAll \/ n \in Now.tree.main
IdentOf(n) == IF Now.tree.name[n] # "" THEN Now.tree.name[n] ELSE Now.tree.ref[n]

Init ==
  /\ manifest \in Manifests
  /\ phase = "load" /\ entry = 1
  /\ stack = <<>> /\ nodes = <<>>
  /\ kinds = <<"<unknown>">> /\ idents = <<"">> /\ tus = <<"<root>">>

\* The row visit appends, links unset, and the frame it works in.
Row(n, parent, depth, tu) ==
  [kind |-> IdOf(kinds, Now.tree.kind[n]), parent |-> parent,
   first |-> -1, next |-> -1, depth |-> Min2(depth, MaxU8),
   ident |-> IdOf(idents, IdentOf(n)), tu |-> tu, from |-> <<entry, n>>]
Frame(n, depth) ==
  [node |-> n, idx |-> Len(nodes), depth |-> depth, at |-> 1, prev |-> -1]
Fits(n, tu) ==
  Len(stack) < RecursionLimit /\ IdOf(kinds, Now.tree.kind[n]) <= MaxU16 /\ tu <= MaxU16

Advance(f) == [f EXCEPT !.at = @ + 1]

\* Mutated form: a node that hits a limit is left out, with what is below it.
EnterOrDrop(n, parent, depth, tu) ==
  /\ IF Fits(n, tu)
     THEN /\ nodes' = Append(nodes, Row(n, parent, depth, tu))
          /\ kinds' = Grow(kinds, Now.tree.kind[n])
          /\ idents' = Grow(idents, IdentOf(n))
          /\ stack' = Append(stack, Frame(n, depth))
          /\ UNCHANGED phase
     ELSE /\ IF stack = <<>> THEN phase' = "died" /\ UNCHANGED stack
             ELSE UNCHANGED phase /\ stack' = [stack EXCEPT ![Len(stack)] = Advance(@)]
          /\ UNCHANGED <<nodes, kinds, idents>>
  /\ UNCHANGED <<manifest, entry>>

\* A visit begins: one node is appended to every array.  Beyond Python's
\* recursion limit, or an index that does not fit its array, the run dies of
\* the exception, and nothing is finalized.
Enter(n, parent, depth, tu) ==
  /\ IF Fits(n, tu)
     THEN /\ nodes' = Append(nodes, Row(n, parent, depth, tu))
          /\ kinds' = Grow(kinds, Now.tree.kind[n])
          /\ idents' = Grow(idents, IdentOf(n))
          /\ stack' = Append(stack, Frame(n, depth))
          /\ UNCHANGED phase
     ELSE phase' = "died" /\ UNCHANGED <<nodes, kinds, idents, stack>>
  /\ UNCHANGED <<manifest, entry>>

Ready == phase = "load" /\ stack = <<>> /\ entry <= Len(manifest)

\* entry["ast_json"]: a manifest of llvm mode has no such key.
NoAstKey ==
  /\ Ready /\ ~Now.hasAst
  /\ phase' = "died"
  /\ UNCHANGED <<manifest, entry, stack, nodes, vocabs>>

\* The except around the read lists no UnicodeDecodeError: it ends the run.
Undecodable ==
  /\ Ready /\ Now.hasAst /\ Now.file = "bytes"
  /\ phase' = "died"
  /\ UNCHANGED <<manifest, entry, stack, nodes, vocabs>>

\* A payload that is no object fails in the visit, its source interned by then.
NotAnObject ==
  /\ Ready /\ Now.hasAst /\ Now.file = "value"
  /\ phase' = "died"
  /\ tus' = Grow(tus, Now.source)
  /\ UNCHANGED <<manifest, entry, stack, nodes, kinds, idents>>

\* Mutated form: the source is interned before its dump is read.
SkipUnreadableInterned ==
  /\ Ready /\ Now.hasAst /\ Now.file = "unreadable"
  /\ entry' = entry + 1
  /\ tus' = Grow(tus, Now.source)
  /\ UNCHANGED <<manifest, phase, stack, nodes, kinds, idents>>

SkipUnreadable ==
  /\ Ready /\ Now.hasAst /\ Now.file = "unreadable"
  /\ entry' = entry + 1
  /\ UNCHANGED <<manifest, phase, stack, nodes, vocabs>>

AddTranslationUnit ==
  /\ Ready /\ Now.hasAst /\ Now.file = "object"
  /\ tus' = Grow(tus, Now.source)
  /\ IF IsMain(1) THEN Enter(1, -1, 0, IdOf(tus, Now.source))
     ELSE entry' = entry + 1 /\ UNCHANGED <<manifest, phase, stack, nodes, kinds, idents>>
-----------------------------------------------------------------------------
Top == stack[Len(stack)]
Inner == Now.tree.inner[Top.node]
InVisit == phase = "load" /\ stack # <<>>
Child == Inner[Top.at]
Survives(c) == c # 0 /\ IsMain(c)

\* The visit of an object is called before the filter is asked.
CannotCall == Child # 0 /\ Len(stack) >= RecursionLimit

\* Mutated form: a skipped child breaks the sibling chain.
SkipChildUnlinking ==
  /\ InVisit /\ Top.at <= Len(Inner) /\ ~Survives(Child)
  /\ IF CannotCall THEN phase' = "died" /\ UNCHANGED stack
     ELSE /\ stack' = [stack EXCEPT ![Len(stack)] = [Advance(@) EXCEPT !.prev = -1]]
          /\ UNCHANGED phase
  /\ UNCHANGED <<manifest, entry, nodes, vocabs>>

\* Mutated form: a skipped child is visited again.
SkipChildStuck ==
  /\ InVisit /\ Top.at <= Len(Inner) /\ ~Survives(Child)
  /\ UNCHANGED vars

\* Not an object, or its visit returned -1, if there was room for the call.
SkipChild ==
  /\ InVisit /\ Top.at <= Len(Inner) /\ ~Survives(Child)
  /\ IF CannotCall THEN phase' = "died" /\ UNCHANGED stack
     ELSE stack' = [stack EXCEPT ![Len(stack)] = Advance(@)] /\ UNCHANGED phase
  /\ UNCHANGED <<manifest, entry, nodes, vocabs>>

VisitChild ==
  /\ InVisit /\ Top.at <= Len(Inner) /\ Survives(Child)
  /\ Enter(Child, Top.idx, Top.depth + 1, nodes[Top.idx + 1].tu)
  /\ UNCHANGED tus

\* Mutated form: first_child follows the last child.
LinkLastFirst(arr, parent, prev, idx) ==
  [i \in DOMAIN arr |->
     [arr[i] EXCEPT
        !.first = IF i = parent + 1 THEN idx ELSE @,
        !.next = IF i = prev + 1 THEN idx ELSE @]]

\* visit returns idx to the frame of its parent, which links it as its first
\* child, or after the sibling it linked before; the root's return ends the TU.
Link(arr, parent, prev, idx) ==
  [i \in DOMAIN arr |->
     [arr[i] EXCEPT
        !.first = IF i = parent + 1 /\ @ = -1 THEN idx ELSE @,
        !.next = IF i = prev + 1 THEN idx ELSE @]]

Return ==
  /\ InVisit /\ Top.at > Len(Inner)
  /\ IF Len(stack) = 1
     THEN stack' = <<>> /\ entry' = entry + 1 /\ UNCHANGED nodes
     ELSE LET up == stack[Len(stack) - 1]
          IN /\ nodes' = Link(nodes, up.idx, up.prev, Top.idx)
             /\ stack' = Append(SubSeq(stack, 1, Len(stack) - 2),
                                [Advance(up) EXCEPT !.prev = Top.idx])
             /\ UNCHANGED entry
  /\ UNCHANGED <<manifest, phase, vocabs>>

Finalize ==
  /\ phase = "load" /\ stack = <<>> /\ entry > Len(manifest)
  /\ phase' = "done"
  /\ UNCHANGED <<manifest, entry, stack, nodes, vocabs>>

Stopped == phase # "load" /\ UNCHANGED vars

Next ==
  \/ NoAstKey \/ Undecodable \/ NotAnObject \/ SkipUnreadable \/ AddTranslationUnit
  \/ SkipChild \/ VisitChild \/ Return
  \/ Finalize \/ Stopped

Spec == Init /\ [][Next]_vars
FairSpec == Spec /\ WF_vars(Next)
-----------------------------------------------------------------------------
Idx == 0..(Len(nodes) - 1)
Node(i) == nodes[i + 1]
Link0 == Idx \cup {-1}

TypeOK ==
  /\ manifest \in Manifests
  /\ phase \in {"load", "done", "died"}
  /\ entry \in 1..(Len(manifest) + 1)
  /\ \A k \in DOMAIN stack :
       /\ stack[k].idx \in Idx /\ stack[k].prev \in Link0
       /\ stack[k].node = Node(stack[k].idx).from[2]
       /\ stack[k].at \in 1..(Len(Now.tree.inner[stack[k].node]) + 1)
       /\ k > 1 => Node(stack[k].idx).parent = stack[k - 1].idx
  /\ \A i \in Idx :
       /\ Node(i).parent \in -1..(i - 1)
       /\ Node(i).first \in Link0 /\ Node(i).next \in Link0
       /\ Node(i).depth \in 0..MaxU8
       /\ Node(i).kind \in 0..MaxU16 /\ Node(i).tu \in 0..MaxU16
       /\ Node(i).ident \in 0..(Len(idents) - 1)

\* The dump and the tree node index i of the arrays stands for.
TreeAt(i) == manifest[Node(i).from[1]].tree
NodeAt(i) == Node(i).from[2]

\* The k-th child as a reader finds it, following first_child and next_sibling.
KthChild(i, k) ==
  LET chain[j \in 1..k] ==
        IF j = 1 THEN Node(i).first
        ELSE IF chain[j - 1] \in Idx THEN Node(chain[j - 1]).next ELSE -1
  IN chain[k]

\* What the filter leaves of the first p of the entries listed.
KeptOf(tree, list) ==
  LET upTo[p \in 0..Len(list)] ==
        IF p = 0 THEN <<>>
        ELSE IF list[p] # 0 /\ (KeepAll \/ list[p] \in tree.main)
             THEN Append(upTo[p - 1], list[p]) ELSE upTo[p - 1]
  IN upTo
KeptChildren(i) ==
  LET list == TreeAt(i).inner[NodeAt(i)] IN KeptOf(TreeAt(i), list)[Len(list)]

\* The finished arrays give every node exactly the children its JSON node has,
\* less those in headers or implicit, in their order, each with its depth and
\* none twice: the links of a skipped child, and of what is below it, never
\* show, although the links are set while the walk comes back up.
ChildrenAsWritten ==
  phase = "done" =>
    \A i \in Idx :
      LET kept == KeptChildren(i)
      IN /\ KthChild(i, Len(kept) + 1) = -1
         /\ \A k \in DOMAIN kept :
              LET j == KthChild(i, k)
              IN /\ j \in Idx
                 /\ Node(j).from = <<Node(i).from[1], kept[k]>>
                 /\ Node(j).parent = i /\ Node(j).tu = Node(i).tu
                 /\ Node(j).depth = Min2(Node(i).depth + 1, MaxU8)
         /\ \A j \in Idx : Node(j).parent = i => \E k \in DOMAIN kept : j = KthChild(i, k)

\* The roots are the dumps read whose translation unit survives the filter, one
\* each in manifest order and under the name of its own source; an unreadable dump
\* leaves neither a node nor a tu_vocab entry behind.
Roots == {i \in Idx : Node(i).parent = -1}
Readable == {e \in DOMAIN manifest : manifest[e].file = "object"}
Walked == {e \in Readable : KeepAll \/ 1 \in manifest[e].tree.main}
RootPerDump ==
  phase = "done" =>
    /\ {Node(i).from : i \in Roots} = {<<e, 1>> : e \in Walked}
    /\ \A i, j \in Roots : i < j => Node(i).from[1] < Node(j).from[1]
    /\ \A i \in Roots : tus[Node(i).tu + 1] = manifest[Node(i).from[1]].source
    /\ Range(tus) = {"<root>"} \cup {manifest[e].source : e \in Readable}

\* Every index of a vocabulary column decodes to the string it was made from,
\* for the nodes of earlier dumps as well, while the vocabularies grow; index 0
\* stays the sentinel.
IsVocab(vocab, sentinel) ==
  vocab[1] = sentinel /\ \A i, j \in DOMAIN vocab : vocab[i] = vocab[j] => i = j
VocabsDecode ==
  /\ IsVocab(kinds, "<unknown>") /\ IsVocab(idents, "") /\ IsVocab(tus, "<root>")
  /\ \A i \in Idx :
       LET t == TreeAt(i) n == NodeAt(i)
       IN /\ kinds[Node(i).kind + 1] = t.kind[n]
          /\ idents[Node(i).ident + 1] = (IF t.name[n] # "" THEN t.name[n] ELSE t.ref[n])
          /\ tus[Node(i).tu + 1] = manifest[Node(i).from[1]].source

\* A link is set once, and no other column of a written row ever changes.
LinksSetOnce ==
  [][/\ Len(nodes') >= Len(nodes)
     /\ \A i \in DOMAIN nodes :
          /\ [nodes'[i] EXCEPT !.first = 0, !.next = 0] = [nodes[i] EXCEPT !.first = 0, !.next = 0]
          /\ nodes[i].first # -1 => nodes'[i].first = nodes[i].first
          /\ nodes[i].next # -1 => nodes'[i].next = nodes[i].next]_vars

\* The walk ends: the corpus is written, or the run died of an exception.
Completes == <>(phase # "load")
=============================================================================
